--------------------------- MODULE ClusterProofs ---------------------------
(***************************************************************************)
(* Proofs for any number of jobs, groups, nodes, handler goroutines and    *)
(* executions.  First about the circuit breaker, whatever jobs it hears    *)
(* of; then about the master, whatever workers and clients do: it is well  *)
(* typed, no queued job is lost and no retry is forgotten; then about the  *)
(* whole system, whose every step is one of the master or leaves it alone. *)
(***************************************************************************)
EXTENDS Cluster, BreakerHistory, WellFoundedInduction, TLAPS

-----------------------------------------------------------------------------
(* The circuit breaker *)

\* The strengthening: types, the count behind every block, and the culprits
\* behind every count.
BreakerInv == HistoryTypeOK /\ BlockedByCount /\ CountsMeanCulprits

\* An empty breaker satisfies the invariant.
LEMMA BreakerInvInit == HistoryInit => BreakerInv
BY NullAssumption
DEF HistoryInit, BreakerInit, BreakerInv, HistoryTypeOK, BreakerTypeOK,
    BlockedByCount, CountsMeanCulprits, Threshold

\* RecordFailure keeps the invariant: a repeated culprit is not counted, a new
\* one differs from the one before.
LEMMA FailureKeepsInv ==
    ASSUME BreakerInv, NEW n \in Nodes, NEW j \in Jobs, FailureHeard(n, j)
    PROVE  BreakerInv'
<1> USE DEF BreakerInv, HistoryTypeOK, BreakerTypeOK, Threshold
<1>1. CASE lastFailed[n] = j
  <2>1. UNCHANGED breakerVars
    BY <1>1 DEF FailureHeard, RecordFailure
  <2>2. HistoryTypeOK' /\ BlockedByCount'
    BY <2>1 DEF FailureHeard, breakerVars, BlockedByCount
  <2>3. CountsMeanCulprits'
    BY <2>1 DEF FailureHeard, breakerVars, CountsMeanCulprits
  <2> QED BY <2>2, <2>3
<1>2. CASE lastFailed[n] # j
  <2>1. /\ lastFailed' = [lastFailed EXCEPT ![n] = j]
        /\ failures' = [failures EXCEPT ![n] = @ + 1]
        /\ blocked' = [blocked EXCEPT ![n] =
                          IF failures[n] + 1 >= Threshold THEN "yes" ELSE @]
        /\ culprits' = [culprits EXCEPT ![n] = @ \cup {j}]
    BY <1>2 DEF FailureHeard, RecordFailure
  <2>2. HistoryTypeOK'
    BY <2>1
  <2>3. BlockedByCount'
    BY <2>1 DEF BlockedByCount
  <2>4. CountsMeanCulprits'
    <3> SUFFICES ASSUME NEW m \in Nodes
                 PROVE  /\ failures'[m] = 0 <=> lastFailed'[m] = NoJob
                        /\ failures'[m] > 0 => lastFailed'[m] \in culprits'[m]
                        /\ failures'[m] > 1 => \E i, k \in culprits'[m] : i # k
      BY DEF CountsMeanCulprits
    <3>1. CASE m # n
      BY <2>1, <3>1 DEF CountsMeanCulprits
    <3>2. CASE m = n
      <4>1. /\ failures'[m] = failures[m] + 1 /\ lastFailed'[m] = j
            /\ culprits'[m] = culprits[m] \cup {j}
        BY <2>1, <3>2
      <4>2. failures[m] > 0 => lastFailed[m] \in culprits[m] /\ lastFailed[m] # j
        BY <1>2, <3>2 DEF CountsMeanCulprits
      <4> QED BY <4>1, <4>2, NullAssumption
    <3> QED BY <3>1, <3>2
  <2> QED BY <2>2, <2>3, <2>4
<1> QED BY <1>1, <1>2

\* Removing every entry of a node keeps the invariant.
LEMMA ForgetKeepsInv ==
    ASSUME BreakerInv, NEW S \in SUBSET Nodes, Forget(S),
           culprits' = [n \in Nodes |-> IF n \in S THEN {} ELSE culprits[n]]
    PROVE  BreakerInv'
<1> USE DEF BreakerInv, HistoryTypeOK, BreakerTypeOK, Threshold, Forget
<1>1. HistoryTypeOK'
  OBVIOUS
<1>2. BlockedByCount'
  BY DEF BlockedByCount
<1>3. CountsMeanCulprits'
  BY DEF CountsMeanCulprits
<1> QED BY <1>1, <1>2, <1>3

\* Every step keeps the invariant.
LEMMA BreakerInvNext == BreakerInv /\ [HistoryNext]_historyVars => BreakerInv'
<1> SUFFICES ASSUME BreakerInv, [HistoryNext]_historyVars PROVE BreakerInv'
  OBVIOUS
<1>1. ASSUME NEW n \in Nodes, NEW j \in Jobs, FailureHeard(n, j) PROVE BreakerInv'
  BY <1>1, FailureKeepsInv
<1>2. ASSUME NEW n \in Nodes, SuccessHeard(n) PROVE BreakerInv'
  <2>1. culprits' = [m \in Nodes |-> IF m \in {n} THEN {} ELSE culprits[m]]
    BY <1>2 DEF SuccessHeard, BreakerInv, HistoryTypeOK
  <2> QED BY <1>2, <2>1, ForgetKeepsInv DEF SuccessHeard, RecordSuccess
<1>3. ASSUME NEW n \in Nodes, Asked(n) PROVE BreakerInv'
  <2>1. culprits' = [m \in Nodes |-> IF m \in Overdue({n}) THEN {} ELSE culprits[m]]
    BY <1>3 DEF Asked, Overdue, BreakerInv, HistoryTypeOK
  <2>2. Overdue({n}) \in SUBSET Nodes
    BY DEF Overdue
  <2> QED BY <1>3, <2>1, <2>2, ForgetKeepsInv DEF Asked, LookAt
<1>4. ASSUME NEW n \in Nodes, Waited(n) PROVE BreakerInv'
  BY <1>4
  DEF Waited, BlockRunsOut, BreakerInv, HistoryTypeOK, BreakerTypeOK,
      BlockedByCount, CountsMeanCulprits
<1>5. CASE UNCHANGED historyVars
  BY <1>5
  DEF historyVars, breakerVars, BreakerInv, HistoryTypeOK, BreakerTypeOK,
      BlockedByCount, CountsMeanCulprits
<1> QED BY <1>1, <1>2, <1>3, <1>4, <1>5 DEF HistoryNext

\* A block means that two different jobs failed on the node.
LEMMA InvMeansNoPoisonPill == BreakerInv => NoPoisonPill
BY DEF BreakerInv, HistoryTypeOK, BreakerTypeOK, BlockedByCount,
       CountsMeanCulprits, NoPoisonPill, Threshold

\* The breaker blocks a node exactly when it has counted three failures.
THEOREM BlockNeedsCount == HistorySpec => []BlockedByCount
<1>1. BreakerInv => BlockedByCount
  BY DEF BreakerInv
<1> QED BY <1>1, BreakerInvInit, BreakerInvNext, PTL DEF HistorySpec

\* No single job, however often it fails, takes a node out of service.
THEOREM PoisonPillHarmless == HistorySpec => []NoPoisonPill
BY BreakerInvInit, BreakerInvNext, InvMeansNoPoisonPill, PTL DEF HistorySpec

\* The counters stay counters, and the culprits are jobs, for any set of nodes
\* and jobs (circuitBreaker of internal/daemon/master.go).
THEOREM BreakerTypeCorrect == HistorySpec => []HistoryTypeOK
<1>1. BreakerInv => HistoryTypeOK
  BY DEF BreakerInv
<1> QED BY <1>1, BreakerInvInit, BreakerInvNext, PTL DEF HistorySpec

\* RecordFailure, RecordSuccess and IsBlocked keep the count and the last
\* culprit together: a second count always has a second culprit.
THEOREM CountNeedsCulprits == HistorySpec => []CountsMeanCulprits
<1>1. BreakerInv => CountsMeanCulprits
  BY DEF BreakerInv
<1> QED BY <1>1, BreakerInvInit, BreakerInvNext, PTL DEF HistorySpec

-----------------------------------------------------------------------------
(* Queue order *)

\* Any set of jobs that is not empty has a first one: JobQueue.Less orders
\* jobs by numbers.
LEMMA FirstIsFirst ==
    ASSUME NEW S \in SUBSET Jobs, S # {}
    PROVE  First(S) \in S /\ \A k \in S : Order[First(S)] <= Order[k]
<1> DEFINE T == {Order[j] : j \in S}
           R == {p \in Nat \X Nat : p[1] < p[2]}
<1>1. T \subseteq Nat /\ T # {}
  BY OrderAssumption
<1>2. IsWellFoundedOn(R, Nat)
  BY NatLessThanWellFounded DEF OpToRel
<1> HIDE DEF R, T
<1>3. \E x \in T : \A y \in T : ~(<<y, x>> \in R)
  BY <1>1, <1>2, WFMin
<1>4. PICK x \in T : \A y \in T : ~(<<y, x>> \in R)
  BY <1>3
<1>5. \A a, b \in Nat : a < b => <<a, b>> \in R
  BY DEF R
<1>6. \A y \in T : x <= y
  <2> SUFFICES ASSUME NEW y \in T PROVE x <= y
    OBVIOUS
  <2>1. x \in Nat /\ y \in Nat
    BY <1>1
  <2>2. ~(y < x)
    BY <1>4, <1>5, <2>1
  <2> QED BY <2>1, <2>2
<1>7. \E j \in S : \A k \in S : Order[j] <= Order[k]
  BY <1>6 DEF T
<1> QED BY <1>7 DEF First

\* The first entry of a queue that is not empty is in the queue.
LEMMA TopIsQueued ==
    ASSUME InHeap # {}
    PROVE  Top \in Jobs /\ heap[Top] > 0
BY FirstIsFirst DEF Top, InHeap

-----------------------------------------------------------------------------
(* The queue *)

\* heap.Push keeps the queue's type: an index is only given to a job that has
\* an entry.
LEMMA HeapPushType ==
    ASSUME HeapTypeOK, NEW j \in Jobs, HeapPush(j)
    PROVE  HeapTypeOK' /\ heap'[j] > 0
BY DEF HeapTypeOK, HeapPush, InHeap

\* heap.Remove keeps the queue's type although it forgets the index of a job
\* that has another entry, and it takes an entry of no other job.
LEMMA HeapRemoveType ==
    ASSUME HeapTypeOK, NEW j \in Jobs, HeapRemove(j)
    PROVE  HeapTypeOK' /\ \A k \in Jobs \ {j} : heap'[k] = heap[k]
BY DEF HeapTypeOK, HeapRemove, InHeap

\* Removing by index keeps the queue's type and touches no other job's entry.
LEMMA RemoveIndexedType ==
    ASSUME HeapTypeOK, NEW j \in Jobs, RemoveIndexed(j)
    PROVE  HeapTypeOK' /\ \A k \in Jobs \ {j} : heap'[k] = heap[k]
<1>1. CASE j \in indexed
  BY <1>1, HeapRemoveType DEF RemoveIndexed
<1>2. CASE j \notin indexed
  BY <1>2 DEF RemoveIndexed, heapVars, HeapTypeOK
<1> QED BY <1>1, <1>2

-----------------------------------------------------------------------------
(* The methods of GlobalScheduler keep the job table's type *)

\* A step that does not touch the scheduler keeps its type.
LEMMA SchedUnchanged == SchedTypeOK /\ UNCHANGED schedVars => SchedTypeOK'
BY DEF SchedTypeOK, HeapTypeOK, schedVars

\* Enqueue.
LEMMA EnqueueType ==
    ASSUME SchedTypeOK, NEW j \in Jobs, Enqueue(j)
    PROVE  SchedTypeOK'
BY HeapPushType DEF SchedTypeOK, Enqueue, JobStates

\* Dequeue, and Backfill, which takes an entry from anywhere.
LEMMA TakeType ==
    ASSUME SchedTypeOK, NEW j \in Jobs, Dequeue(j) \/ Backfill(j)
    PROVE  SchedTypeOK'
BY HeapRemoveType DEF SchedTypeOK, Dequeue, Backfill, HeapPop, jobVars

\* RemoveByID.
LEMMA RemoveByIDType ==
    ASSUME SchedTypeOK, NEW j \in Jobs, RemoveByID(j)
    PROVE  SchedTypeOK'
<1>1. HeapTypeOK'
  <2>1. CASE state[j] = "QUEUED"
    BY <2>1, RemoveIndexedType DEF SchedTypeOK, RemoveByID
  <2>2. CASE state[j] # "QUEUED"
    BY <2>2 DEF SchedTypeOK, RemoveByID, heapVars, HeapTypeOK
  <2> QED BY <2>1, <2>2
<1> QED BY <1>1 DEF SchedTypeOK, RemoveByID, jobVars

\* Cancel.
LEMMA CancelType ==
    ASSUME SchedTypeOK, NEW j \in Jobs, Cancel(j)
    PROVE  SchedTypeOK'
<1>1. HeapTypeOK'
  <2>1. CASE state[j] = "QUEUED"
    BY <2>1, RemoveIndexedType DEF SchedTypeOK, Cancel
  <2>2. CASE state[j] # "QUEUED"
    BY <2>2 DEF SchedTypeOK, Cancel, Cancellable, heapVars, HeapTypeOK
  <2> QED BY <2>1, <2>2
<1> QED BY <1>1 DEF SchedTypeOK, Cancel, JobStates

\* Requeue.
LEMMA RequeueType ==
    ASSUME SchedTypeOK, NEW j \in Jobs, Requeue(j)
    PROVE  SchedTypeOK'
BY HeapPushType DEF SchedTypeOK, Requeue, JobStates, Errors

\* MarkRunning.
LEMMA MarkRunningType ==
    ASSUME SchedTypeOK, NEW j \in Jobs, NEW n \in Nodes, MarkRunning(j, n)
    PROVE  SchedTypeOK'
BY DEF SchedTypeOK, HeapTypeOK, MarkRunning, JobStates, heapVars

\* RequeueRunningJob.
LEMMA RequeueRunningJobType ==
    ASSUME SchedTypeOK, NEW j \in Jobs, RequeueRunningJob(j)
    PROVE  SchedTypeOK'
BY HeapPushType DEF SchedTypeOK, RequeueRunningJob, JobStates

\* MarkCompleted.
LEMMA MarkCompletedType ==
    ASSUME SchedTypeOK, NEW j \in Jobs, NEW e \in Errors, MarkCompleted(j, e)
    PROVE  SchedTypeOK'
BY DEF SchedTypeOK, HeapTypeOK, MarkCompleted, JobStates, heapVars

\* RegisterGroup and SetGroupState.
LEMMA GroupType ==
    ASSUME SchedTypeOK, NEW g \in Groups, NEW s \in GroupStates,
           SetGroupState(g, s) \/ RegisterGroup(g)
    PROVE  SchedTypeOK'
BY DEF SchedTypeOK, HeapTypeOK, SetGroupState, RegisterGroup, GroupStates, jobVars, heapVars

-----------------------------------------------------------------------------
(* The circuit breaker and the resource tracker keep their types *)

\* A step that does not touch the breaker keeps its type.
LEMMA BreakerUnchanged == BreakerTypeOK /\ UNCHANGED breakerVars => BreakerTypeOK'
BY DEF BreakerTypeOK, breakerVars

\* RecordSuccess, and IsBlocked with the entries it removes.
LEMMA ForgetType ==
    ASSUME BreakerTypeOK, NEW S, Forget(S)
    PROVE  BreakerTypeOK'
BY DEF BreakerTypeOK, Forget

\* RecordFailure.
LEMMA RecordFailureType ==
    ASSUME BreakerTypeOK, NEW n \in Nodes, NEW j \in Jobs, RecordFailure(n, j)
    PROVE  BreakerTypeOK'
BY DEF BreakerTypeOK, RecordFailure, breakerVars, Threshold

\* Release never takes more than there is: it clamps at zero.
LEMMA ReleaseType ==
    ASSUME alloc \in [Nodes -> Nat], NEW j \in Jobs, NEW n,
           ReleaseIfPlaced(n, j) \/ (n \in Nodes /\ Release(n, j))
    PROVE  alloc' \in [Nodes -> Nat]
BY ResourceAssumption DEF ReleaseIfPlaced, Release

-----------------------------------------------------------------------------
(* The goroutines' records *)

\* The records goroutines start from hold nothing, and have their types.
LEMMA IdleOK ==
    /\ CallOK(IdleCall) /\ DispOK(IdleDisp) /\ GossipOK(IdleGossip)
    /\ WallOK(IdleWall) /\ ShakeOK(IdleShake)
<1>1. CallOK(IdleCall)
  BY DEF CallOK, CallType, IdleCall, MaybeJob, MaybeNode
<1>2. DispOK(IdleDisp)
  BY DEF DispOK, DispType, IdleDisp, NoPlan, MaybeJob, MaybeNode
<1>3. GossipOK(IdleGossip)
  BY DEF GossipOK, GossipType, IdleGossip, MaybeJob, MaybeNode
<1>4. WallOK(IdleWall)
  BY DEF WallOK, WallType, IdleWall, MaybeJob, MaybeNode
<1>5. ShakeOK(IdleShake)
  BY DEF ShakeOK, ShakeType, IdleShake, MaybeJob, MaybeNode
<1> QED BY <1>1, <1>2, <1>3, <1>4, <1>5

\* The handlers' part of TypeOK.
CallsOK == rpc \in [Calls -> CallType] /\ \A c \in Calls : CallOK(rpc[c])

\* A handler that goes on with a good record leaves all records good.
LEMMA SetCall ==
    ASSUME CallsOK, NEW c \in Calls, NEW r, CallOK(r), rpc' = [rpc EXCEPT ![c] = r]
    PROVE  CallsOK'
<1>1. r \in CallType
  BY DEF CallOK
<1>2. rpc' \in [Calls -> CallType]
  BY <1>1 DEF CallsOK
<1>3. \A b \in Calls : CallOK(rpc'[b])
  BY DEF CallsOK
<1> QED BY <1>2, <1>3 DEF CallsOK

\* Where the dispatch loop and the two sweeps go after one item.
LEMMA NextGroupOK == \A gs \in SUBSET Groups : DispOK(NextGroup(gs))
BY DEF NextGroup, DispOK, DispType, IdleDisp, NoPlan, MaybeJob, MaybeNode

LEMMA ShakeRestOK == \A S \in SUBSET Jobs : ShakeOK(ShakeRest(S))
BY DEF ShakeRest, ShakeOK, ShakeType, IdleShake, MaybeJob, MaybeNode

LEMMA GossipRestOK == \A S \in SUBSET Jobs, n \in Nodes : GossipOK(GossipRest(n, S))
BY DEF GossipRest, GossipOK, GossipType, IdleGossip, MaybeJob, MaybeNode

\* The parts of TypeOK that a step leaves alone stay true.
LEMMA PartsUnchanged ==
    /\ ResourceTypeOK /\ UNCHANGED resourceVars => ResourceTypeOK'
    /\ CallsOK /\ UNCHANGED rpc => CallsOK'
    /\ DispOK(disp) /\ UNCHANGED disp => DispOK(disp)'
    /\ GossipOK(gossip) /\ UNCHANGED gossip => GossipOK(gossip)'
    /\ WallOK(wall) /\ UNCHANGED wall => WallOK(wall)'
    /\ ShakeOK(shake) /\ UNCHANGED shake => ShakeOK(shake)'
<1>1. ResourceTypeOK /\ UNCHANGED resourceVars => ResourceTypeOK'
  BY DEF ResourceTypeOK, resourceVars
<1>2. CallsOK /\ UNCHANGED rpc => CallsOK'
  BY DEF CallsOK
<1> QED BY <1>1, <1>2

-----------------------------------------------------------------------------
(* Type correctness, one lemma per group of actions *)

\* Submission: the ranks of a group enter one by one.
LEMMA SubmissionType ==
    ASSUME TypeOK, Submission
    PROVE  TypeOK'
<1> USE DEF CallsOK, procVars
<1>1. ASSUME NEW j \in Jobs, SubmitJob(j) PROVE TypeOK'
  <2>1. SchedTypeOK'
    BY <1>1, EnqueueType DEF TypeOK, SubmitJob
  <2> QED BY <1>1, <2>1, BreakerUnchanged, PartsUnchanged DEF TypeOK, SubmitJob
<1>2. ASSUME NEW g \in Groups, SubmitRank(g) PROVE TypeOK'
  <2>1. First(Unsubmitted(g)) \in Jobs
    BY <1>2, FirstIsFirst DEF SubmitRank, Unsubmitted, Ranks
  <2>2. SchedTypeOK'
    BY <1>2, <2>1, EnqueueType DEF TypeOK, SubmitRank
  <2>3. ResourceTypeOK'
    BY <1>2 DEF TypeOK, ResourceTypeOK, SubmitRank
  <2> QED BY <1>2, <2>2, <2>3, BreakerUnchanged, PartsUnchanged DEF TypeOK, SubmitRank
<1>3. ASSUME NEW g \in Groups, SubmitRankFails(g) PROVE TypeOK'
  <2>1. ResourceTypeOK'
    BY <1>3 DEF TypeOK, ResourceTypeOK, SubmitRankFails
  <2> QED BY <1>3, <2>1, SchedUnchanged, BreakerUnchanged, PartsUnchanged
          DEF TypeOK, SubmitRankFails
<1>4. ASSUME NEW g \in Groups, SubmitRegister(g) PROVE TypeOK'
  <2>1. SchedTypeOK'
    BY <1>4, GroupType DEF TypeOK, SubmitRegister, GroupStates
  <2>2. ResourceTypeOK'
    BY <1>4 DEF TypeOK, ResourceTypeOK, SubmitRegister
  <2> QED BY <1>4, <2>1, <2>2, BreakerUnchanged, PartsUnchanged DEF TypeOK, SubmitRegister
<1> QED BY <1>1, <1>2, <1>3, <1>4 DEF Submission

\* A handler that releases the node a job is placed on, and goes on with a
\* good record: the end of CancelJob and of one sibling's abort.
LEMMA ReleasingCallType ==
    ASSUME TypeOK, NEW c \in Calls, NEW j \in Jobs, NEW r, CallOK(r),
           ReleaseIfPlaced(worker[j], j), rpc' = [rpc EXCEPT ![c] = r],
           UNCHANGED <<members, pending, timers, dead, submit, aged>>,
           UNCHANGED <<schedVars, breakerVars, disp, gossip, wall, shake>>
    PROVE  TypeOK'
<1> USE DEF CallsOK
<1>1. alloc' \in [Nodes -> Nat]
  BY ReleaseType DEF TypeOK, ResourceTypeOK
<1>2. ResourceTypeOK'
  BY <1>1 DEF TypeOK, ResourceTypeOK
<1>3. CallsOK'
  BY SetCall DEF TypeOK
<1> QED BY <1>2, <1>3, SchedUnchanged, BreakerUnchanged, PartsUnchanged DEF TypeOK

\* The end of CancelJob.
LEMMA FinishCancelType ==
    ASSUME TypeOK, NEW c \in Calls, FinishCancel(c)
    PROVE  TypeOK'
<1>1. rpc[c].victim \in Jobs
  BY DEF TypeOK, FinishCancel, CallOK
<1> QED BY <1>1, IdleOK, ReleasingCallType DEF FinishCancel

\* ReportResult after MarkCompleted.
LEMMA SettleReportType ==
    ASSUME TypeOK, NEW c \in Calls, SettleReport(c)
    PROVE  TypeOK'
<1> USE DEF CallsOK
<1> DEFINE r == rpc[c]
           next == IF GroupOf[r.job] \in Groups THEN [r EXCEPT !.pc = "group"] ELSE IdleCall
<1>1. r \in CallType /\ r.job \in Jobs /\ r.node \in Nodes
  BY DEF TypeOK, SettleReport, CallOK
<1>2. BreakerTypeOK'
  BY <1>1, ForgetType, RecordFailureType, BreakerUnchanged
  DEF TypeOK, SettleReport, RecordSuccess
<1>3. alloc' \in [Nodes -> Nat]
  BY <1>1, ReleaseType DEF TypeOK, ResourceTypeOK, SettleReport
<1>4. timers' \in [Jobs -> Nat] /\ dead' \in SUBSET Jobs
  BY <1>1 DEF TypeOK, ResourceTypeOK, SettleReport
<1>5. ResourceTypeOK'
  BY <1>3, <1>4 DEF TypeOK, ResourceTypeOK, SettleReport
<1>6. CallOK(next)
  BY <1>1, IdleOK DEF CallOK, CallType
<1>7. rpc' = [rpc EXCEPT ![c] = next]
  BY DEF SettleReport
<1>8. CallsOK'
  BY <1>6, <1>7, SetCall DEF TypeOK
<1> QED BY <1>2, <1>5, <1>8, SchedUnchanged, PartsUnchanged DEF TypeOK, SettleReport

\* handleGroupCompletion up to its decision.
LEMMA HandleGroupType ==
    ASSUME TypeOK, NEW c \in Calls, HandleGroup(c)
    PROVE  TypeOK'
<1> USE DEF CallsOK
<1>1. rpc[c] \in CallType /\ rpc[c].job \in Jobs /\ GroupOf[rpc[c].job] \in Groups
  BY DEF TypeOK, HandleGroup, CallOK
<1>2. \E r : CallOK(r) /\ rpc' = [rpc EXCEPT ![c] = r]
  <2>1. CallOK([rpc[c] EXCEPT !.pc = "abort", !.todo = Ranks(GroupOf[rpc[c].job]) \ {rpc[c].job}])
    BY <1>1 DEF CallOK, CallType, Ranks
  <2>2. CallOK([rpc[c] EXCEPT !.pc = "close"])
    BY <1>1 DEF CallOK, CallType
  <2> QED BY <2>1, <2>2, IdleOK DEF HandleGroup
<1>3. CallsOK'
  BY <1>2, SetCall DEF TypeOK
<1> QED BY <1>3, SchedUnchanged, BreakerUnchanged, PartsUnchanged DEF TypeOK, HandleGroup

\* One sibling of a failed rank.
LEMMA AbortRankType ==
    ASSUME TypeOK, NEW c \in Calls, AbortRank(c)
    PROVE  TypeOK'
<1> USE DEF CallsOK
<1> DEFINE r == rpc[c]
           v == First(r.todo)
<1>1. r \in CallType /\ r.job \in Jobs /\ GroupOf[r.job] \in Groups
  BY DEF TypeOK, AbortRank, CallOK
<1>2. v \in Jobs
  BY <1>1, FirstIsFirst DEF AbortRank, CallType
<1> HIDE DEF v
<1>3. SchedTypeOK'
  BY <1>2, CancelType, SchedUnchanged DEF TypeOK, AbortRank, v
<1>4. CallOK([r EXCEPT !.pc = "victim", !.victim = v, !.todo = @ \ {v}])
  BY <1>1, <1>2 DEF CallOK, CallType, MaybeJob
<1>5. CallOK([r EXCEPT !.todo = @ \ {v}])
  BY <1>1, <1>2 DEF AbortRank, CallOK, CallType
<1>6. CallsOK'
  BY <1>4, <1>5, SetCall DEF TypeOK, AbortRank, v
<1> QED BY <1>3, <1>6, BreakerUnchanged, PartsUnchanged DEF TypeOK, AbortRank

\* The release that follows a sibling's cancel.
LEMMA AbortVictimType ==
    ASSUME TypeOK, NEW c \in Calls, AbortVictim(c)
    PROVE  TypeOK'
<1>1. /\ rpc \in [Calls -> CallType] /\ rpc[c] \in CallType
      /\ rpc[c].job \in Jobs /\ rpc[c].victim \in Jobs
      /\ GroupOf[rpc[c].job] \in Groups
  BY DEF TypeOK, AbortVictim, CallOK
<1>2. CallOK([rpc[c] EXCEPT !.pc = "abort", !.victim = NoJob])
  BY <1>1 DEF CallOK, CallType, MaybeJob
<1>3. rpc' = [rpc EXCEPT ![c] = [rpc[c] EXCEPT !.pc = "abort", !.victim = NoJob]]
  BY <1>1 DEF AbortVictim
<1> QED BY <1>1, <1>2, <1>3, ReleasingCallType DEF AbortVictim

\* SetGroupState at the end of handleGroupCompletion.
LEMMA CloseGroupType ==
    ASSUME TypeOK, NEW c \in Calls, CloseGroup(c)
    PROVE  TypeOK'
<1> USE DEF CallsOK
<1>1. GroupOf[rpc[c].job] \in Groups
  BY DEF TypeOK, CloseGroup, CallOK
<1>2. SchedTypeOK'
  BY <1>1, GroupType DEF TypeOK, CloseGroup, GroupStates
<1>3. CallsOK'
  BY IdleOK, SetCall DEF TypeOK, CloseGroup
<1> QED BY <1>2, <1>3, BreakerUnchanged, PartsUnchanged DEF TypeOK, CloseGroup

\* The handlers.
LEMMA HandlersType == TypeOK /\ Handlers => TypeOK'
BY FinishCancelType, SettleReportType, HandleGroupType, AbortRankType,
   AbortVictimType, CloseGroupType
DEF Handlers

\* Requests from outside: CancelJob, ReportResult, acknowledge_start.
LEMMA ClientsType ==
    ASSUME TypeOK, Clients
    PROVE  TypeOK'
<1> USE DEF CallsOK
<1>1. ASSUME NEW c \in Calls, NEW j \in Jobs, CancelJob(c, j) PROVE TypeOK'
  <2>1. CallOK([IdleCall EXCEPT !.pc = "cancel", !.victim = j])
    BY DEF CallOK, CallType, IdleCall, MaybeJob, MaybeNode
  <2>2. CallsOK'
    BY <1>1, <2>1, SetCall DEF TypeOK, CancelJob
  <2>3. SchedTypeOK'
    BY <1>1, CancelType DEF TypeOK, CancelJob
  <2> QED BY <1>1, <2>2, <2>3, BreakerUnchanged, PartsUnchanged DEF TypeOK, CancelJob
<1>2. ASSUME NEW c \in Calls, NEW j \in Jobs, NEW n \in Nodes, NEW k \in Kinds,
             ReportResult(c, j, n, k)
      PROVE  TypeOK'
  <2>1. CallOK([IdleCall EXCEPT !.pc = "settle", !.job = j, !.node = n, !.kind = k])
    BY KindAssumption DEF CallOK, CallType, IdleCall, MaybeJob, MaybeNode
  <2>2. CallsOK'
    BY <1>2, <2>1, SetCall DEF TypeOK, ReportResult
  <2>3. SchedTypeOK'
    BY <1>2, MarkCompletedType DEF TypeOK, ReportResult, Errors
  <2> QED BY <1>2, <2>2, <2>3, BreakerUnchanged, PartsUnchanged DEF TypeOK, ReportResult
<1>3. ASSUME NEW j \in Jobs, AcknowledgeStart(j) PROVE TypeOK'
  <2>1. ResourceTypeOK'
    BY <1>3 DEF TypeOK, ResourceTypeOK, AcknowledgeStart
  <2> QED BY <1>3, <2>1, SchedUnchanged, BreakerUnchanged, PartsUnchanged
          DEF TypeOK, AcknowledgeStart, procVars
<1> QED BY <1>1, <1>2, <1>3 DEF Clients

\* The walltime enforcer.
LEMMA WalltimeType ==
    ASSUME TypeOK,
           \/ WallRelease
           \/ \E j \in Jobs, n \in MaybeNode : WallKill(j, n)
           \/ \E S \in SUBSET Jobs : WallScan(S)
    PROVE  TypeOK'
<1> USE DEF CallsOK
<1>0. wall \in WallType
  BY DEF TypeOK, WallOK
<1>1. CASE WallRelease
  <2>1. wall.job \in Jobs
    BY <1>1 DEF TypeOK, WallOK, WallRelease
  <2>2. alloc' \in [Nodes -> Nat]
    BY <1>1, <2>1, ReleaseType DEF TypeOK, ResourceTypeOK, WallRelease
  <2>3. ResourceTypeOK'
    BY <1>1, <2>2 DEF TypeOK, ResourceTypeOK, WallRelease
  <2>4. WallOK(wall)'
    BY <1>0, <1>1, IdleOK DEF WallRelease, WallOK, WallType, IdleWall, MaybeJob, MaybeNode
  <2> QED BY <1>1, <2>3, <2>4, SchedUnchanged, BreakerUnchanged, PartsUnchanged
          DEF TypeOK, WallRelease
<1>2. ASSUME NEW j \in Jobs, NEW n \in MaybeNode, WallKill(j, n) PROVE TypeOK'
  <2>1. SchedTypeOK'
    BY <1>2, CancelType, SchedUnchanged DEF TypeOK, WallKill
  <2>2. WallOK(wall)'
    BY <1>0, <1>2 DEF WallKill, WallOK, WallType, MaybeJob
  <2> QED BY <1>2, <2>1, <2>2, BreakerUnchanged, PartsUnchanged DEF TypeOK, WallKill
<1>3. ASSUME NEW S \in SUBSET Jobs, WallScan(S) PROVE TypeOK'
  <2>1. {<<j, worker[j]>> : j \in S} \in SUBSET (Jobs \X MaybeNode)
    BY DEF TypeOK, SchedTypeOK, MaybeNode
  <2>2. WallOK(wall)'
    BY <1>3, <2>1 DEF WallScan, WallOK, WallType, IdleWall, MaybeJob, MaybeNode
  <2> QED BY <1>3, <2>2, SchedUnchanged, BreakerUnchanged, PartsUnchanged
          DEF TypeOK, WallScan
<1> QED BY <1>1, <1>2, <1>3

\* The dispatch-timeout enforcer and the retry goroutines.
LEMMA HandshakeType ==
    ASSUME TypeOK,
           \/ ShakeRequeue \/ ShakeRelease
           \/ \E j \in Jobs : ShakeCheck(j) \/ RetryFires(j)
           \/ \E S \in SUBSET Jobs : ShakeScan(S)
    PROVE  TypeOK'
<1> USE DEF CallsOK
<1>0. shake \in ShakeType /\ shake.jobs \in SUBSET Jobs
  BY DEF TypeOK, ShakeOK, ShakeType
<1>1. CASE ShakeRequeue
  <2>1. shake.job \in Jobs
    BY <1>1 DEF TypeOK, ShakeOK, ShakeRequeue
  <2>2. SchedTypeOK'
    BY <1>1, <2>1, RequeueRunningJobType, SchedUnchanged DEF TypeOK, ShakeRequeue
  <2>3. ShakeOK([shake EXCEPT !.pc = "release"])
    BY <1>0, <2>1 DEF ShakeOK, ShakeType
  <2>4. ShakeOK(shake)'
    BY <1>0, <1>1, <2>3, ShakeRestOK DEF ShakeRequeue
  <2> QED BY <1>1, <2>2, <2>4, BreakerUnchanged, PartsUnchanged DEF TypeOK, ShakeRequeue
<1>2. CASE ShakeRelease
  <2>1. shake.job \in Jobs
    BY <1>2 DEF TypeOK, ShakeOK, ShakeRelease
  <2>2. alloc' \in [Nodes -> Nat]
    BY <1>2, <2>1, ReleaseType DEF TypeOK, ResourceTypeOK, ShakeRelease
  <2>3. ResourceTypeOK'
    BY <1>2, <2>2 DEF TypeOK, ResourceTypeOK, ShakeRelease
  <2>4. ShakeOK(shake)'
    BY <1>0, <1>2, ShakeRestOK DEF ShakeRelease
  <2> QED BY <1>2, <2>3, <2>4, SchedUnchanged, BreakerUnchanged, PartsUnchanged
          DEF TypeOK, ShakeRelease
<1>3. ASSUME NEW j \in Jobs, ShakeCheck(j) PROVE TypeOK'
  <2>1. worker[j] \in MaybeNode
    BY DEF TypeOK, SchedTypeOK, MaybeNode
  <2>2. ShakeOK([pc |-> "requeue", jobs |-> shake.jobs \ {j}, job |-> j, node |-> worker[j]])
    BY <1>0, <2>1 DEF ShakeOK, ShakeType, MaybeJob
  <2>3. ShakeOK(shake)'
    BY <1>0, <1>3, <2>2, ShakeRestOK DEF ShakeCheck
  <2> QED BY <1>3, <2>3, SchedUnchanged, BreakerUnchanged, PartsUnchanged
          DEF TypeOK, ShakeCheck
<1>4. ASSUME NEW j \in Jobs, RetryFires(j) PROVE TypeOK'
  <2>1. SchedTypeOK'
    BY <1>4, RequeueType DEF TypeOK, RetryFires
  <2>2. ResourceTypeOK'
    BY <1>4 DEF TypeOK, ResourceTypeOK, RetryFires
  <2> QED BY <1>4, <2>1, <2>2, BreakerUnchanged, PartsUnchanged
          DEF TypeOK, RetryFires, procVars
<1>5. ASSUME NEW S \in SUBSET Jobs, ShakeScan(S) PROVE TypeOK'
  <2>1. ResourceTypeOK'
    BY <1>5 DEF TypeOK, ResourceTypeOK, ShakeScan
  <2>2. ShakeOK(shake)'
    BY <1>5, ShakeRestOK DEF ShakeScan
  <2> QED BY <1>5, <2>1, <2>2, SchedUnchanged, BreakerUnchanged, PartsUnchanged
          DEF TypeOK, ShakeScan
<1> QED BY <1>1, <1>2, <1>3, <1>4, <1>5

\* The two enforcers and the retry goroutines together.
LEMMA EnforcersType == TypeOK /\ Enforcers => TypeOK'
BY WalltimeType, HandshakeType DEF Enforcers

\* Nodes that join and leave.
LEMMA MembershipType ==
    ASSUME TypeOK, Membership
    PROVE  TypeOK'
<1> USE DEF CallsOK
<1>0. gossip \in GossipType /\ gossip.jobs \in SUBSET Jobs
  BY DEF TypeOK, GossipOK, GossipType
<1>1. CASE LeaveMark
  <2>1. gossip.job \in Jobs /\ gossip.node \in Nodes
    BY <1>1 DEF TypeOK, GossipOK, LeaveMark
  <2>2. SchedTypeOK'
    BY <1>1, <2>1, MarkCompletedType DEF TypeOK, LeaveMark, Errors
  <2>3. GroupOf[gossip.job] \in Groups => GossipOK([gossip EXCEPT !.pc = "group"])
    BY <1>0, <2>1 DEF GossipOK, GossipType
  <2>4. GossipOK(gossip)'
    BY <1>0, <1>1, <2>1, <2>3, GossipRestOK DEF LeaveMark
  <2> QED BY <1>1, <2>2, <2>4, BreakerUnchanged, PartsUnchanged DEF TypeOK, LeaveMark
<1>2. CASE LeaveGroup
  <2>1. GroupOf[gossip.job] \in Groups /\ gossip.node \in Nodes
    BY <1>2 DEF TypeOK, GossipOK, LeaveGroup
  <2>2. SchedTypeOK'
    BY <1>2, <2>1, GroupType, SchedUnchanged DEF TypeOK, LeaveGroup, GroupStates
  <2>3. GossipOK(gossip)'
    BY <1>0, <1>2, <2>1, GossipRestOK DEF LeaveGroup
  <2> QED BY <1>2, <2>2, <2>3, BreakerUnchanged, PartsUnchanged DEF TypeOK, LeaveGroup
<1>3. ASSUME NEW j \in Jobs, LeaveRelease(j) PROVE TypeOK'
  <2>1. gossip.node \in Nodes
    BY <1>3 DEF TypeOK, GossipOK, LeaveRelease
  <2>2. alloc' \in [Nodes -> Nat]
    BY <1>3, <2>1, ReleaseType DEF TypeOK, ResourceTypeOK, LeaveRelease
  <2>3. ResourceTypeOK'
    BY <1>3, <2>2 DEF TypeOK, ResourceTypeOK, LeaveRelease
  <2>4. GossipOK(gossip)'
    BY <1>0, <1>3, <2>1 DEF LeaveRelease, GossipOK, GossipType, MaybeJob
  <2> QED BY <1>3, <2>3, <2>4, SchedUnchanged, BreakerUnchanged, PartsUnchanged
          DEF TypeOK, LeaveRelease
<1>4. ASSUME NEW n \in Nodes, NodeLeaves(n) PROVE TypeOK'
  <2>1. ResourceTypeOK'
    BY <1>4 DEF TypeOK, ResourceTypeOK, NodeLeaves
  <2>2. GossipOK(gossip)'
    BY <1>4, GossipRestOK DEF NodeLeaves, RunningJobsOnNode
  <2> QED BY <1>4, <2>1, <2>2, SchedUnchanged, BreakerUnchanged, PartsUnchanged
          DEF TypeOK, NodeLeaves
<1>5. ASSUME NEW n \in Nodes, NodeJoins(n) PROVE TypeOK'
  <2>1. ResourceTypeOK'
    BY <1>5 DEF TypeOK, ResourceTypeOK, NodeJoins
  <2> QED BY <1>5, <2>1, SchedUnchanged, BreakerUnchanged, PartsUnchanged
          DEF TypeOK, NodeJoins, procVars
<1> QED BY <1>1, <1>2, <1>3, <1>4, <1>5 DEF Membership

\* Time passes on a group or on a block.
LEMMA ClocksType ==
    ASSUME TypeOK, Clocks
    PROVE  TypeOK'
<1> USE DEF CallsOK, procVars
<1>1. ASSUME NEW g \in Groups, GroupAges(g) PROVE TypeOK'
  <2>1. ResourceTypeOK'
    BY <1>1 DEF TypeOK, ResourceTypeOK, GroupAges
  <2> QED BY <1>1, <2>1, SchedUnchanged, BreakerUnchanged, PartsUnchanged
          DEF TypeOK, GroupAges
<1>2. ASSUME NEW n \in Nodes, BreakerClock(n) PROVE TypeOK'
  <2>1. BreakerTypeOK'
    BY <1>2 DEF TypeOK, BreakerTypeOK, BreakerClock, BlockRunsOut
  <2> QED BY <1>2, <2>1, SchedUnchanged, PartsUnchanged DEF TypeOK, BreakerClock
<1> QED BY <1>1, <1>2 DEF Clocks

-----------------------------------------------------------------------------
(* Type correctness of the dispatch loop *)

\* A dispatch step that touches neither breaker nor tracker is judged by what
\* it does to the scheduler and to its own record.
LEMMA DispatchFrame ==
    ASSUME TypeOK, SchedTypeOK', DispOK(disp)', DispStep,
           UNCHANGED <<breakerVars, resourceVars>>
    PROVE  TypeOK'
BY BreakerUnchanged, PartsUnchanged DEF TypeOK, CallsOK, DispStep

\* Likewise for one that looks at breaker entries.
LEMMA LookingFrame ==
    ASSUME TypeOK, SchedTypeOK', DispOK(disp)', DispStep, NEW S, LookAt(S),
           UNCHANGED resourceVars
    PROVE  TypeOK'
BY ForgetType, PartsUnchanged DEF TypeOK, CallsOK, DispStep, LookAt

\* Phase 0: the pending groups are taken up, expire, or are skipped.
LEMMA GangType ==
    ASSUME TypeOK,
           \/ Tick \/ ExpireRank \/ ExpireGroup \/ GangRun
           \/ \E g \in Groups : GangTimeout(g) \/ SkipGang(g)
    PROVE  TypeOK'
<1>0. disp \in DispType /\ disp.groups \in SUBSET Groups /\ disp.left \in SUBSET Jobs
  BY DEF TypeOK, DispOK, DispType
<1>1. CASE Tick
  <2>1. DispOK(disp)'
    BY <1>1, NextGroupOK DEF Tick, PendingGroups
  <2> QED BY <1>1, <2>1, SchedUnchanged, DispatchFrame DEF TypeOK, Tick
<1>2. CASE ExpireRank
  <2> DEFINE j == First(disp.left)
  <2>1. j \in Jobs
    BY <1>0, <1>2, FirstIsFirst DEF ExpireRank
  <2> HIDE DEF j
  <2>2. SchedTypeOK'
    BY <1>2, <2>1, CancelType, SchedUnchanged DEF TypeOK, ExpireRank, j
  <2>3. DispOK(disp)'
    BY <1>0, <1>2 DEF TypeOK, ExpireRank, DispOK, DispType
  <2> QED BY <1>2, <2>2, <2>3, DispatchFrame DEF ExpireRank
<1>3. CASE ExpireGroup
  <2>1. disp.group \in Groups
    BY <1>3 DEF TypeOK, DispOK, ExpireGroup
  <2>2. SchedTypeOK'
    BY <1>3, <2>1, GroupType DEF TypeOK, ExpireGroup, GroupStates
  <2>3. DispOK(disp)'
    BY <1>0, <1>3, NextGroupOK DEF ExpireGroup
  <2> QED BY <1>3, <2>2, <2>3, DispatchFrame DEF ExpireGroup
<1>4. CASE GangRun
  <2>1. disp.group \in Groups
    BY <1>4 DEF TypeOK, DispOK, GangRun
  <2>2. SchedTypeOK'
    BY <1>4, <2>1, GroupType DEF TypeOK, GangRun, GroupStates
  <2>3. DispOK(disp)'
    BY <1>0, <1>4, NextGroupOK DEF GangRun
  <2> QED BY <1>4, <2>2, <2>3, DispatchFrame DEF GangRun
<1>5. ASSUME NEW g \in Groups, GangTimeout(g) PROVE TypeOK'
  <2>1. DispOK(disp)'
    BY <1>0, <1>5 DEF GangTimeout, DispOK, DispType, IdleDisp, NoPlan, Ranks, MaybeJob, MaybeNode
  <2> QED BY <1>5, <2>1, SchedUnchanged, DispatchFrame DEF TypeOK, GangTimeout
<1>6. ASSUME NEW g \in Groups, SkipGang(g) PROVE TypeOK'
  <2>1. DispOK(disp)'
    BY <1>0, <1>6, NextGroupOK DEF SkipGang
  <2>2. SchedTypeOK'
    BY <1>6, SchedUnchanged DEF TypeOK, SkipGang
  <2>3. CASE UNCHANGED breakerVars
    BY <1>6, <2>1, <2>2, <2>3, DispatchFrame DEF SkipGang
  <2>4. CASE LookAt(members)
    BY <1>6, <2>1, <2>2, <2>4, LookingFrame DEF SkipGang
  <2> QED BY <1>6, <2>3, <2>4 DEF SkipGang
<1> QED BY <1>1, <1>2, <1>3, <1>4, <1>5, <1>6

\* tryDispatchGroup with a node for every rank, and the ranks it takes.
LEMMA PlanType ==
    ASSUME TypeOK, GangRemove \/ \E g \in Groups : PlanGang(g)
    PROVE  TypeOK'
<1>0. /\ disp \in DispType /\ disp.groups \in SUBSET Groups
      /\ disp.left \in SUBSET Jobs /\ disp.plan \in [Jobs -> MaybeNode]
  BY DEF TypeOK, DispOK, DispType
<1>1. CASE GangRemove
  <2> DEFINE j == First(disp.left)
  <2>1. disp.left # {} /\ disp.group \in Groups /\ \A k \in disp.left : disp.plan[k] \in Nodes
    BY <1>1 DEF TypeOK, DispOK, GangRemove
  <2>2. j \in disp.left /\ j \in Jobs
    BY <1>0, <2>1, FirstIsFirst
  <2> HIDE DEF j
  <2>3. SchedTypeOK'
    BY <1>1, <2>2, RemoveByIDType DEF TypeOK, GangRemove, j
  <2>4. disp' = [disp EXCEPT !.pc = "taken", !.left = @ \ {j}, !.job = j,
                             !.node = disp.plan[j], !.plan = [disp.plan EXCEPT ![j] = NoNode]]
    BY <1>0, <1>1 DEF GangRemove, DispType, j
  <2>5. DispOK(disp)'
    BY <1>0, <2>1, <2>2, <2>4 DEF DispOK, DispType, MaybeJob, MaybeNode
  <2> QED BY <1>1, <2>3, <2>5, DispatchFrame DEF GangRemove
<1>2. ASSUME NEW g \in Groups, PlanGang(g) PROVE TypeOK'
  <2>1. Ranks(g) \in SUBSET Jobs /\ Ranks(g) # {}
    BY RanksAssumption DEF Ranks
  <2>2. PICK f \in Plans(g), seen \in SUBSET Overdue(members) :
           /\ LookAt(seen)
           /\ disp' = [IdleDisp EXCEPT
                          !.pc = "rank", !.groups = disp.groups \ {g},
                          !.group = g, !.left = Ranks(g),
                          !.plan = [j \in Jobs |-> IF j \in Ranks(g) THEN f[j] ELSE NoNode]]
    BY <1>2 DEF PlanGang
  <2>3. \A j \in Ranks(g) : f[j] \in Nodes
    BY DEF TypeOK, ResourceTypeOK, Plans, Injection
  <2>4. [j \in Jobs |-> IF j \in Ranks(g) THEN f[j] ELSE NoNode] \in [Jobs -> MaybeNode]
    BY <2>3 DEF MaybeNode
  <2>5. DispOK(disp)'
    BY <1>0, <2>1, <2>2, <2>3, <2>4 DEF DispOK, DispType, IdleDisp, MaybeJob, MaybeNode
  <2>6. SchedTypeOK'
    BY <1>2, SchedUnchanged DEF TypeOK, PlanGang
  <2> QED BY <1>2, <2>2, <2>5, <2>6, LookingFrame DEF PlanGang
<1> QED BY <1>1, <1>2

\* Phases 1 and 2: a node is chosen for the job on top, or jobs for nodes.
LEMMA SelectType ==
    ASSUME TypeOK,
           \/ SelectNothing \/ SelectNoNode \/ TakeTop
           \/ \E n \in Nodes : SelectNode(n) \/ BackfillNode(n)
    PROVE  TypeOK'
<1>0. disp \in DispType /\ disp.nodes \in SUBSET Nodes
  BY DEF TypeOK, DispOK, DispType
<1>1. CASE SelectNothing
  BY <1>1, IdleOK, SchedUnchanged, DispatchFrame DEF TypeOK, SelectNothing
<1>2. CASE SelectNoNode
  <2>1. DispOK([IdleDisp EXCEPT !.pc = "backfill", !.nodes = members])
    BY DEF TypeOK, ResourceTypeOK, DispOK, DispType, IdleDisp, NoPlan, MaybeJob, MaybeNode
  <2>2. DispOK(disp)'
    BY <1>2, <2>1, IdleOK DEF SelectNoNode
  <2> QED BY <1>2, <2>2, SchedUnchanged, LookingFrame DEF TypeOK, SelectNoNode
<1>3. CASE TakeTop
  <2>1. CASE InHeap = {}
    BY <1>3, <2>1, IdleOK, SchedUnchanged, DispatchFrame DEF TypeOK, TakeTop
  <2>2. CASE InHeap # {}
    <3>1. Top \in Jobs
      BY <2>2, TopIsQueued
    <3>2. SchedTypeOK'
      BY <1>3, <2>2, <3>1, TakeType DEF TypeOK, TakeTop
    <3>3. disp.node \in Nodes
      BY <1>3 DEF TypeOK, DispOK, TakeTop
    <3>4. disp' = [disp EXCEPT !.pc = "taken", !.job = Top]
      BY <1>3, <2>2 DEF TakeTop
    <3>5. \A j \in disp.left : disp.plan[j] \in Nodes
      BY <1>3 DEF TypeOK, DispOK, TakeTop
    <3>6. DispOK(disp)'
      BY <1>0, <3>1, <3>3, <3>4, <3>5 DEF DispOK, DispType, MaybeJob
    <3> QED BY <1>3, <3>2, <3>6, DispatchFrame DEF TakeTop
  <2> QED BY <2>1, <2>2
<1>4. ASSUME NEW n \in Nodes, SelectNode(n) PROVE TypeOK'
  <2>1. DispOK(disp)'
    BY <1>4 DEF SelectNode, DispOK, DispType, IdleDisp, NoPlan, MaybeJob, MaybeNode
  <2>2. PICK seen : LookAt(seen)
    BY <1>4 DEF SelectNode
  <2> QED BY <1>4, <2>1, <2>2, SchedUnchanged, LookingFrame DEF TypeOK, SelectNode
<1>5. ASSUME NEW n \in Nodes, BackfillNode(n) PROVE TypeOK'
  <2>1. ASSUME NEW j \in Backfillable(n), Backfill(j),
               disp' = [IdleDisp EXCEPT !.pc = "taken", !.job = j, !.node = n]
        PROVE  TypeOK'
    <3>1. j \in Jobs
      BY DEF Backfillable, InHeap
    <3>2. SchedTypeOK'
      BY <2>1, <3>1, TakeType DEF TypeOK
    <3>3. DispOK(disp)'
      BY <2>1, <3>1 DEF DispOK, DispType, IdleDisp, NoPlan, MaybeJob, MaybeNode
    <3> QED BY <1>5, <3>2, <3>3, LookingFrame DEF BackfillNode
  <2>2. ASSUME UNCHANGED schedVars, disp.pc = "backfill",
               disp' = IF disp.nodes = {n} THEN IdleDisp ELSE [disp EXCEPT !.nodes = @ \ {n}]
        PROVE  TypeOK'
    <3>1. DispOK([disp EXCEPT !.nodes = @ \ {n}])
      BY <1>0, <2>2 DEF TypeOK, DispOK, DispType
    <3>2. DispOK(disp)'
      BY <2>2, <3>1, IdleOK
    <3> QED BY <1>5, <2>2, <3>2, SchedUnchanged, LookingFrame DEF TypeOK, BackfillNode
  <2> QED BY <1>5, <2>1, <2>2 DEF BackfillNode
<1> QED BY <1>1, <1>2, <1>3, <1>4, <1>5

\* dispatchJob.
LEMMA DispatchJobType ==
    ASSUME TypeOK, DispatchMark \/ DispatchArm \/ DispatchSend
    PROVE  TypeOK'
<1>0. disp \in DispType /\ disp.job \in Jobs /\ disp.node \in Nodes
  BY DEF TypeOK, DispOK, DispatchMark, DispatchArm, DispatchSend
<1>1. disp.pc \in {"taken", "marked", "armed"} /\ \A j \in disp.left : disp.plan[j] \in Nodes
  BY DEF TypeOK, DispOK, DispatchMark, DispatchArm, DispatchSend
<1>2. CASE DispatchMark
  <2>1. SchedTypeOK'
    BY <1>0, <1>2, MarkRunningType DEF TypeOK, DispatchMark
  <2>2. DispOK(disp)'
    BY <1>0, <1>1, <1>2 DEF DispatchMark, DispOK, DispType
  <2> QED BY <1>2, <2>1, <2>2, DispatchFrame DEF DispatchMark
<1>3. CASE DispatchArm
  <2>1. alloc' \in [Nodes -> Nat]
    BY <1>0, <1>3, ResourceAssumption DEF TypeOK, ResourceTypeOK, DispatchArm, Allocate
  <2>2. ResourceTypeOK'
    BY <1>0, <1>3, <2>1 DEF TypeOK, ResourceTypeOK, DispatchArm
  <2>3. DispOK(disp)'
    BY <1>0, <1>1, <1>3 DEF DispatchArm, DispOK, DispType
  <2> QED BY <1>3, <2>2, <2>3, SchedUnchanged, BreakerUnchanged, PartsUnchanged
          DEF TypeOK, CallsOK, DispatchArm, DispStep
<1>4. CASE DispatchSend
  <2>1. DispOK([disp EXCEPT !.pc = IF disp.left = {} THEN "run" ELSE "rank",
                            !.job = NoJob, !.node = NoNode])
        \/ disp.group = NoGroup
    <3> SUFFICES ASSUME disp.group # NoGroup
                 PROVE  DispOK([disp EXCEPT !.pc = IF disp.left = {} THEN "run" ELSE "rank",
                                            !.job = NoJob, !.node = NoNode])
      OBVIOUS
    <3>1. disp.group \in Groups
      BY <1>0 DEF DispType
    <3> QED BY <1>0, <1>1, <3>1 DEF DispOK, DispType, MaybeJob, MaybeNode
  <2>2. DispOK(disp)'
    BY <1>4, <2>1, IdleOK DEF DispatchSend
  <2> QED BY <1>4, <2>2, SchedUnchanged, DispatchFrame DEF TypeOK, DispatchSend
<1> QED BY <1>2, <1>3, <1>4

\* The whole dispatch loop.
LEMMA DispatchType == TypeOK /\ Dispatch => TypeOK'
BY GangType, PlanType, SelectType, DispatchJobType DEF Dispatch

-----------------------------------------------------------------------------
\* A freshly started master is well typed.
LEMMA TypeInit == Init => TypeOK
<1> SUFFICES ASSUME Init PROVE TypeOK
  OBVIOUS
<1>1. SchedTypeOK
  BY DEF Init, SchedInit, HeapInit, SchedTypeOK, HeapTypeOK, JobStates, GroupStates, Errors
<1>2. BreakerTypeOK
  BY DEF Init, BreakerInit, BreakerTypeOK
<1>3. ResourceTypeOK
  BY DEF Init, ResourceTypeOK
<1>4. CallsOK
  BY IdleOK DEF Init, CallsOK, CallOK
<1> QED BY <1>1, <1>2, <1>3, <1>4, IdleOK DEF Init, TypeOK, CallsOK

\* Every step of the master keeps it well typed.
LEMMA TypeNext == TypeOK /\ [Next]_vars => TypeOK'
<1> SUFFICES ASSUME TypeOK, [Next]_vars PROVE TypeOK'
  OBVIOUS
<1>1. CASE Next
  BY <1>1, SubmissionType, DispatchType, HandlersType, EnforcersType,
     MembershipType, ClocksType, ClientsType
  DEF Next
<1>2. CASE UNCHANGED vars
  BY <1>2, SchedUnchanged, BreakerUnchanged, PartsUnchanged
  DEF TypeOK, CallsOK, vars, procVars
<1> QED BY <1>1, <1>2

\* The master is well typed whatever workers, clients and the network do: the
\* tracker never goes negative, a job with an index has a queue entry, and no
\* goroutine reaches a step without what the step uses.
THEOREM TypeCorrect == Spec => []TypeOK
BY TypeInit, TypeNext, PTL DEF Spec

-----------------------------------------------------------------------------
(* No queued job is lost, no retry is forgotten *)

\* A step keeps or adds entries of the jobs it leaves QUEUED.
KeepsEntries ==
    \A k \in Jobs :
       state'[k] = "QUEUED" =>
          heap'[k] > 0 \/ (state[k] = "QUEUED" /\ heap'[k] = heap[k])

\* A failed job that is entitled to another try.
Owed(j) == state[j] = "FAILED" /\ error[j] = "report" /\ RetryAllowed(j)

\* A step entitles no further job to another try.
OwesNoMore == \A k \in Jobs : Owed(k)' => Owed(k)

-----------------------------------------------------------------------------
(* The methods of GlobalScheduler *)

\* A step that does not touch the scheduler.
LEMMA StillQuiet == UNCHANGED schedVars => KeepsEntries /\ OwesNoMore
BY DEF schedVars, KeepsEntries, OwesNoMore, Owed, RetryAllowed

\* Enqueue pushes the job it makes QUEUED.
LEMMA EnqueueQuiet ==
    ASSUME SchedTypeOK, NEW j \in Jobs, Enqueue(j)
    PROVE  KeepsEntries /\ OwesNoMore
<1>1. heap' = [heap EXCEPT ![j] = @ + 1] /\ heap'[j] > 0
  BY HeapPushType DEF SchedTypeOK, Enqueue, HeapPush
<1>2. state' = [state EXCEPT ![j] = "QUEUED"] /\ UNCHANGED <<retries, error>>
  BY DEF Enqueue
<1>3. KeepsEntries
  BY <1>1, <1>2 DEF KeepsEntries, SchedTypeOK, HeapTypeOK
<1>4. OwesNoMore
  BY <1>2 DEF OwesNoMore, Owed, RetryAllowed, SchedTypeOK
<1> QED BY <1>3, <1>4

\* Requeue pushes the job it makes QUEUED, also when it has an entry.
LEMMA RequeueQuiet ==
    ASSUME SchedTypeOK, NEW j \in Jobs, Requeue(j)
    PROVE  KeepsEntries /\ OwesNoMore
<1>1. heap' = [heap EXCEPT ![j] = @ + 1] /\ heap'[j] > 0
  BY HeapPushType DEF SchedTypeOK, Requeue, HeapPush
<1>2. /\ state' = [state EXCEPT ![j] = "QUEUED"]
      /\ retries' = [retries EXCEPT ![j] = @ + 1]
      /\ error' = [error EXCEPT ![j] = "none"]
  BY DEF Requeue
<1>3. KeepsEntries
  BY <1>1, <1>2 DEF KeepsEntries, SchedTypeOK, HeapTypeOK
<1>4. OwesNoMore
  BY <1>2 DEF OwesNoMore, Owed, RetryAllowed, SchedTypeOK
<1> QED BY <1>3, <1>4

\* RequeueRunningJob pushes the job it makes QUEUED.
LEMMA RequeueRunningQuiet ==
    ASSUME SchedTypeOK, NEW j \in Jobs, RequeueRunningJob(j)
    PROVE  KeepsEntries /\ OwesNoMore
<1>1. heap' = [heap EXCEPT ![j] = @ + 1] /\ heap'[j] > 0
  BY HeapPushType DEF SchedTypeOK, RequeueRunningJob, HeapPush
<1>2. state' = [state EXCEPT ![j] = "QUEUED"] /\ UNCHANGED <<retries, error>>
  BY DEF RequeueRunningJob
<1>3. KeepsEntries
  BY <1>1, <1>2 DEF KeepsEntries, SchedTypeOK, HeapTypeOK
<1>4. OwesNoMore
  BY <1>2 DEF OwesNoMore, Owed, RetryAllowed, SchedTypeOK
<1> QED BY <1>3, <1>4

\* Cancel takes an entry of the job it cancels and of no other: job.index is
\* never another job's.
LEMMA CancelQuiet ==
    ASSUME SchedTypeOK, NEW j \in Jobs, Cancel(j)
    PROVE  KeepsEntries /\ OwesNoMore
<1>1. \A k \in Jobs \ {j} : heap'[k] = heap[k]
  BY RemoveIndexedType DEF SchedTypeOK, Cancel, heapVars
<1>2. state' = [state EXCEPT ![j] = "CANCELLED"] /\ UNCHANGED <<retries, error>>
  BY DEF Cancel
<1>3. KeepsEntries
  BY <1>1, <1>2 DEF KeepsEntries, SchedTypeOK
<1>4. OwesNoMore
  BY <1>2 DEF OwesNoMore, Owed, RetryAllowed, SchedTypeOK
<1> QED BY <1>3, <1>4

\* MarkCompleted touches no entry; it owes a retry only for a report.
LEMMA MarkCompletedQuiet ==
    ASSUME SchedTypeOK, NEW j \in Jobs, NEW e \in Errors, MarkCompleted(j, e)
    PROVE  /\ KeepsEntries
           /\ e # "report" => OwesNoMore
           /\ \A k \in Jobs \ {j} : Owed(k)' => Owed(k)
           /\ e = "none" => ~Owed(j)'
<1>1. heap' = heap /\ retries' = retries
  BY DEF MarkCompleted, heapVars
<1>2. \A k \in Jobs \ {j} : state'[k] = state[k] /\ error'[k] = error[k]
  BY DEF MarkCompleted, SchedTypeOK
<1>3. \/ state[j] = "CANCELLED" /\ state'[j] = "CANCELLED"
      \/ state'[j] = (IF e = "none" THEN "COMPLETED" ELSE "FAILED") /\ error'[j] = e
  BY DEF MarkCompleted, SchedTypeOK
<1>4. KeepsEntries
  BY <1>1, <1>2, <1>3 DEF KeepsEntries
<1>5. \A k \in Jobs \ {j} : Owed(k)' => Owed(k)
  BY <1>1, <1>2 DEF Owed, RetryAllowed
<1>6. e # "report" => ~Owed(j)'
  BY <1>3 DEF Owed
<1> QED BY <1>4, <1>5, <1>6 DEF OwesNoMore

\* Group states.
LEMMA GroupQuiet ==
    ASSUME NEW g, NEW s, SetGroupState(g, s) \/ RegisterGroup(g)
    PROVE  KeepsEntries /\ OwesNoMore
<1>1. UNCHANGED <<state, retries, error, heap>>
  BY DEF SetGroupState, RegisterGroup, jobVars, heapVars
<1> QED BY <1>1 DEF KeepsEntries, OwesNoMore, Owed, RetryAllowed

\* Taking an entry, by position or by index, changes no job.
LEMMA TakeQuiet ==
    ASSUME SchedTypeOK, NEW j \in Jobs, Dequeue(j) \/ Backfill(j) \/ RemoveByID(j)
    PROVE  /\ UNCHANGED <<state, retries, error>>
           /\ \A k \in Jobs \ {j} : heap'[k] = heap[k]
           /\ OwesNoMore
<1>1. UNCHANGED <<state, retries, error>>
  BY DEF Dequeue, Backfill, RemoveByID, jobVars
<1>2. \A k \in Jobs \ {j} : heap'[k] = heap[k]
  <2>1. CASE Dequeue(j) \/ Backfill(j)
    BY <2>1, HeapRemoveType DEF SchedTypeOK, Dequeue, Backfill, HeapPop
  <2>2. CASE RemoveByID(j)
    BY <2>2, RemoveIndexedType DEF SchedTypeOK, RemoveByID, heapVars
  <2> QED BY <2>1, <2>2
<1>3. OwesNoMore
  BY <1>1 DEF OwesNoMore, Owed, RetryAllowed
<1> QED BY <1>1, <1>2, <1>3

\* MarkRunning changes the job it is called for.
LEMMA MarkRunningQuiet ==
    ASSUME SchedTypeOK, NEW j \in Jobs, NEW n, MarkRunning(j, n)
    PROVE  KeepsEntries /\ OwesNoMore /\ state'[j] = "RUNNING"
<1>1. heap' = heap /\ retries' = retries /\ error' = error
  BY DEF MarkRunning, heapVars
<1>2. state' = [state EXCEPT ![j] = "RUNNING"]
  BY DEF MarkRunning
<1> QED BY <1>1, <1>2 DEF KeepsEntries, OwesNoMore, Owed, RetryAllowed, SchedTypeOK

-----------------------------------------------------------------------------
(* Everything but the dispatch loop and reports *)

\* Submission makes jobs QUEUED only with an entry.
LEMMA SubmissionQuiet ==
    ASSUME TypeOK, Submission
    PROVE  KeepsEntries /\ OwesNoMore
<1>1. ASSUME NEW j \in Jobs, SubmitJob(j) PROVE KeepsEntries /\ OwesNoMore
  BY <1>1, EnqueueQuiet DEF TypeOK, SubmitJob
<1>2. ASSUME NEW g \in Groups, SubmitRank(g) PROVE KeepsEntries /\ OwesNoMore
  <2>1. First(Unsubmitted(g)) \in Jobs
    BY <1>2, FirstIsFirst DEF SubmitRank, Unsubmitted, Ranks
  <2> QED BY <1>2, <2>1, EnqueueQuiet DEF TypeOK, SubmitRank
<1>3. ASSUME NEW g \in Groups, SubmitRankFails(g) PROVE KeepsEntries /\ OwesNoMore
  BY <1>3, StillQuiet DEF SubmitRankFails
<1>4. ASSUME NEW g \in Groups, SubmitRegister(g) PROVE KeepsEntries /\ OwesNoMore
  BY <1>4, GroupQuiet DEF SubmitRegister
<1> QED BY <1>1, <1>2, <1>3, <1>4 DEF Submission

\* The handlers after their first step.
LEMMA HandlersQuiet ==
    ASSUME TypeOK, NEW c \in Calls,
           \/ FinishCancel(c) \/ SettleReport(c) \/ HandleGroup(c)
           \/ AbortRank(c) \/ AbortVictim(c) \/ CloseGroup(c)
    PROVE  KeepsEntries /\ OwesNoMore
<1>1. CASE FinishCancel(c) \/ SettleReport(c) \/ HandleGroup(c) \/ AbortVictim(c)
  BY <1>1, StillQuiet DEF FinishCancel, SettleReport, HandleGroup, AbortVictim
<1>2. CASE AbortRank(c)
  <2>1. First(rpc[c].todo) \in Jobs
    BY <1>2, FirstIsFirst DEF TypeOK, AbortRank, CallType
  <2> QED BY <1>2, <2>1, CancelQuiet, StillQuiet DEF TypeOK, AbortRank
<1>3. CASE CloseGroup(c)
  BY <1>3, GroupQuiet DEF CloseGroup
<1> QED BY <1>1, <1>2, <1>3

\* The enforcers and the retry goroutines.
LEMMA EnforcersQuiet ==
    ASSUME TypeOK, Enforcers
    PROVE  KeepsEntries /\ OwesNoMore
<1>1. CASE WallRelease \/ ShakeRelease \/ \E j \in Jobs : ShakeCheck(j)
  BY <1>1, StillQuiet DEF WallRelease, ShakeRelease, ShakeCheck
<1>2. CASE ShakeRequeue
  <2>1. shake.job \in Jobs
    BY <1>2 DEF TypeOK, ShakeOK, ShakeRequeue
  <2> QED BY <1>2, <2>1, RequeueRunningQuiet, StillQuiet DEF TypeOK, ShakeRequeue
<1>3. ASSUME NEW j \in Jobs, RetryFires(j) PROVE KeepsEntries /\ OwesNoMore
  BY <1>3, RequeueQuiet DEF TypeOK, RetryFires
<1>4. ASSUME NEW j \in Jobs, NEW n, WallKill(j, n) PROVE KeepsEntries /\ OwesNoMore
  BY <1>4, CancelQuiet, StillQuiet DEF TypeOK, WallKill
<1>5. CASE \E S \in SUBSET Jobs : WallScan(S) \/ ShakeScan(S)
  BY <1>5, StillQuiet DEF WallScan, ShakeScan
<1> QED BY <1>1, <1>2, <1>3, <1>4, <1>5 DEF Enforcers

\* Nodes that join and leave, and clocks.
LEMMA MembershipQuiet ==
    ASSUME TypeOK, Membership \/ Clocks
    PROVE  KeepsEntries /\ OwesNoMore
<1>1. CASE LeaveMark
  <2>1. gossip.job \in Jobs
    BY <1>1 DEF TypeOK, GossipOK, LeaveMark
  <2> QED BY <1>1, <2>1, MarkCompletedQuiet DEF TypeOK, LeaveMark, Errors
<1>2. CASE LeaveGroup
  BY <1>2, GroupQuiet, StillQuiet DEF LeaveGroup
<1>3. CASE \/ \E j \in Jobs : LeaveRelease(j)
           \/ \E n \in Nodes : NodeLeaves(n) \/ NodeJoins(n)
  BY <1>3, StillQuiet DEF LeaveRelease, NodeLeaves, NodeJoins
<1>4. CASE Clocks
  BY <1>4, StillQuiet DEF Clocks, GroupAges, BreakerClock
<1> QED BY <1>1, <1>2, <1>3, <1>4 DEF Membership

\* None of them, and no request, touches the dispatch loop's record.
LEMMA DispLeftAlone ==
    ASSUME Submission \/ Handlers \/ Enforcers \/ Membership \/ Clocks \/ Clients
    PROVE  disp' = disp
<1> USE DEF procVars
<1>1. CASE Submission
  BY <1>1 DEF Submission, SubmitJob, SubmitRank, SubmitRankFails, SubmitRegister
<1>2. CASE Handlers
  BY <1>2 DEF Handlers, FinishCancel, SettleReport, HandleGroup, AbortRank,
              AbortVictim, CloseGroup
<1>3. CASE Enforcers
  BY <1>3 DEF Enforcers, WallRelease, ShakeRequeue, ShakeRelease, ShakeCheck,
              RetryFires, WallKill, WallScan, ShakeScan
<1>4. CASE Membership
  BY <1>4 DEF Membership, LeaveMark, LeaveGroup, LeaveRelease, NodeLeaves, NodeJoins
<1>5. CASE Clocks
  BY <1>5 DEF Clocks, GroupAges, BreakerClock
<1>6. CASE Clients
  BY <1>6 DEF Clients, CancelJob, ReportResult, AcknowledgeStart
<1> QED BY <1>1, <1>2, <1>3, <1>4, <1>5, <1>6

-----------------------------------------------------------------------------
(* No queued job is lost *)

\* The dispatch loop keeps or takes: a job whose last entry it takes is in
\* its hands until MarkRunning.
LEMMA DispatchLosesNothing ==
    ASSUME TypeOK, NoQueuedJobLost, Dispatch
    PROVE  NoQueuedJobLost'
<1>0. disp.left \in SUBSET Jobs
  BY DEF TypeOK, DispOK, DispType
<1>1. ASSUME KeepsEntries, disp.pc # "taken" PROVE NoQueuedJobLost'
  BY <1>1 DEF KeepsEntries, NoQueuedJobLost
<1>2. ASSUME NEW j \in Jobs, Dequeue(j) \/ Backfill(j) \/ RemoveByID(j),
             disp.pc # "taken", disp'.pc = "taken", disp'.job = j
      PROVE  NoQueuedJobLost'
  BY <1>2, TakeQuiet DEF TypeOK, NoQueuedJobLost
<1>3. CASE Tick \/ SelectNothing \/ SelectNoNode \/ DispatchArm \/ DispatchSend
  BY <1>1, <1>3, StillQuiet
  DEF Tick, SelectNothing, SelectNoNode, DispatchArm, DispatchSend
<1>4. CASE ExpireRank
  <2>1. First(disp.left) \in Jobs
    BY <1>0, <1>4, FirstIsFirst DEF ExpireRank
  <2> QED BY <1>1, <1>4, <2>1, CancelQuiet, StillQuiet DEF TypeOK, ExpireRank
<1>5. CASE ExpireGroup \/ GangRun
  BY <1>1, <1>5, GroupQuiet DEF ExpireGroup, GangRun
<1>6. CASE \E g \in Groups : GangTimeout(g) \/ PlanGang(g) \/ SkipGang(g)
  BY <1>1, <1>6, StillQuiet DEF GangTimeout, PlanGang, SkipGang
<1>7. CASE GangRemove
  <2>1. First(disp.left) \in Jobs
    BY <1>0, <1>7, FirstIsFirst DEF TypeOK, DispOK, GangRemove
  <2>2. disp.pc # "taken" /\ disp'.pc = "taken" /\ disp'.job = First(disp.left)
    BY <1>7 DEF GangRemove, TypeOK, DispOK, DispType
  <2> QED BY <1>2, <1>7, <2>1, <2>2 DEF GangRemove
<1>8. CASE TakeTop
  <2>1. CASE InHeap = {}
    BY <1>1, <1>8, <2>1, StillQuiet DEF TakeTop
  <2>2. CASE InHeap # {}
    <3>1. Top \in Jobs
      BY <2>2, TopIsQueued
    <3>2. disp.pc # "taken" /\ disp'.pc = "taken" /\ disp'.job = Top
      BY <1>8, <2>2 DEF TakeTop, TypeOK, DispOK, DispType
    <3> QED BY <1>2, <1>8, <2>2, <3>1, <3>2 DEF TakeTop
  <2> QED BY <2>1, <2>2
<1>9. ASSUME NEW n \in Nodes, BackfillNode(n) PROVE NoQueuedJobLost'
  <2>1. disp.pc = "backfill"
    BY <1>9 DEF BackfillNode
  <2>2. ASSUME NEW j \in Backfillable(n), Backfill(j),
               disp' = [IdleDisp EXCEPT !.pc = "taken", !.job = j, !.node = n]
        PROVE  NoQueuedJobLost'
    BY <1>2, <2>1, <2>2 DEF Backfillable, InHeap, IdleDisp
  <2>3. CASE UNCHANGED schedVars
    BY <1>1, <2>1, <2>3, StillQuiet
  <2> QED BY <1>9, <2>2, <2>3 DEF BackfillNode
<1>10. CASE \E n \in Nodes : SelectNode(n)
  BY <1>1, <1>10, StillQuiet DEF SelectNode
<1>11. CASE DispatchMark
  <2>1. disp.job \in Jobs
    BY <1>11 DEF TypeOK, DispOK, DispatchMark
  <2>2. KeepsEntries /\ state'[disp.job] = "RUNNING"
    BY <1>11, <2>1, MarkRunningQuiet DEF TypeOK, DispatchMark
  <2> QED BY <2>2 DEF KeepsEntries, NoQueuedJobLost
<1> QED BY <1>3, <1>4, <1>5, <1>6, <1>7, <1>8, <1>9, <1>10, <1>11 DEF Dispatch

\* Every step keeps every queued job within reach of the dispatch loop.
LEMMA NoQueuedJobLostNext ==
    ASSUME TypeOK, NoQueuedJobLost, [Next]_vars
    PROVE  NoQueuedJobLost'
<1>1. ASSUME KeepsEntries, disp' = disp PROVE NoQueuedJobLost'
  BY <1>1 DEF KeepsEntries, NoQueuedJobLost
<1>2. CASE Submission
  BY <1>1, <1>2, SubmissionQuiet, DispLeftAlone
<1>3. CASE Handlers
  <2>1. KeepsEntries
    BY <1>3, HandlersQuiet DEF Handlers
  <2> QED BY <1>1, <1>3, <2>1, DispLeftAlone
<1>4. CASE Enforcers
  BY <1>1, <1>4, EnforcersQuiet, DispLeftAlone
<1>5. CASE Membership \/ Clocks
  BY <1>1, <1>5, MembershipQuiet, DispLeftAlone
<1>6. CASE Clients
  <2>1. ASSUME NEW c \in Calls, NEW j \in Jobs, CancelJob(c, j) PROVE KeepsEntries
    BY <2>1, CancelQuiet DEF TypeOK, CancelJob
  <2>2. ASSUME NEW c \in Calls, NEW j \in Jobs, NEW n \in Nodes, NEW k \in Kinds,
               ReportResult(c, j, n, k)
        PROVE  KeepsEntries
    BY <2>2, MarkCompletedQuiet DEF TypeOK, ReportResult, Errors
  <2>3. ASSUME NEW j \in Jobs, AcknowledgeStart(j) PROVE KeepsEntries
    BY <2>3, StillQuiet DEF AcknowledgeStart
  <2>4. KeepsEntries
    BY <1>6, <2>1, <2>2, <2>3 DEF Clients
  <2> QED BY <1>1, <1>6, <2>4, DispLeftAlone
<1>7. CASE Dispatch
  BY <1>7, DispatchLosesNothing
<1>8. CASE UNCHANGED vars
  BY <1>1, <1>8, StillQuiet DEF vars, procVars
<1> QED BY <1>2, <1>3, <1>4, <1>5, <1>6, <1>7, <1>8 DEF Next

\* No queued job is lost, whatever races for its entry and its index.
THEOREM QueuedJobsKept == Spec => []NoQueuedJobLost
<1>1. Init => NoQueuedJobLost
  BY DEF Init, SchedInit, NoQueuedJobLost
<1>2. TypeOK /\ NoQueuedJobLost /\ [Next]_vars => NoQueuedJobLost'
  BY NoQueuedJobLostNext
<1> QED BY <1>1, <1>2, TypeCorrect, PTL DEF Spec

-----------------------------------------------------------------------------
(* No retry is forgotten *)

\* A handler that is about to decide on a retry of job j.
AboutToRetry(c, j) == rpc[c].pc = "settle" /\ rpc[c].job = j /\ rpc[c].kind # "ok"

\* What a step must leave alone: the timers, and the handlers that decide.
LeavesRetries ==
    /\ timers' = timers
    /\ \A c \in Calls : rpc[c].pc = "settle" => rpc'[c] = rpc[c]

\* A step that owes no further retry and leaves the retries alone.
LEMMA RetriesLeftAlone ==
    ASSUME RetryScheduled, OwesNoMore, LeavesRetries
    PROVE  RetryScheduled'
<1> SUFFICES ASSUME NEW j \in Jobs, Owed(j)'
             PROVE  timers'[j] > 0 \/ \E c \in Calls : AboutToRetry(c, j)'
  BY DEF RetryScheduled, Owed, AboutToRetry
<1>1. timers[j] > 0 \/ \E c \in Calls : AboutToRetry(c, j)
  BY DEF OwesNoMore, Owed, RetryScheduled, AboutToRetry
<1>2. ASSUME NEW c \in Calls, AboutToRetry(c, j) PROVE AboutToRetry(c, j)'
  BY <1>2 DEF AboutToRetry, LeavesRetries
<1> QED BY <1>1, <1>2 DEF LeavesRetries

\* The dispatch loop knows nothing of retries.
LEMMA DispatchOwesNoMore ==
    ASSUME TypeOK, Dispatch
    PROVE  OwesNoMore
<1>0. disp.left \in SUBSET Jobs
  BY DEF TypeOK, DispOK, DispType
<1>1. CASE Tick \/ SelectNothing \/ SelectNoNode \/ DispatchArm \/ DispatchSend
  BY <1>1, StillQuiet DEF Tick, SelectNothing, SelectNoNode, DispatchArm, DispatchSend
<1>2. CASE ExpireRank
  <2>1. First(disp.left) \in Jobs
    BY <1>0, <1>2, FirstIsFirst DEF ExpireRank
  <2> QED BY <1>2, <2>1, CancelQuiet, StillQuiet DEF TypeOK, ExpireRank
<1>3. CASE ExpireGroup \/ GangRun
  BY <1>3, GroupQuiet DEF ExpireGroup, GangRun
<1>4. CASE \/ \E g \in Groups : GangTimeout(g) \/ PlanGang(g) \/ SkipGang(g)
           \/ \E n \in Nodes : SelectNode(n)
  BY <1>4, StillQuiet DEF GangTimeout, PlanGang, SkipGang, SelectNode
<1>5. CASE GangRemove
  <2>1. First(disp.left) \in Jobs
    BY <1>0, <1>5, FirstIsFirst DEF TypeOK, DispOK, GangRemove
  <2> QED BY <1>5, <2>1, TakeQuiet DEF TypeOK, GangRemove
<1>6. CASE TakeTop
  <2>1. CASE InHeap = {}
    BY <1>6, <2>1, StillQuiet DEF TakeTop
  <2>2. CASE InHeap # {}
    BY <1>6, <2>2, TopIsQueued, TakeQuiet DEF TypeOK, TakeTop
  <2> QED BY <2>1, <2>2
<1>7. ASSUME NEW n \in Nodes, BackfillNode(n) PROVE OwesNoMore
  <2>1. \A j \in Backfillable(n) : j \in Jobs
    BY DEF Backfillable, InHeap
  <2> QED BY <1>7, <2>1, TakeQuiet, StillQuiet DEF TypeOK, BackfillNode
<1>8. CASE DispatchMark
  <2>1. disp.job \in Jobs
    BY <1>8 DEF TypeOK, DispOK, DispatchMark
  <2> QED BY <1>8, <2>1, MarkRunningQuiet DEF TypeOK, DispatchMark
<1> QED BY <1>1, <1>2, <1>3, <1>4, <1>5, <1>6, <1>7, <1>8 DEF Dispatch

\* Only reports, settlements and firing timers concern retries.
LEMMA OthersLeaveRetries ==
    ASSUME TypeOK,
           \/ Submission \/ Dispatch \/ Membership \/ Clocks
           \/ WallRelease \/ ShakeRequeue \/ ShakeRelease
           \/ \E j \in Jobs : ShakeCheck(j)
           \/ \E j \in Jobs, n \in MaybeNode : WallKill(j, n)
           \/ \E S \in SUBSET Jobs : WallScan(S) \/ ShakeScan(S)
    PROVE  LeavesRetries
<1> USE DEF LeavesRetries, procVars, resourceVars
<1>1. CASE Submission
  BY <1>1 DEF Submission, SubmitJob, SubmitRank, SubmitRankFails, SubmitRegister
<1>2. CASE Dispatch
  BY <1>2 DEF Dispatch, Tick, ExpireRank, ExpireGroup, GangRemove, GangRun,
     SelectNothing, SelectNoNode, TakeTop, DispatchMark, DispatchArm, DispatchSend,
     GangTimeout, PlanGang, SkipGang, SelectNode, BackfillNode, DispStep
<1>3. CASE Membership \/ Clocks
  BY <1>3 DEF Membership, LeaveMark, LeaveGroup, LeaveRelease, NodeLeaves, NodeJoins,
     Clocks, GroupAges, BreakerClock
<1>4. CASE \/ WallRelease \/ ShakeRequeue \/ ShakeRelease
           \/ \E j \in Jobs : ShakeCheck(j)
           \/ \E j \in Jobs, n \in MaybeNode : WallKill(j, n)
           \/ \E S \in SUBSET Jobs : WallScan(S) \/ ShakeScan(S)
  BY <1>4 DEF WallRelease, ShakeRequeue, ShakeRelease, ShakeCheck, WallKill,
     WallScan, ShakeScan
<1> QED BY <1>1, <1>2, <1>3, <1>4

\* A failed report leaves a handler behind that decides on the retry.
LEMMA ReportKeepsRetries ==
    ASSUME TypeOK, RetryScheduled, NEW c \in Calls, NEW j \in Jobs, NEW n \in Nodes,
           NEW k \in Kinds, ReportResult(c, j, n, k)
    PROVE  RetryScheduled'
<1> DEFINE e == IF k = "ok" THEN "none" ELSE "report"
<1>1. /\ \A i \in Jobs \ {j} : Owed(i)' => Owed(i)
      /\ e = "none" => ~Owed(j)'
  BY MarkCompletedQuiet DEF TypeOK, ReportResult, Errors
<1>2. timers' = timers
  BY DEF ReportResult, resourceVars
<1>3. \A b \in Calls : rpc[b].pc = "settle" => rpc'[b] = rpc[b]
  BY DEF TypeOK, ReportResult
<1>4. k # "ok" => AboutToRetry(c, j)'
  BY DEF TypeOK, ReportResult, AboutToRetry, IdleCall
<1> SUFFICES ASSUME NEW i \in Jobs, Owed(i)'
             PROVE  timers'[i] > 0 \/ \E b \in Calls : AboutToRetry(b, i)'
  BY DEF RetryScheduled, Owed, AboutToRetry
<1>5. CASE i = j
  BY <1>1, <1>4, <1>5
<1>6. CASE i # j
  <2>1. timers[i] > 0 \/ \E b \in Calls : AboutToRetry(b, i)
    BY <1>1, <1>6 DEF Owed, RetryScheduled, AboutToRetry
  <2>2. ASSUME NEW b \in Calls, AboutToRetry(b, i) PROVE AboutToRetry(b, i)'
    BY <1>3, <2>2 DEF AboutToRetry
  <2> QED BY <1>2, <2>1, <2>2
<1> QED BY <1>5, <1>6

\* The handler that decides starts the timer it owes.
LEMMA SettleKeepsRetries ==
    ASSUME TypeOK, RetryScheduled, NEW c \in Calls, SettleReport(c)
    PROVE  RetryScheduled'
<1> DEFINE r == rpc[c]
<1>1. r.job \in Jobs /\ timers \in [Jobs -> Nat]
  BY DEF TypeOK, ResourceTypeOK, CallOK, SettleReport
<1>2. OwesNoMore
  BY HandlersQuiet
<1>3. timers' = IF r.kind # "ok" /\ RetryAllowed(r.job)
                THEN [timers EXCEPT ![r.job] = @ + 1] ELSE timers
  BY DEF SettleReport
<1>4. \A b \in Calls \ {c} : rpc'[b] = rpc[b]
  BY DEF TypeOK, SettleReport
<1> SUFFICES ASSUME NEW i \in Jobs, Owed(i)'
             PROVE  timers'[i] > 0 \/ \E b \in Calls : AboutToRetry(b, i)'
  BY DEF RetryScheduled, Owed, AboutToRetry
<1>5. Owed(i)
  BY <1>2 DEF OwesNoMore
<1>6. CASE timers[i] > 0
  BY <1>1, <1>3, <1>6
<1>7. CASE AboutToRetry(c, i)
  <2>1. r.job = i /\ r.kind # "ok" /\ RetryAllowed(i)
    BY <1>5, <1>7 DEF AboutToRetry, Owed
  <2> QED BY <1>1, <1>3, <2>1
<1>8. ASSUME NEW b \in Calls \ {c}, AboutToRetry(b, i)
      PROVE  AboutToRetry(b, i)'
  BY <1>4, <1>8 DEF AboutToRetry
<1>9. timers[i] > 0 \/ \E b \in Calls : AboutToRetry(b, i)
  BY <1>5 DEF Owed, RetryScheduled, AboutToRetry
<1> QED BY <1>6, <1>7, <1>8, <1>9

\* A timer that fires queues its job, which is owed nothing then.
LEMMA RetryFiresKeepsRetries ==
    ASSUME TypeOK, RetryScheduled, NEW j \in Jobs, RetryFires(j)
    PROVE  RetryScheduled'
<1>1. OwesNoMore
  BY EnforcersQuiet DEF Enforcers
<1>2. ~Owed(j)'
  BY DEF TypeOK, SchedTypeOK, RetryFires, Requeue, Owed
<1>3. (\A i \in Jobs \ {j} : timers'[i] = timers[i]) /\ rpc' = rpc
  BY DEF TypeOK, ResourceTypeOK, RetryFires, procVars
<1> SUFFICES ASSUME NEW i \in Jobs, Owed(i)'
             PROVE  timers'[i] > 0 \/ \E b \in Calls : AboutToRetry(b, i)'
  BY DEF RetryScheduled, Owed, AboutToRetry
<1>4. i # j /\ Owed(i)
  BY <1>1, <1>2 DEF OwesNoMore
<1>5. timers[i] > 0 \/ \E b \in Calls : AboutToRetry(b, i)
  BY <1>4 DEF Owed, RetryScheduled, AboutToRetry
<1> QED BY <1>3, <1>4, <1>5 DEF AboutToRetry

\* The other steps of handlers, and the other requests, concern handlers that
\* are not about to decide.
LEMMA OtherCallsLeaveRetries ==
    ASSUME TypeOK, NEW c \in Calls,
           \/ FinishCancel(c) \/ HandleGroup(c) \/ AbortRank(c)
           \/ AbortVictim(c) \/ CloseGroup(c)
           \/ \E j \in Jobs : CancelJob(c, j)
    PROVE  LeavesRetries
<1>1. rpc[c].pc # "settle" /\ timers' = timers
  BY DEF FinishCancel, HandleGroup, AbortRank, AbortVictim, CloseGroup, CancelJob, resourceVars
<1>2. \A b \in Calls \ {c} : rpc'[b] = rpc[b]
  BY DEF TypeOK, FinishCancel, HandleGroup, AbortRank, AbortVictim, CloseGroup, CancelJob
<1> QED BY <1>1, <1>2 DEF LeavesRetries

\* Every step keeps the retries that are owed scheduled.
LEMMA RetryScheduledNext ==
    ASSUME TypeOK, RetryScheduled, [Next]_vars
    PROVE  RetryScheduled'
<1>1. CASE Submission
  BY <1>1, SubmissionQuiet, OthersLeaveRetries, RetriesLeftAlone
<1>2. CASE Dispatch
  BY <1>2, DispatchOwesNoMore, OthersLeaveRetries, RetriesLeftAlone
<1>3. CASE Membership \/ Clocks
  BY <1>3, MembershipQuiet, OthersLeaveRetries, RetriesLeftAlone
<1>4. CASE Enforcers
  BY <1>4, EnforcersQuiet, OthersLeaveRetries, RetriesLeftAlone, RetryFiresKeepsRetries
  DEF Enforcers
<1>5. CASE Handlers
  BY <1>5, HandlersQuiet, OtherCallsLeaveRetries, RetriesLeftAlone, SettleKeepsRetries
  DEF Handlers
<1>6. CASE Clients
  <2>1. ASSUME NEW c \in Calls, NEW j \in Jobs, CancelJob(c, j) PROVE RetryScheduled'
    <3>1. OwesNoMore
      BY <2>1, CancelQuiet DEF TypeOK, CancelJob
    <3> QED BY <2>1, <3>1, OtherCallsLeaveRetries, RetriesLeftAlone
  <2>2. ASSUME NEW j \in Jobs, AcknowledgeStart(j) PROVE RetryScheduled'
    <3>1. OwesNoMore /\ LeavesRetries
      BY <2>2, StillQuiet DEF AcknowledgeStart, LeavesRetries, procVars
    <3> QED BY <3>1, RetriesLeftAlone
  <2> QED BY <1>6, <2>1, <2>2, ReportKeepsRetries DEF Clients
<1>7. CASE UNCHANGED vars
  <2>1. OwesNoMore /\ LeavesRetries
    BY <1>7, StillQuiet DEF vars, procVars, resourceVars, LeavesRetries
  <2> QED BY <2>1, RetriesLeftAlone
<1> QED BY <1>1, <1>2, <1>3, <1>4, <1>5, <1>6, <1>7 DEF Next

\* No failure a worker reported is forgotten while the job has retries left.
THEOREM RetriesKept == Spec => []RetryScheduled
<1>1. Init => RetryScheduled
  BY DEF Init, SchedInit, RetryScheduled
<1>2. TypeOK /\ RetryScheduled /\ [Next]_vars => RetryScheduled'
  BY RetryScheduledNext
<1> QED BY <1>1, <1>2, TypeCorrect, PTL DEF Spec


-----------------------------------------------------------------------------
(* The workers' part of the state *)

\* An attempt knows its job and its node; one that reports, its outcome.
AttemptOK(a) ==
    /\ a.pc # "none" => a.job \in Jobs /\ a.node \in Nodes
    /\ a.pc \in {"report", "sent"} => a.kind \in Kinds

AttemptsOK == \A i \in Slots : AttemptOK(attempts[i])

\* Message k on the way to n starts attempt i.
Carries(n, k, i) ==
    k \in 1 .. Len(wire[n]) /\ wire[n][k].act = "execute" /\ wire[n][k].slot = i

\* Each execute message on the wire is the only one of an attempt that waits
\* for it.
WireOK ==
    /\ \A n \in Nodes : \A k \in 1 .. Len(wire[n]) :
          wire[n][k].act = "execute" =>
             /\ wire[n][k].slot \in Slots
             /\ attempts[wire[n][k].slot].pc = "wire"
             /\ attempts[wire[n][k].slot].node = n
    /\ \A n \in Nodes, k, l \in Nat, i \in Slots :
          Carries(n, k, i) /\ Carries(n, l, i) => k = l

WorkerInv == WorkerTypeOK /\ AttemptsOK /\ WireOK

AttemptType ==
    [pc : AttemptStates, job : Jobs \cup {NoJob}, node : Nodes \cup {NoNode},
     cancelled : BOOLEAN, kind : {"ok", "user", "infra"}]

\* pub.Send finds a slot when there is a free one: slots are numbered.
LEMMA FreeSlotIsFree ==
    ASSUME FreeSlots # {}
    PROVE  FreeSlot \in Slots /\ attempts[FreeSlot].pc = "none"
<1> DEFINE R == {p \in Nat \X Nat : p[1] < p[2]}
           T == FreeSlots
<1>1. T \subseteq Nat /\ T # {}
  BY LiveAssumption DEF FreeSlots, Slots
<1>2. IsWellFoundedOn(R, Nat)
  BY NatLessThanWellFounded DEF OpToRel
<1>3. \A a, b \in Nat : a < b => <<a, b>> \in R
  OBVIOUS
<1> HIDE DEF R, T
<1>4. PICK x \in T : \A y \in T : ~(<<y, x>> \in R)
  BY <1>1, <1>2, WFMin
<1>5. \A y \in T : x <= y
  <2> SUFFICES ASSUME NEW y \in T PROVE x <= y
    OBVIOUS
  <2>1. x \in Nat /\ y \in Nat
    BY <1>1
  <2>2. ~(y < x)
    BY <1>3, <1>4, <2>1
  <2> QED BY <2>1, <2>2
<1>6. FreeSlot \in FreeSlots
  BY <1>5 DEF FreeSlot, T
<1> QED BY <1>6 DEF FreeSlots

\* The attempts have their type when one of them is replaced.
LEMMA SetAttempt ==
    ASSUME WorkerTypeOK, AttemptsOK, NEW i \in Slots, NEW r \in AttemptType, AttemptOK(r),
           attempts' = [attempts EXCEPT ![i] = r]
    PROVE  /\ attempts' \in [Slots -> AttemptType] /\ AttemptsOK'
           /\ attempts'[i] = r
           /\ \A k \in Slots \ {i} : attempts'[k] = attempts[k]
<1>1. attempts \in [Slots -> AttemptType]
  BY DEF WorkerTypeOK, AttemptType
<1>2. /\ attempts' \in [Slots -> AttemptType] /\ attempts'[i] = r
      /\ \A k \in Slots \ {i} : attempts'[k] = attempts[k]
  BY <1>1
<1>3. \A k \in Slots : AttemptOK(attempts'[k])
  BY <1>2 DEF AttemptsOK
<1> QED BY <1>2, <1>3 DEF AttemptsOK

\* A step inside one attempt that is past the wire, with no message sent or
\* received.
LEMMA AttemptSteps ==
    ASSUME WorkerInv, NEW i \in Slots, NEW r \in AttemptType, AttemptOK(r),
           attempts[i].pc # "wire", attempts' = [attempts EXCEPT ![i] = r],
           UNCHANGED <<up, wire>>, cancelFuncs' \in [Nodes -> [Jobs -> 0 .. MaxLive]]
    PROVE  WorkerInv'
<1>1. /\ attempts' \in [Slots -> AttemptType] /\ AttemptsOK'
      /\ \A k \in Slots \ {i} : attempts'[k] = attempts[k]
  BY SetAttempt DEF WorkerInv
<1>2. WorkerTypeOK'
  BY <1>1 DEF WorkerInv, WorkerTypeOK, AttemptType
<1>3. WireOK'
  BY <1>1 DEF WorkerInv, WireOK, Carries
<1> QED BY <1>1, <1>2, <1>3 DEF WorkerInv

\* The executions: acknowledgeStart to the deferred function.
LEMMA ExecutionInv ==
    ASSUME WorkerInv, NEW i \in Slots,
           \/ EndHandshake(i) \/ StartRun(i) \/ Reported(i) \/ ReportAgain(i) \/ EndAttempt(i)
           \/ \E k \in Kinds : FinishRun(i, k)
    PROVE  WorkerInv'
<1> DEFINE a == attempts[i]
<1>1. /\ attempts \in [Slots -> AttemptType] /\ a \in AttemptType /\ AttemptOK(a)
      /\ cancelFuncs \in [Nodes -> [Jobs -> 0 .. MaxLive]] /\ i \in 0 .. MaxLive
  BY LiveAssumption DEF WorkerInv, WorkerTypeOK, AttemptType, AttemptsOK, Slots
<1>2. CASE EndHandshake(i)
  <2>1. [a EXCEPT !.pc = "start"] \in AttemptType /\ AttemptOK([a EXCEPT !.pc = "start"])
    BY <1>1, <1>2 DEF EndHandshake, AttemptType, AttemptOK, AttemptStates
  <2>2. attempts' = [attempts EXCEPT ![i] = [a EXCEPT !.pc = "start"]] /\ a.pc # "wire"
    BY <1>1, <1>2 DEF EndHandshake
  <2> QED BY <1>1, <1>2, <2>1, <2>2, AttemptSteps DEF EndHandshake
<1>3. CASE StartRun(i)
  <2>1. [a EXCEPT !.pc = "run"] \in AttemptType /\ AttemptOK([a EXCEPT !.pc = "run"])
    BY <1>1, <1>3 DEF StartRun, AttemptType, AttemptOK, AttemptStates
  <2>2. attempts' = [attempts EXCEPT ![i] = [a EXCEPT !.pc = "run"]] /\ a.pc # "wire"
    BY <1>1, <1>3 DEF StartRun
  <2>3. a.job \in Jobs /\ a.node \in Nodes
    BY <1>1, <1>3 DEF StartRun, AttemptOK
  <2>4. cancelFuncs' \in [Nodes -> [Jobs -> 0 .. MaxLive]]
    BY <1>1, <1>3, <2>3 DEF StartRun
  <2> QED BY <1>1, <1>3, <2>1, <2>2, <2>4, AttemptSteps DEF StartRun
<1>4. CASE Reported(i)
  <2>1. [a EXCEPT !.pc = "sent"] \in AttemptType /\ AttemptOK([a EXCEPT !.pc = "sent"])
    BY <1>1, <1>4 DEF Reported, AttemptType, AttemptOK, AttemptStates
  <2>2. attempts' = [attempts EXCEPT ![i] = [a EXCEPT !.pc = "sent"]] /\ a.pc # "wire"
    BY <1>1, <1>4 DEF Reported
  <2> QED BY <1>1, <1>4, <2>1, <2>2, AttemptSteps DEF Reported
<1>5. CASE ReportAgain(i)
  <2>1. [a EXCEPT !.pc = "report"] \in AttemptType /\ AttemptOK([a EXCEPT !.pc = "report"])
    BY <1>1, <1>5 DEF ReportAgain, AttemptType, AttemptOK, AttemptStates
  <2>2. attempts' = [attempts EXCEPT ![i] = [a EXCEPT !.pc = "report"]] /\ a.pc # "wire"
    BY <1>1, <1>5 DEF ReportAgain
  <2> QED BY <1>1, <1>5, <2>1, <2>2, AttemptSteps DEF ReportAgain
<1>6. CASE EndAttempt(i)
  <2>1. NoAttempt \in AttemptType /\ AttemptOK(NoAttempt)
    BY DEF NoAttempt, AttemptType, AttemptOK, AttemptStates
  <2>2. a.job \in Jobs /\ a.node \in Nodes /\ a.pc # "wire" /\ 0 \in 0 .. MaxLive
    BY <1>1, <1>6, LiveAssumption DEF EndAttempt, AttemptOK
  <2>3. cancelFuncs' \in [Nodes -> [Jobs -> 0 .. MaxLive]]
    BY <1>1, <1>6, <2>2 DEF EndAttempt
  <2> QED BY <1>6, <2>1, <2>2, <2>3, AttemptSteps DEF EndAttempt
<1>7. ASSUME NEW k \in Kinds, FinishRun(i, k) PROVE WorkerInv'
  <2> DEFINE r == [a EXCEPT !.pc = "report", !.kind = k]
  <2>1. r \in AttemptType /\ AttemptOK(r)
    BY <1>1, <1>7, KindAssumption DEF FinishRun, AttemptType, AttemptOK, AttemptStates
  <2>2. attempts' = [attempts EXCEPT ![i] = r] /\ a.pc # "wire"
    BY <1>1, <1>7 DEF FinishRun, AttemptType
  <2> HIDE DEF r
  <2> QED BY <1>1, <1>7, <2>1, <2>2, AttemptSteps DEF FinishRun
<1> QED BY <1>2, <1>3, <1>4, <1>5, <1>6, <1>7

\* A worker dies with all it holds, and starts with nothing.
LEMMA NodeInv ==
    ASSUME WorkerInv, NEW n \in Nodes, CrashNode(n) \/ StartNode(n)
    PROVE  WorkerInv'
<1>1. CASE CrashNode(n)
  <2>1. NoAttempt \in AttemptType /\ AttemptOK(NoAttempt)
    BY DEF NoAttempt, AttemptType, AttemptOK, AttemptStates
  <2>2. attempts' \in [Slots -> AttemptType]
    BY <1>1, <2>1 DEF CrashNode, WorkerInv, WorkerTypeOK, AttemptType
  <2>3. AttemptsOK'
    BY <1>1, <2>1 DEF CrashNode, WorkerInv, AttemptsOK
  <2>4. cancelFuncs' \in [Nodes -> [Jobs -> 0 .. MaxLive]] /\ up' \in SUBSET Nodes
    BY <1>1, LiveAssumption DEF CrashNode, WorkerInv, WorkerTypeOK
  <2>5. /\ wire' \in [Nodes -> Seq(Messages)] /\ wire'[n] = << >>
        /\ \A m \in Nodes \ {n} : wire'[m] = wire[m]
    BY <1>1 DEF CrashNode, WorkerInv, WorkerTypeOK
  <2>6. WireOK'
    <3>1. \A i \in Slots : attempts[i].node # n => attempts'[i] = attempts[i]
      BY <1>1 DEF CrashNode
    <3>2. \A m \in Nodes \ {n}, k \in Nat, i \in Slots : Carries(m, k, i)' <=> Carries(m, k, i)
      BY <2>5 DEF Carries
    <3>3. \A k \in Nat, i \in Slots : ~Carries(n, k, i)'
      BY <2>5 DEF Carries
    <3>4. \A m \in Nodes, k, l \in Nat, i \in Slots :
             Carries(m, k, i)' /\ Carries(m, l, i)' => k = l
      BY <3>2, <3>3 DEF WorkerInv, WireOK
    <3>5. ASSUME NEW m \in Nodes, NEW k \in 1 .. Len(wire'[m]), wire'[m][k].act = "execute"
          PROVE  /\ wire'[m][k].slot \in Slots
                 /\ attempts'[wire'[m][k].slot].pc = "wire"
                 /\ attempts'[wire'[m][k].slot].node = m
      <4>1. m # n /\ wire'[m] = wire[m]
        BY <2>5, <3>5
      <4>2. /\ wire[m][k].slot \in Slots
            /\ attempts[wire[m][k].slot].pc = "wire"
            /\ attempts[wire[m][k].slot].node = m
        BY <3>5, <4>1 DEF WorkerInv, WireOK
      <4> QED BY <3>1, <4>1, <4>2
    <3> QED BY <3>4, <3>5 DEF WireOK
  <2> QED BY <2>2, <2>3, <2>4, <2>5, <2>6 DEF WorkerInv, WorkerTypeOK, AttemptType
<1>2. CASE StartNode(n)
  <2>1. WorkerTypeOK'
    BY <1>2 DEF StartNode, WorkerInv, WorkerTypeOK
  <2> QED BY <1>2, <2>1 DEF StartNode, WorkerInv, AttemptsOK, WireOK, Carries
<1> QED BY <1>1, <1>2

\* pub.Send appends to what is on its way.
LEMMA PublishInv ==
    ASSUME WorkerInv, NEW n \in Nodes, NEW j \in Jobs, PublishExecute(n, j) \/ PublishCancel(n, j)
    PROVE  WorkerInv'
<1>1. wire \in [Nodes -> Seq(Messages)] /\ 0 \in 0 .. MaxLive
  BY LiveAssumption DEF WorkerInv, WorkerTypeOK
<1>2. ASSUME NEW m \in Messages, wire' = [wire EXCEPT ![n] = Append(@, m)]
      PROVE  /\ wire' \in [Nodes -> Seq(Messages)]
             /\ \A x \in Nodes \ {n} : wire'[x] = wire[x]
             /\ Len(wire[n]) \in Nat /\ Len(wire'[n]) = Len(wire[n]) + 1
             /\ \A k \in 1 .. Len(wire[n]) : wire'[n][k] = wire[n][k]
             /\ wire'[n][Len(wire[n]) + 1] = m
  BY <1>1, <1>2
<1>3. ASSUME UNCHANGED <<wire, attempts, up, cancelFuncs>> PROVE WorkerInv'
  <2>1. WorkerTypeOK' /\ AttemptsOK'
    BY <1>3 DEF WorkerInv, WorkerTypeOK, AttemptsOK
  <2>2. WireOK'
    BY <1>3 DEF WorkerInv, WireOK, Carries
  <2> QED BY <2>1, <2>2 DEF WorkerInv
<1>4. CASE PublishCancel(n, j) /\ n \in up
  <2> DEFINE m == [act |-> "cancel", job |-> j, slot |-> 0]
  <2>1. m \in Messages /\ m.act = "cancel" /\ wire' = [wire EXCEPT ![n] = Append(@, m)]
    BY <1>1, <1>4 DEF PublishCancel, Messages
  <2> HIDE DEF m
  <2>2. /\ wire' \in [Nodes -> Seq(Messages)]
        /\ \A x \in Nodes \ {n} : wire'[x] = wire[x]
        /\ Len(wire[n]) \in Nat /\ Len(wire'[n]) = Len(wire[n]) + 1
        /\ \A k \in 1 .. Len(wire[n]) : wire'[n][k] = wire[n][k]
        /\ wire'[n][Len(wire[n]) + 1] = m
    BY <1>2, <2>1
  <2>3. WorkerTypeOK' /\ AttemptsOK' /\ UNCHANGED attempts
    BY <1>4, <2>2 DEF PublishCancel, WorkerInv, WorkerTypeOK, AttemptsOK
  <2>4. \A x \in Nodes, k \in Nat, i \in Slots : Carries(x, k, i)' => Carries(x, k, i)
    BY <2>1, <2>2 DEF Carries
  <2>5. \A x \in Nodes : \A k \in 1 .. Len(wire'[x]) :
           wire'[x][k].act = "execute" => k \in 1 .. Len(wire[x]) /\ wire'[x][k] = wire[x][k]
    BY <2>1, <2>2
  <2>6. WireOK'
    BY <2>3, <2>4, <2>5 DEF WorkerInv, WireOK
  <2> QED BY <2>3, <2>6 DEF WorkerInv
<1>5. CASE PublishExecute(n, j) /\ n \in up
  <2> DEFINE s == FreeSlot
             m == [act |-> "execute", job |-> j, slot |-> s]
             r == [NoAttempt EXCEPT !.pc = "wire", !.job = j, !.node = n]
  <2>1. s \in Slots /\ s \in 0 .. MaxLive /\ attempts[s].pc = "none"
    BY <1>5, FreeSlotIsFree, LiveAssumption DEF PublishExecute, Slots
  <2>2. r \in AttemptType /\ AttemptOK(r) /\ r.pc = "wire" /\ r.node = n
    BY DEF NoAttempt, AttemptType, AttemptOK, AttemptStates
  <2>3. attempts' = [attempts EXCEPT ![s] = r] /\ wire' = [wire EXCEPT ![n] = Append(@, m)]
    BY <1>5 DEF PublishExecute
  <2> HIDE DEF s
  <2>4. m \in Messages /\ m.act = "execute" /\ m.slot = s
    BY <2>1 DEF Messages
  <2> HIDE DEF r, m
  <2>5. /\ wire' \in [Nodes -> Seq(Messages)]
        /\ \A x \in Nodes \ {n} : wire'[x] = wire[x]
        /\ Len(wire[n]) \in Nat /\ Len(wire'[n]) = Len(wire[n]) + 1
        /\ \A k \in 1 .. Len(wire[n]) : wire'[n][k] = wire[n][k]
        /\ wire'[n][Len(wire[n]) + 1] = m
    BY <1>2, <2>3, <2>4
  <2>6. /\ attempts' \in [Slots -> AttemptType] /\ AttemptsOK' /\ attempts'[s] = r
        /\ \A k \in Slots \ {s} : attempts'[k] = attempts[k]
    BY <2>1, <2>2, <2>3, SetAttempt DEF WorkerInv
  <2>7. WorkerTypeOK'
    BY <1>5, <2>5, <2>6 DEF PublishExecute, WorkerInv, WorkerTypeOK, AttemptType
  <2>8. \A x \in Nodes, k \in Nat : ~Carries(x, k, s)
    BY <2>1 DEF WorkerInv, WireOK, Carries
  <2>9. \A x \in Nodes, k \in Nat, i \in Slots :
           Carries(x, k, i)' =>
              \/ Carries(x, k, i)
              \/ i = s /\ x = n /\ k = Len(wire[n]) + 1
    <3> TAKE x \in Nodes, k \in Nat, i \in Slots
    <3> HAVE Carries(x, k, i)'
    <3>1. CASE x # n
      BY <2>5, <3>1 DEF Carries
    <3>2. CASE x = n /\ k \in 1 .. Len(wire[n])
      BY <2>5, <3>2 DEF Carries
    <3>3. CASE x = n /\ k = Len(wire[n]) + 1
      BY <2>4, <2>5, <3>3 DEF Carries
    <3>4. k \in 1 .. Len(wire'[x])
      BY DEF Carries
    <3> QED BY <2>5, <3>1, <3>2, <3>3, <3>4
  <2>10. \A x \in Nodes, k, l \in Nat, i \in Slots :
           Carries(x, k, i)' /\ Carries(x, l, i)' => k = l
    BY <2>8, <2>9 DEF WorkerInv, WireOK
  <2>11. ASSUME NEW x \in Nodes, NEW k \in 1 .. Len(wire'[x]), wire'[x][k].act = "execute"
         PROVE  /\ wire'[x][k].slot \in Slots
                /\ attempts'[wire'[x][k].slot].pc = "wire"
                /\ attempts'[wire'[x][k].slot].node = x
    <3>1. CASE k \in 1 .. Len(wire[x]) /\ wire'[x][k] = wire[x][k]
      <4>1. /\ wire[x][k].slot \in Slots
            /\ attempts[wire[x][k].slot].pc = "wire"
            /\ attempts[wire[x][k].slot].node = x
        BY <2>11, <3>1 DEF WorkerInv, WireOK
      <4> QED BY <2>1, <2>6, <3>1, <4>1
    <3>2. CASE x = n /\ k = Len(wire[n]) + 1
      BY <2>1, <2>2, <2>4, <2>5, <2>6, <3>2
    <3> QED BY <2>5, <3>1, <3>2
  <2>12. WireOK'
    BY <2>10, <2>11 DEF WireOK
  <2> QED BY <2>6, <2>7, <2>12 DEF WorkerInv
<1>6. CASE n \notin up
  BY <1>3, <1>6 DEF PublishExecute, PublishCancel
<1> QED BY <1>4, <1>5, <1>6

\* The message loop takes the first message.
LEMMA ReceiveInv ==
    ASSUME WorkerInv, NEW n \in Nodes, ReceiveExecute(n) \/ ReceiveCancel(n)
    PROVE  WorkerInv'
<1> DEFINE m == Head(wire[n])
<1>1. wire \in [Nodes -> Seq(Messages)] /\ wire[n] \in Seq(Messages) /\ wire[n] # << >>
  BY DEF ReceiveExecute, ReceiveCancel, WorkerInv, WorkerTypeOK
<1>2. wire' = [wire EXCEPT ![n] = Tail(@)]
  BY DEF ReceiveExecute, ReceiveCancel
<1>3. /\ m \in Messages /\ m = wire[n][1] /\ Len(wire[n]) \in Nat \ {0}
      /\ wire' \in [Nodes -> Seq(Messages)]
      /\ \A x \in Nodes \ {n} : wire'[x] = wire[x]
      /\ Len(wire'[n]) = Len(wire[n]) - 1
      /\ \A k \in 1 .. Len(wire[n]) - 1 : wire'[n][k] = wire[n][k + 1]
  BY <1>1, <1>2
<1> HIDE DEF m
<1>4. ASSUME NEW x \in Nodes, NEW k \in Nat, NEW i \in Slots, Carries(x, k, i)'
      PROVE  Carries(x, IF x = n THEN k + 1 ELSE k, i)
  BY <1>3, <1>4 DEF Carries
<1>5. \A x \in Nodes, k, l \in Nat, i \in Slots :
         Carries(x, k, i)' /\ Carries(x, l, i)' => k = l
  <2> SUFFICES ASSUME NEW x \in Nodes, NEW k \in Nat, NEW l \in Nat, NEW i \in Slots,
                      Carries(x, k, i)', Carries(x, l, i)'
               PROVE  k = l
    OBVIOUS
  <2>1. Carries(x, IF x = n THEN k + 1 ELSE k, i) /\ Carries(x, IF x = n THEN l + 1 ELSE l, i)
    BY <1>4
  <2>2. (IF x = n THEN k + 1 ELSE k) = (IF x = n THEN l + 1 ELSE l)
    BY <2>1 DEF WorkerInv, WireOK
  <2> QED BY <2>2
<1>6. ASSUME NEW x \in Nodes, NEW k \in 1 .. Len(wire'[x])
      PROVE  \E l \in 1 .. Len(wire[x]) : wire'[x][k] = wire[x][l] /\ (x = n => l # 1)
  <2>1. CASE x = n
    <3>1. k + 1 \in 1 .. Len(wire[x]) /\ k + 1 # 1 /\ wire'[x][k] = wire[x][k + 1]
      BY <1>3, <2>1
    <3> QED BY <3>1
  <2>2. CASE x # n
    BY <1>3, <2>2
  <2> QED BY <2>1, <2>2
<1>7. CASE ReceiveCancel(n)
  <2> DEFINE c == cancelFuncs[n][m.job]
  <2>1. /\ c \in 0 .. MaxLive /\ UNCHANGED <<up, cancelFuncs>>
        /\ attempts' = IF c = 0 THEN attempts ELSE [attempts EXCEPT ![c].cancelled = TRUE]
    BY <1>3, <1>7 DEF ReceiveCancel, WorkerInv, WorkerTypeOK, Messages, m
  <2> HIDE DEF c
  <2>2. /\ attempts' \in [Slots -> AttemptType]
        /\ \A i \in Slots : /\ attempts'[i].pc = attempts[i].pc
                            /\ attempts'[i].node = attempts[i].node
                            /\ attempts'[i].job = attempts[i].job
                            /\ attempts'[i].kind = attempts[i].kind
    <3>1. CASE c = 0
      BY <2>1, <3>1 DEF WorkerInv, WorkerTypeOK, AttemptType
    <3>2. CASE c # 0
      <4> DEFINE r == [attempts[c] EXCEPT !.cancelled = TRUE]
      <4>1. c \in Slots /\ attempts \in [Slots -> AttemptType]
        BY <2>1, <3>2, LiveAssumption DEF Slots, WorkerInv, WorkerTypeOK, AttemptType
      <4>2. /\ r \in AttemptType /\ r.pc = attempts[c].pc /\ r.node = attempts[c].node
            /\ r.job = attempts[c].job /\ r.kind = attempts[c].kind
        BY <4>1 DEF AttemptType
      <4>3. attempts' = [attempts EXCEPT ![c] = r]
        BY <2>1, <3>2
      <4> HIDE DEF r
      <4> QED BY <4>1, <4>2, <4>3
    <3> QED BY <3>1, <3>2
  <2>3. WorkerTypeOK' /\ AttemptsOK'
    BY <1>3, <2>1, <2>2 DEF WorkerInv, WorkerTypeOK, AttemptType, AttemptsOK, AttemptOK
  <2>4. ASSUME NEW x \in Nodes, NEW k \in 1 .. Len(wire'[x]), wire'[x][k].act = "execute"
        PROVE  /\ wire'[x][k].slot \in Slots
               /\ attempts'[wire'[x][k].slot].pc = "wire"
               /\ attempts'[wire'[x][k].slot].node = x
    <3>1. PICK l \in 1 .. Len(wire[x]) : wire'[x][k] = wire[x][l]
      BY <1>6
    <3> QED BY <2>2, <2>4, <3>1 DEF WorkerInv, WireOK
  <2>5. WireOK'
    BY <1>5, <2>4 DEF WireOK
  <2> QED BY <2>3, <2>5 DEF WorkerInv
<1>8. CASE ReceiveExecute(n)
  <2> DEFINE s == m.slot
             r == [attempts[s] EXCEPT !.pc = "ack"]
  <2>1. /\ m.act = "execute" /\ UNCHANGED <<up, cancelFuncs>>
        /\ attempts' = [attempts EXCEPT ![s] = r]
    BY <1>8 DEF ReceiveExecute, m
  <2>2. s \in Slots /\ attempts[s].pc = "wire" /\ attempts[s] \in AttemptType
    <3>1. 1 \in 1 .. Len(wire[n]) /\ wire[n][1] = m
      BY <1>3
    <3>2. s \in Slots /\ attempts[s].pc = "wire"
      BY <2>1, <3>1 DEF WorkerInv, WireOK
    <3> QED BY <3>2 DEF WorkerInv, WorkerTypeOK, AttemptType
  <2>3. r \in AttemptType /\ AttemptOK(r)
    BY <2>2 DEF WorkerInv, AttemptsOK, AttemptType, AttemptOK, AttemptStates
  <2> HIDE DEF r
  <2>4. /\ attempts' \in [Slots -> AttemptType] /\ AttemptsOK'
        /\ \A k \in Slots \ {s} : attempts'[k] = attempts[k]
    BY <2>1, <2>2, <2>3, SetAttempt DEF WorkerInv
  <2>5. WorkerTypeOK'
    BY <1>3, <2>1, <2>4 DEF WorkerInv, WorkerTypeOK, AttemptType
  <2>6. Carries(n, 1, s) /\ attempts[s].node = n
    <3>1. 1 \in 1 .. Len(wire[n]) /\ wire[n][1] = m
      BY <1>3
    <3> QED BY <2>1, <3>1 DEF Carries, WorkerInv, WireOK
  <2>7. ASSUME NEW x \in Nodes, NEW k \in 1 .. Len(wire'[x]), wire'[x][k].act = "execute"
        PROVE  /\ wire'[x][k].slot \in Slots
               /\ attempts'[wire'[x][k].slot].pc = "wire"
               /\ attempts'[wire'[x][k].slot].node = x
    <3>1. PICK l \in 1 .. Len(wire[x]) : wire'[x][k] = wire[x][l] /\ (x = n => l # 1)
      BY <1>6
    <3>2. /\ wire[x][l].slot \in Slots
          /\ attempts[wire[x][l].slot].pc = "wire"
          /\ attempts[wire[x][l].slot].node = x
      BY <2>7, <3>1 DEF WorkerInv, WireOK
    <3>3. wire[x][l].slot # s
      <4> SUFFICES ASSUME wire[x][l].slot = s PROVE FALSE
        OBVIOUS
      <4>1. x = n /\ l \in Nat
        BY <1>1, <2>6, <3>2
      <4>2. Carries(n, l, s)
        BY <2>7, <3>1, <4>1 DEF Carries
      <4>3. l = 1
        BY <2>2, <2>6, <4>1, <4>2 DEF WorkerInv, WireOK
      <4> QED BY <3>1, <4>1, <4>3
    <3> QED BY <2>4, <3>1, <3>2, <3>3
  <2>8. WireOK'
    BY <1>5, <2>7 DEF WireOK
  <2> QED BY <2>4, <2>5, <2>8 DEF WorkerInv
<1> QED BY <1>7, <1>8

-----------------------------------------------------------------------------
(* The cluster's master is the master of module Master *)

ClusterInv == TypeOK /\ WorkerInv /\ used \in [Faults -> Nat]

\* Every step of the cluster is a step of the master on its own, or none:
\* what workers send it is among what the open environment of Spec may send.
LEMMA MasterStep ==
    ASSUME ClusterInv, [ClusterNext]_clusterVars
    PROVE  [Next]_vars
<1>1. CASE UNCHANGED clusterVars
  BY <1>1 DEF clusterVars
<1>2. CASE Submit
  BY <1>2 DEF Submit, Next
<1>3. CASE DispatchStep
  BY <1>3 DEF DispatchStep, SendExecute, Dispatch, Next
<1>4. CASE ShakeStep
  BY <1>4 DEF ShakeStep, Enforcers, Next
<1>5. CASE WallStep \/ WallOverdue
  BY <1>5 DEF WallStep, WallOverdue, SendWallCancel, Enforcers, Next
<1>6. CASE LeaveStep \/ Clock
  BY <1>6 DEF LeaveStep, Clock, Membership, Next
<1>7. ASSUME NEW S \in SUBSET Jobs, TimeOut(S) PROVE Next
  BY <1>7 DEF TimeOut, Enforcers, Next
<1>8. ASSUME NEW c \in Calls, HandlerStep(c) PROVE Next
  BY <1>8 DEF HandlerStep, SendCancel, Handlers, Next
<1>9. ASSUME NEW c \in Calls, NEW j \in Jobs, ClientCancel(c, j) PROVE Next
  BY <1>9 DEF ClientCancel, Clients, Next
<1>10. ASSUME NEW j \in Jobs, RetryStep(j) PROVE Next
  BY <1>10 DEF RetryStep, Enforcers, Next
<1>11. ASSUME NEW n \in Nodes, Noticed(n) \/ Crash(n) \/ Restart(n) \/ MessageLoop(n)
       PROVE  Next \/ UNCHANGED vars
  BY <1>11 DEF Noticed, Crash, Restart, MessageLoop, WorkerAlone, Membership, Next
<1>12. ASSUME NEW i \in Slots, Execution(i) \/ Duplicate(i)
       PROVE  Next \/ UNCHANGED vars
  <2>1. CASE Duplicate(i)
    BY <2>1 DEF Duplicate
  <2>2. CASE Acknowledge(i)
    <3>1. attempts[i].job \in Jobs
      BY <2>2 DEF Acknowledge, EndHandshake, ClusterInv, WorkerInv, AttemptsOK, AttemptOK
    <3> QED BY <2>2, <3>1 DEF Acknowledge, Clients, Next
  <2>3. ASSUME NEW c \in Calls, Report(i, c) PROVE Next
    <3>1. attempts[i].job \in Jobs /\ attempts[i].node \in Nodes /\ attempts[i].kind \in Kinds
      BY <2>3 DEF Report, Reported, ClusterInv, WorkerInv, AttemptsOK, AttemptOK
    <3> QED BY <2>3, <3>1 DEF Report, Clients, Next
  <2> QED BY <1>12, <2>1, <2>2, <2>3 DEF Execution, WorkerAlone
<1> QED BY <1>1, <1>2, <1>3, <1>4, <1>5, <1>6, <1>7, <1>8, <1>9, <1>10, <1>11, <1>12
        DEF ClusterNext

\* What a step does to the workers.
LEMMA WorkerStep ==
    ASSUME ClusterInv, [ClusterNext]_clusterVars
    PROVE  WorkerInv'
<1>0. WorkerInv
  BY DEF ClusterInv
<1>1. ASSUME UNCHANGED workerVars PROVE WorkerInv'
  <2>1. WorkerTypeOK' /\ AttemptsOK'
    BY <1>0, <1>1 DEF workerVars, WorkerInv, WorkerTypeOK, AttemptsOK
  <2>2. WireOK'
    BY <1>0, <1>1 DEF workerVars, WorkerInv, WireOK, Carries
  <2> QED BY <2>1, <2>2 DEF WorkerInv
<1>2. ASSUME NEW n, NEW j \in Jobs, CancelMessage(n, j) PROVE WorkerInv'
  BY <1>0, <1>1, <1>2, PublishInv DEF CancelMessage
<1>3. CASE SendExecute
  <2>1. disp.node \in Nodes /\ disp.job \in Jobs
    BY <1>3 DEF SendExecute, DispatchSend, ClusterInv, TypeOK, DispOK
  <2> QED BY <1>0, <1>1, <1>3, <2>1, PublishInv DEF SendExecute
<1>4. ASSUME NEW c \in Calls, SendCancel(c) PROVE WorkerInv'
  <2>1. rpc[c].victim \in Jobs
    BY <1>4 DEF SendCancel, FinishCancel, AbortVictim, ClusterInv, TypeOK, CallOK
  <2> QED BY <1>2, <1>4, <2>1 DEF SendCancel
<1>5. CASE SendWallCancel
  <2>1. wall.job \in Jobs
    BY <1>5 DEF SendWallCancel, WallRelease, ClusterInv, TypeOK, WallOK
  <2> QED BY <1>2, <1>5, <2>1 DEF SendWallCancel
<1>6. CASE UNCHANGED clusterVars \/ Submit \/ ShakeStep \/ WallOverdue \/ LeaveStep \/ Clock
  BY <1>1, <1>6 DEF clusterVars, Submit, ShakeStep, WallOverdue, LeaveStep, Clock, MasterAlone
<1>7. CASE DispatchStep \/ WallStep
  BY <1>1, <1>3, <1>5, <1>7 DEF DispatchStep, WallStep, MasterAlone
<1>8. ASSUME NEW S \in SUBSET Jobs, TimeOut(S) PROVE WorkerInv'
  BY <1>1, <1>8 DEF TimeOut
<1>9. ASSUME NEW c \in Calls, HandlerStep(c) \/ \E j \in Jobs : ClientCancel(c, j)
      PROVE  WorkerInv'
  BY <1>1, <1>4, <1>9 DEF HandlerStep, ClientCancel, MasterAlone
<1>10. ASSUME NEW j \in Jobs, RetryStep(j) PROVE WorkerInv'
  BY <1>1, <1>10 DEF RetryStep, MasterAlone
<1>11. ASSUME NEW n \in Nodes, Noticed(n) \/ Crash(n) \/ Restart(n) \/ MessageLoop(n)
       PROVE  WorkerInv'
  BY <1>0, <1>1, <1>11, NodeInv, ReceiveInv DEF Noticed, Crash, Restart, MessageLoop, MasterAlone
<1>12. ASSUME NEW i \in Slots, Execution(i) \/ Duplicate(i) PROVE WorkerInv'
  BY <1>0, <1>12, ExecutionInv DEF Execution, Duplicate, Acknowledge, Report
<1> QED BY <1>6, <1>7, <1>8, <1>9, <1>10, <1>11, <1>12 DEF ClusterNext

\* A step spends one unit of one fault, or none.
LEMMA UsedStep ==
    ASSUME ClusterInv, [ClusterNext]_clusterVars
    PROVE  UNCHANGED used \/ \E f \in Faults : Spend(f)
BY DEF ClusterNext, clusterVars, Submit, DispatchStep, SendExecute, ShakeStep, WallStep,
       SendWallCancel, CancelMessage, WallOverdue, LeaveStep, Clock, TimeOut, HandlerStep,
       SendCancel, ClientCancel, RetryStep, Noticed, Crash, Restart, MessageLoop, Execution,
       Acknowledge, Report, Duplicate, MasterAlone, WorkerAlone, Faults

LEMMA ClusterInvInit == ClusterInit => ClusterInv
<1> SUFFICES ASSUME ClusterInit PROVE ClusterInv
  OBVIOUS
<1>1. TypeOK
  BY TypeInit DEF ClusterInit
<1>2. NoAttempt \in AttemptType /\ AttemptOK(NoAttempt)
  BY DEF NoAttempt, AttemptType, AttemptOK, AttemptStates
<1>3. WorkerTypeOK /\ AttemptsOK
  BY <1>2, LiveAssumption
  DEF ClusterInit, WorkerInit, WorkerTypeOK, AttemptsOK, AttemptType
<1>4. WireOK
  BY DEF ClusterInit, WorkerInit, WireOK, Carries
<1> QED BY <1>1, <1>3, <1>4 DEF ClusterInit, ClusterInv, WorkerInv

LEMMA ClusterInvNext == ClusterInv /\ [ClusterNext]_clusterVars => ClusterInv'
<1> SUFFICES ASSUME ClusterInv, [ClusterNext]_clusterVars PROVE ClusterInv'
  OBVIOUS
<1>1. TypeOK'
  BY MasterStep, TypeNext DEF ClusterInv
<1>2. WorkerInv'
  BY WorkerStep
<1>3. used' \in [Faults -> Nat]
  BY UsedStep DEF ClusterInv, Spend
<1> QED BY <1>1, <1>2, <1>3 DEF ClusterInv

\* The cluster is well typed: a slot named by a message or by a cancel
\* function exists, whatever is lost, late, repeated or crashed.
THEOREM ClusterTypeCorrect == ClusterSafety => []ClusterTypeOK
<1>1. ClusterSafety => []ClusterInv
  BY ClusterInvInit, ClusterInvNext, PTL DEF ClusterSafety
<1>2. ClusterInv => ClusterTypeOK
  BY DEF ClusterInv, WorkerInv, ClusterTypeOK
<1> QED BY <1>1, <1>2, PTL

\* The cluster implements the master of module Master, whose environment may
\* do anything: what is proved of that one holds of this one.
THEOREM ClusterRefinesMaster == ClusterSafety => Spec
<1>1. ClusterSafety => []ClusterInv
  BY ClusterInvInit, ClusterInvNext, PTL DEF ClusterSafety
<1>2. ClusterInit => Init
  BY DEF ClusterInit
<1>3. ClusterInv /\ [ClusterNext]_clusterVars => [Next]_vars
  BY MasterStep
<1> QED BY <1>1, <1>2, <1>3, PTL DEF ClusterSafety, Spec

\* No queued job of the cluster is lost.
THEOREM ClusterKeepsQueuedJobs == ClusterSafety => []NoQueuedJobLost
BY ClusterRefinesMaster, QueuedJobsKept, PTL

\* No failed job of the cluster that has retries left is forgotten.
THEOREM ClusterKeepsRetries == ClusterSafety => []RetryScheduled
BY ClusterRefinesMaster, RetriesKept, PTL
=============================================================================
