--------------------------- MODULE CustodyProofs ---------------------------
(***************************************************************************)
(* A job is in one place at a time: in the queue, in the dispatch loop's   *)
(* hands, in dispatchPending, in an execution, with the timeout enforcer,  *)
(* in a report being settled, or with a retry goroutine.  No lock says so; *)
(* it holds as long as handshakes are in time and reports come once, and   *)
(* then no job runs twice at once and no retry is one too many.  Where     *)
(* nothing else disturbs a job, what the tracker has allocated follows it  *)
(* from place to place.                                                    *)
(***************************************************************************)
EXTENDS ClusterProofs, Sums

\* No handshake is late, no result reported twice; where gangs are
\* dispatched no worker dies.  Messages may be lost and jobs cancelled, and
\* single jobs survive crashes.
OnTime ==
    /\ Budget["late"] = 0
    /\ Budget["dup"] = 0
    /\ Groups = {} \/ Budget["crash"] = 0

-----------------------------------------------------------------------------
(* The places *)

Armed(j) == disp.pc = "armed" /\ disp.job = j
Placing(j) == disp.pc \in {"marked", "armed"} /\ disp.job = j
Travels(i, j) == attempts[i].pc \in {"wire", "ack"} /\ attempts[i].job = j

\* A job is in one place.  The ranks a gang dispatch has planned for are in the
\* queue or in no place at all.
Only(j, p) ==
    /\ state[j] = "NONE" => p = "new"
    /\ InQueue(j) \/ Planned(j) => p = "queue"
    /\ InHand(j) => p = "hand"
    /\ j \in pending => p = "pending"
    /\ \A i \in Slots : Executes(i, j) => p = "exec"
    /\ TimedOut(j) => p = "shake"
    /\ \A c \in Calls : Settles(c, j) => p = "settle"
    /\ timers[j] > 0 => p = "timer"

Places == {"new", "queue", "hand", "pending", "exec", "shake", "settle", "timer"}

Custody(j) == \E p \in Places : Only(j, p)

\* It is there once, and what travels to a worker is what is pending.
Single(j) ==
    /\ heap[j] <= 1 /\ timers[j] <= 1
    /\ \A i, k \in Slots : Executes(i, j) /\ Executes(k, j) => i = k
    /\ \A i, k \in Slots : Travels(i, j) /\ Travels(k, j) => i = k
    /\ \A c, d \in Calls : Settles(c, j) /\ Settles(d, j) => c = d
    /\ \A i \in Slots : Travels(i, j) => j \in pending /\ ~Armed(j)
    /\ Armed(j) => j \in pending

\* The master knows the node of a dispatch and of an execution.
Located(j) ==
    /\ \A i \in Slots : Travels(i, j) \/ Executes(i, j) => worker[j] = attempts[i].node
    /\ Placing(j) => worker[j] = disp.node

Bounded(j) == retries[j] <= MaxRetries /\ (timers[j] > 0 => retries[j] < MaxRetries)

JobInv(j) == Custody(j) /\ Single(j) /\ Located(j) /\ Bounded(j)

\* Where a job is says where it is not.
LEMMA Whereabouts ==
    ASSUME NEW j \in Jobs, Custody(j)
    PROVE  /\ state[j] = "NONE" => Only(j, "new")
           /\ InQueue(j) \/ Planned(j) => Only(j, "queue")
           /\ InHand(j) => Only(j, "hand")
           /\ j \in pending => Only(j, "pending")
           /\ \A i \in Slots : Executes(i, j) => Only(j, "exec")
           /\ TimedOut(j) => Only(j, "shake")
           /\ \A c \in Calls : Settles(c, j) => Only(j, "settle")
           /\ timers[j] > 0 => Only(j, "timer")
<1>1. PICK p \in Places : Only(j, p)
  BY DEF Custody
<1> QED BY <1>1 DEF Only

-----------------------------------------------------------------------------
(* Steps that move a job nowhere, component by component *)

CalmSched(j) ==
    /\ heap'[j] <= heap[j] /\ UNCHANGED <<retries[j], worker[j]>>
    /\ state'[j] = "NONE" <=> state[j] = "NONE"

CalmDisp(j) ==
    /\ Planned(j)' => Planned(j)
    /\ InHand(j)' => InHand(j)
    /\ Armed(j)' => Armed(j)
    /\ Placing(j)' => Placing(j) /\ disp'.node = disp.node

CalmWork(j) ==
    \A i \in Slots :
       /\ Executes(i, j)' => Executes(i, j) /\ attempts'[i].node = attempts[i].node
       /\ Travels(i, j)' => Travels(i, j) /\ attempts'[i].node = attempts[i].node

CalmShake(j) == TimedOut(j)' => TimedOut(j)

CalmCalls(j) == \A c \in Calls : Settles(c, j)' => Settles(c, j)

CalmTimers(j) == UNCHANGED timers[j]

CalmPending(j) == j \in pending' <=> j \in pending

-----------------------------------------------------------------------------
(* Steps that pass a job on *)

\* The queue has the job, or a gang dispatch that is yet to take it.
Waiting(j) == InQueue(j) \/ Planned(j)
\* The dispatch loop, dispatchPending or the timeout enforcer has it.
Held(j) == InHand(j) \/ j \in pending \/ TimedOut(j)
\* A worker has it.
Worked(j) == \E i \in Slots : Executes(i, j)
\* ReportResult has marked the job and has yet to release it.
Settling(j) == \E c \in Calls : Settles(c, j)

\* Who has the job after a step had it before, or got it from the one who had.
Lawful(j) ==
    /\ state'[j] = "NONE" => state[j] = "NONE"
    /\ state[j] = "NONE" => state'[j] = "NONE" \/ Waiting(j)'
    /\ Waiting(j)' => Waiting(j) \/ state[j] = "NONE" \/ Held(j) \/ timers[j] > 0
    /\ Held(j)' => Held(j) \/ Waiting(j)
    /\ Worked(j)' => Worked(j) \/ Held(j)
    /\ Settling(j)' => Settling(j) \/ Worked(j)
    /\ timers'[j] > 0 => timers[j] > 0 \/ (Settling(j) /\ RetryAllowed(j))
    /\ timers[j] > 0 => timers'[j] > 0 \/ (Waiting(j)' /\ retries'[j] = retries[j] + 1)
    /\ retries'[j] = retries[j] \/ (timers[j] > 0 /\ Waiting(j)')

\* A step leaves the job in one place, and it came there lawfully.
WellKept(j) == JobInv(j)' /\ Lawful(j)

\* What is nowhere moved stays in its one place.
LEMMA CalmStep ==
    ASSUME TypeOK, TypeOK', NEW j \in Jobs, JobInv(j), CalmSched(j), CalmDisp(j),
           CalmWork(j), CalmShake(j), CalmCalls(j), CalmTimers(j), CalmPending(j)
    PROVE  WellKept(j)
<1>1. /\ heap[j] \in Nat /\ heap'[j] \in Nat /\ timers[j] \in Nat /\ timers'[j] \in Nat
      /\ heap'[j] <= heap[j] /\ timers'[j] <= timers[j]
  BY DEF TypeOK, SchedTypeOK, HeapTypeOK, ResourceTypeOK, CalmSched, CalmTimers
<1>2. Custody(j)'
  <2>1. PICK p \in Places : Only(j, p)
    BY DEF JobInv, Custody
  <2>2. Only(j, p)'
    BY <1>1, <2>1
       DEF Only, CalmSched, CalmDisp, CalmPending, CalmWork, CalmShake, CalmCalls, InQueue
  <2> QED BY <2>2 DEF Custody
<1>3. Single(j)'
  BY <1>1 DEF JobInv, Single, CalmWork, CalmCalls, CalmDisp, CalmPending
<1>4. Located(j)'
  BY DEF JobInv, Located, CalmWork, CalmDisp, CalmSched
<1>5. Bounded(j)'
  BY <1>1 DEF JobInv, Bounded, CalmSched
<1>6. Lawful(j)
  BY <1>1 DEF Lawful, Waiting, Held, Worked, Settling, InQueue, CalmSched, CalmDisp, CalmPending,
              CalmWork, CalmShake, CalmCalls, CalmTimers
<1> QED BY <1>2, <1>3, <1>4, <1>5, <1>6 DEF WellKept, JobInv

\* Components that a step does not touch.
LEMMA CalmUnchanged ==
    ASSUME TypeOK, NEW j \in Jobs
    PROVE  /\ UNCHANGED schedVars => CalmSched(j)
           /\ UNCHANGED disp => CalmDisp(j)
           /\ UNCHANGED attempts => CalmWork(j)
           /\ UNCHANGED shake => CalmShake(j)
           /\ UNCHANGED rpc => CalmCalls(j)
           /\ UNCHANGED timers => CalmTimers(j)
           /\ UNCHANGED pending => CalmPending(j)
<1>1. heap[j] \in Nat /\ timers[j] \in Nat
  BY DEF TypeOK, SchedTypeOK, HeapTypeOK, ResourceTypeOK
<1>2. UNCHANGED schedVars => CalmSched(j)
  BY <1>1 DEF schedVars, CalmSched
<1>3. UNCHANGED disp => CalmDisp(j)
  BY DEF CalmDisp, Planned, InHand, Armed, Placing
<1>4. UNCHANGED attempts => CalmWork(j)
  BY DEF CalmWork, Executes, Travels
<1>5. UNCHANGED shake => CalmShake(j)
  BY DEF CalmShake, TimedOut
<1>6. UNCHANGED rpc => CalmCalls(j)
  BY DEF CalmCalls, Settles
<1>7. UNCHANGED timers => CalmTimers(j)
  BY <1>1 DEF CalmTimers
<1>8. UNCHANGED pending => CalmPending(j)
  BY DEF CalmPending
<1> QED BY <1>2, <1>3, <1>4, <1>5, <1>6, <1>7, <1>8

\* The methods that push nothing and place nothing.
LEMMA CalmMethods ==
    ASSUME TypeOK, NEW j \in Jobs,
           \/ \E k \in Jobs : Cancel(k) \/ Dequeue(k) \/ Backfill(k) \/ RemoveByID(k)
           \/ \E k \in Jobs, e \in Errors : MarkCompleted(k, e)
           \/ \E g \in Groups, s \in GroupStates : SetGroupState(g, s)
           \/ \E g \in Groups : RegisterGroup(g)
    PROVE  CalmSched(j)
<1>0. SchedTypeOK /\ heap \in [Jobs -> Nat] /\ heap[j] \in Nat
  BY DEF TypeOK, SchedTypeOK, HeapTypeOK
<1>1. ASSUME NEW k \in Jobs, HeapRemove(k) PROVE heap'[j] <= heap[j]
  BY <1>0, <1>1 DEF HeapRemove
<1>2. ASSUME NEW k \in Jobs, RemoveIndexed(k) PROVE heap'[j] <= heap[j]
  BY <1>0, <1>1, <1>2 DEF RemoveIndexed, heapVars
<1>3. UNCHANGED heapVars => heap'[j] <= heap[j]
  BY <1>0 DEF heapVars
<1>4. ASSUME NEW k \in Jobs, Cancel(k) PROVE CalmSched(j)
  <2>1. heap'[j] <= heap[j]
    BY <1>2, <1>3, <1>4 DEF Cancel
  <2>2. /\ state' = [state EXCEPT ![k] = "CANCELLED"] /\ state[k] # "NONE"
        /\ UNCHANGED <<worker, retries>>
    BY <1>4 DEF Cancel, Cancellable
  <2> QED BY <1>0, <2>1, <2>2 DEF CalmSched, SchedTypeOK
<1>5. ASSUME NEW k \in Jobs, Dequeue(k) \/ Backfill(k) \/ RemoveByID(k) PROVE CalmSched(j)
  <2>1. heap'[j] <= heap[j]
    BY <1>1, <1>2, <1>3, <1>5 DEF Dequeue, HeapPop, Backfill, RemoveByID
  <2>2. UNCHANGED <<state, worker, retries>>
    BY <1>5 DEF Dequeue, Backfill, RemoveByID, jobVars
  <2> QED BY <2>1, <2>2 DEF CalmSched
<1>6. ASSUME NEW k \in Jobs, NEW e \in Errors, MarkCompleted(k, e) PROVE CalmSched(j)
  <2>1. heap'[j] <= heap[j] /\ UNCHANGED <<worker, retries>>
    BY <1>3, <1>6 DEF MarkCompleted
  <2>2. state'[j] = "NONE" <=> state[j] = "NONE"
    BY <1>0, <1>6 DEF MarkCompleted, SchedTypeOK
  <2> QED BY <2>1, <2>2 DEF CalmSched
<1>7. ASSUME NEW g \in Groups, NEW s \in GroupStates, SetGroupState(g, s) \/ RegisterGroup(g)
      PROVE  CalmSched(j)
  BY <1>3, <1>7 DEF SetGroupState, RegisterGroup, jobVars, CalmSched
<1>8. "NONE" \in GroupStates
  BY DEF GroupStates
<1> QED BY <1>4, <1>5, <1>6, <1>7, <1>8

\* The methods that push or place one job leave the others alone.
LEMMA CalmOthers ==
    ASSUME TypeOK, NEW k \in Jobs, NEW j \in Jobs \ {k},
           \/ Enqueue(k) \/ Requeue(k) \/ RequeueRunningJob(k)
           \/ \E n \in Nodes : MarkRunning(k, n)
    PROVE  CalmSched(j)
BY DEF TypeOK, SchedTypeOK, HeapTypeOK, CalmSched, Enqueue, Requeue, RequeueRunningJob,
       MarkRunning, HeapPush, heapVars

\* A whole step leaves a job in its place.
Calm(j) ==
    /\ CalmSched(j) /\ CalmDisp(j) /\ CalmWork(j) /\ CalmShake(j)
    /\ CalmCalls(j) /\ CalmTimers(j) /\ CalmPending(j)

-----------------------------------------------------------------------------
(* Steps that move a job *)

\* A job that is pushed, and that was taken from wherever it was, is in the
\* queue only.
LEMMA PushedAlone ==
    ASSUME TypeOK, NEW k \in Jobs, HeapPush(k), heap[k] = 0,
           state'[k] = "QUEUED", retries'[k] <= MaxRetries, timers'[k] = 0, k \notin pending',
           ~Planned(k)', ~InHand(k)', ~Armed(k)', ~TimedOut(k)',
           \A i \in Slots : ~Executes(i, k)' /\ ~Travels(i, k)',
           \A c \in Calls : ~Settles(c, k)'
    PROVE  JobInv(k)'
<1>1. heap'[k] = 1
  BY DEF TypeOK, SchedTypeOK, HeapTypeOK, HeapPush
<1>2. Only(k, "queue")' /\ "queue" \in Places
  BY DEF Only, Places
<1>3. Single(k)'
  BY <1>1 DEF Single
<1>4. Located(k)'
  BY DEF Located, Placing, InHand, Armed
<1>5. Bounded(k)'
  BY DEF Bounded
<1> QED BY <1>2, <1>3, <1>4, <1>5 DEF JobInv, Custody

\* And the queue has it.
LEMMA PushedWaits ==
    ASSUME TypeOK, NEW k \in Jobs, HeapPush(k)
    PROVE  Waiting(k)'
BY DEF TypeOK, SchedTypeOK, HeapTypeOK, HeapPush, Waiting, InQueue

\* Submission: a job that did not exist.
LEMMA EnqueueMove ==
    ASSUME TypeOK, TypeOK', \A j \in Jobs : JobInv(j), NEW k \in Jobs, state[k] = "NONE",
           Enqueue(k), UNCHANGED <<disp, attempts, shake, rpc, timers, pending>>
    PROVE  \A j \in Jobs : WellKept(j)
<1>1. ASSUME NEW j \in Jobs \ {k} PROVE WellKept(j)
  BY CalmOthers, CalmUnchanged, CalmStep
<1>2. WellKept(k)
  <2>1. Only(k, "new") /\ Single(k) /\ Bounded(k)
    BY Whereabouts DEF JobInv
  <2>2. /\ heap[k] = 0 /\ timers[k] = 0
    BY <2>1 DEF Only, InQueue, TypeOK, SchedTypeOK, HeapTypeOK, ResourceTypeOK
  <2>3. HeapPush(k) /\ state'[k] = "QUEUED" /\ UNCHANGED retries
    BY DEF Enqueue, TypeOK, SchedTypeOK
  <2>4. ~Planned(k)' /\ ~InHand(k)' /\ ~TimedOut(k)' /\ k \notin pending' /\ ~Armed(k)'
    BY <2>1 DEF Only, Planned, InHand, TimedOut, Armed, Single
  <2>5. /\ \A i \in Slots : ~Executes(i, k)' /\ ~Travels(i, k)'
        /\ \A c \in Calls : ~Settles(c, k)'
    BY <2>1 DEF Only, Executes, Travels, Settles, Single
  <2>6. JobInv(k)'
    BY <2>1, <2>2, <2>3, <2>4, <2>5, PushedAlone DEF Bounded
  <2>7. Waiting(k)' /\ ~Held(k)' /\ ~Worked(k)' /\ ~Settling(k)'
    BY <2>3, <2>4, <2>5, PushedWaits DEF Held, Worked, Settling
  <2>8. Lawful(k)
    BY <2>2, <2>3, <2>7 DEF Lawful
  <2> QED BY <2>6, <2>8 DEF WellKept
<1> QED BY <1>1, <1>2

\* The retry goroutine.
LEMMA RetryMove ==
    ASSUME TypeOK, TypeOK', \A j \in Jobs : JobInv(j), NEW k \in Jobs, RetryFires(k),
           UNCHANGED attempts
    PROVE  \A j \in Jobs : WellKept(j)
<1>0. /\ UNCHANGED <<disp, shake, rpc, pending>> /\ Requeue(k)
      /\ timers' = [timers EXCEPT ![k] = @ - 1] /\ timers[k] > 0
      /\ timers \in [Jobs -> Nat] /\ retries \in [Jobs -> Nat] /\ MaxRetries \in Nat
  BY LimitAssumption DEF RetryFires, procVars, TypeOK, ResourceTypeOK, SchedTypeOK
<1>1. ASSUME NEW j \in Jobs \ {k} PROVE WellKept(j)
  <2>1. CalmTimers(j)
    BY <1>0 DEF CalmTimers
  <2> QED BY <1>0, <2>1, CalmOthers, CalmUnchanged, CalmStep
<1>2. WellKept(k)
  <2>1. Only(k, "timer") /\ Single(k) /\ Bounded(k)
    BY <1>0, Whereabouts DEF JobInv
  <2>2. heap[k] = 0 /\ timers'[k] = 0
    BY <1>0, <2>1 DEF Only, Single, InQueue, TypeOK, SchedTypeOK, HeapTypeOK
  <2>3. HeapPush(k) /\ state'[k] = "QUEUED" /\ retries'[k] <= MaxRetries
    BY <1>0, <2>1 DEF Requeue, Bounded, TypeOK, SchedTypeOK
  <2>4. ~Planned(k)' /\ ~InHand(k)' /\ ~TimedOut(k)' /\ k \notin pending' /\ ~Armed(k)'
    BY <1>0, <2>1 DEF Only, Planned, InHand, TimedOut, Armed, Single
  <2>5. /\ \A i \in Slots : ~Executes(i, k)' /\ ~Travels(i, k)'
        /\ \A c \in Calls : ~Settles(c, k)'
    BY <1>0, <2>1 DEF Only, Executes, Travels, Settles, Single
  <2>6. JobInv(k)'
    BY <2>2, <2>3, <2>4, <2>5, PushedAlone
  <2>7. Waiting(k)' /\ ~Held(k)' /\ ~Worked(k)' /\ ~Settling(k)'
    BY <2>3, <2>4, <2>5, PushedWaits DEF Held, Worked, Settling
  <2>8. state[k] # "NONE" /\ retries'[k] = retries[k] + 1
    BY <1>0 DEF Requeue
  <2>9. Lawful(k)
    BY <1>0, <2>2, <2>3, <2>7, <2>8 DEF Lawful
  <2> QED BY <2>6, <2>9 DEF WellKept
<1> QED BY <1>1, <1>2

\* The timeout enforcer puts a job back.
LEMMA ShakeRequeueMove ==
    ASSUME TypeOK, TypeOK', \A j \in Jobs : JobInv(j), ShakeRequeue, UNCHANGED attempts,
           shake.job \notin shake.jobs
    PROVE  \A j \in Jobs : WellKept(j)
<1>0. PICK k \in Jobs : k = shake.job
  BY DEF ShakeRequeue, TypeOK, ShakeOK
<1>1. /\ UNCHANGED <<disp, rpc, pending, timers>> /\ shake \in ShakeType
      /\ shake.pc = "requeue" /\ k \notin shake.jobs
  BY <1>0 DEF ShakeRequeue, resourceVars, TypeOK, ShakeOK
<1>2. \A j \in Jobs : TimedOut(j)' <=> j \in shake.jobs
  <2>1. CASE shake' = ShakeRest(shake.jobs)
    BY <2>1 DEF TimedOut, ShakeRest, IdleShake
  <2>2. CASE shake' = [shake EXCEPT !.pc = "release"]
    BY <1>1, <2>2 DEF TimedOut, ShakeType
  <2> QED BY <2>1, <2>2 DEF ShakeRequeue
<1>3. \A j \in Jobs : CalmShake(j)
  BY <1>2 DEF CalmShake, TimedOut
<1>4. CASE UNCHANGED schedVars
  BY <1>1, <1>3, <1>4, CalmUnchanged, CalmStep
<1>5. CASE RequeueRunningJob(k)
  <2>1. ASSUME NEW j \in Jobs \ {k} PROVE WellKept(j)
    BY <1>1, <1>3, <1>5, CalmOthers, CalmUnchanged, CalmStep
  <2>2. Only(k, "shake") /\ Single(k) /\ Bounded(k)
    BY <1>0, <1>1, Whereabouts DEF JobInv, TimedOut
  <2>3. heap[k] = 0 /\ timers'[k] = 0
    BY <1>1, <2>2 DEF Only, InQueue, TypeOK, SchedTypeOK, HeapTypeOK, ResourceTypeOK
  <2>4. HeapPush(k) /\ state'[k] = "QUEUED" /\ UNCHANGED retries
    BY <1>5 DEF RequeueRunningJob, TypeOK, SchedTypeOK
  <2>5. ~Planned(k)' /\ ~InHand(k)' /\ ~TimedOut(k)' /\ k \notin pending' /\ ~Armed(k)'
    BY <1>1, <1>2, <2>2 DEF Only, Planned, InHand, Armed, Single
  <2>6. /\ \A i \in Slots : ~Executes(i, k)' /\ ~Travels(i, k)'
        /\ \A c \in Calls : ~Settles(c, k)'
    BY <1>1, <2>2 DEF Only, Executes, Travels, Settles, Single
  <2>7. JobInv(k)'
    BY <2>2, <2>3, <2>4, <2>5, <2>6, PushedAlone DEF Bounded
  <2>8. Waiting(k)' /\ ~Held(k)' /\ ~Worked(k)' /\ ~Settling(k)'
    BY <2>4, <2>5, <2>6, PushedWaits DEF Held, Worked, Settling
  <2>9. Held(k) /\ state[k] # "NONE" /\ timers[k] = 0
    BY <1>0, <1>1, <1>5, <2>3 DEF Held, TimedOut, RequeueRunningJob
  <2>10. Lawful(k)
    BY <2>3, <2>4, <2>8, <2>9 DEF Lawful
  <2> QED BY <2>1, <2>7, <2>10 DEF WellKept
<1> QED BY <1>0, <1>4, <1>5 DEF ShakeRequeue

\* The timeout enforcer collects what no worker has acknowledged.
LEMMA TimeOutMove ==
    ASSUME TypeOK, TypeOK', \A j \in Jobs : JobInv(j), NEW S \in SUBSET Jobs, ShakeScan(S),
           disp.job \notin S, \A j \in S : ~Undelivered(j), UNCHANGED attempts
    PROVE  \A j \in Jobs : WellKept(j)
<1>0. /\ UNCHANGED <<schedVars, disp, rpc, timers>> /\ pending' = pending \ S /\ S \subseteq pending
      /\ shake.pc = "idle" /\ shake' = ShakeRest(S)
  BY DEF ShakeScan
<1>1. \A j \in Jobs : TimedOut(j)' <=> j \in S
  BY <1>0 DEF TimedOut, ShakeRest, IdleShake
<1>2. ASSUME NEW j \in Jobs \ S PROVE WellKept(j)
  <2>1. CalmShake(j) /\ CalmPending(j)
    BY <1>0, <1>1 DEF CalmShake, CalmPending
  <2> QED BY <1>0, <2>1, CalmUnchanged, CalmStep
<1>3. ASSUME NEW j \in S PROVE WellKept(j)
  <2>1. /\ Only(j, "pending") /\ Single(j) /\ Bounded(j) /\ Located(j)
        /\ j \notin pending' /\ ~Armed(j) /\ \A i \in Slots : ~Travels(i, j)
    BY <1>0, Whereabouts DEF JobInv, Armed, Undelivered, Travels
  <2>2. CalmSched(j) /\ CalmDisp(j) /\ CalmWork(j) /\ CalmCalls(j) /\ CalmTimers(j)
    BY <1>0, CalmUnchanged
  <2>3. heap[j] \in Nat /\ heap'[j] \in Nat /\ timers[j] \in Nat /\ timers'[j] \in Nat
    BY DEF TypeOK, SchedTypeOK, HeapTypeOK, ResourceTypeOK
  <2>4. Only(j, "shake")' /\ "shake" \in Places
    BY <2>1, <2>2, <2>3
    DEF Only, Places, CalmSched, CalmDisp, CalmWork, CalmCalls, CalmTimers, InQueue
  <2>5. Single(j)'
    BY <2>1, <2>2, <2>3 DEF Single, CalmSched, CalmDisp, CalmWork, CalmCalls, CalmTimers
  <2>6. Located(j)' /\ Bounded(j)'
    BY <2>1, <2>2, <2>3 DEF Located, Bounded, CalmSched, CalmDisp, CalmWork, CalmTimers
  <2>7. Held(j)
    BY <1>0 DEF Held
  <2>8. Lawful(j)
    BY <2>2, <2>3, <2>7
    DEF Lawful, Waiting, Worked, Settling, InQueue, CalmSched, CalmDisp, CalmWork, CalmCalls,
        CalmTimers
  <2> QED BY <2>4, <2>5, <2>6, <2>8 DEF WellKept, JobInv, Custody
<1> QED BY <1>2, <1>3

\* The dispatch loop takes a job from the queue.
LEMMA TakeMove ==
    ASSUME TypeOK, TypeOK', \A j \in Jobs : JobInv(j) /\ CalmSched(j),
           NEW k \in Jobs, InQueue(k) \/ Planned(k), heap'[k] = 0,
           disp'.pc = "taken", disp'.job = k, k \notin disp'.left,
           \A j \in Jobs : Planned(j)' => Planned(j),
           UNCHANGED <<attempts, shake, rpc, timers, pending>>
    PROVE  \A j \in Jobs : WellKept(j)
<1>0. ASSUME NEW j \in Jobs
      PROVE  /\ CalmWork(j) /\ CalmShake(j) /\ CalmCalls(j) /\ CalmTimers(j) /\ CalmPending(j)
             /\ ~Armed(j)' /\ ~Placing(j)'
  BY CalmUnchanged DEF Armed, Placing
<1>1. ASSUME NEW j \in Jobs \ {k} PROVE WellKept(j)
  <2>1. CalmDisp(j)
    BY <1>0 DEF CalmDisp, InHand
  <2> QED BY <1>0, <2>1, CalmStep
<1>2. WellKept(k)
  <2>1. Only(k, "queue") /\ Single(k) /\ Bounded(k) /\ Located(k) /\ CalmSched(k)
    BY Whereabouts DEF JobInv
  <2>2. Only(k, "hand")' /\ "hand" \in Places
    BY <2>1 DEF Only, Places, CalmSched, InQueue, Planned, TimedOut, Executes, Settles
  <2>3. Single(k)'
    BY <1>0, <2>1 DEF Single, Executes, Travels, Settles
  <2>4. Located(k)' /\ Bounded(k)'
    BY <1>0, <2>1 DEF Located, Bounded, CalmSched, Executes, Travels
  <2>5. Waiting(k) /\ ~Waiting(k)'
    BY DEF Waiting, InQueue, Planned
  <2>6. Lawful(k)
    BY <1>0, <2>1, <2>5
    DEF Lawful, Worked, Settling, CalmSched, CalmWork, CalmCalls, CalmTimers
  <2> QED BY <2>2, <2>3, <2>4, <2>6 DEF WellKept, JobInv, Custody
<1> QED BY <1>1, <1>2

\* dispatchJob up to the publication: the job stays in hand, then is pending.
LEMMA HandMove ==
    ASSUME TypeOK, TypeOK', \A j \in Jobs : JobInv(j), DispatchMark \/ DispatchArm,
           UNCHANGED attempts
    PROVE  \A j \in Jobs : WellKept(j)
<1>0. PICK k \in Jobs : k = disp.job
  BY DEF TypeOK, DispOK, DispatchMark, DispatchArm
<1>1. /\ disp \in DispType /\ disp.node \in Nodes
      /\ UNCHANGED <<shake, rpc, timers>> /\ disp'.job = k /\ disp'.left = disp.left
      /\ disp'.node = disp.node /\ disp.pc \in {"taken", "marked"}
  BY <1>0 DEF TypeOK, DispOK, DispType, DispatchMark, DispatchArm, DispStep, resourceVars
<1>2. ASSUME NEW j \in Jobs
      PROVE  CalmWork(j) /\ CalmShake(j) /\ CalmCalls(j) /\ CalmTimers(j)
  BY <1>1, CalmUnchanged
<1>3. Only(k, "hand") /\ Single(k) /\ Bounded(k) /\ Located(k)
  BY <1>0, <1>1, Whereabouts DEF JobInv, InHand
<1>4. k \notin pending /\ \A i \in Slots : ~Travels(i, k) /\ ~Executes(i, k)
  BY <1>3 DEF Only, Single
<1>5. \A i \in Slots : ~Travels(i, k)' /\ ~Executes(i, k)'
  BY <1>4 DEF Travels, Executes
<1>6. ASSUME NEW j \in Jobs \ {k} PROVE CalmDisp(j)
  BY <1>0, <1>1 DEF CalmDisp, Planned, InHand, Armed, Placing
<1>7. Planned(k)' => Planned(k)
  BY <1>1 DEF Planned
<1>8. Held(k) /\ state[k] # "NONE"
  BY <1>0, <1>1, <1>3 DEF Held, InHand, Only
<1>9. CASE DispatchMark
  <2>1. /\ UNCHANGED <<pending, heap, retries>> /\ MarkRunning(k, disp.node)
        /\ state'[k] = "RUNNING" /\ worker'[k] = disp.node /\ disp'.pc = "marked"
    BY <1>0, <1>1, <1>9
    DEF DispatchMark, MarkRunning, heapVars, resourceVars, TypeOK, SchedTypeOK, DispType
  <2>2. ASSUME NEW j \in Jobs \ {k} PROVE WellKept(j)
    BY <1>1, <1>2, <1>6, <2>1, CalmOthers, CalmUnchanged, CalmStep
  <2>3. Only(k, "hand")' /\ "hand" \in Places
    BY <1>1, <1>3, <1>5, <1>7, <2>1 DEF Only, Places, InQueue, TimedOut, Settles
  <2>4. Single(k)'
    BY <1>1, <1>3, <1>5, <2>1 DEF Single, Armed, Settles
  <2>5. Located(k)' /\ Bounded(k)'
    BY <1>1, <1>3, <1>5, <2>1 DEF Located, Bounded
  <2>6. Lawful(k)
    BY <1>2, <1>8, <2>1 DEF Lawful, Settling, CalmCalls, CalmTimers
  <2> QED BY <2>2, <2>3, <2>4, <2>5, <2>6 DEF WellKept, JobInv, Custody
<1>10. CASE DispatchArm
  <2>1. /\ UNCHANGED schedVars /\ pending' = pending \cup {k}
        /\ disp'.pc = "armed" /\ disp.pc = "marked"
    BY <1>0, <1>1, <1>10 DEF DispatchArm, DispType
  <2>2. ASSUME NEW j \in Jobs \ {k} PROVE WellKept(j)
    <3>1. CalmPending(j)
      BY <2>1 DEF CalmPending
    <3> QED BY <1>2, <1>6, <2>1, <3>1, CalmUnchanged, CalmStep
  <2>3. Only(k, "pending")' /\ "pending" \in Places
    BY <1>1, <1>3, <1>5, <1>7, <2>1 DEF Only, Places, schedVars, InQueue, InHand, TimedOut, Settles
  <2>4. Single(k)'
    BY <1>1, <1>3, <1>5, <2>1 DEF Single, Armed, Settles, schedVars
  <2>5. Placing(k) /\ worker'[k] = disp'.node
    BY <1>0, <1>1, <1>3, <2>1 DEF Placing, Located, schedVars
  <2>6. Located(k)' /\ Bounded(k)'
    BY <1>1, <1>3, <1>5, <2>1, <2>5 DEF Located, Bounded, schedVars
  <2>7. Lawful(k)
    BY <1>2, <1>8, <2>1 DEF Lawful, Settling, CalmCalls, CalmTimers, schedVars
  <2> QED BY <2>2, <2>3, <2>4, <2>6, <2>7 DEF WellKept, JobInv, Custody
<1> QED BY <1>9, <1>10

\* The execute message: the pending job now travels, or the message is lost.
LEMMA SendMove ==
    ASSUME TypeOK, TypeOK', WorkerInv, \A j \in Jobs : JobInv(j), SendExecute
    PROVE  \A j \in Jobs : WellKept(j)
<1>0. PICK k \in Jobs : k = disp.job
  BY DEF TypeOK, DispOK, DispatchSend, SendExecute
<1>1. PICK n \in Nodes : n = disp.node
  BY DEF TypeOK, DispOK, DispatchSend, SendExecute
<1>2. /\ disp \in DispType /\ UNCHANGED <<schedVars, shake, rpc, timers, pending>>
      /\ disp.pc = "armed"
      /\ \/ disp' = IdleDisp
         \/ disp' = [disp EXCEPT !.pc = IF disp.left = {} THEN "run" ELSE "rank",
                                 !.job = NoJob, !.node = NoNode]
  BY DEF TypeOK, DispOK, DispatchSend, SendExecute, DispStep, resourceVars
<1>3. disp'.pc \in {"idle", "run", "rank"} /\ disp'.left \subseteq disp.left
  <2>1. CASE disp' = IdleDisp
    BY <2>1 DEF IdleDisp
  <2>2. CASE disp' = [disp EXCEPT !.pc = IF disp.left = {} THEN "run" ELSE "rank",
                                  !.job = NoJob, !.node = NoNode]
    BY <1>2, <2>2 DEF DispType
  <2> QED BY <1>2, <2>1, <2>2
<1>4. ASSUME NEW j \in Jobs
      PROVE  /\ CalmSched(j) /\ CalmDisp(j) /\ CalmShake(j) /\ CalmCalls(j) /\ CalmTimers(j)
             /\ CalmPending(j) /\ ~Armed(j)'
  <2>1. CalmDisp(j) /\ ~Armed(j)'
    BY <1>2, <1>3 DEF CalmDisp, Planned, InHand, Armed, Placing
  <2> QED BY <1>2, <2>1, CalmUnchanged
<1>5. CASE UNCHANGED attempts
  BY <1>4, <1>5, CalmUnchanged, CalmStep
<1>6. CASE PublishExecute(n, k) /\ n \in up
  <2> DEFINE r == [NoAttempt EXCEPT !.pc = "wire", !.job = k, !.node = n]
  <2>1. FreeSlots # {} /\ attempts' = [attempts EXCEPT ![FreeSlot] = r]
    BY <1>6 DEF PublishExecute
  <2>2. PICK s \in Slots : s = FreeSlot /\ attempts[s].pc = "none"
    BY <2>1, FreeSlotIsFree
  <2>3. r.pc = "wire" /\ r.job = k /\ r.node = n
    BY DEF NoAttempt
  <2> HIDE DEF r
  <2>4. /\ attempts'[s].pc = "wire" /\ attempts'[s].job = k /\ attempts'[s].node = n
        /\ \A i \in Slots \ {s} : attempts'[i] = attempts[i]
    BY <2>1, <2>2, <2>3 DEF WorkerInv, WorkerTypeOK
  <2>5. ASSUME NEW j \in Jobs \ {k} PROVE WellKept(j)
    <3>1. CalmWork(j)
      BY <2>4 DEF CalmWork, Executes, Travels
    <3> QED BY <1>4, <3>1, CalmStep
  <2>6. /\ Only(k, "pending") /\ Single(k) /\ Bounded(k) /\ Located(k)
        /\ k \in pending /\ worker[k] = n
    BY <1>0, <1>1, <1>2, Whereabouts DEF JobInv, Single, Located, Armed, Placing
  <2>7. \A i \in Slots : ~Travels(i, k) /\ ~Executes(i, k)
    BY <1>0, <1>2, <2>6 DEF Only, Single, Armed
  <2>8. \A i \in Slots : ~Executes(i, k)' /\ (Travels(i, k)' => i = s)
    BY <2>4, <2>7 DEF Executes, Travels
  <2>9. Only(k, "pending")' /\ "pending" \in Places
    BY <1>2, <1>4, <2>6, <2>8
    DEF Only, Places, schedVars, InQueue, CalmDisp, TimedOut, Settles
  <2>10. Single(k)'
    BY <1>2, <1>4, <2>6, <2>8 DEF Single, Settles, schedVars
  <2>11. Located(k)' /\ Bounded(k)'
    BY <1>2, <1>3, <2>4, <2>6, <2>8 DEF Located, Bounded, Placing, schedVars
  <2>12. Held(k) /\ state[k] # "NONE"
    BY <2>6 DEF Held, Only
  <2>13. Lawful(k)
    BY <1>2, <1>4, <2>12 DEF Lawful, Settling, CalmCalls, CalmTimers, schedVars
  <2> QED BY <2>5, <2>9, <2>10, <2>11, <2>13 DEF WellKept, JobInv, Custody
<1> QED BY <1>0, <1>1, <1>5, <1>6 DEF SendExecute, PublishExecute, workerVars

\* A gang is planned: its ranks are all QUEUED, so in the queue.
LEMMA PlanMove ==
    ASSUME TypeOK, TypeOK', NoQueuedJobLost, \A j \in Jobs : JobInv(j),
           NEW g \in Groups, PlanGang(g), UNCHANGED attempts
    PROVE  \A j \in Jobs : WellKept(j)
<1>1. /\ UNCHANGED <<schedVars, shake, rpc, timers, pending>> /\ disp.pc = "gang"
      /\ disp'.pc = "rank" /\ disp'.left = Ranks(g)
      /\ \A j \in Ranks(g) : state[j] = "QUEUED"
  BY DEF PlanGang, AllQueued, IdleDisp, DispStep, resourceVars
<1>2. ASSUME NEW j \in Jobs
      PROVE  /\ ~InHand(j)' /\ ~Armed(j)' /\ ~Placing(j)'
             /\ CalmSched(j) /\ CalmWork(j) /\ CalmShake(j) /\ CalmCalls(j)
             /\ CalmTimers(j) /\ CalmPending(j)
  BY <1>1, CalmUnchanged DEF InHand, Armed, Placing
<1>3. ASSUME NEW j \in Jobs \ Ranks(g) PROVE WellKept(j)
  <2>1. CalmDisp(j)
    BY <1>1, <1>2 DEF CalmDisp, Planned
  <2> QED BY <1>2, <2>1, CalmStep
<1>4. ASSUME NEW j \in Ranks(g) PROVE WellKept(j)
  <2>1. j \in Jobs /\ InQueue(j)
    BY <1>1 DEF Ranks, NoQueuedJobLost, InQueue
  <2>2. Only(j, "queue") /\ Single(j) /\ Bounded(j) /\ Located(j)
    BY <2>1, Whereabouts DEF JobInv
  <2>3. Only(j, "queue")' /\ "queue" \in Places
    BY <1>1, <1>2, <2>1, <2>2 DEF Only, Places, schedVars, Executes, TimedOut, Settles
  <2>4. Single(j)'
    BY <1>1, <1>2, <2>1, <2>2 DEF Single, Executes, Travels, Settles, schedVars
  <2>5. Located(j)' /\ Bounded(j)'
    BY <1>1, <1>2, <2>1, <2>2 DEF Located, Bounded, Executes, Travels, schedVars
  <2>6. Waiting(j) /\ state[j] # "NONE"
    BY <2>1, <2>2 DEF Waiting, Only
  <2>7. Lawful(j)
    BY <1>1, <1>2, <2>1, <2>6
    DEF Lawful, Held, Worked, Settling, TimedOut, CalmWork, CalmCalls, CalmTimers, schedVars
  <2> QED BY <2>3, <2>4, <2>5, <2>7 DEF WellKept, JobInv, Custody
<1> QED BY <1>3, <1>4

\* A worker's acknowledgement is in time: what was pending is now executed.
LEMMA AckMove ==
    ASSUME TypeOK, TypeOK', WorkerInv, \A j \in Jobs : JobInv(j), NEW i \in Slots,
           EndHandshake(i), AcknowledgeStart(attempts[i].job)
    PROVE  \A j \in Jobs : WellKept(j)
<1>0. PICK k \in Jobs : k = attempts[i].job
  BY DEF EndHandshake, WorkerInv, AttemptsOK, AttemptOK
<1>1. /\ attempts[i].pc = "ack" /\ attempts'[i].pc = "start" /\ attempts'[i].job = k
      /\ attempts'[i].node = attempts[i].node
      /\ \A s \in Slots \ {i} : attempts'[s] = attempts[s]
  BY <1>0 DEF EndHandshake, WorkerInv, WorkerTypeOK
<1>2. k \in pending /\ pending' = pending \ {k} /\ UNCHANGED <<schedVars, disp, shake, rpc, timers>>
  BY <1>0 DEF AcknowledgeStart, procVars
<1>3. ASSUME NEW j \in Jobs
      PROVE  CalmSched(j) /\ CalmDisp(j) /\ CalmShake(j) /\ CalmCalls(j) /\ CalmTimers(j)
  BY <1>2, CalmUnchanged
<1>4. ASSUME NEW j \in Jobs \ {k} PROVE WellKept(j)
  <2>1. CalmWork(j) /\ CalmPending(j)
    BY <1>0, <1>1, <1>2 DEF CalmWork, CalmPending, Executes, Travels
  <2> QED BY <1>3, <2>1, CalmStep
<1>5. WellKept(k)
  <2>1. Only(k, "pending") /\ Single(k) /\ Located(k) /\ Bounded(k) /\ Travels(i, k)
    BY <1>0, <1>1, <1>2, Whereabouts DEF JobInv, Travels
  <2>2. /\ \A s \in Slots : ~Travels(s, k)' /\ (Executes(s, k)' => s = i)
        /\ ~Armed(k) /\ worker[k] = attempts[i].node
    BY <1>0, <1>1, <2>1 DEF Only, Single, Located, Travels, Executes
  <2>3. Only(k, "exec")' /\ "exec" \in Places
    BY <1>2, <2>1, <2>2
    DEF Only, Places, schedVars, InQueue, Planned, InHand, TimedOut, Settles
  <2>4. Single(k)'
    BY <1>2, <2>1, <2>2 DEF Single, Settles, Armed, schedVars
  <2>5. ~InHand(k)
    BY <2>1 DEF Only
  <2>6. Located(k)' /\ Bounded(k)'
    BY <1>1, <1>2, <2>1, <2>2, <2>5 DEF Located, Bounded, Placing, Armed, InHand, schedVars
  <2>7. Held(k) /\ state[k] # "NONE"
    BY <1>2, <2>1 DEF Held, Only
  <2>8. Lawful(k)
    BY <1>2, <1>3, <2>7 DEF Lawful, Settling, CalmCalls, CalmTimers, schedVars
  <2> QED BY <2>3, <2>4, <2>6, <2>8 DEF WellKept, JobInv, Custody
<1> QED BY <1>4, <1>5

\* A worker reports: what was executed is now in a handler's hands.
LEMMA ReportMove ==
    ASSUME TypeOK, TypeOK', WorkerInv, \A j \in Jobs : JobInv(j), NEW i \in Slots,
           NEW c \in Calls, Report(i, c)
    PROVE  \A j \in Jobs : WellKept(j)
<1>0. PICK k \in Jobs : k = attempts[i].job
  BY DEF Report, Reported, WorkerInv, AttemptsOK, AttemptOK
<1>1. /\ attempts[i].pc = "report" /\ attempts'[i].pc = "sent"
      /\ \A s \in Slots \ {i} : attempts'[s] = attempts[s]
  BY <1>0 DEF Report, Reported, WorkerInv, WorkerTypeOK
<1>2. ReportResult(c, k, attempts[i].node, attempts[i].kind)
  BY <1>0 DEF Report
<1>3. /\ UNCHANGED <<disp, shake, timers, pending>>
      /\ rpc'[c].pc = "settle" /\ rpc'[c].job = k
      /\ \A d \in Calls \ {c} : rpc'[d] = rpc[d]
  BY <1>2 DEF ReportResult, resourceVars, IdleCall, TypeOK
<1>4. PICK e \in Errors : MarkCompleted(k, e)
  BY <1>2 DEF ReportResult, Errors
<1>5. ASSUME NEW j \in Jobs
      PROVE  /\ CalmSched(j) /\ CalmDisp(j) /\ CalmShake(j) /\ CalmTimers(j)
             /\ CalmPending(j) /\ CalmWork(j)
  <2>1. CalmWork(j)
    BY <1>1 DEF CalmWork, Executes, Travels
  <2> QED BY <1>3, <1>4, <2>1, CalmUnchanged, CalmMethods
<1>6. ASSUME NEW j \in Jobs \ {k} PROVE WellKept(j)
  <2>1. CalmCalls(j)
    BY <1>3 DEF CalmCalls, Settles
  <2> QED BY <1>5, <2>1, CalmStep
<1>7. WellKept(k)
  <2>1. /\ Only(k, "exec") /\ Single(k) /\ Located(k) /\ Bounded(k) /\ Executes(i, k)
        /\ state[k] # "NONE" /\ heap[k] \in Nat /\ timers[k] \in Nat
    BY <1>0, <1>1, <1>4, Whereabouts
    DEF JobInv, Executes, MarkCompleted, TypeOK, SchedTypeOK, HeapTypeOK, ResourceTypeOK
  <2>2. UNCHANGED <<heap, retries, worker>> /\ state'[k] # "NONE"
    BY <1>4, <2>1 DEF MarkCompleted, heapVars, CalmSched, TypeOK, SchedTypeOK
  <2>3. \A s \in Slots : ~Executes(s, k)' /\ ~Travels(s, k)'
    BY <1>1, <2>1 DEF Only, Single, Travels, Executes
  <2>4. Only(k, "settle")' /\ "settle" \in Places
    BY <1>3, <2>1, <2>2, <2>3 DEF Only, Places, InQueue, Planned, InHand, TimedOut
  <2>5. Single(k)'
    BY <1>3, <2>1, <2>2, <2>3 DEF Single, Settles, Armed, Only
  <2>6. Located(k)' /\ Bounded(k)'
    BY <1>3, <2>1, <2>2, <2>3 DEF Located, Bounded, Placing
  <2>7. Lawful(k)
    BY <1>3, <1>5, <2>1, <2>2, <2>3
    DEF Lawful, Waiting, Held, Worked, InQueue, CalmDisp, CalmShake, CalmPending, CalmTimers
  <2> QED BY <2>4, <2>5, <2>6, <2>7 DEF WellKept, JobInv, Custody
<1> QED BY <1>6, <1>7

\* The handler has settled the report: a retry goroutine has the job, or nobody.
LEMMA SettleMove ==
    ASSUME TypeOK, TypeOK', \A j \in Jobs : JobInv(j), NEW c \in Calls, SettleReport(c),
           UNCHANGED attempts
    PROVE  \A j \in Jobs : WellKept(j)
<1>0. PICK k \in Jobs : k = rpc[c].job
  BY DEF SettleReport, TypeOK, CallOK
<1>1. /\ UNCHANGED <<schedVars, disp, shake, pending>> /\ rpc[c].pc = "settle"
      /\ rpc'[c].pc # "settle" /\ \A d \in Calls \ {c} : rpc'[d] = rpc[d]
  BY DEF SettleReport, IdleCall, TypeOK, CallOK, CallType
<1>2. timers' = timers \/ (timers' = [timers EXCEPT ![k] = @ + 1] /\ RetryAllowed(k))
  BY <1>0 DEF SettleReport
<1>3. timers \in [Jobs -> Nat] /\ heap[k] \in Nat
  BY DEF TypeOK, SchedTypeOK, HeapTypeOK, ResourceTypeOK
<1>4. ASSUME NEW j \in Jobs
      PROVE  /\ CalmSched(j) /\ CalmDisp(j) /\ CalmShake(j) /\ CalmPending(j) /\ CalmWork(j)
             /\ CalmCalls(j)
  <2>1. CalmCalls(j)
    BY <1>1 DEF CalmCalls, Settles
  <2> QED BY <1>1, <2>1, CalmUnchanged
<1>5. ASSUME NEW j \in Jobs \ {k} PROVE WellKept(j)
  <2>1. CalmTimers(j)
    BY <1>2, <1>3 DEF CalmTimers
  <2> QED BY <1>4, <2>1, CalmStep
<1>6. WellKept(k)
  <2>1. Only(k, "settle") /\ Single(k) /\ Located(k) /\ Bounded(k) /\ Settles(c, k)
    BY <1>0, <1>1, Whereabouts DEF JobInv, Settles
  <2>2. timers[k] = 0 /\ timers'[k] \in {0, 1} /\ (timers'[k] = 1 => retries[k] < MaxRetries)
    BY <1>2, <1>3, <2>1 DEF Only, RetryAllowed
  <2>3. \A d \in Calls : ~Settles(d, k)'
    BY <1>1, <2>1 DEF Single, Settles
  <2>4. Only(k, "timer")' /\ "timer" \in Places
    BY <1>1, <2>1, <2>2, <2>3
    DEF Only, Places, schedVars, InQueue, Planned, InHand, TimedOut, Executes
  <2>5. Single(k)'
    BY <1>1, <2>1, <2>2, <2>3 DEF Single, Executes, Travels, Armed, schedVars
  <2>6. Located(k)' /\ Bounded(k)'
    BY <1>1, <2>1, <2>2 DEF Located, Bounded, Placing, Executes, Travels, schedVars
  <2>7. Lawful(k)
    BY <1>1, <1>2, <1>3, <1>4, <2>1, <2>2, <2>3
    DEF Lawful, Waiting, Held, Worked, Settling, Only, InQueue, CalmDisp, CalmShake, CalmPending,
        CalmWork, schedVars
  <2> QED BY <2>4, <2>5, <2>6, <2>7 DEF WellKept, JobInv, Custody
<1> QED BY <1>5, <1>6

-----------------------------------------------------------------------------
(* Steps that move nothing *)

\* The handlers, but for the settling of a report.
LEMMA CalmHandlers ==
    ASSUME TypeOK, NEW c \in Calls, UNCHANGED attempts,
           \/ FinishCancel(c) \/ HandleGroup(c) \/ AbortRank(c) \/ AbortVictim(c)
           \/ CloseGroup(c) \/ \E k \in Jobs : CancelJob(c, k)
    PROVE  \A j \in Jobs : Calm(j)
<1>0. TypeOK /\ CallOK(rpc[c]) /\ rpc \in [Calls -> CallType] /\ rpc[c] \in CallType
  BY DEF TypeOK
<1>1. UNCHANGED <<disp, shake, timers, pending>>
  BY DEF FinishCancel, HandleGroup, AbortRank, AbortVictim, CloseGroup, CancelJob, resourceVars
<1>2. rpc'[c].pc # "settle" /\ \A d \in Calls \ {c} : rpc'[d] = rpc[d]
  <2>1. CASE HandleGroup(c)
    <3>1. PICK r : /\ rpc' = [rpc EXCEPT ![c] = r]
                   /\ \/ r = [rpc[c] EXCEPT !.pc = "abort",
                                            !.todo = Ranks(GroupOf[rpc[c].job]) \ {rpc[c].job}]
                      \/ r = [rpc[c] EXCEPT !.pc = "close"]
                      \/ r = IdleCall
      BY <2>1 DEF HandleGroup
    <3>2. r.pc \in {"abort", "close", "idle"}
      <4>1. CASE r = [rpc[c] EXCEPT !.pc = "abort",
                                    !.todo = Ranks(GroupOf[rpc[c].job]) \ {rpc[c].job}]
        BY <1>0, <4>1 DEF CallType
      <4>2. CASE r = [rpc[c] EXCEPT !.pc = "close"]
        BY <1>0, <4>2 DEF CallType
      <4>3. CASE r = IdleCall
        BY <4>3 DEF IdleCall
      <4> QED BY <3>1, <4>1, <4>2, <4>3
    <3> QED BY <1>0, <3>1, <3>2
  <2>2. CASE AbortRank(c)
    BY <1>0, <2>2 DEF AbortRank, CallType
  <2>3. CASE AbortVictim(c)
    BY <1>0, <2>3 DEF AbortVictim, CallType
  <2>4. CASE FinishCancel(c) \/ CloseGroup(c)
    BY <1>0, <2>4 DEF FinishCancel, CloseGroup, IdleCall
  <2>5. CASE \E k \in Jobs : CancelJob(c, k)
    BY <1>0, <2>5 DEF CancelJob, IdleCall
  <2> QED BY <2>1, <2>2, <2>3, <2>4, <2>5
<1>3. ASSUME NEW j \in Jobs PROVE CalmSched(j)
  <2>1. CASE FinishCancel(c) \/ HandleGroup(c) \/ AbortVictim(c)
    BY <2>1, CalmUnchanged DEF FinishCancel, HandleGroup, AbortVictim
  <2>2. CASE AbortRank(c)
    <3>1. PICK v \in Jobs : v = First(rpc[c].todo)
      BY <1>0, <2>2, FirstIsFirst DEF AbortRank, CallType
    <3> QED BY <2>2, <3>1, CalmUnchanged, CalmMethods DEF AbortRank
  <2>3. CASE CloseGroup(c)
    <3>1. PICK g \in Groups : g = GroupOf[rpc[c].job]
      BY <1>0, <2>3 DEF CloseGroup, CallOK
    <3> QED BY <2>3, <3>1, CalmMethods DEF CloseGroup, GroupStates
  <2>4. CASE \E k \in Jobs : CancelJob(c, k)
    BY <2>4, CalmMethods DEF CancelJob
  <2> QED BY <2>1, <2>2, <2>3, <2>4
<1>4. ASSUME NEW j \in Jobs PROVE CalmCalls(j)
  BY <1>2 DEF CalmCalls, Settles
<1> QED BY <1>1, <1>3, <1>4, CalmUnchanged DEF Calm

\* The enforcers, but for a timeout and its requeue; gossip; the clocks.
LEMMA CalmGoroutines ==
    ASSUME TypeOK, UNCHANGED attempts,
           \/ WallRelease \/ ShakeRelease \/ Membership \/ Clocks
           \/ \E k \in Jobs : ShakeCheck(k)
           \/ \E k \in Jobs, n \in MaybeNode : WallKill(k, n)
           \/ \E S \in SUBSET Jobs : WallScan(S)
           \/ \E g \in Groups : SubmitRankFails(g) \/ SubmitRegister(g)
    PROVE  \A j \in Jobs : Calm(j)
<1>1. UNCHANGED <<disp, rpc, timers, pending>>
  BY DEF WallRelease, ShakeRelease, Membership, LeaveMark, LeaveGroup, LeaveRelease, NodeLeaves,
         NodeJoins, Clocks, GroupAges, BreakerClock, ShakeCheck, WallKill, WallScan,
         SubmitRankFails, SubmitRegister, resourceVars, procVars
<1>2. ASSUME NEW j \in Jobs PROVE CalmShake(j)
  <2>1. CASE UNCHANGED shake
    BY <2>1, CalmUnchanged
  <2>2. CASE ShakeRelease
    BY <2>2 DEF ShakeRelease, ShakeRest, IdleShake, CalmShake, TimedOut
  <2>3. ASSUME NEW k \in Jobs, ShakeCheck(k) PROVE CalmShake(j)
    BY <2>3 DEF ShakeCheck, ShakeRest, IdleShake, CalmShake, TimedOut
  <2> QED BY <2>1, <2>2, <2>3
      DEF WallRelease, Membership, LeaveMark, LeaveGroup, LeaveRelease, NodeLeaves,
         NodeJoins, Clocks, GroupAges, BreakerClock, WallKill, WallScan,
         SubmitRankFails, SubmitRegister, procVars
<1>3. ASSUME NEW j \in Jobs PROVE CalmSched(j)
  <2>1. CASE UNCHANGED schedVars
    BY <2>1, CalmUnchanged
  <2>2. ASSUME NEW k \in Jobs, NEW n \in MaybeNode, WallKill(k, n) PROVE CalmSched(j)
    BY <2>1, <2>2, CalmMethods DEF WallKill
  <2>3. ASSUME NEW g \in Groups, SubmitRegister(g) PROVE CalmSched(j)
    BY <2>3, CalmMethods DEF SubmitRegister
  <2>4. CASE LeaveMark
    <3>1. PICK k \in Jobs : k = gossip.job
      BY <2>4 DEF LeaveMark, TypeOK, GossipOK
    <3> QED BY <2>4, <3>1, CalmMethods DEF LeaveMark, Errors
  <2>5. CASE LeaveGroup
    <3>1. PICK g \in Groups : g = GroupOf[gossip.job]
      BY <2>5 DEF LeaveGroup, TypeOK, GossipOK
    <3> QED BY <2>1, <2>5, <3>1, CalmMethods DEF LeaveGroup, GroupStates
  <2> QED BY <2>1, <2>2, <2>3, <2>4, <2>5
      DEF WallRelease, ShakeRelease, Membership, LeaveRelease, NodeLeaves,
         NodeJoins, Clocks, GroupAges, BreakerClock, ShakeCheck, WallScan, SubmitRankFails
<1> QED BY <1>1, <1>2, <1>3, CalmUnchanged DEF Calm

\* The dispatch loop between two jobs.
LEMMA CalmDispatch ==
    ASSUME TypeOK, UNCHANGED attempts,
           \/ Tick \/ ExpireRank \/ ExpireGroup \/ GangRun \/ SelectNothing \/ SelectNoNode
           \/ \E g \in Groups : GangTimeout(g) \/ SkipGang(g)
           \/ \E n \in Nodes : SelectNode(n)
    PROVE  \A j \in Jobs : Calm(j)
<1>0. disp \in DispType /\ DispOK(disp)
  BY DEF TypeOK, DispOK
<1>1. UNCHANGED <<rpc, timers, pending, shake>>
  BY DEF Tick, ExpireRank, ExpireGroup, GangRun, SelectNothing, SelectNoNode, GangTimeout,
         SkipGang, SelectNode, DispStep, resourceVars
<1>2. disp'.pc \notin {"rank", "taken", "marked", "armed"}
  <2>1. CASE ExpireRank
    BY <1>0, <2>1 DEF ExpireRank, DispType
  <2>2. CASE SelectNoNode
    BY <2>2 DEF SelectNoNode, IdleDisp
  <2>3. \A gs : NextGroup(gs).pc \in {"select", "gang"}
    BY DEF NextGroup, IdleDisp
  <2>4. CASE Tick \/ ExpireGroup \/ GangRun \/ \E g \in Groups : SkipGang(g)
    <3>1. PICK gs : disp' = NextGroup(gs)
      BY <2>4 DEF Tick, ExpireGroup, GangRun, SkipGang
    <3> QED BY <2>3, <3>1
  <2>5. CASE SelectNothing
    BY <2>5 DEF SelectNothing, IdleDisp
  <2>7. ASSUME NEW n \in Nodes, SelectNode(n) PROVE disp'.pc = "picked"
    BY <2>7 DEF SelectNode, IdleDisp
  <2>6. CASE \E g \in Groups : GangTimeout(g)
    BY <2>6 DEF GangTimeout, IdleDisp
  <2> QED BY <2>1, <2>2, <2>4, <2>5, <2>6, <2>7
<1>3. ASSUME NEW j \in Jobs PROVE CalmDisp(j)
  BY <1>2 DEF CalmDisp, Planned, InHand, Armed, Placing
<1>4. ASSUME NEW j \in Jobs PROVE CalmSched(j)
  <2>1. CASE UNCHANGED schedVars
    BY <2>1, CalmUnchanged
  <2>2. CASE ExpireRank
    <3>1. PICK k \in Jobs : k = First(disp.left)
      BY <1>0, <2>2, FirstIsFirst DEF ExpireRank, DispType
    <3> QED BY <2>1, <2>2, <3>1, CalmMethods DEF ExpireRank
  <2>3. CASE ExpireGroup \/ GangRun
    <3>1. PICK g \in Groups : g = disp.group
      BY <1>0, <2>3 DEF ExpireGroup, GangRun, DispOK
    <3> QED BY <2>3, <3>1, CalmMethods DEF ExpireGroup, GangRun, GroupStates
  <2> QED BY <2>1, <2>2, <2>3
      DEF Tick, SelectNothing, SelectNoNode, GangTimeout, SkipGang, SelectNode
<1> QED BY <1>1, <1>3, <1>4, CalmUnchanged DEF Calm

\* The workers on their own.
LEMMA CalmWorkers ==
    ASSUME TypeOK, WorkerInv, UNCHANGED <<schedVars, disp, shake, rpc, timers, pending>>,
           \/ \E n \in Nodes : \/ ReceiveCancel(n) \/ ReceiveExecute(n)
                               \/ CrashNode(n) \/ StartNode(n)
           \/ \E i \in Slots : StartRun(i) \/ EndAttempt(i) \/ \E k \in Kinds : FinishRun(i, k)
    PROVE  \A j \in Jobs : Calm(j)
<1>0. attempts \in [Slots -> AttemptType]
  BY DEF WorkerInv, WorkerTypeOK, AttemptType
<1>1. ASSUME NEW n \in Nodes, ReceiveExecute(n), NEW j \in Jobs PROVE CalmWork(j)
  <2>1. wire[n] \in Seq(Messages) /\ wire[n] # << >>
    BY <1>1 DEF WorkerInv, WorkerTypeOK, ReceiveExecute
  <2>2. Head(wire[n]) = wire[n][1] /\ 1 \in 1 .. Len(wire[n])
    BY <2>1
  <2>3. PICK s \in Slots : s = Head(wire[n]).slot /\ attempts[s].pc = "wire"
    <3>1. wire[n][1].act = "execute"
      BY <1>1, <2>2 DEF ReceiveExecute
    <3>2. wire[n][1].slot \in Slots /\ attempts[wire[n][1].slot].pc = "wire"
      BY <2>2, <3>1 DEF WorkerInv, WireOK
    <3> QED BY <2>2, <3>2
  <2> QED BY <1>0, <1>1, <2>3 DEF ReceiveExecute, CalmWork, Executes, Travels, AttemptType
<1>2. ASSUME NEW n \in Nodes, ReceiveCancel(n), NEW j \in Jobs PROVE CalmWork(j)
  <2>1. PICK s : attempts' = attempts \/ attempts' = [attempts EXCEPT ![s].cancelled = TRUE]
    BY <1>2 DEF ReceiveCancel
  <2>2. \A i \in Slots : /\ attempts'[i].pc = attempts[i].pc
                         /\ attempts'[i].job = attempts[i].job
                         /\ attempts'[i].node = attempts[i].node
    BY <1>0, <2>1 DEF AttemptType
  <2> QED BY <2>2 DEF CalmWork, Executes, Travels
<1>3. ASSUME NEW n \in Nodes, CrashNode(n), NEW j \in Jobs PROVE CalmWork(j)
  BY <1>0, <1>3 DEF CrashNode, CalmWork, Executes, Travels, NoAttempt
<1>4. ASSUME NEW i \in Slots, NEW j \in Jobs,
             StartRun(i) \/ EndAttempt(i) \/ \E k \in Kinds : FinishRun(i, k)
      PROVE  CalmWork(j)
  <2>1. CASE StartRun(i)
    BY <1>0, <2>1 DEF StartRun, CalmWork, Executes, Travels, AttemptType
  <2>2. CASE EndAttempt(i)
    BY <1>0, <2>2 DEF EndAttempt, CalmWork, Executes, Travels, NoAttempt
  <2>3. ASSUME NEW k \in Kinds, FinishRun(i, k) PROVE CalmWork(j)
    <3> DEFINE r == [attempts[i] EXCEPT !.pc = "report", !.kind = k]
    <3>1. attempts' = [attempts EXCEPT ![i] = r] /\ attempts[i].pc = "run"
      BY <1>0, <2>3 DEF FinishRun, AttemptType
    <3>2. r.pc = "report" /\ r.job = attempts[i].job /\ r.node = attempts[i].node
      BY <1>0 DEF AttemptType
    <3> HIDE DEF r
    <3> QED BY <1>0, <3>1, <3>2 DEF CalmWork, Executes, Travels
  <2> QED BY <1>4, <2>1, <2>2, <2>3
<1>5. ASSUME NEW n \in Nodes, StartNode(n), NEW j \in Jobs PROVE CalmWork(j)
  BY <1>5, CalmUnchanged DEF StartNode
<1> QED BY <1>1, <1>2, <1>3, <1>4, <1>5, CalmUnchanged DEF Calm

-----------------------------------------------------------------------------
(* The invariant *)

\* What the goroutines hold between two steps.
Goroutines ==
    /\ shake.pc = "requeue" => shake.job \notin shake.jobs
    /\ shake.pc = "idle" => shake.jobs = {}
    /\ disp.pc = "picked" => disp.left = {}

\* Executions live on running workers, and the master knows every running one.
Housed ==
    /\ up \subseteq members
    /\ \A i \in Slots : attempts[i].pc # "none" => attempts[i].node \in up

Listed(j) == heap[j] > 0 => state[j] = "QUEUED" /\ j \in indexed

\* Where no worker dies, what has an entry is QUEUED and can be removed by index.
QueueTrue ==
    Budget["crash"] = 0 => up = Nodes /\ gossip.pc = "idle" /\ \A j \in Jobs : Listed(j)

CustodyInv == (\A j \in Jobs : JobInv(j)) /\ Goroutines /\ Housed /\ QueueTrue

\* The three ways the dispatch loop takes a job.
LEMMA Taking ==
    ASSUME OnTime, TypeOK, TypeOK', CustodyInv, UNCHANGED attempts,
           TakeTop \/ GangRemove \/ \E n \in Nodes : BackfillNode(n)
    PROVE  \A j \in Jobs : WellKept(j)
<1>0. /\ disp \in DispType /\ DispOK(disp) /\ disp.left \in SUBSET Jobs /\ heap \in [Jobs -> Nat]
      /\ UNCHANGED <<shake, rpc, timers, pending>>
  BY DEF TypeOK, DispOK, DispType, SchedTypeOK, HeapTypeOK, TakeTop, GangRemove, BackfillNode,
         DispStep, resourceVars
<1>1. ASSUME NEW k \in Jobs, HeapRemove(k) PROVE InQueue(k) /\ heap'[k] = 0
  BY <1>0, <1>1 DEF HeapRemove, InQueue, CustodyInv, JobInv, Single
<1>2. ASSUME UNCHANGED schedVars, disp'.pc \notin {"rank", "taken", "marked", "armed"}
      PROVE  \A j \in Jobs : WellKept(j)
  <2>1. ASSUME NEW j \in Jobs PROVE CalmDisp(j)
    BY <1>2 DEF CalmDisp, Planned, InHand, Armed, Placing
  <2> QED BY <1>0, <1>2, <2>1, CalmUnchanged, CalmStep DEF CustodyInv
<1>3. CASE TakeTop
  <2>1. CASE InHeap = {}
    <3>1. UNCHANGED schedVars /\ disp'.pc = "idle"
      BY <1>3, <2>1 DEF TakeTop, IdleDisp
    <3> QED BY <1>2, <3>1
  <2>2. CASE InHeap # {}
    <3>1. PICK k \in Jobs : k = Top
      BY <2>2, TopIsQueued
    <3>2. /\ Dequeue(k) /\ disp'.pc = "taken" /\ disp'.job = k /\ disp'.left = {}
      BY <1>0, <1>3, <2>2, <3>1 DEF TakeTop, DispType, CustodyInv, Goroutines
    <3>3. InQueue(k) /\ heap'[k] = 0
      BY <1>1, <3>2 DEF Dequeue, HeapPop
    <3>4. \A j \in Jobs : CalmSched(j) /\ (Planned(j)' => Planned(j))
      BY <3>2, CalmMethods DEF Planned
    <3> QED BY <1>0, <3>2, <3>3, <3>4, TakeMove DEF CustodyInv
  <2> QED BY <2>1, <2>2
<1>4. CASE GangRemove
  <2>1. PICK k \in disp.left : k = First(disp.left)
    BY <1>0, <1>4, FirstIsFirst DEF GangRemove, DispOK
  <2>2. /\ k \in Jobs /\ RemoveByID(k) /\ Planned(k) /\ disp.pc = "rank"
    BY <1>0, <1>4, <2>1 DEF GangRemove, Planned
  <2>3. disp'.pc = "taken" /\ disp'.job = k /\ disp'.left = disp.left \ {k}
    <3>1. disp' = [disp EXCEPT !.pc = "taken", !.left = disp.left \ {k}, !.job = k,
                               !.node = disp.plan[k], !.plan[k] = NoNode]
      BY <1>4, <2>1 DEF GangRemove
    <3> QED BY <1>0, <3>1 DEF DispType
  <2>4. Listed(k)
    BY <1>0, <2>2 DEF OnTime, DispOK, CustodyInv, QueueTrue
  <2>5. heap'[k] = 0
    <3>1. CASE heap[k] > 0
      BY <1>1, <2>2, <2>4, <3>1 DEF Listed, RemoveByID, RemoveIndexed
    <3>2. CASE heap[k] = 0
      <4>1. k \notin indexed
        BY <2>2, <3>2 DEF TypeOK, SchedTypeOK, HeapTypeOK
      <4> QED BY <2>2, <3>2, <4>1 DEF RemoveByID, RemoveIndexed, heapVars
    <3> QED BY <1>0, <2>2, <3>1, <3>2
  <2>6. \A j \in Jobs : CalmSched(j) /\ (Planned(j)' => Planned(j))
    BY <2>2, <2>3, CalmMethods DEF Planned
  <2> QED BY <1>0, <2>2, <2>3, <2>5, <2>6, TakeMove DEF CustodyInv
<1>5. ASSUME NEW n \in Nodes, BackfillNode(n) PROVE \A j \in Jobs : WellKept(j)
  <2>1. CASE Backfillable(n) = {}
    <3>1. UNCHANGED schedVars /\ disp'.pc \in {"idle", "backfill"}
      <4>1. /\ UNCHANGED schedVars /\ disp.pc = "backfill"
            /\ disp' = IdleDisp \/ disp' = [disp EXCEPT !.nodes = @ \ {n}]
        BY <1>5, <2>1 DEF BackfillNode
      <4>2. IdleDisp.pc = "idle" /\ [disp EXCEPT !.nodes = @ \ {n}].pc = disp.pc
        BY <1>0 DEF IdleDisp, DispType
      <4> QED BY <4>1, <4>2
    <3> QED BY <1>2, <3>1
  <2>2. CASE Backfillable(n) # {}
    <3>1. PICK k \in Backfillable(n) :
             /\ Backfill(k)
             /\ disp' = [IdleDisp EXCEPT !.pc = "taken", !.job = k, !.node = n]
      BY <1>5, <2>2 DEF BackfillNode
    <3>2. /\ k \in Jobs /\ disp'.pc = "taken" /\ disp'.job = k /\ disp'.left = {}
      BY <3>1 DEF Backfillable, InHeap, IdleDisp
    <3>3. InQueue(k) /\ heap'[k] = 0
      BY <1>1, <3>1, <3>2 DEF Backfill
    <3>4. \A j \in Jobs : CalmSched(j) /\ (Planned(j)' => Planned(j))
      BY <3>1, <3>2, CalmMethods DEF Planned
    <3> QED BY <1>0, <3>2, <3>3, <3>4, TakeMove DEF CustodyInv
  <2> QED BY <2>1, <2>2
<1> QED BY <1>3, <1>4, <1>5

\* Every step of the cluster leaves every job in one place.
LEMMA JobsKeptApart ==
    ASSUME OnTime, ClusterInv, ClusterInv', CustodyInv, NoQueuedJobLost, ClusterNext
    PROVE  \A j \in Jobs : WellKept(j)
<1>0. /\ TypeOK /\ TypeOK' /\ WorkerInv /\ used \in [Faults -> Nat]
      /\ \A j \in Jobs : JobInv(j)
      /\ ~Spend("late") /\ ~Spend("dup")
  BY DEF ClusterInv, CustodyInv, OnTime, Spend, Faults
<1>1. ASSUME \A j \in Jobs : Calm(j) PROVE \A j \in Jobs : WellKept(j)
  BY <1>0, <1>1, CalmStep DEF Calm
<1>2. ASSUME MasterAlone PROVE UNCHANGED attempts
  BY <1>2 DEF MasterAlone, workerVars
<1>3. ASSUME NEW n, NEW k, CancelMessage(n, k) PROVE UNCHANGED attempts
  BY <1>3 DEF CancelMessage, PublishCancel, workerVars
<1>4. CASE Submit
  <2>1. CASE \E k \in Jobs : SubmitJob(k)
    BY <1>0, <1>2, <1>4, <2>1, EnqueueMove DEF Submit, SubmitJob, resourceVars, procVars
  <2>2. ASSUME NEW g \in Groups, SubmitRank(g) PROVE \A j \in Jobs : WellKept(j)
    <3>1. PICK k \in Unsubmitted(g) : k = First(Unsubmitted(g))
      BY <2>2, FirstIsFirst DEF SubmitRank, Unsubmitted, Ranks
    <3>2. /\ k \in Jobs /\ state[k] = "NONE" /\ Enqueue(k)
          /\ UNCHANGED <<disp, shake, rpc, timers, pending>>
      BY <2>2, <3>1 DEF Unsubmitted, Ranks, SubmitRank, procVars
    <3> QED BY <1>0, <1>2, <1>4, <3>2, EnqueueMove DEF Submit
  <2>3. CASE \E g \in Groups : SubmitRankFails(g) \/ SubmitRegister(g)
    BY <1>0, <1>1, <1>2, <1>4, <2>3, CalmGoroutines DEF Submit
  <2> QED BY <1>4, <2>1, <2>2, <2>3 DEF Submit, Submission
<1>5. CASE DispatchStep
  <2>1. CASE SendExecute
    BY <1>0, <2>1, SendMove
  <2>2. CASE UNCHANGED attempts /\ (TakeTop \/ GangRemove \/ \E n \in Nodes : BackfillNode(n))
    BY <1>0, <2>2, Taking
  <2>3. CASE UNCHANGED attempts /\ (DispatchMark \/ DispatchArm)
    BY <1>0, <2>3, HandMove
  <2>4. CASE UNCHANGED attempts /\ \E g \in Groups : PlanGang(g)
    BY <1>0, <2>4, PlanMove
  <2>5. ASSUME UNCHANGED attempts,
               \/ Tick \/ ExpireRank \/ ExpireGroup \/ GangRun \/ SelectNothing \/ SelectNoNode
               \/ \E g \in Groups : GangTimeout(g) \/ SkipGang(g)
               \/ \E n \in Nodes : SelectNode(n)
        PROVE  \A j \in Jobs : WellKept(j)
    BY <1>0, <1>1, <2>5, CalmDispatch
  <2> QED BY <1>2, <1>5, <2>1, <2>2, <2>3, <2>4, <2>5 DEF DispatchStep
<1>6. CASE ShakeStep
  <2>1. CASE ShakeRequeue
    BY <1>0, <1>2, <1>6, <2>1, ShakeRequeueMove DEF ShakeStep, CustodyInv, Goroutines, ShakeRequeue
  <2> QED BY <1>0, <1>1, <1>2, <1>6, <2>1, CalmGoroutines DEF ShakeStep
<1>7. CASE WallStep \/ WallOverdue \/ LeaveStep \/ Clock
  BY <1>0, <1>1, <1>2, <1>3, <1>7, CalmGoroutines
  DEF WallStep, SendWallCancel, WallOverdue, LeaveStep, Clock, Membership
<1>8. ASSUME NEW S \in SUBSET Jobs, TimeOut(S) PROVE \A j \in Jobs : WellKept(j)
  BY <1>0, <1>8, TimeOutMove DEF TimeOut, workerVars
<1>9. ASSUME NEW c \in Calls, HandlerStep(c) PROVE \A j \in Jobs : WellKept(j)
  <2>1. CASE SettleReport(c) /\ MasterAlone
    BY <1>0, <1>2, <2>1, SettleMove
  <2> QED BY <1>0, <1>1, <1>2, <1>3, <1>9, <2>1, CalmHandlers DEF HandlerStep, SendCancel
<1>10. ASSUME NEW c \in Calls, NEW k \in Jobs, ClientCancel(c, k)
       PROVE  \A j \in Jobs : WellKept(j)
  BY <1>0, <1>1, <1>10, CalmHandlers DEF ClientCancel, workerVars
<1>11. ASSUME NEW k \in Jobs, RetryStep(k) PROVE \A j \in Jobs : WellKept(j)
  BY <1>0, <1>2, <1>11, RetryMove DEF RetryStep
<1>12. ASSUME NEW n \in Nodes, Noticed(n) PROVE \A j \in Jobs : WellKept(j)
  BY <1>0, <1>1, <1>2, <1>12, CalmGoroutines DEF Noticed, Membership
<1>13. ASSUME NEW n \in Nodes, Crash(n) \/ Restart(n) \/ MessageLoop(n)
       PROVE  \A j \in Jobs : WellKept(j)
  <2>1. UNCHANGED <<schedVars, disp, shake, rpc, timers, pending>>
    BY <1>13 DEF Crash, Restart, MessageLoop, WorkerAlone, vars, procVars, resourceVars, NodeJoins
  <2> QED BY <1>0, <1>1, <1>13, <2>1, CalmWorkers DEF Crash, Restart, MessageLoop
<1>14. ASSUME NEW i \in Slots, Execution(i) PROVE \A j \in Jobs : WellKept(j)
  <2>1. CASE Acknowledge(i)
    <3>1. EndHandshake(i) /\ attempts[i].job \in Jobs /\ Travels(i, attempts[i].job)
      BY <1>0, <2>1 DEF Acknowledge, EndHandshake, WorkerInv, AttemptsOK, AttemptOK, Travels
    <3>2. attempts[i].job \in pending
      BY <1>0, <3>1 DEF JobInv, Single
    <3> QED BY <1>0, <2>1, <3>1, <3>2, AckMove DEF Acknowledge
  <2>2. ASSUME NEW c \in Calls, Report(i, c) PROVE \A j \in Jobs : WellKept(j)
    BY <1>0, <2>2, ReportMove
  <2>3. CASE WorkerAlone /\ (StartRun(i) \/ EndAttempt(i) \/ \E k \in Kinds : FinishRun(i, k))
    <3>1. UNCHANGED <<schedVars, disp, shake, rpc, timers, pending>>
      BY <2>3 DEF WorkerAlone, vars, procVars, resourceVars
    <3> QED BY <1>0, <1>1, <2>3, <3>1, CalmWorkers
  <2> QED BY <1>14, <2>1, <2>2, <2>3 DEF Execution
<1>15. ASSUME NEW i \in Slots, Duplicate(i) PROVE FALSE
  BY <1>0, <1>15 DEF Duplicate
<1> QED BY <1>4, <1>5, <1>6, <1>7, <1>8, <1>9, <1>10, <1>11, <1>12, <1>13, <1>14, <1>15
    DEF ClusterNext

\* Only the timeout enforcer changes its own record.
LEMMA ShakeLeftAlone ==
    ASSUME [Next]_vars
    PROVE  \/ UNCHANGED shake
           \/ ShakeRelease \/ ShakeRequeue
           \/ \E S \in SUBSET Jobs : ShakeScan(S)
           \/ \E j \in Jobs : ShakeCheck(j)
<1>1. CASE Enforcers
  BY <1>1 DEF Enforcers, WallRelease, RetryFires, WallKill, WallScan, procVars
<1>2. CASE Submission \/ Clocks \/ Membership
  BY <1>2 DEF Submission, SubmitJob, SubmitRank, SubmitRankFails, SubmitRegister,
     Clocks, GroupAges, BreakerClock, Membership, LeaveMark, LeaveGroup, LeaveRelease,
     NodeLeaves, NodeJoins, procVars
<1>3. CASE Handlers \/ Clients
  BY <1>3 DEF Handlers, FinishCancel, SettleReport, HandleGroup, AbortRank, AbortVictim,
     CloseGroup, Clients, CancelJob, ReportResult, AcknowledgeStart, procVars
<1>4. CASE Dispatch
  BY <1>4 DEF Dispatch, Tick, ExpireRank, ExpireGroup, GangRemove, GangRun, SelectNothing,
     SelectNoNode, TakeTop, DispatchMark, DispatchArm, DispatchSend, GangTimeout, PlanGang,
     SkipGang, SelectNode, BackfillNode, DispStep
<1>5. CASE UNCHANGED vars
  BY <1>5 DEF vars, procVars
<1> QED BY <1>1, <1>2, <1>3, <1>4, <1>5 DEF Next

\* What the goroutines hold.
LEMMA GoroutinesStep ==
    ASSUME TypeOK, Goroutines, [Next]_vars
    PROVE  Goroutines'
<1>0. disp \in DispType /\ DispOK(disp) /\ shake \in ShakeType
  BY DEF TypeOK, DispOK, ShakeOK
<1>1. disp'.pc = "picked" => disp'.left = {}
  <2>1. CASE UNCHANGED disp
    BY <2>1 DEF Goroutines
  <2>2. CASE Tick \/ ExpireGroup \/ GangRun \/ \E g \in Groups : SkipGang(g)
    <3>1. PICK gs : disp' = NextGroup(gs)
      BY <2>2 DEF Tick, ExpireGroup, GangRun, SkipGang
    <3> QED BY <3>1 DEF NextGroup, IdleDisp
  <2>3. ASSUME NEW g \in Groups, GangTimeout(g) \/ PlanGang(g) PROVE disp'.pc # "picked"
    BY <2>3 DEF GangTimeout, PlanGang, IdleDisp
  <2>4. ASSUME NEW n \in Nodes, SelectNode(n) PROVE disp'.left = {}
    BY <2>4 DEF SelectNode, IdleDisp
  <2>5. CASE SelectNothing \/ SelectNoNode
    <3>1. disp' = IdleDisp \/ disp' = [IdleDisp EXCEPT !.pc = "backfill", !.nodes = members]
      BY <2>5 DEF SelectNothing, SelectNoNode
    <3>2. /\ IdleDisp.pc = "idle"
          /\ [IdleDisp EXCEPT !.pc = "backfill", !.nodes = members].pc = "backfill"
      BY DEF IdleDisp
    <3> QED BY <3>1, <3>2
  <2>6. CASE TakeTop
    <3>1. disp' = IdleDisp \/ disp'.pc = "taken"
      BY <1>0, <2>6 DEF TakeTop, DispType
    <3> QED BY <3>1 DEF IdleDisp
  <2>7. ASSUME NEW n \in Nodes, BackfillNode(n) PROVE disp'.pc # "picked"
    <3>1. \/ disp' = IdleDisp
          \/ disp.pc = "backfill" /\ disp' = [disp EXCEPT !.nodes = @ \ {n}]
          \/ \E k : disp' = [IdleDisp EXCEPT !.pc = "taken", !.job = k, !.node = n]
      BY <2>7 DEF BackfillNode
    <3>2. CASE disp.pc = "backfill" /\ disp' = [disp EXCEPT !.nodes = @ \ {n}]
      BY <1>0, <3>2 DEF DispType
    <3>3. CASE disp' = IdleDisp
      BY <3>3 DEF IdleDisp
    <3>4. ASSUME NEW k, disp' = [IdleDisp EXCEPT !.pc = "taken", !.job = k, !.node = n]
          PROVE  disp'.pc # "picked"
      BY <3>4 DEF IdleDisp
    <3> QED BY <3>1, <3>2, <3>3, <3>4
  <2>8. CASE ExpireRank
    BY <1>0, <2>8 DEF ExpireRank, DispType
  <2>9. CASE DispatchMark \/ DispatchArm
    BY <1>0, <2>9 DEF DispatchMark, DispatchArm, DispType
  <2>10. CASE GangRemove
    BY <1>0, <2>10 DEF GangRemove, DispType
  <2>11. CASE DispatchSend
    <3>1. disp' = IdleDisp \/ disp'.pc \in {"run", "rank"}
      BY <1>0, <2>11 DEF DispatchSend, DispType
    <3> QED BY <3>1 DEF IdleDisp
  <2>12. CASE Dispatch
    BY <2>2, <2>3, <2>4, <2>5, <2>6, <2>7, <2>8, <2>9, <2>10, <2>11, <2>12 DEF Dispatch
  <2> QED BY <2>1, <2>12, DispLeftAlone DEF Next, vars, procVars
<1>2. \A S : ShakeRest(S).pc # "requeue" /\ (ShakeRest(S).pc = "idle" => ShakeRest(S).jobs = {})
  BY DEF ShakeRest, IdleShake
<1>3. /\ shake'.pc = "requeue" => shake'.job \notin shake'.jobs
      /\ shake'.pc = "idle" => shake'.jobs = {}
  <2>1. CASE UNCHANGED shake
    BY <2>1 DEF Goroutines
  <2>2. CASE ShakeRelease \/ \E S \in SUBSET Jobs : ShakeScan(S)
    BY <1>2, <2>2 DEF ShakeRelease, ShakeScan
  <2>3. CASE ShakeRequeue
    <3>1. shake'.pc = "release" \/ shake' = ShakeRest(shake.jobs)
      BY <1>0, <2>3 DEF ShakeRequeue, ShakeType
    <3> QED BY <1>2, <3>1
  <2>4. ASSUME NEW j \in Jobs, ShakeCheck(j)
        PROVE  /\ shake'.pc = "requeue" => shake'.job \notin shake'.jobs
               /\ shake'.pc = "idle" => shake'.jobs = {}
    <3>1. CASE shake' = ShakeRest(shake.jobs \ {j})
      BY <1>2, <3>1
    <3>2. CASE shake' = [pc |-> "requeue", jobs |-> shake.jobs \ {j}, job |-> j, node |-> worker[j]]
      BY <3>2
    <3> QED BY <2>4, <3>1, <3>2 DEF ShakeCheck
  <2> QED BY <2>1, <2>2, <2>3, <2>4, ShakeLeftAlone
<1> QED BY <1>1, <1>3 DEF Goroutines

\* Executions live on running workers, and the master knows every running one.
LEMMA HousedStep ==
    ASSUME ClusterInv, Housed, [ClusterNext]_clusterVars
    PROVE  Housed'
<1>0. TypeOK /\ WorkerInv /\ attempts \in [Slots -> AttemptType]
  BY DEF ClusterInv, WorkerInv, WorkerTypeOK, AttemptType
<1> DEFINE Kept == \A i \in Slots :
                       attempts'[i].pc # "none" =>
                          attempts[i].pc # "none" /\ attempts'[i].node = attempts[i].node
<1>1. ASSUME UNCHANGED <<members, up>>, Kept PROVE Housed'
  BY <1>1 DEF Housed
<1>2. UNCHANGED attempts => Kept
  OBVIOUS
<1>3. ASSUME MasterAlone PROVE UNCHANGED up /\ Kept
  BY <1>2, <1>3 DEF MasterAlone, workerVars
<1>4. ASSUME NEW n, NEW k, CancelMessage(n, k) PROVE UNCHANGED up /\ Kept
  BY <1>2, <1>4 DEF CancelMessage, PublishCancel, workerVars
<1>5. ASSUME SendExecute PROVE Housed'
  <2>1. PICK k \in Jobs : k = disp.job
    BY <1>0, <1>5 DEF TypeOK, DispOK, DispatchSend, SendExecute
  <2>2. PICK n \in Nodes : n = disp.node
    BY <1>0, <1>5 DEF TypeOK, DispOK, DispatchSend, SendExecute
  <2>3. UNCHANGED <<members, up>>
    BY <1>5 DEF SendExecute, DispatchSend, resourceVars, PublishExecute, workerVars
  <2>4. CASE UNCHANGED attempts
    BY <1>1, <1>2, <2>3, <2>4
  <2>5. CASE PublishExecute(n, k) /\ n \in up
    <3> DEFINE r == [NoAttempt EXCEPT !.pc = "wire", !.job = k, !.node = n]
    <3>1. FreeSlots # {} /\ attempts' = [attempts EXCEPT ![FreeSlot] = r]
      BY <2>5 DEF PublishExecute
    <3>2. r.node = n
      BY DEF NoAttempt
    <3> HIDE DEF r
    <3> QED BY <1>0, <2>3, <2>5, <3>1, <3>2, FreeSlotIsFree DEF Housed
  <2> QED BY <1>5, <2>1, <2>2, <2>4, <2>5 DEF SendExecute, PublishExecute, workerVars
<1>6. ASSUME NEW i \in Slots,
             \/ EndHandshake(i) \/ StartRun(i) \/ Reported(i) \/ ReportAgain(i) \/ EndAttempt(i)
             \/ \E k \in Kinds : FinishRun(i, k)
      PROVE  UNCHANGED up /\ Kept
  <2>1. CASE EndHandshake(i) \/ StartRun(i) \/ Reported(i) \/ ReportAgain(i)
    <3>1. PICK x : attempts[i].pc # "none" /\ attempts' = [attempts EXCEPT ![i].pc = x] /\ up' = up
      BY <2>1 DEF EndHandshake, StartRun, Reported, ReportAgain
    <3> QED BY <1>0, <3>1 DEF AttemptType
  <2>2. CASE EndAttempt(i)
    BY <1>0, <2>2 DEF EndAttempt, NoAttempt
  <2>3. ASSUME NEW k \in Kinds, FinishRun(i, k) PROVE UNCHANGED up /\ Kept
    <3> DEFINE r == [attempts[i] EXCEPT !.pc = "report", !.kind = k]
    <3>1. attempts' = [attempts EXCEPT ![i] = r] /\ attempts[i].pc = "run" /\ up' = up
      BY <1>0, <2>3 DEF FinishRun, AttemptType
    <3>2. r.node = attempts[i].node
      BY <1>0 DEF AttemptType
    <3> HIDE DEF r
    <3> QED BY <1>0, <3>1, <3>2
  <2> QED BY <1>6, <2>1, <2>2, <2>3
<1>7. ASSUME NEW n \in Nodes, ReceiveCancel(n) \/ ReceiveExecute(n) PROVE UNCHANGED up /\ Kept
  <2>1. CASE ReceiveCancel(n)
    <3>1. PICK s : /\ attempts' = attempts \/ attempts' = [attempts EXCEPT ![s].cancelled = TRUE]
                   /\ up' = up
      BY <2>1 DEF ReceiveCancel
    <3> QED BY <1>0, <3>1 DEF AttemptType
  <2>2. CASE ReceiveExecute(n)
    <3>1. wire[n] \in Seq(Messages) /\ wire[n] # << >>
      BY <1>0, <2>2 DEF WorkerInv, WorkerTypeOK, ReceiveExecute
    <3>2. Head(wire[n]) = wire[n][1] /\ 1 \in 1 .. Len(wire[n])
      BY <3>1
    <3>3. PICK s \in Slots : s = Head(wire[n]).slot /\ attempts[s].pc = "wire"
      BY <1>0, <2>2, <3>2 DEF ReceiveExecute, WorkerInv, WireOK
    <3> QED BY <1>0, <2>2, <3>3 DEF ReceiveExecute, AttemptType
  <2> QED BY <1>7, <2>1, <2>2
<1> HIDE DEF Kept
<1>8. CASE Submit
  BY <1>1, <1>3, <1>8 DEF Submit, Submission, SubmitJob, SubmitRank, SubmitRankFails,
     SubmitRegister, resourceVars
<1>9. CASE DispatchStep
  BY <1>1, <1>3, <1>5, <1>9 DEF DispatchStep, Tick, ExpireRank, ExpireGroup, GangRemove, GangRun,
     SelectNothing, SelectNoNode, TakeTop, DispatchMark, DispatchArm, GangTimeout, PlanGang,
     SkipGang, SelectNode, BackfillNode, resourceVars
<1>10. CASE ShakeStep \/ WallStep \/ WallOverdue \/ LeaveStep \/ Clock
  BY <1>1, <1>3, <1>4, <1>10 DEF ShakeStep, ShakeRequeue, ShakeRelease, ShakeCheck, WallStep,
     WallOverdue, SendWallCancel, WallKill, WallScan, WallRelease, LeaveStep, LeaveMark,
     LeaveGroup, LeaveRelease, Clock, Clocks, GroupAges, BreakerClock, resourceVars
<1>11. ASSUME NEW S \in SUBSET Jobs, TimeOut(S) PROVE Housed'
  BY <1>1, <1>2, <1>11 DEF TimeOut, ShakeScan, workerVars
<1>12. ASSUME NEW c \in Calls, HandlerStep(c) PROVE Housed'
  BY <1>1, <1>3, <1>4, <1>12 DEF HandlerStep, SendCancel, FinishCancel, SettleReport, HandleGroup,
     AbortRank, AbortVictim, CloseGroup, resourceVars
<1>13. ASSUME NEW c \in Calls, NEW k \in Jobs, ClientCancel(c, k) PROVE Housed'
  BY <1>1, <1>2, <1>13 DEF ClientCancel, CancelJob, workerVars, resourceVars
<1>14. ASSUME NEW k \in Jobs, RetryStep(k) PROVE Housed'
  BY <1>1, <1>3, <1>14 DEF RetryStep, RetryFires
<1>15. ASSUME NEW n \in Nodes, Noticed(n) PROVE Housed'
  BY <1>3, <1>15 DEF Noticed, NodeLeaves, Housed, Kept
<1>16. ASSUME NEW n \in Nodes, Crash(n) PROVE Housed'
  <2>1. /\ up' = up \ {n} /\ members' = members
        /\ attempts' = [i \in Slots |-> IF attempts[i].node = n THEN NoAttempt ELSE attempts[i]]
    BY <1>16 DEF Crash, CrashNode, vars, resourceVars
  <2> QED BY <2>1 DEF Housed, NoAttempt
<1>17. ASSUME NEW n \in Nodes, Restart(n) PROVE Housed'
  BY <1>17 DEF Restart, NodeJoins, StartNode, Housed
<1>18. ASSUME NEW n \in Nodes, MessageLoop(n) PROVE Housed'
  BY <1>1, <1>7, <1>18 DEF MessageLoop, WorkerAlone, vars, resourceVars
<1>19. ASSUME NEW i \in Slots, Execution(i) \/ Duplicate(i) PROVE Housed'
  <2>1. UNCHANGED members
    BY <1>19 DEF Execution, Duplicate, Acknowledge, AcknowledgeStart, Report, ReportResult,
       WorkerAlone, vars, resourceVars
  <2> QED BY <1>1, <1>6, <1>19, <2>1 DEF Execution, Duplicate, Acknowledge, Report
<1>20. CASE UNCHANGED clusterVars
  BY <1>1, <1>2, <1>20 DEF clusterVars, vars, workerVars, resourceVars
<1> QED BY <1>8, <1>9, <1>10, <1>11, <1>12, <1>13, <1>14, <1>15, <1>16, <1>17, <1>18, <1>19, <1>20
    DEF ClusterNext

\* What the master does but for taking a worker's report.
Inner ==
    \/ Submission \/ Dispatch \/ Handlers \/ Enforcers \/ Membership \/ Clocks
    \/ \E c \in Calls, j \in Jobs : CancelJob(c, j)
    \/ \E j \in Jobs : AcknowledgeStart(j)

\* A step of the cluster is a report, or one of these, or none of the master's.
LEMMA InnerStep ==
    ASSUME ClusterInv, [ClusterNext]_clusterVars
    PROVE  Inner \/ UNCHANGED vars \/ \E i \in Slots, c \in Calls : Report(i, c)
<1>1. CASE UNCHANGED clusterVars
  BY <1>1 DEF clusterVars
<1>2. CASE Submit
  BY <1>2 DEF Submit, Inner
<1>3. CASE DispatchStep
  BY <1>3 DEF DispatchStep, SendExecute, Dispatch, Inner
<1>4. CASE ShakeStep
  BY <1>4 DEF ShakeStep, Enforcers, Inner
<1>5. CASE WallStep \/ WallOverdue
  BY <1>5 DEF WallStep, WallOverdue, SendWallCancel, Enforcers, Inner
<1>6. CASE LeaveStep \/ Clock
  BY <1>6 DEF LeaveStep, Clock, Membership, Inner
<1>7. ASSUME NEW S \in SUBSET Jobs, TimeOut(S) PROVE Inner
  BY <1>7 DEF TimeOut, Enforcers, Inner
<1>8. ASSUME NEW c \in Calls, HandlerStep(c) PROVE Inner
  BY <1>8 DEF HandlerStep, SendCancel, Handlers, Inner
<1>9. ASSUME NEW c \in Calls, NEW j \in Jobs, ClientCancel(c, j) PROVE Inner
  BY <1>9 DEF ClientCancel, Inner
<1>10. ASSUME NEW j \in Jobs, RetryStep(j) PROVE Inner
  BY <1>10 DEF RetryStep, Enforcers, Inner
<1>11. ASSUME NEW n \in Nodes, Noticed(n) \/ Crash(n) \/ Restart(n) \/ MessageLoop(n)
       PROVE  Inner \/ UNCHANGED vars
  BY <1>11 DEF Noticed, Crash, Restart, MessageLoop, WorkerAlone, Membership, Inner
<1>12. ASSUME NEW i \in Slots, Execution(i) \/ Duplicate(i)
       PROVE  Inner \/ UNCHANGED vars \/ \E c \in Calls : Report(i, c)
  <2>1. CASE Acknowledge(i)
    <3>1. attempts[i].job \in Jobs
      BY <2>1 DEF Acknowledge, EndHandshake, ClusterInv, WorkerInv, AttemptsOK, AttemptOK
    <3> QED BY <2>1, <3>1 DEF Acknowledge, Inner
  <2> QED BY <1>12, <2>1 DEF Execution, Duplicate, WorkerAlone
<1> QED BY <1>1, <1>2, <1>3, <1>4, <1>5, <1>6, <1>7, <1>8, <1>9, <1>10, <1>11, <1>12
    DEF ClusterNext

\* The scheduler's method that such a step calls.
LEMMA MethodCalled ==
    ASSUME TypeOK, Inner
    PROVE  \/ UNCHANGED schedVars
           \/ \E k \in Jobs : \/ Enqueue(k) \/ Dequeue(k) \/ Backfill(k) \/ RemoveByID(k)
                              \/ Cancel(k) \/ Requeue(k) \/ RequeueRunningJob(k)
           \/ DispatchMark
           \/ LeaveMark
           \/ \E g \in Groups, s \in GroupStates : SetGroupState(g, s) \/ RegisterGroup(g)
<1>0. disp \in DispType /\ DispOK(disp) /\ GossipOK(gossip) /\ ShakeOK(shake)
  BY DEF TypeOK, DispOK
<1>1. CASE Submission
  <2>1. ASSUME NEW g \in Groups, SubmitRank(g) PROVE \E k \in Jobs : Enqueue(k)
    <3>1. First(Unsubmitted(g)) \in Jobs
      BY <2>1, FirstIsFirst DEF SubmitRank, Unsubmitted, Ranks
    <3> QED BY <2>1, <3>1 DEF SubmitRank
  <2> QED BY <1>1, <2>1 DEF Submission, SubmitJob, SubmitRankFails, SubmitRegister, GroupStates
<1>2. CASE Dispatch
  <2>1. CASE ExpireRank
    <3>1. First(disp.left) \in Jobs
      BY <1>0, <2>1, FirstIsFirst DEF ExpireRank, DispType
    <3> QED BY <2>1, <3>1 DEF ExpireRank
  <2>2. CASE ExpireGroup \/ GangRun
    BY <1>0, <2>2 DEF ExpireGroup, GangRun, DispOK, GroupStates
  <2>3. CASE GangRemove
    <3>1. First(disp.left) \in Jobs
      BY <1>0, <2>3, FirstIsFirst DEF GangRemove, DispOK, DispType
    <3> QED BY <2>3, <3>1 DEF GangRemove
  <2>4. CASE TakeTop
    BY <2>4, TopIsQueued DEF TakeTop
  <2>5. ASSUME NEW n \in Nodes, BackfillNode(n)
        PROVE  UNCHANGED schedVars \/ \E k \in Jobs : Backfill(k)
    BY <2>5 DEF BackfillNode, Backfillable, InHeap
  <2> QED BY <1>2, <2>1, <2>2, <2>3, <2>4, <2>5
      DEF Dispatch, Tick, SelectNothing, SelectNoNode, DispatchArm, DispatchSend, GangTimeout,
          PlanGang, SkipGang, SelectNode
<1>3. CASE Handlers
  <2>1. ASSUME NEW c \in Calls, AbortRank(c) PROVE UNCHANGED schedVars \/ \E k \in Jobs : Cancel(k)
    <3>1. First(rpc[c].todo) \in Jobs
      BY <2>1, FirstIsFirst DEF AbortRank, TypeOK, CallOK, CallType
    <3> QED BY <2>1, <3>1 DEF AbortRank
  <2>2. ASSUME NEW c \in Calls, CloseGroup(c)
        PROVE  \E g \in Groups, s \in GroupStates : SetGroupState(g, s)
    BY <2>2 DEF CloseGroup, TypeOK, CallOK, GroupStates
  <2> QED BY <1>3, <2>1, <2>2 DEF Handlers, FinishCancel, SettleReport, HandleGroup, AbortVictim
<1>4. CASE Enforcers
  <2>1. CASE ShakeRequeue
    BY <1>0, <2>1 DEF ShakeRequeue, ShakeOK
  <2> QED BY <1>4, <2>1 DEF Enforcers, WallRelease, ShakeRelease, ShakeCheck, RetryFires,
      WallKill, WallScan, ShakeScan
<1>5. CASE Membership
  BY <1>0, <1>5
     DEF Membership, LeaveGroup, GossipOK, GroupStates, LeaveRelease, NodeLeaves, NodeJoins
<1>6. CASE Clocks
  BY <1>6 DEF Clocks, GroupAges, BreakerClock
<1> QED BY <1>1, <1>2, <1>3, <1>4, <1>5, <1>6 DEF Inner, CancelJob, AcknowledgeStart

\* The methods keep entries true, if they start or end no job that has one.
LEMMA ListedMethods ==
    ASSUME SchedTypeOK, \A j \in Jobs : Listed(j) /\ heap[j] <= 1,
           \/ UNCHANGED schedVars
           \/ \E k \in Jobs : \/ Enqueue(k) \/ Dequeue(k) \/ Backfill(k) \/ RemoveByID(k)
                              \/ Cancel(k) \/ Requeue(k) \/ RequeueRunningJob(k)
           \/ \E k \in Jobs : /\ heap[k] = 0
                              /\ \/ \E n \in Nodes : MarkRunning(k, n)
                                 \/ \E e \in Errors : MarkCompleted(k, e)
           \/ \E g \in Groups, s \in GroupStates : SetGroupState(g, s) \/ RegisterGroup(g)
    PROVE  \A j \in Jobs : Listed(j)'
<1>0. heap \in [Jobs -> Nat] /\ state \in [Jobs -> JobStates]
  BY DEF SchedTypeOK, HeapTypeOK
<1>1. ASSUME NEW k \in Jobs, Enqueue(k) \/ Requeue(k) \/ RequeueRunningJob(k)
      PROVE  \A j \in Jobs : Listed(j)'
  BY <1>0, <1>1 DEF Enqueue, Requeue, RequeueRunningJob, HeapPush, Listed
<1>2. ASSUME NEW k \in Jobs, HeapRemove(k)
      PROVE  /\ heap'[k] = 0 /\ indexed \ {k} \subseteq indexed'
             /\ \A j \in Jobs \ {k} : heap'[j] = heap[j]
  BY <1>0, <1>2 DEF HeapRemove
<1>3. ASSUME NEW k \in Jobs, Dequeue(k) \/ Backfill(k) PROVE \A j \in Jobs : Listed(j)'
  BY <1>2, <1>3 DEF Dequeue, HeapPop, Backfill, jobVars, Listed
<1>4. ASSUME NEW k \in Jobs, RemoveByID(k) PROVE \A j \in Jobs : Listed(j)'
  BY <1>2, <1>4 DEF RemoveByID, RemoveIndexed, heapVars, jobVars, Listed
<1>5. ASSUME NEW k \in Jobs, Cancel(k) PROVE \A j \in Jobs : Listed(j)'
  <2>1. /\ heap'[k] = 0 /\ indexed \ {k} \subseteq indexed'
        /\ \A j \in Jobs \ {k} : heap'[j] = heap[j]
    BY <1>0, <1>2, <1>5 DEF Cancel, RemoveIndexed, heapVars, Listed, HeapTypeOK
  <2> QED BY <1>0, <1>5, <2>1 DEF Cancel, Listed
<1>6. ASSUME NEW k \in Jobs, heap[k] = 0,
             \/ \E n \in Nodes : MarkRunning(k, n)
             \/ \E e \in Errors : MarkCompleted(k, e)
      PROVE  \A j \in Jobs : Listed(j)'
  <2>1. UNCHANGED heapVars /\ \A j \in Jobs \ {k} : state'[j] = state[j]
    BY <1>0, <1>6 DEF MarkRunning, MarkCompleted
  <2> QED BY <1>0, <1>6, <2>1 DEF heapVars, Listed
<1>7. ASSUME NEW g, NEW s, SetGroupState(g, s) \/ RegisterGroup(g) PROVE \A j \in Jobs : Listed(j)'
  BY <1>7 DEF SetGroupState, RegisterGroup, jobVars, heapVars, Listed
<1>8. CASE UNCHANGED schedVars
  BY <1>8 DEF schedVars, Listed
<1> QED BY <1>1, <1>3, <1>4, <1>5, <1>6, <1>7, <1>8

LEMMA QueueTrueStep ==
    ASSUME ClusterInv, ClusterInv', CustodyInv, [ClusterNext]_clusterVars
    PROVE  QueueTrue'
<1> SUFFICES ASSUME Budget["crash"] = 0
             PROVE  up' = Nodes /\ gossip'.pc = "idle" /\ \A j \in Jobs : Listed(j)'
  BY DEF QueueTrue
<1>0. /\ TypeOK /\ SchedTypeOK /\ up = Nodes /\ gossip.pc = "idle" /\ heap \in [Jobs -> Nat]
      /\ ~Spend("crash") /\ \A j \in Jobs : Listed(j) /\ heap[j] <= 1 /\ JobInv(j)
  BY DEF ClusterInv, TypeOK, SchedTypeOK, HeapTypeOK, CustodyInv, QueueTrue, JobInv, Single,
         Spend, Faults
<1>1. UNCHANGED <<up, gossip>>
  <2>1. ASSUME MasterAlone PROVE up' = up
    BY <2>1 DEF MasterAlone, workerVars
  <2>2. ASSUME NEW n, NEW k, CancelMessage(n, k) PROVE up' = up
    BY <2>2 DEF CancelMessage, PublishCancel, workerVars
  <2>3. ASSUME WorkerAlone PROVE gossip' = gossip
    BY <2>3 DEF WorkerAlone, vars, procVars
  <2>4. CASE Submit
    BY <2>1, <2>4 DEF Submit, Submission, SubmitJob, SubmitRank, SubmitRankFails,
       SubmitRegister, procVars
  <2>5. CASE DispatchStep
    BY <2>1, <2>5 DEF DispatchStep, SendExecute, PublishExecute, DispatchSend, workerVars,
       Tick, ExpireRank, ExpireGroup, GangRemove, GangRun,
       SelectNothing, SelectNoNode, TakeTop, DispatchMark, DispatchArm, GangTimeout, PlanGang,
       SkipGang, SelectNode, BackfillNode, DispStep
  <2>6. CASE ShakeStep \/ WallStep \/ WallOverdue
    BY <2>1, <2>2, <2>6 DEF ShakeStep, ShakeRequeue, ShakeRelease, ShakeCheck, WallStep,
       WallOverdue, SendWallCancel, WallKill, WallScan, WallRelease
  <2>7. CASE LeaveStep \/ Clock
    BY <1>0, <2>1, <2>7 DEF LeaveStep, LeaveMark, LeaveGroup, LeaveRelease, Clock, Clocks,
       GroupAges, BreakerClock, procVars
  <2>8. ASSUME NEW S \in SUBSET Jobs, TimeOut(S) PROVE UNCHANGED <<up, gossip>>
    BY <2>8 DEF TimeOut, ShakeScan, workerVars
  <2>9. ASSUME NEW c \in Calls, HandlerStep(c) PROVE UNCHANGED <<up, gossip>>
    BY <2>1, <2>2, <2>9 DEF HandlerStep, SendCancel, FinishCancel, SettleReport, HandleGroup,
       AbortRank, AbortVictim, CloseGroup
  <2>10. ASSUME NEW c \in Calls, NEW k \in Jobs, ClientCancel(c, k) PROVE UNCHANGED <<up, gossip>>
    BY <2>10 DEF ClientCancel, CancelJob, workerVars
  <2>11. ASSUME NEW k \in Jobs, RetryStep(k) PROVE UNCHANGED <<up, gossip>>
    BY <2>1, <2>11 DEF RetryStep, RetryFires, procVars
  <2>12. ASSUME NEW n \in Nodes, Noticed(n) \/ Crash(n) \/ Restart(n) PROVE FALSE
    BY <1>0, <2>12 DEF Noticed, Crash, Restart, StartNode
  <2>13. ASSUME NEW n \in Nodes, MessageLoop(n) PROVE UNCHANGED <<up, gossip>>
    BY <2>3, <2>13 DEF MessageLoop, ReceiveCancel, ReceiveExecute
  <2>14. ASSUME NEW i \in Slots, Execution(i) \/ Duplicate(i) PROVE UNCHANGED <<up, gossip>>
    BY <2>3, <2>14 DEF Execution, Duplicate, Acknowledge, AcknowledgeStart, EndHandshake, Report,
       Reported, ReportResult, StartRun, FinishRun, EndAttempt, ReportAgain, vars, procVars
  <2>15. CASE UNCHANGED clusterVars
    BY <2>15 DEF clusterVars, vars, workerVars, procVars
  <2> QED BY <2>4, <2>5, <2>6, <2>7, <2>8, <2>9, <2>10, <2>11, <2>12, <2>13, <2>14, <2>15
      DEF ClusterNext
<1>2. \A j \in Jobs : Listed(j)'
  <2>1. CASE UNCHANGED vars
    BY <1>0, <2>1, ListedMethods DEF vars
  <2>2. ASSUME NEW i \in Slots, NEW c \in Calls, Report(i, c) PROVE \A j \in Jobs : Listed(j)'
    <3>1. PICK k \in Jobs : k = attempts[i].job
      BY <2>2 DEF Report, Reported, ClusterInv, WorkerInv, AttemptsOK, AttemptOK
    <3>2. \E e \in Errors : MarkCompleted(k, e)
      BY <2>2, <3>1 DEF Report, ReportResult, Errors
    <3>3. heap[k] = 0
      <4>1. Executes(i, k)
        BY <2>2, <3>1 DEF Report, Reported, Executes
      <4> QED BY <1>0, <4>1, Whereabouts DEF JobInv, Only, InQueue
    <3> QED BY <1>0, <3>2, <3>3, ListedMethods
  <2>3. CASE DispatchMark
    <3>1. PICK k \in Jobs : k = disp.job /\ disp.node \in Nodes /\ MarkRunning(k, disp.node)
      BY <1>0, <2>3 DEF DispatchMark, TypeOK, DispOK
    <3>2. heap[k] = 0
      <4>1. InHand(k)
        BY <2>3, <3>1 DEF DispatchMark, InHand
      <4> QED BY <1>0, <4>1, Whereabouts DEF JobInv, Only, InQueue
    <3> QED BY <1>0, <3>1, <3>2, ListedMethods
  <2>4. ~LeaveMark
    BY <1>0 DEF LeaveMark
  <2>5. CASE Inner
    BY <1>0, <2>3, <2>4, <2>5, MethodCalled, ListedMethods
  <2> QED BY <2>1, <2>2, <2>5, InnerStep
<1> QED BY <1>0, <1>1, <1>2

LEMMA CustodyInit == ClusterInit => CustodyInv
<1> SUFFICES ASSUME ClusterInit PROVE CustodyInv
  OBVIOUS
<1>1. ASSUME NEW j \in Jobs PROVE JobInv(j)
  <2>1. /\ heap[j] = 0 /\ timers[j] = 0 /\ retries[j] = 0 /\ pending = {} /\ MaxRetries \in Nat
        /\ disp.pc = "idle" /\ shake.pc = "idle" /\ shake.jobs = {}
        /\ \A i \in Slots : attempts[i].pc = "none"
        /\ \A c \in Calls : rpc[c].pc = "idle"
    BY LimitAssumption
    DEF ClusterInit, Init, SchedInit, HeapInit, WorkerInit, IdleDisp, IdleShake, IdleCall, NoAttempt
  <2>2. Only(j, "new") /\ "new" \in Places
    BY <2>1 DEF Only, Places, InQueue, Planned, InHand, Executes, TimedOut, Settles
  <2>3. Single(j) /\ Located(j) /\ Bounded(j)
    BY <2>1 DEF Single, Located, Bounded, Executes, Travels, Settles, Armed, Placing
  <2> QED BY <2>2, <2>3 DEF JobInv, Custody
<1>2. Goroutines
  BY DEF ClusterInit, Init, Goroutines, IdleDisp, IdleShake
<1>3. Housed
  BY DEF ClusterInit, Init, WorkerInit, Housed, NoAttempt
<1>4. QueueTrue
  BY DEF ClusterInit, Init, SchedInit, HeapInit, WorkerInit, QueueTrue, Listed, IdleGossip
<1> QED BY <1>1, <1>2, <1>3, <1>4 DEF CustodyInv

LEMMA CustodyNext ==
    ASSUME OnTime, ClusterInv, ClusterInv', NoQueuedJobLost, CustodyInv, [ClusterNext]_clusterVars
    PROVE  CustodyInv'
<1>1. \A j \in Jobs : JobInv(j)'
  <2>1. CASE UNCHANGED clusterVars
    <3>1. UNCHANGED <<schedVars, disp, attempts, shake, rpc, timers, pending>>
      BY <2>1 DEF clusterVars, vars, workerVars, resourceVars, procVars
    <3> QED BY <3>1, CalmUnchanged, CalmStep DEF WellKept, CustodyInv, ClusterInv
  <2> QED BY <2>1, JobsKeptApart DEF WellKept
<1>2. Goroutines'
  BY MasterStep, GoroutinesStep DEF CustodyInv, ClusterInv
<1>3. Housed' /\ QueueTrue'
  BY HousedStep, QueueTrueStep DEF CustodyInv
<1> QED BY <1>1, <1>2, <1>3 DEF CustodyInv

LEMMA CustodyHolds ==
    ASSUME OnTime
    PROVE  ClusterSafety => [](ClusterInv /\ CustodyInv)
<1>1. ClusterSafety => []ClusterInv
  BY ClusterInvInit, ClusterInvNext, PTL DEF ClusterSafety
<1>2. ClusterInv /\ ClusterInv' /\ NoQueuedJobLost /\ CustodyInv /\ [ClusterNext]_clusterVars
         => CustodyInv'
  BY CustodyNext
<1> QED BY <1>1, <1>2, CustodyInit, ClusterKeepsQueuedJobs, PTL DEF ClusterSafety

\* No job is executed by two goroutines at once, on one worker or on two, as
\* long as handshakes are in time and reports come once: messages may be lost,
\* jobs cancelled and retried, workers of single jobs may crash and come back.
THEOREM OneExecution ==
    ASSUME OnTime
    PROVE  ClusterSafety => []AtMostOneExecution
<1>1. CustodyInv /\ ClusterInv => AtMostOneExecution
  BY DEF CustodyInv, JobInv, Single, Executes, AtMostOneExecution, ClusterInv, WorkerInv,
         AttemptsOK, AttemptOK
<1> QED BY <1>1, CustodyHolds, PTL

\* No job is retried more often than configured.
THEOREM RetriesBounded ==
    ASSUME OnTime
    PROVE  ClusterSafety => []RetryBound
<1>1. CustodyInv => RetryBound
  BY DEF CustodyInv, JobInv, Bounded, RetryBound
<1> QED BY <1>1, CustodyHolds, PTL

-----------------------------------------------------------------------------
(* The life of a job *)

\* Nobody has the job.
Free(j) ==
    /\ state[j] # "NONE" /\ ~Waiting(j) /\ ~Held(j) /\ ~Worked(j) /\ ~Settling(j)
    /\ ~(timers[j] > 0)

\* One place, one holder.
LEMMA OneHolder ==
    ASSUME NEW j \in Jobs, JobInv(j)
    PROVE  /\ state[j] = "NONE" => HoldersOf(j) = {"client"}
           /\ Waiting(j) => HoldersOf(j) = {"queue"}
           /\ Held(j) => HoldersOf(j) = {"dispatch"}
           /\ Worked(j) => HoldersOf(j) = {"worker"}
           /\ Settling(j) => HoldersOf(j) = {"handler"}
           /\ timers[j] > 0 => HoldersOf(j) = {"backoff"}
           /\ Free(j) => HoldersOf(j) = {}
<1>1. PICK p \in Places : Only(j, p)
  BY DEF JobInv, Custody
<1>2. HoldersOf(j) =
        {h \in {"client", "queue", "dispatch", "worker", "handler", "backoff"} :
           \/ h = "client" /\ state[j] = "NONE"
           \/ h = "queue" /\ Waiting(j)
           \/ h = "dispatch" /\ Held(j)
           \/ h = "worker" /\ Worked(j)
           \/ h = "handler" /\ Settling(j)
           \/ h = "backoff" /\ timers[j] > 0}
  BY DEF HoldersOf, Waiting, Held, Worked, Settling
<1>3. /\ state[j] = "NONE" => p = "new"
      /\ Waiting(j) => p = "queue"
      /\ Held(j) => p \in {"hand", "pending", "shake"}
      /\ Worked(j) => p = "exec"
      /\ Settling(j) => p = "settle"
      /\ timers[j] > 0 => p = "timer"
  BY <1>1 DEF Only, Waiting, Held, Worked, Settling
<1> QED BY <1>2, <1>3 DEF Free

\* And after a step.
LEMMA OneHolderNext ==
    ASSUME NEW j \in Jobs, JobInv(j)'
    PROVE  /\ state'[j] = "NONE" => HoldersOf(j)' = {"client"}
           /\ Waiting(j)' => HoldersOf(j)' = {"queue"}
           /\ Held(j)' => HoldersOf(j)' = {"dispatch"}
           /\ Worked(j)' => HoldersOf(j)' = {"worker"}
           /\ Settling(j)' => HoldersOf(j)' = {"handler"}
           /\ timers'[j] > 0 => HoldersOf(j)' = {"backoff"}
           /\ Free(j)' => HoldersOf(j)' = {}
<1>1. PICK p \in Places : Only(j, p)'
  BY DEF JobInv, Custody
<1>2. HoldersOf(j)' =
        {h \in {"client", "queue", "dispatch", "worker", "handler", "backoff"} :
           \/ h = "client" /\ state'[j] = "NONE"
           \/ h = "queue" /\ Waiting(j)'
           \/ h = "dispatch" /\ Held(j)'
           \/ h = "worker" /\ Worked(j)'
           \/ h = "handler" /\ Settling(j)'
           \/ h = "backoff" /\ timers'[j] > 0}
  BY DEF HoldersOf, Waiting, Held, Worked, Settling
<1>3. /\ state'[j] = "NONE" => p = "new"
      /\ Waiting(j)' => p = "queue"
      /\ Held(j)' => p \in {"hand", "pending", "shake"}
      /\ Worked(j)' => p = "exec"
      /\ Settling(j)' => p = "settle"
      /\ timers'[j] > 0 => p = "timer"
  BY <1>1 DEF Only, Waiting, Held, Worked, Settling
<1> QED BY <1>2, <1>3 DEF Free

\* A job that is well kept is passed on by its holder, ends, or stays.
LEMMA LifeMoves ==
    ASSUME NEW j \in Jobs, JobInv(j), WellKept(j)
    PROVE  Life!Moves(j) \/ UNCHANGED <<HoldersOf(j), retries[j]>>
<1>1. PICK a, b : a = HoldersOf(j) /\ b = HoldersOf(j)'
  OBVIOUS
<1>2. /\ state[j] = "NONE" => a = {"client"}
      /\ Waiting(j) => a = {"queue"}
      /\ Held(j) => a = {"dispatch"}
      /\ Worked(j) => a = {"worker"}
      /\ Settling(j) => a = {"handler"}
      /\ timers[j] > 0 => a = {"backoff"}
      /\ Free(j) => a = {}
  BY <1>1, OneHolder
<1>3. /\ state'[j] = "NONE" => b = {"client"}
      /\ Waiting(j)' => b = {"queue"}
      /\ Held(j)' => b = {"dispatch"}
      /\ Worked(j)' => b = {"worker"}
      /\ Settling(j)' => b = {"handler"}
      /\ timers'[j] > 0 => b = {"backoff"}
      /\ Free(j)' => b = {}
  BY <1>1, OneHolderNext DEF WellKept
<1>4. /\ \A from, to : a = {from} /\ b = {to} /\ retries'[j] = retries[j]
                         => Life!Passes(j, from, to)
      /\ \A from : a = {from} /\ b = {} /\ retries'[j] = retries[j] => Life!Ends(j, from)
      /\ a = {"backoff"} /\ b = {"queue"} /\ retries'[j] = retries[j] + 1 => Life!TriedAgain(j)
  BY <1>1 DEF Life!Passes, Life!Ends, Life!TriedAgain
<1>5. Lawful(j)
  BY DEF WellKept
<1> DEFINE Same == a = b /\ retries'[j] = retries[j]
<1>6. Same => UNCHANGED <<HoldersOf(j), retries[j]>>
  BY <1>1
<1>7. ~(timers[j] > 0) => retries'[j] = retries[j]
  BY <1>5 DEF Lawful
<1>8. CASE state'[j] = "NONE"
  BY <1>2, <1>3, <1>5, <1>6, <1>7, <1>8 DEF Lawful
<1>9. CASE Waiting(j)'
  BY <1>2, <1>3, <1>4, <1>5, <1>6, <1>7, <1>9
  DEF Lawful, Life!Moves, Life!Submitted, Life!Returned
<1>10. CASE Held(j)'
  BY <1>2, <1>3, <1>4, <1>5, <1>6, <1>7, <1>10 DEF Lawful, Life!Moves, Life!Placed
<1>11. CASE Worked(j)'
  BY <1>2, <1>3, <1>4, <1>5, <1>6, <1>7, <1>11 DEF Lawful, Life!Moves, Life!Started
<1>12. CASE Settling(j)'
  BY <1>2, <1>3, <1>4, <1>5, <1>6, <1>7, <1>12 DEF Lawful, Life!Moves, Life!Reported
<1>13. CASE timers'[j] > 0
  <2>1. Settling(j) /\ RetryAllowed(j) => Life!Granted(j)
    BY <1>2, <1>3, <1>4, <1>7, <1>13 DEF RetryAllowed, Life!Granted
  <2> QED BY <1>2, <1>3, <1>5, <1>6, <1>7, <1>13, <2>1 DEF Lawful, Life!Moves
<1>14. CASE Free(j)'
  BY <1>2, <1>3, <1>4, <1>5, <1>6, <1>7, <1>14
  DEF Lawful, Free, Life!Moves, Life!Withdrawn, Life!Dropped, Life!Lost, Life!Finished
<1> QED BY <1>8, <1>9, <1>10, <1>11, <1>12, <1>13, <1>14 DEF Free

\* Under OnTime the cluster implements the life of a job: of all the
\* goroutines, messages and tables of master and workers one at a time has the
\* job, and passes it on as JobLife says or ends its life, with messages lost,
\* jobs cancelled, and workers of single jobs that crash and come back.
THEOREM ClusterImplementsJobLife ==
    ASSUME OnTime
    PROVE  ClusterSafety => ImplementsJobLife
<1>1. ClusterInit => Life!LifeInit
  <2> SUFFICES ASSUME ClusterInit PROVE Life!LifeInit
    OBVIOUS
  <2>1. ASSUME NEW j \in Jobs PROVE HoldersOf(j) = {"client"}
    <3>1. JobInv(j)
      BY CustodyInit DEF CustodyInv
    <3> QED BY <3>1, OneHolder DEF ClusterInit, Init, SchedInit
  <2> QED BY <2>1 DEF Life!LifeInit, ClusterInit, Init, SchedInit
<1>2. ASSUME ClusterInv, ClusterInv', CustodyInv, NoQueuedJobLost, [ClusterNext]_clusterVars
      PROVE  [Life!LifeNext]_(Life!lifeVars)
  <2>1. CASE UNCHANGED clusterVars
    <3>1. UNCHANGED <<schedVars, disp, attempts, shake, rpc, timers, pending>>
      BY <2>1 DEF clusterVars, vars, workerVars, resourceVars, procVars
    <3> QED BY <3>1 DEF Life!lifeVars, HoldersOf, InQueue, Planned, InHand, TimedOut, Executes,
            Settles, schedVars
  <2>2. CASE ClusterNext
    <3>1. \A j \in Jobs : Life!Moves(j) \/ UNCHANGED <<HoldersOf(j), retries[j]>>
      BY <1>2, <2>2, JobsKeptApart, LifeMoves DEF CustodyInv
    <3>2. /\ [j \in Jobs |-> HoldersOf(j)]' \in [Jobs -> SUBSET Life!Holders]
          /\ retries' \in [Jobs -> Nat]
      BY <1>2 DEF HoldersOf, Life!Holders, ClusterInv, TypeOK, SchedTypeOK
    <3> QED BY <3>1, <3>2 DEF Life!LifeNext
  <2> QED BY <1>2, <2>1, <2>2
<1> QED BY <1>1, <1>2, CustodyHolds, ClusterKeepsQueuedJobs, PTL
    DEF ClusterSafety, ImplementsJobLife, Life!LifeSpec

-----------------------------------------------------------------------------
(* Nobody is forgotten *)

\* The leave callback has the job of a dead worker yet to deal with.
Leaving(j) ==
    \/ gossip.pc # "idle" /\ j \in gossip.jobs
    \/ gossip.pc = "mark" /\ gossip.job = j

\* Who will move a RUNNING job on.
Guarded(j) ==
    \/ j \in pending
    \/ InHand(j) \/ Armed(j)
    \/ TimedOut(j)
    \/ \E i \in Slots : Executes(i, j)
    \/ worker[j] \in members \ up
    \/ Leaving(j)

WatchInv == \A j \in Jobs : state[j] = "RUNNING" => Guarded(j)

\* A RUNNING job was RUNNING on the same node, or has just been marked.
LEMMA RunningKept ==
    ASSUME ClusterInv, [ClusterNext]_clusterVars, NEW j \in Jobs, state'[j] = "RUNNING"
    PROVE  (state[j] = "RUNNING" /\ worker'[j] = worker[j]) \/ InHand(j)'
<1>0. TypeOK /\ SchedTypeOK /\ state \in [Jobs -> JobStates] /\ worker \in [Jobs -> MaybeNode]
  BY DEF ClusterInv, TypeOK, SchedTypeOK, MaybeNode
<1>1. CASE UNCHANGED schedVars
  BY <1>1 DEF schedVars
<1>2. ASSUME NEW k \in Jobs,
             \/ Enqueue(k) \/ Dequeue(k) \/ Backfill(k) \/ RemoveByID(k) \/ Cancel(k)
             \/ Requeue(k) \/ RequeueRunningJob(k) \/ \E e \in Errors : MarkCompleted(k, e)
      PROVE  state[j] = "RUNNING" /\ worker'[j] = worker[j]
  BY <1>0, <1>2 DEF Enqueue, Dequeue, Backfill, RemoveByID, Cancel, Requeue, RequeueRunningJob,
     MarkCompleted, jobVars
<1>3. ASSUME NEW g, NEW s, SetGroupState(g, s) \/ RegisterGroup(g)
      PROVE  state[j] = "RUNNING" /\ worker'[j] = worker[j]
  BY <1>3 DEF SetGroupState, RegisterGroup, jobVars
<1>4. CASE DispatchMark
  <2>1. CASE disp.job = j
    <3>1. disp'.pc = "marked" /\ disp'.job = j
      BY <1>0, <1>4, <2>1 DEF DispatchMark, TypeOK, DispOK, DispType
    <3> QED BY <3>1 DEF InHand
  <2>2. CASE disp.job # j
    BY <1>0, <1>4, <2>2 DEF DispatchMark, MarkRunning
  <2> QED BY <2>1, <2>2
<1>5. CASE LeaveMark
  <2>1. gossip.job \in Jobs /\ MarkCompleted(gossip.job, "lost") /\ "lost" \in Errors
    BY <1>0, <1>5 DEF LeaveMark, TypeOK, GossipOK, Errors
  <2> QED BY <1>2, <2>1
<1>6. ASSUME NEW i \in Slots, NEW c \in Calls, Report(i, c)
      PROVE  state[j] = "RUNNING" /\ worker'[j] = worker[j]
  <2>1. PICK k \in Jobs : k = attempts[i].job
    BY <1>6 DEF Report, Reported, ClusterInv, WorkerInv, AttemptsOK, AttemptOK
  <2>2. \E e \in Errors : MarkCompleted(k, e)
    BY <1>6, <2>1 DEF Report, ReportResult, Errors
  <2> QED BY <1>2, <2>2
<1>7. CASE Inner
  BY <1>0, <1>1, <1>2, <1>3, <1>4, <1>5, <1>7, MethodCalled
<1> QED BY <1>1, <1>6, <1>7, InnerStep DEF vars

\* The dispatch loop holds on to a job until it is pending.
LEMMA HandKept ==
    ASSUME TypeOK, [Next]_vars, NEW j \in Jobs, InHand(j) \/ Armed(j), Armed(j) => j \in pending
    PROVE  InHand(j)' \/ Armed(j)' \/ j \in pending'
<1>0. disp \in DispType /\ disp.pc \in {"taken", "marked", "armed"}
  BY DEF TypeOK, DispOK, InHand, Armed
<1>1. CASE UNCHANGED disp
  BY <1>1 DEF InHand, Armed
<1>2. CASE DispatchMark \/ DispatchArm
  BY <1>0, <1>2 DEF DispatchMark, DispatchArm, DispType, InHand, Armed
<1>3. CASE DispatchSend
  BY <1>3 DEF DispatchSend, resourceVars, InHand
<1>4. CASE Dispatch
  BY <1>0, <1>2, <1>3, <1>4 DEF Dispatch, Tick, ExpireRank, ExpireGroup, GangRemove, GangRun,
     SelectNothing, SelectNoNode, TakeTop, GangTimeout, PlanGang, SkipGang, SelectNode, BackfillNode
<1> QED BY <1>1, <1>4, DispLeftAlone DEF Next, vars, procVars

\* The timeout enforcer holds on to a job while it is RUNNING.
LEMMA TimedOutKept ==
    ASSUME TypeOK, Goroutines, [Next]_vars, NEW j \in Jobs, TimedOut(j),
           state[j] = "RUNNING", state'[j] = "RUNNING"
    PROVE  TimedOut(j)'
<1>0. shake \in ShakeType /\ SchedTypeOK /\ \A S : ShakeRest(S).jobs = S
  BY DEF TypeOK, ShakeOK, ShakeRest, IdleShake
<1>1. CASE UNCHANGED shake
  BY <1>1 DEF TimedOut
<1>2. CASE ShakeRelease
  BY <1>0, <1>2 DEF ShakeRelease, TimedOut
<1>3. CASE ShakeRequeue
  <2>1. j # shake.job
    BY <1>0, <1>3 DEF ShakeRequeue, RequeueRunningJob, SchedTypeOK
  <2>2. j \in shake.jobs
    BY <2>1 DEF TimedOut
  <2>3. shake'.jobs = shake.jobs
    BY <1>0, <1>3 DEF ShakeRequeue, ShakeType
  <2> QED BY <2>2, <2>3 DEF TimedOut
<1>4. ASSUME NEW S \in SUBSET Jobs, ShakeScan(S) PROVE FALSE
  BY <1>4 DEF ShakeScan, Goroutines, TimedOut
<1>5. ASSUME NEW k \in Jobs, ShakeCheck(k) PROVE TimedOut(j)'
  <2>1. j \in shake.jobs
    BY <1>5 DEF ShakeCheck, TimedOut
  <2>2. CASE state[k] = "RUNNING"
    BY <1>5, <2>1, <2>2 DEF ShakeCheck, TimedOut
  <2>3. CASE state[k] # "RUNNING"
    BY <1>0, <1>5, <2>1, <2>3 DEF ShakeCheck, TimedOut
  <2> QED BY <2>2, <2>3
<1> QED BY <1>1, <1>2, <1>3, <1>4, <1>5, ShakeLeftAlone

\* Only gossip events change the members and the callback's record.
LEMMA GossipLeftAlone ==
    ASSUME [Next]_vars
    PROVE  UNCHANGED <<members, gossip>> \/ Membership
<1>1. CASE Enforcers
  BY <1>1 DEF Enforcers, WallRelease, ShakeRequeue, ShakeRelease, ShakeCheck, RetryFires, WallKill,
     WallScan, ShakeScan, procVars, resourceVars
<1>2. CASE Submission \/ Clocks
  BY <1>2 DEF Submission, SubmitJob, SubmitRank, SubmitRankFails, SubmitRegister,
     Clocks, GroupAges, BreakerClock, procVars, resourceVars
<1>3. CASE Handlers \/ Clients
  BY <1>3 DEF Handlers, FinishCancel, SettleReport, HandleGroup, AbortRank, AbortVictim,
     CloseGroup, Clients, CancelJob, ReportResult, AcknowledgeStart, procVars, resourceVars
<1>4. CASE Dispatch
  BY <1>4 DEF Dispatch, Tick, ExpireRank, ExpireGroup, GangRemove, GangRun, SelectNothing,
     SelectNoNode, TakeTop, DispatchMark, DispatchArm, DispatchSend, GangTimeout, PlanGang,
     SkipGang, SelectNode, BackfillNode, DispStep, resourceVars
<1>5. CASE UNCHANGED vars
  BY <1>5 DEF vars, procVars, resourceVars
<1> QED BY <1>1, <1>2, <1>3, <1>4, <1>5 DEF Next

\* The leave callback holds on to a job while it is RUNNING.
LEMMA LeavingKept ==
    ASSUME TypeOK, [Next]_vars, NEW j \in Jobs, Leaving(j), state'[j] = "RUNNING"
    PROVE  Leaving(j)'
<1>0. gossip \in GossipType /\ state \in [Jobs -> JobStates]
  BY DEF TypeOK, GossipOK, SchedTypeOK
<1>1. CASE UNCHANGED gossip
  BY <1>1 DEF Leaving
<1>2. ASSUME NEW n, gossip' = GossipRest(n, gossip.jobs), j \in gossip.jobs PROVE Leaving(j)'
  BY <1>2 DEF Leaving, GossipRest, IdleGossip
<1>3. CASE LeaveGroup
  BY <1>2, <1>3 DEF LeaveGroup, Leaving
<1>4. CASE LeaveMark
  <2>1. j # gossip.job
    BY <1>0, <1>4 DEF LeaveMark, MarkCompleted
  <2>2. j \in gossip.jobs
    BY <2>1 DEF Leaving
  <2>3. CASE gossip' = [gossip EXCEPT !.pc = "group"]
    BY <1>0, <2>2, <2>3 DEF Leaving, GossipType
  <2> QED BY <1>2, <1>4, <2>2, <2>3 DEF LeaveMark
<1>5. ASSUME NEW k \in Jobs, LeaveRelease(k) PROVE Leaving(j)'
  <2>1. gossip'.pc = "mark" /\ gossip'.jobs = gossip.jobs \ {k} /\ gossip'.job = k
    BY <1>0, <1>5 DEF LeaveRelease, GossipType
  <2>2. j \in gossip.jobs
    BY <1>5 DEF LeaveRelease, Leaving
  <2> QED BY <2>1, <2>2 DEF Leaving
<1>6. ASSUME NEW n \in Nodes, NodeLeaves(n) PROVE FALSE
  BY <1>6 DEF NodeLeaves, Leaving
<1>7. ASSUME NEW n \in Nodes, NodeJoins(n) PROVE Leaving(j)'
  BY <1>1, <1>7 DEF NodeJoins, procVars
<1> QED BY <1>1, <1>3, <1>4, <1>5, <1>6, <1>7, GossipLeftAlone DEF Membership

\* Most steps take nothing out of dispatchPending, end no execution and
\* leave the workers and the member list as they are.
Uneventful ==
    /\ pending \subseteq pending' /\ UNCHANGED <<members, up>>
    /\ \A i \in Slots, j \in Jobs : Executes(i, j) => Executes(i, j)'

LEMMA Events ==
    ASSUME ClusterInv, [ClusterNext]_clusterVars
    PROVE  \/ Uneventful
           \/ \E S \in SUBSET Jobs : TimeOut(S)
           \/ \E i \in Slots : Acknowledge(i)
           \/ \E i \in Slots, c \in Calls : Report(i, c)
           \/ \E n \in Nodes : Noticed(n) \/ Crash(n) \/ Restart(n)
<1>0. TypeOK /\ WorkerInv /\ attempts \in [Slots -> AttemptType]
  BY DEF ClusterInv, WorkerInv, WorkerTypeOK, AttemptType
<1> DEFINE Kept == \A i \in Slots, j \in Jobs : Executes(i, j) => Executes(i, j)'
<1>1. ASSUME pending \subseteq pending', UNCHANGED <<members, up>>, Kept PROVE Uneventful
  BY <1>1 DEF Uneventful
<1>2. UNCHANGED attempts => Kept
  BY DEF Executes
<1>3. ASSUME MasterAlone PROVE UNCHANGED up /\ Kept
  BY <1>2, <1>3 DEF MasterAlone, workerVars
<1>4. ASSUME NEW n, NEW k, CancelMessage(n, k) PROVE UNCHANGED up /\ Kept
  BY <1>2, <1>4 DEF CancelMessage, PublishCancel, workerVars
<1>5. ASSUME SendExecute PROVE UNCHANGED up /\ Kept
  <2>1. UNCHANGED up
    BY <1>5 DEF SendExecute, PublishExecute, workerVars
  <2>2. CASE UNCHANGED attempts
    BY <1>2, <2>1, <2>2
  <2>3. ASSUME FreeSlots # {}, NEW r, attempts' = [attempts EXCEPT ![FreeSlot] = r] PROVE Kept
    BY <1>0, <2>3, FreeSlotIsFree DEF Executes
  <2> QED BY <1>5, <2>1, <2>2, <2>3 DEF SendExecute, PublishExecute, workerVars
<1>6. ASSUME NEW i \in Slots,
             \/ StartRun(i) \/ ReportAgain(i) \/ EndAttempt(i) \/ \E k \in Kinds : FinishRun(i, k)
      PROVE  UNCHANGED up /\ Kept
  <2>1. CASE StartRun(i)
    BY <1>0, <2>1 DEF StartRun, Executes, AttemptType
  <2>2. CASE ReportAgain(i) \/ EndAttempt(i)
    BY <1>0, <2>2 DEF ReportAgain, EndAttempt, Executes
  <2>3. ASSUME NEW k \in Kinds, FinishRun(i, k) PROVE UNCHANGED up /\ Kept
    <3> DEFINE r == [attempts[i] EXCEPT !.pc = "report", !.kind = k]
    <3>1. attempts' = [attempts EXCEPT ![i] = r] /\ up' = up
      BY <1>0, <2>3 DEF FinishRun, AttemptType
    <3>2. r.pc = "report" /\ r.job = attempts[i].job
      BY <1>0 DEF AttemptType
    <3> HIDE DEF r
    <3> QED BY <1>0, <3>1, <3>2 DEF Executes
  <2> QED BY <1>6, <2>1, <2>2, <2>3
<1>7. ASSUME NEW n \in Nodes, ReceiveCancel(n) \/ ReceiveExecute(n) PROVE UNCHANGED up /\ Kept
  <2>1. CASE ReceiveCancel(n)
    <3>1. PICK s : /\ attempts' = attempts \/ attempts' = [attempts EXCEPT ![s].cancelled = TRUE]
                   /\ up' = up
      BY <2>1 DEF ReceiveCancel
    <3>2. \A i \in Slots : attempts'[i].pc = attempts[i].pc /\ attempts'[i].job = attempts[i].job
      BY <1>0, <3>1 DEF AttemptType
    <3> QED BY <3>1, <3>2 DEF Executes
  <2>2. CASE ReceiveExecute(n)
    <3>1. wire[n] \in Seq(Messages) /\ wire[n] # << >>
      BY <1>0, <2>2 DEF WorkerInv, WorkerTypeOK, ReceiveExecute
    <3>2. Head(wire[n]) = wire[n][1] /\ 1 \in 1 .. Len(wire[n])
      BY <3>1
    <3>3. PICK s \in Slots : s = Head(wire[n]).slot /\ attempts[s].pc = "wire"
      BY <1>0, <2>2, <3>2 DEF ReceiveExecute, WorkerInv, WireOK
    <3> QED BY <1>0, <2>2, <3>3 DEF ReceiveExecute, Executes
  <2> QED BY <1>7, <2>1, <2>2
<1> HIDE DEF Kept
<1>8. CASE Submit
  BY <1>1, <1>3, <1>8 DEF Submit, Submission, SubmitJob, SubmitRank, SubmitRankFails,
     SubmitRegister, resourceVars
<1>9. CASE DispatchStep
  BY <1>1, <1>3, <1>5, <1>9 DEF DispatchStep, SendExecute, DispatchSend, Tick, ExpireRank,
     ExpireGroup, GangRemove, GangRun, SelectNothing, SelectNoNode, TakeTop, DispatchMark,
     DispatchArm, GangTimeout, PlanGang, SkipGang, SelectNode, BackfillNode, resourceVars
<1>10. CASE ShakeStep \/ WallStep \/ WallOverdue \/ LeaveStep \/ Clock
  BY <1>1, <1>3, <1>4, <1>10 DEF ShakeStep, ShakeRequeue, ShakeRelease, ShakeCheck, WallStep,
     WallOverdue, SendWallCancel, WallKill, WallScan, WallRelease, LeaveStep, LeaveMark,
     LeaveGroup, LeaveRelease, Clock, Clocks, GroupAges, BreakerClock, resourceVars
<1>12. ASSUME NEW c \in Calls, HandlerStep(c) PROVE Uneventful
  BY <1>1, <1>3, <1>4, <1>12 DEF HandlerStep, SendCancel, FinishCancel, SettleReport, HandleGroup,
     AbortRank, AbortVictim, CloseGroup, resourceVars
<1>13. ASSUME NEW c \in Calls, NEW k \in Jobs, ClientCancel(c, k) PROVE Uneventful
  BY <1>1, <1>2, <1>13 DEF ClientCancel, CancelJob, workerVars, resourceVars
<1>14. ASSUME NEW k \in Jobs, RetryStep(k) PROVE Uneventful
  BY <1>1, <1>3, <1>14 DEF RetryStep, RetryFires
<1>18. ASSUME NEW n \in Nodes, MessageLoop(n) PROVE Uneventful
  BY <1>1, <1>7, <1>18 DEF MessageLoop, WorkerAlone, vars, resourceVars
<1>19. ASSUME NEW i \in Slots, Execution(i) \/ Duplicate(i)
       PROVE  Uneventful \/ Acknowledge(i) \/ \E c \in Calls : Report(i, c)
  BY <1>1, <1>6, <1>19 DEF Execution, Duplicate, WorkerAlone, vars, resourceVars
<1>20. CASE UNCHANGED clusterVars
  BY <1>1, <1>2, <1>20 DEF clusterVars, vars, workerVars, resourceVars
<1> QED BY <1>8, <1>9, <1>10, <1>12, <1>13, <1>14, <1>18, <1>19, <1>20 DEF ClusterNext

\* A RUNNING job passes from one watcher to the next.
LEMMA WatchNext ==
    ASSUME ClusterInv, CustodyInv, WatchInv, [ClusterNext]_clusterVars
    PROVE  WatchInv'
<1> SUFFICES ASSUME NEW j \in Jobs, state'[j] = "RUNNING" PROVE Guarded(j)'
  BY DEF WatchInv
<1>0. /\ TypeOK /\ WorkerInv /\ Goroutines /\ Housed /\ JobInv(j) /\ [Next]_vars
      /\ attempts \in [Slots -> AttemptType] /\ used \in [Faults -> Nat]
  BY MasterStep DEF ClusterInv, CustodyInv, WorkerInv, WorkerTypeOK, AttemptType
<1>1. CASE InHand(j)'
  BY <1>1 DEF Guarded
<1>2. CASE state[j] = "RUNNING" /\ worker'[j] = worker[j]
  <2>1. Guarded(j)
    BY <1>2 DEF WatchInv
  <2>2. CASE InHand(j) \/ Armed(j)
    BY <1>0, <2>2, HandKept DEF JobInv, Single, Guarded
  <2>3. CASE TimedOut(j)
    BY <1>0, <1>2, <2>3, TimedOutKept DEF Guarded
  <2>4. CASE Leaving(j)
    BY <1>0, <2>4, LeavingKept DEF Guarded
  <2>5. ASSUME Uneventful PROVE Guarded(j)'
    <3>1. CASE j \in pending
      BY <2>5, <3>1 DEF Uneventful, Guarded
    <3>2. ASSUME NEW i \in Slots, Executes(i, j) PROVE Guarded(j)'
      BY <2>5, <3>2 DEF Uneventful, Guarded
    <3>3. CASE worker[j] \in members \ up
      BY <1>2, <2>5, <3>3 DEF Uneventful, Guarded
    <3> QED BY <2>1, <2>2, <2>3, <2>4, <3>1, <3>2, <3>3 DEF Guarded
  <2>6. ASSUME NEW S \in SUBSET Jobs, TimeOut(S) PROVE Guarded(j)'
    <3>1. /\ pending' = pending \ S /\ S # {} /\ shake' = ShakeRest(S)
          /\ UNCHANGED <<members, up, attempts>>
      BY <2>6 DEF TimeOut, ShakeScan, workerVars
    <3>2. shake'.jobs = S
      BY <3>1 DEF ShakeRest, IdleShake
    <3>3. CASE j \in pending
      BY <3>1, <3>2, <3>3 DEF Guarded, TimedOut
    <3>4. ASSUME NEW i \in Slots, Executes(i, j) PROVE Guarded(j)'
      BY <3>1, <3>4 DEF Executes, Guarded
    <3>5. CASE worker[j] \in members \ up
      BY <1>2, <3>1, <3>5 DEF Guarded
    <3> QED BY <2>1, <2>2, <2>3, <2>4, <3>3, <3>4, <3>5 DEF Guarded
  <2>7. ASSUME NEW i \in Slots, Acknowledge(i) PROVE Guarded(j)'
    <3>1. /\ attempts[i].pc = "ack" /\ attempts'[i].pc = "start"
          /\ attempts'[i].job = attempts[i].job
          /\ \A s \in Slots \ {i} : attempts'[s] = attempts[s]
          /\ pending \ {attempts[i].job} \subseteq pending' /\ UNCHANGED <<members, up>>
      BY <1>0, <2>7 DEF Acknowledge, EndHandshake, AcknowledgeStart, AttemptType, vars, resourceVars
    <3>2. CASE attempts[i].job = j
      BY <3>1, <3>2 DEF Guarded, Executes
    <3>3. CASE j \in pending /\ attempts[i].job # j
      BY <3>1, <3>3 DEF Guarded
    <3>4. ASSUME NEW s \in Slots, Executes(s, j) PROVE Guarded(j)'
      BY <3>1, <3>4 DEF Executes, Guarded
    <3>5. CASE worker[j] \in members \ up
      BY <1>2, <3>1, <3>5 DEF Guarded
    <3> QED BY <2>1, <2>2, <2>3, <2>4, <3>2, <3>3, <3>4, <3>5 DEF Guarded
  <2>8. ASSUME NEW i \in Slots, NEW c \in Calls, Report(i, c) PROVE Guarded(j)'
    <3>1. /\ \A s \in Slots \ {i} : attempts'[s] = attempts[s]
          /\ UNCHANGED <<members, up, pending>>
      BY <1>0, <2>8 DEF Report, Reported, ReportResult, resourceVars
    <3>2. attempts[i].job # j
      BY <1>0, <2>8 DEF Report, ReportResult, MarkCompleted, TypeOK, SchedTypeOK
    <3>3. CASE j \in pending
      BY <3>1, <3>3 DEF Guarded
    <3>4. ASSUME NEW s \in Slots, Executes(s, j) PROVE Guarded(j)'
      BY <3>1, <3>2, <3>4 DEF Executes, Guarded
    <3>5. CASE worker[j] \in members \ up
      BY <1>2, <3>1, <3>5 DEF Guarded
    <3> QED BY <2>1, <2>2, <2>3, <2>4, <3>3, <3>4, <3>5 DEF Guarded
  <2>9. ASSUME NEW n \in Nodes, Noticed(n) PROVE Guarded(j)'
    <3>1. /\ UNCHANGED <<up, attempts, pending>> /\ members' = members \ {n}
          /\ gossip' = GossipRest(n, RunningJobsOnNode(n))
      BY <2>9 DEF Noticed, NodeLeaves, MasterAlone, workerVars
    <3>2. CASE j \in pending
      BY <3>1, <3>2 DEF Guarded
    <3>3. ASSUME NEW s \in Slots, Executes(s, j) PROVE Guarded(j)'
      BY <3>1, <3>3 DEF Executes, Guarded
    <3>4. CASE worker[j] \in members \ up /\ worker[j] # n
      BY <1>2, <3>1, <3>4 DEF Guarded
    <3>5. CASE worker[j] = n
      <4>1. j \in RunningJobsOnNode(n)
        BY <1>2, <3>5 DEF RunningJobsOnNode
      <4>2. gossip'.pc = "release" /\ gossip'.jobs = RunningJobsOnNode(n)
        BY <3>1, <4>1 DEF GossipRest, IdleGossip
      <4> QED BY <4>1, <4>2 DEF Guarded, Leaving
    <3> QED BY <2>1, <2>2, <2>3, <2>4, <3>2, <3>3, <3>4, <3>5 DEF Guarded
  <2>10. ASSUME NEW n \in Nodes, Crash(n) PROVE Guarded(j)'
    <3>1. /\ UNCHANGED <<members, pending>> /\ up' = up \ {n} /\ n \in up
          /\ attempts' = [i \in Slots |-> IF attempts[i].node = n THEN NoAttempt ELSE attempts[i]]
      BY <2>10 DEF Crash, CrashNode, vars, resourceVars
    <3>2. CASE j \in pending
      BY <3>1, <3>2 DEF Guarded
    <3>3. ASSUME NEW s \in Slots, Executes(s, j) PROVE Guarded(j)'
      <4>1. CASE attempts[s].node = n
        <5>1. worker[j] = n
          BY <1>0, <3>3, <4>1 DEF JobInv, Located
        <5> QED BY <1>0, <1>2, <3>1, <5>1 DEF Housed, Guarded
      <4>2. CASE attempts[s].node # n
        BY <3>1, <3>3, <4>2 DEF Executes, Guarded
      <4> QED BY <4>1, <4>2
    <3>4. CASE worker[j] \in members \ up
      BY <1>2, <3>1, <3>4 DEF Guarded
    <3> QED BY <2>1, <2>2, <2>3, <2>4, <3>2, <3>3, <3>4 DEF Guarded
  <2>11. ASSUME NEW n \in Nodes, Restart(n) PROVE Guarded(j)'
    <3>1. /\ UNCHANGED <<attempts, pending>> /\ n \notin members
          /\ members' = members \cup {n} /\ up' = up \cup {n}
      BY <2>11 DEF Restart, NodeJoins, StartNode
    <3>2. CASE j \in pending
      BY <3>1, <3>2 DEF Guarded
    <3>3. ASSUME NEW s \in Slots, Executes(s, j) PROVE Guarded(j)'
      BY <3>1, <3>3 DEF Executes, Guarded
    <3>4. CASE worker[j] \in members \ up
      BY <1>2, <3>1, <3>4 DEF Guarded
    <3> QED BY <2>1, <2>2, <2>3, <2>4, <3>2, <3>3, <3>4 DEF Guarded
  <2> QED BY <2>5, <2>6, <2>7, <2>8, <2>9, <2>10, <2>11, Events
<1> QED BY <1>1, <1>2, RunningKept

\* No RUNNING job is forgotten: somebody is still going to move it on, whatever
\* messages are lost and whichever worker dies.  Run silent_loss shows that a
\* late handshake is enough to lose one.
THEOREM RunningJobsWatched ==
    ASSUME OnTime
    PROVE  ClusterSafety => []Watched
<1>1. ClusterInit => WatchInv
  BY DEF ClusterInit, Init, SchedInit, WatchInv
<1>2. ClusterInv /\ CustodyInv /\ WatchInv /\ [ClusterNext]_clusterVars => WatchInv'
  BY WatchNext
<1>3. WatchInv => Watched
  BY DEF WatchInv, Watched, Guarded, InHand, Armed, TimedOut, Executes, Leaving
<1> QED BY <1>1, <1>2, <1>3, CustodyHolds, PTL DEF ClusterSafety

-----------------------------------------------------------------------------
(* What a job has allocated *)

\* Single jobs without a walltime, on workers that stay up, that nobody
\* cancels: messages may be lost, commands fail and jobs be retried.
Undisturbed ==
    /\ OnTime
    /\ Groups = {} /\ WallJobs = {}
    /\ Budget["crash"] = 0 /\ Budget["cancel"] = 0

\* Only ReportResult has calls under way, and nothing is overdue.
Quiet == wall.pc = "idle" /\ \A c \in Calls : rpc[c].pc \in {"idle", "settle"}

\* Somebody deals with a dispatch or an execution of the job.
Under(j) == Placing(j) \/ j \in pending \/ TimedOut(j) \/ \E i \in Slots : Executes(i, j)
\* The dispatch loop has the job, before and after MarkRunning.
Taken(j) == disp.pc = "taken" /\ disp.job = j
Marked(j) == disp.pc = "marked" /\ disp.job = j

\* The state of a job says who has it.
Standing(j) ==
    /\ state[j] # "CANCELLED"
    /\ Taken(j) => state[j] = "QUEUED"
    /\ Under(j) => state[j] = "RUNNING"
    /\ Settling(j) => worker[j] \in Nodes
    /\ \A c \in Calls :
          Settles(c, j) => state[j] = IF rpc[c].kind = "ok" THEN "COMPLETED" ELSE "FAILED"
    /\ timers[j] > 0 => state[j] = "FAILED"
    /\ state[j] = "RUNNING" => worker[j] \in Nodes

\* The timeout enforcer releases the node of the dispatch it gave up.
ShakeTrue ==
    /\ shake.pc = "requeue" => shake.node = worker[shake.job]
    /\ shake.pc = "release" => shake.node \in Nodes

\* The tracker has an allocation for the job: from Allocate to Release.
Charged(j) == (state[j] = "RUNNING" /\ ~Marked(j)) \/ Settling(j)
\* What the job is charged to a node.
Charge(j, n) == IF Charged(j) /\ worker[j] = n THEN Need[j] ELSE 0
Charges(n) == [j \in Jobs |-> Charge(j, n)]

\* What the timeout enforcer has yet to release.
Unreleased(n) == IF shake.pc = "release" /\ shake.node = n THEN Need[shake.job] ELSE 0

\* A node's allocation is what is charged to it and not yet given back.
Exact == \A n \in Nodes : alloc[n] = SumOver(Charges(n), Jobs) + Unreleased(n)

\* The strengthening of TrackerExact.
TrackerInv == Quiet /\ (\A j \in Jobs : Standing(j)) /\ ShakeTrue /\ Exact

-----------------------------------------------------------------------------
(* The steps *)

\* Nothing that the invariant speaks of begins.
Still ==
    /\ UNCHANGED <<state, worker, timers, pending, shake, rpc, alloc, wall>>
    /\ UNCHANGED disp \/ (disp.pc # "marked" /\ disp'.pc \notin {"taken", "marked", "armed"})
    /\ \A i \in Slots, j \in Jobs : Executes(i, j)' => Executes(i, j)

\* A job is taken from the queue.
Takes(k) ==
    /\ heap[k] > 0
    /\ disp.pc # "marked" /\ disp'.pc = "taken" /\ disp'.job = k
    /\ UNCHANGED <<state, worker, timers, pending, shake, rpc, alloc, wall, attempts>>

\* The master's steps that remain in undisturbed operation.
MasterSteps ==
    \/ \E j \in Jobs : SubmitJob(j) \/ ShakeCheck(j) \/ RetryFires(j)
    \/ DispatchMark \/ DispatchArm \/ ShakeRequeue \/ ShakeRelease
    \/ \E S \in SUBSET Jobs : ShakeScan(S) /\ disp.job \notin S
    \/ \E c \in Calls : SettleReport(c)

\* Workers allocate and release nothing.
LEMMA WorkersStill ==
    ASSUME ClusterInv, UNCHANGED vars,
           \/ \E n \in Nodes : MessageLoop(n)
           \/ \E i \in Slots : StartRun(i) \/ EndAttempt(i) \/ \E k \in Kinds : FinishRun(i, k)
    PROVE  Still
<1>0. /\ WorkerInv /\ attempts \in [Slots -> AttemptType]
      /\ UNCHANGED <<state, worker, timers, pending, shake, rpc, alloc, wall, disp>>
  BY DEF ClusterInv, WorkerInv, WorkerTypeOK, AttemptType, vars, schedVars, resourceVars, procVars
<1> SUFFICES \A i \in Slots, j \in Jobs : Executes(i, j)' => Executes(i, j)
  BY <1>0 DEF Still
<1>1. ASSUME NEW n \in Nodes, ReceiveCancel(n)
      PROVE  \A i \in Slots, j \in Jobs : Executes(i, j)' => Executes(i, j)
  <2>1. PICK s : attempts' = attempts \/ attempts' = [attempts EXCEPT ![s].cancelled = TRUE]
    BY <1>1 DEF ReceiveCancel
  <2>2. \A i \in Slots : attempts'[i].pc = attempts[i].pc /\ attempts'[i].job = attempts[i].job
    BY <1>0, <2>1 DEF AttemptType
  <2> QED BY <2>2 DEF Executes
<1>2. ASSUME NEW n \in Nodes, ReceiveExecute(n)
      PROVE  \A i \in Slots, j \in Jobs : Executes(i, j)' => Executes(i, j)
  <2>1. PICK s : attempts' = [attempts EXCEPT ![s].pc = "ack"]
    BY <1>2 DEF ReceiveExecute
  <2>2. \A i \in Slots : attempts'[i] = attempts[i] \/ attempts'[i].pc = "ack"
    BY <1>0, <2>1 DEF AttemptType
  <2> QED BY <2>2 DEF Executes
<1>3. ASSUME NEW i \in Slots, StartRun(i) \/ EndAttempt(i)
      PROVE  \A s \in Slots, j \in Jobs : Executes(s, j)' => Executes(s, j)
  BY <1>0, <1>3 DEF StartRun, EndAttempt, NoAttempt, Executes, AttemptType
<1>4. ASSUME NEW i \in Slots, NEW k \in Kinds, FinishRun(i, k)
      PROVE  \A s \in Slots, j \in Jobs : Executes(s, j)' => Executes(s, j)
  <2> DEFINE r == [attempts[i] EXCEPT !.pc = "report", !.kind = k]
  <2>1. attempts' = [attempts EXCEPT ![i] = r]
    BY <1>0, <1>4 DEF FinishRun, AttemptType
  <2>2. r.job = attempts[i].job /\ attempts[i].pc = "run"
    BY <1>0, <1>4 DEF AttemptType, FinishRun
  <2> HIDE DEF r
  <2> QED BY <1>0, <2>1, <2>2 DEF Executes
<1> QED BY <1>1, <1>2, <1>3, <1>4 DEF MessageLoop

\* A step of the dispatch loop takes a job, goes on with one, or begins nothing.
LEMMA DispatchSteps ==
    ASSUME Undisturbed, ClusterInv, DispatchStep
    PROVE  \/ (DispatchMark \/ DispatchArm) /\ UNCHANGED attempts
           \/ \E k \in Jobs : Takes(k)
           \/ Still
<1>0. TypeOK /\ disp \in DispType /\ attempts \in [Slots -> AttemptType]
      /\ PendingGroups = {} /\ Groups = {} /\ DispOK(disp)
      /\ disp.groups = {} /\ disp.group = NoGroup
  BY DEF ClusterInv, TypeOK, DispOK, DispType, WorkerInv, WorkerTypeOK, AttemptType, Undisturbed,
     PendingGroups
<1>1. CASE SendExecute
  <2>1. disp.pc = "armed" /\ disp' = IdleDisp
        /\ UNCHANGED <<state, worker, timers, pending, shake, rpc, alloc, wall>>
    BY <1>0, <1>1 DEF SendExecute, DispatchSend, schedVars, resourceVars, DispStep
  <2>2. disp.pc # "marked" /\ disp'.pc \notin {"taken", "marked", "armed"}
    BY <2>1 DEF IdleDisp
  <2>3. \A i \in Slots : attempts'[i] = attempts[i] \/ attempts'[i].pc = "wire"
    <3>1. CASE UNCHANGED attempts
      BY <3>1
    <3>2. ASSUME NEW r, r.pc = "wire", attempts' = [attempts EXCEPT ![FreeSlot] = r]
          PROVE  \A i \in Slots : attempts'[i] = attempts[i] \/ attempts'[i].pc = "wire"
      BY <1>0, <3>2
    <3> QED BY <1>1, <3>1, <3>2 DEF SendExecute, PublishExecute, workerVars, NoAttempt
  <2> QED BY <2>1, <2>2, <2>3 DEF Still, Executes
<1>2. ASSUME MasterAlone PROVE UNCHANGED attempts
  BY <1>2 DEF MasterAlone, workerVars
<1>3. ASSUME UNCHANGED <<schedVars, resourceVars>>, DispStep, UNCHANGED attempts,
             disp.pc # "marked", disp'.pc \notin {"taken", "marked", "armed"}
      PROVE  Still
  BY <1>3 DEF Still, schedVars, resourceVars, DispStep, Executes
<1>4. CASE Tick /\ MasterAlone
  <2>1. disp'.pc = "select"
    BY <1>0, <1>4 DEF Tick, NextGroup, IdleDisp
  <2> QED BY <1>2, <1>3, <1>4, <2>1 DEF Tick
<1>5. CASE (ExpireRank \/ ExpireGroup \/ GangRemove \/ GangRun
              \/ \E g \in Groups : GangTimeout(g) \/ PlanGang(g) \/ SkipGang(g)) /\ MasterAlone
  BY <1>0, <1>5 DEF ExpireRank, ExpireGroup, GangRemove, GangRun, DispOK
<1>6. CASE (SelectNothing \/ SelectNoNode \/ \E n \in Nodes : SelectNode(n)) /\ MasterAlone
  <2>1. disp.pc = "select" /\ UNCHANGED <<schedVars, resourceVars>> /\ DispStep
    BY <1>6 DEF SelectNothing, SelectNoNode, SelectNode
  <2>2. CASE SelectNothing
    BY <1>2, <1>3, <1>6, <2>1, <2>2 DEF SelectNothing, IdleDisp
  <2>4. CASE SelectNoNode
    <3>1. disp'.pc \in {"idle", "backfill"}
      BY <2>4 DEF SelectNoNode, IdleDisp
    <3> QED BY <1>2, <1>3, <1>6, <2>1, <3>1
  <2>3. ASSUME NEW n \in Nodes, SelectNode(n) PROVE Still
    BY <1>2, <1>3, <1>6, <2>1, <2>3 DEF SelectNode, IdleDisp
  <2> QED BY <1>6, <2>2, <2>3, <2>4
<1>7. CASE TakeTop /\ MasterAlone
  <2>1. CASE InHeap = {}
    BY <1>2, <1>3, <1>7, <2>1 DEF TakeTop, IdleDisp
  <2>2. CASE InHeap # {}
    <3>1. Top \in Jobs /\ heap[Top] > 0 /\ Dequeue(Top) /\ disp'.pc = "taken" /\ disp'.job = Top
          /\ disp.pc = "picked" /\ UNCHANGED resourceVars /\ DispStep
      BY <1>0, <1>7, <2>2, TopIsQueued DEF TakeTop, DispType, InHeap
    <3> QED BY <1>2, <1>7, <3>1 DEF Takes, Dequeue, jobVars, resourceVars, DispStep
  <2> QED BY <2>1, <2>2
<1>8. ASSUME NEW n \in Nodes, BackfillNode(n), MasterAlone PROVE Still \/ \E k \in Jobs : Takes(k)
  <2>0. disp.pc = "backfill" /\ UNCHANGED resourceVars /\ DispStep
    BY <1>8 DEF BackfillNode
  <2>1. ASSUME NEW j \in Backfillable(n), Backfill(j),
               disp' = [IdleDisp EXCEPT !.pc = "taken", !.job = j, !.node = n]
        PROVE  \E k \in Jobs : Takes(k)
    <3>1. j \in Jobs /\ heap[j] > 0 /\ disp'.pc = "taken" /\ disp'.job = j
      BY <2>1 DEF Backfillable, InHeap, IdleDisp
    <3> QED BY <1>2, <1>8, <2>0, <2>1, <3>1 DEF Takes, Backfill, jobVars, resourceVars, DispStep
  <2>2. ASSUME UNCHANGED schedVars,
               disp' = IF disp.nodes = {n} THEN IdleDisp ELSE [disp EXCEPT !.nodes = @ \ {n}]
        PROVE  Still
    <3>1. disp'.pc \in {"idle", "backfill"}
      BY <1>0, <2>0, <2>2 DEF IdleDisp, DispType
    <3> QED BY <1>2, <1>3, <1>8, <2>0, <2>2, <3>1
  <2> QED BY <1>8, <2>1, <2>2 DEF BackfillNode
<1> QED BY <1>1, <1>2, <1>4, <1>5, <1>6, <1>7, <1>8 DEF DispatchStep

\* What can happen when nothing disturbs the cluster.
LEMMA QuietSteps ==
    ASSUME Undisturbed, ClusterInv, CustodyInv, Quiet, [ClusterNext]_clusterVars
    PROVE  \/ Still
           \/ \E k \in Jobs : Takes(k)
           \/ MasterSteps /\ UNCHANGED attempts
           \/ \E i \in Slots : Acknowledge(i)
           \/ \E i \in Slots, c \in Calls : Report(i, c)
<1>0. /\ TypeOK /\ WorkerInv /\ used \in [Faults -> Nat]
      /\ Groups = {} /\ WallJobs = {} /\ wall.pc = "idle" /\ gossip.pc = "idle"
      /\ up = Nodes /\ members = Nodes
      /\ \A c \in Calls : CallOK(rpc[c]) /\ rpc[c].pc \in {"idle", "settle"}
  BY DEF Undisturbed, ClusterInv, TypeOK, ResourceTypeOK, CustodyInv, Housed, QueueTrue, Quiet
<1>1. \A f \in {"late", "dup", "crash", "cancel"} : ~Spend(f)
  <2>1. \A f \in {"late", "dup", "crash", "cancel"} : Budget[f] = 0 /\ used[f] \in Nat
    BY <1>0 DEF Undisturbed, OnTime, Faults
  <2> QED BY <2>1 DEF Spend
<1>2. ASSUME MasterAlone PROVE UNCHANGED attempts
  BY <1>2 DEF MasterAlone, workerVars
<1>3. ASSUME UNCHANGED <<vars, attempts>> PROVE Still
  BY <1>3 DEF Still, vars, schedVars, resourceVars, procVars, Executes
<1>4. CASE Submit
  BY <1>0, <1>2, <1>4 DEF Submit, Submission, MasterSteps
<1>5. CASE DispatchStep
  BY <1>5, DispatchSteps DEF MasterSteps
<1>6. CASE ShakeStep
  BY <1>2, <1>6 DEF ShakeStep, MasterSteps
<1>7. CASE WallStep \/ WallOverdue
  BY <1>0, <1>7 DEF WallStep, WallOverdue, SendWallCancel, WallRelease, WallKill, WallScan
<1>8. CASE LeaveStep
  BY <1>0, <1>8 DEF LeaveStep, LeaveMark, LeaveGroup, LeaveRelease
<1>9. CASE Clock
  BY <1>0, <1>2, <1>9 DEF Clock, Clocks, BreakerClock, schedVars, resourceVars, procVars, Still,
     Executes
<1>10. ASSUME NEW S \in SUBSET Jobs, TimeOut(S) PROVE MasterSteps /\ UNCHANGED attempts
  BY <1>10 DEF TimeOut, MasterSteps, workerVars
<1>11. ASSUME NEW c \in Calls, HandlerStep(c) PROVE MasterSteps /\ UNCHANGED attempts
  BY <1>0, <1>2, <1>11 DEF HandlerStep, SendCancel, FinishCancel, HandleGroup, AbortRank,
     AbortVictim, CloseGroup, MasterSteps
<1>12. ASSUME NEW c \in Calls, NEW j \in Jobs, ClientCancel(c, j) PROVE FALSE
  BY <1>1, <1>12 DEF ClientCancel
<1>13. ASSUME NEW j \in Jobs, RetryStep(j) PROVE MasterSteps /\ UNCHANGED attempts
  BY <1>2, <1>13 DEF RetryStep, MasterSteps
<1>14. ASSUME NEW n \in Nodes, Noticed(n) \/ Crash(n) \/ Restart(n) PROVE FALSE
  BY <1>0, <1>1, <1>14 DEF Noticed, Crash, Restart, StartNode
<1>15. ASSUME NEW n \in Nodes, MessageLoop(n) PROVE Still
  BY <1>15, WorkersStill DEF MessageLoop, WorkerAlone
<1>16. ASSUME NEW i \in Slots, Execution(i) \/ Duplicate(i)
       PROVE  Still \/ Acknowledge(i) \/ \E c \in Calls : Report(i, c)
  <2>1. ~Duplicate(i)
    BY <1>1 DEF Duplicate
  <2> QED BY <1>16, <2>1, WorkersStill DEF Execution, WorkerAlone
<1>17. CASE UNCHANGED clusterVars
  BY <1>3, <1>17 DEF clusterVars, workerVars
<1> QED BY <1>4, <1>5, <1>6, <1>7, <1>8, <1>9, <1>10, <1>11, <1>12, <1>13, <1>14, <1>15, <1>16,
    <1>17 DEF ClusterNext
-----------------------------------------------------------------------------
(* The invariant is kept *)

\* A step that does nothing with the job.
Untouched(j) ==
    /\ UNCHANGED <<state[j], worker[j]>> /\ timers'[j] <= timers[j]
    /\ Taken(j)' => state[j] = "QUEUED"
    /\ Under(j)' => Under(j)
    /\ Marked(j)' <=> Marked(j)
    /\ \A c \in Calls : /\ Settles(c, j)' <=> Settles(c, j)
                        /\ Settles(c, j) => rpc'[c].kind = rpc[c].kind

\* Such a step leaves the standing and the charge of the job as they are.
LEMMA UntouchedKept ==
    ASSUME TypeOK, TypeOK', NEW j \in Jobs, Standing(j), Untouched(j)
    PROVE  Standing(j)' /\ \A n \in Nodes : Charge(j, n)' = Charge(j, n)
<1>1. Settling(j)' <=> Settling(j)
  BY DEF Untouched, Settling
<1>2. timers[j] \in Nat /\ timers'[j] \in Nat
  BY DEF TypeOK, ResourceTypeOK
<1>3. Standing(j)'
  BY <1>1, <1>2 DEF Standing, Untouched
<1>4. Charged(j)' <=> Charged(j)
  BY <1>1 DEF Charged, Untouched
<1> QED BY <1>3, <1>4 DEF Charge, Untouched

\* What the tracker owes changes with the charge of the one job touched.
LEMMA ChargesMove ==
    ASSUME TypeOK, NEW k \in Jobs, NEW n \in Nodes,
           \A j \in Jobs \ {k} : Charge(j, n)' = Charge(j, n)
    PROVE  /\ SumOver(Charges(n), Jobs)'
                = SumOver(Charges(n), Jobs) - Charge(k, n) + Charge(k, n)'
           /\ SumOver(Charges(n), Jobs) \in Nat
           /\ Charge(k, n) <= SumOver(Charges(n), Jobs)
<1>1. PICK f : f = Charges(n)
  OBVIOUS
<1>2. PICK g : g = Charges(n)'
  OBVIOUS
<1>3. \A j \in Jobs : f[j] = Charge(j, n) /\ g[j] = Charge(j, n)'
  BY <1>1, <1>2 DEF Charges
<1>4. \A j \in Jobs : f[j] \in Nat /\ g[j] \in Nat
  BY <1>3, ResourceAssumption DEF Charge
<1>5. \A j \in Jobs \ {k} : g[j] = f[j]
  BY <1>3
<1>6. SumOver(g, Jobs) = SumOver(f, Jobs) - f[k] + g[k]
  BY <1>4, <1>5, TableAssumption, SumChange
<1>7. SumOver(f, Jobs) \in Nat
  BY <1>4, TableAssumption, SumNat
<1>8. SumOver(f, Jobs) = f[k] + SumOver(f, Jobs \ {k})
  BY <1>4, TableAssumption, SumRemove
<1>9. SumOver(f, Jobs \ {k}) \in Nat
  BY <1>4, TableAssumption, FS_Subset, SumNat
<1>10. f[k] <= SumOver(f, Jobs)
  BY <1>4, <1>8, <1>9
<1>11. SumOver(Charges(n), Jobs)' = SumOver(g, Jobs)
  BY <1>2
<1> QED BY <1>1, <1>3, <1>6, <1>7, <1>10, <1>11

\* Where no charge changes, neither does the sum.
LEMMA ChargesSame ==
    ASSUME TypeOK, NEW n \in Nodes, \A j \in Jobs : Charge(j, n)' = Charge(j, n)
    PROVE  SumOver(Charges(n), Jobs)' = SumOver(Charges(n), Jobs)
<1>1. Charges(n)' = Charges(n)
  BY DEF Charges
<1> QED BY <1>1

\* The steps that touch no job.
LEMMA IdleSteps ==
    ASSUME Undisturbed, ClusterInv, ClusterInv', CustodyInv, TrackerInv,
           \/ Still
           \/ \E k \in Jobs : Takes(k)
           \/ \E S \in SUBSET Jobs : ShakeScan(S) /\ UNCHANGED attempts
           \/ \E i \in Slots : Acknowledge(i)
    PROVE  TrackerInv'
<1>0. /\ TypeOK /\ TypeOK' /\ Quiet /\ ShakeTrue /\ Exact /\ shake \in ShakeType
      /\ attempts \in [Slots -> AttemptType]
      /\ \A j \in Jobs : Standing(j) /\ JobInv(j) /\ Listed(j) /\ timers[j] \in Nat
  BY DEF ClusterInv, TrackerInv, CustodyInv, QueueTrue, Undisturbed, WorkerInv, WorkerTypeOK,
     AttemptType, TypeOK, ShakeOK, ResourceTypeOK
<1>1. ASSUME Quiet', ShakeTrue', UNCHANGED alloc, \A j \in Jobs : Untouched(j),
             \A n \in Nodes : Unreleased(n)' = Unreleased(n)
      PROVE  TrackerInv'
  <2>1. \A j \in Jobs : Standing(j)' /\ \A n \in Nodes : Charge(j, n)' = Charge(j, n)
    BY <1>0, <1>1, UntouchedKept
  <2>2. \A n \in Nodes : SumOver(Charges(n), Jobs)' = SumOver(Charges(n), Jobs)
    BY <1>0, <2>1, ChargesSame
  <2>3. Exact'
    BY <1>0, <1>1, <2>2 DEF Exact
  <2> QED BY <1>1, <2>1, <2>3 DEF TrackerInv
<1>2. CASE Still
  <2>1. ASSUME NEW j \in Jobs PROVE Untouched(j)
    BY <1>0, <1>2 DEF Still, Untouched, Standing, Taken, Marked, Under, Placing, TimedOut, Settles
  <2>2. Quiet' /\ ShakeTrue' /\ \A n \in Nodes : Unreleased(n)' = Unreleased(n)
    BY <1>0, <1>2 DEF Still, Quiet, ShakeTrue, Unreleased
  <2> QED BY <1>1, <1>2, <2>1, <2>2 DEF Still
<1>3. ASSUME NEW k \in Jobs, Takes(k) PROVE TrackerInv'
  <2>1. state[k] = "QUEUED"
    BY <1>0, <1>3 DEF Takes, Listed
  <2>2. ASSUME NEW j \in Jobs PROVE Untouched(j)
    BY <1>0, <1>3, <2>1 DEF Takes, Untouched, Taken, Marked, Under, Placing, TimedOut, Settles,
       Executes
  <2>3. Quiet' /\ ShakeTrue' /\ \A n \in Nodes : Unreleased(n)' = Unreleased(n)
    BY <1>0, <1>3 DEF Takes, Quiet, ShakeTrue, Unreleased
  <2> QED BY <1>1, <1>3, <2>2, <2>3 DEF Takes
<1>4. ASSUME NEW S \in SUBSET Jobs, ShakeScan(S), UNCHANGED attempts PROVE TrackerInv'
  <2>1. /\ shake'.pc = "check" /\ shake'.jobs = S /\ shake.pc = "idle" /\ S \subseteq pending
        /\ pending' \subseteq pending
        /\ UNCHANGED <<state, worker, timers, disp, rpc, alloc, wall, attempts>>
    BY <1>4 DEF ShakeScan, ShakeRest, IdleShake, schedVars
  <2>2. ASSUME NEW j \in Jobs PROVE Untouched(j)
    BY <1>0, <2>1
       DEF Untouched, Standing, Taken, Marked, Under, Placing, TimedOut, Settles, Executes
  <2>3. Quiet' /\ ShakeTrue' /\ \A n \in Nodes : Unreleased(n)' = Unreleased(n)
    BY <1>0, <2>1 DEF Quiet, ShakeTrue, Unreleased
  <2> QED BY <1>1, <2>1, <2>2, <2>3
<1>5. ASSUME NEW i \in Slots, Acknowledge(i) PROVE TrackerInv'
  <2>1. PICK k \in Jobs : k = attempts[i].job /\ attempts[i].pc = "ack"
    BY <1>5 DEF Acknowledge, EndHandshake, ClusterInv, WorkerInv, AttemptsOK, AttemptOK
  <2>2. k \in pending
    BY <1>0, <2>1 DEF JobInv, Single, Travels
  <2>3. /\ pending' \subseteq pending
        /\ UNCHANGED <<state, worker, timers, disp, shake, rpc, alloc, wall>>
    BY <1>5 DEF Acknowledge, AcknowledgeStart, vars, schedVars, resourceVars, procVars
  <2>4. \A s \in Slots, j \in Jobs : Executes(s, j)' => Executes(s, j) \/ j = k
    <3>1. attempts' = [attempts EXCEPT ![i].pc = "start"]
      BY <1>5 DEF Acknowledge, EndHandshake
    <3>2. /\ attempts'[i].job = k /\ \A s \in Slots \ {i} : attempts'[s] = attempts[s]
      BY <1>0, <2>1, <3>1 DEF AttemptType
    <3> QED BY <3>2 DEF Executes
  <2>5. ASSUME NEW j \in Jobs PROVE Untouched(j)
    BY <1>0, <2>2, <2>3, <2>4 DEF Untouched, Standing, Taken, Marked, Under, Placing, TimedOut,
       Settles
  <2>6. Quiet' /\ ShakeTrue' /\ \A n \in Nodes : Unreleased(n)' = Unreleased(n)
    BY <1>0, <2>3 DEF Quiet, ShakeTrue, Unreleased
  <2> QED BY <1>1, <2>3, <2>5, <2>6
<1> QED BY <1>2, <1>3, <1>4, <1>5

\* The timeout enforcer: what it requeues it owes, what it owes it releases.
LEMMA ShakeSteps ==
    ASSUME Undisturbed, ClusterInv, ClusterInv', CustodyInv, TrackerInv, UNCHANGED attempts,
           ShakeRequeue \/ ShakeRelease \/ \E k \in Jobs : ShakeCheck(k)
    PROVE  TrackerInv'
<1>0. /\ TypeOK /\ TypeOK' /\ Quiet /\ ShakeTrue /\ Exact /\ ShakeOK(shake)
      /\ shake \in ShakeType /\ Goroutines /\ alloc \in [Nodes -> Nat]
      /\ state \in [Jobs -> JobStates] /\ worker \in [Jobs -> Nodes \cup {NoNode}]
      /\ UNCHANGED <<disp, rpc, wall, timers, pending, attempts>>
      /\ \A j \in Jobs : Standing(j) /\ JobInv(j) /\ timers[j] \in Nat
      /\ \A S : ShakeRest(S).jobs = S /\ ShakeRest(S).pc \in {"idle", "check"}
  BY DEF ClusterInv, TrackerInv, CustodyInv, TypeOK, ShakeOK, ResourceTypeOK, SchedTypeOK,
     ShakeRequeue, ShakeRelease, ShakeCheck, resourceVars, ShakeRest, IdleShake
<1>1. Quiet'
  BY <1>0 DEF Quiet
<1>2. ASSUME NEW j \in Jobs, UNCHANGED <<state[j], worker[j]>>, TimedOut(j)' => TimedOut(j)
      PROVE  Untouched(j)
  BY <1>0, <1>2 DEF Untouched, Standing, Taken, Marked, Under, Placing, Settles, Executes
<1>3. CASE ShakeRelease
  <2>1. /\ shake'.pc \in {"idle", "check"} /\ shake'.jobs = shake.jobs /\ shake.pc = "release"
        /\ UNCHANGED <<state, worker>> /\ ReleaseIfPlaced(shake.node, shake.job)
    BY <1>0, <1>3 DEF ShakeRelease, schedVars
  <2>2. \A j \in Jobs : Untouched(j)
    BY <1>2, <2>1 DEF TimedOut
  <2>3. \A j \in Jobs : Standing(j)' /\ \A n \in Nodes : Charge(j, n)' = Charge(j, n)
    BY <1>0, <2>2, UntouchedKept
  <2>4. ASSUME NEW n \in Nodes PROVE alloc'[n] = SumOver(Charges(n), Jobs)' + Unreleased(n)'
    <3>1. SumOver(Charges(n), Jobs)' = SumOver(Charges(n), Jobs)
          /\ SumOver(Charges(n), Jobs) \in Nat
      <4>1. PICK j \in Jobs : j = shake.job
        BY <1>0, <2>1 DEF ShakeOK
      <4> QED BY <1>0, <2>3, ChargesSame, ChargesMove
    <3>2. Unreleased(n)' = 0
      BY <2>1 DEF Unreleased
    <3>3. shake.job \in Jobs /\ shake.node \in Nodes /\ Need[shake.job] \in Nat
      BY <1>0, <2>1, ResourceAssumption DEF ShakeOK, ShakeTrue
    <3>4. alloc' = [alloc EXCEPT ![shake.node] = IF @ > Need[shake.job]
                                                 THEN @ - Need[shake.job] ELSE 0]
      BY <2>1, <3>3 DEF ReleaseIfPlaced, Release
    <3>5. alloc[n] = SumOver(Charges(n), Jobs) + Unreleased(n) /\ alloc[n] \in Nat
      BY <1>0 DEF Exact
    <3>6. CASE n = shake.node
      BY <1>0, <2>1, <3>1, <3>2, <3>3, <3>4, <3>5, <3>6 DEF Unreleased
    <3>7. CASE n # shake.node
      BY <1>0, <3>1, <3>2, <3>4, <3>5, <3>7 DEF Unreleased
    <3> QED BY <3>6, <3>7
  <2>5. ShakeTrue' /\ Exact'
    BY <2>1, <2>4 DEF ShakeTrue, Exact
  <2> QED BY <1>1, <2>3, <2>5 DEF TrackerInv
<1>4. ASSUME NEW k \in Jobs, ShakeCheck(k) PROVE TrackerInv'
  <2>1. /\ UNCHANGED <<state, worker, alloc>> /\ shake.pc = "check"
        /\ \A j \in Jobs : TimedOut(j)' => TimedOut(j)
        /\ shake'.pc \in {"idle", "check", "requeue"}
        /\ shake'.pc = "requeue" => shake'.node = worker[shake'.job]
    <3>1. CASE state[k] = "RUNNING"
      BY <1>4, <3>1 DEF ShakeCheck, schedVars, resourceVars, TimedOut
    <3>2. CASE state[k] # "RUNNING"
      BY <1>0, <1>4, <3>2 DEF ShakeCheck, schedVars, resourceVars, TimedOut
    <3> QED BY <3>1, <3>2
  <2>2. \A j \in Jobs : Untouched(j)
    BY <1>2, <2>1
  <2>3. \A j \in Jobs : Standing(j)' /\ \A n \in Nodes : Charge(j, n)' = Charge(j, n)
    BY <1>0, <2>2, UntouchedKept
  <2>4. \A n \in Nodes :
           SumOver(Charges(n), Jobs)' = SumOver(Charges(n), Jobs) /\ Unreleased(n)' = Unreleased(n)
    BY <1>0, <2>1, <2>3, ChargesSame DEF Unreleased
  <2>5. ShakeTrue' /\ Exact'
    BY <1>0, <2>1, <2>4 DEF ShakeTrue, Exact
  <2> QED BY <1>1, <2>3, <2>5 DEF TrackerInv
<1>5. CASE ShakeRequeue
  <2>1. PICK k \in Jobs : k = shake.job
    BY <1>0, <1>5 DEF ShakeRequeue, ShakeOK
  <2>2. shake.pc = "requeue" /\ TimedOut(k) /\ state[k] = "RUNNING" /\ worker[k] \in Nodes
        /\ shake.node = worker[k] /\ k \notin shake.jobs
    BY <1>0, <1>5, <2>1 DEF ShakeRequeue, TimedOut, Standing, Under, ShakeTrue, Goroutines
  <2>3. /\ state' = [state EXCEPT ![k] = "QUEUED"] /\ worker' = [worker EXCEPT ![k] = NoNode]
        /\ shake'.pc = "release" /\ shake'.jobs = shake.jobs /\ shake'.job = k
        /\ shake'.node = worker[k] /\ UNCHANGED alloc
    BY <1>0, <1>5, <2>1, <2>2 DEF ShakeRequeue, RequeueRunningJob, ShakeType, resourceVars
  <2>4. \A j \in Jobs \ {k} : Untouched(j)
    BY <1>0, <1>2, <2>2, <2>3 DEF TimedOut
  <2>5. \A j \in Jobs \ {k} : Standing(j)' /\ \A n \in Nodes : Charge(j, n)' = Charge(j, n)
    BY <1>0, <2>4, UntouchedKept
  <2>6. ~InHand(k) /\ ~Armed(k) /\ k \notin pending /\ \A i \in Slots : ~Executes(i, k)
    BY <1>0, <2>2, Whereabouts DEF JobInv, Single, Only
  <2>7. ~Settling(k) /\ timers[k] = 0
    BY <1>0, <2>2 DEF Standing, Settling
  <2>8. ~Under(k)' /\ ~Taken(k)' /\ ~Settling(k)' /\ ~Marked(k)
    BY <1>0, <2>2, <2>3, <2>6, <2>7
       DEF Under, Taken, Settling, Settles, Placing, InHand, Armed, TimedOut,
           Executes, Marked
  <2>9. Standing(k)' /\ ~Charged(k)' /\ Charged(k)
    BY <1>0, <2>2, <2>3, <2>7, <2>8 DEF Standing, Charged, Settling
  <2>10. ASSUME NEW n \in Nodes PROVE alloc'[n] = SumOver(Charges(n), Jobs)' + Unreleased(n)'
    <3>1. /\ SumOver(Charges(n), Jobs)'
               = SumOver(Charges(n), Jobs) - Charge(k, n) + Charge(k, n)'
          /\ SumOver(Charges(n), Jobs) \in Nat
      BY <1>0, <2>5, ChargesMove
    <3>2. /\ Charge(k, n)' = 0 /\ Charge(k, n) = Unreleased(n)'
          /\ Unreleased(n) = 0 /\ Charge(k, n) \in Nat
      BY <2>2, <2>3, <2>9, ResourceAssumption DEF Charge, Unreleased
    <3> QED BY <1>0, <2>3, <3>1, <3>2 DEF Exact
  <2>11. ShakeTrue' /\ Exact'
    BY <2>2, <2>3, <2>10 DEF ShakeTrue, Exact
  <2> QED BY <1>1, <2>5, <2>9, <2>11 DEF TrackerInv
<1> QED BY <1>3, <1>4, <1>5
\* A step that touches job k alone, and what the tracker must show for it.
LEMMA JobStep ==
    ASSUME TypeOK, TypeOK', TrackerInv, NEW k \in Jobs, Quiet', ShakeTrue', Standing(k)',
           \A j \in Jobs \ {k} : Untouched(j),
           \A n \in Nodes : /\ Unreleased(n)' = Unreleased(n)
                            /\ alloc'[n] = alloc[n] - Charge(k, n) + Charge(k, n)'
    PROVE  TrackerInv'
<1>1. \A j \in Jobs \ {k} : Standing(j)' /\ \A n \in Nodes : Charge(j, n)' = Charge(j, n)
  BY UntouchedKept DEF TrackerInv
<1>2. ASSUME NEW n \in Nodes PROVE alloc'[n] = SumOver(Charges(n), Jobs)' + Unreleased(n)'
  <2>1. /\ SumOver(Charges(n), Jobs)'
             = SumOver(Charges(n), Jobs) - Charge(k, n) + Charge(k, n)'
        /\ SumOver(Charges(n), Jobs) \in Nat
    BY <1>1, ChargesMove
  <2>2. Charge(k, n) \in Nat /\ Charge(k, n)' \in Nat /\ Unreleased(n) \in Nat
    <3>1. shake.pc = "release" => shake.job \in Jobs
      BY DEF TypeOK, ShakeOK
    <3> QED BY <3>1, ResourceAssumption DEF Charge, Unreleased
  <2> QED BY <2>1, <2>2 DEF TrackerInv, Exact
<1> QED BY <1>1, <1>2 DEF TrackerInv, Exact

\* The tracker's two operations, where the charge is known.
LEMMA ReleaseExact ==
    ASSUME TypeOK, TrackerInv, NEW k \in Jobs, worker[k] \in Nodes, Charged(k),
           ReleaseIfPlaced(worker[k], k)
    PROVE  \A n \in Nodes : alloc'[n] = alloc[n] - Charge(k, n)
<1> SUFFICES ASSUME NEW n \in Nodes PROVE alloc'[n] = alloc[n] - Charge(k, n)
  OBVIOUS
<1>1. alloc \in [Nodes -> Nat] /\ Need[k] \in Nat
  BY ResourceAssumption DEF TypeOK, ResourceTypeOK
<1>2. alloc' = [alloc EXCEPT ![worker[k]] = IF @ > Need[k] THEN @ - Need[k] ELSE 0]
  BY DEF ReleaseIfPlaced, Release
<1>3. CASE n = worker[k]
  <2>1. Charge(k, n) = Need[k]
    BY <1>3 DEF Charge
  <2>2. Charge(k, n) <= SumOver(Charges(n), Jobs) /\ SumOver(Charges(n), Jobs) \in Nat
    <3>1. PICK f : f = Charges(n)
      OBVIOUS
    <3>2. \A j \in Jobs : f[j] \in Nat /\ f[j] = Charge(j, n)
      BY <3>1, ResourceAssumption DEF Charges, Charge
    <3>3. SumOver(f, Jobs) = f[k] + SumOver(f, Jobs \ {k})
      BY <3>2, TableAssumption, SumRemove
    <3>4. SumOver(f, Jobs \ {k}) \in Nat
      BY <3>2, TableAssumption, FS_Subset, SumNat
    <3> QED BY <3>1, <3>2, <3>3, <3>4
  <2>3. Unreleased(n) \in Nat
    <3>1. shake.pc = "release" => shake.job \in Jobs
      BY DEF TypeOK, ShakeOK
    <3> QED BY <3>1, ResourceAssumption DEF Unreleased
  <2>4. Need[k] <= alloc[n]
    BY <1>1, <2>1, <2>2, <2>3 DEF TrackerInv, Exact
  <2> QED BY <1>1, <1>2, <1>3, <2>1, <2>4
<1>4. CASE n # worker[k]
  BY <1>1, <1>2, <1>4 DEF Charge
<1> QED BY <1>3, <1>4

\* A job is queued, for the first time or again.
LEMMA QueueingSteps ==
    ASSUME Undisturbed, ClusterInv, ClusterInv', CustodyInv, TrackerInv, UNCHANGED attempts,
           NEW k \in Jobs, SubmitJob(k) \/ RetryFires(k)
    PROVE  TrackerInv'
<1>0. /\ TypeOK /\ TypeOK' /\ Quiet /\ ShakeTrue
      /\ alloc \in [Nodes -> Nat] /\ timers \in [Jobs -> Nat]
      /\ state \in [Jobs -> JobStates] /\ worker \in [Jobs -> Nodes \cup {NoNode}]
      /\ UNCHANGED <<disp, rpc, shake, wall, pending, alloc, attempts>>
      /\ \A j \in Jobs : Standing(j) /\ JobInv(j)
  BY DEF ClusterInv, TrackerInv, CustodyInv, TypeOK, ResourceTypeOK, SchedTypeOK,
     SubmitJob, RetryFires, resourceVars, procVars
<1>1. /\ state' = [state EXCEPT ![k] = "QUEUED"]
      /\ \A j \in Jobs \ {k} : worker'[j] = worker[j] /\ timers'[j] = timers[j]
      /\ state[k] \in {"NONE", "FAILED"}
      /\ timers'[k] = 0 /\ \A c \in Calls : ~Settles(c, k)
  <2>1. CASE SubmitJob(k)
    <3>1. state[k] = "NONE" /\ timers[k] = 0 /\ \A c \in Calls : ~Settles(c, k)
      BY <1>0, <2>1 DEF SubmitJob, Standing
    <3> QED BY <2>1, <3>1 DEF SubmitJob, Enqueue, resourceVars
  <2>2. CASE RetryFires(k)
    <3>1. state[k] = "FAILED" /\ timers[k] = 1 /\ \A c \in Calls : ~Settles(c, k)
      BY <1>0, <2>2, Whereabouts DEF RetryFires, Standing, JobInv, Single, Only
    <3> QED BY <1>0, <2>2, <3>1 DEF RetryFires, Requeue
  <2> QED BY <2>1, <2>2
<1>2. ~Under(k) /\ ~Taken(k)
  BY <1>0, <1>1 DEF Standing
<1>3. ~Under(k)' /\ ~Taken(k)' /\ ~Settling(k)' /\ ~Settling(k)
  BY <1>0, <1>1, <1>2 DEF Under, Taken, Placing, TimedOut, Executes, Settling, Settles
<1>4. Standing(k)' /\ ~Charged(k) /\ ~Charged(k)'
  BY <1>0, <1>1, <1>3 DEF Standing, Charged, Settling
<1>5. ASSUME NEW j \in Jobs \ {k} PROVE Untouched(j)
  BY <1>0, <1>1 DEF Untouched, Standing, Taken, Marked, Under, Placing, TimedOut, Settles, Executes
<1>6. ShakeTrue'
  <2>1. shake.pc = "requeue" => shake.job \in Jobs \ {k}
    BY <1>0, <1>2 DEF TypeOK, ShakeOK, Under, TimedOut
  <2> QED BY <1>0, <1>1, <2>1 DEF ShakeTrue
<1>7. Quiet' /\ \A n \in Nodes : /\ Unreleased(n)' = Unreleased(n)
                                /\ alloc'[n] = alloc[n] - Charge(k, n) + Charge(k, n)'
  BY <1>0, <1>4 DEF Quiet, Unreleased, Charge
<1> QED BY <1>0, <1>4, <1>5, <1>6, <1>7, JobStep

\* dispatchJob marks the job RUNNING first and allocates then.
LEMMA PlacingSteps ==
    ASSUME Undisturbed, ClusterInv, ClusterInv', CustodyInv, TrackerInv, UNCHANGED attempts,
           DispatchMark \/ DispatchArm
    PROVE  TrackerInv'
<1>0. /\ TypeOK /\ TypeOK' /\ Quiet /\ ShakeTrue /\ disp \in DispType
      /\ alloc \in [Nodes -> Nat] /\ timers \in [Jobs -> Nat]
      /\ state \in [Jobs -> JobStates] /\ worker \in [Jobs -> Nodes \cup {NoNode}]
      /\ UNCHANGED <<rpc, shake, wall, timers, attempts>>
      /\ \A j \in Jobs : Standing(j) /\ JobInv(j)
  BY DEF ClusterInv, TrackerInv, CustodyInv, TypeOK, ResourceTypeOK, SchedTypeOK, DispOK,
     DispatchMark, DispatchArm, DispStep, resourceVars
<1>1. PICK k \in Jobs : k = disp.job /\ disp.node \in Nodes
  BY <1>0 DEF DispatchMark, DispatchArm, TypeOK, DispOK
<1>2. disp'.job = k /\ disp'.node = disp.node
  BY <1>0, <1>1 DEF DispatchMark, DispatchArm, DispType
<1>3. Quiet' /\ \A n \in Nodes : Unreleased(n)' = Unreleased(n)
  BY <1>0 DEF Quiet, Unreleased
<1>4. CASE DispatchMark
  <2>1. /\ disp.pc = "taken" /\ disp'.pc = "marked"
        /\ state' = [state EXCEPT ![k] = "RUNNING"] /\ worker' = [worker EXCEPT ![k] = disp.node]
        /\ UNCHANGED <<pending, alloc>>
    BY <1>0, <1>1, <1>4 DEF DispatchMark, MarkRunning, resourceVars, DispType
  <2>2. state[k] = "QUEUED"
    BY <1>0, <1>1, <2>1 DEF Standing, Taken
  <2>3. ~Under(k) /\ timers[k] = 0 /\ \A c \in Calls : ~Settles(c, k)
    BY <1>0, <2>2 DEF Standing
  <2>4. ASSUME NEW j \in Jobs \ {k} PROVE Untouched(j)
    BY <1>0, <1>1, <1>2, <2>1
       DEF Untouched, Taken, Marked, Under, Placing, TimedOut, Settles, Executes
  <2>5. \A c \in Calls : ~Settles(c, k)'
    BY <1>0, <2>3 DEF Settles
  <2>6. Standing(k)'
    BY <1>0, <1>1, <2>1, <2>3, <2>5 DEF Standing, Taken, Settling
  <2>7. ~Charged(k) /\ ~Charged(k)'
    BY <1>1, <1>2, <2>1, <2>2, <2>3, <2>5 DEF Charged, Settling, Marked
  <2>8. ShakeTrue'
    <3>1. shake.pc = "requeue" => shake.job \in Jobs \ {k}
      BY <1>0, <2>3 DEF TypeOK, ShakeOK, Under, TimedOut
    <3> QED BY <1>0, <2>1, <3>1 DEF ShakeTrue
  <2>9. \A n \in Nodes : alloc'[n] = alloc[n] - Charge(k, n) + Charge(k, n)'
    BY <1>0, <2>1, <2>7 DEF Charge
  <2> QED BY <1>0, <1>3, <2>4, <2>6, <2>8, <2>9, JobStep
<1>5. CASE DispatchArm
  <2>1. /\ disp.pc = "marked" /\ disp'.pc = "armed" /\ pending' = pending \cup {k}
        /\ alloc' = [alloc EXCEPT ![disp.node] = @ + Need[k]] /\ UNCHANGED <<state, worker>>
    BY <1>0, <1>1, <1>5 DEF DispatchArm, Allocate, schedVars, DispType
  <2>2. Under(k) /\ state[k] = "RUNNING" /\ worker[k] = disp.node
    BY <1>0, <1>1, <2>1 DEF Standing, Under, Placing, JobInv, Located
  <2>3. ASSUME NEW j \in Jobs \ {k} PROVE Untouched(j)
    BY <1>0, <1>1, <1>2, <2>1
       DEF Untouched, Taken, Marked, Under, Placing, TimedOut, Settles, Executes
  <2>4. \A c \in Calls : ~Settles(c, k) /\ ~Settles(c, k)'
    BY <1>0, <2>2 DEF Standing, Settles
  <2>5. Standing(k)'
    BY <1>0, <2>1, <2>2, <2>4 DEF Standing, Taken, Settling
  <2>6. ~Charged(k) /\ Charged(k)'
    BY <1>1, <1>2, <2>1, <2>2, <2>4 DEF Charged, Settling, Marked
  <2>7. ShakeTrue'
    BY <1>0, <2>1 DEF ShakeTrue
  <2>8. \A n \in Nodes : alloc'[n] = alloc[n] - Charge(k, n) + Charge(k, n)'
    BY <1>0, <2>1, <2>2, <2>6, ResourceAssumption DEF Charge
  <2> QED BY <1>0, <1>3, <2>3, <2>5, <2>7, <2>8, JobStep
<1> QED BY <1>4, <1>5

\* A report passes the charge from the RUNNING job to the handler.
LEMMA ReportStep ==
    ASSUME Undisturbed, ClusterInv, ClusterInv', CustodyInv, TrackerInv,
           NEW i \in Slots, NEW c \in Calls, Report(i, c)
    PROVE  TrackerInv'
<1>0. /\ TypeOK /\ TypeOK' /\ Quiet /\ ShakeTrue /\ rpc \in [Calls -> CallType]
      /\ alloc \in [Nodes -> Nat] /\ timers \in [Jobs -> Nat]
      /\ state \in [Jobs -> JobStates] /\ attempts \in [Slots -> AttemptType]
      /\ UNCHANGED <<worker, disp, shake, wall, timers, pending, alloc>>
      /\ \A j \in Jobs : Standing(j) /\ JobInv(j)
  BY DEF ClusterInv, TrackerInv, CustodyInv, TypeOK, ResourceTypeOK, SchedTypeOK, WorkerInv,
     WorkerTypeOK, AttemptType, Report, ReportResult, MarkCompleted, resourceVars
<1>1. PICK k \in Jobs : k = attempts[i].job /\ attempts[i].pc = "report"
  BY DEF Report, Reported, ClusterInv, WorkerInv, AttemptsOK, AttemptOK
<1>2. Executes(i, k) /\ state[k] = "RUNNING" /\ worker[k] \in Nodes
  BY <1>0, <1>1 DEF Executes, Standing, Under
<1>3. /\ ~InHand(k) /\ ~Armed(k) /\ k \notin pending /\ ~TimedOut(k)
      /\ \A s \in Slots \ {i} : ~Executes(s, k)
  BY <1>0, <1>2, Whereabouts DEF JobInv, Single, Only
<1>4. PICK kind : /\ kind = attempts[i].kind
                  /\ state' = [state EXCEPT ![k] = IF kind = "ok" THEN "COMPLETED" ELSE "FAILED"]
                  /\ rpc[c].pc = "idle"
                  /\ rpc' = [rpc EXCEPT ![c] = [IdleCall EXCEPT !.pc = "settle", !.job = k,
                                  !.node = attempts[i].node, !.kind = kind]]
  BY <1>1, <1>2 DEF Report, ReportResult, MarkCompleted
<1>5. /\ rpc'[c].pc = "settle" /\ rpc'[c].job = k /\ rpc'[c].kind = kind
      /\ \A d \in Calls \ {c} : rpc'[d] = rpc[d]
  BY <1>0, <1>4 DEF IdleCall
<1>6. attempts'[i].pc = "sent" /\ \A s \in Slots \ {i} : attempts'[s] = attempts[s]
  BY <1>0 DEF Report, Reported, AttemptType
<1>7. ASSUME NEW j \in Jobs \ {k} PROVE Untouched(j)
  BY <1>0, <1>4, <1>5, <1>6 DEF Untouched, Standing, Taken, Marked, Under, Placing, TimedOut,
     Settles, Executes
<1>8. ~Under(k)' /\ ~Taken(k)' /\ ~Marked(k)
  BY <1>0, <1>3, <1>6 DEF Under, Placing, Taken, Marked, TimedOut, Executes, InHand, Armed
<1>9. \A d \in Calls : Settles(d, k)' => d = c
  BY <1>0, <1>2, <1>5 DEF Settles, Standing
<1>10. Standing(k)'
  BY <1>0, <1>2, <1>4, <1>5, <1>8, <1>9 DEF Standing, Settling
<1>11. Charged(k) /\ Charged(k)'
  BY <1>2, <1>5, <1>8 DEF Charged, Settling, Settles
<1>12. \A n \in Nodes : /\ Unreleased(n)' = Unreleased(n)
                        /\ alloc'[n] = alloc[n] - Charge(k, n) + Charge(k, n)'
  BY <1>0, <1>11, ResourceAssumption DEF Unreleased, Charge
<1>13. Quiet' /\ ShakeTrue'
  BY <1>0, <1>5 DEF Quiet, ShakeTrue
<1> QED BY <1>0, <1>7, <1>10, <1>12, <1>13, JobStep

\* The handler releases what the job was charged, and only it does.
LEMMA SettleStep ==
    ASSUME Undisturbed, ClusterInv, ClusterInv', CustodyInv, TrackerInv, UNCHANGED attempts,
           NEW c \in Calls, SettleReport(c)
    PROVE  TrackerInv'
<1>0. /\ TypeOK /\ TypeOK' /\ Quiet /\ ShakeTrue /\ rpc \in [Calls -> CallType]
      /\ alloc \in [Nodes -> Nat] /\ timers \in [Jobs -> Nat] /\ Groups = {}
      /\ UNCHANGED <<state, worker, disp, shake, wall, pending, attempts>>
      /\ \A j \in Jobs : Standing(j) /\ JobInv(j)
  BY DEF ClusterInv, TrackerInv, CustodyInv, TypeOK, ResourceTypeOK, SettleReport, schedVars,
     Undisturbed
<1>1. PICK k \in Jobs : k = rpc[c].job /\ Settles(c, k)
  BY <1>0 DEF SettleReport, TypeOK, CallOK, Settles
<1>2. /\ \A d \in Calls \ {c} : ~Settles(d, k)
      /\ worker[k] \in Nodes /\ Charged(k)
      /\ state[k] = IF rpc[c].kind = "ok" THEN "COMPLETED" ELSE "FAILED"
  BY <1>0, <1>1 DEF JobInv, Single, Standing, Settling, Charged
<1>3. /\ ReleaseIfPlaced(worker[k], k)
      /\ timers' = IF rpc[c].kind # "ok" /\ RetryAllowed(k)
                   THEN [timers EXCEPT ![k] = @ + 1] ELSE timers
      /\ rpc' = [rpc EXCEPT ![c] = IdleCall]
  BY <1>0, <1>1 DEF SettleReport
<1>4. /\ rpc'[c].pc = "idle" /\ rpc'[c].job = NoJob
      /\ \A d \in Calls \ {c} : rpc'[d] = rpc[d]
  BY <1>0, <1>3 DEF IdleCall
<1>5. ASSUME NEW j \in Jobs \ {k} PROVE Untouched(j)
  BY <1>0, <1>1, <1>3, <1>4 DEF Untouched, Standing, Taken, Marked, Under, Placing, TimedOut,
     Settles, Executes
<1>6. \A d \in Calls : ~Settles(d, k)'
  BY <1>2, <1>4 DEF Settles
<1>7. ~Under(k)' /\ ~Taken(k)'
  BY <1>0, <1>2 DEF Standing, Under, Placing, Taken, TimedOut, Executes
<1>8. timers'[k] > 0 => state[k] = "FAILED"
  BY <1>0, <1>2, <1>3 DEF Standing
<1>9. Standing(k)'
  BY <1>0, <1>2, <1>6, <1>7, <1>8 DEF Standing, Settling
<1>10. ~Charged(k)'
  BY <1>0, <1>2, <1>6 DEF Charged, Settling
<1>11. \A n \in Nodes : alloc'[n] = alloc[n] - Charge(k, n) + Charge(k, n)'
  <2>1. \A n \in Nodes : /\ alloc'[n] = alloc[n] - Charge(k, n) /\ alloc[n] \in Nat
                         /\ Charge(k, n)' = 0 /\ Charge(k, n) \in Nat
    BY <1>0, <1>2, <1>3, <1>10, ReleaseExact, ResourceAssumption DEF Charge
  <2> QED BY <2>1
<1>12. Quiet' /\ ShakeTrue' /\ \A n \in Nodes : Unreleased(n)' = Unreleased(n)
  BY <1>0, <1>4 DEF Quiet, ShakeTrue, Unreleased
<1> QED BY <1>0, <1>5, <1>9, <1>11, <1>12, JobStep

\* Every step keeps the tracker exact.
LEMMA TrackerNext ==
    ASSUME Undisturbed, ClusterInv, ClusterInv', CustodyInv, TrackerInv,
           [ClusterNext]_clusterVars
    PROVE  TrackerInv'
<1>1. \/ Still
      \/ \E k \in Jobs : Takes(k)
      \/ MasterSteps /\ UNCHANGED attempts
      \/ \E i \in Slots : Acknowledge(i)
      \/ \E i \in Slots, c \in Calls : Report(i, c)
  BY QuietSteps DEF TrackerInv
<1>2. CASE MasterSteps /\ UNCHANGED attempts
  BY <1>2, IdleSteps, ShakeSteps, QueueingSteps, PlacingSteps, SettleStep DEF MasterSteps
<1> QED BY <1>1, <1>2, IdleSteps, ReportStep

\* A new tracker is exact.
LEMMA TrackerInit ==
    ASSUME ClusterInit PROVE TrackerInv
<1>1. /\ wall = IdleWall /\ rpc = [c \in Calls |-> IdleCall] /\ disp = IdleDisp
      /\ shake = IdleShake /\ pending = {} /\ attempts = [i \in Slots |-> NoAttempt]
      /\ state = [j \in Jobs |-> "NONE"] /\ timers = [j \in Jobs |-> 0]
      /\ alloc = [n \in Nodes |-> 0] /\ worker = [j \in Jobs |-> NoNode]
  BY DEF ClusterInit, Init, SchedInit, WorkerInit
<1>2. Quiet /\ ShakeTrue /\ \A n \in Nodes : Unreleased(n) = 0
  BY <1>1 DEF Quiet, ShakeTrue, Unreleased, IdleWall, IdleCall, IdleShake
<1>3. \A j \in Jobs : Standing(j) /\ ~Charged(j)
  BY <1>1 DEF Standing, Charged, Taken, Under, Settling, Settles, Placing, TimedOut, Executes,
     IdleDisp, IdleShake, IdleCall, NoAttempt
<1>4. ASSUME NEW n \in Nodes PROVE SumOver(Charges(n), Jobs) = 0
  <2>1. PICK f : f = Charges(n)
    OBVIOUS
  <2>2. \A j \in Jobs : f[j] = 0 /\ f[j] \in Nat
    BY <1>3, <2>1 DEF Charges, Charge
  <2>3. SumOver(f, Jobs) = SumOver(f, {})
    BY <2>2, TableAssumption, SumSupport
  <2> QED BY <2>1, <2>3, SumEmpty
<1> QED BY <1>1, <1>2, <1>3, <1>4 DEF TrackerInv, Exact

\* The invariants hold together.
LEMMA TrackerHolds ==
    ASSUME Undisturbed
    PROVE  ClusterSafety => [](ClusterInv /\ CustodyInv /\ TrackerInv)
<1>1. OnTime
  BY DEF Undisturbed
<1>2. ClusterInv /\ ClusterInv' /\ CustodyInv /\ TrackerInv /\ [ClusterNext]_clusterVars
         => TrackerInv'
  BY TrackerNext
<1>3. ClusterInit => TrackerInv
  BY TrackerInit
<1> QED BY <1>1, <1>2, <1>3, CustodyHolds, PTL DEF ClusterSafety

\* Between steps of the master the charges are those of the running jobs.
LEMMA TrackerAdds == ClusterInv /\ TrackerInv => TrackerExact
<1> SUFFICES ASSUME ClusterInv, TrackerInv, MasterIdle, NEW n \in Nodes
             PROVE  alloc[n] = SumFunction([j \in RunningJobsOnNode(n) |-> Need[j]])
  BY DEF TrackerExact
<1>1. PICK R : R = RunningJobsOnNode(n)
  OBVIOUS
<1>2. PICK f : f = [j \in R |-> Need[j]]
  OBVIOUS
<1>3. PICK g : g = Charges(n)
  OBVIOUS
<1>4. \A j \in Jobs : g[j] = IF j \in R THEN Need[j] ELSE 0
  BY <1>1, <1>3
     DEF Charges, Charge, Charged, RunningJobsOnNode, Marked, Settling, Settles, MasterIdle
<1>5. R \subseteq Jobs /\ \A j \in Jobs : g[j] \in Nat
  BY <1>1, <1>4, ResourceAssumption DEF RunningJobsOnNode
<1>6. SumOver(g, Jobs) = SumOver(g, R)
  BY <1>4, <1>5, TableAssumption, SumSupport
<1>7. \A j \in R : f[j] \in Nat /\ g[j] = f[j]
  BY <1>2, <1>4, <1>5
<1>8. SumOver(f, R) = SumOver(g, R) /\ SumOver(f, R) \in Nat
  BY <1>5, <1>7, TableAssumption, FS_Subset, SumSame, SumNat
<1>9. SumFunction(f) = SumOver(f, R)
  BY <1>2, SumFunctionIsSum
<1>10. Unreleased(n) = 0
  BY DEF Unreleased, MasterIdle
<1> QED BY <1>1, <1>2, <1>3, <1>6, <1>8, <1>9, <1>10 DEF TrackerInv, Exact

\* Between two steps of the master's goroutines the GPU tracker holds, for each
\* node, exactly what its RUNNING jobs need: what dispatchJob allocated,
\* ReportResult or the dispatch timeout enforcer released, once.
THEOREM TrackerIsExact ==
    ASSUME Undisturbed
    PROVE  ClusterSafety => []TrackerExact
BY TrackerHolds, TrackerAdds, PTL
-----------------------------------------------------------------------------
(* What the tracker is for *)

\* What runs on a node is charged there, each job once.
LEMMA LoadCharged ==
    ASSUME ClusterInv, CustodyInv, TrackerInv, NEW n \in Nodes
    PROVE  Load(n) \in Nat /\ Load(n) <= alloc[n]
<1>0. /\ attempts \in [Slots -> AttemptType] /\ alloc \in [Nodes -> Nat] /\ Need \in [Jobs -> Nat]
      /\ \A j \in Jobs : JobInv(j) /\ Standing(j)
  BY ResourceAssumption
     DEF ClusterInv, WorkerInv, WorkerTypeOK, AttemptType, TypeOK, ResourceTypeOK,
         CustodyInv, TrackerInv
<1>1. PICK A : A = Running(n)
  OBVIOUS
<1>2. A \subseteq Slots /\ IsFiniteSet(A)
  <2>1. IsFiniteSet(Slots)
    BY LiveAssumption, FS_Interval DEF Slots
  <2>2. A \subseteq Slots
    BY <1>1 DEF Running
  <2> QED BY <2>1, <2>2, FS_Subset
<1>3. \A i \in A : /\ attempts[i].job \in Jobs /\ Executes(i, attempts[i].job)
                   /\ attempts[i].node = n
  BY <1>1, <1>2 DEF Running, Executes, ClusterInv, WorkerInv, AttemptsOK, AttemptOK
<1>4. PICK h : h = [i \in A |-> attempts[i].job]
  OBVIOUS
<1>5. PICK f : f = [i \in A |-> Need[attempts[i].job]]
  OBVIOUS
<1>6. PICK g : g = Charges(n)
  OBVIOUS
<1>7. h \in [A -> Jobs] /\ \A x, y \in A : h[x] = h[y] => x = y
  BY <1>0, <1>2, <1>3, <1>4 DEF JobInv, Single
<1>8. \A j \in Jobs : g[j] \in Nat
  BY <1>0, <1>6 DEF Charges, Charge
<1>9. \A i \in A : f[i] \in Nat /\ f[i] <= g[h[i]]
  <2> SUFFICES ASSUME NEW i \in A PROVE f[i] \in Nat /\ f[i] <= g[h[i]]
    OBVIOUS
  <2>1. PICK j \in Jobs : j = attempts[i].job
    BY <1>3
  <2>2. Executes(i, j) /\ state[j] = "RUNNING" /\ worker[j] = n
    BY <1>0, <1>2, <1>3, <2>1 DEF Standing, Under, JobInv, Located
  <2>3. ~Marked(j)
    BY <1>0, <1>2, <2>2, Whereabouts DEF JobInv, Only, InHand, Marked
  <2>4. g[j] = Need[j]
    BY <1>6, <2>2, <2>3 DEF Charges, Charge, Charged
  <2>5. f[i] = Need[j] /\ h[i] = j /\ Need[j] \in Nat
    BY <1>0, <1>4, <1>5, <2>1
  <2> QED BY <2>4, <2>5
<1>10. SumOver(f, A) <= SumOver(g, Jobs)
  BY <1>2, <1>7, <1>8, <1>9, TableAssumption, SumInjective
<1>11. SumOver(f, A) \in Nat /\ SumOver(g, Jobs) \in Nat
  BY <1>2, <1>8, <1>9, TableAssumption, SumNat
<1>12. Load(n) = SumOver(f, A)
  BY <1>1, <1>5, SumFunctionIsSum DEF Load
<1>13. Unreleased(n) \in Nat
  <2>1. shake.pc = "release" => shake.job \in Jobs
    BY DEF ClusterInv, TypeOK, ShakeOK
  <2> QED BY <1>0, <2>1 DEF Unreleased
<1>14. alloc[n] = SumOver(g, Jobs) + Unreleased(n)
  BY <1>6 DEF TrackerInv, Exact
<1> QED BY <1>10, <1>11, <1>12, <1>13, <1>14

\* What the commands running on a node need is allocated on it all the time they
\* run, whatever their sizes: dispatchJob allocates before the command starts,
\* and neither ReportResult nor the dispatch timeout enforcer releases anything
\* that a running command still needs.
THEOREM RunningIsAllocated ==
    ASSUME Undisturbed
    PROVE  ClusterSafety => [](\A n \in Nodes : Load(n) <= alloc[n])
<1>1. ClusterInv /\ CustodyInv /\ TrackerInv => \A n \in Nodes : Load(n) <= alloc[n]
  BY LoadCharged
<1> QED BY <1>1, TrackerHolds, PTL
=============================================================================
