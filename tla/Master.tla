------------------------------- MODULE Master -------------------------------
(***************************************************************************)
(* The master daemon (internal/daemon/master.go): the gRPC handlers, the   *)
(* dispatch loop, the walltime enforcer, the dispatch-timeout enforcer,    *)
(* the retry goroutines and the gossip callback, all running at once over  *)
(* one GlobalScheduler, one circuit breaker and one resource tracker.      *)
(*                                                                         *)
(* An action is one critical section of one goroutine together with the    *)
(* lock-free code after it; whatever a goroutine read in one critical      *)
(* section and uses in a later one is kept in its record, so it can be     *)
(* stale by then.  Workers are an open environment here: any known job may *)
(* be reported or acknowledged by any node at any time, any node may join  *)
(* or leave.  Module Cluster closes it with the workers of worker.go.      *)
(*                                                                         *)
(* A definition introduced as a "Variant" is a wrong version of the one    *)
(* after it; no specification uses it.  PROJECT.json says which property   *)
(* fails when it takes the other's place.                                  *)
(***************************************************************************)
EXTENDS GlobalScheduler, CircuitBreaker

CONSTANTS
    Calls,      \* gRPC handler goroutines
    Need,       \* what a job asks for, in the one resource modelled
    Cap,        \* what a node advertises of it
    Match,      \* pairs <<job, node>> whose CEL expression holds
    WallJobs,   \* jobs with WalltimeSeconds > 0
    Kinds       \* outcomes a worker may report: "ok", "user", "infra"

ASSUME ResourceAssumption == Need \in [Jobs -> Nat] /\ Cap \in [Nodes -> Nat]
ASSUME MatchAssumption == Match \subseteq Jobs \X Nodes
ASSUME KindAssumption == Kinds \subseteq {"ok", "user", "infra"}
\* SubmitDistributedJob makes at least one rank, and gives every rank the same
\* requirement and resources.
ASSUME RanksAssumption ==
    \A g \in Groups :
       /\ Ranks(g) # {}
       /\ \A i, j \in Ranks(g) :
             /\ Need[i] = Need[j]
             /\ \A n \in Nodes : <<i, n>> \in Match <=> <<j, n>> \in Match

VARIABLES
    members,   \* gossip members with a ClassAd: the workers (external)
    pending,   \* keys of dispatchPending
    alloc,     \* gpuTracker: units allocated per node
    timers,    \* retry goroutines waiting out their backoff, per job
    dead,      \* dead letters in the store
    submit,    \* SubmitDistributedJob call of each group: "no", "on", "done"
    aged,      \* groups created more than gangTimeout ago
    rpc,       \* CancelJob and ReportResult handlers
    disp,      \* dispatchLoop
    gossip,    \* hooks.OnLeave
    wall,      \* walltimeEnforcer
    shake      \* dispatchTimeoutEnforcer

procVars == <<rpc, disp, gossip, wall, shake>>
resourceVars == <<members, pending, alloc, timers, dead, submit, aged>>
vars == <<schedVars, breakerVars, resourceVars, procVars>>

MaybeJob == Jobs \cup {NoJob}
MaybeNode == Nodes \cup {NoNode}
NoPlan == [j \in Jobs |-> NoNode]

IdleCall == [pc |-> "idle", job |-> NoJob, node |-> NoNode, kind |-> "ok",
             todo |-> {}, victim |-> NoJob]
IdleDisp == [pc |-> "idle", groups |-> {}, group |-> NoGroup, left |-> {},
             plan |-> NoPlan, job |-> NoJob, node |-> NoNode, nodes |-> {}]
IdleGossip == [pc |-> "idle", node |-> NoNode, jobs |-> {}, job |-> NoJob]
IdleWall == [pc |-> "idle", late |-> {}, job |-> NoJob, node |-> NoNode]
IdleShake == [pc |-> "idle", jobs |-> {}, job |-> NoJob, node |-> NoNode]

CallType ==
    [pc : {"idle", "cancel", "settle", "group", "abort", "victim", "close"},
     job : MaybeJob, node : MaybeNode, kind : {"ok", "user", "infra"},
     todo : SUBSET Jobs, victim : MaybeJob]
DispType ==
    [pc : {"idle", "gang", "expire", "rank", "run", "select", "picked",
           "backfill", "taken", "marked", "armed"},
     groups : SUBSET Groups, group : Groups \cup {NoGroup},
     left : SUBSET Jobs, plan : [Jobs -> MaybeNode],
     job : MaybeJob, node : MaybeNode, nodes : SUBSET Nodes]
GossipType ==
    [pc : {"idle", "release", "mark", "group"}, node : MaybeNode,
     jobs : SUBSET Jobs, job : MaybeJob]
WallType ==
    [pc : {"idle", "kill", "release"}, late : SUBSET (Jobs \X MaybeNode),
     job : MaybeJob, node : MaybeNode]
ShakeType ==
    [pc : {"idle", "check", "requeue", "release"}, jobs : SUBSET Jobs,
     job : MaybeJob, node : MaybeNode]

\* A goroutine's record has its type and holds what its next step uses.
CallOK(r) ==
    /\ r \in CallType
    /\ r.pc \in {"settle", "group", "abort", "victim", "close"} => r.job \in Jobs
    /\ r.pc = "settle" => r.node \in Nodes
    /\ r.pc \in {"cancel", "victim"} => r.victim \in Jobs
    /\ r.pc \in {"group", "abort", "victim", "close"} => GroupOf[r.job] \in Groups

DispOK(d) ==
    /\ d \in DispType
    /\ d.pc \in {"taken", "marked", "armed"} => d.job \in Jobs /\ d.node \in Nodes
    /\ d.pc \in {"expire", "rank", "run"} => d.group \in Groups
    /\ \A j \in d.left : d.pc # "expire" => d.plan[j] \in Nodes
    /\ d.pc = "rank" => d.left # {}
    /\ d.pc = "picked" => d.node \in Nodes

GossipOK(x) ==
    /\ x \in GossipType
    /\ x.pc # "idle" => x.node \in Nodes
    /\ x.pc \in {"mark", "group"} => x.job \in Jobs
    /\ x.pc = "group" => GroupOf[x.job] \in Groups

WallOK(w) == w \in WallType /\ (w.pc = "release" => w.job \in Jobs)

ShakeOK(x) == x \in ShakeType /\ (x.pc \in {"requeue", "release"} => x.job \in Jobs)

ResourceTypeOK ==
    /\ members \in SUBSET Nodes
    /\ pending \in SUBSET Jobs
    /\ alloc \in [Nodes -> Nat]
    /\ timers \in [Jobs -> Nat]
    /\ dead \in SUBSET Jobs
    /\ submit \in [Groups -> {"no", "on", "done"}]
    /\ aged \in SUBSET Groups

\* Every variable has its type, index-carrying jobs are in the heap, and every
\* goroutine holds what its next step needs.
TypeOK ==
    /\ SchedTypeOK /\ BreakerTypeOK /\ ResourceTypeOK
    /\ rpc \in [Calls -> CallType] /\ \A c \in Calls : CallOK(rpc[c])
    /\ DispOK(disp) /\ GossipOK(gossip) /\ WallOK(wall) /\ ShakeOK(shake)

Init ==
    /\ SchedInit
    /\ BreakerInit
    /\ members = Nodes
    /\ pending = {}
    /\ alloc = [n \in Nodes |-> 0]
    /\ timers = [j \in Jobs |-> 0]
    /\ dead = {}
    /\ submit = [g \in Groups |-> "no"]
    /\ aged = {}
    /\ rpc = [c \in Calls |-> IdleCall]
    /\ disp = IdleDisp
    /\ gossip = IdleGossip
    /\ wall = IdleWall
    /\ shake = IdleShake

-----------------------------------------------------------------------------
(* The resource tracker *)

Allocate(n, j) == alloc' = [alloc EXCEPT ![n] = @ + Need[j]]

\* Deducts and clamps at zero; nothing records what is still owed.
Release(n, j) ==
    alloc' = [alloc EXCEPT ![n] = IF @ > Need[j] THEN @ - Need[j] ELSE 0]

\* if job.WorkerNode != "" { Release }
ReleaseIfPlaced(n, j) ==
    \/ n \in Nodes /\ Release(n, j)
    \/ n \notin Nodes /\ UNCHANGED alloc

canDispatchResources(j, n) == Need[j] > 0 => alloc[n] + Need[j] <= Cap[n]

\* The test every placement applies to a node of its snapshot of the members.
Fits(j, n) ==
    ~IsBlocked(n) /\ canDispatchResources(j, n) /\ <<j, n>> \in Match

-----------------------------------------------------------------------------
(* Submission *)

SubmitJob(j) ==
    /\ state[j] = "NONE" /\ GroupOf[j] = NoGroup
    /\ Enqueue(j)
    /\ UNCHANGED <<breakerVars, resourceVars, procVars>>

Unsubmitted(g) == {j \in Ranks(g) : state[j] = "NONE"}

\* The ranks are enqueued one by one, each under its own lock, in rank order.
SubmitRank(g) ==
    /\ submit[g] # "done" /\ Unsubmitted(g) # {}
    /\ Enqueue(First(Unsubmitted(g)))
    /\ submit' = [submit EXCEPT ![g] = "on"]
    /\ UNCHANGED <<members, pending, alloc, timers, dead, aged>>
    /\ UNCHANGED <<breakerVars, procVars>>

\* A full queue ends the call; ranks already enqueued stay, and the group is
\* never registered.
SubmitRankFails(g) ==
    /\ submit[g] # "done" /\ Unsubmitted(g) # {}
    /\ QueueFull
    /\ submit' = [submit EXCEPT ![g] = "done"]
    /\ UNCHANGED <<members, pending, alloc, timers, dead, aged>>
    /\ UNCHANGED <<schedVars, breakerVars, procVars>>

SubmitRegister(g) ==
    /\ submit[g] = "on" /\ Unsubmitted(g) = {}
    /\ RegisterGroup(g)
    /\ submit' = [submit EXCEPT ![g] = "done"]
    /\ UNCHANGED <<members, pending, alloc, timers, dead, aged>>
    /\ UNCHANGED <<breakerVars, procVars>>

-----------------------------------------------------------------------------
(* CancelJob *)

\* The first half of CancelJob; a call Cancel refuses changes nothing.
CancelJob(c, j) ==
    /\ rpc[c].pc = "idle"
    /\ Cancel(j)
    /\ rpc' = [rpc EXCEPT ![c] = [IdleCall EXCEPT !.pc = "cancel", !.victim = j]]
    /\ UNCHANGED <<breakerVars, resourceVars, disp, gossip, wall, shake>>

\* Cancel copies the job after it has unlocked gs.mu, so the node released
\* and told to kill is the one in the job by now.
FinishCancel(c) ==
    /\ rpc[c].pc = "cancel"
    /\ ReleaseIfPlaced(worker[rpc[c].victim], rpc[c].victim)
    /\ rpc' = [rpc EXCEPT ![c] = IdleCall]
    /\ UNCHANGED <<members, pending, timers, dead, submit, aged>>
    /\ UNCHANGED <<schedVars, breakerVars, disp, gossip, wall, shake>>

-----------------------------------------------------------------------------
(* ReportResult *)

ReportResult(c, j, n, kind) ==
    /\ rpc[c].pc = "idle"
    /\ MarkCompleted(j, IF kind = "ok" THEN "none" ELSE "report")
    /\ rpc' = [rpc EXCEPT ![c] = [IdleCall EXCEPT !.pc = "settle", !.job = j,
                                                  !.node = n, !.kind = kind]]
    /\ UNCHANGED <<breakerVars, resourceVars, disp, gossip, wall, shake>>

\* Variant: one retry too many.
RetryAllowedOnceMore(j) == GroupOf[j] = NoGroup /\ retries[j] <= MaxRetries

RetryAllowed(j) == GroupOf[j] = NoGroup /\ retries[j] < MaxRetries

Exhausted(j) == GroupOf[j] = NoGroup /\ MaxRetries > 0 /\ retries[j] >= MaxRetries

\* Variant: the last retry is not scheduled.
SettleReportShort(c) ==
    LET r == rpc[c]
        retry == r.kind # "ok" /\ GroupOf[r.job] = NoGroup /\ retries[r.job] + 1 < MaxRetries
    IN
    /\ r.pc = "settle"
    /\ ReleaseIfPlaced(worker[r.job], r.job)
    /\ timers' = IF retry THEN [timers EXCEPT ![r.job] = @ + 1] ELSE timers
    /\ rpc' = [rpc EXCEPT ![c] = IdleCall]
    /\ UNCHANGED <<members, pending, submit, aged, dead, breakerVars>>
    /\ UNCHANGED <<schedVars, disp, gossip, wall, shake>>

\* From GetJob to the retry decision: the allocation of the node now in the
\* job is released, the breaker hears of the node in the request.
SettleReport(c) ==
    LET r == rpc[c]
        retry == r.kind # "ok" /\ RetryAllowed(r.job)
    IN
    /\ r.pc = "settle"
    /\ ReleaseIfPlaced(worker[r.job], r.job)
    /\ \/ r.kind = "ok" /\ RecordSuccess(r.node)
       \/ r.kind = "user" /\ UNCHANGED breakerVars
       \/ r.kind = "infra" /\ RecordFailure(r.node, r.job)
    /\ timers' = IF retry THEN [timers EXCEPT ![r.job] = @ + 1] ELSE timers
    /\ dead' = IF r.kind # "ok" /\ Exhausted(r.job) THEN dead \cup {r.job} ELSE dead
    /\ rpc' = [rpc EXCEPT ![c] = IF GroupOf[r.job] \in Groups
                                 THEN [r EXCEPT !.pc = "group"] ELSE IdleCall]
    /\ UNCHANGED <<members, pending, submit, aged>>
    /\ UNCHANGED <<schedVars, disp, gossip, wall, shake>>

\* A rank counts as done when it is neither QUEUED nor RUNNING: FAILED and
\* CANCELLED ranks count.
AllDone(g) == \A j \in Ranks(g) : state[j] \notin {"QUEUED", "RUNNING"}

\* handleGroupCompletion up to its decision.
HandleGroup(c) ==
    LET r == rpc[c]
        g == GroupOf[r.job]
        open == group[g] \in {"PENDING", "RUNNING"}
    IN
    /\ r.pc = "group"
    /\ rpc' = [rpc EXCEPT ![c] =
          CASE open /\ r.kind # "ok" ->
                  [r EXCEPT !.pc = "abort", !.todo = Ranks(g) \ {r.job}]
            [] open /\ r.kind = "ok" /\ AllDone(g) -> [r EXCEPT !.pc = "close"]
            [] OTHER -> IdleCall]
    /\ UNCHANGED <<schedVars, breakerVars, resourceVars>>
    /\ UNCHANGED <<disp, gossip, wall, shake>>

\* One sibling of a failed rank.
AbortRank(c) ==
    LET r == rpc[c]
        v == First(r.todo)
    IN
    /\ r.pc = "abort" /\ r.todo # {}
    /\ \/ /\ Cancel(v)
          /\ rpc' = [rpc EXCEPT ![c] = [r EXCEPT !.pc = "victim", !.victim = v,
                                                 !.todo = @ \ {v}]]
       \/ /\ ~Cancellable(v)
          /\ UNCHANGED schedVars
          /\ rpc' = [rpc EXCEPT ![c] = [r EXCEPT !.todo = @ \ {v}]]
    /\ UNCHANGED <<breakerVars, resourceVars, disp, gossip, wall, shake>>

AbortVictim(c) ==
    /\ rpc[c].pc = "victim"
    /\ ReleaseIfPlaced(worker[rpc[c].victim], rpc[c].victim)
    /\ rpc' = [rpc EXCEPT ![c] = [@ EXCEPT !.pc = "abort", !.victim = NoJob]]
    /\ UNCHANGED <<members, pending, timers, dead, submit, aged>>
    /\ UNCHANGED <<schedVars, breakerVars, disp, gossip, wall, shake>>

\* SetGroupState at the end of either branch of handleGroupCompletion.
CloseGroup(c) ==
    LET r == rpc[c] IN
    /\ \/ r.pc = "abort" /\ r.todo = {} /\ SetGroupState(GroupOf[r.job], "FAILED")
       \/ r.pc = "close" /\ SetGroupState(GroupOf[r.job], "COMPLETED")
    /\ rpc' = [rpc EXCEPT ![c] = IdleCall]
    /\ UNCHANGED <<breakerVars, resourceVars, disp, gossip, wall, shake>>

\* The retry goroutine's timer fires.
RetryFires(j) ==
    /\ timers[j] > 0
    /\ Requeue(j)
    /\ timers' = [timers EXCEPT ![j] = @ - 1]
    /\ UNCHANGED <<members, pending, alloc, dead, submit, aged>>
    /\ UNCHANGED <<breakerVars, procVars>>

\* Variant: the entry is looked up but not deleted.
AcknowledgeStartKeeps(j) == j \in pending /\ UNCHANGED vars

\* POST /acknowledge_start: keyed by the job alone; 404 changes nothing.
AcknowledgeStart(j) ==
    /\ j \in pending
    /\ pending' = pending \ {j}
    /\ UNCHANGED <<members, alloc, timers, dead, submit, aged>>
    /\ UNCHANGED <<schedVars, breakerVars, procVars>>

-----------------------------------------------------------------------------
(* dispatchLoop *)

DispStep == UNCHANGED <<rpc, gossip, wall, shake>>

\* Where phase 0 goes once the current group is dealt with.
NextGroup(gs) ==
    [IdleDisp EXCEPT !.pc = IF gs = {} THEN "select" ELSE "gang", !.groups = gs]

Tick ==
    /\ disp.pc = "idle"
    /\ disp' = NextGroup(PendingGroups)
    /\ UNCHANGED <<schedVars, breakerVars, resourceVars>> /\ DispStep

\* Five minutes pass since a group was created.
GroupAges(g) ==
    /\ group[g] = "PENDING" /\ g \notin aged
    /\ aged' = aged \cup {g}
    /\ UNCHANGED <<members, pending, alloc, timers, dead, submit>>
    /\ UNCHANGED <<schedVars, breakerVars, procVars>>

GangTimeout(g) ==
    /\ disp.pc = "gang" /\ g \in disp.groups /\ g \in aged
    /\ disp' = [IdleDisp EXCEPT !.pc = "expire", !.groups = disp.groups \ {g},
                                !.group = g, !.left = Ranks(g)]
    /\ UNCHANGED <<schedVars, breakerVars, resourceVars>> /\ DispStep

\* Cancel's answer is ignored: no release, no message to a worker.
ExpireRank ==
    LET j == First(disp.left) IN
    /\ disp.pc = "expire" /\ disp.left # {}
    /\ Cancel(j) \/ (~Cancellable(j) /\ UNCHANGED schedVars)
    /\ disp' = [disp EXCEPT !.left = @ \ {j}]
    /\ UNCHANGED <<breakerVars, resourceVars>> /\ DispStep

\* Variant: the group keeps its state.
ExpireGroupPending ==
    /\ disp.pc = "expire" /\ disp.left = {}
    /\ disp' = NextGroup(disp.groups)
    /\ UNCHANGED <<schedVars, breakerVars, resourceVars>> /\ DispStep

ExpireGroup ==
    /\ disp.pc = "expire" /\ disp.left = {}
    /\ SetGroupState(disp.group, "FAILED")
    /\ disp' = NextGroup(disp.groups)
    /\ UNCHANGED <<breakerVars, resourceVars>> /\ DispStep

AllQueued(g) == \A j \in Ranks(g) : state[j] = "QUEUED"

\* One node for each rank, no node twice.
Plans(g) == Injection(Ranks(g), {n \in members : \A j \in Ranks(g) : Fits(j, n)})

\* tryDispatchGroup when it finds a node for every rank.  The breaker entries
\* of some nodes are looked at, those of the chosen ones for certain.
PlanGang(g) ==
    /\ disp.pc = "gang" /\ g \in disp.groups /\ g \notin aged
    /\ AllQueued(g)
    /\ \E f \in Plans(g), seen \in SUBSET Overdue(members) :
          /\ Overdue(Range(f)) \subseteq seen
          /\ LookAt(seen)
          /\ disp' = [IdleDisp EXCEPT
                         !.pc = "rank", !.groups = disp.groups \ {g},
                         !.group = g, !.left = Ranks(g),
                         !.plan = [j \in Jobs |-> IF j \in Ranks(g) THEN f[j] ELSE NoNode]]
    /\ UNCHANGED <<schedVars, resourceVars>> /\ DispStep

\* tryDispatchGroup when it returns without dispatching.
SkipGang(g) ==
    /\ disp.pc = "gang" /\ g \in disp.groups /\ g \notin aged
    /\ \/ ~AllQueued(g) /\ UNCHANGED breakerVars
       \/ AllQueued(g) /\ Plans(g) = {} /\ LookAt(members)
    /\ disp' = NextGroup(disp.groups \ {g})
    /\ UNCHANGED <<schedVars, resourceVars>> /\ DispStep

\* RemoveByID's answer is ignored too: the copy made before is dispatched.
GangRemove ==
    LET j == First(disp.left) IN
    /\ disp.pc = "rank"
    /\ RemoveByID(j)
    /\ disp' = [disp EXCEPT !.pc = "taken", !.left = @ \ {j}, !.job = j,
                            !.node = disp.plan[j], !.plan[j] = NoNode]
    /\ UNCHANGED <<breakerVars, resourceVars>> /\ DispStep

GangRun ==
    /\ disp.pc = "run"
    /\ SetGroupState(disp.group, "RUNNING")
    /\ disp' = NextGroup(disp.groups)
    /\ UNCHANGED <<breakerVars, resourceVars>> /\ DispStep

Top == First(InHeap)

\* Phase 1: Peek and the choice of a node.  A rank at the top ends the pass.
SelectNothing ==
    /\ disp.pc = "select"
    /\ InHeap # {} => GroupOf[Top] # NoGroup
    /\ disp' = IdleDisp
    /\ UNCHANGED <<schedVars, breakerVars, resourceVars>> /\ DispStep

SelectNode(n) ==
    /\ disp.pc = "select" /\ InHeap # {} /\ GroupOf[Top] = NoGroup
    /\ n \in members /\ Fits(Top, n)
    /\ \E seen \in SUBSET Overdue(members) :
          Overdue({n}) \subseteq seen /\ LookAt(seen)
    /\ disp' = [IdleDisp EXCEPT !.pc = "picked", !.node = n]
    /\ UNCHANGED <<schedVars, resourceVars>> /\ DispStep

SelectNoNode ==
    /\ disp.pc = "select" /\ InHeap # {} /\ GroupOf[Top] = NoGroup
    /\ \A n \in members : ~Fits(Top, n)
    /\ LookAt(members)
    /\ disp' = IF members = {} THEN IdleDisp
               ELSE [IdleDisp EXCEPT !.pc = "backfill", !.nodes = members]
    /\ UNCHANGED <<schedVars, resourceVars>> /\ DispStep

\* Dequeue: whatever is on top by now goes to the node chosen for the peeked job.
TakeTop ==
    /\ disp.pc = "picked"
    /\ \/ InHeap = {} /\ UNCHANGED schedVars /\ disp' = IdleDisp
       \/ /\ InHeap # {}
          /\ Dequeue(Top)
          /\ disp' = [disp EXCEPT !.pc = "taken", !.job = Top]
    /\ UNCHANGED <<breakerVars, resourceVars>> /\ DispStep

\* Phase 2, one node of the snapshot of the members.
Backfillable(n) == {j \in InHeap : GroupOf[j] = NoGroup /\ Fits(j, n)}

BackfillNode(n) ==
    /\ disp.pc = "backfill" /\ n \in disp.nodes
    /\ \/ \E j \in Backfillable(n) :
             /\ Backfill(j)
             /\ disp' = [IdleDisp EXCEPT !.pc = "taken", !.job = j, !.node = n]
       \/ /\ Backfillable(n) = {}
          /\ UNCHANGED schedVars
          /\ disp' = IF disp.nodes = {n} THEN IdleDisp
                     ELSE [disp EXCEPT !.nodes = @ \ {n}]
    /\ LookAt({n})
    /\ UNCHANGED resourceVars /\ DispStep

(* dispatchJob *)

DispatchMark ==
    /\ disp.pc = "taken"
    /\ MarkRunning(disp.job, disp.node)
    /\ disp' = [disp EXCEPT !.pc = "marked"]
    /\ UNCHANGED <<breakerVars, resourceVars>> /\ DispStep

DispatchArm ==
    /\ disp.pc = "marked"
    /\ pending' = pending \cup {disp.job}
    /\ Allocate(disp.node, disp.job)
    /\ disp' = [disp EXCEPT !.pc = "armed"]
    /\ UNCHANGED <<members, timers, dead, submit, aged>>
    /\ UNCHANGED <<schedVars, breakerVars>> /\ DispStep

\* pub.Send, then the next rank, SetGroupState or the next tick.
DispatchSend ==
    /\ disp.pc = "armed"
    /\ disp' = IF disp.group = NoGroup THEN IdleDisp
               ELSE [disp EXCEPT !.pc = IF disp.left = {} THEN "run" ELSE "rank",
                                 !.job = NoJob, !.node = NoNode]
    /\ UNCHANGED <<schedVars, breakerVars, resourceVars>> /\ DispStep

-----------------------------------------------------------------------------
(* walltimeEnforcer *)

\* RunningJobs and the test on StartTime: a snapshot of overdue jobs.
WallScan(S) ==
    /\ wall.pc = "idle"
    /\ S # {} /\ S \subseteq {j \in WallJobs : state[j] = "RUNNING"}
    /\ wall' = [IdleWall EXCEPT !.pc = "kill", !.late = {<<j, worker[j]>> : j \in S}]
    /\ UNCHANGED <<schedVars, breakerVars, resourceVars, rpc, disp, gossip, shake>>

\* Cancel's answer is ignored.
WallKill(j, n) ==
    /\ wall.pc = "kill" /\ <<j, n>> \in wall.late
    /\ Cancel(j) \/ (~Cancellable(j) /\ UNCHANGED schedVars)
    /\ wall' = [pc |-> "release", late |-> wall.late \ {<<j, n>>},
                job |-> j, node |-> n]
    /\ UNCHANGED <<breakerVars, resourceVars, rpc, disp, gossip, shake>>

\* Release for the node of the snapshot, and the cancel message.
WallRelease ==
    /\ wall.pc = "release"
    /\ ReleaseIfPlaced(wall.node, wall.job)
    /\ wall' = IF wall.late = {} THEN IdleWall
               ELSE [IdleWall EXCEPT !.pc = "kill", !.late = wall.late]
    /\ UNCHANGED <<members, pending, timers, dead, submit, aged>>
    /\ UNCHANGED <<schedVars, breakerVars, rpc, disp, gossip, shake>>

-----------------------------------------------------------------------------
(* dispatchTimeoutEnforcer *)

ShakeRest(S) ==
    IF S = {} THEN IdleShake ELSE [IdleShake EXCEPT !.pc = "check", !.jobs = S]

\* The dispatches that have gone unacknowledged for ten seconds.
ShakeScan(S) ==
    /\ shake.pc = "idle"
    /\ S # {} /\ S \subseteq pending
    /\ pending' = pending \ S
    /\ shake' = ShakeRest(S)
    /\ UNCHANGED <<members, alloc, timers, dead, submit, aged>>
    /\ UNCHANGED <<schedVars, breakerVars, rpc, disp, gossip, wall>>

\* GetJob: the copy whose node will be released.
ShakeCheck(j) ==
    /\ shake.pc = "check" /\ j \in shake.jobs
    /\ shake' = IF state[j] = "RUNNING"
                THEN [pc |-> "requeue", jobs |-> shake.jobs \ {j}, job |-> j,
                      node |-> worker[j]]
                ELSE ShakeRest(shake.jobs \ {j})
    /\ UNCHANGED <<schedVars, breakerVars, resourceVars, rpc, disp, gossip, wall>>

\* Variant: the timed-out job is noticed but not requeued.
ShakeRequeueForgets ==
    /\ shake.pc = "requeue"
    /\ shake' = ShakeRest(shake.jobs)
    /\ UNCHANGED <<schedVars, breakerVars, resourceVars, rpc, disp, gossip, wall>>

ShakeRequeue ==
    /\ shake.pc = "requeue"
    /\ \/ /\ RequeueRunningJob(shake.job)
          /\ shake' = [shake EXCEPT !.pc = "release"]
       \/ /\ state[shake.job] # "RUNNING"
          /\ UNCHANGED schedVars
          /\ shake' = ShakeRest(shake.jobs)
    /\ UNCHANGED <<breakerVars, resourceVars, rpc, disp, gossip, wall>>

\* Variant: nothing is released.
ShakeReleaseNot ==
    /\ shake.pc = "release"
    /\ shake' = ShakeRest(shake.jobs)
    /\ UNCHANGED <<schedVars, breakerVars, resourceVars, rpc, disp, gossip, wall>>

ShakeRelease ==
    /\ shake.pc = "release"
    /\ ReleaseIfPlaced(shake.node, shake.job)
    /\ shake' = ShakeRest(shake.jobs)
    /\ UNCHANGED <<members, pending, timers, dead, submit, aged>>
    /\ UNCHANGED <<schedVars, breakerVars, rpc, disp, gossip, wall>>

-----------------------------------------------------------------------------
(* Gossip events *)

GossipRest(n, S) ==
    IF S = {} THEN IdleGossip
    ELSE [IdleGossip EXCEPT !.pc = "release", !.node = n, !.jobs = S]

\* hooks.OnLeave starts from the jobs running on the node at that moment.
NodeLeaves(n) ==
    /\ gossip.pc = "idle" /\ n \in members
    /\ members' = members \ {n}
    /\ gossip' = GossipRest(n, RunningJobsOnNode(n))
    /\ UNCHANGED <<pending, alloc, timers, dead, submit, aged>>
    /\ UNCHANGED <<schedVars, breakerVars, rpc, disp, wall, shake>>

LeaveRelease(j) ==
    /\ gossip.pc = "release" /\ j \in gossip.jobs
    /\ Release(gossip.node, j)
    /\ gossip' = [gossip EXCEPT !.pc = "mark", !.jobs = @ \ {j}, !.job = j]
    /\ UNCHANGED <<members, pending, timers, dead, submit, aged>>
    /\ UNCHANGED <<schedVars, breakerVars, rpc, disp, wall, shake>>

\* Variant: the lost job is released but not failed.
LeaveMarkNot ==
    /\ gossip.pc = "mark"
    /\ gossip' = GossipRest(gossip.node, gossip.jobs)
    /\ UNCHANGED <<schedVars, breakerVars, resourceVars, rpc, disp, wall, shake>>

LeaveMark ==
    /\ gossip.pc = "mark"
    /\ MarkCompleted(gossip.job, "lost")
    /\ gossip' = IF GroupOf[gossip.job] \in Groups
                 THEN [gossip EXCEPT !.pc = "group"]
                 ELSE GossipRest(gossip.node, gossip.jobs)
    /\ UNCHANGED <<breakerVars, resourceVars, rpc, disp, wall, shake>>

\* The lost rank's group fails; its siblings are not touched.
LeaveGroup ==
    LET g == GroupOf[gossip.job] IN
    /\ gossip.pc = "group"
    /\ \/ group[g] = "RUNNING" /\ SetGroupState(g, "FAILED")
       \/ group[g] # "RUNNING" /\ UNCHANGED schedVars
    /\ gossip' = GossipRest(gossip.node, gossip.jobs)
    /\ UNCHANGED <<breakerVars, resourceVars, rpc, disp, wall, shake>>

NodeJoins(n) ==
    /\ gossip.pc = "idle" /\ n \notin members
    /\ members' = members \cup {n}
    /\ UNCHANGED <<pending, alloc, timers, dead, submit, aged>>
    /\ UNCHANGED <<schedVars, breakerVars, procVars>>

BreakerClock(n) ==
    /\ BlockRunsOut(n)
    /\ UNCHANGED <<schedVars, resourceVars, procVars>>

-----------------------------------------------------------------------------
Dispatch ==
    \/ Tick \/ ExpireRank \/ ExpireGroup \/ GangRemove \/ GangRun
    \/ SelectNothing \/ SelectNoNode \/ TakeTop
    \/ DispatchMark \/ DispatchArm \/ DispatchSend
    \/ \E g \in Groups : GangTimeout(g) \/ PlanGang(g) \/ SkipGang(g)
    \/ \E n \in Nodes : SelectNode(n) \/ BackfillNode(n)

Submission ==
    \/ \E j \in Jobs : SubmitJob(j)
    \/ \E g \in Groups : SubmitRank(g) \/ SubmitRankFails(g) \/ SubmitRegister(g)

Handlers ==
    \E c \in Calls :
       \/ FinishCancel(c) \/ SettleReport(c) \/ HandleGroup(c)
       \/ AbortRank(c) \/ AbortVictim(c) \/ CloseGroup(c)

Enforcers ==
    \/ WallRelease \/ ShakeRequeue \/ ShakeRelease
    \/ \E j \in Jobs : ShakeCheck(j) \/ RetryFires(j)
    \/ \E j \in Jobs, n \in MaybeNode : WallKill(j, n)
    \/ \E S \in SUBSET Jobs : WallScan(S) \/ ShakeScan(S)

Membership ==
    \/ LeaveMark \/ LeaveGroup
    \/ \E j \in Jobs : LeaveRelease(j)
    \/ \E n \in Nodes : NodeLeaves(n) \/ NodeJoins(n)

Clocks ==
    \/ \E g \in Groups : GroupAges(g)
    \/ \E n \in Nodes : BreakerClock(n)

Clients ==
    \/ \E c \in Calls, j \in Jobs : CancelJob(c, j)
    \/ \E c \in Calls, j \in Jobs, n \in Nodes, k \in Kinds : ReportResult(c, j, n, k)
    \/ \E j \in Jobs : AcknowledgeStart(j)

Next ==
    \/ Submission \/ Dispatch \/ Handlers \/ Enforcers
    \/ Membership \/ Clocks \/ Clients

Spec == Init /\ [][Next]_vars

-----------------------------------------------------------------------------
(* Properties that hold whatever the workers and the network do *)

\* A job the master calls QUEUED can still be dispatched: it has an entry in
\* the heap, or the dispatch loop has just taken it and is about to mark it
\* RUNNING.  Cancel, RemoveByID, Backfill, Requeue and RequeueRunningJob all
\* race for the entries and for job.index.
NoQueuedJobLost ==
    \A j \in Jobs :
       state[j] = "QUEUED" =>
          heap[j] > 0 \/ (disp.pc = "taken" /\ disp.job = j)

\* A single job that a worker reported as failed and that has retries left is
\* never forgotten: a retry timer is running for it, or a ReportResult handler
\* is about to start one.
RetryScheduled ==
    \A j \in Jobs :
       state[j] = "FAILED" /\ error[j] = "report" /\ RetryAllowed(j) =>
          \/ timers[j] > 0
          \/ \E c \in Calls : /\ rpc[c].pc = "settle" /\ rpc[c].job = j
                              /\ rpc[c].kind # "ok"
=============================================================================
