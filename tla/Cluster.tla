------------------------------ MODULE Cluster ------------------------------
(***************************************************************************)
(* The whole system: the master of module Master, the workers of module    *)
(* Worker, and the faults of the network between them.  A report or an     *)
(* acknowledgement now comes from an execution that really took place.     *)
(* Faults are not free: Budget says how many of each kind may happen, so   *)
(* that a run can say which faults a property survives.                    *)
(***************************************************************************)
EXTENDS Master, Worker

CONSTANTS
    Budget,    \* fault -> how often: see Faults
    MaxFaults  \* how many of them all together

\* loss: a published message reaches no subscriber; late: a handshake misses
\* its ten seconds or its acknowledgement never arrives; crash: a worker dies;
\* dup: a result is reported twice; cancel: a client cancels a job.
Faults == {"loss", "late", "crash", "dup", "cancel"}

ASSUME BudgetAssumption == Budget \in [Faults -> Nat] /\ MaxFaults \in Nat

VARIABLE used    \* what has been spent of the budget

clusterVars == <<vars, workerVars, used>>

Spend(f) ==
    /\ used[f] < Budget[f] /\ SumFunction(used) < MaxFaults
    /\ used' = [used EXCEPT ![f] = @ + 1]

ClusterInit == Init /\ WorkerInit /\ used = [f \in Faults |-> 0]

ClusterTypeOK == TypeOK /\ WorkerTypeOK /\ used \in [Faults -> Nat]

-----------------------------------------------------------------------------
(* The master's steps that publish *)

CancelMessage(n, j) ==
    \/ n \in Nodes /\ PublishCancel(n, j) /\ UNCHANGED used
    \/ n \in up /\ Spend("loss") /\ UNCHANGED workerVars
    \/ n \notin Nodes /\ UNCHANGED <<workerVars, used>>

SendExecute ==
    /\ DispatchSend
    /\ \/ PublishExecute(disp.node, disp.job) /\ UNCHANGED used
       \/ disp.node \in up /\ Spend("loss") /\ UNCHANGED workerVars

SendCancel(c) ==
    \/ FinishCancel(c) /\ CancelMessage(worker[rpc[c].victim], rpc[c].victim)
    \/ AbortVictim(c) /\ CancelMessage(worker[rpc[c].victim], rpc[c].victim)

SendWallCancel == WallRelease /\ CancelMessage(wall.node, wall.job)

-----------------------------------------------------------------------------
(* The handshake *)

Undelivered(j) == \E i \in Slots : attempts[i].job = j /\ attempts[i].pc \in {"wire", "ack"}

\* Ten seconds are long compared with a delivery: a dispatch on its way times
\* out only as a "late" fault, one being published never.
TimeOut(S) ==
    /\ ShakeScan(S)
    /\ disp.job \notin S
    /\ \/ (\A j \in S : ~Undelivered(j)) /\ UNCHANGED used
       \/ (\E j \in S : Undelivered(j)) /\ Spend("late")
    /\ UNCHANGED workerVars

\* acknowledgeStart: accepted, or refused because nothing is pending, or lost.
Acknowledge(i) ==
    LET j == attempts[i].job IN
    /\ EndHandshake(i)
    /\ \/ AcknowledgeStart(j) /\ UNCHANGED used
       \/ j \notin pending /\ UNCHANGED <<vars, used>>
       \/ j \in pending /\ Spend("late") /\ UNCHANGED vars

Report(i, c) ==
    /\ Reported(i)
    /\ ReportResult(c, attempts[i].job, attempts[i].node, attempts[i].kind)
    /\ UNCHANGED used

-----------------------------------------------------------------------------
(* Steps of one side alone *)

MasterAlone == UNCHANGED <<workerVars, used>>
WorkerAlone == UNCHANGED <<vars, used>>

DispatchStep ==
    \/ SendExecute
    \/ /\ Tick \/ ExpireRank \/ ExpireGroup \/ GangRemove \/ GangRun
          \/ SelectNothing \/ SelectNoNode \/ TakeTop \/ DispatchMark \/ DispatchArm
          \/ (\E g \in Groups : GangTimeout(g) \/ PlanGang(g) \/ SkipGang(g))
          \/ (\E n \in Nodes : SelectNode(n) \/ BackfillNode(n))
       /\ MasterAlone

HandlerStep(c) ==
    \/ SendCancel(c)
    \/ (SettleReport(c) \/ HandleGroup(c) \/ AbortRank(c) \/ CloseGroup(c)) /\ MasterAlone

ShakeStep ==
    (ShakeRequeue \/ ShakeRelease \/ \E j \in Jobs : ShakeCheck(j)) /\ MasterAlone

WallStep ==
    \/ SendWallCancel
    \/ (\E j \in Jobs, n \in MaybeNode : WallKill(j, n)) /\ MasterAlone

WallOverdue == (\E S \in SUBSET Jobs : WallScan(S)) /\ MasterAlone

RetryStep(j) == RetryFires(j) /\ MasterAlone

LeaveStep == (LeaveMark \/ LeaveGroup \/ \E j \in Jobs : LeaveRelease(j)) /\ MasterAlone

\* Gossip notices a dead worker.  A restarted one joins under its old name
\* once the dead one is gone from the member list, and subscribes after that.
Noticed(n) == n \notin up /\ NodeLeaves(n) /\ MasterAlone
Crash(n) == CrashNode(n) /\ Spend("crash") /\ UNCHANGED vars
Restart(n) == NodeJoins(n) /\ StartNode(n) /\ UNCHANGED used

Clock == Clocks /\ MasterAlone

MessageLoop(n) == (ReceiveCancel(n) \/ ReceiveExecute(n)) /\ WorkerAlone

Execution(i) ==
    \/ Acknowledge(i)
    \/ (StartRun(i) \/ \E k \in Kinds : FinishRun(i, k)) /\ WorkerAlone
    \/ \E c \in Calls : Report(i, c)
    \/ EndAttempt(i) /\ WorkerAlone

Duplicate(i) == ReportAgain(i) /\ Spend("dup") /\ UNCHANGED vars

ClientCancel(c, j) == CancelJob(c, j) /\ Spend("cancel") /\ UNCHANGED workerVars

Submit == Submission /\ MasterAlone

ClusterNext ==
    \/ Submit \/ DispatchStep \/ ShakeStep \/ WallStep \/ WallOverdue
    \/ LeaveStep \/ Clock
    \/ \E S \in SUBSET Jobs : TimeOut(S)
    \/ \E c \in Calls : HandlerStep(c) \/ \E j \in Jobs : ClientCancel(c, j)
    \/ \E j \in Jobs : RetryStep(j)
    \/ \E n \in Nodes : Noticed(n) \/ Crash(n) \/ Restart(n) \/ MessageLoop(n)
    \/ \E i \in Slots : Execution(i) \/ Duplicate(i)

ClusterSafety == ClusterInit /\ [][ClusterNext]_clusterVars

\* Every goroutine that can step does, every timer that runs fires, every
\* command ends, a dead worker is noticed.  Nothing is assumed of clients, of
\* faults, or of a crashed worker coming back.
Fairness ==
    /\ WF_clusterVars(DispatchStep)
    /\ WF_clusterVars(ShakeStep)
    /\ WF_clusterVars(WallStep)
    /\ WF_clusterVars(LeaveStep)
    /\ WF_clusterVars(Clock)
    /\ WF_clusterVars(\E S \in SUBSET Jobs : TimeOut(S))
    /\ \A c \in Calls : WF_clusterVars(HandlerStep(c))
    /\ \A j \in Jobs : WF_clusterVars(RetryStep(j))
    /\ \A n \in Nodes : WF_clusterVars(Noticed(n)) /\ WF_clusterVars(MessageLoop(n))
    /\ \A i \in Slots : WF_clusterVars(Execution(i))

ClusterSpec == ClusterSafety /\ Fairness

-----------------------------------------------------------------------------
(* Safety *)

\* Someone is still going to move a RUNNING job on: the dispatch loop or the
\* handshake watches it, an execution of it lives, or its node's death is yet
\* to be noticed or dealt with.
Watched ==
    \A j \in Jobs :
       state[j] = "RUNNING" =>
          \/ j \in pending \/ disp.job = j
          \/ j \in shake.jobs \/ shake.job = j
          \/ \E i \in Slots : attempts[i].job = j /\ attempts[i].pc # "sent"
          \/ worker[j] \in members \ up
          \/ j \in gossip.jobs \/ gossip.job = j

Running(n) == {i \in Slots : attempts[i].pc = "run" /\ attempts[i].node = n}

Load(n) == SumFunction([i \in Running(n) |-> Need[attempts[i].job]])

\* The commands running on a node never ask for more than the node has:
\* placement works from the tracker, and the tracker from reports and
\* timeouts, so this relates what three goroutines of the master believe to
\* what the workers do.
NoOversubscription == \A n \in Nodes : Load(n) <= Cap[n]

\* The jobs the master has RUNNING on a node never ask for more than the node
\* has.
NoOvercommit ==
    \A n \in Nodes : SumFunction([j \in RunningJobsOnNode(n) |-> Need[j]]) <= Cap[n]

MasterIdle ==
    /\ disp.pc \in {"idle", "gang", "select", "backfill"}
    /\ gossip.pc = "idle" /\ wall.pc = "idle" /\ shake.pc = "idle"
    /\ \A c \in Calls : rpc[c].pc = "idle"

\* Between two steps of its goroutines the tracker holds exactly what the
\* RUNNING jobs of each node need: no Release is missed, none happens twice.
TrackerExact ==
    MasterIdle =>
       \A n \in Nodes : alloc[n] = SumFunction([j \in RunningJobsOnNode(n) |-> Need[j]])

\* No job is executed by two goroutines at once.
AtMostOneExecution ==
    \A i, k \in Slots :
       i # k /\ attempts[i].pc = "run" /\ attempts[k].pc = "run" =>
          attempts[i].job # attempts[k].job

\* No job is retried more often than configured.
RetryBound == \A j \in Jobs : retries[j] <= MaxRetries

\* The queue holds at most max_queue_size jobs.
QueueBound == MaxQueueSize > 0 => QueueLen <= MaxQueueSize

\* No rank of a group runs while the group waits for its nodes, except while
\* the dispatch loop is dispatching that very group.
GangTogether ==
    \A g \in Groups :
       group[g] = "PENDING" /\ disp.group # g =>
          \A j \in Ranks(g) : state[j] # "RUNNING"

\* When a group has failed and every goroutine of the master is done with it,
\* none of its ranks is left QUEUED or RUNNING.
RanksEndTogether ==
    \A g \in Groups :
       MasterIdle /\ disp.pc = "idle" /\ group[g] = "FAILED" =>
          \A j \in Ranks(g) : state[j] \notin {"QUEUED", "RUNNING"}

\* A group is COMPLETED only when all of its ranks completed.
GroupCompletedMeansRanksCompleted ==
    \A g \in Groups :
       group[g] = "COMPLETED" => \A j \in Ranks(g) : state[j] = "COMPLETED"

\* A job that was cancelled stays cancelled: it is neither started by a
\* dispatch that was under way nor queued for another try.
CancelledStaysCancelled ==
    [][\A j \in Jobs : state[j] = "CANCELLED" => state'[j] = "CANCELLED"]_clusterVars

-----------------------------------------------------------------------------
(* A job's life, told by who has the job *)

InQueue(j) == heap[j] > 0

\* A gang dispatch has a node for the rank and is yet to take it.
Planned(j) == disp.pc \in {"rank", "taken", "marked", "armed"} /\ j \in disp.left

\* dispatchJob has it and has not armed dispatchPending.
InHand(j) == disp.pc \in {"taken", "marked"} /\ disp.job = j

\* The timeout enforcer is about to put it back.
TimedOut(j) == j \in shake.jobs \/ (shake.pc = "requeue" /\ shake.job = j)

Executes(i, j) == attempts[i].pc \in {"start", "run", "report"} /\ attempts[i].job = j

\* A handler has its report and has not decided on a retry.
Settles(c, j) == rpc[c].pc = "settle" /\ rpc[c].job = j

\* Who has the job: all of them, should it be more than one.
HoldersOf(j) ==
    {h \in {"client", "queue", "dispatch", "worker", "handler", "backoff"} :
       \/ h = "client" /\ state[j] = "NONE"
       \/ h = "queue" /\ (InQueue(j) \/ Planned(j))
       \/ h = "dispatch" /\ (InHand(j) \/ j \in pending \/ TimedOut(j))
       \/ h = "worker" /\ \E i \in Slots : Executes(i, j)
       \/ h = "handler" /\ \E c \in Calls : Settles(c, j)
       \/ h = "backoff" /\ timers[j] > 0}

Life == INSTANCE JobLife WITH
            Alone <- {j \in Jobs : GroupOf[j] = NoGroup},
            holders <- [j \in Jobs |-> HoldersOf(j)],
            tries <- retries

\* Whatever the interleaving of dispatch loop, enforcers, handlers, retry
\* goroutines and workers, one of them at a time has a job; none executes it
\* unplaced, grants a try that is not due, makes one that was not granted, or
\* revives a job that nobody had any more.
ImplementsJobLife == Life!LifeSpec

-----------------------------------------------------------------------------
(* Liveness *)

Settled(j) ==
    \/ state[j] \in {"COMPLETED", "CANCELLED"}
    \/ state[j] = "FAILED" /\ (error[j] = "lost" \/ ~RetryAllowed(j))

\* Every submitted job is settled in the end: it completes, is cancelled, or
\* fails for good.
EverySubmittedJobSettles == \A j \in Jobs : state[j] = "QUEUED" ~> Settled(j)

\* A group does not wait for its nodes for ever.
EveryGroupDecided == \A g \in Groups : group[g] = "PENDING" ~> group[g] # "PENDING"
=============================================================================
