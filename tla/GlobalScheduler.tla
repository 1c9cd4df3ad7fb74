-------------------------- MODULE GlobalScheduler --------------------------
(***************************************************************************)
(* The master's job table, priority queue and job groups                   *)
(* (pkg/scheduler/queue.go, type GlobalScheduler).                         *)
(*                                                                         *)
(* One operator per method; each method runs under gs.mu, so each operator *)
(* is one atomic step over the scheduler's variables.  The priority queue  *)
(* is the abstract one of module HeapBag.                                  *)
(***************************************************************************)
EXTENDS HeapBag, FiniteSets

CONSTANTS
    Groups,        \* distributed jobs
    NoGroup,       \* GroupID = ""
    GroupOf,       \* Job.GroupID
    MaxRetries,    \* Config.MaxRetries, copied to Job.MaxRetries
    MaxQueueSize   \* Config.MaxQueueSize, 0 = unlimited

ASSUME GroupOfAssumption == GroupOf \in [Jobs -> Groups \cup {NoGroup}]
ASSUME LimitAssumption == MaxRetries \in Nat /\ MaxQueueSize \in Nat
ASSUME NoGroupAssumption == NoGroup \notin Groups

VARIABLES
    state,     \* Job.State; "NONE" while the job is not in gs.jobs
    worker,    \* Job.WorkerNode
    retries,   \* Job.RetryCount
    error,     \* Job.Error: "", from a worker's report, or "worker node lost"
    group      \* JobGroup.State; "NONE" while the group is not in gs.groups

schedVars == <<state, worker, retries, error, heap, indexed, group>>
jobVars == <<state, worker, retries, error>>

JobStates == {"NONE", "QUEUED", "RUNNING", "COMPLETED", "FAILED", "CANCELLED"}
GroupStates == {"NONE", "PENDING", "RUNNING", "COMPLETED", "FAILED"}
Errors == {"none", "report", "lost"}

SchedTypeOK ==
    /\ state \in [Jobs -> JobStates]
    /\ worker \in [Jobs -> Nodes \cup {NoNode}]
    /\ retries \in [Jobs -> Nat]
    /\ error \in [Jobs -> Errors]
    /\ HeapTypeOK
    /\ group \in [Groups -> GroupStates]

SchedInit ==
    /\ state = [j \in Jobs |-> "NONE"]
    /\ worker = [j \in Jobs |-> NoNode]
    /\ retries = [j \in Jobs |-> 0]
    /\ error = [j \in Jobs |-> "none"]
    /\ HeapInit
    /\ group = [g \in Groups |-> "NONE"]

-----------------------------------------------------------------------------
Ranks(g) == {j \in Jobs : GroupOf[j] = g}

QueueFull == MaxQueueSize > 0 /\ QueueLen >= MaxQueueSize

-----------------------------------------------------------------------------
(* The methods *)

Enqueue(j) ==
    /\ ~QueueFull
    /\ state' = [state EXCEPT ![j] = "QUEUED"]
    /\ HeapPush(j)
    /\ UNCHANGED <<worker, retries, error, group>>

\* Dequeue leaves the popped job QUEUED: only dispatchJob changes its state.
Dequeue(j) ==
    /\ HeapPop(j)
    /\ UNCHANGED <<jobVars, group>>

\* Backfill scans the array, whose order among entries is any order the heap
\* allows: every entry that satisfies matchFunc may be the first one found.
Backfill(j) ==
    /\ HeapRemove(j)
    /\ UNCHANGED <<jobVars, group>>

RemoveByID(j) ==
    /\ \/ state[j] = "QUEUED" /\ RemoveIndexed(j)
       \/ state[j] # "QUEUED" /\ UNCHANGED heapVars
    /\ UNCHANGED <<jobVars, group>>

Cancellable(j) == state[j] \in {"QUEUED", "RUNNING"}

\* Cancel when it returns true; otherwise it changes nothing.
Cancel(j) ==
    /\ Cancellable(j)
    /\ \/ state[j] = "QUEUED" /\ RemoveIndexed(j)
       \/ state[j] = "RUNNING" /\ UNCHANGED heapVars
    /\ state' = [state EXCEPT ![j] = "CANCELLED"]
    /\ UNCHANGED <<worker, retries, error, group>>

\* Variant: incrementRetry = false.
RequeueUncounted(j) ==
    /\ state[j] # "NONE"
    /\ state' = [state EXCEPT ![j] = "QUEUED"]
    /\ worker' = [worker EXCEPT ![j] = NoNode]
    /\ error' = [error EXCEPT ![j] = "none"]
    /\ HeapPush(j)
    /\ UNCHANGED <<retries, group>>

\* Called with incrementRetry = true only.  No look at the job's state, at an
\* entry it may have, or at MaxQueueSize.
Requeue(j) ==
    /\ state[j] # "NONE"
    /\ retries' = [retries EXCEPT ![j] = @ + 1]
    /\ state' = [state EXCEPT ![j] = "QUEUED"]
    /\ worker' = [worker EXCEPT ![j] = NoNode]
    /\ error' = [error EXCEPT ![j] = "none"]
    /\ HeapPush(j)
    /\ UNCHANGED group

MarkRunning(j, n) ==
    /\ state[j] # "NONE"
    /\ state' = [state EXCEPT ![j] = "RUNNING"]
    /\ worker' = [worker EXCEPT ![j] = n]
    /\ UNCHANGED <<retries, error, heapVars, group>>

\* Variant: the push onto the heap is forgotten.
RequeueRunningJobNoPush(j) ==
    /\ state[j] = "RUNNING"
    /\ state' = [state EXCEPT ![j] = "QUEUED"]
    /\ worker' = [worker EXCEPT ![j] = NoNode]
    /\ UNCHANGED <<retries, error, heapVars, group>>

\* RequeueRunningJob when it returns true.
RequeueRunningJob(j) ==
    /\ state[j] = "RUNNING"
    /\ state' = [state EXCEPT ![j] = "QUEUED"]
    /\ worker' = [worker EXCEPT ![j] = NoNode]
    /\ HeapPush(j)
    /\ UNCHANGED <<retries, error, group>>

\* e is "none" for success; only a CANCELLED job is left as it is.
MarkCompleted(j, e) ==
    /\ state[j] # "NONE"
    /\ \/ state[j] = "CANCELLED" /\ UNCHANGED <<state, error>>
       \/ /\ state[j] # "CANCELLED"
          /\ state' = [state EXCEPT ![j] =
                          IF e = "none" THEN "COMPLETED" ELSE "FAILED"]
          /\ error' = [error EXCEPT ![j] = e]
    /\ UNCHANGED <<worker, retries, heapVars, group>>

RunningJobsOnNode(n) == {j \in Jobs : state[j] = "RUNNING" /\ worker[j] = n}

PendingGroups == {g \in Groups : group[g] = "PENDING"}

RegisterGroup(g) ==
    /\ group' = [group EXCEPT ![g] = "PENDING"]
    /\ UNCHANGED <<jobVars, heapVars>>

SetGroupState(g, s) ==
    /\ group[g] # "NONE"
    /\ group' = [group EXCEPT ![g] = s]
    /\ UNCHANGED <<jobVars, heapVars>>
=============================================================================
