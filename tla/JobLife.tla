------------------------------- MODULE JobLife -------------------------------
(***************************************************************************)
(* What the whole system promises about a job, without the goroutines,     *)
(* messages and tables that keep the promise.  Until its life is over a    *)
(* job has one holder: its client, the queue, the dispatch loop with its   *)
(* handshake, a worker, the handler of its report, or a retry goroutine.   *)
(* Only the holder passes it on, only a report leads to another try, and   *)
(* a job that nobody holds any more is not seen again.  Module Cluster is  *)
(* shown to implement LifeSpec.                                            *)
(***************************************************************************)
EXTENDS Naturals

CONSTANTS
    Jobs,         \* the jobs
    Alone,        \* jobs that belong to no group: only these are retried
    MaxRetries    \* max_retries

VARIABLES
    holders,    \* who has each job
    tries       \* how often each job was tried again

lifeVars == <<holders, tries>>

Holders == {"client", "queue", "dispatch", "worker", "handler", "backoff"}

LifeInit ==
    /\ holders = [j \in Jobs |-> {"client"}]
    /\ tries = [j \in Jobs |-> 0]

\* The holder hands the job on, or is the last one to have it.
Passes(j, from, to) ==
    holders[j] = {from} /\ holders'[j] = {to} /\ tries'[j] = tries[j]

Ends(j, from) == holders[j] = {from} /\ holders'[j] = {} /\ tries'[j] = tries[j]

\* SubmitJob and SubmitDistributedJob put the job into the queue.
Submitted(j) == Passes(j, "client", "queue")

\* It is cancelled in the queue, or the dispatch loop takes it.
Withdrawn(j) == Ends(j, "queue")
Placed(j) == Passes(j, "queue", "dispatch")

\* A worker acknowledges it.
Started(j) == Passes(j, "dispatch", "worker")

\* No worker acknowledged it in time: back to the queue, or given up if it was
\* cancelled, or its node was found dead, meanwhile.
Returned(j) == Passes(j, "dispatch", "queue")
Dropped(j) == Ends(j, "dispatch")

\* The worker dies, or its report reaches the master.
Lost(j) == Ends(j, "worker")
Reported(j) == Passes(j, "worker", "handler")

\* ReportResult grants another try, or is done with the job.
Granted(j) == j \in Alone /\ tries[j] < MaxRetries /\ Passes(j, "handler", "backoff")
Finished(j) == Ends(j, "handler")

\* The backoff is over and the try counted.
TriedAgain(j) ==
    holders[j] = {"backoff"} /\ holders'[j] = {"queue"} /\ tries'[j] = tries[j] + 1

Moves(j) ==
    \/ Submitted(j) \/ Withdrawn(j) \/ Placed(j) \/ Started(j) \/ Returned(j) \/ Dropped(j)
    \/ Lost(j) \/ Reported(j) \/ Granted(j) \/ Finished(j) \/ TriedAgain(j)

\* A crash ends several lives at once, so each job makes its own move or none.
LifeNext ==
    /\ holders' \in [Jobs -> SUBSET Holders] /\ tries' \in [Jobs -> Nat]
    /\ \A j \in Jobs : Moves(j) \/ UNCHANGED <<holders[j], tries[j]>>

LifeSpec == LifeInit /\ [][LifeNext]_lifeVars
=============================================================================
