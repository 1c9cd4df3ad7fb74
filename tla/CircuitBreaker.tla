--------------------------- MODULE CircuitBreaker ---------------------------
(***************************************************************************)
(* The per-node circuit breaker (internal/daemon/master.go, type           *)
(* circuitBreaker).  Time is abstracted to the order of events: a block is *)
(* in force ("yes"), past its five minutes but still in the map ("due"),   *)
(* or absent ("no").  IsBlocked removes a block that is due when it next   *)
(* looks at the node, not before.                                          *)
(***************************************************************************)
EXTENDS Entities

VARIABLES
    failures,     \* node -> consecutive failures, 0 when absent
    blocked,      \* node -> "no", "yes" or "due"
    lastFailed    \* node -> lastFailedJob, NoJob when absent

breakerVars == <<failures, blocked, lastFailed>>

Threshold == 3

BreakerTypeOK ==
    /\ failures \in [Nodes -> Nat]
    /\ blocked \in [Nodes -> {"no", "yes", "due"}]
    /\ lastFailed \in [Nodes -> Jobs \cup {NoJob}]

BreakerInit ==
    /\ failures = [n \in Nodes |-> 0]
    /\ blocked = [n \in Nodes |-> "no"]
    /\ lastFailed = [n \in Nodes |-> NoJob]

\* Variant: every failure counts.
RecordFailureAlways(n, j) ==
    /\ lastFailed' = [lastFailed EXCEPT ![n] = j]
    /\ failures' = [failures EXCEPT ![n] = @ + 1]
    /\ blocked' = [blocked EXCEPT ![n] =
                      IF failures[n] + 1 >= Threshold THEN "yes" ELSE @]

\* A job that fails twice in a row on a node counts once.
RecordFailure(n, j) ==
    \/ lastFailed[n] = j /\ UNCHANGED breakerVars
    \/ /\ lastFailed[n] # j
       /\ lastFailed' = [lastFailed EXCEPT ![n] = j]
       /\ failures' = [failures EXCEPT ![n] = @ + 1]
       /\ blocked' = [blocked EXCEPT ![n] =
                         IF failures[n] + 1 >= Threshold THEN "yes" ELSE @]

\* Variant: lastFailedJob is not removed.
ForgetNotLast(S) ==
    /\ failures' = [n \in Nodes |-> IF n \in S THEN 0 ELSE failures[n]]
    /\ blocked' = [n \in Nodes |-> IF n \in S THEN "no" ELSE blocked[n]]
    /\ UNCHANGED lastFailed

\* Removes every entry of the nodes in S.
Forget(S) ==
    /\ failures' = [n \in Nodes |-> IF n \in S THEN 0 ELSE failures[n]]
    /\ blocked' = [n \in Nodes |-> IF n \in S THEN "no" ELSE blocked[n]]
    /\ lastFailed' = [n \in Nodes |-> IF n \in S THEN NoJob ELSE lastFailed[n]]

\* Variant: a success takes back one failure.
RecordSuccessDecrements(n) ==
    /\ failures' = [failures EXCEPT ![n] = @ - 1]
    /\ UNCHANGED <<blocked, lastFailed>>

RecordSuccess(n) == Forget({n})

\* What IsBlocked answers, and the nodes of S whose block it finds overdue.
IsBlocked(n) == blocked[n] = "yes"
Overdue(S) == {n \in S : blocked[n] = "due"}

\* Variant: an overdue block is removed, its count is not.
LookAtKeepsCount(S) ==
    /\ blocked' = [n \in Nodes |-> IF n \in Overdue(S) THEN "no" ELSE blocked[n]]
    /\ UNCHANGED <<failures, lastFailed>>

\* IsBlocked called for every node of S: each overdue block is removed.
LookAt(S) == Forget(Overdue(S))

\* Five minutes pass on a block.
BlockRunsOut(n) ==
    /\ blocked[n] = "yes"
    /\ blocked' = [blocked EXCEPT ![n] = "due"]
    /\ UNCHANGED <<failures, lastFailed>>

BreakerNext ==
    \E n \in Nodes :
       \/ \E j \in Jobs : RecordFailure(n, j)
       \/ RecordSuccess(n)
       \/ LookAt({n})
       \/ BlockRunsOut(n)

BreakerSpec == BreakerInit /\ [][BreakerNext]_breakerVars
=============================================================================
