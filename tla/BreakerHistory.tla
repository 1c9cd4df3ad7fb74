--------------------------- MODULE BreakerHistory ---------------------------
(***************************************************************************)
(* The circuit breaker with a history variable: the jobs whose failures    *)
(* have been heard of for a node since its entries were last removed.      *)
(***************************************************************************)
EXTENDS CircuitBreaker

VARIABLE culprits

historyVars == <<breakerVars, culprits>>

HistoryInit == BreakerInit /\ culprits = [n \in Nodes |-> {}]

FailureHeard(n, j) ==
    /\ RecordFailure(n, j)
    /\ culprits' = [culprits EXCEPT ![n] = @ \cup {j}]

SuccessHeard(n) ==
    /\ RecordSuccess(n)
    /\ culprits' = [culprits EXCEPT ![n] = {}]

Asked(n) ==
    /\ LookAt({n})
    /\ culprits' = [culprits EXCEPT ![n] = IF blocked[n] = "due" THEN {} ELSE @]

Waited(n) == BlockRunsOut(n) /\ UNCHANGED culprits

HistoryNext ==
    \E n \in Nodes :
       \/ \E j \in Jobs : FailureHeard(n, j)
       \/ SuccessHeard(n) \/ Asked(n) \/ Waited(n)

HistorySpec == HistoryInit /\ [][HistoryNext]_historyVars

-----------------------------------------------------------------------------
HistoryTypeOK == BreakerTypeOK /\ culprits \in [Nodes -> SUBSET Jobs]

\* A node is blocked, or overdue to be released, exactly when three failures
\* have been counted against it: the three maps of the breaker are cleared
\* together and never drift apart, however late IsBlocked looks.
BlockedByCount == \A n \in Nodes : blocked[n] # "no" <=> failures[n] >= Threshold

\* No job blocks a node alone: two different jobs must have failed on it since
\* its entries were last removed.
NoPoisonPill ==
    \A n \in Nodes : blocked[n] # "no" => \E i, j \in culprits[n] : i # j

\* What makes NoPoisonPill inductive: the last culprit is remembered while
\* there is a count, and a second count needs a second culprit.
CountsMeanCulprits ==
    \A n \in Nodes :
       /\ failures[n] = 0 <=> lastFailed[n] = NoJob
       /\ failures[n] > 0 => lastFailed[n] \in culprits[n]
       /\ failures[n] > 1 => \E i, j \in culprits[n] : i # j
=============================================================================
