----------------------------- MODULE MCJobQueue -----------------------------
(* Four jobs in queue order j1, j2, j3, j4. *)
EXTENDS JobQueue

CONSTANTS j1, j2, j3, j4
MCOrder == [j \in Jobs |-> CASE j = j1 -> 1 [] j = j2 -> 2 [] j = j3 -> 3 [] j = j4 -> 4]
=============================================================================
