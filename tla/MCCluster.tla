----------------------------- MODULE MCCluster -----------------------------
(* Instances of Cluster for TLC.  s1..s3 are single jobs, r1 and r2 the *)
(* ranks of g1; queue order is s1, r1, r2, s2, s3.                            *)
EXTENDS Cluster

CONSTANTS s1, s2, s3, r1, r2, n1, n2, g1
CONSTANTS MaxLoss, MaxLate, MaxCrash, MaxDup, MaxCancel
CONSTANTS Big      \* jobs that need two units instead of one
CONSTANTS Large    \* nodes that have two units instead of one

MCGroupOf == [j \in Jobs |-> IF j \in {r1, r2} THEN g1 ELSE NoGroup]
MCOrder == [j \in Jobs |-> CASE j = s1 -> 1 [] j = r1 -> 2 [] j = r2 -> 3 [] j = s2 -> 4 [] j = s3 -> 5]
MCNeed == [j \in Jobs |-> IF j \in Big THEN 2 ELSE 1]
MCCap == [n \in Nodes |-> IF n \in Large THEN 2 ELSE 1]
MCMatch == Jobs \X Nodes
MCBudget ==
    [f \in Faults |-> CASE f = "loss" -> MaxLoss [] f = "late" -> MaxLate
                        [] f = "crash" -> MaxCrash [] f = "dup" -> MaxDup
                        [] f = "cancel" -> MaxCancel]
=============================================================================
