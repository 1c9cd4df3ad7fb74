--------------------------- MODULE MCPersistence ---------------------------
(* Instances of Queries, and with it of Persistence, for TLC: s1 is a single *)
(* job, r1 the rank of g1.                                                  *)
EXTENDS Queries

CONSTANTS s1, r1, g1, p1, l1

MCGroupOf == [j \in Jobs |-> IF j = r1 THEN g1 ELSE NoGroup]
=============================================================================
