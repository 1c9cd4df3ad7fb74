---------------------------- MODULE MCFairshare ----------------------------
(* An instance of Fairshare for TLC: two jobs of one user. *)
EXTENDS Fairshare, TLC

CONSTANTS j1, j2, u1, h1

MCUserOf == [j \in Jobs |-> u1]
MCSymmetry == Permutations(Jobs)
=============================================================================
