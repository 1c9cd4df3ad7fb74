---------------------------- MODULE MCLifecycle ----------------------------
(* An instance of Lifecycle for TLC: two starts, two stops and a reader. *)
EXTENDS Lifecycle

CONSTANTS d1, d2, s1, s2, r1
=============================================================================
