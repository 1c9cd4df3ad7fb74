---------------------------- MODULE MCLogStream ----------------------------
(* An instance of LogStream for TLC: two goroutines log, a client follows. *)
EXTENDS LogStream

CONSTANTS j1, w1, w2, l1
=============================================================================
