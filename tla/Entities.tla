------------------------------ MODULE Entities ------------------------------
(* The jobs and worker nodes every module speaks of, and their null values. *)
EXTENDS Naturals, FiniteSets

CONSTANTS
    Jobs,     \* jobs that may be submitted, single jobs and ranks alike
    Nodes,    \* worker nodes
    NoJob,    \* a job ID that is ""
    NoNode    \* a node name that is ""

ASSUME NullAssumption == NoJob \notin Jobs /\ NoNode \notin Nodes
\* gs.jobs is a map.
ASSUME TableAssumption == IsFiniteSet(Jobs)
=============================================================================
