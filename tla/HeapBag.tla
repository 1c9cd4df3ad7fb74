------------------------------ MODULE HeapBag ------------------------------
(***************************************************************************)
(* The priority queue of pkg/scheduler/queue.go as its callers see it: how *)
(* many entries each job has in it (Requeue does not look whether there is *)
(* one already) and whether job.index is set.  Module JobQueue has the     *)
(* array and is checked to implement HeapSpec.                             *)
(***************************************************************************)
EXTENDS Entities, Functions

CONSTANTS Order    \* place of a job by (Priority, SubmitTime): JobQueue.Less

ASSUME OrderAssumption ==
    /\ Order \in [Jobs -> Nat]
    /\ \A i, j \in Jobs : Order[i] = Order[j] => i = j

VARIABLES
    heap,      \* number of entries of each job in gs.queue
    indexed    \* jobs whose Job.index is not -1

heapVars == <<heap, indexed>>

HeapTypeOK ==
    /\ heap \in [Jobs -> Nat]
    /\ indexed \in SUBSET {j \in Jobs : heap[j] > 0}

HeapInit ==
    /\ heap = [j \in Jobs |-> 0]
    /\ indexed = {}

\* The first of a set of jobs in queue order.
First(S) == CHOOSE j \in S : \A k \in S : Order[j] <= Order[k]

InHeap == {j \in Jobs : heap[j] > 0}
QueueLen == SumFunction(heap)

\* heap.Push: the new entry owns job.index.  Sifting moves other entries,
\* and Swap sets the index of every entry it moves, so a job whose index was
\* -1 although it has an entry may get an index back.
HeapPush(j) ==
    /\ heap' = [heap EXCEPT ![j] = @ + 1]
    /\ \E moved \in SUBSET (InHeap \ indexed) :
          indexed' = indexed \cup moved \cup {j}

\* Variant: Pop forgets item.index = -1.
HeapRemoveKeepsIndex(j) ==
    /\ heap[j] > 0
    /\ heap' = [heap EXCEPT ![j] = @ - 1]
    /\ \E moved \in SUBSET (InHeap \ indexed) : indexed' = indexed \cup moved

\* heap.Remove and heap.Pop: Pop ends with item.index = -1, even when the
\* job has another entry.
HeapRemove(j) ==
    /\ heap[j] > 0
    /\ heap' = [heap EXCEPT ![j] = @ - 1]
    /\ \E moved \in SUBSET (InHeap \ (indexed \cup {j})) :
          indexed' = (indexed \cup moved) \ {j}

\* if job.index >= 0 && job.index < gs.queue.Len() { heap.Remove(...) }
RemoveIndexed(j) ==
    \/ j \in indexed /\ HeapRemove(j)
    \/ j \notin indexed /\ UNCHANGED heapVars

\* heap.Pop: the entry that is first in queue order.
HeapPop(j) == j \in InHeap /\ j = First(InHeap) /\ HeapRemove(j)

HeapNext ==
    \E j \in Jobs : HeapPush(j) \/ HeapPop(j) \/ HeapRemove(j) \/ RemoveIndexed(j)

HeapSpec == HeapInit /\ [][HeapNext]_heapVars
=============================================================================
