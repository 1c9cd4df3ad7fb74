------------------------------ MODULE JobQueue ------------------------------
(***************************************************************************)
(* The array behind the priority queue: heap.Interface of type JobQueue    *)
(* (pkg/scheduler/queue.go) driven by Go's container/heap, which is not in *)
(* the repository and is modelled from the calls queue.go makes.           *)
(*                                                                         *)
(* Positions count from 1 and 0 stands for index -1.  The same job may be  *)
(* pushed while it still has an entry: both entries share one job.index.   *)
(***************************************************************************)
EXTENDS Entities, Sequences, FiniteSets

CONSTANTS
    Order,         \* place of a job by (Priority, SubmitTime)
    MaxEntries,    \* bound on the length of the array
    MaxCopies      \* bound on the entries of one job

ASSUME QueueAssumption == Order \in [Jobs -> Nat] /\ MaxEntries \in Nat
\* No two jobs tie in Less: SubmitTime is the clock's nanoseconds.
ASSUME DistinctPlaces == \A i, j \in Jobs : Order[i] = Order[j] => i = j

VARIABLES
    queue,    \* the array of *Job
    index     \* Job.index of every job

queueVars == <<queue, index>>

Copies(j) == {i \in 1 .. Len(queue) : queue[i] = j}

\* The array holds jobs, and an index is 0 (the code's -1) or a position the
\* bound on entries allows.
QueueTypeOK ==
    /\ queue \in Seq(Jobs)
    /\ index \in [Jobs -> 0 .. MaxEntries]

QueueInit == queue = << >> /\ index = [j \in Jobs |-> 0]

-----------------------------------------------------------------------------
(* heap.Interface; h is an array q with the jobs' indices ix *)

Less(h, i, k) == Order[h.q[i]] < Order[h.q[k]]

\* Variant: only one of the two indices is set.
SwapHalf(h, i, k) ==
    [q |-> [h.q EXCEPT ![i] = h.q[k], ![k] = h.q[i]],
     ix |-> [h.ix EXCEPT ![h.q[k]] = i]]

Swap(h, i, k) ==
    [q |-> [h.q EXCEPT ![i] = h.q[k], ![k] = h.q[i]],
     ix |-> [h.ix EXCEPT ![h.q[k]] = i, ![h.q[i]] = k]]

\* Variant: the index is taken after the append.
PushLate(h, j) == [q |-> Append(h.q, j), ix |-> [h.ix EXCEPT ![j] = Len(h.q) + 2]]

Push(h, j) == [q |-> Append(h.q, j), ix |-> [h.ix EXCEPT ![j] = Len(h.q) + 1]]

\* Variant: item.index = -1 is forgotten.
PopKeepsIndex(h) == [q |-> SubSeq(h.q, 1, Len(h.q) - 1), ix |-> h.ix]

Pop(h) ==
    LET n == Len(h.q) IN
    [q |-> SubSeq(h.q, 1, n - 1), ix |-> [h.ix EXCEPT ![h.q[n]] = 0]]

-----------------------------------------------------------------------------
(* container/heap *)

\* One turn of the loop in up: entry s.i trades places with its parent.
UpStep(s) ==
    LET parent == s.i \div 2 IN
    IF s.i > 1 /\ Less(s.h, s.i, parent)
    THEN [h |-> Swap(s.h, parent, s.i), i |-> parent] ELSE s

\* The loop: an entry is at the top after fewer turns than its position.
Up(h, i) ==
    LET sift[k \in 0 .. i] == IF k = 0 THEN [h |-> h, i |-> i] ELSE UpStep(sift[k - 1])
    IN  sift[i].h

\* Variant: the right child is never looked at.
LeftChild(h, i, n) == 2 * i

\* The smaller child of i among the first n entries.
Child(h, i, n) ==
    IF 2 * i + 1 <= n /\ Less(h, 2 * i + 1, 2 * i) THEN 2 * i + 1 ELSE 2 * i

\* One turn of the loop in down: entry s.i trades places with a child.
DownStep(s, n) ==
    LET child == Child(s.h, s.i, n) IN
    IF 2 * s.i <= n /\ Less(s.h, child, s.i)
    THEN [h |-> Swap(s.h, s.i, child), i |-> child] ELSE s

\* The loop, with the position at which the entry comes to rest.
Down(h, i, n) ==
    LET sift[k \in 0 .. n] == IF k = 0 THEN [h |-> h, i |-> i] ELSE DownStep(sift[k - 1], n)
    IN  sift[n]

HeapPushJob(h, j) == Up(Push(h, j), Len(h.q) + 1)

HeapPopJob(h) == Pop(Down(Swap(h, 1, Len(h.q)), 1, Len(h.q) - 1).h)

\* The last entry fills the hole and goes down, or up if it did not move.
HeapRemoveAt(h, i) ==
    LET n == Len(h.q)
        s == Swap(h, i, n)
        d == Down(s, i, n - 1)
    IN  Pop(IF i = n THEN h ELSE IF d.i = i THEN Up(d.h, i) ELSE d.h)

-----------------------------------------------------------------------------
(* What the methods of GlobalScheduler do with the queue *)

Array == [q |-> queue, ix |-> index]
Becomes(h) == queue' = h.q /\ index' = h.ix

\* Enqueue, RequeueRunningJob
PushJob(j) ==
    /\ Len(queue) < MaxEntries /\ Cardinality(Copies(j)) < MaxCopies
    /\ Becomes(HeapPushJob(Array, j))

\* Requeue resets job.index first.
RequeueJob(j) ==
    /\ Len(queue) < MaxEntries /\ Cardinality(Copies(j)) < MaxCopies
    /\ Becomes(HeapPushJob([Array EXCEPT !.ix[j] = 0], j))

\* Dequeue
PopJob == queue # << >> /\ Becomes(HeapPopJob(Array))

\* Backfill: the first entry in array order that matchFunc accepts.
BackfillJob(accepted) ==
    \E i \in 1 .. Len(queue) :
       /\ queue[i] \in accepted
       /\ \A k \in 1 .. i - 1 : queue[k] \notin accepted
       /\ Becomes(HeapRemoveAt(Array, i))

\* RemoveByID and Cancel of a QUEUED job.
RemoveJob(j) ==
    /\ index[j] > 0 /\ index[j] <= Len(queue)
    /\ Becomes(HeapRemoveAt(Array, index[j]))

QueueNext ==
    \/ PopJob
    \/ \E j \in Jobs : PushJob(j) \/ RequeueJob(j) \/ RemoveJob(j)
    \/ \E accepted \in SUBSET Jobs : BackfillJob(accepted)

QueueSpec == QueueInit /\ [][QueueNext]_queueVars

-----------------------------------------------------------------------------
(* Properties *)

\* Every entry is no later in queue order than the entries below it, whatever
\* mix of Push, Pop, Remove by index and Remove by position led there, and
\* also while a job has several entries: Peek and Dequeue see the first job.
HeapOrdered == \A i \in 2 .. Len(queue) : ~Less(Array, i, i \div 2)

\* A job whose index is set is found there: Cancel and RemoveByID never take
\* another job out of the queue, although duplicate entries share one index.
IndexSound ==
    \A j \in Jobs :
       index[j] # 0 => index[j] <= Len(queue) /\ queue[index[j]] = j

\* The array implements the queue the scheduler model works with.
Bag == INSTANCE HeapBag WITH
           heap <- [j \in Jobs |-> Cardinality(Copies(j))],
           indexed <- {j \in Jobs : index[j] # 0}

ImplementsHeapBag == Bag!HeapSpec
=============================================================================
