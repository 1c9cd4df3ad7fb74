-------------------------- MODULE PersistenceProofs --------------------------
(***************************************************************************)
(* Proofs about modules Persistence and Queries.  The inductive invariant  *)
(* says who may owe a save in which mode, that whatever is on its way to   *)
(* the store is known to the scheduler, and that the restore meets only    *)
(* items that are not in memory yet.                                       *)
(***************************************************************************)
EXTENDS Queries, SequenceTheorems, FiniteSetTheorems, TLAPS

\* Goroutines that have nothing to send in the current mode.
Quiet ==
    /\ mode # "restore" => Free(Main)
    /\ mode \in {"closed", "stopped"} => \A a \in Rpcs : Free(a)
    /\ mode \in {"down", "restore"} => \A a \in Rpcs \cup Loops : Free(a)
    /\ mode = "down" => mem = [i \in Items |-> Absent]
    /\ mode = "stopped" => dbWriteChan = << >> /\ writer.pc = "idle"

\* Whatever is to be saved is in gs.jobs or gs.groups.
InFlightKnown ==
    /\ \A a \in Goroutines : ~Free(a) => owes[a] \in Items /\ Known(owes[a])
    /\ \A k \in 1 .. Len(dbWriteChan) : Known(dbWriteChan[k])
    /\ writer.pc # "idle" => Known(writer.item)

\* An item the restore has yet to look at is in the store and not in memory.
TodoAbsent == mode = "restore" => \A i \in todo : ~Known(i) /\ disk[i] # Absent

\* The writer holds something old only if the change it missed is yet to come.
WriterBehind ==
    writer.pc # "idle" /\ writer.val # mem[writer.item] => Sent(writer.item)

PersistInv ==
    /\ PersistTypeOK /\ Quiet /\ InFlightKnown /\ TodoAbsent
    /\ StaleOnlyWhileOwed /\ WriterBehind

LEMMA ItemsAreNotNull == NoJob \notin Items
  BY NullAssumption, ItemAssumption DEF Items

\* A call takes an entry from the queue, or changes one item to a value that is
\* not Absent; handlers call while the server serves, loops until they return.
LEMMA CallIsChange ==
  ASSUME PersistTypeOK, NEW a \in Goroutines, Call(a)
  PROVE  /\ (a \in Rpcs /\ Serving) \/ (a \in Loops /\ Looping)
         /\ queueLen' \in Nat /\ calls' \in 0 .. MaxCalls
         /\ Dequeue(a) \/ \E i \in Items, v \in Values : Change(a, i, v) /\ v # Absent
<1>0. /\ mem \in [Items -> Values] /\ queueLen \in Nat /\ calls \in 0 .. MaxCalls
      /\ Jobs \subseteq Items /\ Groups \subseteq Items /\ MaxCalls \in Nat
  BY BoundAssumption DEF PersistTypeOK, Items
<1>1. ASSUME NEW i \in Items, NEW s \in {"PENDING", "RUNNING", "COMPLETED", "FAILED",
                                        "CANCELLED", "QUEUED"}, Become(a, i, s)
      PROVE  \E v \in Values : Change(a, i, v) /\ v # Absent
  <2>1. [mem[i] EXCEPT !.state = s] \in Values /\ [mem[i] EXCEPT !.state = s] # Absent
    BY <1>0 DEF Values, Absent
  <2> QED
    BY <1>1, <2>1 DEF Become
<1>2. ASSUME NEW j \in Jobs, Requeue(a, j)
      PROVE  queueLen' \in Nat /\ \E v \in Values : Change(a, j, v) /\ v # Absent
  <2>1. mem[j] \in Values
    BY <1>0
  <2>2. /\ [state |-> "QUEUED", retries |-> mem[j].retries + 1] \in Values
        /\ [state |-> "QUEUED", retries |-> mem[j].retries + 1] # Absent
    BY <2>1 DEF Values, Absent
  <2> QED
    BY <1>0, <1>2, <2>2 DEF Requeue, Push
<1>3. ASSUME NEW j \in Jobs, Enqueue(a, j)
      PROVE  queueLen' \in Nat /\ \E v \in Values : Change(a, j, v) /\ v # Absent
  <2>1. [Absent EXCEPT !.state = "QUEUED"] \in Values /\ [Absent EXCEPT !.state = "QUEUED"] # Absent
    BY DEF Values, Absent
  <2> QED
    BY <1>0, <1>3, <2>1 DEF Enqueue, Push
<1>4. ASSUME NEW j \in Jobs, Cancel(a, j)
      PROVE  queueLen' \in Nat /\ \E v \in Values : Change(a, j, v) /\ v # Absent
  BY <1>0, <1>1, <1>4 DEF Cancel
<1>5. ASSUME NEW j \in Jobs, RequeueRunningJob(a, j) \/ MarkRunning(a, j)
      PROVE  queueLen' \in Nat /\ \E v \in Values : Change(a, j, v) /\ v # Absent
  BY <1>0, <1>1, <1>5 DEF RequeueRunningJob, MarkRunning, Push
<1>6. ASSUME NEW j \in Jobs, NEW s \in {"COMPLETED", "FAILED"}, MarkCompleted(a, j, s)
      PROVE  queueLen' \in Nat /\ \E v \in Values : Change(a, j, v) /\ v # Absent
  BY <1>0, <1>1, <1>6 DEF MarkCompleted
<1>7. ASSUME NEW g \in Groups, NEW s \in {"RUNNING", "COMPLETED", "FAILED"},
             RegisterGroup(a, g) \/ SetGroupState(a, g, s)
      PROVE  queueLen' \in Nat /\ \E v \in Values : Change(a, g, v) /\ v # Absent
  BY <1>0, <1>1, <1>7 DEF RegisterGroup, SetGroupState
<1>8. calls' \in 0 .. MaxCalls
  BY <1>0 DEF Call
<1>9. CASE Handle(a)
  <2>1. \/ \E j \in Jobs : Enqueue(a, j) \/ Cancel(a, j)
        \/ \E j \in Jobs, s \in {"COMPLETED", "FAILED"} : MarkCompleted(a, j, s)
        \/ \E g \in Groups : RegisterGroup(a, g)
        \/ \E g \in Groups, s \in {"COMPLETED", "FAILED"} : SetGroupState(a, g, s)
    BY <1>9 DEF Handle, Submit
  <2>2. queueLen' \in Nat /\ \E i \in Items, v \in Values : Change(a, i, v) /\ v # Absent
    BY <1>0, <1>3, <1>4, <1>6, <1>7, <2>1
  <2> QED
    BY <1>8, <1>9, <2>2 DEF Handle
<1>10. CASE Loop(a)
  <2>1. \/ Dequeue(a)
        \/ \E j \in Jobs : MarkRunning(a, j) \/ Cancel(a, j) \/ RequeueRunningJob(a, j)
                           \/ MarkCompleted(a, j, "FAILED") \/ Requeue(a, j)
        \/ \E g \in Groups, s \in {"RUNNING", "FAILED"} : SetGroupState(a, g, s)
    BY <1>10 DEF Loop
  <2>2. Dequeue(a) => queueLen' \in Nat
    BY <1>0 DEF Dequeue
  <2>3. \/ Dequeue(a)
        \/ queueLen' \in Nat /\ \E i \in Items, v \in Values : Change(a, i, v) /\ v # Absent
    BY <1>0, <1>2, <1>4, <1>5, <1>6, <1>7, <2>1
  <2> QED
    BY <1>8, <1>10, <2>2, <2>3 DEF Loop
<1> QED
  BY <1>9, <1>10 DEF Call

LEMMA ChangeInv ==
  ASSUME PersistInv, NEW a \in Goroutines, NEW i \in Items, NEW v \in Values,
         v # Absent, Change(a, i, v), queueLen' \in Nat, calls' \in 0 .. MaxCalls,
         (a \in Rpcs /\ Serving) \/ (a \in Loops /\ Looping)
  PROVE  PersistInv'
<1> USE DEF Change
<1>0. /\ owes' = [owes EXCEPT ![a] = i]
      /\ mem' = [mem EXCEPT ![i] = v]
      /\ owes \in [Goroutines -> Items \cup {NoJob}]
      /\ mem \in [Items -> Values]
  BY DEF PersistInv, PersistTypeOK
<1>1. PersistTypeOK'
  BY <1>0 DEF PersistInv, PersistTypeOK
<1>2. Quiet'
  <2>1. a # Main /\ a \notin {Main}
    BY GoroutineAssumption
  <2>2. \A b \in Goroutines \ {a} : Free(b)' <=> Free(b)
    BY <1>0 DEF Free
  <2>3. mode \in {"up", "drain", "stop", "closed"} /\ mode' = mode
    BY DEF Serving, Looping
  <2>4. mode = "closed" => a \notin Rpcs
    BY GoroutineAssumption DEF Serving
  <2> QED
    BY <2>1, <2>2, <2>3, <2>4 DEF Quiet, PersistInv, Goroutines
<1>3. InFlightKnown'
  <2>1. \A k \in Items : mem[k] # Absent => mem'[k] # Absent
    BY <1>0
  <2>2. mem'[i] # Absent
    BY <1>0
  <2>3. ASSUME NEW b \in Goroutines, ~Free(b)'
        PROVE  owes'[b] \in Items /\ mem'[owes'[b]] # Absent
    <3>1. CASE b = a
      BY <1>0, <2>2, <3>1
    <3>2. CASE b # a
      BY <1>0, <2>1, <2>3, <3>2 DEF InFlightKnown, PersistInv, Free, Known
    <3> QED
      BY <3>1, <3>2
  <2>4. \A k \in 1 .. Len(dbWriteChan) : dbWriteChan[k] \in Items /\ mem[dbWriteChan[k]] # Absent
    BY DEF PersistInv, PersistTypeOK, InFlightKnown, Known
  <2>5. writer.pc # "idle" => writer.item \in Items /\ mem[writer.item] # Absent
    BY DEF PersistInv, PersistTypeOK, InFlightKnown, Known
  <2> QED
    BY <2>1, <2>3, <2>4, <2>5 DEF InFlightKnown, Known
<1>4. TodoAbsent'
  BY DEF TodoAbsent, Serving, Looping
<1>5. Sent(i)'
  BY <1>0 DEF Sent
<1>6. ASSUME NEW k \in Items, k # i
      PROVE  mem'[k] = mem[k] /\ (Sent(k) => Sent(k)')
  <2>1. owes[a] # k
    BY ItemsAreNotNull DEF Free
  <2>2. \A b \in Goroutines : owes[b] = k => owes'[b] = k
    BY <1>0, <2>1
  <2> QED
    BY <1>0, <1>6, <2>2 DEF Sent
<1>7. StaleOnlyWhileOwed'
  BY <1>5, <1>6 DEF PersistInv, StaleOnlyWhileOwed, Owed
<1>8. WriterBehind'
  <2>1. writer.pc # "idle" => writer.item \in Items
    BY DEF PersistInv, PersistTypeOK
  <2> QED
    BY <1>5, <1>6, <2>1 DEF PersistInv, WriterBehind
<1> QED
  BY <1>1, <1>2, <1>3, <1>4, <1>7, <1>8 DEF PersistInv

LEMMA SendInv ==
  ASSUME PersistInv, NEW a \in Goroutines, Alive, Send(a)
  PROVE  PersistInv'
<1> USE DEF Send, tableVars
<1> DEFINE n == Len(dbWriteChan)
<1>0. /\ owes' = [owes EXCEPT ![a] = NoJob]
      /\ owes \in [Goroutines -> Items \cup {NoJob}]
      /\ dbWriteChan \in Seq(Items) /\ n \in Nat /\ n < ChanCap
      /\ owes[a] \in Items /\ Known(owes[a])
  BY DEF PersistInv, PersistTypeOK, InFlightKnown
<1>1. /\ dbWriteChan' \in Seq(Items)
      /\ Len(dbWriteChan') = n + 1
      /\ \A k \in 1 .. n : dbWriteChan'[k] = dbWriteChan[k]
      /\ dbWriteChan'[n + 1] = owes[a]
  BY <1>0
<1>2. PersistTypeOK'
  <2>1. owes' \in [Goroutines -> Items \cup {NoJob}]
    BY <1>0
  <2>2. Len(dbWriteChan') <= ChanCap
    BY <1>0, <1>1, BoundAssumption
  <2> QED
    BY <1>0, <1>1, <2>1, <2>2 DEF PersistInv, PersistTypeOK, tableVars
<1>3. Quiet'
  BY <1>0 DEF Quiet, PersistInv, Free, Alive
<1>4. InFlightKnown'
  <2>1. \A b \in Goroutines : ~Free(b)' => owes'[b] = owes[b] /\ ~Free(b)
    BY <1>0 DEF Free
  <2>2. \A k \in 1 .. Len(dbWriteChan') : Known(dbWriteChan'[k])
    BY <1>0, <1>1 DEF PersistInv, InFlightKnown
  <2> QED
    BY <2>1, <2>2 DEF PersistInv, InFlightKnown, Known
<1>5. TodoAbsent'
  BY DEF TodoAbsent, PersistInv, Known
<1>6. ASSUME NEW k \in Items, Sent(k)
      PROVE  Sent(k)'
  <2>1. CASE k = owes[a]
    BY <1>0, <1>1, <2>1 DEF Sent
  <2>2. CASE k # owes[a]
    <3>1. \A b \in Goroutines : owes[b] = k => owes'[b] = k
      BY <1>0, <2>2
    <3>2. \A m \in 1 .. n : m \in 1 .. Len(dbWriteChan')
      BY <1>0, <1>1
    <3> QED
      BY <1>1, <1>6, <3>1, <3>2 DEF Sent
  <2> QED
    BY <2>1, <2>2
<1>7. StaleOnlyWhileOwed'
  BY <1>6 DEF PersistInv, StaleOnlyWhileOwed, Owed
<1>8. WriterBehind'
  BY <1>6 DEF PersistInv, PersistTypeOK, WriterBehind
<1> QED
  BY <1>2, <1>3, <1>4, <1>5, <1>7, <1>8 DEF PersistInv

\* The writer may read an item while it changes; whoever changed it since owes
\* a save, so a torn or old value on its way to the store is not the last one.
LEMMA TakeInv ==
  ASSUME PersistInv, Alive, Take
  PROVE  PersistInv'
<1> USE DEF Take, Written, tableVars
<1> DEFINE n == Len(dbWriteChan)
           h == Head(dbWriteChan)
<1>0. dbWriteChan \in Seq(Items) /\ n \in Nat /\ n # 0 /\ mem \in [Items -> Values]
  BY DEF PersistInv, PersistTypeOK
<1>1. /\ h = dbWriteChan[1] /\ h \in Items
      /\ dbWriteChan' \in Seq(Items)
      /\ Len(dbWriteChan') = n - 1
      /\ \A k \in 1 .. n - 1 : dbWriteChan'[k] = dbWriteChan[k + 1]
  BY <1>0
<1>2. PersistTypeOK'
  <2>1. Len(dbWriteChan') <= ChanCap
    BY <1>0, <1>1, BoundAssumption DEF PersistInv, PersistTypeOK
  <2>2. writer' \in [pc : {"idle", "read", "save"}, item : Items \cup {NoJob}, val : Values]
    BY <1>0, <1>1
  <2>3. writer'.item \in Items
    BY <1>1
  <2> QED
    BY <1>1, <2>1, <2>2, <2>3 DEF PersistInv, PersistTypeOK
<1>3. Quiet'
  BY DEF Quiet, PersistInv, Free, Alive
<1>4. InFlightKnown'
  <2>1. \A k \in 1 .. n : mem[dbWriteChan[k]] # Absent
    BY DEF PersistInv, InFlightKnown, Known
  <2>2. mem[h] # Absent
    BY <1>0, <1>1, <2>1
  <2>3. ASSUME NEW k \in 1 .. Len(dbWriteChan')
        PROVE  mem[dbWriteChan'[k]] # Absent
    <3>1. k \in 1 .. n - 1 /\ k + 1 \in 1 .. n
      BY <1>0, <1>1
    <3> QED
      BY <1>1, <2>1, <3>1
  <2> QED
    BY <2>2, <2>3 DEF PersistInv, InFlightKnown, Known, Free
<1>5. TodoAbsent'
  BY DEF TodoAbsent, PersistInv, Known
<1>6. StaleOnlyWhileOwed'
  <2> SUFFICES ASSUME NEW k \in Items, (mem[k] # Absent /\ disk[k] # mem[k])'
               PROVE  Owed(k)'
    BY DEF StaleOnlyWhileOwed
  <2>1. Owed(k)
    BY DEF PersistInv, StaleOnlyWhileOwed
  <2>2. CASE \E a \in Goroutines : owes[a] = k
    BY <2>2 DEF Owed, Sent
  <2>3. CASE k = h
    BY <2>3 DEF Owed
  <2>4. CASE k # h /\ \E m \in 1 .. n : dbWriteChan[m] = k
    <3>1. PICK m \in 1 .. n : dbWriteChan[m] = k
      BY <2>4
    <3>2. m # 1
      BY <1>1, <2>4, <3>1
    <3>3. m - 1 \in 1 .. Len(dbWriteChan') /\ m - 1 \in 1 .. n - 1 /\ (m - 1) + 1 = m
      BY <1>0, <1>1, <3>2
    <3>4. dbWriteChan'[m - 1] = k
      BY <1>1, <3>1, <3>3
    <3> QED
      BY <3>3, <3>4 DEF Owed, Sent
  <2> QED
    BY <2>1, <2>2, <2>3, <2>4 DEF Owed, Sent
<1>7. WriterBehind'
  BY DEF WriterBehind
<1> QED
  BY <1>2, <1>3, <1>4, <1>5, <1>6, <1>7 DEF PersistInv

LEMMA ReadStateInv ==
  ASSUME PersistInv, Alive, ReadState
  PROVE  PersistInv'
<1> USE DEF ReadState, Written, tableVars
<1>0. PICK s \in {mem[writer.item].state, "TORN"} :
         /\ mem[writer.item].state = writer.val.state => s = writer.val.state
         /\ writer' = [writer EXCEPT !.pc = "save", !.val.state = s]
  OBVIOUS
<1>1. /\ writer \in [pc : {"idle", "read", "save"}, item : Items \cup {NoJob}, val : Values]
      /\ writer.item \in Items /\ mem[writer.item] \in Values
  BY DEF PersistInv, PersistTypeOK
<1>2. /\ writer' = [pc |-> "save", item |-> writer.item,
                    val |-> [state |-> s, retries |-> writer.val.retries]]
      /\ s \in {"NONE", "QUEUED", "PENDING", "RUNNING", "COMPLETED", "FAILED",
                "CANCELLED", "TORN"}
  BY <1>0, <1>1 DEF Values
<1>3. writer.val = mem[writer.item] => writer'.val = mem[writer.item]
  BY <1>0, <1>1, <1>2 DEF Values
<1>4. PersistTypeOK'
  BY <1>1, <1>2 DEF PersistInv, PersistTypeOK, Values
<1>5. Quiet'
  BY DEF Quiet, PersistInv, Free, Alive
<1>6. InFlightKnown'
  BY <1>2 DEF PersistInv, InFlightKnown, Known, Free
<1>7. TodoAbsent'
  BY DEF TodoAbsent, PersistInv, Known
<1>8. StaleOnlyWhileOwed'
  BY <1>2, <1>3 DEF PersistInv, StaleOnlyWhileOwed, Owed, Sent
<1>9. WriterBehind'
  BY <1>2, <1>3 DEF PersistInv, WriterBehind, Sent
<1> QED
  BY <1>4, <1>5, <1>6, <1>7, <1>8, <1>9 DEF PersistInv

LEMMA SaveInv ==
  ASSUME PersistInv, Alive, Save
  PROVE  PersistInv'
<1> USE DEF Save, Written, tableVars
<1>0. /\ writer.item \in Items /\ writer.val \in Values
      /\ disk \in [Items -> Values]
      /\ disk' = [disk EXCEPT ![writer.item] = writer.val]
      /\ writer' = IdleWriter
  BY DEF PersistInv, PersistTypeOK
<1>1. PersistTypeOK'
  BY <1>0 DEF PersistInv, PersistTypeOK, IdleWriter, Absent, Values
<1>2. Quiet'
  BY DEF Quiet, PersistInv, Free, Alive
<1>3. InFlightKnown'
  BY <1>0 DEF PersistInv, InFlightKnown, Known, Free, IdleWriter
<1>4. TodoAbsent'
  <2>1. writer.item \notin todo \/ mode # "restore"
    BY DEF PersistInv, InFlightKnown, TodoAbsent
  <2> QED
    BY <1>0, <2>1 DEF TodoAbsent, PersistInv, PersistTypeOK, Known
<1>5. StaleOnlyWhileOwed'
  <2> SUFFICES ASSUME NEW k \in Items, (mem[k] # Absent /\ disk[k] # mem[k])'
               PROVE  Owed(k)'
    BY DEF StaleOnlyWhileOwed
  <2>1. CASE k = writer.item
    <3>1. writer.val # mem[k]
      BY <1>0, <2>1
    <3>2. Sent(k)
      BY <2>1, <3>1 DEF PersistInv, WriterBehind
    <3> QED
      BY <3>2 DEF Owed, Sent
  <2>2. CASE k # writer.item
    BY <1>0, <2>2 DEF PersistInv, StaleOnlyWhileOwed, Owed, Sent
  <2> QED
    BY <2>1, <2>2
<1>6. WriterBehind'
  BY <1>0 DEF WriterBehind, IdleWriter
<1> QED
  BY <1>1, <1>2, <1>3, <1>4, <1>5, <1>6 DEF PersistInv

LEMMA StartInv ==
  ASSUME PersistInv, Start
  PROVE  PersistInv'
<1> USE DEF Start, Forget, LoadJobs, LoadGroups
<1>1. /\ mem' = [i \in Items |-> Absent]
      /\ owes' = [a \in Goroutines |-> NoJob]
      /\ dbWriteChan' = << >> /\ writer' = IdleWriter /\ mode' = "restore"
  OBVIOUS
<1>2. PersistTypeOK'
  <2>1. mem' \in [Items -> Values]
    BY <1>1 DEF Absent, Values
  <2>2. owes' \in [Goroutines -> Items \cup {NoJob}]
    BY <1>1
  <2>3. writer' \in [pc : {"idle", "read", "save"}, item : Items \cup {NoJob}, val : Values]
    BY <1>1 DEF IdleWriter, Absent, Values
  <2>4. dbWriteChan' \in Seq(Items) /\ Len(dbWriteChan') <= ChanCap
    BY <1>1, BoundAssumption
  <2>5. starts' \in 0 .. MaxStarts
    BY BoundAssumption DEF PersistInv, PersistTypeOK
  <2>6. mode' \in Modes
    BY <1>1 DEF Modes
  <2>7. todo' \subseteq Items
    BY DEF Items
  <2> QED
    BY <1>1, <2>1, <2>2, <2>3, <2>4, <2>5, <2>6, <2>7 DEF PersistInv, PersistTypeOK, IdleWriter
<1>3. Quiet'
  BY <1>1 DEF Quiet, Free, Goroutines
<1>4. InFlightKnown'
  BY <1>1 DEF InFlightKnown, Free, IdleWriter
<1>5. TodoAbsent'
  BY <1>1 DEF TodoAbsent, Known, Items
<1>6. StaleOnlyWhileOwed' /\ WriterBehind'
  BY <1>1 DEF StaleOnlyWhileOwed, WriterBehind, IdleWriter
<1> QED
  BY <1>2, <1>3, <1>4, <1>5, <1>6 DEF PersistInv

LEMMA DiesInv ==
  ASSUME PersistInv, Dies
  PROVE  PersistInv'
<1> USE DEF Dies, Forget
<1>1. /\ mem' = [i \in Items |-> Absent]
      /\ owes' = [a \in Goroutines |-> NoJob]
      /\ dbWriteChan' = << >> /\ writer' = IdleWriter /\ mode' = "down"
  OBVIOUS
<1>2. PersistTypeOK'
  <2>1. mem' \in [Items -> Values]
    BY <1>1 DEF Absent, Values
  <2>2. owes' \in [Goroutines -> Items \cup {NoJob}]
    BY <1>1
  <2>3. writer' \in [pc : {"idle", "read", "save"}, item : Items \cup {NoJob}, val : Values]
    BY <1>1 DEF IdleWriter, Absent, Values
  <2>4. dbWriteChan' \in Seq(Items) /\ Len(dbWriteChan') <= ChanCap
    BY <1>1, BoundAssumption
  <2>5. mode' \in Modes
    BY <1>1 DEF Modes
  <2> QED
    BY <1>1, <2>1, <2>2, <2>3, <2>4, <2>5 DEF PersistInv, PersistTypeOK, IdleWriter
<1>3. Quiet'
  BY <1>1 DEF Quiet, Free, Goroutines
<1>4. InFlightKnown'
  BY <1>1 DEF InFlightKnown, Free, IdleWriter
<1>5. TodoAbsent'
  BY <1>1 DEF TodoAbsent
<1>6. StaleOnlyWhileOwed' /\ WriterBehind'
  BY <1>1 DEF StaleOnlyWhileOwed, WriterBehind, IdleWriter
<1> QED
  BY <1>2, <1>3, <1>4, <1>5, <1>6 DEF PersistInv

\* The restore makes memory and store agree on an item, one after the other.
LEMMA RestoreInv ==
  ASSUME PersistInv, NEW i \in todo, NEW v \in Values, mode = "restore", Free(Main),
         queueLen' \in Nat,
         \/ mem' = [mem EXCEPT ![i] = v] /\ disk' = [disk EXCEPT ![i] = v] /\ v # Absent
            /\ owes' = [owes EXCEPT ![Main] = i]
         \/ mem' = mem /\ owes' = owes /\ disk' = [disk EXCEPT ![i] = v],
         Restored(i)
  PROVE  PersistInv'
<1> USE DEF Restored
<1>0. /\ i \in Items /\ Main \in Goroutines /\ mem[i] = Absent
      /\ owes \in [Goroutines -> Items \cup {NoJob}]
      /\ mem \in [Items -> Values] /\ disk \in [Items -> Values]
  BY DEF PersistInv, PersistTypeOK, TodoAbsent, Known, Goroutines
<1>1. PersistTypeOK'
  <2>1. mem' \in [Items -> Values] /\ disk' \in [Items -> Values]
    BY <1>0
  <2>2. owes' \in [Goroutines -> Items \cup {NoJob}]
    BY <1>0
  <2> QED
    BY <2>1, <2>2 DEF PersistInv, PersistTypeOK
<1>2. Quiet'
  <2>1. \A b \in Rpcs \cup Loops : b \in Goroutines /\ b # Main
    BY GoroutineAssumption DEF Goroutines
  <2>2. \A b \in Rpcs \cup Loops : owes'[b] = owes[b]
    BY <1>0, <2>1
  <2>3. \A b \in Rpcs \cup Loops : Free(b)'
    BY <2>2 DEF PersistInv, Quiet, Free
  <2> QED
    BY <2>3 DEF Quiet
<1>3. \A k \in Items : mem[k] # Absent => mem'[k] = mem[k]
  BY <1>0
<1>4. InFlightKnown'
  <2>1. ASSUME NEW b \in Goroutines, ~Free(b)'
        PROVE  owes'[b] \in Items /\ mem'[owes'[b]] # Absent
    <3>1. CASE owes'[b] = owes[b]
      BY <1>3, <2>1, <3>1 DEF PersistInv, InFlightKnown, Known, Free
    <3>2. CASE owes'[b] # owes[b]
      BY <1>0, <3>2
    <3> QED
      BY <3>1, <3>2
  <2>2. \A k \in 1 .. Len(dbWriteChan) : dbWriteChan[k] \in Items /\ mem[dbWriteChan[k]] # Absent
    BY DEF PersistInv, PersistTypeOK, InFlightKnown, Known
  <2>3. writer.pc # "idle" => writer.item \in Items /\ mem[writer.item] # Absent
    BY DEF PersistInv, PersistTypeOK, InFlightKnown, Known
  <2> QED
    BY <1>3, <2>1, <2>2, <2>3 DEF InFlightKnown, Known
<1>5. TodoAbsent'
  BY <1>0 DEF PersistInv, TodoAbsent, Known, PersistTypeOK
<1>6. ASSUME NEW k \in Items, k # i, Sent(k)
      PROVE  Sent(k)'
  <2>1. owes[Main] # k
    BY ItemsAreNotNull DEF Free
  <2>2. \A b \in Goroutines : owes[b] = k => owes'[b] = k
    BY <1>0, <2>1
  <2> QED
    BY <1>6, <2>2 DEF Sent
<1>7. StaleOnlyWhileOwed'
  <2> SUFFICES ASSUME NEW k \in Items, (mem[k] # Absent /\ disk[k] # mem[k])'
               PROVE  Owed(k)'
    BY DEF StaleOnlyWhileOwed
  <2>1. k # i
    BY <1>0
  <2>2. mem'[k] = mem[k] /\ disk'[k] = disk[k]
    BY <1>0, <2>1
  <2>3. Owed(k)
    BY <2>2 DEF PersistInv, StaleOnlyWhileOwed
  <2> QED
    BY <1>6, <2>1, <2>2, <2>3 DEF Owed
<1>8. WriterBehind'
  <2>1. writer.pc # "idle" => writer.item \in Items /\ mem[writer.item] # Absent
    BY DEF PersistInv, PersistTypeOK, InFlightKnown, Known
  <2>2. writer.pc # "idle" => writer.item # i /\ mem'[writer.item] = mem[writer.item]
    BY <1>0, <1>3, <2>1
  <2> QED
    BY <1>6, <2>1, <2>2 DEF PersistInv, WriterBehind
<1> QED
  BY <1>1, <1>2, <1>4, <1>5, <1>7, <1>8 DEF PersistInv

LEMMA RestoringInv ==
  ASSUME PersistInv, Restoring
  PROVE  PersistInv'
<1>0. todo \subseteq Items /\ disk \in [Items -> Values] /\ queueLen \in Nat
  BY DEF PersistInv, PersistTypeOK
<1>1. CASE Ready
  <2> USE DEF Ready, Goes, procVars, tableVars
  <2>1. PersistTypeOK'
    BY <1>1 DEF PersistInv, PersistTypeOK, Modes
  <2>2. Quiet' /\ TodoAbsent'
    BY <1>1 DEF PersistInv, Quiet, Free, TodoAbsent
  <2>3. InFlightKnown' /\ StaleOnlyWhileOwed' /\ WriterBehind'
    BY <1>1 DEF PersistInv, InFlightKnown, Known, Free, StaleOnlyWhileOwed, Owed, Sent, WriterBehind
  <2> QED
    BY <2>1, <2>2, <2>3 DEF PersistInv
<1>2. ASSUME NEW j \in Jobs, RestoreQueued(j)
      PROVE  PersistInv'
  <2>1. j \in todo /\ disk[j] \in Values /\ disk[j] # Absent
    BY <1>0, <1>2 DEF RestoreQueued, Absent
  <2>2. disk' = [disk EXCEPT ![j] = disk[j]]
    BY <1>0, <1>2, <2>1 DEF RestoreQueued
  <2>3. /\ mode = "restore" /\ Free(Main) /\ Restored(j) /\ queueLen' \in Nat
        /\ \/ mem' = [mem EXCEPT ![j] = disk[j]] /\ owes' = [owes EXCEPT ![Main] = j]
           \/ mem' = mem /\ owes' = owes
    BY <1>0, <1>2 DEF RestoreQueued, Restore, tableVars
  <2> QED
    BY <2>1, <2>2, <2>3, RestoreInv
<1>3. ASSUME NEW j \in Jobs, RestoreOther(j)
      PROVE  PersistInv'
  <2>1. j \in todo /\ disk[j] \in Values
    BY <1>0, <1>3 DEF RestoreOther
  <2>2. [disk[j] EXCEPT !.state = "FAILED"] \in Values
    BY <2>1 DEF Values
  <2>3. \E v \in Values : disk' = [disk EXCEPT ![j] = v]
    <3>1. CASE disk[j].state = "RUNNING"
      <4>1. disk' = [disk EXCEPT ![j] = [disk[j] EXCEPT !.state = "FAILED"]]
        BY <1>0, <1>3, <3>1 DEF RestoreOther
      <4> QED
        BY <2>2, <4>1
    <3>2. CASE disk[j].state # "RUNNING"
      <4>1. disk' = [disk EXCEPT ![j] = disk[j]]
        BY <1>0, <1>3, <3>2 DEF RestoreOther
      <4> QED
        BY <2>1, <4>1
    <3> QED
      BY <3>1, <3>2
  <2> QED
    BY <1>0, <1>3, <2>1, <2>3, RestoreInv DEF RestoreOther, tableVars
<1>4. ASSUME NEW g \in Groups, RestoreGroup(g)
      PROVE  PersistInv'
  <2> DEFINE v == IF disk[g].state \in {"PENDING", "RUNNING"}
                  THEN [disk[g] EXCEPT !.state = "FAILED"] ELSE disk[g]
  <2>1. g \in todo /\ disk[g] \in Values /\ disk[g] # Absent
    BY <1>0, <1>4 DEF RestoreGroup, PersistInv, TodoAbsent
  <2>2. v \in Values /\ v # Absent
    BY <2>1 DEF Values, Absent
  <2>3. /\ mode = "restore" /\ Free(Main) /\ Restored(g)
        /\ disk' = [disk EXCEPT ![g] = v] /\ mem' = [mem EXCEPT ![g] = v]
        /\ owes' = [owes EXCEPT ![Main] = g] /\ queueLen' \in Nat
    BY <1>0, <1>4 DEF RestoreGroup, Restore
  <2> HIDE DEF v
  <2> QED
    BY <2>1, <2>2, <2>3, RestoreInv
<1> QED
  BY <1>1, <1>2, <1>3, <1>4 DEF Restoring

LEMMA StoppingInv ==
  ASSUME PersistInv, Stopping
  PROVE  PersistInv'
<1> USE DEF Drain, Stop, CloseChan, Exit, Goes, procVars, tableVars
<1>1. PersistTypeOK'
  BY DEF Stopping, PersistInv, PersistTypeOK, Modes
<1>2. Quiet' /\ TodoAbsent'
  BY DEF Stopping, PersistInv, Quiet, Free, TodoAbsent
<1>3. InFlightKnown' /\ StaleOnlyWhileOwed' /\ WriterBehind'
  BY DEF Stopping, PersistInv, InFlightKnown, Known, Free, StaleOnlyWhileOwed, Owed, Sent,
         WriterBehind
<1> QED
  BY <1>1, <1>2, <1>3 DEF PersistInv

\* Steps that change nothing but the queue's length and the count of calls.
LEMMA IdleInv ==
  ASSUME PersistInv, UNCHANGED <<mode, mem, disk, owes, dbWriteChan, writer, todo, starts>>,
         queueLen' \in Nat, calls' \in 0 .. MaxCalls
  PROVE  PersistInv'
<1>1. PersistTypeOK'
  BY DEF PersistInv, PersistTypeOK
<1>2. Quiet' /\ TodoAbsent'
  BY DEF PersistInv, Quiet, Free, TodoAbsent, Known
<1>3. InFlightKnown' /\ StaleOnlyWhileOwed' /\ WriterBehind'
  BY DEF PersistInv, InFlightKnown, Known, Free, StaleOnlyWhileOwed, Owed, Sent, WriterBehind
<1> QED
  BY <1>1, <1>2, <1>3 DEF PersistInv

LEMMA PersistInitInv == PersistInit => PersistInv
<1> SUFFICES ASSUME PersistInit PROVE PersistInv
  OBVIOUS
<1> USE DEF PersistInit
<1>1. PersistTypeOK
  BY BoundAssumption DEF PersistTypeOK, Modes, Values, Absent, IdleWriter
<1>2. Quiet /\ TodoAbsent
  BY DEF Quiet, Free, TodoAbsent, Goroutines
<1>3. InFlightKnown /\ StaleOnlyWhileOwed /\ WriterBehind
  BY DEF InFlightKnown, Free, StaleOnlyWhileOwed, WriterBehind, IdleWriter
<1> QED
  BY <1>1, <1>2, <1>3 DEF PersistInv

LEMMA PersistNextInv == PersistInv /\ [PersistNext]_persistVars => PersistInv'
<1> SUFFICES ASSUME PersistInv, [PersistNext]_persistVars PROVE PersistInv'
  OBVIOUS
<1>1. CASE Start
  BY <1>1, StartInv
<1>2. CASE Restoring
  BY <1>2, RestoringInv
<1>3. CASE Stopping
  BY <1>3, StoppingInv
<1>4. CASE Crash
  BY <1>4, DiesInv DEF Crash
<1>5. CASE Alive /\ WriterStep
  BY <1>5, TakeInv, ReadStateInv, SaveInv DEF WriterStep
<1>6. ASSUME NEW a \in Goroutines, Alive /\ Send(a) PROVE PersistInv'
  BY <1>6, SendInv
<1>7. ASSUME NEW a \in Goroutines, Call(a) PROVE PersistInv'
  <2>1. /\ (a \in Rpcs /\ Serving) \/ (a \in Loops /\ Looping)
        /\ queueLen' \in Nat /\ calls' \in 0 .. MaxCalls
        /\ Dequeue(a) \/ \E i \in Items, v \in Values : Change(a, i, v) /\ v # Absent
    BY <1>7, CallIsChange DEF PersistInv
  <2>2. CASE Dequeue(a)
    BY <2>1, <2>2, IdleInv DEF Dequeue, procVars
  <2>3. CASE \E i \in Items, v \in Values : Change(a, i, v) /\ v # Absent
    BY <2>1, <2>3, ChangeInv
  <2> QED
    BY <2>1, <2>2, <2>3
<1>8. ASSUME NEW a \in Goroutines, PanicOnClosed(a) PROVE PersistInv'
  BY <1>8, DiesInv DEF PanicOnClosed
<1>9. CASE UNCHANGED persistVars
  <2>1. queueLen' \in Nat /\ calls' \in 0 .. MaxCalls
    BY <1>9 DEF persistVars, tableVars, PersistInv, PersistTypeOK
  <2> QED
    BY <1>9, <2>1, IdleInv DEF persistVars, tableVars, procVars
<1> QED
  BY <1>1, <1>2, <1>3, <1>4, <1>5, <1>6, <1>7, <1>8, <1>9 DEF PersistNext, Over

\* For any jobs, groups, goroutines and channel capacity: the store is behind
\* about a job or a group only while a save of its current value is owed.
THEOREM StoreCatchesUp == PersistSafety => []StaleOnlyWhileOwed
<1>1. PersistInv => StaleOnlyWhileOwed
  BY DEF PersistInv
<1> QED
  BY <1>1, PersistInitInv, PersistNextInv, PTL DEF PersistSafety

\* What a stopped master has not saved, one of its loops never came to send.
LEMMA CaughtByLoop == PersistInv => StopLosesOnlyCaught
<1> SUFFICES ASSUME PersistInv, mode = "stopped", NEW i \in Items,
                    mem[i] # Absent, disk[i] # mem[i]
             PROVE  \E a \in Loops : owes[a] = i
  BY DEF StopLosesOnlyCaught
<1>1. Owed(i) /\ dbWriteChan = << >> /\ writer.pc = "idle"
  BY DEF PersistInv, StaleOnlyWhileOwed, Quiet
<1>2. PICK a \in Goroutines : owes[a] = i
  BY <1>1 DEF Owed, Sent
<1>3. ~Free(a)
  BY <1>2, ItemsAreNotNull DEF Free
<1>4. a \notin Rpcs /\ a # Main
  BY <1>3 DEF PersistInv, Quiet
<1> QED
  BY <1>2, <1>4 DEF Goroutines

\* A graceful stop loses nothing but what a loop had changed and not sent when
\* the channel was closed (MasterHandle.Cancel and cleanDB).
THEOREM StopKeepsWhatWasSent == PersistSafety => []StopLosesOnlyCaught
  BY CaughtByLoop, PersistInitInv, PersistNextInv, PTL DEF PersistSafety

-----------------------------------------------------------------------------
(* The restore *)

KnownJobs == {k \in Jobs : Known(k)}

\* During the restore the queue has one entry for each job that is known, and a
\* live job that has been looked at is known unless the queue is full.
RestoreOK ==
    mode = "restore" =>
       /\ IsFiniteSet(KnownJobs) /\ queueLen = Cardinality(KnownJobs)
       /\ \A j \in Jobs :
             disk[j].state \in {"QUEUED", "RUNNING"} => j \in todo \/ Known(j) \/ Full

\* Steps that leave the queue, the known jobs and what is to do alone.
LEMMA RestoreKept ==
  ASSUME RestoreOK, mode = "restore" \/ mode' # "restore", queueLen' = queueLen, todo' = todo,
         \A j \in Jobs : Known(j)' <=> Known(j),
         \A j \in Jobs : disk'[j] = disk[j] \/ Known(j)
  PROVE  RestoreOK'
<1> SUFFICES ASSUME mode = "restore", mode' = "restore"
             PROVE  RestoreOK'
  BY DEF RestoreOK
<1>1. KnownJobs' = KnownJobs
  BY DEF KnownJobs
<1> QED
  BY <1>1 DEF RestoreOK, Full

LEMMA RestoreStep ==
  ASSUME PersistInv, RestoreOK, [PersistNext]_persistVars
  PROVE  RestoreOK'
<1>0. /\ mem \in [Items -> Values] /\ disk \in [Items -> Values] /\ queueLen \in Nat
      /\ todo \subseteq Items /\ Jobs \subseteq Items /\ MaxQueueSize \in Nat
  BY BoundAssumption DEF PersistInv, PersistTypeOK, Items
<1>1. CASE Start
  <2>1. \A j \in Jobs : mem'[j] = Absent
    BY <1>0, <1>1 DEF Start, Forget
  <2>2. KnownJobs' = {} /\ queueLen' = 0
    BY <1>1, <2>1 DEF KnownJobs, Known, Start, Forget
  <2>3. \A j \in Jobs : disk'[j].state \in {"QUEUED", "RUNNING"} => j \in todo'
    BY <1>1 DEF Start, LoadJobs, Absent
  <2> QED
    BY <2>2, <2>3, FS_EmptySet DEF RestoreOK
<1>2. CASE Ready \/ Stopping \/ Crash \/ \E a \in Goroutines : PanicOnClosed(a)
  <2>1. mode' # "restore"
    BY <1>2 DEF Ready, Stopping, Drain, Stop, CloseChan, Exit, Goes, Crash, PanicOnClosed, Dies
  <2> QED
    BY <2>1 DEF RestoreOK
<1>3. ASSUME NEW j \in Jobs, RestoreQueued(j) PROVE RestoreOK'
  <2>1. /\ mode = "restore" /\ mode' = "restore" /\ disk' = disk /\ todo' = todo \ {j}
        /\ ~Known(j) /\ disk[j] # Absent
    BY <1>3 DEF RestoreQueued, Restored, PersistInv, TodoAbsent
  <2>2. CASE Full /\ UNCHANGED <<tableVars, owes>>
    <3>1. KnownJobs' = KnownJobs /\ queueLen' = queueLen /\ Full'
      BY <2>2 DEF tableVars, KnownJobs, Known, Full
    <3> QED
      BY <2>1, <3>1 DEF RestoreOK
  <2>3. CASE Restore(j, disk[j]) /\ queueLen' = queueLen + 1
    <3>1. mem' = [mem EXCEPT ![j] = disk[j]]
      BY <2>3 DEF Restore
    <3>2. \A k \in Jobs : Known(k)' <=> Known(k) \/ k = j
      BY <1>0, <2>1, <3>1 DEF Known
    <3>3. KnownJobs' = KnownJobs \cup {j} /\ j \notin KnownJobs
      BY <2>1, <3>2 DEF KnownJobs
    <3>4. /\ IsFiniteSet(KnownJobs') /\ Cardinality(KnownJobs') = Cardinality(KnownJobs) + 1
      BY <2>1, <3>3, FS_AddElement DEF RestoreOK
    <3>5. Full => Full'
      BY <1>0, <2>3 DEF Full
    <3> QED
      BY <2>1, <2>3, <3>2, <3>4, <3>5 DEF RestoreOK
  <2> QED
    BY <1>3, <2>2, <2>3 DEF RestoreQueued
<1>4. ASSUME NEW j \in Jobs, RestoreOther(j) PROVE RestoreOK'
  <2>1. /\ mode = "restore" /\ mode' = "restore" /\ todo' = todo \ {j}
        /\ mem' = mem /\ queueLen' = queueLen
    BY <1>4 DEF RestoreOther, Restored, tableVars
  <2>2. disk[j] \in Values
    BY <1>0
  <2>3. disk'[j].state \notin {"QUEUED", "RUNNING"} /\ \A k \in Jobs \ {j} : disk'[k] = disk[k]
    BY <1>0, <1>4, <2>2 DEF RestoreOther, Values
  <2>4. KnownJobs' = KnownJobs /\ (Full => Full')
    BY <2>1 DEF KnownJobs, Known, Full
  <2> QED
    BY <2>1, <2>3, <2>4 DEF RestoreOK, Known
<1>5. ASSUME NEW g \in Groups, RestoreGroup(g) PROVE RestoreOK'
  <2>1. \A k \in Jobs : k # g
    BY ItemAssumption
  <2>2. \A k \in Jobs : disk'[k] = disk[k] /\ mem'[k] = mem[k]
    BY <1>0, <1>5, <2>1 DEF RestoreGroup, Restore
  <2>3. /\ mode = "restore" /\ mode' = "restore" /\ queueLen' = queueLen
        /\ \A k \in Jobs : k \in todo => k \in todo'
    BY <1>5, <2>1 DEF RestoreGroup, Restored
  <2>4. KnownJobs' = KnownJobs /\ (Full => Full')
    BY <2>2, <2>3 DEF KnownJobs, Known, Full
  <2> QED
    BY <2>2, <2>3, <2>4 DEF RestoreOK, Known
<1>6. CASE Alive /\ WriterStep
  <2>1. UNCHANGED <<mode, mem, queueLen, todo>>
    BY <1>6 DEF WriterStep, Take, ReadState, Save, Written, tableVars
  <2>2. \A j \in Jobs : disk'[j] = disk[j] \/ Known(j)
    BY <1>0, <1>6 DEF WriterStep, Take, ReadState, Save, PersistInv, InFlightKnown
  <2> QED
    BY <2>1, <2>2, RestoreKept DEF Known
<1>7. ASSUME NEW a \in Goroutines, Send(a) \/ UNCHANGED persistVars PROVE RestoreOK'
  BY <1>7, RestoreKept DEF Send, persistVars, tableVars, Known
<1>8. ASSUME NEW a \in Goroutines, Call(a) PROVE RestoreOK'
  <2>1. mode' # "restore"
    BY <1>8, CallIsChange DEF PersistInv, Serving, Looping, Dequeue, Change
  <2> QED
    BY <2>1 DEF RestoreOK
<1>9. CASE UNCHANGED persistVars
  BY <1>9, RestoreKept DEF persistVars, tableVars, Known
<1> QED
  BY <1>1, <1>2, <1>3, <1>4, <1>5, <1>6, <1>7, <1>8, <1>9
     DEF PersistNext, Restoring, Over

\* The switch of StartMaster's restore is complete for live jobs, whatever the
\* limit: a job is refused only after as many jobs as the queue may hold have
\* been enqueued.
THEOREM RestoreFillsQueue == PersistSafety => []RestoredUpToLimit
<1>1. PersistInit => RestoreOK
  BY DEF PersistInit, RestoreOK
<1>2. PersistInv /\ RestoreOK /\ [PersistNext]_persistVars => RestoreOK'
  BY RestoreStep
<1>3. RestoreOK => RestoredUpToLimit
  BY DEF RestoreOK, RestoredUpToLimit, KnownJobs, Full
<1> QED
  BY <1>1, <1>2, <1>3, PersistInitInv, PersistNextInv, PTL DEF PersistSafety

-----------------------------------------------------------------------------
(* What clients are told (module Queries) *)

\* No report is being settled while no handler runs.
ReportsQuiet == ~Serving => \A a \in Rpcs : report[a].pc = "no"

QueryInv == PersistInv /\ QueryTypeOK /\ ReportsQuiet

\* The server ends with the process, or when GracefulStop has waited.
LEMMA ServingEnds ==
  ASSUME PersistTypeOK, [PersistNext]_persistVars, Serving, ~Serving'
  PROVE  mode' = "down" \/ (mode = "stop" /\ mode' = "closed")
<1>1. ASSUME NEW a \in Goroutines, Call(a) PROVE mode' = mode
  BY <1>1, CallIsChange DEF Dequeue, Change
<1>2. ~Start /\ ~Restoring /\ ~Over
  BY DEF Serving, Start, Restoring, Ready, RestoreQueued, RestoreOther, RestoreGroup, Over, Alive
<1>3. CASE Stopping
  BY <1>3 DEF Stopping, Drain, Stop, CloseChan, Exit, Goes, Serving
<1>4. CASE Crash \/ \E a \in Goroutines : PanicOnClosed(a)
  BY <1>4 DEF Crash, PanicOnClosed, Dies
<1>5. CASE WriterStep \/ (\E a \in Goroutines : Send(a)) \/ UNCHANGED persistVars
  <2>1. mode' = mode
    BY <1>5 DEF WriterStep, Take, ReadState, Save, Written, Send, persistVars
  <2> QED
    BY <2>1 DEF Serving
<1> QED
  BY <1>1, <1>2, <1>3, <1>4, <1>5 DEF PersistNext, Serving

LEMMA QueryInvInit == QueryInit => QueryInv
<1> SUFFICES ASSUME QueryInit PROVE QueryInv
  OBVIOUS
<1>1. PersistInv
  BY PersistInitInv DEF QueryInit
<1>2. Absent \in Values
  BY DEF Absent, Values
<1>3. QueryTypeOK /\ ReportsQuiet
  BY <1>1, <1>2 DEF QueryInit, QueryTypeOK, PersistInv, ReportsQuiet, NoReport
<1> QED
  BY <1>1, <1>3 DEF QueryInv

LEMMA QueryInvNext == QueryInv /\ [QueryNext]_queryVars => QueryInv'
<1> SUFFICES ASSUME QueryInv, [QueryNext]_queryVars PROVE QueryInv'
  OBVIOUS
<1> DEFINE Reports == [pc : {"no", "look", "save"}, job : Jobs \cup {NoJob}, copy : Values]
<1>0. /\ report \in [Rpcs -> Reports] /\ dead \in [Jobs -> Values]
      /\ \A a \in Rpcs : report[a].pc # "no" => report[a].job \in Jobs
      /\ NoReport \in Reports /\ NoReport.pc = "no" /\ mem \in [Items -> Values]
      /\ Jobs \subseteq Items
  BY DEF QueryInv, QueryTypeOK, PersistTypeOK, NoReport, Absent, Values, Items
<1>1. \A j \in Jobs : Settling(j) \in Reports /\ Settling(j).job = j
  BY <1>0 DEF Settling, NoReport, Absent, Values
<1>2. [PersistNext]_persistVars
  BY DEF QueryNext, PersistStep, Settle, Look, SaveDeadLetter, ReportCancelled, queryVars
<1>3. PersistInv'
  BY <1>2, PersistNextInv DEF QueryInv
<1>4. CASE PersistStep
  <2>1. \A a \in Rpcs : \/ report'[a] = NoReport \/ report'[a] = report[a]
                       \/ \E j \in Jobs : j = owes'[a] /\ report'[a] = Settling(j)
    BY <1>4 DEF PersistStep, ReportOf
  <2>2. report' \in [Rpcs -> Reports]
    <3>1. \A a \in Rpcs : report'[a] \in Reports
      BY <1>0, <1>1, <2>1
    <3> QED
      BY <1>4, <3>1 DEF PersistStep
  <2>3. \A a \in Rpcs : report'[a].pc # "no" => report'[a].job \in Jobs
    BY <1>0, <1>1, <2>1
  <2>4. ReportsQuiet'
    <3> SUFFICES ASSUME ~Serving', NEW a \in Rpcs PROVE report'[a].pc = "no"
      BY DEF ReportsQuiet
    <3>1. CASE mode' \in {"down", "stopped"}
      BY <1>0, <1>4, <3>1 DEF PersistStep, ReportOf
    <3>2. CASE mode' \notin {"down", "stopped"}
      <4>1. mode' \in {"restore", "closed"}
        BY <1>3, <3>2 DEF Serving, PersistInv, PersistTypeOK, Modes
      <4>2. owes'[a] \notin Jobs
        BY <1>3, <4>1, NullAssumption DEF PersistInv, Quiet, Free
      <4>3. report'[a] = report[a]
        BY <1>4, <3>2, <4>2 DEF PersistStep, ReportOf
      <4>4. report[a].pc = "no"
        BY <1>2, <1>4, <4>1, ServingEnds DEF PersistStep, QueryInv, PersistInv, ReportsQuiet
      <4> QED
        BY <4>3, <4>4
    <3> QED
      BY <3>1, <3>2
  <2> QED
    BY <1>0, <1>3, <1>4, <2>2, <2>3, <2>4
       DEF PersistStep, QueryInv, QueryTypeOK, PersistInv
<1>5. ASSUME NEW a \in Rpcs, Settle(a) PROVE QueryInv'
  <2>1. mode' = mode /\ report[a].pc # "no" /\ report[a].job \in Jobs /\ report[a] \in Reports
    BY <1>0, <1>5 DEF Settle, Look, SaveDeadLetter, persistVars
  <2>2. mem[report[a].job] \in Values
    BY <1>0, <2>1
  <2>3. [report[a] EXCEPT !.pc = "save", !.copy = mem[report[a].job]] \in Reports
    BY <2>1, <2>2
  <2>4. [report[a] EXCEPT !.pc = "save", !.copy = mem[report[a].job]].job = report[a].job
    BY <2>1
  <2>5. /\ report' \in [Rpcs -> Reports] /\ dead' \in [Jobs -> Values]
        /\ \A b \in Rpcs : report'[b].pc # "no" => report'[b].job \in Jobs
    <3>1. CASE Look(a)
      <4>1. PICK r \in Reports : /\ report' = [report EXCEPT ![a] = r]
                                /\ r.pc # "no" => r.job \in Jobs
        BY <1>0, <1>1, <2>1, <2>3, <2>4, <3>1 DEF Look
      <4> QED
        BY <1>0, <3>1, <4>1 DEF Look
    <3>2. CASE SaveDeadLetter(a)
      <4>1. report' = [report EXCEPT ![a] = NoReport] /\ NoReport.pc = "no"
        BY <3>2 DEF SaveDeadLetter, NoReport
      <4>2. dead' \in [Jobs -> Values]
        BY <1>0, <2>1, <3>2 DEF SaveDeadLetter
      <4> QED
        BY <1>0, <1>1, <4>1, <4>2
    <3> QED
      BY <1>5, <3>1, <3>2 DEF Settle
  <2>6. ReportsQuiet'
    BY <2>1 DEF QueryInv, ReportsQuiet, Serving
  <2> QED
    BY <1>3, <2>5, <2>6 DEF QueryInv, QueryTypeOK, PersistInv
<1>6. ASSUME NEW a \in Rpcs, NEW j \in Jobs, ReportCancelled(a, j) PROVE QueryInv'
  <2>1. /\ mode' = mode /\ Serving /\ dead' = dead
        /\ report' = [report EXCEPT ![a] = Settling(j)]
    BY <1>6 DEF ReportCancelled, persistVars
  <2>2. /\ report' \in [Rpcs -> Reports]
        /\ \A b \in Rpcs : report'[b].pc # "no" => report'[b].job \in Jobs
    BY <1>0, <1>1, <2>1
  <2>3. ReportsQuiet'
    BY <2>1 DEF ReportsQuiet, Serving
  <2> QED
    BY <1>0, <1>3, <2>1, <2>2, <2>3 DEF QueryInv, QueryTypeOK, PersistInv
<1>7. CASE UNCHANGED queryVars
  BY <1>3, <1>7 DEF queryVars, persistVars, QueryInv, QueryTypeOK, PersistInv, ReportsQuiet, Serving
<1> QED
  BY <1>4, <1>5, <1>6, <1>7 DEF QueryNext

\* The tables, the channel, the store and the dead letters stay well typed, for
\* any number of jobs, groups, goroutines and starts.
THEOREM QueryTypeCorrect == QuerySafety => []QueryTypeOK
<1>1. QueryInv => QueryTypeOK
  BY DEF QueryInv
<1> QED
  BY <1>1, QueryInvInit, QueryInvNext, PTL DEF QuerySafety

\* What GetJobStatus finds, in the order it looks.
StatusFound ==
    \A j \in Jobs :
       /\ mem[j] # Absent => GetJobStatus(j) = mem[j]
       /\ mem[j] = Absent /\ disk[j] # Absent => GetJobStatus(j) = disk[j]
       /\ mem[j] = Absent /\ disk[j] = Absent /\ dead[j] # Absent => GetJobStatus(j) = dead[j]
       /\ mem[j] = Absent /\ disk[j] = Absent /\ dead[j] = Absent =>
             GetJobStatus(j) = [state |-> "NOT_FOUND", retries |-> 0]

LEMMA StatusIs == StatusFound
  BY DEF StatusFound, GetJobStatus

LEMMA StatusIsAfter == StatusFound'
  BY StatusIs, PTL

\* How a restart treats what is known of a job: memory is lost when the store
\* has the same, and the restore takes a job back as it is or saves it FAILED.
LEMMA RestartOnJob ==
  ASSUME PersistInv, PersistNext, mode \in {"down", "stopped", "restore"}, mode' # "down",
         NEW j \in Jobs, ~Caught(j)
  PROVE  \/ mem'[j] = mem[j] /\ (disk'[j] = disk[j] \/ mem[j] # Absent)
         \/ mem'[j] = Absent /\ disk'[j] = disk[j] /\ disk[j] = mem[j]
         \/ mem[j] = Absent /\ mem'[j] = disk[j] /\ disk'[j] = disk[j] /\ disk[j] # Absent
         \/ /\ mem[j] = Absent /\ mem'[j] = Absent /\ disk[j].state = "RUNNING"
            /\ disk'[j] = [disk[j] EXCEPT !.state = "FAILED"]
<1>0. /\ mem \in [Items -> Values] /\ disk \in [Items -> Values] /\ j \in Items
  BY DEF PersistInv, PersistTypeOK, Items
<1>1. CASE Start
  <2>1. mem'[j] = Absent /\ disk' = disk
    BY <1>0, <1>1 DEF Start, Forget
  <2>2. mem[j] = Absent \/ disk[j] = mem[j]
    <3>1. CASE mode = "down"
      BY <1>0, <3>1 DEF PersistInv, Quiet
    <3>2. CASE mode = "stopped"
      BY <1>0, <3>2, CaughtByLoop DEF StopLosesOnlyCaught, Caught
    <3> QED
      BY <1>1, <3>1, <3>2 DEF Start
  <2> QED
    BY <2>1, <2>2
<1>2. CASE Ready \/ Stopping \/ Over \/ Take \/ ReadState \/ \E a \in Goroutines : Send(a)
  <2>1. UNCHANGED <<mem, disk>>
    BY <1>2 DEF Ready, Stopping, Drain, Stop, CloseChan, Exit, Goes, procVars, persistVars,
                tableVars, Over, Take, ReadState, Written, Send
  <2> QED
    BY <2>1
<1>3. ASSUME NEW k \in Jobs, RestoreQueued(k) \/ RestoreOther(k), j # k
      PROVE  mem'[j] = mem[j] /\ disk'[j] = disk[j]
  BY <1>0, <1>3 DEF RestoreQueued, RestoreOther, Restore, tableVars
<1>4. CASE RestoreQueued(j)
  <2>1. mem[j] = Absent /\ disk[j] # Absent /\ disk' = disk
    BY <1>4 DEF RestoreQueued, PersistInv, TodoAbsent, Known
  <2>2. mem' = mem \/ mem' = [mem EXCEPT ![j] = disk[j]]
    BY <1>4 DEF RestoreQueued, Restore, tableVars
  <2> QED
    BY <1>0, <2>1, <2>2
<1>5. CASE RestoreOther(j)
  <2>1. mem[j] = Absent /\ mem' = mem
    BY <1>5 DEF RestoreOther, PersistInv, TodoAbsent, Known, tableVars
  <2>2. CASE disk[j].state = "RUNNING"
    <3>1. disk' = [disk EXCEPT ![j].state = "FAILED"]
      BY <1>5, <2>2 DEF RestoreOther
    <3>2. disk'[j] = [disk[j] EXCEPT !.state = "FAILED"]
      BY <1>0, <3>1
    <3> QED
      BY <2>1, <2>2, <3>2
  <2>3. CASE disk[j].state # "RUNNING"
    BY <1>5, <2>1, <2>3 DEF RestoreOther
  <2> QED
    BY <2>2, <2>3
<1>6. ASSUME NEW g \in Groups, RestoreGroup(g) PROVE mem'[j] = mem[j] /\ disk'[j] = disk[j]
  <2>1. j # g
    BY ItemAssumption
  <2> QED
    BY <1>0, <1>6, <2>1 DEF RestoreGroup, Restore
<1>7. CASE Save
  <2>1. /\ mem' = mem /\ disk' = [disk EXCEPT ![writer.item] = writer.val]
        /\ mem[writer.item] # Absent
    BY <1>7 DEF Save, Written, tableVars, PersistInv, InFlightKnown, Known
  <2> QED
    BY <1>0, <2>1
<1>8. ASSUME NEW a \in Goroutines PROVE ~Call(a)
  BY CallIsChange DEF PersistInv, Serving, Looping
<1>9. ~(Crash \/ \E a \in Goroutines : PanicOnClosed(a))
  BY DEF Crash, PanicOnClosed, Dies
<1> QED
  BY <1>1, <1>2, <1>3, <1>4, <1>5, <1>6, <1>7, <1>8, <1>9 DEF PersistNext, Restoring, WriterStep

\* A restart changes no answer, for any jobs, goroutines and channel capacity:
\* what GracefulStop, dbWg.Wait and the restore's switch amount to for a client.
THEOREM RestartKeepsAnswers == QuerySafety => AnswerStands
<1>1. ASSUME QueryInv, QueryNext, NEW j \in Jobs, mode \in {"down", "stopped", "restore"},
             mode' # "down"
      PROVE  Caught(j) \/ AnswerKept(j)
  <2>1. CASE PersistStep /\ ~Caught(j)
    <3>1. dead' = dead
      BY <2>1 DEF PersistStep
    <3>2. \/ mem'[j] = mem[j] /\ (disk'[j] = disk[j] \/ mem[j] # Absent)
          \/ mem'[j] = Absent /\ disk'[j] = disk[j] /\ disk[j] = mem[j]
          \/ mem[j] = Absent /\ mem'[j] = disk[j] /\ disk'[j] = disk[j] /\ disk[j] # Absent
          \/ /\ mem[j] = Absent /\ mem'[j] = Absent /\ disk[j].state = "RUNNING"
             /\ disk'[j] = [disk[j] EXCEPT !.state = "FAILED"]
      BY <1>1, <2>1, RestartOnJob DEF PersistStep, QueryInv
    <3>3. CASE /\ mem[j] = Absent /\ mem'[j] = Absent /\ disk[j].state = "RUNNING"
               /\ disk'[j] = [disk[j] EXCEPT !.state = "FAILED"]
      <4>1. disk[j] \in Values
        BY <1>1 DEF QueryInv, PersistInv, PersistTypeOK, Items
      <4>2. disk[j] # Absent /\ disk'[j] # Absent
        BY <3>3, <4>1 DEF Absent, Values
      <4>3. GetJobStatus(j) = disk[j] /\ GetJobStatus(j)' = disk'[j]
        BY <3>3, <4>2, StatusIs, StatusIsAfter DEF StatusFound
      <4> QED
        BY <3>3, <4>3 DEF AnswerKept, Fails
    <3>4. CASE ~(mem[j] = Absent /\ mem'[j] = Absent /\ disk[j].state = "RUNNING"
                 /\ disk'[j] = [disk[j] EXCEPT !.state = "FAILED"])
      <4>1. GetJobStatus(j)' = GetJobStatus(j)
        BY <3>1, <3>2, <3>4, StatusIs, StatusIsAfter DEF StatusFound
      <4> QED
        BY <4>1 DEF AnswerKept
    <3> QED
      BY <3>3, <3>4
  <2>2. ASSUME NEW a \in Rpcs PROVE ~Settle(a) /\ \A k \in Jobs : ~ReportCancelled(a, k)
    BY <1>1 DEF Settle, Look, SaveDeadLetter, ReportCancelled, QueryInv, ReportsQuiet, Serving
  <2> QED
    BY <1>1, <2>1, <2>2 DEF QueryNext
<1>2. QueryInv /\ [QueryNext]_queryVars =>
         [\A j \in Jobs :
             mode \in {"down", "stopped", "restore"} /\ mode' # "down" =>
                Caught(j) \/ AnswerKept(j)]_queryVars
  BY <1>1
<1> QED
  BY <1>2, QueryInvInit, QueryInvNext, PTL DEF QuerySafety, AnswerStands
=============================================================================
