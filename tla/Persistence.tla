---------------------------- MODULE Persistence ----------------------------
(***************************************************************************)
(* Persistence and the master's life cycle: the OnJobChange/OnGroupChange  *)
(* hooks, the buffered dbWriteChan, the goroutine that writes to BoltDB    *)
(* (internal/store), the restore at start, drain and stop, and crashes.    *)
(*                                                                         *)
(* A method of GlobalScheduler changes a job or a group under gs.mu and    *)
(* sends its POINTER to the channel after unlocking; the writer marshals   *)
(* what the pointer leads to by then, without the lock.  A method is       *)
(* called at any time, for any job or group it finds in the tables and in  *)
(* whatever state that is: which job a caller has in its hands, and why,   *)
(* is the subject of module Master.  Of the queue there is only its length.*)
(***************************************************************************)
EXTENDS Entities, Sequences, FiniteSets

CONSTANTS
    Groups, NoGroup, GroupOf,   \* as in GlobalScheduler
    MaxRetries, MaxQueueSize,
    Rpcs,         \* gRPC handler goroutines
    Loops,        \* dispatchLoop, the enforcers, the retry goroutines
    Main,         \* the goroutine that runs StartMaster
    ChanCap,      \* capacity of dbWriteChan
    MaxStarts,    \* bound: how often the master is started
    MaxCalls      \* bound: how many calls change the scheduler

ASSUME GroupOfAssumption == GroupOf \in [Jobs -> Groups \cup {NoGroup}]
ASSUME ItemAssumption ==
    /\ Jobs \cap Groups = {}
    /\ NoJob \notin Groups /\ NoGroup \notin Groups
ASSUME GoroutineAssumption == Main \notin Rpcs \cup Loops /\ Rpcs \cap Loops = {}
ASSUME BoundAssumption ==
    /\ ChanCap \in Nat \ {0}
    /\ MaxStarts \in Nat /\ MaxCalls \in Nat
    /\ MaxRetries \in Nat /\ MaxQueueSize \in Nat

VARIABLES
    mode,       \* where the master process is: see Modes
    mem,        \* gs.jobs and gs.groups: what is known of each item
    queueLen,   \* gs.queue.Len()
    disk,       \* the buckets "jobs" and "groups"
    owes,       \* what each goroutine has changed and not yet sent
    dbWriteChan,
    writer,     \* the goroutine that saves
    todo,       \* loaded items that the restore has yet to look at
    starts, calls   \* for the bounds

procVars == <<owes, dbWriteChan, writer>>
tableVars == <<mem, queueLen>>
persistVars == <<mode, tableVars, disk, procVars, todo, starts, calls>>

Items == Jobs \cup Groups
Goroutines == Rpcs \cup Loops \cup {Main}

\* "stop": Cancel has run shutdownCancel and waits in GracefulStop; "closed":
\* dbWriteChan is closed; "stopped": Cancel has returned.
Modes == {"down", "restore", "up", "drain", "stop", "closed", "stopped"}

\* "TORN": a State read while it was being written.
Values ==
    [state : {"NONE", "QUEUED", "PENDING", "RUNNING", "COMPLETED", "FAILED",
              "CANCELLED", "TORN"},
     retries : Nat]

Absent == [state |-> "NONE", retries |-> 0]
IdleWriter == [pc |-> "idle", item |-> NoJob, val |-> Absent]

PersistTypeOK ==
    /\ mode \in Modes
    /\ mem \in [Items -> Values]
    /\ disk \in [Items -> Values]
    /\ queueLen \in Nat
    /\ owes \in [Goroutines -> Items \cup {NoJob}]
    /\ dbWriteChan \in Seq(Items) /\ Len(dbWriteChan) <= ChanCap
    /\ writer \in [pc : {"idle", "read", "save"}, item : Items \cup {NoJob}, val : Values]
    /\ writer.pc # "idle" => writer.item \in Items
    /\ todo \in SUBSET Items
    /\ starts \in 0 .. MaxStarts /\ calls \in 0 .. MaxCalls

PersistInit ==
    /\ mode = "down"
    /\ mem = [i \in Items |-> Absent]
    /\ queueLen = 0
    /\ disk = [i \in Items |-> Absent]
    /\ owes = [a \in Goroutines |-> NoJob]
    /\ dbWriteChan = << >>
    /\ writer = IdleWriter
    /\ todo = {}
    /\ starts = 0 /\ calls = 0

-----------------------------------------------------------------------------
(* Changes and their notification *)

Free(a) == owes[a] = NoJob

Known(i) == mem[i] # Absent
Full == MaxQueueSize > 0 /\ queueLen >= MaxQueueSize

\* A method of the scheduler, called by a: i becomes v, and a owes its send.
Change(a, i, v) ==
    /\ Free(a)
    /\ mem' = [mem EXCEPT ![i] = v]
    /\ owes' = [owes EXCEPT ![a] = i]
    /\ UNCHANGED <<mode, disk, dbWriteChan, writer, todo, starts>>

Become(a, i, s) == Change(a, i, [mem[i] EXCEPT !.state = s])

Push == queueLen' = queueLen + 1

Enqueue(a, j) ==
    /\ ~Full /\ Push
    /\ Change(a, j, [Absent EXCEPT !.state = "QUEUED"])

\* Dequeue, Backfill and RemoveByID: an entry goes, and nobody is told.
Dequeue(a) ==
    /\ Free(a) /\ queueLen > 0
    /\ queueLen' = queueLen - 1
    /\ UNCHANGED <<mode, mem, disk, procVars, todo, starts>>

\* A QUEUED job is removed from the queue if its index says it is there.
Cancel(a, j) ==
    /\ mem[j].state \in {"QUEUED", "RUNNING"}
    /\ \/ queueLen' = queueLen
       \/ mem[j].state = "QUEUED" /\ queueLen > 0 /\ queueLen' = queueLen - 1
    /\ Become(a, j, "CANCELLED")

Requeue(a, j) ==
    /\ Known(j) /\ Push
    /\ Change(a, j, [state |-> "QUEUED", retries |-> mem[j].retries + 1])

MarkRunning(a, j) == Known(j) /\ Become(a, j, "RUNNING") /\ UNCHANGED queueLen

RequeueRunningJob(a, j) == mem[j].state = "RUNNING" /\ Become(a, j, "QUEUED") /\ Push

MarkCompleted(a, j, s) ==
    /\ Known(j) /\ mem[j].state # "CANCELLED"
    /\ Become(a, j, s) /\ UNCHANGED queueLen

RegisterGroup(a, g) == Become(a, g, "PENDING") /\ UNCHANGED queueLen

SetGroupState(a, g, s) == Known(g) /\ Become(a, g, s) /\ UNCHANGED queueLen

-----------------------------------------------------------------------------
(* The callers *)

\* A handler goes on until GracefulStop has waited for it; one that submits may
\* have looked at draining just before it was set.
Serving == mode \in {"up", "drain", "stop"}

\* A uuid is not that of another job or group.
Fresh(i) == ~Known(i) /\ disk[i] = Absent

\* SubmitDistributedJob registers the group after its ranks are enqueued.
Submit(a) ==
    \/ \E j \in Jobs : Fresh(j) /\ Enqueue(a, j)
    \/ \E g \in Groups :
          /\ Fresh(g) /\ \A j \in Jobs : GroupOf[j] = g => Known(j)
          /\ RegisterGroup(a, g)

\* SubmitJob, SubmitDistributedJob, CancelJob, ReportResult with
\* handleGroupCompletion.
Handle(a) ==
    /\ a \in Rpcs /\ Serving
    /\ \/ Submit(a)
       \/ \E j \in Jobs : Cancel(a, j)
       \/ \E j \in Jobs, s \in {"COMPLETED", "FAILED"} : MarkCompleted(a, j, s)
       \/ \E g \in Groups, s \in {"COMPLETED", "FAILED"} : SetGroupState(a, g, s)

\* A loop notices the cancelled context at its next select, not before.
Looping == mode \in {"up", "drain", "stop", "closed"}

\* dispatchLoop with its gang timeout, walltimeEnforcer, dispatchTimeoutEnforcer,
\* OnLeave; a retry goroutine is started for single jobs only.
Loop(a) ==
    /\ a \in Loops /\ Looping
    /\ \/ Dequeue(a)
       \/ \E j \in Jobs : MarkRunning(a, j) \/ Cancel(a, j) \/ RequeueRunningJob(a, j)
       \/ \E j \in Jobs : MarkCompleted(a, j, "FAILED")
       \/ \E j \in Jobs : GroupOf[j] = NoGroup /\ MaxRetries > 0 /\ Requeue(a, j)
       \/ \E g \in Groups, s \in {"RUNNING", "FAILED"} : SetGroupState(a, g, s)

Call(a) ==
    /\ Handle(a) \/ Loop(a)
    /\ calls < MaxCalls /\ calls' = calls + 1

\* Variant: a send does not wait for room.
SendUnbounded(a) ==
    /\ ~Free(a) /\ mode # "closed"
    /\ dbWriteChan' = Append(dbWriteChan, owes[a])
    /\ owes' = [owes EXCEPT ![a] = NoJob]
    /\ UNCHANGED <<mode, tableVars, disk, writer, todo, starts, calls>>

\* Variant: a send that would block is dropped.
SendOrDrop(a) ==
    /\ ~Free(a) /\ mode # "closed"
    /\ dbWriteChan' = IF Len(dbWriteChan) < ChanCap THEN Append(dbWriteChan, owes[a])
                      ELSE dbWriteChan
    /\ owes' = [owes EXCEPT ![a] = NoJob]
    /\ UNCHANGED <<mode, tableVars, disk, writer, todo, starts, calls>>

\* dbWriteChan <- op blocks while the channel is full.
Send(a) ==
    /\ ~Free(a) /\ mode # "closed"
    /\ Len(dbWriteChan) < ChanCap
    /\ dbWriteChan' = Append(dbWriteChan, owes[a])
    /\ owes' = [owes EXCEPT ![a] = NoJob]
    /\ UNCHANGED <<mode, tableVars, disk, writer, todo, starts, calls>>

-----------------------------------------------------------------------------
(* The writer *)

Written == UNCHANGED <<mode, tableVars, owes, todo, starts, calls>>

\* Variant: operations are saved in batches, and only a stop flushes the last.
TakeBatch ==
    /\ writer.pc = "idle" /\ dbWriteChan # << >>
    /\ Len(dbWriteChan) = ChanCap \/ mode = "closed"
    /\ writer' = [pc |-> "read", item |-> Head(dbWriteChan), val |-> mem[Head(dbWriteChan)]]
    /\ dbWriteChan' = Tail(dbWriteChan)
    /\ UNCHANGED disk /\ Written

\* json.Marshal reads RetryCount first ...
Take ==
    /\ writer.pc = "idle" /\ dbWriteChan # << >>
    /\ writer' = [pc |-> "read", item |-> Head(dbWriteChan), val |-> mem[Head(dbWriteChan)]]
    /\ dbWriteChan' = Tail(dbWriteChan)
    /\ UNCHANGED disk /\ Written

\* ... and State some fields later, perhaps while it is being changed.
ReadState ==
    /\ writer.pc = "read"
    /\ \E s \in {mem[writer.item].state, "TORN"} :
          /\ mem[writer.item].state = writer.val.state => s = writer.val.state
          /\ writer' = [writer EXCEPT !.pc = "save", !.val.state = s]
    /\ UNCHANGED <<disk, dbWriteChan>> /\ Written

\* The transaction commits.
Save ==
    /\ writer.pc = "save"
    /\ disk' = [disk EXCEPT ![writer.item] = writer.val]
    /\ writer' = IdleWriter
    /\ UNCHANGED dbWriteChan /\ Written

WriterStep == Take \/ ReadState \/ Save

-----------------------------------------------------------------------------
(* Start: the restore *)

\* A process takes its memory with it.
Forget ==
    /\ mem' = [i \in Items |-> Absent]
    /\ queueLen' = 0
    /\ owes' = [a \in Goroutines |-> NoJob]
    /\ dbWriteChan' = << >>
    /\ writer' = IdleWriter

LoadJobs == {j \in Jobs : disk[j] # Absent}
LoadGroups == {g \in Groups : disk[g] # Absent}

Start ==
    /\ mode \in {"down", "stopped"} /\ starts < MaxStarts
    /\ mode' = "restore"
    /\ Forget
    /\ todo' = LoadJobs \cup LoadGroups
    /\ starts' = starts + 1
    /\ UNCHANGED <<disk, calls>>

Restored(i) == todo' = todo \ {i} /\ UNCHANGED <<mode, dbWriteChan, writer, starts, calls>>

\* What the restore puts into memory is sent to be saved, as any change is.
Restore(i, v) ==
    /\ mem' = [mem EXCEPT ![i] = v]
    /\ owes' = [owes EXCEPT ![Main] = i]

\* Variant: a job that was retried before is not enqueued.
RestoreQueuedFresh(j) ==
    /\ mode = "restore" /\ Free(Main) /\ j \in todo
    /\ disk[j].state = "QUEUED"
    /\ \/ ~Full /\ disk[j].retries = 0 /\ Restore(j, disk[j]) /\ queueLen' = queueLen + 1
       \/ Full /\ UNCHANGED <<tableVars, owes>>
       \/ disk[j].retries > 0 /\ UNCHANGED <<tableVars, owes>>
    /\ UNCHANGED disk /\ Restored(j)

\* A QUEUED job is enqueued, if there is room; the error is ignored.
RestoreQueued(j) ==
    /\ mode = "restore" /\ Free(Main) /\ j \in todo
    /\ disk[j].state = "QUEUED"
    /\ \/ ~Full /\ Restore(j, disk[j]) /\ queueLen' = queueLen + 1
       \/ Full /\ UNCHANGED <<tableVars, owes>>
    /\ UNCHANGED disk /\ Restored(j)

\* Variant: whatever was not QUEUED is saved as FAILED.
RestoreOtherFails(j) ==
    /\ mode = "restore" /\ Free(Main) /\ j \in todo
    /\ disk[j].state # "QUEUED"
    /\ disk' = [disk EXCEPT ![j].state = "FAILED"]
    /\ UNCHANGED <<tableVars, owes>> /\ Restored(j)

\* A RUNNING one is saved as FAILED; no other job comes back into memory.
RestoreOther(j) ==
    /\ mode = "restore" /\ Free(Main) /\ j \in todo
    /\ disk[j].state # "QUEUED"
    /\ disk' = IF disk[j].state = "RUNNING" THEN [disk EXCEPT ![j].state = "FAILED"] ELSE disk
    /\ UNCHANGED <<tableVars, owes>> /\ Restored(j)

\* A group that was open is FAILED; every group is registered again.
RestoreGroup(g) ==
    LET v == IF disk[g].state \in {"PENDING", "RUNNING"}
             THEN [disk[g] EXCEPT !.state = "FAILED"] ELSE disk[g]
    IN
    /\ mode = "restore" /\ Free(Main) /\ g \in todo /\ todo \cap Jobs = {}
    /\ disk' = [disk EXCEPT ![g] = v]
    /\ Restore(g, v) /\ UNCHANGED queueLen
    /\ Restored(g)

Goes(m) ==
    /\ mode' = m
    /\ UNCHANGED <<tableVars, disk, procVars, todo, starts, calls>>

Ready == mode = "restore" /\ todo = {} /\ Free(Main) /\ Goes("up")

Restoring ==
    \/ Ready
    \/ \E j \in Jobs : RestoreQueued(j) \/ RestoreOther(j)
    \/ \E g \in Groups : RestoreGroup(g)

-----------------------------------------------------------------------------
(* Drain, stop and crash *)

Drain == mode = "up" /\ Goes("drain")

\* No job runs any more, or drain_timeout is over.
Stop == mode = "drain" /\ Goes("stop")

\* Variant: the channel is closed without waiting for the handlers.
CloseChanAtOnce == mode = "stop" /\ Goes("closed")

\* cleanDB, after GracefulStop has waited for the handlers.
CloseChan ==
    /\ mode = "stop" /\ \A a \in Rpcs : Free(a)
    /\ Goes("closed")

\* dbWg.Wait returns and the process exits.
Exit ==
    /\ mode = "closed" /\ dbWriteChan = << >> /\ writer.pc = "idle"
    /\ Goes("stopped")

Dies ==
    /\ mode' = "down"
    /\ Forget
    /\ todo' = {}
    /\ UNCHANGED <<disk, starts, calls>>

\* The process is killed: by tasch stop after fifteen seconds, or otherwise.
Crash == mode \notin {"down", "stopped"} /\ starts < MaxStarts /\ Dies

\* A goroutine sends on the closed channel.
PanicOnClosed(a) == mode = "closed" /\ ~Free(a) /\ Dies

Stopping == Drain \/ Stop \/ CloseChan \/ Exit

Alive == mode \notin {"down", "stopped"}

\* Bound: the master is not started again.
Over == ~Alive /\ starts = MaxStarts /\ UNCHANGED persistVars

PersistNext ==
    \/ Start \/ Restoring \/ Stopping \/ Crash \/ Over
    \/ Alive /\ WriterStep
    \/ \E a \in Goroutines : (Alive /\ Send(a)) \/ Call(a) \/ PanicOnClosed(a)

PersistSafety == PersistInit /\ [][PersistNext]_persistVars

\* Every goroutine that can go on does, and a channel serves blocked senders in
\* their order; a master that is down may stay down.
PersistFairness ==
    /\ WF_persistVars(Alive /\ WriterStep)
    /\ WF_persistVars(Restoring)
    /\ WF_persistVars(Exit)
    /\ \A a \in Goroutines :
          SF_persistVars(Alive /\ Send(a)) /\ WF_persistVars(PanicOnClosed(a))

PersistSpec == PersistSafety /\ PersistFairness

-----------------------------------------------------------------------------
(* Properties *)

Sent(i) ==
    \/ \E a \in Goroutines : owes[a] = i
    \/ \E k \in 1 .. Len(dbWriteChan) : dbWriteChan[k] = i

Owed(i) ==
    \/ Sent(i)
    \/ writer.pc # "idle" /\ writer.item = i /\ writer.val = mem[i]

\* The store is behind the scheduler about an item only while a save of what
\* the scheduler has now is still owed, although sends happen after the unlock,
\* in any order, and the writer reads without the lock.
StaleOnlyWhileOwed ==
    \A i \in Items : mem[i] # Absent /\ disk[i] # mem[i] => Owed(i)

\* A graceful stop loses a change only if a loop was caught between making it
\* and sending it: handlers are waited for and the channel is drained.
StopLosesOnlyCaught ==
    mode = "stopped" =>
       \A i \in Items :
          mem[i] # Absent /\ disk[i] # mem[i] => \E a \in Loops : owes[a] = i

\* When the restore has looked at every job, each one that the store calls
\* QUEUED or RUNNING is in the queue again, or was refused by a queue that the
\* restore itself has filled to its limit.
RestoredUpToLimit ==
    mode = "restore" /\ todo \cap Jobs = {} =>
       \A j \in Jobs :
          disk[j].state \in {"QUEUED", "RUNNING"} /\ ~Known(j) =>
             MaxQueueSize > 0 /\ Cardinality({k \in Jobs : Known(k)}) >= MaxQueueSize

\* A job or group that stops changing gets into the store as it is, unless the
\* master goes down first: no save is forgotten in the channel or the writer.
EventuallySaved ==
    \A i \in Items :
       \/ []<>(~Alive \/ ~Known(i) \/ disk[i] = mem[i])
       \/ []<><<mem[i]' # mem[i]>>_persistVars

\* A job that the store calls QUEUED or RUNNING is known to a master that has
\* finished its restore.
LiveOnDiskKnown ==
    mode \in {"up", "drain"} =>
       \A j \in Jobs : disk[j].state \in {"QUEUED", "RUNNING"} => Known(j)

\* What the scheduler held at a graceful stop is in the store.
CleanStopSaves ==
    mode = "stopped" => \A i \in Items : mem[i] # Absent => disk[i] = mem[i]

\* A job that was enqueued, and whose SubmitJob may have returned, is in the
\* store when the master goes down.
AcceptedSurvive ==
    [][mode' = "down" =>
          \A j \in Jobs :
             Known(j) /\ (\A a \in Goroutines : owes[a] # j) => disk[j] # Absent]_persistVars

\* A job that is RUNNING when the master goes down is not restored as QUEUED.
RunningNotRequeued ==
    [][mode' = "down" =>
          \A j \in Jobs : mem[j].state = "RUNNING" => disk[j].state # "QUEUED"]_persistVars

\* A rank that the restore enqueues can still be dispatched: its group is not
\* decided.
QueuedRankDispatchable ==
    mode = "restore" /\ todo = {} =>
       \A j \in Jobs :
          GroupOf[j] \in Groups /\ mem[j].state = "QUEUED" =>
             mem[GroupOf[j]].state \in {"NONE", "PENDING"}

\* No goroutine of the scheduler ever waits for the store.
HotPathFree ==
    \A a \in Rpcs \cup Loops : ~Free(a) /\ Alive => Len(dbWriteChan) < ChanCap
=============================================================================
