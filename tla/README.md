# tasch: a TLA+ verification project

tasch is a job scheduler: one master keeps a priority queue of shell commands,
places them on workers that announce themselves by gossip, and learns of their
outcome by RPC. Almost all of its risk is concurrency inside the master (gRPC
handlers, one dispatch loop, two enforcers, retry goroutines, a gossip callback
and a database writer share one scheduler object), unreliable contact with the
workers, and processes on one machine that share a pid file, a store and ports.
This project models those parts in TLA+, checks them with TLC on small
instances, and proves the central invariants with TLAPS for any number of jobs,
groups, nodes and goroutines.

## Inventory

| Component | State | Operations | Interacts with |
|---|---|---|---|
| Priority queue (`pkg/scheduler/queue.go`, `JobQueue`) | array heap of `*Job`, `Job.index` | push, pop, remove at index | container/heap |
| Job and group tables (`GlobalScheduler`) | `jobs`, `groups`, the heap, one mutex | Enqueue, Dequeue, Backfill, RemoveByID, Cancel, Requeue, MarkRunning, RequeueRunningJob, MarkCompleted, RegisterGroup, SetGroupState | every goroutine of the master; calls the change hooks after unlocking |
| Circuit breaker (`master.go`) | failures, block, last failed job per node | RecordFailure, RecordSuccess, IsBlocked | ReportResult, placement |
| Resource tracker (`gpuTracker`) | allocated GPUs, CPUs, memory per node | Allocate, Release | dispatch, reports, cancels, enforcers, gossip |
| Master daemon | `dispatchPending`, retry goroutines, member list | SubmitJob, SubmitDistributedJob, CancelJob, ReportResult, `/acknowledge_start`, dispatchLoop, walltimeEnforcer, dispatchTimeoutEnforcer, OnLeave | all of the above, workers |
| Worker agent (`worker.go`) | execution goroutines, cancel functions | message loop, handshake, run, report with retry | ZMQ, HTTP, gRPC |
| Messaging, discovery | subscriptions, members | publish, receive, join, leave | external libraries |
| Persistence (`internal/store`, the hooks in `StartMaster`) | `dbWriteChan`, BoltDB buckets | send, save, restore, dead letters | scheduler hooks, ReportResult, start, stop |
| Queries (`GetJobStatus`, `ListJobs`) | none | look in memory, then in two buckets of the store | scheduler, store |
| Fairshare (`FairshareCalculator`) | usage per user, the bucket "fairshare" | RecordUsage, CalculatePenalty, DecayUsage, SaveFairshare | ReportResult charges, SubmitJob asks, a ticker decays and saves |
| Log streaming (`appendLog`, `StreamLogs`) | stored lines, a channel per follower, two locks | append, replay, register, forward, leave | every goroutine that logs, gRPC clients |
| Life cycle (`cmd/tasch/main.go`, `stop.go`) | processes, pid file, store lock, metrics port | start, signal, drain, stop, kill | master, worker, persistence, `jobs failed` |
| Matchmaker, metrics, most of the CLI, config, setup, profiler | | | not modelled, or a constant: see below |

What is hard: methods of the scheduler are atomic, but their callers are not,
and almost every caller reads in one critical section and acts in another
(Peek/Dequeue, Dequeue/MarkRunning, Cancel/Release, scan/requeue). The queue's
`Job.index` is one field although a job may have two entries. An
acknowledgement and a pending dispatch are matched by job id alone. Five places
release an allocation and nothing records who has. A report may arrive twice,
late, or after a cancel; what it charges is the difference of two times that
other goroutines reset. Saves are queued after the unlock and marshalled
without it; dead letters are saved past that queue. A follower of a log is sent
to under the lock that every goroutine needs to log. The pid file is looked for
at one end of a start and written at the other, and removed by whoever stops.
`PROJECT.json` lists these as hazards, at their lines.

What makes each component correct: the heap stays ordered and its indices sound;
a QUEUED job can still be dispatched; a failure with retries left is retried; a
RUNNING job is watched by somebody; a node is never given more than it has; a
job runs once at a time and is retried at most `max_retries` times; a group
starts together and is decided; the breaker blocks a node only for three
failures of different jobs; the store catches up with the scheduler, and a
restart forgets no live job and changes no answer; a user pays for the
time that jobs ran, once; a follower misses no line it had room for and holds
nobody up; there is one master, and a stop ends it.

## Modules

| Module | Models |
|---|---|
| `Entities` | jobs, nodes and their null values |
| `HeapBag` | the queue as a bag of entries plus the set of jobs whose `index` is set: what the rest of the system relies on |
| `JobQueue` | the array heap with container/heap's sifting; implements `HeapBag` |
| `GlobalScheduler` | job and group tables over `HeapBag`, one operator per method |
| `CircuitBreaker`, `BreakerHistory` | the breaker; the same with a history of which jobs' failures were counted |
| `Master` | all goroutines of the master over an open environment: any report, acknowledgement, join or leave at any time |
| `Worker` | a worker's message loop, executions, cancel functions, crash and restart |
| `Cluster` | `Master` and `Worker` composed, with a budget of network and process faults |
| `JobLife` | what the system promises about a job: one holder at a time (client, queue, dispatch, worker, handler, backoff) until its life is over; `Cluster` implements it |
| `Persistence` | the scheduler's methods as far as they are saved, called in any order by handlers and loops; hooks, write channel, writer, restore, drain, stop, crash |
| `Queries` | extends `Persistence` with dead letters and with what clients are told |
| `Fairshare` | the charge of ReportResult, the penalty of SubmitJob, the ticker, over a job's state and times |
| `LogStream` | appendLog, StreamLogs and its client |
| `Lifecycle` | the processes of `tasch start`, `tasch stop` and `tasch jobs failed` on one machine |
| `MCBreaker`, `MCJobQueue`, `MCCluster`, `MCPersistence`, `MCFairshare`, `MCLogStream`, `MCLifecycle` | instances for TLC |
| `Sums` | sums over finite sets, and the least-number argument behind them, for the proof modules that need them; models nothing |
| `JobQueueProofs`, `ClusterProofs`, `CustodyProofs`, `PersistenceProofs`, `FairshareProofs`, `LogStreamProofs`, `LifecycleProofs` | theorems |

A definition introduced as a *Variant* is a plausible wrong version of the one
after it; `PROJECT.json` pairs it with the property that fails when it takes the
other's place.

### Atomicity

An action of `Master` is one critical section of one goroutine together with
the code after it that touches nothing shared; what a goroutine carries into its
next critical section is in its record (`rpc`, `disp`, `gossip`, `wall`,
`shake`) and may be stale there. Some neighbouring critical sections are merged
because no other goroutine can tell them apart in the properties here: arming
`dispatchPending` and Allocate; GetJob, Release, the breaker's record and the
retry decision of ReportResult; Release and the publication that follows; the
reads of members, breaker and tracker for one placement; the reads of the ranks'
states in handleGroupCompletion. SubmitDistributedJob, sibling cancellation, gang
timeout and gang dispatch are one step per rank, as in the code. Cancel's copy
of the job is made after the unlock, so FinishCancel reads the node then.

In `LogStream` nothing waits under `subMu`, so a critical section of it is one
step; `logMu` is a variable, because the replay holds it across sends that wait.
In `Fairshare` a report is MarkCompleted, GetJob, the charge and the retry
decision, four steps; json.Marshal of the usage map is one step per user,
without a lock, as in the code. In `Lifecycle` a step is what a process does
between two accesses to what processes share; opening the pid file (which
empties it) and writing to it are two.

### Abstractions

Commands, outputs, times and names are gone: a report is "ok", "user" (exit
status, cancelled, walltime) or "infra", which is what ReportResult tells apart.
The three resources are one. CEL matching is the relation `Match`. Priorities
and submission order are the constant order `Order`. A timeout is an event that
may happen when its timer runs. Gossip in `Cluster` suspects no live worker, and
a worker that comes back has joined when it starts (`up` is part of `members`);
in `Master` any node may leave and join at any time. The store is present and its
transactions succeed. The acknowledgement's three tries are one that succeeds,
is refused or comes too late.

In `Persistence` handlers and loops call the methods of the scheduler at any
time, for any job or group the tables know and in whatever state it is, with no
more guards than the methods have: MarkRunning overwrites CANCELLED, a late
report COMPLETED, SetGroupState a decided group. That is more than the callers
do, whose order is `Master`'s subject. Of the queue there is its length; whether
Cancel finds the job's index set, and so removes an entry, is a choice. A saved
item is its state and retry count, in that order, because json.Marshal reads
them in that order from a live pointer; a state read while it is written is
"TORN". A job submitted there has a uuid that neither the store nor a dead letter
has.

In `Fairshare` the dispatch loop takes a QUEUED job and starts it later,
whatever became of it in between; that a job may have a second entry in the
queue needs a repeated or an unawaited report, and the jobs that had one are
excepted from its properties by `stale`. Groups are left out. Usage is a natural
number, the factor of the decay a percentage and the penalty a division that
rounds down; the zero time is 0, the first start is `Epoch`, and `MaxDuration <
Epoch`, so that a difference to the zero time saturates as time.Time.Sub does.
Which jobs a restart finds as QUEUED is any subset of the live ones:
`Persistence` says which. In `LogStream` a line is its number. In `Lifecycle` a
pid is used once, and a port other than the one for metrics is taken under the
store's lock, so only a stranger can hold it: the start may fail there. A pid
file is its creator (the inode) and its content, so that a daemon that still has
a removed file open writes to nobody.

## Runs

Every run checks deadlock as well.

| Run | Instance | Shows |
|---|---|---|
| `job_queue` | 4 jobs, at most 6 entries and 2 per job: three levels of the heap and duplicate entries | `HeapOrdered`, `IndexSound` (a set index points at an entry of that job), `ImplementsHeapBag` |
| `breaker` | 2 nodes, 3 jobs, 5 counted failures: beyond the threshold of 3 | `BlockedByCount`, `NoPoisonPill`, `CountsMeanCulprits` |
| `settles` | 2 jobs of sizes 2 and 1 on a node of size 2, 2 handlers, failures of both outcomes, 1 lost message, 1 retry | `NoQueuedJobLost`, `RetryScheduled`, `AtMostOneExecution`, `RetryBound`, `TrackerExact`, `ImplementsJobLife`, `EverySubmittedJobSettles` |
| `faults` | 1 job with a walltime, any two faults of loss, late handshake, crash, duplicate report, cancel | `Watched`, `NoQueuedJobLost`, `ClusterTypeOK` |
| `gang` | a group of 2 ranks and a single job that fits on no node, 2 nodes, a queue of 2 that may be full for the second rank, failures, one loss or cancel | `EveryGroupDecided`, `NoQueuedJobLost` |
| `store` | a job and a rank with its group, 1 handler, 1 loop, any 4 calls, channel of 2, queue of 1, 2 starts, 1 retry, crashes | `StaleOnlyWhileOwed`, `StopLosesOnlyCaught`, `RestoredUpToLimit`, `EventuallySaved`, `AnswerStands` |
| `log_stream` | 2 goroutines that log, 1 client that comes and goes, 3 lines, a channel and a window of 1 | `MissedOnlyWhenFull`, `NoSendOnClosed`, `LoggingGoesOn`, `FollowerServed` |
| `fairshare` | 2 jobs of a user, 1 handler, 2 executions, 1 retry, 2 time units, 1 mishap (timeout, lost node, repeated report, stop, concurrent map access) | `PenaltyEarned`, `BilledOnce` |
| `lifecycle` | 2 starts, 2 stops with 2 polls, 1 `jobs failed`, each role, crashes and a follower | `OneMaster`, `StoppedIsDead`, `PidFileKept`, `StopEnds` |
| `silent_loss` | 1 job, 2 nodes, a late handshake, a loss and a crash | `Watched` fails: the job is RUNNING for ever |
| `cancel_revived` | 1 job, 1 cancel | `CancelledStaysCancelled` fails |
| `oversubscribed` | 2 jobs of sizes 2 and 1 on a node of size 1, 1 handler, no faults | `NoOversubscription` fails: the large job is submitted between Peek and Dequeue, and Dequeue takes it for the small one |

The last three are disagreements between the documentation and the code; the
findings in `PROJECT.json` quote both.

**Bounds.** They are the smallest at which the interesting case happens: two
entries of one job need one retry and one requeue; a block needs three
failures of at least two jobs, which two jobs with one retry each produce; a
stale acknowledgement needs two executions of one job; a send out of order
needs two senders and a channel of two; a line that falls between replay and
registration needs a second logger; a repeated charge needs two executions or
two reports, and a saturated one a difference to the zero time, which
`Epoch = 5` and `MaxDuration = 4` give at once; a pid file taken from another
daemon needs two starts or two stops; a restore that fills the queue needs a
limit of one and two jobs in the store. `MaxLive`, `Budget`, `MaxFaults`,
`MaxStarts`, `MaxCalls`, `MaxEntries`, `MaxCopies`, `MaxStrikes`, `MaxLines`,
`Horizon`, `MaxExecs`, `MaxMishaps` are bounds of the instances or guards;
everything else is unbounded. `Master`'s open environment, with reports and
acknowledgements that no worker sent, is not run by itself: the theorems about
`NoQueuedJobLost` and `RetryScheduled` hold under it, and `Cluster` is a case of
it (`ClusterRefinesMaster`).

**Faults.** `Budget` says which faults a property survives. `Watched` holds
under any two of them and fails under three (`silent_loss`).

**Fairness.** Weak fairness of every goroutine's own steps: Go schedules a
runnable goroutine, tickers tick, `cmd.Run` returns because commands end or
their walltime cuts them off, memberlist notices a dead node. Nothing is
assumed of clients, faults, or of a crashed worker coming back. In
`Persistence` a blocked send is strongly fair, because a Go channel wakes its
blocked senders in order; a master that is down may stay down. In `LogStream`
taking `logMu` is strongly fair, because sync.Mutex hands itself to a goroutine
that has waited for long, and the client reads what it is sent, as its loop
does, or hangs up; nobody has to log or to hang up. In `Lifecycle` each process
goes on while it can; no client has to leave a stream, and nobody has to start
or stop anything. `Fairshare` states safety only.

## Statements the code does not keep

Found with the same modules, beyond the three runs above. The definitions are in
the modules; each is violated when its instance is given to TLC.

| Property | Instance | What happens |
|---|---|---|
| `GroupCompletedMeansRanksCompleted` | 2 ranks, 2 handlers | a FAILED rank counts as done (`master.go:574`), and SetGroupState "RUNNING" (`master.go:796`) overwrites a FAILED |
| `RunningNotRequeued` | a crash between MarkRunning and its save | the restore finds the job QUEUED (`master.go:1071`) and it runs again; `docs/USER_GUIDE.md:213` "Running jobs at crash time are marked FAILED." |
| `DeadStaysDead` | a crash between SaveDeadLetter and the save of the job | the dead letter is on disk and the job is restored (`master.go:516`) |
| `FollowerSeesAll` | a line stored between replay and registration, or a full channel | the follower never gets it (`master.go:430`, `:199`) |
| `FollowerInOrder` | two goroutines that log | each stores under one lock and offers under another (`master.go:194`) |
| `LoggingGoesOn` | a client that neither reads nor hangs up | the replay keeps `logMu` (`master.go:425`) and the dispatch loop waits |
| `PenaltyAlwaysEarned` | a late report after RequeueRunningJob | StartTime is zero, the charge is 292 years (`master.go:489`); `README.md:98` "Heavy users get priority penalties (auto-decaying)" |
| `BilledAtMostOnce` | a report delivered twice, or one that arrives after OnLeave has failed the job | MarkCompleted moves EndTime (`queue.go:333`-`344`), and ReportResult charges the whole time from StartTime once more (`master.go:489`-`491`) |
| `RunningIsFound`, `NoDoubleStart` | two starts, or a start during a stop | both pass the check (`main.go:114`, "Double-start prevention"); a stop or an exit removes the file of the other |
| `HealthServed` | a start that waits for the store of a master that stops | the old process still listens on the metrics port, the new one only prints an error (`master.go:1005`) |
| `TermSuffices` | an open log stream | GracefulStop waits for it (`master.go:1213`): only the SIGKILL of `tasch stop` ends the daemon |
| `FallbackEnds` | `jobs failed` with a master that holds the store and does not answer | bolt.Open waits without a limit (`store.go:32`) |
| `NoOvercommit` | a job with a walltime and two others, capacity 1 | walltimeEnforcer and ReportResult both release the same allocation (`master.go:892`), and a third job is placed on a full node |
| `GangTogether` | a single job and a group | Dequeue takes a rank that reached the top after Peek (`master.go:669`), the window of `oversubscribed`: it runs alone; `docs/USER_GUIDE.md:125` "waits for ALL N nodes before dispatching" |
| `RanksEndTogether` | a group of two and a crash, or a rank that fails during gang dispatch | OnLeave fails the group but cancels no sibling (`master.go:1115`); a rank not yet RUNNING when its siblings are cancelled is started afterwards |
| `EverySubmittedJobSettles` | a group of two and a lost message, or a full queue during SubmitDistributedJob | a requeued rank of a RUNNING group, or a rank of a group never registered, is never dispatched, and on top of the queue it ends every pass (`master.go:649`) |
| `TrackerExact` | a crash or a cancel of one job | OnLeave's (`master.go:1115`) or CancelJob's Release between MarkRunning and Allocate finds nothing, and what dispatchJob then allocates is never returned; a cancelled job that runs is released by the cancel and by its report |
| `TrackerExact` | a group with a rank that fails | the sibling's cancel and its report both release |
| `ImplementsJobLife` | a handshake that is late | the worker starts the command although /acknowledge_start answers 404, while the enforcer requeues the job (`master.go:932`): queue and worker have it both |
| `RetryBound` | a report delivered twice | two retry goroutines (`master.go:500`) |
| `QueueBound` | `MaxQueueSize` 1 and a retry | only Enqueue looks at the limit (`queue.go:274`) |
| `AcceptedSurvive` | a crash with the job in the channel | SubmitJob answers before the save (`master.go:1059`) |
| `LiveOnDiskKnown` | `MaxQueueSize` 1 and two QUEUED jobs on disk, the second put there by a requeue, which looks at no limit | the error of Enqueue is ignored in the restore (`master.go:1071`), and the new master does not know the job; `docs/USER_GUIDE.md:213` "Master restart restores queued jobs" |
| `QueuedRankDispatchable` | a restart with a waiting group | its ranks are enqueued, the group is FAILED (`master.go:1088`) |
| `HotPathFree` | a full channel | every scheduler goroutine waits for the disk (`master.go:1059`) |
| `CleanStopSaves` | a stop while a loop is between change and send | the loops are not waited for, the channel is closed (`master.go:1216`) |

Read off the code, without a definition of their own: usage charged since the
last tick is lost even by a graceful stop (`master.go:1165`), although
`README.md:84` says that fairshare survives a restart; SubmitDistributedJob adds
no penalty (`master.go:264`).

## Proofs

Thirty-six theorems, for every value of the constants that satisfies the named
assumptions of the modules. Those say no more than the code does: null values
are no jobs or nodes, `Order` numbers the jobs, limits and needs are natural
numbers, and the job table is finite (`TableAssumption`: `gs.jobs` is a map),
which only sums need. Where a theorem needs more, it is a named hypothesis on
the constants in the theorem itself (`OnTime`, `Undisturbed`), and below is what
happens without it.

**`JobQueueProofs`.** `QueueTypeCorrect`, `HeapIsOrdered`, `IndexIsSound` and
the refinement `ArrayImplementsBag`, for an array of any length. The loops of
container/heap are functions of the number of turns taken; that such a function
exists (`LoopExists`) and what holds after every turn (`Turns`) is induction by
a least counterexample. Up keeps one entry that may come before its parent,
while its children come no earlier than that parent (`UpInv`); Down keeps one
entry that may come after its children, while these come no earlier than its
parent (`DownInv`); when the loop rests there is no such entry, and there are
turns enough to rest, since positions halve or double. Remove needs both: an
entry from the end of the array goes down, and one that did not move may have to
go up. Each turn leaves the array `Shuffled`: as many entries of each job as
before, every index that is set the position of an entry of its job, and none
lost. Duplicate entries share one index, so Pop resets the index of a job that
may have another entry, which gets it back when a later swap moves that entry;
the bag allows it (`moved` in `HeapBag`), and the refinement shows that only
jobs with an entry get an index back. That jobs have distinct places
in the order is used for one step only: heap.Pop takes the job that is first.

**`ClusterProofs`.** About the breaker: `BreakerTypeCorrect`, `BlockNeedsCount`,
`PoisonPillHarmless`, `CountNeedsCulprits`, by one inductive invariant, of which
`CountsMeanCulprits` is the part that makes three counts impossible for one job.
About the master: `TypeCorrect` (`TypeOK` is inductive by itself, because it
says, besides types, what each goroutine's record must hold for its next step);
`QueuedJobsKept` and `RetriesKept`, each relative to `TypeOK`. The methods are
shown *quiet*: none takes the last entry of a job it leaves QUEUED, none
entitles a job to a retry but MarkCompleted; then only the dispatch loop's
window between Dequeue and MarkRunning, and the window between MarkCompleted and
the retry decision, need an argument of their own.

About the whole system: `ClusterRefinesMaster`: every step of the composed system
is a step of `Master` or leaves the master alone, because what workers send is
among what its open environment may send. So `ClusterKeepsQueuedJobs` and
`ClusterKeepsRetries` are the master's theorems again. `ClusterTypeCorrect`
needs `WireOK`: each execute message on the wire is the only one of an attempt
that waits for it. That ranks start together is no theorem, by the row of
`GangTogether` above.

**`CustodyProofs`.** A job is in one place at a time: not yet submitted, in the
queue, in the dispatch loop's hands, in `dispatchPending`, executing, with the
timeout enforcer, in a report being settled, or with a retry goroutine.
Nothing in the code says so; `CustodyInv` does, and it is inductive only
together with where the goroutines' stale records may point. From it follow
`OneExecution`, `RetriesBounded` and `RunningJobsWatched` under `OnTime`:
no handshake is late (else a job requeued by the enforcer runs as well, and
`silent_loss` is a trace of what else happens), no report is delivered twice
(else two retry goroutines), and where there are groups no worker dies (the gang
dispatch ignores what RemoveByID answers, and would start a rank that OnLeave
has failed meanwhile). Messages may be lost and jobs cancelled, and for single
jobs workers crash and return, any number of times.

`ClusterImplementsJobLife` is the refinement these amount to, under the same
hypothesis. `HoldersOf` maps a state of `Cluster` to the set of those who have a
job, so that a second holder would not be a state of `JobLife`. `CustodyInv`
before and after a step gives one holder each time; what remains is that the
step was a move. `Lawful` says it per holder: whoever has the job after a step
had it before, or got it from the one who may pass it on, and only a retry
goroutine that ends counts a try. It is proved action by action together with
`Custody` (`WellKept`), since most actions are calm about most jobs, and
`LifeMoves` turns it into a move of `JobLife` or a stutter.

`TrackerIsExact` and `RunningIsAllocated` go further under `Undisturbed`:
single jobs without a walltime that meet no crash and no cancel, since each of
those adds a second Release or one that comes before its Allocate (the rows of
`TrackerExact` and `NoOvercommit` above). Lost messages, failures, dispatch
timeouts and retries remain, and jobs may have any size. `TrackerInv` gives every
job a charge from Allocate to Release, and a node's allocation is the sum of its
charges and of what the enforcer has requeued but not yet released.
`RunningIsAllocated` compares two sums: each execution on a node has a job of its
own that is charged there, so what runs on a node never needs more than the
tracker says, in the middle of the master's steps too. That the tracker says no
more than the node has is the half that the code does not keep: TakeTop sends
whatever is on top by then to the node that was chosen for the job Peek saw
(`oversubscribed`).

**`Sums`.** The library's fold is a recursive function, and induction over sets
is not to be had from the library here. A least counterexample is: a set of
finite sets that is not empty has one with fewest members (`LeastSet`), which
gives induction over the parts of a finite set for a set of sets instead of a
predicate (`SetInduction`). From it follow that the fold exists and what the
proofs use: a sum with a member changed, of larger values, over a part, along an
injection.

**`PersistenceProofs`.** `StoreCatchesUp` and `StopKeepsWhatWasSent`, whatever
the callers do to an item in whatever state. `StaleOnlyWhileOwed` is not
inductive: the writer may hold an old value while the store already has the new
one, and its save would then put the old one back. `WriterBehind` excludes it: a
value the writer holds that is no longer true has another send behind it.
`RestoreFillsQueue` is `RestoredUpToLimit` for every limit, by `RestoreOK`: during
the restore the queue is as long as the number of jobs in memory, and a job the
loop has passed by without enqueueing it was refused by a full queue or is not
live. `QueryTypeCorrect` and the action property `RestartKeepsAnswers` are about
`Queries`. The latter needs that no report is being settled while the master is
down, stopped or in its restore (`ReportsQuiet`), so that no dead letter appears
there, and that after a graceful stop a job of which store and memory disagree
was changed last by a loop that never came to send it (`CaughtByLoop`).

**`FairshareProofs`.** `FairTypeCorrect`; `ChargesAreTrue`, by a ledger per job
that balances at each stage of an execution (running, cancelled and not yet
reported, elapsed time read or not, charged), for the jobs that had no report
repeated and none for an execution given up (the rows of `BilledAtMostOnce` and
`PenaltyAlwaysEarned` say what those do); `PenaltiesAreEarned`, because no copy of
a user's usage, in memory, in the store or on its way there, exceeds the charges
for the user's jobs, which the ledger bounds by their running time. A job that
the dispatch loop has taken may be cancelled before MarkRunning; `InHand` says
what it can be by then, so that the ledger starts an execution from nothing.

**`LogStreamProofs`.** `LogTypeCorrect`, `ClosedAreUnregistered` and
`FollowersMissOnlyWhenFull`, from `Registered`: the list of channels of a job is
exactly the streams between Register and Unregister, and none of those is
closed.

**`LifecycleProofs`.** `LifeTypeCorrect`, `MasterIsAlone`, `StopSucceeds`,
`PidFileIsKept`, for any number of starts, stops and readers. `OneMaster`
follows from `LockInv`: a master has the store's lock in every phase from
bolt.Open to cleanDB, a reader while it reads, and no process without it
releases it. `StoppedIsDead` needs that a pid once read belongs to a daemon
that has started, so that a dead target stays dead and writes no file.
`PidFileKept` follows from `FileInv`: a daemon whose start met nobody is the
only one alive, no stop is under way while it starts, and until it is
signalled each stop under way has read its file and done no more.

Only model-checked: liveness (`EverySubmittedJobSettles`, `EveryGroupDecided`,
`EventuallySaved`, `LoggingGoesOn`, `FollowerServed`, `StopEnds`), which is
beyond the prover. Beyond the hypotheses above, `Watched` under late handshakes and
repeated reports is checked by TLC only, as far as the `faults` run goes.

## Not modelled

WorkerStatus, /health and /ready (they read and change nothing), metrics, the
commands of the CLI other than `jobs logs` and `jobs failed` (one call and its
printed answer), configuration, setup, profiler, generated code. Of the store,
DeleteJob, which nothing calls. Of the profiler and the matchmaker only their
results appear, as constants.

## Plan

Done, in this order: queue, scheduler, breaker, master, worker, cluster,
persistence; then queries, log streaming, fairshare and the life cycle; then
theorems for every module.

Next: `TrackerIsExact` for groups whose ranks succeed.
