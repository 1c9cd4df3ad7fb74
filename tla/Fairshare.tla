----------------------------- MODULE Fairshare -----------------------------
(***************************************************************************)
(* Fairshare: FairshareCalculator of pkg/scheduler/queue.go, the charge    *)
(* that ReportResult makes, the penalty that SubmitJob adds, and the       *)
(* ticker of StartMaster that decays the usage and saves it.               *)
(*                                                                         *)
(* The methods of GlobalScheduler appear as what they do to a job's state, *)
(* StartTime and EndTime.  An execution is a job and the number of its     *)
(* dispatch; the worker reports each, perhaps late and perhaps twice.      *)
(***************************************************************************)
EXTENDS Entities, Integers, FiniteSets, FiniteSetsExt

CONSTANTS
    Users, UserOf,
    MaxRetries,      \* Config.MaxRetries
    Handlers,        \* goroutines that run ReportResult
    NoUser,          \* a handler that has not looked the job up
    Epoch,           \* the time of the first start; time.Time{} is 0
    MaxDuration,     \* what a time.Duration holds (292 years); Sub saturates
    Unit,            \* usage per point of penalty (100 seconds)
    Factor,          \* what a tick leaves of 100 seconds (95)
    Horizon,         \* bound: the last time modelled
    MaxExecs,        \* bound: dispatches in all
    MaxMishaps       \* bound: timeouts, lost nodes, repeated reports, stops

ASSUME UserAssumption == UserOf \in [Jobs -> Users] /\ NoUser \notin Users
ASSUME ClockAssumption ==
    /\ MaxDuration \in Nat /\ Epoch \in Nat /\ Horizon \in Nat
    /\ MaxDuration < Epoch /\ Epoch <= Horizon /\ Epoch + MaxDuration > Horizon
    /\ Unit \in Nat \ {0} /\ Factor \in 0 .. 99 /\ MaxRetries \in Nat
    /\ MaxExecs \in Nat /\ MaxMishaps \in Nat

VARIABLES
    now, up,
    mishaps,     \* how much has gone wrong
    job,         \* State, StartTime, EndTime and RetryCount of each job
    asleep,      \* retry goroutines that wait out a backoff, per job
    taken,       \* the job that the dispatch loop has taken from the queue
    execs,       \* executions whose report may still come
    handler,     \* where each ReportResult is
    userUsage,   \* FairshareCalculator.UserUsage
    saved,       \* the bucket "fairshare"
    ticker,      \* the goroutine that decays and saves
    penalty,     \* what SubmitJob added to each job's priority
    execNo,      \* history: dispatches of each job
    reported,    \* history: executions whose report has come
    running,     \* history: how long each job has been RUNNING
    billed,      \* history: what its reports have charged
    stale,       \* history: jobs with a report that was repeated or came for
                 \* an execution given up
    lost         \* history: jobs that a restart took the report of

table == <<job, asleep, taken>>
history == <<execNo, reported, running, billed, stale, lost>>
fairVars == <<now, up, mishaps, table, execs, handler, userUsage, saved, ticker, penalty,
              history>>

Zero == 0
NewJob == [state |-> "NONE", start |-> Zero, end |-> Zero, retries |-> 0]
Idle == [pc |-> "idle", exec |-> <<NoJob, 0>>, success |-> FALSE,
         user |-> NoUser, dur |-> 0, again |-> FALSE]
Waiting == [pc |-> "wait", unread |-> {}, val |-> [u \in Users |-> 0]]

Executions == Jobs \X (1 .. MaxExecs)

Times == {Zero} \cup (Epoch .. now)
JobRecords ==
    [state : {"NONE", "QUEUED", "RUNNING", "COMPLETED", "FAILED", "CANCELLED"},
     start : Times, end : Times, retries : Nat]
HandlerRecords ==
    [pc : {"idle", "look", "charge", "retry"}, exec : Executions \cup {<<NoJob, 0>>},
     success : BOOLEAN, user : Users \cup {NoUser}, dur : -Horizon .. MaxDuration,
     again : BOOLEAN]

FairTypeOK ==
    /\ now \in Epoch .. Horizon /\ up \in BOOLEAN /\ mishaps \in 0 .. MaxMishaps
    /\ job \in [Jobs -> JobRecords] /\ asleep \in [Jobs -> Nat]
    /\ taken \in Jobs \cup {NoJob}
    /\ execs \in SUBSET Executions
    /\ handler \in [Handlers -> HandlerRecords]
    /\ userUsage \in [Users -> Nat] /\ saved \in [Users -> Nat]
    /\ ticker \in [pc : {"wait", "save"}, unread : SUBSET Users, val : [Users -> Nat]]
    /\ penalty \in [Jobs -> Nat]
    /\ execNo \in [Jobs -> 0 .. MaxExecs] /\ reported \in SUBSET Executions
    /\ running \in [Jobs -> Nat] /\ billed \in [Jobs -> Nat]
    /\ stale \in SUBSET Jobs /\ lost \in SUBSET Jobs

FairInit ==
    /\ now = Epoch /\ up = TRUE /\ mishaps = 0
    /\ job = [j \in Jobs |-> NewJob]
    /\ asleep = [j \in Jobs |-> 0] /\ taken = NoJob
    /\ execs = {}
    /\ handler = [h \in Handlers |-> Idle]
    /\ userUsage = [u \in Users |-> 0] /\ saved = [u \in Users |-> 0]
    /\ ticker = Waiting
    /\ penalty = [j \in Jobs |-> 0]
    /\ execNo = [j \in Jobs |-> 0] /\ reported = {}
    /\ running = [j \in Jobs |-> 0] /\ billed = [j \in Jobs |-> 0]
    /\ stale = {} /\ lost = {}

Mishap == mishaps < MaxMishaps /\ mishaps' = mishaps + 1

\* Time passes; a job that is RUNNING has run a little longer.
Pass ==
    /\ now < Horizon
    /\ now' = now + 1
    /\ running' = [j \in Jobs |-> running[j] + IF job[j].state = "RUNNING" THEN 1 ELSE 0]
    /\ UNCHANGED <<up, mishaps, table, execs, handler, userUsage, saved, ticker, penalty,
                   execNo, reported, billed, stale, lost>>

-----------------------------------------------------------------------------
(* The job table *)

CalculatePenalty(u) == userUsage[u] \div Unit

Submit(j) ==
    /\ up /\ job[j].state = "NONE" /\ j \notin lost
    /\ job' = [job EXCEPT ![j].state = "QUEUED"]
    /\ penalty' = [penalty EXCEPT ![j] = CalculatePenalty(UserOf[j])]
    /\ UNCHANGED <<now, up, mishaps, asleep, taken, execs, handler, userUsage, saved,
                   ticker, history>>

TableStep ==
    UNCHANGED <<now, up, handler, userUsage, saved, ticker, penalty, reported,
                running, billed, stale, lost>>

Dispatches == MapThenSumSet(LAMBDA j : execNo[j], Jobs)

\* Dequeue or Backfill.
Dequeue(j) ==
    /\ up /\ taken = NoJob /\ job[j].state = "QUEUED" /\ Dispatches < MaxExecs
    /\ taken' = j
    /\ UNCHANGED <<mishaps, job, asleep, execNo, execs>> /\ TableStep

\* Whatever the job has become since: a Cancel is overwritten.
MarkRunning(j) ==
    /\ up /\ taken = j /\ Dispatches < MaxExecs
    /\ taken' = NoJob
    /\ job' = [job EXCEPT ![j].state = "RUNNING", ![j].start = now]
    /\ execNo' = [execNo EXCEPT ![j] = @ + 1]
    /\ execs' = execs \cup {<<j, execNo[j] + 1>>}
    /\ UNCHANGED <<mishaps, asleep>> /\ TableStep

Cancel(j) ==
    /\ up /\ job[j].state \in {"QUEUED", "RUNNING"}
    /\ job' = [job EXCEPT ![j].state = "CANCELLED", ![j].end = now]
    /\ UNCHANGED <<mishaps, asleep, taken, execNo, execs>> /\ TableStep

\* The handshake did not come in time; the worker may run the job even so.
RequeueRunningJob(j) ==
    /\ up /\ job[j].state = "RUNNING"
    /\ job' = [job EXCEPT ![j].state = "QUEUED", ![j].start = Zero]
    /\ Mishap
    /\ UNCHANGED <<asleep, taken, execNo, execs>> /\ TableStep

\* OnLeave: "worker node lost", although the worker may be there.
NodeLost(j) ==
    /\ up /\ job[j].state = "RUNNING"
    /\ job' = [job EXCEPT ![j].state = "FAILED", ![j].end = now]
    /\ Mishap
    /\ UNCHANGED <<asleep, taken, execNo, execs>> /\ TableStep

Requeue(j) ==
    /\ up /\ asleep[j] > 0
    /\ asleep' = [asleep EXCEPT ![j] = @ - 1]
    /\ job' = [job EXCEPT ![j] = [state |-> "QUEUED", start |-> Zero, end |-> Zero,
                                  retries |-> @.retries + 1]]
    /\ UNCHANGED <<mishaps, taken, execNo, execs>> /\ TableStep

-----------------------------------------------------------------------------
(* ReportResult *)

\* The first report of the execution that the job's StartTime belongs to.
Awaited(e) ==
    LET j == e[1] IN
    /\ e[2] = execNo[j] /\ e \notin reported
    /\ job[j].state \in {"RUNNING", "CANCELLED"} /\ job[j].start # Zero

MarkCompleted(j, success) ==
    job' = IF job[j].state = "CANCELLED" THEN job
           ELSE [job EXCEPT ![j].state = IF success THEN "COMPLETED" ELSE "FAILED",
                            ![j].end = now]

\* A report is repeated when its answer is lost: e may stay in execs.  A report
\* of a job that is not in the table is acknowledged and that is all.
ReportResult(h, e, success) ==
    LET j == e[1] IN
    /\ up /\ handler[h] = Idle /\ e \in execs
    /\ \/ execs' = execs \ {e} /\ UNCHANGED mishaps
       \/ Mishap /\ UNCHANGED execs
    /\ reported' = reported \cup {e}
    /\ \/ job[j].state = "NONE" /\ UNCHANGED <<job, handler, stale>>
       \/ /\ job[j].state # "NONE"
          /\ MarkCompleted(j, success)
          /\ handler' = [handler EXCEPT ![h] =
                            [Idle EXCEPT !.pc = "look", !.exec = e, !.success = success]]
          /\ stale' = IF Awaited(e) THEN stale ELSE stale \cup {j}
    /\ UNCHANGED <<now, up, asleep, taken, userUsage, saved, ticker, penalty, execNo,
                   running, billed, lost>>

\* Variant: the difference is not kept in the range of a Duration.
SubUnchecked(t, s) == t - s

\* time.Time.Sub
Sub(t, s) == IF t - s > MaxDuration THEN MaxDuration ELSE t - s

\* GetJob copies the job; the handler goes by the copy from here on.
LookUp(h) ==
    LET j == handler[h].exec[1] IN
    /\ up /\ handler[h].pc = "look"
    /\ handler' = [handler EXCEPT
                ![h].pc = "charge", ![h].user = UserOf[j],
                ![h].dur = Sub(job[j].end, job[j].start),
                ![h].again = ~handler[h].success /\ job[j].retries < MaxRetries]
    /\ UNCHANGED <<now, up, mishaps, table, execs, userUsage, saved, ticker, penalty, history>>

\* Variant: the charge is made when the job will not be retried.
RecordUsageOfLast(h) ==
    LET r == handler[h]
        dur == IF r.dur > 0 /\ ~r.again THEN r.dur ELSE 0
    IN
    /\ up /\ r.pc = "charge"
    /\ userUsage' = [userUsage EXCEPT ![r.user] = @ + dur]
    /\ billed' = [billed EXCEPT ![r.exec[1]] = @ + dur]
    /\ handler' = [handler EXCEPT ![h].pc = "retry"]
    /\ UNCHANGED <<now, up, mishaps, table, execs, saved, ticker, penalty, execNo, reported,
                   running, stale, lost>>

RecordUsage(h) ==
    LET r == handler[h]
        dur == IF r.dur > 0 THEN r.dur ELSE 0
    IN
    /\ up /\ r.pc = "charge"
    /\ userUsage' = [userUsage EXCEPT ![r.user] = @ + dur]
    /\ billed' = [billed EXCEPT ![r.exec[1]] = @ + dur]
    /\ handler' = [handler EXCEPT ![h].pc = "retry"]
    /\ UNCHANGED <<now, up, mishaps, table, execs, saved, ticker, penalty, execNo, reported,
                   running, stale, lost>>

\* A job to be tried again gets a goroutine that waits out the backoff.
ScheduleRetry(h) ==
    LET j == handler[h].exec[1] IN
    /\ up /\ handler[h].pc = "retry"
    /\ asleep' = [asleep EXCEPT ![j] = @ + IF handler[h].again THEN 1 ELSE 0]
    /\ handler' = [handler EXCEPT ![h] = Idle]
    /\ UNCHANGED <<now, up, mishaps, job, taken, execs, userUsage, saved, ticker, penalty,
                   history>>

-----------------------------------------------------------------------------
(* The ticker, which shares the map with RecordUsage; the save takes no lock *)

TickerStep ==
    UNCHANGED <<now, up, mishaps, table, execs, handler, penalty, history>>

DecayUsage ==
    /\ up /\ ticker.pc = "wait"
    /\ userUsage' = [u \in Users |-> (userUsage[u] * Factor) \div 100]
    /\ ticker' = [Waiting EXCEPT !.pc = "save", !.unread = Users]
    /\ UNCHANGED saved /\ TickerStep

\* json.Marshal iterates over the map.
Marshal(u) ==
    /\ up /\ ticker.pc = "save" /\ u \in ticker.unread
    /\ ticker' = [ticker EXCEPT !.unread = @ \ {u}, !.val[u] = userUsage[u]]
    /\ UNCHANGED <<userUsage, saved>> /\ TickerStep

\* Variant: what is saved is added to what was there.
SaveFairshareAdds ==
    /\ up /\ ticker.pc = "save" /\ ticker.unread = {}
    /\ saved' = [u \in Users |-> saved[u] + ticker.val[u]]
    /\ ticker' = Waiting
    /\ UNCHANGED userUsage /\ TickerStep

SaveFairshare ==
    /\ up /\ ticker.pc = "save" /\ ticker.unread = {}
    /\ saved' = ticker.val
    /\ ticker' = Waiting
    /\ UNCHANGED userUsage /\ TickerStep

-----------------------------------------------------------------------------
(* Stop, crash and restart *)

\* What a stop or a crash leaves: usage as it was saved, and of the jobs those
\* that the store has as QUEUED (module Persistence says which).
GoesDown(known) ==
    /\ up' = FALSE /\ Mishap
    /\ job' = [j \in Jobs |-> IF j \in known THEN [job[j] EXCEPT !.state = "QUEUED",
                                                                !.start = Zero]
                              ELSE NewJob]
    /\ asleep' = [j \in Jobs |-> 0] /\ taken' = NoJob
    /\ handler' = [h \in Handlers |-> Idle]
    /\ ticker' = Waiting
    /\ lost' = lost \cup {j \in Jobs : job[j].state # "NONE"}
    /\ UNCHANGED <<now, execs, userUsage, saved, penalty, execNo, reported, running,
                   billed, stale>>

Live == {j \in Jobs : job[j].state \in {"QUEUED", "RUNNING"}}

Down == up /\ \E known \in SUBSET Live : GoesDown(known)

\* The runtime ends a process that iterates over a map while another goroutine
\* writes to it, if it notices.
ConcurrentMapAccess(h) ==
    /\ up /\ handler[h].pc = "charge" /\ handler[h].dur > 0
    /\ ticker.pc = "save" /\ ticker.unread # {}
    /\ \E known \in SUBSET Live : GoesDown(known)

Restart ==
    /\ ~up /\ up' = TRUE
    /\ userUsage' = saved
    /\ UNCHANGED <<now, mishaps, table, execs, handler, saved, ticker, penalty, history>>

-----------------------------------------------------------------------------
JobStep(j) ==
    \/ Submit(j) \/ Dequeue(j) \/ MarkRunning(j) \/ Cancel(j)
    \/ RequeueRunningJob(j) \/ NodeLost(j) \/ Requeue(j)

HandlerStep(h) == LookUp(h) \/ RecordUsage(h) \/ ScheduleRetry(h)

Ticking == DecayUsage \/ SaveFairshare \/ \E u \in Users : Marshal(u)

FairNext ==
    \/ Pass \/ Ticking \/ Down \/ Restart
    \/ \E j \in Jobs : JobStep(j)
    \/ \E h \in Handlers :
          \/ HandlerStep(h) \/ ConcurrentMapAccess(h)
          \/ \E e \in execs, success \in BOOLEAN : ReportResult(h, e, success)

FairSpec == FairInit /\ [][FairNext]_fairVars

-----------------------------------------------------------------------------
(* Properties *)

JobsOf(u) == {j \in Jobs : UserOf[j] = u}

\* A penalty is earned: what SubmitJob adds to a user's priorities, a point a
\* unit, is never more than the time the user's jobs were RUNNING, across
\* retries, cancellations and restarts, as long as no report was repeated and
\* none came for an execution that the master had given up.
PenaltyEarned ==
    \A j \in Jobs :
       LET mine == JobsOf(UserOf[j]) IN
       mine \cap stale = {} =>
          penalty[j] * Unit <= MapThenSumSet(LAMBDA k : running[k], mine)

Quiet(j) ==
    /\ job[j].state # "RUNNING"
    /\ \A k \in 1 .. execNo[j] : <<j, k>> \in reported
    /\ \A h \in Handlers : handler[h].exec[1] # j \/ handler[h].pc = "retry"

\* Every second a job was RUNNING is charged once, if each execution is reported
\* once and while the master awaits it: no report is charged more than its
\* execution, and when all have come the charges for a job, its failed attempts
\* included, add up to that time.
BilledOnce ==
    \A j \in Jobs \ (stale \cup lost) :
       billed[j] <= running[j] /\ (Quiet(j) => billed[j] = running[j])

\* The charges for a job of one execution are at most the time it was RUNNING,
\* however often the execution is reported.
BilledAtMostOnce ==
    \A j \in Jobs \ lost :
       execNo[j] = 1 /\ job[j].start # Zero => billed[j] <= running[j]

\* No penalty exceeds the time that the user's jobs were RUNNING.
PenaltyAlwaysEarned ==
    \A j \in Jobs :
       penalty[j] * Unit <= MapThenSumSet(LAMBDA k : running[k], JobsOf(UserOf[j]))
=============================================================================
