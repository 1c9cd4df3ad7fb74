-------------------------- MODULE FairshareProofs --------------------------
(***************************************************************************)
(* Proofs about fairshare accounting, for any number of jobs, users, report *)
(* handlers and executions and any clock: charges follow the time jobs ran, *)
(* and penalties follow charges.                                           *)
(***************************************************************************)
EXTENDS Fairshare, Sums

\* A handler that is idle holds nothing; one that is not deals with an
\* execution, and charges the user whose job it is.
HandlersFit ==
    \A h \in Handlers :
       /\ handler[h].pc = "idle" => handler[h] = Idle
       /\ handler[h].pc # "idle" => handler[h].exec \in Executions
       /\ handler[h].pc \in {"charge", "retry"} => handler[h].user = UserOf[handler[h].exec[1]]

\* What types need to be kept.
Fit == FairTypeOK /\ HandlersFit

\* DecayUsage takes away and never adds.
LEMMA Decays ==
    ASSUME NEW x \in Nat
    PROVE  (x * Factor) \div 100 \in Nat /\ (x * Factor) \div 100 <= x
<1>1. Factor \in 0 .. 99
  BY ClockAssumption
<1>2. x * Factor \in Nat /\ x * Factor <= x * 100
  BY <1>1
<1>3. PICK y \in Nat : y = x * Factor /\ y <= x * 100
  BY <1>2
<1> QED
  BY <1>3

\* CalculatePenalty rounds down.
LEMMA PenaltyCovered ==
    ASSUME NEW x \in Nat
    PROVE  x \div Unit \in Nat /\ (x \div Unit) * Unit <= x
  BY ClockAssumption

\* A dispatch within the bound of all jobs is within the bound of its own.
LEMMA ExecsBounded ==
    ASSUME FairTypeOK, Dispatches < MaxExecs, NEW j \in Jobs
    PROVE  execNo[j] < MaxExecs
<1>1. Dispatches = SumOver(execNo, Jobs)
  BY DEF Dispatches, SumOver
<1>2. \A k \in Jobs : execNo[k] \in Nat
  BY DEF FairTypeOK
<1>3. SumOver(execNo, Jobs) = execNo[j] + SumOver(execNo, Jobs \ {j})
  BY <1>2, TableAssumption, SumRemove
<1>4. SumOver(execNo, Jobs \ {j}) \in Nat
  BY <1>2, TableAssumption, FS_Subset, SumNat
<1> QED
  BY <1>1, <1>2, <1>3, <1>4, ClockAssumption

\* An idle handler is a handler.
LEMMA IdleFits == Idle \in HandlerRecords /\ Idle.pc = "idle"
  BY ClockAssumption DEF Idle, HandlerRecords

\* A new scheduler is well typed.
LEMMA InitFit == FairInit => Fit
<1> SUFFICES ASSUME FairInit PROVE Fit
  OBVIOUS
<1>1. NewJob \in JobRecords
  BY DEF NewJob, JobRecords, Times
<1>2. Idle \in HandlerRecords
  BY IdleFits
<1>3. Waiting \in [pc : {"wait", "save"}, unread : SUBSET Users, val : [Users -> Nat]]
  BY DEF Waiting
<1>4. job \in [Jobs -> JobRecords] /\ handler \in [Handlers -> HandlerRecords]
  BY <1>1, <1>2 DEF FairInit
<1>5. FairTypeOK
  <2>1. /\ now \in Epoch .. Horizon /\ up \in BOOLEAN /\ mishaps \in 0 .. MaxMishaps
        /\ execs \in SUBSET Executions /\ reported \in SUBSET Executions
        /\ stale \in SUBSET Jobs /\ lost \in SUBSET Jobs
    BY ClockAssumption DEF FairInit
  <2>2. /\ asleep \in [Jobs -> Nat] /\ execNo \in [Jobs -> 0 .. MaxExecs]
        /\ penalty \in [Jobs -> Nat] /\ running \in [Jobs -> Nat] /\ billed \in [Jobs -> Nat]
    BY ClockAssumption DEF FairInit
  <2>3. userUsage \in [Users -> Nat] /\ saved \in [Users -> Nat] /\ taken \in Jobs \cup {NoJob}
    BY DEF FairInit
  <2>4. ticker \in [pc : {"wait", "save"}, unread : SUBSET Users, val : [Users -> Nat]]
    BY <1>3 DEF FairInit
  <2> QED
    BY <1>4, <2>1, <2>2, <2>3, <2>4 DEF FairTypeOK
<1>6. HandlersFit
  BY DEF FairInit, HandlersFit, Idle
<1> QED
  BY <1>5, <1>6 DEF Fit

\* What an assignment to a field of a job does.
LEMMA JobField ==
    ASSUME FairTypeOK, now' = now, NEW j \in Jobs, NEW r \in JobRecords,
           job' = [job EXCEPT ![j] = r]
    PROVE  job' \in [Jobs -> JobRecords]'
  BY DEF FairTypeOK, JobRecords, Times

\* The steps on the job table keep types.
LEMMA FitTable ==
    ASSUME Fit, NEW j \in Jobs, JobStep(j)
    PROVE  Fit'
<1> USE DEF Fit
<1>1. now' = now /\ handler' = handler /\ now \in Epoch .. Horizon
  BY DEF JobStep, Submit, Dequeue, MarkRunning, Cancel, RequeueRunningJob, NodeLost, Requeue,
         TableStep, FairTypeOK
<1>2. PICK r \in JobRecords : job' = [job EXCEPT ![j] = r]
  <2> DEFINE s == job[j]
  <2>0. s \in JobRecords /\ now \in Times /\ Zero \in Times
    BY <1>1 DEF FairTypeOK, Times
  <2> HIDE DEF s
  <2>7. CASE Dequeue(j)
    BY <2>0, <2>7 DEF Dequeue, s, FairTypeOK
  <2>1. CASE Submit(j)
    <3>1. job' = [job EXCEPT ![j] = [s EXCEPT !.state = "QUEUED"]]
      BY <2>1 DEF Submit, s
    <3> QED
      BY <2>0, <3>1 DEF JobRecords
  <2>2. CASE MarkRunning(j)
    <3>1. job' = [job EXCEPT ![j] = [s EXCEPT !.state = "RUNNING", !.start = now]]
      BY <2>2 DEF MarkRunning, s
    <3> QED
      BY <2>0, <3>1 DEF JobRecords
  <2>3. CASE Cancel(j)
    <3>1. job' = [job EXCEPT ![j] = [s EXCEPT !.state = "CANCELLED", !.end = now]]
      BY <2>3 DEF Cancel, s
    <3> QED
      BY <2>0, <3>1 DEF JobRecords
  <2>4. CASE RequeueRunningJob(j)
    <3>1. job' = [job EXCEPT ![j] = [s EXCEPT !.state = "QUEUED", !.start = Zero]]
      BY <2>4 DEF RequeueRunningJob, s
    <3> QED
      BY <2>0, <3>1 DEF JobRecords
  <2>5. CASE NodeLost(j)
    <3>1. job' = [job EXCEPT ![j] = [s EXCEPT !.state = "FAILED", !.end = now]]
      BY <2>5 DEF NodeLost, s
    <3> QED
      BY <2>0, <3>1 DEF JobRecords
  <2>6. CASE Requeue(j)
    <3>1. job' = [job EXCEPT ![j] = [state |-> "QUEUED", start |-> Zero, end |-> Zero,
                                     retries |-> s.retries + 1]]
      BY <2>6 DEF Requeue, s
    <3>2. s.retries + 1 \in Nat
      BY <2>0 DEF JobRecords
    <3> QED
      BY <2>0, <3>1, <3>2 DEF JobRecords
  <2> QED
    BY <2>1, <2>2, <2>3, <2>4, <2>5, <2>6, <2>7 DEF JobStep
<1>3. job' \in [Jobs -> JobRecords]'
  BY <1>1, <1>2, JobField
<1>4. asleep' \in [Jobs -> Nat]
  BY DEF JobStep, Submit, Dequeue, MarkRunning, Cancel, RequeueRunningJob, NodeLost, Requeue,
         TableStep, FairTypeOK
<1>5. execNo' \in [Jobs -> 0 .. MaxExecs] /\ execs' \in SUBSET Executions
  BY ExecsBounded, ClockAssumption
     DEF JobStep, Submit, Dequeue, MarkRunning, Cancel, RequeueRunningJob, NodeLost, Requeue,
         TableStep, FairTypeOK, history, Executions
<1>6. penalty' \in [Jobs -> Nat]
  BY PenaltyCovered, UserAssumption
     DEF JobStep, Submit, Dequeue, MarkRunning, Cancel, RequeueRunningJob, NodeLost, Requeue,
         TableStep, FairTypeOK, CalculatePenalty
<1>7. mishaps' \in 0 .. MaxMishaps /\ taken' \in Jobs \cup {NoJob}
  BY ClockAssumption
     DEF JobStep, Submit, Dequeue, MarkRunning, Cancel, RequeueRunningJob, NodeLost, Requeue,
         TableStep, FairTypeOK, Mishap
<1>8. UNCHANGED <<up, userUsage, saved, ticker, reported, running, billed, stale, lost>>
  BY DEF JobStep, Submit, Dequeue, MarkRunning, Cancel, RequeueRunningJob, NodeLost, Requeue,
         TableStep, history
<1>9. FairTypeOK'
  BY <1>1, <1>3, <1>4, <1>5, <1>6, <1>7, <1>8
     DEF FairTypeOK, HandlerRecords, Executions
<1> QED
  BY <1>1, <1>9 DEF HandlersFit

\* What a handler's step does to its record.
LEMMA HandlerField ==
    ASSUME FairTypeOK, NEW h \in Handlers, NEW r \in HandlerRecords,
           handler' = [handler EXCEPT ![h] = r]
    PROVE  handler' \in [Handlers -> HandlerRecords]
  BY DEF FairTypeOK

\* ReportResult keeps types up to its Release.
LEMMA FitReport ==
    ASSUME Fit, NEW h \in Handlers, NEW e \in execs, NEW success \in BOOLEAN,
           ReportResult(h, e, success)
    PROVE  Fit'
<1> USE DEF Fit
<1>1. e \in Executions /\ e[1] \in Jobs
  BY DEF FairTypeOK, Executions
<1>2. UNCHANGED <<now, up, asleep, taken, userUsage, saved, ticker, penalty, execNo, running,
                  billed, lost>>
  BY DEF ReportResult
<1>3. mishaps' \in 0 .. MaxMishaps /\ execs' \in SUBSET Executions
      /\ reported' \in SUBSET Executions /\ stale' \in SUBSET Jobs
  BY <1>1, ClockAssumption DEF ReportResult, FairTypeOK, Mishap
<1>4. job' \in [Jobs -> JobRecords]'
  <2>1. CASE UNCHANGED job
    BY <1>2, <2>1 DEF FairTypeOK, JobRecords, Times
  <2>2. CASE MarkCompleted(e[1], success) /\ job[e[1]].state # "CANCELLED"
    <3> DEFINE s == job[e[1]]
               end == IF success THEN "COMPLETED" ELSE "FAILED"
    <3>1. s \in JobRecords /\ now \in Times /\ end \in {"COMPLETED", "FAILED"}
      BY <1>1 DEF FairTypeOK, Times
    <3>2. job' = [job EXCEPT ![e[1]] = [s EXCEPT !.state = end, !.end = now]]
      BY <2>2 DEF MarkCompleted
    <3> HIDE DEF s, end
    <3>3. [s EXCEPT !.state = end, !.end = now] \in JobRecords
      BY <3>1 DEF JobRecords
    <3> QED
      BY <1>1, <1>2, <3>2, <3>3, JobField
  <2> QED
    BY <2>1, <2>2 DEF ReportResult, MarkCompleted
<1>5. UNCHANGED handler
      \/ handler' = [handler EXCEPT ![h] = [Idle EXCEPT !.pc = "look", !.exec = e,
                                                         !.success = success]]
  BY DEF ReportResult
<1>6. [Idle EXCEPT !.pc = "look", !.exec = e, !.success = success] \in HandlerRecords
  <2>1. Idle \in HandlerRecords
    BY IdleFits
  <2> QED
    BY <1>1, <2>1 DEF HandlerRecords
<1>7. handler' \in [Handlers -> HandlerRecords]
  BY <1>5, <1>6, HandlerField DEF FairTypeOK
<1>8. FairTypeOK'
  BY <1>2, <1>3, <1>4, <1>7 DEF FairTypeOK, HandlerRecords, Executions
<1>9. HandlersFit'
  <2> DEFINE r == [Idle EXCEPT !.pc = "look", !.exec = e, !.success = success]
  <2>1. r.pc = "look" /\ r.exec = e
    BY DEF Idle
  <2> HIDE DEF r
  <2>2. UNCHANGED handler \/ handler' = [handler EXCEPT ![h] = r]
    BY <1>5 DEF r
  <2>3. Executions' = Executions
    BY DEF Executions
  <2> QED
    BY <1>1, <2>1, <2>2, <2>3 DEF HandlersFit, FairTypeOK
<1> QED
  BY <1>8, <1>9

\* The rest of ReportResult keeps types: an elapsed time may be negative or
\* saturated, a charge is neither.
LEMMA FitHandler ==
    ASSUME Fit, NEW h \in Handlers, HandlerStep(h)
    PROVE  Fit'
<1> USE DEF Fit
<1> DEFINE r == handler[h]
           j == r.exec[1]
<1>1. /\ r \in HandlerRecords /\ r.pc # "idle" /\ r.exec \in Executions /\ j \in Jobs
      /\ UNCHANGED <<now, up, mishaps, job, taken, execs, saved, ticker, penalty, execNo,
                     reported, running, stale, lost>>
  BY DEF HandlerStep, LookUp, RecordUsage, ScheduleRetry, FairTypeOK, HandlersFit, Executions,
         table, history
<1>2. job' \in [Jobs -> JobRecords]'
  BY <1>1 DEF FairTypeOK, JobRecords, Times
<1>3. CASE LookUp(h)
  <2> DEFINE d == Sub(job[j].end, job[j].start)
             a == ~r.success /\ job[j].retries < MaxRetries
  <2>1. d \in -Horizon .. MaxDuration /\ a \in BOOLEAN
    <3>1. job[j] \in JobRecords /\ now \in Epoch .. Horizon
      BY <1>1 DEF FairTypeOK
    <3>2. job[j].end \in 0 .. Horizon /\ job[j].start \in 0 .. Horizon
      BY <3>1, ClockAssumption DEF JobRecords, Times, Zero
    <3> QED
      BY <3>2, ClockAssumption DEF Sub
  <2>2. handler' = [handler EXCEPT ![h] = [r EXCEPT !.pc = "charge", !.user = UserOf[j],
                                                    !.dur = d, !.again = a]]
    BY <1>3 DEF LookUp
  <2> HIDE DEF d, a
  <2>3. [r EXCEPT !.pc = "charge", !.user = UserOf[j], !.dur = d, !.again = a]
           \in HandlerRecords
    BY <1>1, <2>1, UserAssumption DEF HandlerRecords
  <2>4. handler' \in [Handlers -> HandlerRecords]
    BY <2>2, <2>3, HandlerField
  <2>5. UNCHANGED <<asleep, userUsage, billed>>
    BY <1>3 DEF LookUp, table, history
  <2>6. FairTypeOK'
    BY <1>1, <1>2, <2>4, <2>5 DEF FairTypeOK, HandlerRecords, Executions
  <2>7. HandlersFit'
    BY <1>1, <2>2 DEF HandlersFit, FairTypeOK, HandlerRecords
  <2> QED
    BY <2>6, <2>7
<1>4. CASE RecordUsage(h)
  <2>1. handler' = [handler EXCEPT ![h] = [r EXCEPT !.pc = "retry"]]
    BY <1>4 DEF RecordUsage
  <2>2. [r EXCEPT !.pc = "retry"] \in HandlerRecords
    BY <1>1 DEF HandlerRecords
  <2>3. handler' \in [Handlers -> HandlerRecords]
    BY <2>1, <2>2, HandlerField
  <2>4. r.user = UserOf[j] /\ r.dur \in Int
    BY <1>1, <1>4, ClockAssumption DEF RecordUsage, HandlersFit, HandlerRecords
  <2>5. userUsage' \in [Users -> Nat] /\ billed' \in [Jobs -> Nat] /\ UNCHANGED asleep
    <3> DEFINE d == IF r.dur > 0 THEN r.dur ELSE 0
    <3>1. d \in Nat
      BY <2>4
    <3>2. /\ userUsage' = [userUsage EXCEPT ![r.user] = @ + d]
          /\ billed' = [billed EXCEPT ![j] = @ + d] /\ UNCHANGED asleep
      BY <1>4 DEF RecordUsage, table
    <3>3. r.user \in Users /\ userUsage \in [Users -> Nat] /\ billed \in [Jobs -> Nat]
      BY <1>1, <2>4, UserAssumption DEF FairTypeOK
    <3> HIDE DEF d, r, j
    <3>4. userUsage' \in [Users -> Nat]
      BY <3>1, <3>2, <3>3
    <3>5. billed' \in [Jobs -> Nat]
      BY <1>1, <3>1, <3>2, <3>3
    <3> QED
      BY <3>2, <3>4, <3>5
  <2>6. FairTypeOK'
    BY <1>1, <1>2, <2>3, <2>5 DEF FairTypeOK, HandlerRecords, Executions
  <2>7. HandlersFit'
    BY <1>1, <1>4, <2>1 DEF RecordUsage, HandlersFit, FairTypeOK, HandlerRecords
  <2> QED
    BY <2>6, <2>7
<1>5. CASE ScheduleRetry(h)
  <2>1. handler' = [handler EXCEPT ![h] = Idle]
    BY <1>5 DEF ScheduleRetry
  <2>2. Idle \in HandlerRecords
    BY IdleFits
  <2>3. handler' \in [Handlers -> HandlerRecords]
    BY <2>1, <2>2, HandlerField
  <2>4. asleep' \in [Jobs -> Nat] /\ UNCHANGED <<userUsage, billed>>
    BY <1>1, <1>5 DEF ScheduleRetry, FairTypeOK, history
  <2>5. FairTypeOK'
    BY <1>1, <1>2, <2>3, <2>4 DEF FairTypeOK, HandlerRecords, Executions
  <2>6. HandlersFit'
    BY <1>1, <2>1 DEF HandlersFit, FairTypeOK, HandlerRecords, Idle
  <2> QED
    BY <2>5, <2>6
<1> QED
  BY <1>3, <1>4, <1>5 DEF HandlerStep

\* The daily decay and the periodic save keep types.
LEMMA FitTicking ==
    ASSUME Fit, Ticking
    PROVE  Fit'
<1> USE DEF Fit
<1>1. UNCHANGED <<now, up, mishaps, job, asleep, taken, execs, handler, penalty, execNo,
                  reported, running, billed, stale, lost>>
  BY DEF Ticking, DecayUsage, SaveFairshare, Marshal, TickerStep, table, history
<1>2. userUsage' \in [Users -> Nat] /\ saved' \in [Users -> Nat]
  <2>1. CASE DecayUsage
    BY <2>1, Decays DEF DecayUsage, FairTypeOK
  <2>2. CASE SaveFairshare
    BY <2>2 DEF SaveFairshare, FairTypeOK
  <2>3. CASE \E u \in Users : Marshal(u)
    BY <2>3 DEF Marshal, FairTypeOK
  <2> QED
    BY <2>1, <2>2, <2>3 DEF Ticking
<1>3. ticker' \in [pc : {"wait", "save"}, unread : SUBSET Users, val : [Users -> Nat]]
  <2>1. CASE DecayUsage
    BY <2>1 DEF DecayUsage, Waiting
  <2>2. CASE SaveFairshare
    BY <2>2 DEF SaveFairshare, Waiting
  <2>3. ASSUME NEW u \in Users, Marshal(u)
        PROVE  ticker' \in [pc : {"wait", "save"}, unread : SUBSET Users, val : [Users -> Nat]]
    <3>1. ticker' = [ticker EXCEPT !.unread = @ \ {u}, !.val = [@ EXCEPT ![u] = userUsage[u]]]
      BY <2>3 DEF Marshal
    <3> QED
      BY <2>3, <3>1 DEF FairTypeOK
  <2> QED
    BY <2>1, <2>2, <2>3 DEF Ticking
<1>4. FairTypeOK'
  BY <1>1, <1>2, <1>3 DEF FairTypeOK, HandlerRecords, Executions, JobRecords, Times
<1> QED
  BY <1>1, <1>4 DEF HandlersFit

\* The clock keeps types.
LEMMA FitPass ==
    ASSUME Fit, Pass
    PROVE  Fit'
<1> USE DEF Fit
<1>1. /\ now' \in Epoch .. Horizon /\ now' = now + 1 /\ running' \in [Jobs -> Nat]
      /\ UNCHANGED <<up, mishaps, job, asleep, taken, execs, handler, userUsage, saved, ticker,
                     penalty, execNo, reported, billed, stale, lost>>
  BY ClockAssumption DEF Pass, FairTypeOK, table
<1>2. Times \subseteq Times'
  BY <1>1, ClockAssumption DEF Times, FairTypeOK
<1>3. job' \in [Jobs -> JobRecords]'
  BY <1>1, <1>2 DEF FairTypeOK, JobRecords
<1>4. FairTypeOK'
  BY <1>1, <1>3 DEF FairTypeOK, HandlerRecords, Executions
<1> QED
  BY <1>1, <1>4 DEF HandlersFit

\* A crash, and the restore after it, keep types.
LEMMA FitGoesDown ==
    ASSUME Fit, NEW known \in SUBSET Live, GoesDown(known)
    PROVE  Fit'
<1> USE DEF Fit
<1>0. mishaps' \in 0 .. MaxMishaps /\ lost' \in SUBSET Jobs
  <2>1. mishaps' = mishaps + 1 /\ mishaps < MaxMishaps
        /\ lost' = lost \cup {j \in Jobs : job[j].state # "NONE"}
    BY DEF GoesDown, Mishap
  <2>2. mishaps \in 0 .. MaxMishaps /\ lost \in SUBSET Jobs
    BY DEF FairTypeOK
  <2> QED
    BY <2>1, <2>2, ClockAssumption
<1>1. /\ up' = FALSE
      /\ asleep' = [j \in Jobs |-> 0] /\ taken' = NoJob
      /\ handler' = [h \in Handlers |-> Idle]
      /\ ticker' = Waiting
      /\ UNCHANGED <<now, execs, userUsage, saved, penalty, execNo, reported, running,
                     billed, stale>>
  BY DEF GoesDown
<1>2. Times' = Times /\ JobRecords' = JobRecords
  BY <1>1 DEF Times, JobRecords
<1>3. ASSUME NEW j \in Jobs
      PROVE  [job[j] EXCEPT !.state = "QUEUED", !.start = Zero] \in JobRecords
  <2>1. job[j] \in JobRecords /\ Zero \in Times
    BY DEF FairTypeOK, Times
  <2> QED
    BY <2>1 DEF JobRecords
<1>4. NewJob \in JobRecords
  BY DEF NewJob, JobRecords, Times
<1>5. job' \in [Jobs -> JobRecords]'
  BY <1>2, <1>3, <1>4 DEF GoesDown
<1>6. Idle \in HandlerRecords
  BY IdleFits
<1>7. Waiting \in [pc : {"wait", "save"}, unread : SUBSET Users, val : [Users -> Nat]]
  BY DEF Waiting
<1>8. asleep' \in [Jobs -> Nat] /\ handler' \in [Handlers -> HandlerRecords]
  BY <1>1, <1>6
<1>9. FairTypeOK'
  BY <1>0, <1>1, <1>5, <1>7, <1>8 DEF FairTypeOK, HandlerRecords, Executions
<1> QED
  BY <1>1, <1>9 DEF HandlersFit, Idle

\* A start keeps types.
LEMMA FitRestart ==
    ASSUME Fit, Restart
    PROVE  Fit'
<1>1. FairTypeOK'
  BY DEF Fit, Restart, FairTypeOK, table, history, JobRecords, Times, HandlerRecords, Executions
<1> QED
  BY <1>1 DEF Fit, Restart, HandlersFit

\* Every step keeps types.
LEMMA FitStep == Fit /\ [FairNext]_fairVars => Fit'
<1> SUFFICES ASSUME Fit, [FairNext]_fairVars PROVE Fit'
  OBVIOUS
<1>1. CASE UNCHANGED fairVars
  <2>1. FairTypeOK'
    BY <1>1 DEF Fit, FairTypeOK, fairVars, table, history, JobRecords, Times, HandlerRecords,
                Executions
  <2> QED
    BY <1>1, <2>1 DEF Fit, HandlersFit, fairVars
<1>2. CASE Pass \/ Ticking \/ Restart
  BY <1>2, FitPass, FitTicking, FitRestart
<1>3. CASE Down \/ \E h \in Handlers : ConcurrentMapAccess(h)
  BY <1>3, FitGoesDown DEF Down, ConcurrentMapAccess
<1>4. CASE \E j \in Jobs : JobStep(j)
  BY <1>4, FitTable
<1>5. CASE \E h \in Handlers : HandlerStep(h)
  BY <1>5, FitHandler
<1>6. CASE \E h \in Handlers, e \in execs, success \in BOOLEAN : ReportResult(h, e, success)
  BY <1>6, FitReport
<1> QED
  BY <1>1, <1>2, <1>3, <1>4, <1>5, <1>6 DEF FairNext

\* Types are kept: usage, what is saved of it and every penalty stay natural
\* numbers although RecordUsage is given elapsed times that are negative when
\* a start or an end was reset in between, and time.Duration's largest when
\* there was none; no time in the table is ahead of the clock.
THEOREM FairTypeCorrect == FairSpec => []FairTypeOK
<1>1. Fit => FairTypeOK
  BY DEF Fit
<1> QED
  BY <1>1, InitFit, FitStep, PTL DEF FairSpec

-----------------------------------------------------------------------------
\* The states in which ReportResult leaves a job, or finds it.
Ended == {"COMPLETED", "FAILED", "CANCELLED"}

\* A call of ReportResult is dealing with the job.
On(h, j) == handler[h].pc # "idle" /\ handler[h].exec[1] = j

\* The last execution of the job has yet to be reported and will be charged.
Due(j) ==
    /\ job[j].state \in {"RUNNING", "CANCELLED"} /\ job[j].start # Zero
    /\ <<j, execNo[j]>> \notin reported

\* All executions are reported but for the last one, when that is due.
Settled(j) ==
    \A k \in 1 .. execNo[j] : <<j, k>> \in reported \/ (k = execNo[j] /\ Due(j))

\* With a charge of d the job is charged no more than its time, and, when its
\* executions are settled and no crash has lost any, all of it.
Balanced(j, d) ==
    /\ d >= 0 /\ billed[j] + d <= running[j]
    /\ j \notin lost /\ Settled(j) => billed[j] + d = running[j]

\* What the job's state says about its times, its executions and its retry.
Table(j) ==
    /\ job[j].state \in {"NONE", "QUEUED"} => job[j].start = Zero
    /\ job[j].state = "NONE" /\ j \notin lost => execNo[j] = 0
    /\ job[j].start # Zero => execNo[j] > 0
    /\ job[j].state = "RUNNING" => job[j].start # Zero /\ <<j, execNo[j]>> \notin reported
    /\ job[j].state = "CANCELLED" => job[j].start <= job[j].end
    /\ asleep[j] <= 1
    /\ asleep[j] = 1 => job[j].state \in Ended /\ <<j, execNo[j]>> \in reported

\* At most one call of ReportResult deals with the job, on an execution that
\* has ended.
Alone(j) ==
    /\ \A h \in Handlers : On(h, j) =>
          /\ job[j].state \in Ended /\ <<j, execNo[j]>> \in reported
          /\ asleep[j] = 0 /\ job[j].start # Zero /\ job[j].start <= job[j].end
    /\ \A h, i \in Handlers : On(h, j) /\ On(i, j) => h = i

\* The books balance at each stage: while the job runs, between a cancel and
\* its report, before and after the elapsed time is read, and after the charge.
Books(j) ==
    /\ job[j].state = "RUNNING" => Balanced(j, now - job[j].start)
    /\ job[j].state = "CANCELLED" /\ Due(j) => Balanced(j, job[j].end - job[j].start)
    /\ \A h \in Handlers : On(h, j) /\ handler[h].pc = "look" =>
          Balanced(j, job[j].end - job[j].start)
    /\ \A h \in Handlers : On(h, j) /\ handler[h].pc = "charge" => Balanced(j, handler[h].dur)
    /\ ~Due(j) /\ (\A h \in Handlers : On(h, j) => handler[h].pc = "retry") => Balanced(j, 0)

\* No execution is known that was not dispatched.
Numbered == \A e \in reported \cup execs : e[2] <= execNo[e[1]]

\* The ledger of one job.
Ledger(j) == Table(j) /\ Alone(j) /\ Books(j)

\* The job that the dispatch loop has taken runs nowhere and is charged for
\* nothing, even if it was cancelled since.
InHand(j) ==
    taken = j =>
       job[j].state \in {"QUEUED", "CANCELLED"} /\ job[j].start = Zero /\ asleep[j] = 0

\* The strengthening of BilledOnce.  The ledger is kept for each job that had
\* no repeated report and none for an execution that the master had given up.
LedgerInv == Fit /\ Numbered /\ \A j \in Jobs \ stale : Ledger(j) /\ InHand(j)

\* The types of what the ledger of a job speaks of.
LEMMA JobTyped ==
    ASSUME FairTypeOK, NEW j \in Jobs
    PROVE  /\ job[j].start \in Nat /\ job[j].end \in Nat /\ now \in Nat
           /\ job[j].start = Zero \/ job[j].start \in Epoch .. now
           /\ job[j].end = Zero \/ job[j].end \in Epoch .. now
           /\ job[j].state \in {"NONE", "QUEUED", "RUNNING", "COMPLETED", "FAILED", "CANCELLED"}
           /\ execNo[j] \in Nat /\ asleep[j] \in Nat /\ running[j] \in Nat
           /\ billed[j] \in Nat
<1>1. job[j] \in JobRecords /\ now \in Epoch .. Horizon
  BY DEF FairTypeOK
<1>2. /\ job[j].start \in Nat /\ job[j].end \in Nat /\ now \in Nat
      /\ job[j].start = Zero \/ job[j].start \in Epoch .. now
      /\ job[j].end = Zero \/ job[j].end \in Epoch .. now
      /\ job[j].state \in {"NONE", "QUEUED", "RUNNING", "COMPLETED", "FAILED", "CANCELLED"}
  BY <1>1, ClockAssumption DEF JobRecords, Times, Zero
<1>3. /\ execNo[j] \in Nat /\ asleep[j] \in Nat /\ running[j] \in Nat
      /\ billed[j] \in Nat
  BY ClockAssumption DEF FairTypeOK
<1> QED
  BY <1>2, <1>3

\* The types of what it reads of a call.
LEMMA HandlerTyped ==
    ASSUME FairTypeOK, NEW h \in Handlers
    PROVE  handler[h].dur \in Int /\ handler[h].pc \in {"idle", "look", "charge", "retry"}
<1>1. handler[h] \in HandlerRecords
  BY DEF FairTypeOK
<1> QED
  BY <1>1, ClockAssumption DEF HandlerRecords

\* However a job stands, its charges are within the time it ran.
LEMMA WithinTime ==
    ASSUME FairTypeOK, NEW j \in Jobs, Ledger(j)
    PROVE  billed[j] <= running[j]
<1> USE JobTyped, HandlerTyped
<1>1. CASE job[j].state = "RUNNING" \/ (job[j].state = "CANCELLED" /\ Due(j))
  BY <1>1 DEF Ledger, Books, Balanced
<1>2. CASE ~Due(j) /\ (\A h \in Handlers : On(h, j) => handler[h].pc = "retry")
  BY <1>2 DEF Ledger, Books, Balanced
<1>3. CASE \E h \in Handlers : On(h, j) /\ handler[h].pc # "retry"
  <2> PICK h \in Handlers : On(h, j) /\ handler[h].pc # "retry"
    BY <1>3
  <2>1. handler[h].pc \in {"look", "charge"}
    BY DEF On
  <2>2. CASE handler[h].pc = "look"
    BY <2>2 DEF Ledger, Books, Balanced
  <2>3. CASE handler[h].pc = "charge"
    BY <2>3 DEF Ledger, Books, Balanced
  <2> QED
    BY <2>1, <2>2, <2>3
<1> QED
  BY <1>1, <1>2, <1>3 DEF Due

\* Ledger(j) is about j only.
LEMMA LedgerLocal ==
    ASSUME NEW j \in Jobs, Ledger(j), now' = now, job'[j] = job[j], asleep'[j] = asleep[j],
           execNo'[j] = execNo[j], running'[j] = running[j], billed'[j] = billed[j],
           j \in lost' <=> j \in lost,
           \A k : <<j, k>> \in reported' <=> <<j, k>> \in reported,
           \A h \in Handlers : handler'[h] = handler[h] \/ (~On(h, j) /\ ~On(h, j)')
    PROVE  Ledger(j)'
<1>1. Due(j)' <=> Due(j)
  BY DEF Due
<1>2. Settled(j)' <=> Settled(j)
  BY <1>1 DEF Settled
<1>3. \A h \in Handlers : On(h, j)' <=> On(h, j)
  BY DEF On
<1>4. \A h \in Handlers : On(h, j) => handler'[h] = handler[h]
  OBVIOUS
<1>6. Table(j)'
  BY DEF Ledger, Table
<1>7. Alone(j)'
  BY <1>3 DEF Ledger, Alone
<1>8. Books(j)'
  <2>1. Balanced(j, now - job[j].start) => Balanced(j, now - job[j].start)'
    BY <1>2 DEF Balanced
  <2>2. Balanced(j, job[j].end - job[j].start) => Balanced(j, job[j].end - job[j].start)'
    BY <1>2 DEF Balanced
  <2>3. \A h \in Handlers : On(h, j) /\ Balanced(j, handler[h].dur)
                              => Balanced(j, handler[h].dur)'
    BY <1>2, <1>4 DEF Balanced
  <2>4. Balanced(j, 0) => Balanced(j, 0)'
    BY <1>2 DEF Balanced
  <2> QED
    BY <1>1, <1>3, <1>4, <2>1, <2>2, <2>3, <2>4 DEF Ledger, Books
<1> QED
  BY <1>6, <1>7, <1>8 DEF Ledger

\* Empty books balance.
LEMMA InitLedger == FairInit => LedgerInv
<1> SUFFICES ASSUME FairInit PROVE LedgerInv
  OBVIOUS
<1>1. Numbered
  BY DEF FairInit, Numbered
<1>2. ASSUME NEW j \in Jobs
      PROVE  Ledger(j)
  <2>1. /\ job[j].state = "NONE" /\ job[j].start = Zero /\ asleep[j] = 0 /\ execNo[j] = 0
        /\ running[j] = 0 /\ billed[j] = 0
    BY DEF FairInit, NewJob
  <2>2. \A h \in Handlers : ~On(h, j)
    BY DEF FairInit, On, Idle
  <2>3. Table(j) /\ Alone(j)
    BY <2>1, <2>2 DEF Table, Alone
  <2>4. Books(j)
    BY <2>1, <2>2 DEF Books, Balanced
  <2> QED
    BY <2>3, <2>4 DEF Ledger
<1>3. \A j \in Jobs : InHand(j)
  BY NullAssumption DEF FairInit, InHand
<1> QED
  BY <1>1, <1>2, <1>3, InitFit DEF LedgerInv

\* What the job table's own steps leave alone.
LEMMA TableFrame ==
    ASSUME Fit, NEW j \in Jobs, JobStep(j)
    PROVE  /\ UNCHANGED <<now, handler, reported, running, billed, stale, lost>>
           /\ \A k \in Jobs \ {j} : /\ job'[k] = job[k] /\ asleep'[k] = asleep[k]
                                    /\ execNo'[k] = execNo[k]
           /\ MarkRunning(j) \/ (execNo' = execNo /\ execs' = execs)
<1>1. /\ UNCHANGED <<now, handler, reported, running, billed, stale, lost>>
      /\ MarkRunning(j) \/ (execNo' = execNo /\ execs' = execs)
  BY DEF JobStep, Submit, Dequeue, MarkRunning, Cancel, RequeueRunningJob, NodeLost, Requeue,
         TableStep, history
<1>2. job \in [Jobs -> JobRecords] /\ asleep \in [Jobs -> Nat] /\ execNo \in [Jobs -> 0 .. MaxExecs]
  BY DEF Fit, FairTypeOK
<1>3. ASSUME NEW k \in Jobs \ {j}
      PROVE  job'[k] = job[k] /\ asleep'[k] = asleep[k] /\ execNo'[k] = execNo[k]
  BY <1>2, <1>3 DEF JobStep, Submit, Dequeue, MarkRunning, Cancel, RequeueRunningJob, NodeLost,
         Requeue, TableStep, history
<1> QED
  BY <1>1, <1>3

\* The steps on the job table keep the ledger of the job they are about: only
\* a dispatch starts the clock, and a retry that fires finds the books closed.
LEMMA TableStepLedger ==
    ASSUME LedgerInv, NEW j \in Jobs \ stale, JobStep(j)
    PROVE  Ledger(j)'
<1> DEFINE s == job[j]
           t == job'[j]
           cur == <<j, execNo[j]>>
<1>0. job \in [Jobs -> JobRecords] /\ s \in JobRecords /\ FairTypeOK /\ FairTypeOK'
  BY FitTable DEF LedgerInv, Fit, FairTypeOK
<1>1. Ledger(j) /\ Table(j) /\ Alone(j) /\ Books(j)
  BY DEF LedgerInv, Ledger
<1>2. UNCHANGED <<now, handler, reported, running, billed, stale, lost>>
  BY TableFrame DEF LedgerInv
<1>3. \A h \in Handlers : On(h, j)' <=> On(h, j)
  BY <1>2 DEF On
<1>4. billed[j] <= running[j]
  BY <1>0, <1>1, WithinTime
<1>5. CASE Submit(j)
  <2>1. /\ s.state = "NONE" /\ t.state = "QUEUED" /\ t.start = s.start /\ t.end = s.end
        /\ asleep' = asleep /\ execNo' = execNo
    BY <1>0, <1>5 DEF Submit, JobRecords, history
  <2>2. \A h \in Handlers : ~On(h, j)
    BY <1>1, <2>1 DEF Alone, Ended
  <2>3. Table(j)'
    BY <1>0, <1>1, <1>2, <2>1, JobTyped DEF Table, Ended
  <2>4. Alone(j)'
    BY <1>3, <2>2 DEF Alone
  <2>5. ~Due(j) /\ ~Due(j)'
    BY <2>1 DEF Due
  <2>6. Balanced(j, 0)
    BY <1>1, <2>2, <2>5 DEF Books
  <2>7. Balanced(j, 0)'
    BY <1>2, <2>1, <2>5, <2>6 DEF Balanced, Settled
  <2>8. Books(j)'
    BY <1>3, <2>1, <2>2, <2>5, <2>7 DEF Books
  <2> QED
    BY <2>3, <2>4, <2>8 DEF Ledger
<1>6. CASE MarkRunning(j)
  <2>1. /\ s.state \in {"QUEUED", "CANCELLED"} /\ s.start = Zero /\ asleep[j] = 0
        /\ t.state = "RUNNING" /\ t.start = now
        /\ asleep' = asleep /\ execNo'[j] = execNo[j] + 1
    BY <1>0, <1>6 DEF MarkRunning, JobRecords, FairTypeOK, LedgerInv, InHand
  <2>2. \A h \in Handlers : ~On(h, j)
    BY <1>1, <2>1 DEF Alone
  <2>3. <<j, execNo[j] + 1>> \notin reported
    <3>1. ASSUME <<j, execNo[j] + 1>> \in reported PROVE FALSE
      <4>1. execNo[j] + 1 <= execNo[j]
        BY <3>1 DEF LedgerInv, Numbered
      <4> QED
        BY <1>0, <4>1, JobTyped
    <3> QED
      BY <3>1
  <2>4. now \in Nat /\ now # Zero /\ execNo[j] \in Nat /\ asleep[j] \in Nat
    BY <1>0, JobTyped, ClockAssumption DEF FairTypeOK, Zero
  <2>5. Table(j)'
    BY <1>1, <1>2, <2>1, <2>3, <2>4 DEF Table, Ended
  <2>6. Alone(j)'
    BY <1>3, <2>2 DEF Alone
  <2>7. ~Due(j) /\ Due(j)'
    BY <1>2, <2>1, <2>3, <2>4 DEF Due
  <2>8. Balanced(j, 0)
    BY <1>1, <2>2, <2>7 DEF Books
  <2>9. Settled(j)' => Settled(j)
    BY <1>2, <2>1, <2>4 DEF Settled
  <2>10. Balanced(j, now - job[j].start)'
    <3>1. now' - t.start = 0
      BY <1>2, <2>1, <2>4
    <3> QED
      BY <1>2, <2>8, <2>9, <3>1 DEF Balanced
  <2>11. Books(j)'
    BY <1>3, <2>1, <2>2, <2>7, <2>10 DEF Books
  <2> QED
    BY <2>5, <2>6, <2>11 DEF Ledger
<1>10. CASE Dequeue(j)
  <2>1. job' = job /\ asleep' = asleep /\ execNo' = execNo
    BY <1>10 DEF Dequeue
  <2> QED
    BY <1>1, <1>2, <2>1, LedgerLocal
<1>7. CASE Cancel(j)
  <2>1. /\ s.state \in {"QUEUED", "RUNNING"} /\ t.state = "CANCELLED" /\ t.start = s.start
        /\ t.end = now /\ asleep' = asleep /\ execNo' = execNo
    BY <1>0, <1>7 DEF Cancel, JobRecords
  <2>2. \A h \in Handlers : ~On(h, j)
    BY <1>1, <2>1 DEF Alone, Ended
  <2>3. s.start <= now
    BY <1>0, JobTyped, ClockAssumption DEF Zero
  <2>4. Table(j)'
    BY <1>0, <1>1, <1>2, <2>1, <2>3, JobTyped DEF Table, Ended
  <2>5. Alone(j)'
    BY <1>3, <2>2 DEF Alone
  <2>6. s.state = "QUEUED" => ~Due(j) /\ ~Due(j)'
    BY <1>1, <1>2, <2>1 DEF Due, Table
  <2>7. s.state = "RUNNING" => Due(j) /\ Due(j)'
    BY <1>1, <1>2, <2>1 DEF Due, Table
  <2>8. Settled(j)' <=> Settled(j)
    BY <1>2, <2>1, <2>6, <2>7 DEF Settled
  <2>9. CASE s.state = "QUEUED"
    <3>1. Balanced(j, 0)
      BY <1>1, <2>2, <2>6, <2>9 DEF Books
    <3>2. Balanced(j, 0)'
      BY <1>2, <2>8, <3>1 DEF Balanced
    <3> QED
      BY <1>3, <2>1, <2>2, <2>4, <2>5, <2>6, <2>9, <3>2 DEF Books, Ledger
  <2>10. CASE s.state = "RUNNING"
    <3>1. Balanced(j, now - s.start)
      BY <1>1, <2>10 DEF Books
    <3>2. Balanced(j, job[j].end - job[j].start)'
      BY <1>2, <2>1, <2>8, <3>1 DEF Balanced
    <3> QED
      BY <1>3, <2>1, <2>2, <2>4, <2>5, <2>7, <2>10, <3>2 DEF Books, Ledger
  <2> QED
    BY <2>1, <2>9, <2>10
<1>8. CASE RequeueRunningJob(j) \/ NodeLost(j)
  <2>1. /\ s.state = "RUNNING" /\ t.state \in {"QUEUED", "FAILED"}
        /\ t.state = "QUEUED" => t.start = Zero
        /\ t.start \in {Zero, s.start} /\ asleep' = asleep /\ execNo' = execNo
    BY <1>0, <1>8 DEF RequeueRunningJob, NodeLost, JobRecords
  <2>2. \A h \in Handlers : ~On(h, j)
    BY <1>1, <2>1 DEF Alone, Ended
  <2>3. asleep[j] = 0
    BY <1>0, <1>1, <2>1, JobTyped DEF Table, Ended
  <2>4. Table(j)'
    BY <1>1, <1>2, <2>1, <2>3 DEF Table
  <2>5. Alone(j)'
    BY <1>3, <2>2 DEF Alone
  <2>6. cur \notin reported /\ execNo[j] > 0 /\ execNo[j] \in Nat
    BY <1>0, <1>1, <2>1, JobTyped DEF Table
  <2>7. ~Due(j)'
    BY <2>1 DEF Due
  <2>8. ~Settled(j)'
    BY <1>2, <2>1, <2>6, <2>7 DEF Settled
  <2>9. Balanced(j, 0)'
    BY <1>0, <1>2, <1>4, <2>8, JobTyped DEF Balanced
  <2> QED
    BY <1>3, <2>1, <2>2, <2>4, <2>5, <2>7, <2>9 DEF Books, Ledger
<1>9. CASE Requeue(j)
  <2>1. /\ asleep[j] > 0 /\ asleep'[j] = asleep[j] - 1 /\ t.state = "QUEUED"
        /\ t.start = Zero /\ execNo' = execNo
    BY <1>0, <1>9 DEF Requeue, JobRecords, FairTypeOK
  <2>2. asleep[j] = 1 /\ asleep'[j] = 0 /\ cur \in reported
    BY <1>0, <1>1, <2>1, JobTyped DEF Table
  <2>3. \A h \in Handlers : ~On(h, j)
    BY <1>1, <2>2 DEF Alone
  <2>4. Table(j)'
    BY <2>1, <2>2 DEF Table
  <2>5. Alone(j)'
    BY <1>3, <2>3 DEF Alone
  <2>6. ~Due(j) /\ ~Due(j)'
    BY <2>1, <2>2 DEF Due
  <2>7. Balanced(j, 0)
    BY <1>1, <2>3, <2>6 DEF Books
  <2>8. Balanced(j, 0)'
    BY <1>2, <2>1, <2>6, <2>7 DEF Balanced, Settled
  <2> QED
    BY <1>3, <2>1, <2>3, <2>4, <2>5, <2>6, <2>8 DEF Books, Ledger
<1> QED
  BY <1>5, <1>6, <1>7, <1>8, <1>9, <1>10 DEF JobStep

\* A report stops the clock and passes the elapsed time on to the charge.
LEMMA ReportLedger ==
    ASSUME LedgerInv, NEW h \in Handlers, NEW e \in execs, NEW success \in BOOLEAN,
           ReportResult(h, e, success), NEW j \in Jobs \ stale'
    PROVE  Ledger(j)'
<1> DEFINE cur == <<j, execNo[j]>>
<1>0. /\ FairTypeOK /\ job \in [Jobs -> JobRecords] /\ handler \in [Handlers -> HandlerRecords]
      /\ e \in Executions /\ e[1] \in Jobs /\ e = <<e[1], e[2]>> /\ e[2] >= 1 /\ e[2] \in Nat
  BY ClockAssumption DEF LedgerInv, Fit, FairTypeOK, Executions
<1>1. /\ j \notin stale /\ handler[h] = Idle /\ reported' = reported \cup {e}
      /\ UNCHANGED <<now, asleep, execNo, running, billed, lost>>
  BY DEF ReportResult
<1>2. Ledger(j) /\ Table(j) /\ Alone(j) /\ Books(j)
  BY <1>1 DEF LedgerInv, Ledger
<1>3. \A k \in Jobs : ~On(h, k)
  BY <1>1 DEF On, Idle
<1>4. CASE j # e[1]
  <2>1. job'[j] = job[j]
    BY <1>0, <1>4 DEF ReportResult, MarkCompleted
  <2>2. \A k : <<j, k>> \in reported' <=> <<j, k>> \in reported
    BY <1>0, <1>1, <1>4
  <2>3. ASSUME NEW i \in Handlers
        PROVE  handler'[i] = handler[i] \/ (~On(i, j) /\ ~On(i, j)')
    <3>1. CASE i # h
      BY <1>0, <3>1 DEF ReportResult
    <3>2. CASE i = h
      BY <1>0, <1>3, <1>4, <3>2 DEF ReportResult, On, Idle
    <3> QED
      BY <3>1, <3>2
  <2> QED
    BY <1>1, <1>2, <2>1, <2>2, <2>3, LedgerLocal
<1>5. CASE j = e[1] /\ job[j].state = "NONE"
  <2>1. e[2] <= execNo[j]
    BY <1>0, <1>5 DEF LedgerInv, Numbered
  <2>2. j \in lost
    BY <1>0, <1>2, <1>5, <2>1, JobTyped DEF Table
  <2>3. UNCHANGED <<job, handler>>
    BY <1>5 DEF ReportResult
  <2>4. \A i \in Handlers : ~On(i, j) /\ ~On(i, j)'
    BY <1>2, <1>5, <2>3 DEF Alone, Ended, On
  <2>5. Table(j)'
    BY <1>1, <1>2, <1>5, <2>2, <2>3 DEF Table
  <2>6. Alone(j)'
    BY <2>4 DEF Alone
  <2>7. Books(j)'
    <3>1. billed[j] <= running[j]
      BY <1>0, <1>2, WithinTime
    <3>2. Balanced(j, 0)'
      BY <1>0, <1>1, <2>2, <3>1, JobTyped DEF Balanced
    <3> QED
      BY <1>5, <2>3, <2>4, <3>2 DEF Books
  <2> QED
    BY <2>5, <2>6, <2>7 DEF Ledger
<1>6. CASE j = e[1] /\ job[j].state # "NONE"
  <2> DEFINE r == [Idle EXCEPT !.pc = "look", !.exec = e, !.success = success]
  <2>1. Awaited(e) /\ MarkCompleted(j, success) /\ handler' = [handler EXCEPT ![h] = r]
    BY <1>0, <1>6 DEF ReportResult
  <2>2. /\ e = cur /\ cur \notin reported /\ cur \in reported' /\ Due(j)
        /\ job[j].state \in {"RUNNING", "CANCELLED"} /\ job[j].start # Zero
    BY <1>0, <1>1, <1>6, <2>1 DEF Awaited, Due
  <2>3. \A i \in Handlers : ~On(i, j)
    BY <1>2, <2>2 DEF Alone
  <2>4. r.pc = "look" /\ r.exec = e
    BY DEF Idle
  <2> HIDE DEF r
  <2>5. handler'[h] = r /\ On(h, j)' /\ \A i \in Handlers : i # h => ~On(i, j)'
    BY <1>0, <1>6, <2>1, <2>3, <2>4 DEF On
  <2>6. /\ job'[j].state \in Ended /\ job'[j].start = job[j].start
        /\ job[j].state = "RUNNING" => job'[j].end = now /\ job'[j].state # "CANCELLED"
        /\ job[j].state = "CANCELLED" => job'[j] = job[j]
    BY <1>0, <1>6, <2>1, <2>2 DEF MarkCompleted, JobRecords, Ended
  <2>7. job[j].start <= now
    BY <1>0, JobTyped, ClockAssumption DEF Zero
  <2>8. asleep[j] = 0
    BY <1>0, <1>2, <2>2, JobTyped DEF Table
  <2>9. job'[j].start <= job'[j].end
    BY <1>2, <2>2, <2>6, <2>7 DEF Table
  <2>10. Table(j)'
    BY <1>1, <1>2, <2>2, <2>6, <2>8, <2>9 DEF Table, Ended
  <2>11. Alone(j)'
    BY <1>1, <2>2, <2>5, <2>6, <2>8, <2>9 DEF Alone
  <2>12. ~Due(j)'
    BY <1>1, <2>2 DEF Due
  <2>13. Settled(j)' => Settled(j)
    BY <1>1, <2>2, <2>12 DEF Settled
  <2>14. Balanced(j, job[j].end - job[j].start)'
    <3>1. CASE job[j].state = "RUNNING"
      <4>1. Balanced(j, now - job[j].start)
        BY <1>2, <3>1 DEF Books
      <4> QED
        BY <1>1, <2>6, <2>13, <3>1, <4>1 DEF Balanced
    <3>2. CASE job[j].state = "CANCELLED"
      <4>1. Balanced(j, job[j].end - job[j].start)
        BY <1>2, <2>2, <3>2 DEF Books
      <4> QED
        BY <1>1, <2>6, <2>13, <3>2, <4>1 DEF Balanced
    <3> QED
      BY <2>2, <3>1, <3>2
  <2>15. Books(j)'
    BY <2>4, <2>5, <2>6, <2>12, <2>14 DEF Books, Ended
  <2> QED
    BY <2>10, <2>11, <2>15 DEF Ledger
<1> QED
  BY <1>4, <1>5, <1>6

\* The difference that is charged is exact: no running time saturates.
LEMMA SubExact ==
    ASSUME FairTypeOK, NEW j \in Jobs, job[j].start # Zero, job[j].start <= job[j].end
    PROVE  Sub(job[j].end, job[j].start) = job[j].end - job[j].start
<1>1. now <= Horizon /\ now \in Nat
  BY ClockAssumption DEF FairTypeOK
<1>2. job[j].start \in Epoch .. now /\ job[j].end \in Epoch .. now
  BY JobTyped, ClockAssumption DEF Zero
<1> QED
  BY <1>1, <1>2, ClockAssumption DEF Sub

\* The charge enters the books once, before the retry.
LEMMA HandlerLedger ==
    ASSUME LedgerInv, NEW h \in Handlers, HandlerStep(h), NEW j \in Jobs \ stale
    PROVE  Ledger(j)'
<1>0. /\ FairTypeOK /\ HandlersFit /\ handler \in [Handlers -> HandlerRecords]
      /\ billed \in [Jobs -> Nat] /\ asleep \in [Jobs -> Nat] /\ handler[h] \in HandlerRecords
  BY DEF LedgerInv, Fit, FairTypeOK
<1>1. UNCHANGED <<now, job, execNo, reported, running, lost>>
  BY DEF HandlerStep, LookUp, RecordUsage, ScheduleRetry, table, history
<1>2. Ledger(j) /\ Table(j) /\ Alone(j) /\ Books(j)
  BY DEF LedgerInv, Ledger
<1>3. handler[h].pc # "idle"
  BY DEF HandlerStep, LookUp, RecordUsage, ScheduleRetry
<1>4. \A i \in Handlers : i # h => handler'[i] = handler[i]
  BY <1>0 DEF HandlerStep, LookUp, RecordUsage, ScheduleRetry
<1>5. CASE handler[h].exec[1] # j
  <2>1. ~On(h, j)
    BY <1>5 DEF On
  <2>2. ~On(h, j)'
    BY <1>0, <1>5 DEF On, HandlerStep, LookUp, RecordUsage, ScheduleRetry, HandlerRecords, Idle
  <2>3. asleep'[j] = asleep[j] /\ billed'[j] = billed[j]
    BY <1>0, <1>5 DEF HandlerStep, LookUp, RecordUsage, ScheduleRetry, table, history
  <2> QED
    BY <1>1, <1>2, <1>4, <2>1, <2>2, <2>3, LedgerLocal
<1>6. CASE handler[h].exec[1] = j
  <2>1. /\ On(h, j) /\ \A i \in Handlers : i # h => ~On(i, j)
        /\ job[j].state \in Ended /\ <<j, execNo[j]>> \in reported
        /\ asleep[j] = 0 /\ job[j].start # Zero /\ job[j].start <= job[j].end
    BY <1>2, <1>3, <1>6 DEF On, Alone
  <2>2. \A i \in Handlers : i # h => ~On(i, j)'
    BY <1>4, <2>1 DEF On
  <2>3. ~Due(j) /\ ~Due(j)'
    BY <1>1, <2>1 DEF Due
  <2>4. Settled(j)' <=> Settled(j)
    BY <1>1, <2>3 DEF Settled
  <2>5. job[j].state # "RUNNING"
    BY <2>1 DEF Ended
  <2>6. CASE LookUp(h)
    <3> DEFINE d == Sub(job[j].end, job[j].start)
    <3>1. /\ handler[h].pc = "look" /\ handler'[h].pc = "charge" /\ handler'[h].dur = d
          /\ handler'[h].exec = handler[h].exec
          /\ UNCHANGED <<asleep, billed>>
      BY <1>0, <1>6, <2>6 DEF LookUp, HandlerRecords, table, history
    <3>2. Balanced(j, job[j].end - job[j].start)
      BY <1>2, <2>1, <3>1 DEF Books
    <3>3. handler'[h].dur = job[j].end - job[j].start
      BY <1>0, <2>1, <3>1, SubExact
    <3>4. Balanced(j, handler[h].dur)'
      BY <1>1, <2>4, <3>1, <3>2, <3>3 DEF Balanced
    <3>5. On(h, j)'
      BY <1>6, <3>1 DEF On
    <3>6. Table(j)' /\ Alone(j)'
      BY <1>1, <1>2, <2>1, <2>2, <3>1 DEF Table, Alone
    <3>7. Books(j)'
      BY <1>1, <2>2, <2>3, <2>5, <3>1, <3>4, <3>5 DEF Books
    <3> QED
      BY <3>6, <3>7 DEF Ledger
  <2>7. CASE RecordUsage(h)
    <3>1. Balanced(j, handler[h].dur) /\ handler[h].dur \in Int
      BY <1>0, <1>2, <2>1, <2>7, HandlerTyped DEF Books, RecordUsage
    <3>2. /\ handler[h].pc = "charge" /\ handler'[h].pc = "retry"
          /\ handler'[h].exec = handler[h].exec /\ UNCHANGED asleep
      BY <1>0, <2>7 DEF RecordUsage, HandlerRecords, table
    <3>3. billed'[j] = billed[j] + handler[h].dur
      <4> DEFINE d == IF handler[h].dur > 0 THEN handler[h].dur ELSE 0
      <4>1. d = handler[h].dur
        BY <3>1 DEF Balanced
      <4>2. billed' = [billed EXCEPT ![j] = @ + d]
        BY <1>6, <2>7 DEF RecordUsage
      <4> HIDE DEF d
      <4> QED
        BY <1>0, <4>1, <4>2
    <3>4. Balanced(j, 0)'
      BY <1>0, <1>1, <2>4, <3>1, <3>3, JobTyped DEF Balanced
    <3>5. On(h, j)'
      BY <1>6, <3>2 DEF On
    <3>6. Table(j)' /\ Alone(j)'
      BY <1>1, <1>2, <2>1, <2>2, <3>2 DEF Table, Alone
    <3>7. Books(j)'
      BY <1>1, <2>2, <2>3, <2>5, <3>2, <3>4, <3>5 DEF Books
    <3> QED
      BY <3>6, <3>7 DEF Ledger
  <2>8. CASE ScheduleRetry(h)
    <3>1. /\ handler[h].pc = "retry" /\ handler'[h] = Idle /\ UNCHANGED billed
          /\ asleep'[j] \in {0, 1}
      BY <1>0, <1>6, <2>1, <2>8 DEF ScheduleRetry, history
    <3>2. \A i \in Handlers : ~On(i, j)'
      BY <2>2, <3>1 DEF On, Idle
    <3>3. Balanced(j, 0)
      BY <1>2, <2>1, <2>3, <3>1 DEF Books
    <3>4. Balanced(j, 0)'
      BY <1>1, <2>4, <3>1, <3>3 DEF Balanced
    <3>5. Table(j)' /\ Alone(j)'
      BY <1>1, <1>2, <2>1, <3>1, <3>2 DEF Table, Alone
    <3>6. Books(j)'
      BY <1>1, <2>3, <2>5, <3>2, <3>4 DEF Books
    <3> QED
      BY <3>5, <3>6 DEF Ledger
  <2> QED
    BY <2>6, <2>7, <2>8 DEF HandlerStep
<1> QED
  BY <1>5, <1>6

\* Time goes to the running jobs' account only.
LEMMA PassLedger ==
    ASSUME LedgerInv, Pass, NEW j \in Jobs \ stale
    PROVE  Ledger(j)'
<1>0. FairTypeOK /\ Ledger(j) /\ Table(j) /\ Alone(j) /\ Books(j)
  BY DEF LedgerInv, Fit, Ledger
<1>1. UNCHANGED <<job, asleep, handler, execNo, reported, billed, lost>>
  BY DEF Pass, table
<1>2. /\ now' = now + 1
      /\ running'[j] = running[j] + IF job[j].state = "RUNNING" THEN 1 ELSE 0
  BY DEF Pass
<1>3. Due(j)' <=> Due(j)
  BY <1>1 DEF Due
<1>4. Settled(j)' <=> Settled(j)
  BY <1>1, <1>3 DEF Settled
<1>5. \A h \in Handlers : On(h, j)' <=> On(h, j)
  BY <1>1 DEF On
<1>6. Table(j)' /\ Alone(j)'
  BY <1>0, <1>1, <1>5 DEF Table, Alone
<1>7. CASE job[j].state = "RUNNING"
  <2>1. \A h \in Handlers : ~On(h, j)
    BY <1>0, <1>7 DEF Alone, Ended
  <2>2. Due(j)
    BY <1>0, <1>7 DEF Table, Due
  <2>3. Balanced(j, now - job[j].start)
    BY <1>0, <1>7 DEF Books
  <2>4. Balanced(j, now - job[j].start)'
    BY <1>0, <1>1, <1>2, <1>4, <1>7, <2>3, JobTyped DEF Balanced
  <2>5. Books(j)'
    BY <1>1, <1>3, <1>5, <1>7, <2>1, <2>2, <2>4 DEF Books
  <2> QED
    BY <1>6, <2>5 DEF Ledger
<1>8. CASE job[j].state # "RUNNING"
  <2>1. running'[j] = running[j]
    BY <1>0, <1>2, <1>8, JobTyped
  <2>2. Balanced(j, job[j].end - job[j].start) => Balanced(j, job[j].end - job[j].start)'
    BY <1>1, <1>4, <2>1 DEF Balanced
  <2>3. \A h \in Handlers : Balanced(j, handler[h].dur) => Balanced(j, handler[h].dur)'
    BY <1>1, <1>4, <2>1 DEF Balanced
  <2>4. Balanced(j, 0) => Balanced(j, 0)'
    BY <1>1, <1>4, <2>1 DEF Balanced
  <2>5. Books(j)'
    BY <1>0, <1>1, <1>3, <1>5, <1>8, <2>2, <2>3, <2>4 DEF Books
  <2> QED
    BY <1>6, <2>5 DEF Ledger
<1> QED
  BY <1>7, <1>8

\* A crash forgets charges and never makes one.
LEMMA DownLedger ==
    ASSUME LedgerInv, NEW known \in SUBSET Live, GoesDown(known), NEW j \in Jobs \ stale
    PROVE  Ledger(j)'
<1>0. FairTypeOK /\ Ledger(j) /\ Table(j) /\ Alone(j) /\ Books(j) /\ job[j] \in JobRecords
  BY DEF LedgerInv, Fit, Ledger, FairTypeOK
<1>1. UNCHANGED <<now, execNo, reported, running, billed>> /\ asleep'[j] = 0
  BY DEF GoesDown
<1>2. \A h \in Handlers : ~On(h, j)'
  BY DEF GoesDown, On, Idle
<1>3. job'[j].state \in {"NONE", "QUEUED"} /\ job'[j].start = Zero
  BY <1>0 DEF GoesDown, NewJob, JobRecords
<1>4. CASE job[j].state # "NONE"
  <2>1. j \in lost'
    BY <1>4 DEF GoesDown
  <2>2. Table(j)' /\ Alone(j)'
    BY <1>1, <1>2, <1>3, <2>1 DEF Table, Alone
  <2>3. billed[j] <= running[j]
    BY <1>0, WithinTime
  <2>4. Balanced(j, 0)'
    BY <1>0, <1>1, <2>1, <2>3, JobTyped DEF Balanced
  <2>5. Books(j)'
    BY <1>2, <1>3, <2>4 DEF Books, Due
  <2> QED
    BY <2>2, <2>5 DEF Ledger
<1>5. CASE job[j].state = "NONE"
  <2>1. (j \in lost' <=> j \in lost) /\ job'[j] = NewJob
    BY <1>5 DEF GoesDown, Live
  <2>2. Table(j)' /\ Alone(j)'
    BY <1>0, <1>1, <1>2, <1>3, <1>5, <2>1 DEF Table, Alone, NewJob
  <2>3. ~Due(j) /\ ~Due(j)' /\ \A h \in Handlers : ~On(h, j)
    BY <1>0, <1>3, <1>5 DEF Due, Alone, Ended
  <2>4. Balanced(j, 0)
    BY <1>0, <2>3 DEF Books
  <2>5. Balanced(j, 0)'
    BY <1>1, <2>1, <2>3, <2>4 DEF Balanced, Settled
  <2>6. Books(j)'
    BY <1>2, <1>3, <2>3, <2>5 DEF Books
  <2> QED
    BY <2>2, <2>6 DEF Ledger
<1> QED
  BY <1>4, <1>5

\* Executions are numbered by dispatches.
LEMMA NumberedStep ==
    ASSUME Fit, Numbered, [FairNext]_fairVars
    PROVE  Numbered'
<1>0. /\ execNo \in [Jobs -> 0 .. MaxExecs] /\ \A j \in Jobs : execNo[j] \in Nat
      /\ \A e \in reported \cup execs : e[1] \in Jobs /\ e[2] \in Nat
  BY ClockAssumption DEF Fit, FairTypeOK, Executions
<1>1. CASE \E j \in Jobs : MarkRunning(j)
  <2> PICK j \in Jobs : MarkRunning(j)
    BY <1>1
  <2>1. /\ reported' = reported /\ execs' = execs \cup {<<j, execNo[j] + 1>>}
        /\ execNo' = [execNo EXCEPT ![j] = @ + 1]
    BY DEF MarkRunning, TableStep
  <2> QED
    BY <1>0, <2>1 DEF Numbered
<1>2. CASE \E h \in Handlers, e \in execs, success \in BOOLEAN : ReportResult(h, e, success)
  BY <1>2 DEF ReportResult, Numbered
<1>3. CASE UNCHANGED <<execNo, execs, reported>>
  BY <1>3 DEF Numbered
<1>4. \/ \E j \in Jobs : MarkRunning(j)
      \/ \E h \in Handlers, e \in execs, success \in BOOLEAN : ReportResult(h, e, success)
      \/ UNCHANGED <<execNo, execs, reported>>
  BY DEF FairNext, fairVars, history, Pass, Ticking, DecayUsage, Marshal, SaveFairshare,
         TickerStep, Down, GoesDown, Restart, JobStep, Submit, Dequeue, Cancel,
         RequeueRunningJob, NodeLost, Requeue, TableStep, HandlerStep, LookUp, RecordUsage,
         ScheduleRetry, ConcurrentMapAccess
<1> QED
  BY <1>1, <1>2, <1>3, <1>4

\* What the dispatch loop has taken can only be cancelled, while its ledger is
\* kept: it waits for no retry, and no report for it is awaited.
LEMMA InHandStep ==
    ASSUME LedgerInv, [FairNext]_fairVars, NEW j \in Jobs \ stale'
    PROVE  InHand(j)'
<1>0. /\ FairTypeOK /\ HandlersFit /\ Fit /\ job \in [Jobs -> JobRecords]
      /\ asleep \in [Jobs -> Nat]
  BY DEF LedgerInv, Fit, FairTypeOK
<1>1. stale \subseteq stale'
  BY DEF FairNext, fairVars, history, Pass, Ticking, DecayUsage, Marshal, SaveFairshare,
         TickerStep, Down, GoesDown, Restart, JobStep, Submit, Dequeue, MarkRunning, Cancel,
         RequeueRunningJob, NodeLost, Requeue, TableStep, HandlerStep, LookUp, RecordUsage,
         ScheduleRetry, ConcurrentMapAccess, ReportResult
<1>2. Table(j) /\ Alone(j) /\ InHand(j)
  BY <1>1 DEF LedgerInv, Ledger
<1>3. CASE \E h \in Handlers, e \in execs, success \in BOOLEAN : ReportResult(h, e, success)
  <2> PICK h \in Handlers, e \in execs, success \in BOOLEAN : ReportResult(h, e, success)
    BY <1>3
  <2>1. UNCHANGED <<asleep, taken>> /\ (j # e[1] => job'[j] = job[j])
    BY <1>0 DEF ReportResult, MarkCompleted
  <2>2. j = e[1] => job'[j] = job[j] \/ job[j].start # Zero
    BY DEF ReportResult, Awaited
  <2> QED
    BY <1>2, <2>1, <2>2 DEF InHand
<1>4. CASE \E known \in SUBSET Live : GoesDown(known)
  BY <1>4, NullAssumption DEF GoesDown, InHand
<1>5. CASE \E h \in Handlers : HandlerStep(h)
  <2> PICK h \in Handlers : HandlerStep(h)
    BY <1>5
  <2>1. UNCHANGED <<job, taken>> /\ handler[h].pc # "idle"
    BY DEF HandlerStep, LookUp, RecordUsage, ScheduleRetry, table
  <2>2. asleep'[j] = asleep[j] \/ On(h, j)
    BY <1>0, <2>1 DEF HandlerStep, LookUp, RecordUsage, ScheduleRetry, table, On
  <2> QED
    BY <1>2, <2>1, <2>2 DEF InHand, Alone
<1>6. CASE \E k \in Jobs : JobStep(k)
  <2> PICK k \in Jobs : JobStep(k)
    BY <1>6
  <2>1. CASE j # k
    <3>1. job'[j] = job[j] /\ asleep'[j] = asleep[j]
      BY <1>0, <2>1, TableFrame
    <3>2. taken' = j => taken = j
      BY <2>1, NullAssumption DEF JobStep, Submit, Dequeue, MarkRunning, Cancel,
         RequeueRunningJob, NodeLost, Requeue
    <3> QED
      BY <1>2, <3>1, <3>2 DEF InHand
  <2>2. CASE Submit(j) \/ MarkRunning(j) \/ RequeueRunningJob(j) \/ NodeLost(j) \/ Requeue(j)
    <3>1. taken' # j
      BY <1>0, <1>2, <2>2, NullAssumption
         DEF Submit, MarkRunning, RequeueRunningJob, NodeLost, Requeue, InHand
    <3> QED
      BY <3>1 DEF InHand
  <2>3. CASE Dequeue(j)
    <3>1. job' = job /\ asleep' = asleep /\ job[j].state = "QUEUED"
      BY <2>3 DEF Dequeue
    <3>2. job[j].start = Zero /\ asleep[j] = 0
      BY <1>0, <1>2, <3>1, JobTyped DEF Table, Ended
    <3> QED
      BY <3>1, <3>2 DEF InHand
  <2>4. CASE Cancel(j)
    <3>1. /\ job'[j].state = "CANCELLED" /\ job'[j].start = job[j].start
          /\ UNCHANGED <<asleep, taken>>
      BY <1>0, <2>4 DEF Cancel, JobRecords
    <3> QED
      BY <1>2, <3>1 DEF InHand
  <2> QED
    BY <2>1, <2>2, <2>3, <2>4 DEF JobStep
<1>7. CASE UNCHANGED <<job, asleep, taken>>
  BY <1>2, <1>7 DEF InHand
<1>8. CASE Pass \/ Ticking \/ Restart \/ UNCHANGED fairVars
  BY <1>7, <1>8 DEF Pass, Ticking, DecayUsage, Marshal, SaveFairshare, TickerStep, Restart,
     fairVars, table
<1> QED
  BY <1>3, <1>4, <1>5, <1>6, <1>8 DEF FairNext, Down, ConcurrentMapAccess

\* Every step keeps the ledgers.
LEMMA LedgerStep == LedgerInv /\ [FairNext]_fairVars => LedgerInv'
<1> SUFFICES ASSUME LedgerInv, [FairNext]_fairVars PROVE LedgerInv'
  OBVIOUS
<1>1. Fit' /\ Numbered'
  BY FitStep, NumberedStep DEF LedgerInv
<1>2. ASSUME NEW j \in Jobs \ stale'
      PROVE  Ledger(j)'
  <2>1. CASE \E h \in Handlers, e \in execs, success \in BOOLEAN : ReportResult(h, e, success)
    BY <2>1, ReportLedger
  <2>2. CASE Pass
    BY <2>2, PassLedger DEF Pass
  <2>3. CASE Down \/ \E h \in Handlers : ConcurrentMapAccess(h)
    <3>1. PICK known \in SUBSET Live : GoesDown(known)
      BY <2>3 DEF Down, ConcurrentMapAccess
    <3>2. j \notin stale
      BY <3>1 DEF GoesDown
    <3> QED
      BY <3>1, <3>2, DownLedger
  <2>4. CASE \E h \in Handlers : HandlerStep(h)
    <3>1. PICK h \in Handlers : HandlerStep(h)
      BY <2>4
    <3>2. j \notin stale
      BY <3>1 DEF HandlerStep, LookUp, RecordUsage, ScheduleRetry, history
    <3> QED
      BY <3>1, <3>2, HandlerLedger
  <2>5. CASE \E k \in Jobs : JobStep(k)
    <3>1. PICK k \in Jobs : JobStep(k)
      BY <2>5
    <3>2. Fit
      BY DEF LedgerInv
    <3>3. /\ UNCHANGED <<now, handler, reported, running, billed, stale, lost>>
          /\ j # k => /\ job'[j] = job[j] /\ asleep'[j] = asleep[j]
                      /\ execNo'[j] = execNo[j]
      BY <3>1, <3>2, TableFrame
    <3>4. j \notin stale /\ Ledger(j)
      BY <3>3 DEF LedgerInv
    <3>5. CASE j = k
      BY <3>1, <3>4, <3>5, TableStepLedger
    <3>6. CASE j # k
      BY <3>3, <3>4, <3>6, LedgerLocal
    <3> QED
      BY <3>5, <3>6
  <2>6. CASE Ticking \/ Restart \/ UNCHANGED fairVars
    <3>1. UNCHANGED <<now, job, asleep, handler, execNo, reported, running, billed, stale, lost>>
      BY <2>6 DEF Ticking, DecayUsage, Marshal, SaveFairshare, TickerStep, Restart, fairVars,
                  table, history
    <3>2. Ledger(j)
      BY <3>1 DEF LedgerInv
    <3> QED
      BY <3>1, <3>2, LedgerLocal
  <2> QED
    BY <2>1, <2>2, <2>3, <2>4, <2>5, <2>6 DEF FairNext
<1> QED
  BY <1>1, <1>2, InHandStep DEF LedgerInv

\* Balanced books are BilledOnce.
LEMMA LedgerBills == LedgerInv => BilledOnce
<1> SUFFICES ASSUME LedgerInv, NEW j \in Jobs \ (stale \cup lost)
             PROVE  billed[j] <= running[j] /\ (Quiet(j) => billed[j] = running[j])
  BY DEF BilledOnce
<1>1. FairTypeOK /\ HandlersFit /\ Ledger(j) /\ Table(j) /\ Books(j)
  BY DEF LedgerInv, Fit, Ledger
<1>2. billed[j] <= running[j]
  BY <1>1, WithinTime
<1>3. ASSUME Quiet(j)
      PROVE  billed[j] = running[j]
  <2>1. /\ job[j].state # "RUNNING" /\ \A k \in 1 .. execNo[j] : <<j, k>> \in reported
        /\ \A h \in Handlers : handler[h].exec[1] # j \/ handler[h].pc = "retry"
    BY <1>3 DEF Quiet
  <2>2. execNo[j] \in Nat
    BY <1>1, JobTyped
  <2>3. ~Due(j)
    BY <1>1, <2>1, <2>2 DEF Due, Table
  <2>4. Balanced(j, 0)
    BY <1>1, <2>1, <2>3 DEF Books, On
  <2>5. Settled(j)
    BY <2>1 DEF Settled
  <2> QED
    BY <1>1, <2>4, <2>5, JobTyped DEF Balanced
<1> QED
  BY <1>2, <1>3

\* Every second of a job's RUNNING time is charged once, if each execution is
\* reported once and while the master awaits it: what ReportResult hands to
\* RecordUsage, failed attempts included, never exceeds the time the job was
\* RUNNING and adds up to it once its executions are reported.
THEOREM ChargesAreTrue == FairSpec => []BilledOnce
  BY InitLedger, LedgerStep, LedgerBills, PTL DEF FairSpec

-----------------------------------------------------------------------------
\* All that was charged for a user's jobs.
Charged(u) == SumOver(billed, JobsOf(u))

\* No copy of a usage, in memory, in the store or on its way there, is more
\* than the charges; so no penalty is.
Earned ==
    /\ \A u \in Users : /\ userUsage[u] <= Charged(u)
                        /\ saved[u] <= Charged(u)
                        /\ ticker.val[u] <= Charged(u)
    /\ \A j \in Jobs : penalty[j] * Unit <= Charged(UserOf[j])

\* A user has finitely many jobs.
LEMMA JobsOfFinite == \A u : IsFiniteSet(JobsOf(u)) /\ JobsOf(u) \subseteq Jobs
  BY TableAssumption, FS_Subset DEF JobsOf

\* Charges are natural numbers.
LEMMA ChargedNat ==
    ASSUME FairTypeOK, NEW u
    PROVE  Charged(u) \in Nat
<1>1. \A k \in JobsOf(u) : billed[k] \in Nat
  BY JobsOfFinite DEF FairTypeOK
<1> QED
  BY <1>1, JobsOfFinite, SumNat DEF Charged

\* Without usage there is nothing to earn.
LEMMA InitEarned == FairInit => Earned
<1> SUFFICES ASSUME FairInit PROVE Earned
  OBVIOUS
<1>1. \A u : Charged(u) \in Nat
  BY InitFit, ChargedNat DEF Fit
<1>2. \A u \in Users : userUsage[u] = 0 /\ saved[u] = 0 /\ ticker.val[u] = 0
  BY DEF FairInit, Waiting
<1>3. \A j \in Jobs : penalty[j] * Unit = 0
  <2>1. 0 * Unit = 0
    BY ClockAssumption
  <2> QED
    BY <2>1 DEF FairInit
<1> QED
  BY <1>1, <1>2, <1>3 DEF Earned

\* A charge raises the usage and the account alike; decay, saves, crashes and
\* restores raise nothing.
LEMMA EarnedStep ==
    ASSUME Fit, Earned, [FairNext]_fairVars
    PROVE  Earned'
<1>0. FairTypeOK /\ FairTypeOK' /\ HandlersFit
  BY FitStep DEF Fit
<1>1. CASE \E h \in Handlers : RecordUsage(h)
  <2> PICK h \in Handlers : RecordUsage(h)
    BY <1>1
  <2>1. PICK k \in Jobs, v \in Users, d \in Nat :
           /\ v = UserOf[k]
           /\ userUsage' = [userUsage EXCEPT ![v] = @ + d]
           /\ billed' = [billed EXCEPT ![k] = @ + d]
    <3> DEFINE k == handler[h].exec[1]
               d == IF handler[h].dur > 0 THEN handler[h].dur ELSE 0
    <3>1. handler[h].exec \in Executions /\ handler[h].user = UserOf[k]
      BY <1>0 DEF HandlersFit, RecordUsage
    <3>2. k \in Jobs /\ UserOf[k] \in Users /\ d \in Nat
      BY <1>0, <3>1, UserAssumption, HandlerTyped DEF Executions
    <3>3. /\ userUsage' = [userUsage EXCEPT ![UserOf[k]] = @ + d]
          /\ billed' = [billed EXCEPT ![k] = @ + d]
      BY <3>1 DEF RecordUsage
    <3> HIDE DEF k, d
    <3> QED
      BY <3>2, <3>3
  <2>2. UNCHANGED <<saved, ticker, penalty>>
    BY DEF RecordUsage
  <2>3. billed \in [Jobs -> Nat] /\ userUsage \in [Users -> Nat]
    BY <1>0 DEF FairTypeOK
  <2>4. Charged(v)' = Charged(v) + d
    <3>1. k \in JobsOf(v) /\ JobsOf(v) \subseteq Jobs /\ IsFiniteSet(JobsOf(v))
      BY <2>1, JobsOfFinite DEF JobsOf
    <3>2. /\ \A x \in JobsOf(v) : billed[x] \in Nat /\ billed'[x] \in Nat
          /\ \A x \in JobsOf(v) \ {k} : billed'[x] = billed[x]
          /\ billed'[k] = billed[k] + d /\ billed[k] \in Nat
      BY <2>1, <2>3, <3>1
    <3>3. SumOver(billed', JobsOf(v)) = SumOver(billed, JobsOf(v)) - billed[k] + billed'[k]
      <4>1. PICK S, f, g : S = JobsOf(v) /\ f = billed /\ g = billed'
        OBVIOUS
      <4>2. /\ IsFiniteSet(S) /\ k \in S /\ \A x \in S : f[x] \in Nat /\ g[x] \in Nat
            /\ \A x \in S \ {k} : g[x] = f[x]
        BY <3>1, <3>2, <4>1
      <4>3. SumOver(g, S) = SumOver(f, S) - f[k] + g[k]
        BY <4>2, SumChange
      <4> QED
        BY <4>1, <4>3
    <3>4. SumOver(billed, JobsOf(v)) \in Nat
      BY <1>0, ChargedNat DEF Charged
    <3>5. SumOver(billed', JobsOf(v)) = SumOver(billed, JobsOf(v)) + d
      BY <2>1, <3>2, <3>3, <3>4
    <3>6. Charged(v)' = SumOver(billed', JobsOf(v))
      BY DEF Charged, JobsOf
    <3> QED
      BY <3>5, <3>6 DEF Charged
  <2>5. \A u : u # v => Charged(u)' = Charged(u)
    <3> SUFFICES ASSUME NEW u, u # v PROVE Charged(u)' = Charged(u)
      OBVIOUS
    <3>1. k \notin JobsOf(u)
      BY <2>1 DEF JobsOf
    <3>2. \A x \in JobsOf(u) : billed[x] \in Nat /\ billed'[x] = billed[x]
      BY <2>1, <2>3, <3>1, JobsOfFinite
    <3>3. SumOver(billed, JobsOf(u)) = SumOver(billed', JobsOf(u))
      BY <3>2, JobsOfFinite, SumSame
    <3> QED
      BY <3>3 DEF Charged, JobsOf
  <2>6. \A u : Charged(u) <= Charged(u)' /\ Charged(u) \in Nat /\ Charged(u)' \in Nat
    BY <1>0, <2>1, <2>4, <2>5, ChargedNat
  <2>7. \A u \in Users : userUsage'[u] <= Charged(u)'
    BY <2>1, <2>2, <2>3, <2>4, <2>5, <2>6 DEF Earned
  <2>8. \A u \in Users : saved[u] \in Nat /\ ticker.val[u] \in Nat
    BY <1>0 DEF FairTypeOK
  <2>9. \A j \in Jobs : penalty[j] * Unit \in Nat /\ UserOf[j] \in Users
    BY <1>0, ClockAssumption, UserAssumption DEF FairTypeOK
  <2> QED
    BY <2>2, <2>6, <2>7, <2>8, <2>9 DEF Earned
<1>2. CASE ~\E h \in Handlers : RecordUsage(h)
  <2>1. billed' = billed
    BY <1>2 DEF FairNext, fairVars, history, Pass, Ticking, DecayUsage, Marshal, SaveFairshare,
         TickerStep, Down, GoesDown, Restart, JobStep, Submit, Dequeue, MarkRunning, Cancel,
         RequeueRunningJob, NodeLost, Requeue, TableStep, HandlerStep, LookUp, ScheduleRetry,
         ConcurrentMapAccess, ReportResult
  <2>2. \A u : Charged(u)' = Charged(u) /\ Charged(u) \in Nat
    BY <1>0, <2>1, ChargedNat DEF Charged, JobsOf
  <2>3. CASE \E j \in Jobs : Submit(j)
    <3> PICK j \in Jobs : Submit(j)
      BY <2>3
    <3>1. /\ UNCHANGED <<userUsage, saved, ticker>>
          /\ penalty' = [penalty EXCEPT ![j] = userUsage[UserOf[j]] \div Unit]
      BY DEF Submit, CalculatePenalty
    <3>2. UserOf[j] \in Users /\ userUsage[UserOf[j]] \in Nat /\ penalty \in [Jobs -> Nat]
      BY <1>0, UserAssumption DEF FairTypeOK
    <3>3. penalty'[j] * Unit <= userUsage[UserOf[j]]
      BY <3>1, <3>2, PenaltyCovered
    <3>4. penalty'[j] * Unit \in Nat
      BY <3>1, <3>2, PenaltyCovered, ClockAssumption
    <3>5. penalty'[j] * Unit <= Charged(UserOf[j])
      BY <2>2, <3>2, <3>3, <3>4 DEF Earned
    <3>6. \A i \in Jobs \ {j} : penalty'[i] = penalty[i]
      BY <3>1, <3>2
    <3> QED
      BY <2>2, <3>1, <3>5, <3>6 DEF Earned
  <2>4. CASE DecayUsage
    <3>1. /\ \A u \in Users : /\ userUsage[u] \in Nat
                              /\ userUsage'[u] = (userUsage[u] * Factor) \div 100
          /\ \A u \in Users : ticker'.val[u] = 0
          /\ UNCHANGED <<saved, penalty>>
      BY <1>0, <2>4 DEF DecayUsage, TickerStep, FairTypeOK, Waiting
    <3>2. \A u \in Users : /\ userUsage'[u] \in Nat /\ userUsage'[u] <= userUsage[u]
                          /\ userUsage[u] \in Nat
      BY <3>1, Decays
    <3>3. \A u \in Users : userUsage'[u] <= Charged(u)
      BY <2>2, <3>2 DEF Earned
    <3> QED
      BY <2>2, <3>1, <3>3 DEF Earned
  <2>5. CASE \E u \in Users : Marshal(u)
    <3> PICK u \in Users : Marshal(u)
      BY <2>5
    <3>1. UNCHANGED <<userUsage, saved, penalty>>
      BY DEF Marshal, TickerStep
    <3>2. ticker'.val = [ticker.val EXCEPT ![u] = userUsage[u]]
      BY <1>0 DEF Marshal, FairTypeOK
    <3>3. ticker.val \in [Users -> Nat]
      BY <1>0 DEF FairTypeOK
    <3>4. \A w \in Users : ticker'.val[w] <= Charged(w)
      BY <3>2, <3>3 DEF Earned
    <3> QED
      BY <2>2, <3>1, <3>4 DEF Earned
  <2>6. CASE SaveFairshare
    <3>1. /\ saved' = ticker.val /\ UNCHANGED <<userUsage, penalty>>
          /\ \A u \in Users : ticker'.val[u] = 0
      BY <2>6 DEF SaveFairshare, TickerStep, Waiting
    <3> QED
      BY <2>2, <3>1 DEF Earned
  <2>7. CASE Restart
    BY <2>2, <2>7 DEF Restart, Earned
  <2>8. CASE \E known \in SUBSET Live : GoesDown(known)
    <3>1. UNCHANGED <<userUsage, saved, penalty>> /\ ticker' = Waiting
      BY <2>8 DEF GoesDown
    <3>2. \A u \in Users : ticker'.val[u] = 0
      BY <3>1 DEF Waiting
    <3> QED
      BY <2>2, <3>1, <3>2 DEF Earned
  <2>9. CASE UNCHANGED <<userUsage, saved, ticker, penalty>>
    BY <2>2, <2>9 DEF Earned
  <2>10. \/ \E j \in Jobs : Submit(j)
         \/ DecayUsage \/ SaveFairshare \/ Restart \/ \E u \in Users : Marshal(u)
         \/ \E known \in SUBSET Live : GoesDown(known)
         \/ UNCHANGED <<userUsage, saved, ticker, penalty>>
    <3>1. ASSUME NEW j \in Jobs, JobStep(j)
          PROVE  Submit(j) \/ UNCHANGED <<userUsage, saved, ticker, penalty>>
      BY <3>1 DEF JobStep, Dequeue, MarkRunning, Cancel, RequeueRunningJob, NodeLost, Requeue,
         TableStep
    <3>2. ASSUME NEW h \in Handlers,
                 HandlerStep(h) \/ \E e \in execs, success \in BOOLEAN : ReportResult(h, e, success)
          PROVE  UNCHANGED <<userUsage, saved, ticker, penalty>>
      BY <1>2, <3>2 DEF HandlerStep, LookUp, ScheduleRetry, ReportResult
    <3> QED
      BY <3>1, <3>2 DEF FairNext, fairVars, Pass, Ticking, Down, ConcurrentMapAccess
  <2> QED
    BY <2>3, <2>4, <2>5, <2>6, <2>7, <2>8, <2>9, <2>10
<1> QED
  BY <1>1, <1>2

\* Charges are running time, so penalties are.
LEMMA EarnedPenalty == LedgerInv /\ Earned => PenaltyEarned
<1> SUFFICES ASSUME LedgerInv, Earned, NEW j \in Jobs,
                    JobsOf(UserOf[j]) \cap stale = {}
             PROVE  penalty[j] * Unit
                       <= MapThenSumSet(LAMBDA k : running[k], JobsOf(UserOf[j]))
  BY DEF PenaltyEarned
<1> DEFINE mine == JobsOf(UserOf[j])
<1>1. FairTypeOK /\ mine \subseteq Jobs \ stale /\ IsFiniteSet(mine)
  BY JobsOfFinite DEF LedgerInv, Fit
<1>2. \A k \in mine : /\ billed[k] \in Nat /\ running[k] \in Nat
                      /\ billed[k] <= running[k]
  BY <1>1, WithinTime, JobTyped DEF LedgerInv
<1>3. SumOver(billed, mine) <= SumOver(running, mine)
  BY <1>1, <1>2, SumMonotone
<1>4. SumOver(billed, mine) \in Nat /\ SumOver(running, mine) \in Nat
  BY <1>1, <1>2, SumNat
<1>5. penalty[j] * Unit <= SumOver(billed, mine) /\ penalty[j] * Unit \in Nat
  BY <1>1, ClockAssumption DEF Earned, Charged, FairTypeOK
<1>6. SumOver(running, mine) = MapThenSumSet(LAMBDA k : running[k], mine)
  BY DEF SumOver
<1> QED
  BY <1>3, <1>4, <1>5, <1>6

\* The penalty that SubmitJob adds to a priority is earned: CalculatePenalty
\* charges at most a point per unit of time that the user's jobs were RUNNING,
\* through retries, cancels, DecayUsage racing SaveFairshare, and restarts, for
\* users with no report that was repeated or came for an execution given up.
THEOREM PenaltiesAreEarned == FairSpec => []PenaltyEarned
<1>1. FairInit => LedgerInv /\ Earned
  BY InitLedger, InitEarned
<1>2. LedgerInv /\ Earned /\ [FairNext]_fairVars => LedgerInv' /\ Earned'
  BY LedgerStep, EarnedStep DEF LedgerInv
<1> QED
  BY <1>1, <1>2, EarnedPenalty, PTL DEF FairSpec
=============================================================================
