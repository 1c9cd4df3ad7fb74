------------------------------ MODULE Queries ------------------------------
(***************************************************************************)
(* What clients are told of their jobs: the dead letters that ReportResult *)
(* saves by itself, past dbWriteChan, and the answers of GetJobStatus,     *)
(* which looks in memory, then in the bucket "jobs", then in               *)
(* "dead_letters" (internal/daemon/master.go, internal/store/store.go).    *)
(* Module Persistence says how memory and the bucket "jobs" change.        *)
(***************************************************************************)
EXTENDS Persistence

VARIABLES
    dead,     \* the bucket "dead_letters"
    report    \* the failure that each handler settles in ReportResult

queryVars == <<persistVars, dead, report>>

\* "look": MarkCompleted has been called; "save": GetJob's copy of the job is
\* about to become a dead letter.
NoReport == [pc |-> "no", job |-> NoJob, copy |-> Absent]

QueryTypeOK ==
    /\ PersistTypeOK
    /\ dead \in [Jobs -> Values]
    /\ report \in [Rpcs -> [pc : {"no", "look", "save"}, job : Jobs \cup {NoJob}, copy : Values]]
    /\ \A a \in Rpcs : report[a].pc # "no" => report[a].job \in Jobs

QueryInit ==
    /\ PersistInit
    /\ dead = [j \in Jobs |-> Absent]
    /\ report = [a \in Rpcs |-> NoReport]

-----------------------------------------------------------------------------
Settling(j) == [NoReport EXCEPT !.pc = "look", !.job = j]

\* A handler that has just set a job FAILED is in ReportResult.
ReportOf(a) ==
    LET j == owes'[a] IN
    IF mode' \in {"down", "stopped"} THEN NoReport
    ELSE IF Free(a) /\ j \in Jobs /\ mem'[j].state = "FAILED" THEN Settling(j)
    ELSE report[a]

\* A step of Persistence: a handler that settles a report does nothing else, and
\* GracefulStop waits for it too.  The uuid of a new job is not that of a dead
\* letter.
PersistStep ==
    /\ PersistNext
    /\ \A j \in Jobs : dead[j] # Absent /\ mode # "restore" /\ ~Known(j) => ~Known(j)'
    /\ \A a \in Rpcs : report[a].pc # "no" => owes'[a] \in {owes[a], NoJob}
    /\ mode = "stop" /\ mode' = "closed" => \A a \in Rpcs : report[a].pc = "no"
    /\ report' = [a \in Rpcs |-> ReportOf(a)]
    /\ UNCHANGED dead

\* MarkCompleted leaves a CANCELLED job alone; ReportResult goes on.
ReportCancelled(a, j) ==
    /\ Serving /\ Free(a) /\ report[a].pc = "no"
    /\ mem[j].state = "CANCELLED"
    /\ report' = [report EXCEPT ![a] = Settling(j)]
    /\ UNCHANGED <<persistVars, dead>>

\* Job.MaxRetries is 0 for the ranks of a group.
Exhausted(j, v) == GroupOf[j] = NoGroup /\ v.retries >= MaxRetries /\ MaxRetries > 0

\* GetJob copies the job as it is by then; unless its retries are exhausted the
\* handler starts a retry goroutine, or is done.
Look(a) ==
    LET j == report[a].job IN
    /\ report[a].pc = "look" /\ Free(a)
    /\ report' = [report EXCEPT ![a] =
                     IF Exhausted(j, mem[j]) THEN [@ EXCEPT !.pc = "save", !.copy = mem[j]]
                     ELSE NoReport]
    /\ UNCHANGED <<persistVars, dead>>

SaveDeadLetter(a) ==
    /\ report[a].pc = "save"
    /\ dead' = [dead EXCEPT ![report[a].job] = report[a].copy]
    /\ report' = [report EXCEPT ![a] = NoReport]
    /\ UNCHANGED persistVars

Settle(a) == Look(a) \/ SaveDeadLetter(a)

QueryNext ==
    \/ PersistStep
    \/ \E a \in Rpcs : Settle(a) \/ \E j \in Jobs : ReportCancelled(a, j)

QuerySafety == QueryInit /\ [][QueryNext]_queryVars

QuerySpec ==
    /\ QuerySafety
    /\ PersistFairness
    /\ \A a \in Rpcs : WF_queryVars(Settle(a))

-----------------------------------------------------------------------------
(* The answers *)

GetJobStatus(j) ==
    CASE mem[j] # Absent -> mem[j]
      [] mem[j] = Absent /\ disk[j] # Absent -> disk[j]
      [] mem[j] = Absent /\ disk[j] = Absent /\ dead[j] # Absent -> dead[j]
      [] OTHER -> [state |-> "NOT_FOUND", retries |-> 0]

ListJobs(filter) ==
    IF filter = "DEAD_LETTER" THEN {j \in Jobs : dead[j] # Absent}
    ELSE {j \in Jobs : mem[j] # Absent /\ filter \in {"", mem[j].state}}

Fails(v, w) == v.state = "RUNNING" /\ w = [v EXCEPT !.state = "FAILED"]

\* A loop made the job's last change and never came to send it.
Caught(j) == mode = "stopped" /\ \E a \in Loops : owes[a] = j

AnswerKept(j) ==
    GetJobStatus(j)' = GetJobStatus(j) \/ Fails(GetJobStatus(j), GetJobStatus(j)')

\* A restart changes no answer of GetJobStatus: after a graceful stop it is what
\* the scheduler had in memory, after a crash what the store has.  Only a RUNNING
\* job becomes FAILED, and the last change of a job may be lost if a loop that
\* the stop did not wait for was caught with it.
AnswerStands ==
    [][\A j \in Jobs :
          mode \in {"down", "stopped", "restore"} /\ mode' # "down" =>
             Caught(j) \/ AnswerKept(j)]_queryVars

\* A dead letter is not put back into the queue by a restart.
DeadStaysDead ==
    mode = "restore" =>
       \A j \in ListJobs("DEAD_LETTER") : mem[j].state # "QUEUED"
=============================================================================
