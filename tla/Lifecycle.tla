----------------------------- MODULE Lifecycle -----------------------------
(***************************************************************************)
(* The processes of one machine: `tasch start` (cmd/tasch/main.go, with    *)
(* StartMaster and StartWorker as far as they take and release what        *)
(* processes share), `tasch stop` (internal/daemon/stop.go), and `tasch    *)
(* jobs failed`, which opens the store itself when no master answers.      *)
(*                                                                         *)
(* Shared are the pid file, the lock on the store (bolt.Open waits for it  *)
(* without a limit) and the port of the health and metrics server.  The    *)
(* other ports are taken after the lock and freed before it, so only a     *)
(* foreign process can hold them: taking them may fail.                    *)
(***************************************************************************)
EXTENDS Naturals, FiniteSets

CONSTANTS
    Daemons,     \* processes of tasch start, by their pid
    Stops,       \* processes of tasch stop
    Readers,     \* processes of tasch jobs failed
    Nobody,      \* no process
    MaxPolls     \* how often a stop looks whether the process is gone (15)

ASSUME ProcessAssumption ==
    /\ Nobody \notin Daemons \cup Stops \cup Readers
    /\ Daemons \cap Readers = {}
    /\ MaxPolls \in Nat \ {0}

VARIABLES
    role,        \* Config.Role
    daemon,      \* where each daemon is, and the pid file it has open
    term,        \* daemons that have been sent SIGTERM or SIGINT
    followed,    \* daemons with an open call of StreamLogs
    stop,        \* where each stop is, whom it stops, how often it has polled
    reader,      \* where each reader is
    pidFile,     \* the daemon that created it and the pid it holds
    dbLock,      \* who holds the store's file lock
    metrics,     \* who listens on the metrics port
    met          \* history: daemons whose start met another start or a stop

lifeVars == <<role, daemon, term, followed, stop, reader, pidFile, dbLock, metrics, met>>

\* In the order startCmd goes through them.  "graceful": in GracefulStop;
\* "exit": main returns.
Phases == {"none", "open", "bind", "worker", "create", "write", "notify", "run",
           "drain", "graceful", "close", "remove", "exit", "dead"}

NoFile == [ino |-> Nobody, pid |-> Nobody]
NoTarget == [pc |-> "none", target |-> Nobody, polls |-> 0]

LifeTypeOK ==
    /\ role \in {"master", "worker", "both"}
    /\ daemon \in [Daemons -> [pc : Phases, fd : Daemons \cup {Nobody}]]
    /\ term \in SUBSET Daemons /\ followed \in SUBSET Daemons
    /\ stop \in [Stops -> [pc : {"none", "signal", "poll", "kill", "unlink", "done", "refused"},
                           target : Daemons \cup {Nobody}, polls : 0 .. MaxPolls]]
    /\ reader \in [Readers -> {"none", "wait", "read"}]
    /\ pidFile \in [ino : Daemons \cup {Nobody}, pid : Daemons \cup {Nobody}]
    /\ dbLock \in Daemons \cup Readers \cup {Nobody}
    /\ metrics \in Daemons \cup {Nobody}
    /\ met \in SUBSET Daemons

LifeInit ==
    /\ role \in {"master", "worker", "both"}
    /\ daemon = [d \in Daemons |-> [pc |-> "none", fd |-> Nobody]]
    /\ term = {} /\ followed = {}
    /\ stop = [s \in Stops |-> NoTarget]
    /\ reader = [r \in Readers |-> "none"]
    /\ pidFile = NoFile
    /\ dbLock = Nobody
    /\ metrics = Nobody
    /\ met = {}

-----------------------------------------------------------------------------
IsMaster == role \in {"master", "both"}

Alive(d) == daemon[d].pc \notin {"none", "dead"}
Starting(d) == daemon[d].pc \in {"open", "bind", "worker", "create", "write"}
StopUnderway == \E s \in Stops : stop[s].pc \in {"signal", "poll", "kill", "unlink"}

\* The master answers calls.
Serving(d) ==
    /\ IsMaster
    /\ daemon[d].pc \in {"worker", "create", "write", "notify", "run", "drain", "graceful"}

At(d, pc) == daemon' = [daemon EXCEPT ![d].pc = pc]

\* The operating system takes back what a process held.
Dies(d) ==
    /\ At(d, "dead")
    /\ dbLock' = IF dbLock = d THEN Nobody ELSE dbLock
    /\ metrics' = IF metrics = d THEN Nobody ELSE metrics
    /\ followed' = followed \ {d}

-----------------------------------------------------------------------------
(* tasch start *)

\* Variant: a start that is refused removes the pid file on its way out.
CheckRemoves(d) ==
    LET others == {e \in Daemons : Alive(e)} IN
    /\ daemon[d].pc = "none"
    /\ \/ /\ pidFile = NoFile
          /\ At(d, IF IsMaster THEN "open" ELSE "worker")
          /\ met' = met \cup (IF others # {} \/ StopUnderway THEN {d} \cup others ELSE {})
       \/ pidFile # NoFile /\ At(d, "dead") /\ UNCHANGED met
    /\ pidFile' = NoFile
    /\ UNCHANGED <<role, term, followed, stop, reader, dbLock, metrics>>

\* The pid file is looked for here and written at the end of the start.
Check(d) ==
    LET others == {e \in Daemons : Alive(e)} IN
    /\ daemon[d].pc = "none"
    /\ \/ /\ pidFile = NoFile
          /\ At(d, IF IsMaster THEN "open" ELSE "worker")
          /\ met' = met \cup (IF others # {} \/ StopUnderway THEN {d} \cup others ELSE {})
       \/ pidFile # NoFile /\ At(d, "dead") /\ UNCHANGED met
    /\ UNCHANGED <<role, term, followed, stop, reader, pidFile, dbLock, metrics>>

OpenStore(d) ==
    /\ daemon[d].pc = "open" /\ dbLock = Nobody
    /\ dbLock' = d
    /\ At(d, "bind")
    /\ UNCHANGED <<role, term, followed, stop, reader, pidFile, metrics, met>>

\* The rest of StartMaster.  A metrics port that is taken is only reported.
BindMaster(d) ==
    /\ daemon[d].pc = "bind"
    /\ metrics' = IF metrics = Nobody THEN d ELSE metrics
    /\ At(d, IF role = "both" THEN "worker" ELSE "create")
    /\ UNCHANGED <<role, term, followed, stop, reader, pidFile, dbLock, met>>

JoinWorker(d) ==
    /\ daemon[d].pc = "worker"
    /\ At(d, "create")
    /\ UNCHANGED <<role, term, followed, stop, reader, pidFile, dbLock, metrics, met>>

\* StartMaster or StartWorker returns an error: log.Fatalf.
StartFails(d) ==
    /\ daemon[d].pc \in {"bind", "worker"}
    /\ Dies(d)
    /\ UNCHANGED <<role, term, stop, reader, pidFile, met>>

\* WritePID: os.WriteFile opens the file, empty then, and writes to it.
CreatePID(d) ==
    /\ daemon[d].pc = "create"
    /\ pidFile' = [ino |-> IF pidFile = NoFile THEN d ELSE pidFile.ino, pid |-> Nobody]
    /\ daemon' = [daemon EXCEPT ![d] = [pc |-> "write", fd |-> pidFile'.ino]]
    /\ UNCHANGED <<role, term, followed, stop, reader, dbLock, metrics, met>>

WritePID(d) ==
    /\ daemon[d].pc = "write"
    /\ pidFile' = IF daemon[d].fd = pidFile.ino THEN [pidFile EXCEPT !.pid = d] ELSE pidFile
    /\ At(d, "notify")
    /\ UNCHANGED <<role, term, followed, stop, reader, dbLock, metrics, met>>

\* SIGTERM ends the process until signal.Notify has run.
Notify(d) ==
    /\ daemon[d].pc = "notify"
    /\ At(d, "run")
    /\ UNCHANGED <<role, term, followed, stop, reader, pidFile, dbLock, metrics, met>>

\* SIGINT: the user presses Ctrl-C; earlier, that is Crash.
Interrupt(d) ==
    /\ daemon[d].pc = "run" /\ d \notin term
    /\ term' = term \cup {d}
    /\ UNCHANGED <<role, daemon, followed, stop, reader, pidFile, dbLock, metrics, met>>

Signalled(d) ==
    /\ daemon[d].pc = "run" /\ d \in term
    /\ At(d, IF IsMaster THEN "drain" ELSE "remove")
    /\ UNCHANGED <<role, term, followed, stop, reader, pidFile, dbLock, metrics, met>>

\* No job runs, or drain_timeout is over; the worker is cancelled.
DrainEnds(d) ==
    /\ daemon[d].pc = "drain"
    /\ At(d, "graceful")
    /\ UNCHANGED <<role, term, followed, stop, reader, pidFile, dbLock, metrics, met>>

\* Variant: the store is closed before the handlers have returned.
GracefulStopClosesStore(d) ==
    /\ daemon[d].pc = "graceful"
    /\ dbLock' = Nobody
    /\ At(d, IF d \in followed THEN "graceful" ELSE "close")
    /\ UNCHANGED <<role, term, followed, stop, reader, pidFile, metrics, met>>

\* GracefulStop waits for every open call.
GracefulStop(d) ==
    /\ daemon[d].pc = "graceful" /\ d \notin followed
    /\ At(d, "close")
    /\ UNCHANGED <<role, term, followed, stop, reader, pidFile, dbLock, metrics, met>>

\* cleanDB
CloseStore(d) ==
    /\ daemon[d].pc = "close"
    /\ dbLock' = Nobody
    /\ At(d, "remove")
    /\ UNCHANGED <<role, term, followed, stop, reader, pidFile, metrics, met>>

RemovePID(d) ==
    /\ daemon[d].pc = "remove"
    /\ pidFile' = NoFile
    /\ At(d, "exit")
    /\ UNCHANGED <<role, term, followed, stop, reader, dbLock, metrics, met>>

Exit(d) ==
    /\ daemon[d].pc = "exit"
    /\ Dies(d)
    /\ UNCHANGED <<role, term, stop, reader, pidFile, met>>

\* The daemon is killed, or one of its goroutines panics.
Crash(d) ==
    /\ Alive(d)
    /\ Dies(d)
    /\ UNCHANGED <<role, term, stop, reader, pidFile, met>>

\* A client calls StreamLogs, and goes when its user interrupts it.
Follow(d) ==
    /\ Serving(d) /\ daemon[d].pc # "graceful" /\ d \notin followed
    /\ followed' = followed \cup {d}
    /\ UNCHANGED <<role, daemon, term, stop, reader, pidFile, dbLock, metrics, met>>

Unfollow(d) ==
    /\ d \in followed
    /\ followed' = followed \ {d}
    /\ UNCHANGED <<role, daemon, term, stop, reader, pidFile, dbLock, metrics, met>>

-----------------------------------------------------------------------------
(* tasch stop *)

Goes(s, pc) == stop' = [stop EXCEPT ![s].pc = pc]

\* A file that holds no pid is removed, and the stop is refused.
ReadPID(s) ==
    /\ stop[s].pc = "none"
    /\ \/ pidFile = NoFile /\ Goes(s, "refused") /\ UNCHANGED pidFile
       \/ pidFile # NoFile /\ pidFile.pid = Nobody /\ Goes(s, "refused") /\ pidFile' = NoFile
       \/ /\ pidFile.pid # Nobody
          /\ stop' = [stop EXCEPT ![s] = [pc |-> "signal", target |-> pidFile.pid, polls |-> 0]]
          /\ UNCHANGED pidFile
    /\ met' = met \cup {d \in Daemons : Starting(d)}
    /\ UNCHANGED <<role, daemon, term, followed, reader, dbLock, metrics>>

SendTerm(s) ==
    LET d == stop[s].target IN
    /\ stop[s].pc = "signal" /\ Alive(d)
    /\ Goes(s, "poll")
    /\ term' = term \cup {d}
    /\ IF daemon[d].pc = "notify" THEN Dies(d)
       ELSE UNCHANGED <<daemon, dbLock, metrics, followed>>
    /\ UNCHANGED <<role, reader, pidFile, met>>

\* There is no such process: the file is removed, and the stop is refused.
TermFails(s) ==
    /\ stop[s].pc = "signal" /\ ~Alive(stop[s].target)
    /\ Goes(s, "refused")
    /\ pidFile' = NoFile
    /\ UNCHANGED <<role, daemon, term, followed, reader, dbLock, metrics, met>>

\* Variant: the limit is tested before the poll is counted.
PollOnceMore(s) ==
    /\ stop[s].pc = "poll" /\ Alive(stop[s].target)
    /\ stop' = [stop EXCEPT ![s].polls = @ + 1,
                            ![s].pc = IF stop[s].polls = MaxPolls THEN "kill" ELSE "poll"]
    /\ UNCHANGED <<role, daemon, term, followed, reader, pidFile, dbLock, metrics, met>>

\* Variant: a stop waits until the process is gone.
PollForEver(s) ==
    /\ stop[s].pc = "poll" /\ Alive(stop[s].target)
    /\ stop' = [stop EXCEPT ![s].polls = 1]
    /\ UNCHANGED <<role, daemon, term, followed, reader, pidFile, dbLock, metrics, met>>

Poll(s) ==
    /\ stop[s].pc = "poll" /\ Alive(stop[s].target)
    /\ stop' = [stop EXCEPT ![s].polls = @ + 1,
                            ![s].pc = IF stop[s].polls + 1 = MaxPolls THEN "kill" ELSE "poll"]
    /\ UNCHANGED <<role, daemon, term, followed, reader, pidFile, dbLock, metrics, met>>

PollGone(s) ==
    /\ stop[s].pc = "poll" /\ ~Alive(stop[s].target)
    /\ Goes(s, "unlink")
    /\ UNCHANGED <<role, daemon, term, followed, reader, pidFile, dbLock, metrics, met>>

\* Variant: SIGTERM once more.
KillTerm(s) ==
    /\ stop[s].pc = "kill"
    /\ Goes(s, "unlink")
    /\ term' = term \cup {stop[s].target}
    /\ UNCHANGED <<role, daemon, followed, reader, pidFile, dbLock, metrics, met>>

Kill(s) ==
    /\ stop[s].pc = "kill"
    /\ Goes(s, "unlink")
    /\ IF Alive(stop[s].target) THEN Dies(stop[s].target)
       ELSE UNCHANGED <<daemon, dbLock, metrics, followed>>
    /\ UNCHANGED <<role, term, reader, pidFile, met>>

Unlink(s) ==
    /\ stop[s].pc = "unlink"
    /\ Goes(s, "done")
    /\ pidFile' = NoFile
    /\ UNCHANGED <<role, daemon, term, followed, reader, dbLock, metrics, met>>

-----------------------------------------------------------------------------
(* tasch jobs failed *)

\* No master answers.
FallBack(r) ==
    /\ reader[r] = "none" /\ ~\E d \in Daemons : Serving(d)
    /\ reader' = [reader EXCEPT ![r] = "wait"]
    /\ UNCHANGED <<role, daemon, term, followed, stop, pidFile, dbLock, metrics, met>>

OpenToRead(r) ==
    /\ reader[r] = "wait" /\ dbLock = Nobody
    /\ dbLock' = r
    /\ reader' = [reader EXCEPT ![r] = "read"]
    /\ UNCHANGED <<role, daemon, term, followed, stop, pidFile, metrics, met>>

CloseRead(r) ==
    /\ reader[r] = "read"
    /\ dbLock' = Nobody
    /\ reader' = [reader EXCEPT ![r] = "none"]
    /\ UNCHANGED <<role, daemon, term, followed, stop, pidFile, metrics, met>>

-----------------------------------------------------------------------------
DaemonStep(d) ==
    \/ OpenStore(d) \/ BindMaster(d) \/ JoinWorker(d) \/ StartFails(d)
    \/ CreatePID(d) \/ WritePID(d) \/ Notify(d) \/ Signalled(d) \/ DrainEnds(d)
    \/ GracefulStop(d) \/ CloseStore(d) \/ RemovePID(d) \/ Exit(d)

StopStep(s) == SendTerm(s) \/ TermFails(s) \/ Poll(s) \/ PollGone(s) \/ Kill(s) \/ Unlink(s)

\* Bound: every process of Daemons and Stops has run.
Over ==
    /\ \A d \in Daemons : daemon[d].pc = "dead"
    /\ \A s \in Stops : stop[s].pc \in {"done", "refused"}
    /\ UNCHANGED lifeVars

LifeNext ==
    \/ \E d \in Daemons : DaemonStep(d) \/ Check(d) \/ Interrupt(d) \/ Crash(d)
    \/ \E d \in Daemons : Follow(d) \/ Unfollow(d)
    \/ \E s \in Stops : StopStep(s) \/ ReadPID(s)
    \/ \E r \in Readers : FallBack(r) \/ OpenToRead(r) \/ CloseRead(r)
    \/ Over

LifeSafety == LifeInit /\ [][LifeNext]_lifeVars

\* A process that can go on does.  No client has to leave, and nobody has to
\* start or stop anything.
LifeSpec ==
    /\ LifeSafety
    /\ \A d \in Daemons : WF_lifeVars(DaemonStep(d))
    /\ \A s \in Stops : WF_lifeVars(StopStep(s))
    /\ \A r \in Readers : WF_lifeVars(OpenToRead(r) \/ CloseRead(r))

-----------------------------------------------------------------------------
(* Properties *)

\* Two masters never answer calls at the same time, however starts and stops
\* overlap: a master answers only while it holds the store's lock.
OneMaster ==
    \A d, e \in Daemons : Serving(d) /\ Serving(e) => d = e

\* A stop that reports success leaves the process dead, gracefully stopped or
\* killed, and no pid file that names it.
StoppedIsDead ==
    \A s \in Stops : stop[s].pc = "done" =>
       ~Alive(stop[s].target) /\ pidFile.pid # stop[s].target

\* A running daemon loses its pid file, and with it tasch stop, only if its
\* start met another start or a stop.
PidFileKept ==
    \A d \in Daemons :
       daemon[d].pc = "run" /\ d \notin term /\ d \notin met => pidFile.pid = d

\* A stop ends, whether the daemon drains, waits for its clients in
\* GracefulStop, or is gone.
StopEnds ==
    \A s \in Stops : stop[s].pc = "signal" ~> stop[s].pc \in {"done", "refused"}

\* A daemon that runs can be found by tasch stop.
RunningIsFound ==
    \A d \in Daemons : daemon[d].pc = "run" /\ d \notin term => pidFile.pid = d

\* No two daemons run at the same time.
NoDoubleStart ==
    \A d, e \in Daemons : daemon[d].pc = "run" /\ daemon[e].pc = "run" => d = e

\* A master that runs has its health server.
HealthServed ==
    \A d \in Daemons : daemon[d].pc = "run" /\ IsMaster => metrics = d

\* A daemon that is asked to stop does so by itself.
TermSuffices == \A d \in Daemons : d \in term ~> ~Alive(d)

\* The fallback of tasch jobs failed ends.
FallbackEnds == \A r \in Readers : reader[r] = "wait" ~> reader[r] # "wait"
=============================================================================
