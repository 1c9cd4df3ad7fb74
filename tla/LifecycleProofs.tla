-------------------------- MODULE LifecycleProofs --------------------------
(***************************************************************************)
(* Theorems about Lifecycle, for any number of processes.                  *)
(***************************************************************************)
EXTENDS Lifecycle, TLAPS

\* What each stop holds for its next step.
StopReady ==
    \A s \in Stops :
       /\ stop[s].pc \notin {"none", "refused"} => stop[s].target \in Daemons
       /\ stop[s].pc \in {"signal", "poll"} => stop[s].polls < MaxPolls

TypeInv == LifeTypeOK /\ StopReady

\* A step of a process on the start-up or shut-down path of a daemon.
OfDaemon(d) == DaemonStep(d) \/ Check(d) \/ Interrupt(d) \/ Crash(d) \/ Follow(d) \/ Unfollow(d)
OfStop(s) == StopStep(s) \/ ReadPID(s)
OfReader(r) == FallBack(r) \/ OpenToRead(r) \/ CloseRead(r)

LEMMA NextCases ==
  ASSUME [LifeNext]_lifeVars
  PROVE  \/ \E d \in Daemons : OfDaemon(d)
         \/ \E s \in Stops : OfStop(s)
         \/ \E r \in Readers : OfReader(r)
         \/ UNCHANGED lifeVars
BY DEF LifeNext, Over, OfDaemon, OfStop, OfReader

LEMMA TypeInit ==
  ASSUME LifeInit
  PROVE  TypeInv
BY ProcessAssumption DEF LifeInit, TypeInv, LifeTypeOK, StopReady, Phases, NoFile, NoTarget

LEMMA DaemonType ==
  ASSUME TypeInv, NEW d \in Daemons, OfDaemon(d)
  PROVE  TypeInv'
<1> USE DEF At, Dies
<1>1. /\ role' = role /\ stop' = stop /\ reader' = reader
      /\ daemon' \in [Daemons -> [pc : Phases, fd : Daemons \cup {Nobody}]]
  BY DEF OfDaemon, DaemonStep, TypeInv, LifeTypeOK, Phases,
         Check, OpenStore, BindMaster, JoinWorker, StartFails, CreatePID, WritePID, Notify,
         Interrupt, Signalled, DrainEnds, GracefulStop, CloseStore, RemovePID, Exit, Crash,
         Follow, Unfollow, NoFile
<1>2. /\ term' \subseteq Daemons /\ followed' \subseteq Daemons
      /\ dbLock' \in Daemons \cup Readers \cup {Nobody} /\ metrics' \in Daemons \cup {Nobody}
  BY DEF OfDaemon, DaemonStep, TypeInv, LifeTypeOK,
         Check, OpenStore, BindMaster, JoinWorker, StartFails, CreatePID, WritePID, Notify,
         Interrupt, Signalled, DrainEnds, GracefulStop, CloseStore, RemovePID, Exit, Crash,
         Follow, Unfollow
<1>3. /\ pidFile' \in [ino : Daemons \cup {Nobody}, pid : Daemons \cup {Nobody}]
      /\ met' \subseteq Daemons
  BY DEF OfDaemon, DaemonStep, TypeInv, LifeTypeOK,
         Check, OpenStore, BindMaster, JoinWorker, StartFails, CreatePID, WritePID, Notify,
         Interrupt, Signalled, DrainEnds, GracefulStop, CloseStore, RemovePID, Exit, Crash,
         Follow, Unfollow, NoFile
<1> QED
  BY <1>1, <1>2, <1>3 DEF TypeInv, LifeTypeOK, StopReady

LEMMA StopType ==
  ASSUME TypeInv, NEW s \in Stops, OfStop(s)
  PROVE  TypeInv'
<1> USE DEF Goes, TypeInv, LifeTypeOK
<1>1. role' = role /\ reader' = reader
  BY DEF OfStop, StopStep, ReadPID, SendTerm, TermFails, Poll, PollGone, Kill, Unlink
<1>2. stop' \in [Stops -> [pc : {"none", "signal", "poll", "kill", "unlink", "done", "refused"},
                           target : Daemons \cup {Nobody}, polls : 0 .. MaxPolls]]
      /\ StopReady'
  <2> USE ProcessAssumption DEF StopReady
  <2>1. CASE ReadPID(s)
    BY <2>1 DEF ReadPID
  <2>2. CASE SendTerm(s)
    BY <2>2 DEF SendTerm
  <2>3. CASE TermFails(s)
    BY <2>3 DEF TermFails
  <2>4. CASE Poll(s)
    <3>1. /\ stop[s].target \in Daemons /\ stop[s].polls + 1 \in 0 .. MaxPolls
          /\ stop[s].polls + 1 # MaxPolls => stop[s].polls + 1 < MaxPolls
      BY <2>4 DEF Poll
    <3>2. ASSUME stop[s].polls + 1 = MaxPolls
          PROVE  stop' = [stop EXCEPT ![s].pc = "kill", ![s].polls = MaxPolls]
      BY <2>4, <3>2 DEF Poll
    <3>3. ASSUME stop[s].polls + 1 # MaxPolls
          PROVE  stop' = [stop EXCEPT ![s].pc = "poll", ![s].polls = stop[s].polls + 1]
      BY <2>4, <3>3 DEF Poll
    <3>4. CASE stop[s].polls + 1 = MaxPolls
      BY <3>1, <3>2, <3>4
    <3>5. CASE stop[s].polls + 1 # MaxPolls
      BY <3>1, <3>3, <3>5
    <3> QED
      BY <3>4, <3>5
  <2>5. CASE PollGone(s)
    BY <2>5 DEF PollGone
  <2>6. CASE Kill(s)
    BY <2>6 DEF Kill
  <2>7. CASE Unlink(s)
    BY <2>7 DEF Unlink
  <2> QED
    BY <2>1, <2>2, <2>3, <2>4, <2>5, <2>6, <2>7 DEF OfStop, StopStep
<1>3. /\ daemon' \in [Daemons -> [pc : Phases, fd : Daemons \cup {Nobody}]]
      /\ term' \subseteq Daemons /\ followed' \subseteq Daemons
      /\ dbLock' \in Daemons \cup Readers \cup {Nobody} /\ metrics' \in Daemons \cup {Nobody}
  BY DEF OfStop, StopStep, StopReady, Dies, At, Phases,
     ReadPID, SendTerm, TermFails, Poll, PollGone, Kill, Unlink
<1>4. /\ pidFile' \in [ino : Daemons \cup {Nobody}, pid : Daemons \cup {Nobody}]
      /\ met' \subseteq Daemons
  BY DEF OfStop, StopStep, ReadPID, SendTerm, TermFails, Poll, PollGone, Kill, Unlink, NoFile
<1> QED
  BY <1>1, <1>2, <1>3, <1>4

LEMMA ReaderType ==
  ASSUME TypeInv, NEW r \in Readers, OfReader(r)
  PROVE  TypeInv'
BY DEF OfReader, FallBack, OpenToRead, CloseRead, TypeInv, LifeTypeOK, StopReady

LEMMA TypeNext ==
  ASSUME TypeInv, [LifeNext]_lifeVars
  PROVE  TypeInv'
<1>1. CASE UNCHANGED lifeVars
  BY <1>1 DEF TypeInv, LifeTypeOK, StopReady, lifeVars
<1> QED
  BY <1>1, NextCases, DaemonType, StopType, ReaderType

-----------------------------------------------------------------------------
(* Who holds the store's lock *)

\* The phases in which a master has the store open.
Locked == {"bind", "worker", "create", "write", "notify", "run", "drain", "graceful", "close"}

\* Only a master goes through these.
MasterOnly == \A d \in Daemons :
    daemon[d].pc \in {"open", "bind", "drain", "graceful", "close"} => IsMaster

MasterHolds == \A d \in Daemons : IsMaster /\ daemon[d].pc \in Locked => dbLock = d

ReaderHolds == \A r \in Readers : reader[r] = "read" => dbLock = r

LockInv == TypeInv /\ MasterOnly /\ MasterHolds /\ ReaderHolds

LEMMA DeathKeepsLock ==
  ASSUME LockInv, NEW d \in Daemons, Dies(d), UNCHANGED <<role, reader>>
  PROVE  MasterOnly' /\ MasterHolds' /\ ReaderHolds'
BY ProcessAssumption
   DEF LockInv, TypeInv, LifeTypeOK, MasterOnly, MasterHolds, ReaderHolds, Locked, IsMaster,
       Dies, At

LEMMA LockNext ==
  ASSUME LockInv, [LifeNext]_lifeVars
  PROVE  LockInv'
<1> USE ProcessAssumption DEF LockInv, MasterOnly, MasterHolds, ReaderHolds, Locked, IsMaster
<1>0. TypeInv'
  BY TypeNext
<1>1. ASSUME NEW d \in Daemons, OfDaemon(d)
      PROVE  LockInv'
  <2> USE DEF TypeInv, LifeTypeOK, At
  <2>1. CASE Check(d)
    BY <1>0, <2>1 DEF Check
  <2>2. CASE OpenStore(d) \/ BindMaster(d) \/ JoinWorker(d)
    <3>1. CASE OpenStore(d)
      BY <1>0, <3>1 DEF OpenStore
    <3>2. CASE BindMaster(d)
      BY <1>0, <3>2 DEF BindMaster
    <3>3. CASE JoinWorker(d)
      BY <1>0, <3>3 DEF JoinWorker
    <3> QED
      BY <2>2, <3>1, <3>2, <3>3
  <2>3. CASE CreatePID(d) \/ WritePID(d) \/ Notify(d)
    <3>1. CASE CreatePID(d)
      BY <1>0, <3>1 DEF CreatePID
    <3>2. CASE WritePID(d)
      BY <1>0, <3>2 DEF WritePID
    <3>3. CASE Notify(d)
      BY <1>0, <3>3 DEF Notify
    <3> QED
      BY <2>3, <3>1, <3>2, <3>3
  <2>4. CASE Signalled(d) \/ DrainEnds(d) \/ GracefulStop(d) \/ CloseStore(d)
    <3>1. CASE Signalled(d) \/ DrainEnds(d)
      BY <1>0, <3>1 DEF Signalled, DrainEnds
    <3>2. CASE GracefulStop(d)
      BY <1>0, <3>2 DEF GracefulStop
    <3>3. CASE CloseStore(d)
      BY <1>0, <3>3 DEF CloseStore
    <3> QED
      BY <2>4, <3>1, <3>2, <3>3
  <2>5. CASE StartFails(d) \/ Exit(d) \/ Crash(d)
    BY <1>0, <2>5, DeathKeepsLock DEF StartFails, Exit, Crash
  <2>6. CASE Interrupt(d) \/ Follow(d) \/ Unfollow(d) \/ RemovePID(d)
    BY <1>0, <2>6 DEF Interrupt, Follow, Unfollow, RemovePID
  <2> QED
    BY <1>1, <2>1, <2>2, <2>3, <2>4, <2>5, <2>6 DEF OfDaemon, DaemonStep
<1>2. ASSUME NEW s \in Stops, OfStop(s)
      PROVE  LockInv'
  <2> USE DEF TypeInv, LifeTypeOK, StopReady
  <2>1. CASE ReadPID(s) \/ TermFails(s) \/ Poll(s) \/ PollGone(s) \/ Unlink(s)
    BY <1>0, <2>1 DEF ReadPID, TermFails, Poll, PollGone, Unlink
  <2>2. CASE SendTerm(s) \/ Kill(s)
    <3>1. /\ stop[s].target \in Daemons /\ UNCHANGED <<role, reader>>
          /\ Dies(stop[s].target) \/ UNCHANGED <<daemon, dbLock>>
      BY <2>2 DEF SendTerm, Kill
    <3> QED
      BY <1>0, <3>1, DeathKeepsLock
  <2> QED
    BY <1>2, <2>1, <2>2 DEF OfStop, StopStep
<1>3. ASSUME NEW r \in Readers, OfReader(r)
      PROVE  LockInv'
  BY <1>0, <1>3 DEF TypeInv, LifeTypeOK, OfReader, FallBack, OpenToRead, CloseRead
<1>4. CASE UNCHANGED lifeVars
  BY <1>0, <1>4 DEF lifeVars
<1> QED
  BY <1>1, <1>2, <1>3, <1>4, NextCases

LEMMA LockInit ==
  ASSUME LifeInit
  PROVE  LockInv
BY TypeInit DEF LifeInit, LockInv, MasterOnly, MasterHolds, ReaderHolds, Locked

\* Every step keeps every process in a phase of startCmd, StopDaemon or jobs
\* failed, a stop at most MaxPolls polls, and the pid file, the lock and the
\* metrics port in the hands of processes.
THEOREM LifeTypeCorrect == LifeSafety => []LifeTypeOK
<1>1. TypeInv => LifeTypeOK
  BY DEF TypeInv
<1> QED
  BY <1>1, TypeInit, TypeNext, PTL DEF LifeSafety

\* However many daemons are started and stopped at once, one master at most
\* answers calls: it holds the store's lock from bolt.Open to cleanDB.
THEOREM MasterIsAlone == LifeSafety => []OneMaster
<1>1. LockInv => OneMaster
  BY DEF LockInv, MasterHolds, OneMaster, Serving, Locked
<1> QED
  BY <1>1, LockInit, LockNext, PTL DEF LifeSafety

-----------------------------------------------------------------------------
(* What a stop leaves behind *)

StopKills == \A s \in Stops :
    /\ stop[s].pc \in {"unlink", "done"} => ~Alive(stop[s].target)
    /\ stop[s].pc = "done" => pidFile.pid # stop[s].target

\* A daemon is started once: a pid is not used again.
NotYet ==
    \A s \in Stops : stop[s].pc \notin {"none", "refused"} => daemon[stop[s].target].pc # "none"

NamesStarted == pidFile.pid \in Daemons => daemon[pidFile.pid].pc # "none"

KillInv == TypeInv /\ NamesStarted /\ NotYet /\ StopKills

LEMMA KillInit ==
  ASSUME LifeInit
  PROVE  KillInv
BY ProcessAssumption, TypeInit
   DEF LifeInit, KillInv, NamesStarted, NotYet, StopKills, NoTarget, NoFile

LEMMA KillNext ==
  ASSUME KillInv, [LifeNext]_lifeVars
  PROVE  KillInv'
<1> USE ProcessAssumption DEF KillInv, NamesStarted, NotYet, StopKills, Alive
<1>0. TypeInv'
  BY TypeNext
<1>1. ASSUME NEW d \in Daemons, OfDaemon(d)
      PROVE  KillInv'
  <2> USE DEF TypeInv, LifeTypeOK, StopReady, At, Dies
  <2>1. CASE Check(d)
    BY <1>0, <2>1 DEF Check
  <2>2. CASE OpenStore(d) \/ BindMaster(d) \/ JoinWorker(d) \/ StartFails(d)
    BY <1>0, <2>2 DEF OpenStore, BindMaster, JoinWorker, StartFails
  <2>3. CASE CreatePID(d)
    BY <1>0, <2>3 DEF CreatePID
  <2>4. CASE WritePID(d)
    BY <1>0, <2>4 DEF WritePID
  <2>5. CASE Notify(d) \/ Signalled(d) \/ DrainEnds(d) \/ GracefulStop(d) \/ CloseStore(d)
    BY <1>0, <2>5 DEF Notify, Signalled, DrainEnds, GracefulStop, CloseStore
  <2>6. CASE RemovePID(d) \/ Exit(d) \/ Crash(d)
    <3>1. CASE RemovePID(d)
      BY <1>0, <3>1 DEF RemovePID, NoFile
    <3>2. CASE Exit(d) \/ Crash(d)
      <4>1. UNCHANGED <<pidFile, stop>> /\ daemon' = [daemon EXCEPT ![d].pc = "dead"]
            /\ daemon[d].pc # "none"
        BY <3>2 DEF Exit, Crash
      <4> QED
        BY <1>0, <4>1
    <3> QED
      BY <2>6, <3>1, <3>2
  <2>7. CASE Interrupt(d) \/ Follow(d) \/ Unfollow(d)
    BY <1>0, <2>7 DEF Interrupt, Follow, Unfollow
  <2> QED
    BY <1>1, <2>1, <2>2, <2>3, <2>4, <2>5, <2>6, <2>7 DEF OfDaemon, DaemonStep
<1>2. ASSUME NEW s \in Stops, OfStop(s)
      PROVE  KillInv'
  <2> USE DEF TypeInv, LifeTypeOK, StopReady, Goes
  <2>1. CASE ReadPID(s)
    BY <1>0, <2>1 DEF ReadPID, NoFile
  <2>2. CASE TermFails(s)
    BY <1>0, <2>2 DEF TermFails, NoFile
  <2>3. CASE Poll(s) \/ PollGone(s)
    BY <1>0, <2>3 DEF Poll, PollGone
  <2>4. CASE SendTerm(s)
    <3>1. /\ pidFile' = pidFile /\ stop[s].pc = "signal"
          /\ stop' = [stop EXCEPT ![s].pc = "poll"]
      BY <2>4 DEF SendTerm
    <3>2. \A e \in Daemons : \/ daemon'[e].pc = daemon[e].pc
                             \/ daemon'[e].pc = "dead" /\ daemon[e].pc # "none"
      BY <2>4 DEF SendTerm, Dies, At
    <3>3. NamesStarted'
      BY <3>1, <3>2
    <3>4. \A t \in Stops : /\ stop'[t].target = stop[t].target
                           /\ stop'[t].pc = stop[t].pc \/ (t = s /\ stop'[t].pc = "poll")
      BY <3>1
    <3>5. NotYet' /\ StopKills'
      BY <3>1, <3>2, <3>4
    <3> QED
      BY <1>0, <3>3, <3>5
  <2>5. CASE Kill(s)
    <3>1. /\ pidFile' = pidFile /\ stop[s].pc = "kill"
          /\ stop' = [stop EXCEPT ![s].pc = "unlink"]
      BY <2>5 DEF Kill
    <3>2. \A e \in Daemons : \/ daemon'[e].pc = daemon[e].pc
                             \/ daemon'[e].pc = "dead" /\ daemon[e].pc # "none"
      BY <2>5 DEF Kill, Dies, At
    <3>3. daemon'[stop[s].target].pc \in {"none", "dead"}
      BY <2>5 DEF Kill, Dies, At
    <3> QED
      BY <1>0, <3>1, <3>2, <3>3
  <2>6. CASE Unlink(s)
    BY <1>0, <2>6 DEF Unlink, NoFile
  <2> QED
    BY <1>2, <2>1, <2>2, <2>3, <2>4, <2>5, <2>6 DEF OfStop, StopStep
<1>3. ASSUME NEW r \in Readers, OfReader(r)
      PROVE  KillInv'
  BY <1>0, <1>3 DEF OfReader, FallBack, OpenToRead, CloseRead
<1>4. CASE UNCHANGED lifeVars
  BY <1>0, <1>4 DEF lifeVars
<1> QED
  BY <1>1, <1>2, <1>3, <1>4, NextCases

\* A tasch stop that reports success leaves its process dead and no pid file
\* that names it, whatever other starts and stops do meanwhile.
THEOREM StopSucceeds == LifeSafety => []StoppedIsDead
<1>1. KillInv => StoppedIsDead
  BY DEF KillInv, StopKills, StoppedIsDead
<1> QED
  BY <1>1, KillInit, KillNext, PTL DEF LifeSafety

-----------------------------------------------------------------------------
(* Whose the pid file is *)

Underway == {"signal", "poll", "kill", "unlink"}

\* A daemon whose start has met nobody is the only one alive.
Alone == \A d \in Daemons \ met : Alive(d) => \A e \in Daemons : Alive(e) => e = d

\* While it starts, nothing is being stopped, and the file it opened is there.
Undisturbed == \A d \in Daemons \ met :
    /\ Starting(d) => \A s \in Stops : stop[s].pc \notin Underway
    /\ daemon[d].pc = "write" => daemon[d].fd = pidFile.ino

\* Until it is signalled the file names it, and no stop has got beyond reading.
Named == \A d \in Daemons \ met :
    daemon[d].pc \in {"notify", "run"} /\ d \notin term =>
       /\ pidFile.pid = d
       /\ \A s \in Stops : stop[s].pc \in Underway => stop[s].pc = "signal" /\ stop[s].target = d

FileInv == TypeInv /\ Alone /\ Undisturbed /\ Named

LEMMA FileInit ==
  ASSUME LifeInit
  PROVE  FileInv
BY TypeInit DEF LifeInit, FileInv, Alone, Undisturbed, Named, Alive, Starting

LEMMA FileNext ==
  ASSUME FileInv, [LifeNext]_lifeVars
  PROVE  FileInv'
<1> USE ProcessAssumption DEF FileInv, Alone, Undisturbed, Named, Alive, Starting, Underway
<1>0. TypeInv'
  BY TypeNext
<1>1. ASSUME NEW d \in Daemons, OfDaemon(d)
      PROVE  FileInv'
  <2> USE DEF TypeInv, LifeTypeOK, StopReady, At
  <2>1. CASE Check(d)
    BY <1>0, <2>1 DEF Check, StopUnderway
  <2>2. CASE OpenStore(d) \/ JoinWorker(d)
    BY <1>0, <2>2 DEF OpenStore, JoinWorker
  <2>3. CASE BindMaster(d)
    BY <1>0, <2>3 DEF BindMaster
  <2>4. CASE CreatePID(d)
    BY <1>0, <2>4 DEF CreatePID
  <2>5. CASE WritePID(d)
    BY <1>0, <2>5 DEF WritePID
  <2>6. CASE Notify(d)
    BY <1>0, <2>6 DEF Notify
  <2>7. CASE Signalled(d) \/ DrainEnds(d) \/ GracefulStop(d) \/ CloseStore(d)
    BY <1>0, <2>7 DEF Signalled, DrainEnds, GracefulStop, CloseStore
  <2>8. CASE RemovePID(d)
    BY <1>0, <2>8 DEF RemovePID
  <2>9. CASE StartFails(d) \/ Exit(d) \/ Crash(d)
    BY <1>0, <2>9 DEF StartFails, Exit, Crash, Dies
  <2>10. CASE Interrupt(d) \/ Follow(d) \/ Unfollow(d)
    BY <1>0, <2>10 DEF Interrupt, Follow, Unfollow
  <2> QED
    BY <1>1, <2>1, <2>2, <2>3, <2>4, <2>5, <2>6, <2>7, <2>8, <2>9, <2>10
       DEF OfDaemon, DaemonStep
<1>2. ASSUME NEW s \in Stops, OfStop(s)
      PROVE  FileInv'
  <2> USE DEF TypeInv, LifeTypeOK, StopReady, Goes
  <2>1. CASE ReadPID(s)
    BY <1>0, <2>1 DEF ReadPID, NoFile
  <2>2. CASE SendTerm(s)
    <3>1. /\ stop[s].target \in Daemons /\ stop[s].pc = "signal"
          /\ met' = met /\ pidFile' = pidFile /\ term' = term \cup {stop[s].target}
          /\ stop' = [stop EXCEPT ![s].pc = "poll"]
          /\ \A e \in Daemons : daemon'[e] = daemon[e] \/ daemon'[e].pc = "dead"
      BY <2>2 DEF SendTerm, Dies, At
    <3>2. Alone'
      BY <3>1
    <3>3. Undisturbed'
      BY <3>1
    <3>4. Named'
      BY <3>1
    <3> QED
      BY <1>0, <3>2, <3>3, <3>4
  <2>3. CASE TermFails(s)
    BY <1>0, <2>3 DEF TermFails
  <2>4. CASE Poll(s) \/ PollGone(s)
    BY <1>0, <2>4 DEF Poll, PollGone
  <2>5. CASE Kill(s)
    <3>1. /\ stop[s].target \in Daemons /\ stop[s].pc = "kill"
          /\ met' = met /\ pidFile' = pidFile /\ term' = term
          /\ stop' = [stop EXCEPT ![s].pc = "unlink"]
          /\ \A e \in Daemons : daemon'[e] = daemon[e] \/ daemon'[e].pc = "dead"
      BY <2>5 DEF Kill, Dies, At
    <3>2. Alone'
      BY <3>1
    <3>3. Undisturbed'
      BY <3>1
    <3>4. Named'
      BY <3>1
    <3> QED
      BY <1>0, <3>2, <3>3, <3>4
  <2>6. CASE Unlink(s)
    BY <1>0, <2>6 DEF Unlink
  <2> QED
    BY <1>2, <2>1, <2>2, <2>3, <2>4, <2>5, <2>6 DEF OfStop, StopStep
<1>3. ASSUME NEW r \in Readers, OfReader(r)
      PROVE  FileInv'
  BY <1>0, <1>3 DEF OfReader, FallBack, OpenToRead, CloseRead
<1>4. CASE UNCHANGED lifeVars
  BY <1>0, <1>4 DEF lifeVars
<1> QED
  BY <1>1, <1>2, <1>3, <1>4, NextCases

\* A running daemon keeps its pid file until it is signalled, unless its start
\* overlapped another start or a stop: stops and exits of daemons gone before
\* remove no file of a later one.
THEOREM PidFileIsKept == LifeSafety => []PidFileKept
<1>1. FileInv => PidFileKept
  BY DEF FileInv, Named, PidFileKept
<1> QED
  BY <1>1, FileInit, FileNext, PTL DEF LifeSafety
=============================================================================
