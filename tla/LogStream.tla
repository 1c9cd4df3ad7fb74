----------------------------- MODULE LogStream -----------------------------
(***************************************************************************)
(* Job logs and their followers: appendLog and StreamLogs of               *)
(* internal/daemon/master.go, and the loop of `tasch jobs logs`.           *)
(*                                                                         *)
(* A line is stored under logMu and handed to the registered channels      *)
(* under subMu, in two critical sections; a follower replays the stored    *)
(* lines under logMu, SENDING each of them to its client there, and        *)
(* registers its channel under subMu afterwards.  No section under subMu   *)
(* can wait, so each is one step; logMu is held across the replay.         *)
(*                                                                         *)
(* The lines of a job are numbered in the order they are stored in.        *)
(***************************************************************************)
EXTENDS Entities, Sequences, FiniteSets, Functions

CONSTANTS
    Writers,     \* goroutines of the master that call appendLog
    Streams,     \* clients of StreamLogs, each with one call at a time
    Nobody,      \* logMu is free
    ChanCap,     \* capacity of a follower's channel (64)
    Window,      \* lines that gRPC buffers for a client that does not read
    MaxLines     \* bound: lines per job

ASSUME LogAssumption ==
    /\ Nobody \notin Streams
    /\ ChanCap \in Nat \ {0} /\ Window \in Nat \ {0} /\ MaxLines \in Nat

VARIABLES
    lines,       \* number of lines in logStore, per job
    logMu,       \* the stream that replays, or Nobody
    writer,      \* what each goroutine is logging
    stream,      \* where each call of StreamLogs is
    logChannels, \* the streams registered for each job
    chan,        \* what each follower's channel holds
    live,        \* lines that each stream has sent from its channel
    unread,      \* lines sent to each client and not read by it
    gone,        \* streams whose client has hung up
    closed,      \* streams whose channel is closed
    dropped      \* lines each stream missed because its channel was full

logVars == <<lines, logMu, writer, stream, logChannels, chan, live, unread,
             gone, closed, dropped>>

\* "want": about to lock logMu; "notify": the line is stored.
WriterStates == {"idle", "want", "notify"}

\* "replay": holds logMu; "gap": has released it and not yet registered;
\* "send": has taken a line from its channel; "leave": in the deferred
\* function; "close": no longer registered.
StreamStates == {"none", "lock", "replay", "gap", "listen", "send", "leave", "close"}

IdleWriter == [pc |-> "idle", job |-> NoJob, line |-> 0]
NoStream == [pc |-> "none", job |-> NoJob, pos |-> 0, since |-> 0, held |-> 0]

LogTypeOK ==
    /\ lines \in [Jobs -> Nat]
    /\ logMu \in Streams \cup {Nobody}
    /\ writer \in [Writers -> [pc : WriterStates, job : Jobs \cup {NoJob}, line : Nat]]
    /\ stream \in [Streams -> [pc : StreamStates, job : Jobs \cup {NoJob},
                               pos : Nat, since : Nat, held : Nat]]
    /\ \A l \in Streams : logMu = l <=> stream[l].pc = "replay"
    /\ logChannels \in [Jobs -> SUBSET Streams]
    /\ chan \in [Streams -> Seq(Nat)] /\ \A l \in Streams : Len(chan[l]) <= ChanCap
    /\ live \in [Streams -> Seq(Nat)]
    /\ unread \in [Streams -> 0 .. Window]
    /\ gone \in SUBSET Streams
    /\ closed \in SUBSET Streams
    /\ dropped \in [Streams -> SUBSET Nat]

LogInit ==
    /\ lines = [j \in Jobs |-> 0]
    /\ logMu = Nobody
    /\ writer = [w \in Writers |-> IdleWriter]
    /\ stream = [l \in Streams |-> NoStream]
    /\ logChannels = [j \in Jobs |-> {}]
    /\ chan = [l \in Streams |-> << >>]
    /\ live = [l \in Streams |-> << >>]
    /\ unread = [l \in Streams |-> 0]
    /\ gone = {}
    /\ closed = {}
    /\ dropped = [l \in Streams |-> {}]

-----------------------------------------------------------------------------
(* appendLog *)

Unstored(j) == {w \in Writers : writer[w].pc = "want" /\ writer[w].job = j}

Log(w, j) ==
    /\ writer[w].pc = "idle" /\ lines[j] + Cardinality(Unstored(j)) < MaxLines
    /\ writer' = [writer EXCEPT ![w] = [pc |-> "want", job |-> j, line |-> 0]]
    /\ UNCHANGED <<lines, logMu, stream, logChannels, chan, live, unread, gone,
                   closed, dropped>>

Store(w) ==
    LET j == writer[w].job IN
    /\ writer[w].pc = "want" /\ logMu = Nobody
    /\ lines' = [lines EXCEPT ![j] = @ + 1]
    /\ writer' = [writer EXCEPT ![w].pc = "notify", ![w].line = lines[j] + 1]
    /\ UNCHANGED <<logMu, stream, logChannels, chan, live, unread, gone, closed, dropped>>

HasRoom(l) == Len(chan[l]) < ChanCap

Offer(S, n) ==
    /\ chan' = [l \in Streams |->
                   IF l \in S /\ HasRoom(l) THEN Append(chan[l], n) ELSE chan[l]]
    /\ dropped' = [l \in Streams |->
                   IF l \in S /\ ~HasRoom(l) THEN dropped[l] \cup {n} ELSE dropped[l]]

\* The send to a channel without room falls through to default.
Notify(w) ==
    /\ writer[w].pc = "notify"
    /\ Offer(logChannels[writer[w].job], writer[w].line)
    /\ writer' = [writer EXCEPT ![w] = IdleWriter]
    /\ UNCHANGED <<lines, logMu, stream, logChannels, live, unread, gone, closed>>

-----------------------------------------------------------------------------
(* StreamLogs *)

Moves(l, pc) == stream' = [stream EXCEPT ![l].pc = pc]

Open(l, j) ==
    /\ stream[l].pc = "none"
    /\ stream' = [stream EXCEPT ![l] = [NoStream EXCEPT !.pc = "lock", !.job = j]]
    /\ UNCHANGED <<lines, logMu, writer, logChannels, chan, live, unread, gone,
                   closed, dropped>>

LockLog(l) ==
    /\ stream[l].pc = "lock" /\ logMu = Nobody
    /\ logMu' = l
    /\ Moves(l, "replay")
    /\ UNCHANGED <<lines, writer, logChannels, chan, live, unread, gone, closed, dropped>>

\* stream.Send waits for the client to read while gRPC's window is full.
CanSend(l) == l \notin gone /\ unread[l] < Window

ReplayLine(l) ==
    /\ stream[l].pc = "replay" /\ stream[l].pos < lines[stream[l].job]
    /\ CanSend(l)
    /\ stream' = [stream EXCEPT ![l].pos = @ + 1]
    /\ unread' = [unread EXCEPT ![l] = @ + 1]
    /\ UNCHANGED <<lines, logMu, writer, logChannels, chan, live, gone, closed, dropped>>

\* The call is over; the client may make another.
Returns(l) ==
    /\ stream' = [stream EXCEPT ![l] = NoStream]
    /\ chan' = [chan EXCEPT ![l] = << >>]
    /\ live' = [live EXCEPT ![l] = << >>]
    /\ unread' = [unread EXCEPT ![l] = 0]
    /\ gone' = gone \ {l}
    /\ dropped' = [dropped EXCEPT ![l] = {}]

\* Variant: the error return leaves logMu locked.
ReplayFailsLocked(l) ==
    /\ stream[l].pc = "replay" /\ stream[l].pos < lines[stream[l].job]
    /\ l \in gone
    /\ Returns(l)
    /\ UNCHANGED <<lines, logMu, writer, logChannels, closed>>

ReplayFails(l) ==
    /\ stream[l].pc = "replay" /\ stream[l].pos < lines[stream[l].job]
    /\ l \in gone
    /\ logMu' = Nobody
    /\ Returns(l)
    /\ UNCHANGED <<lines, writer, logChannels, closed>>

\* Variant: the follower is served under the lock until its client leaves.
ReplayEndsAtHangUp(l) ==
    /\ stream[l].pc = "replay" /\ stream[l].pos = lines[stream[l].job] /\ l \in gone
    /\ logMu' = Nobody
    /\ Moves(l, "gap")
    /\ UNCHANGED <<lines, writer, logChannels, chan, live, unread, gone, closed, dropped>>

ReplayEnds(l) ==
    /\ stream[l].pc = "replay" /\ stream[l].pos = lines[stream[l].job]
    /\ logMu' = Nobody
    /\ Moves(l, "gap")
    /\ UNCHANGED <<lines, writer, logChannels, chan, live, unread, gone, closed, dropped>>

\* The channel is new.  since is history: how many lines there were by then.
Register(l) ==
    LET j == stream[l].job IN
    /\ stream[l].pc = "gap"
    /\ logChannels' = [logChannels EXCEPT ![j] = @ \cup {l}]
    /\ stream' = [stream EXCEPT ![l].pc = "listen", ![l].since = lines[j]]
    /\ closed' = closed \ {l}
    /\ UNCHANGED <<lines, logMu, writer, chan, live, unread, gone, dropped>>

\* select takes either case that is ready.
Receive(l) ==
    /\ stream[l].pc = "listen" /\ chan[l] # << >>
    /\ chan' = [chan EXCEPT ![l] = Tail(@)]
    /\ stream' = [stream EXCEPT ![l].pc = "send", ![l].held = Head(chan[l])]
    /\ UNCHANGED <<lines, logMu, writer, logChannels, live, unread, gone, closed, dropped>>

\* Variant: a line is not sent to a client that is slow.
ForwardIfQuick(l) ==
    /\ stream[l].pc = "send" /\ l \notin gone
    /\ live' = IF CanSend(l) THEN [live EXCEPT ![l] = Append(@, stream[l].held)] ELSE live
    /\ unread' = IF CanSend(l) THEN [unread EXCEPT ![l] = @ + 1] ELSE unread
    /\ stream' = [stream EXCEPT ![l].pc = "listen", ![l].held = 0]
    /\ UNCHANGED <<lines, logMu, writer, logChannels, chan, gone, closed, dropped>>

Forward(l) ==
    /\ stream[l].pc = "send" /\ CanSend(l)
    /\ live' = [live EXCEPT ![l] = Append(@, stream[l].held)]
    /\ unread' = [unread EXCEPT ![l] = @ + 1]
    /\ stream' = [stream EXCEPT ![l].pc = "listen", ![l].held = 0]
    /\ UNCHANGED <<lines, logMu, writer, logChannels, chan, gone, closed, dropped>>

\* Variant: a client that does not read is given up.
LeaveSlow(l) ==
    /\ \/ stream[l].pc \in {"listen", "send"} /\ l \in gone
       \/ stream[l].pc = "send" /\ ~CanSend(l)
    /\ Moves(l, "leave")
    /\ UNCHANGED <<lines, logMu, writer, logChannels, chan, live, unread, gone,
                   closed, dropped>>

\* Context().Done() is ready, or Send returns an error.
Leave(l) ==
    /\ stream[l].pc \in {"listen", "send"} /\ l \in gone
    /\ Moves(l, "leave")
    /\ UNCHANGED <<lines, logMu, writer, logChannels, chan, live, unread, gone,
                   closed, dropped>>

\* Variant: the channel is closed before it is taken from logChannels.
UnregisterClosed(l) ==
    /\ stream[l].pc = "leave"
    /\ closed' = closed \cup {l}
    /\ Moves(l, "close")
    /\ UNCHANGED <<lines, logMu, writer, logChannels, chan, live, unread, gone, dropped>>

Unregister(l) ==
    LET j == stream[l].job IN
    /\ stream[l].pc = "leave"
    /\ logChannels' = [logChannels EXCEPT ![j] = @ \ {l}]
    /\ Moves(l, "close")
    /\ UNCHANGED <<lines, logMu, writer, chan, live, unread, gone, closed, dropped>>

Close(l) ==
    /\ stream[l].pc = "close"
    /\ closed' = closed \cup {l}
    /\ Returns(l)
    /\ UNCHANGED <<lines, logMu, writer, logChannels>>

-----------------------------------------------------------------------------
(* The client: it reads until the user interrupts it, with or without --follow *)

Recv(l) ==
    /\ unread[l] > 0 /\ l \notin gone
    /\ unread' = [unread EXCEPT ![l] = @ - 1]
    /\ UNCHANGED <<lines, logMu, writer, stream, logChannels, chan, live, gone,
                   closed, dropped>>

HangUp(l) ==
    /\ stream[l].pc # "none" /\ l \notin gone
    /\ gone' = gone \cup {l}
    /\ UNCHANGED <<lines, logMu, writer, stream, logChannels, chan, live, unread,
                   closed, dropped>>

-----------------------------------------------------------------------------
WriterStep(w) == Store(w) \/ Notify(w)

StreamStep(l) ==
    \/ ReplayLine(l) \/ ReplayFails(l) \/ ReplayEnds(l) \/ Register(l)
    \/ Receive(l) \/ Forward(l) \/ Leave(l) \/ Unregister(l) \/ Close(l)

LogNext ==
    \/ \E w \in Writers : WriterStep(w) \/ \E j \in Jobs : Log(w, j)
    \/ \E l \in Streams : StreamStep(l) \/ LockLog(l) \/ Recv(l) \/ HangUp(l)
    \/ \E l \in Streams, j \in Jobs : Open(l, j)

LogSafety == LogInit /\ [][LogNext]_logVars

\* A goroutine that can run does; sync.Mutex hands logMu to a goroutine that
\* has waited long, hence the strong fairness.  The client's loop reads what
\* it is sent.  Nobody has to log, to open a stream or to hang up.
LogSpec ==
    /\ LogSafety
    /\ \A w \in Writers : SF_logVars(Store(w)) /\ WF_logVars(Notify(w))
    /\ \A l \in Streams :
          SF_logVars(LockLog(l)) /\ WF_logVars(StreamStep(l)) /\ WF_logVars(Recv(l))

-----------------------------------------------------------------------------
(* Properties *)

Listening(l) == stream[l].pc \in {"listen", "send"}

\* The lines that the channel of a stream has carried, in their order.
Carried(l) ==
    live[l] \o (IF stream[l].pc = "send" THEN <<stream[l].held>> ELSE << >>) \o chan[l]

OnItsWay(j, n) == \E w \in Writers : writer[w] = [pc |-> "notify", job |-> j, line |-> n]

\* A follower gets every line stored after its registration, however appendLog,
\* registration and departures interleave, but those that met a full channel.
MissedOnlyWhenFull ==
    \A l \in Streams : Listening(l) =>
       \A n \in stream[l].since + 1 .. lines[stream[l].job] :
          \/ n \in Range(Carried(l))
          \/ n \in dropped[l]
          \/ OnItsWay(stream[l].job, n)

\* No channel that appendLog may still send to is closed: StreamLogs unregisters
\* under subMu first, or a send would panic and end the master.
NoSendOnClosed ==
    \A j \in Jobs : logChannels[j] \cap closed = {}

\* A goroutine that logs goes on: the replay holds logMu while it sends, but a
\* client that reads or hangs up lets it end, and every way out unlocks.
LoggingGoesOn ==
    \A w \in Writers : writer[w].pc = "want" ~> writer[w].pc # "want"

\* What is in a follower's channel is sent to it, unless its client hangs up.
FollowerServed ==
    \A l \in Streams : \A n \in 1 .. MaxLines :
       n \in Range(chan[l]) ~> n \in Range(live[l]) \/ l \in gone

\* A follower sees every line of the job: those that it did not replay reach it
\* through its channel.
FollowerSeesAll ==
    \A l \in Streams : Listening(l) =>
       \A n \in stream[l].pos + 1 .. lines[stream[l].job] :
          n \in Range(Carried(l)) \/ OnItsWay(stream[l].job, n)

\* A follower gets the lines in the order they were stored in.
FollowerInOrder ==
    \A l \in Streams : \A i, k \in DOMAIN Carried(l) : i < k => Carried(l)[i] < Carried(l)[k]
=============================================================================
