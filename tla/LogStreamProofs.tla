-------------------------- MODULE LogStreamProofs --------------------------
(***************************************************************************)
(* Proofs about module LogStream, for any number of goroutines that log,   *)
(* of clients and of lines, and for any capacity of the channels.  The     *)
(* inductive invariant says that a channel is registered, under its job    *)
(* and nowhere else, exactly while its stream is served or leaves, and is  *)
(* open all that time.                                                     *)
(***************************************************************************)
EXTENDS LogStream, SequenceTheorems, TLAPS

Served(l) == stream[l].pc \in {"listen", "send", "leave"}

\* Whoever logs, and whoever is streamed to, has a job.
JobsGiven ==
    /\ \A w \in Writers : writer[w].pc # "idle" => writer[w].job \in Jobs
    /\ \A l \in Streams : stream[l].pc # "none" => stream[l].job \in Jobs

\* logChannels is what Register and Unregister made it.
ChannelsServed ==
    /\ \A l \in Streams, j \in Jobs :
          l \in logChannels[j] => Served(l) /\ stream[l].job = j
    /\ \A l \in Streams : Served(l) => l \in logChannels[stream[l].job] /\ l \notin closed

Registered == LogTypeOK /\ JobsGiven /\ ChannelsServed

-----------------------------------------------------------------------------
(* Lines of a channel *)

\* The range of a sequence made of two.
LEMMA RangeConcat ==
  ASSUME NEW s \in Seq(Nat), NEW t \in Seq(Nat)
  PROVE  Range(s \o t) = Range(s) \cup Range(t)
<1> DEFINE u == s \o t
<1>1. /\ u \in Seq(Nat) /\ Len(u) = Len(s) + Len(t)
      /\ \A i \in 1 .. Len(s) + Len(t) : u[i] = IF i <= Len(s) THEN s[i] ELSE t[i - Len(s)]
  BY ConcatProperties
<1>2. /\ DOMAIN u = 1 .. Len(s) + Len(t) /\ DOMAIN s = 1 .. Len(s) /\ DOMAIN t = 1 .. Len(t)
      /\ Len(s) \in Nat /\ Len(t) \in Nat
  BY <1>1
<1> HIDE DEF u
<1>3. ASSUME NEW i \in DOMAIN u PROVE u[i] \in Range(s) \cup Range(t)
  <2>1. CASE i <= Len(s)
    BY <1>1, <1>2, <2>1 DEF Range
  <2>2. CASE ~(i <= Len(s))
    <3>1. i - Len(s) \in 1 .. Len(t) /\ u[i] = t[i - Len(s)]
      BY <1>1, <1>2, <2>2
    <3> QED
      BY <1>2, <3>1 DEF Range
  <2> QED
    BY <2>1, <2>2
<1>4. ASSUME NEW i \in DOMAIN s PROVE s[i] \in Range(u)
  <2>1. i \in DOMAIN u /\ u[i] = s[i]
    BY <1>1, <1>2
  <2> QED
    BY <2>1 DEF Range
<1>5. ASSUME NEW i \in DOMAIN t PROVE t[i] \in Range(u)
  <2>1. PICK k \in Nat : k = i + Len(s)
    BY <1>2
  <2>2. k \in 1 .. Len(s) + Len(t) /\ ~(k <= Len(s)) /\ k - Len(s) = i
    BY <1>2, <2>1
  <2>3. k \in DOMAIN u /\ u[k] = t[i]
    BY <1>1, <1>2, <2>2
  <2> QED
    BY <2>3 DEF Range
<1>6. Range(u) = Range(s) \cup Range(t)
  BY <1>3, <1>4, <1>5 DEF Range
<1> QED
  BY <1>6 DEF u

LEMMA RangeOne ==
  ASSUME NEW n \in Nat
  PROVE  <<n>> \in Seq(Nat) /\ Range(<<n>>) = {n} /\ Range(<< >>) = {}
<1>1. <<n>> \in Seq(Nat) /\ DOMAIN <<n>> = {1} /\ <<n>>[1] = n
  OBVIOUS
<1>2. DOMAIN << >> = {}
  OBVIOUS
<1> QED
  BY <1>1, <1>2 DEF Range

LEMMA RangeAppend ==
  ASSUME NEW s \in Seq(Nat), NEW n \in Nat
  PROVE  Append(s, n) \in Seq(Nat) /\ Range(Append(s, n)) = Range(s) \cup {n}
<1>1. Append(s, n) = s \o <<n>> /\ Append(s, n) \in Seq(Nat)
  BY AppendIsConcat, AppendProperties
<1>2. <<n>> \in Seq(Nat) /\ Range(<<n>>) = {n}
  BY RangeOne
<1> PICK t \in Seq(Nat) : t = <<n>>
  BY <1>2
<1>3. Range(s \o t) = Range(s) \cup Range(t)
  BY RangeConcat
<1> QED
  BY <1>1, <1>2, <1>3

LEMMA RangeHeadTail ==
  ASSUME NEW s \in Seq(Nat), s # << >>
  PROVE  /\ Head(s) \in Nat /\ Tail(s) \in Seq(Nat) /\ Len(Tail(s)) = Len(s) - 1
         /\ Range(s) = {Head(s)} \cup Range(Tail(s))
<1>1. /\ Head(s) \in Nat /\ Tail(s) \in Seq(Nat) /\ Len(Tail(s)) = Len(s) - 1
      /\ \A i \in 1 .. Len(Tail(s)) : Tail(s)[i] = s[i + 1]
  BY HeadTailProperties
<1>2. Len(s) \in Nat /\ Len(s) # 0 /\ DOMAIN s = 1 .. Len(s) /\ Head(s) = s[1]
  BY EmptySeq
<1>3. DOMAIN Tail(s) = 1 .. Len(s) - 1
  BY <1>1
<1>4. ASSUME NEW i \in DOMAIN s PROVE s[i] \in {Head(s)} \cup Range(Tail(s))
  <2>1. CASE i = 1
    BY <1>2, <2>1
  <2>2. CASE i # 1
    <3>1. i - 1 \in DOMAIN Tail(s) /\ (i - 1) + 1 = i
      BY <1>2, <1>3, <2>2
    <3>2. Tail(s)[i - 1] = s[i]
      BY <1>1, <1>3, <3>1
    <3> QED
      BY <3>1, <3>2 DEF Range
  <2> QED
    BY <2>1, <2>2
<1>5. ASSUME NEW i \in DOMAIN Tail(s) PROVE Tail(s)[i] \in Range(s)
  <2>1. i + 1 \in DOMAIN s /\ Tail(s)[i] = s[i + 1]
    BY <1>1, <1>2, <1>3
  <2> QED
    BY <2>1 DEF Range
<1>6. Head(s) \in Range(s)
  BY <1>2 DEF Range
<1> QED
  BY <1>1, <1>4, <1>5, <1>6 DEF Range

\* Where a line that a channel has carried can be.
CarriedParts ==
    \A l \in Streams :
       Range(Carried(l)) = Range(live[l]) \cup Range(chan[l])
                           \cup (IF stream[l].pc = "send" THEN {stream[l].held} ELSE {})

LEMMA CarriedIs == LogTypeOK => CarriedParts
<1> SUFFICES ASSUME LogTypeOK, NEW l \in Streams
             PROVE  Range(Carried(l)) =
                       Range(live[l]) \cup Range(chan[l])
                       \cup (IF stream[l].pc = "send" THEN {stream[l].held} ELSE {})
  BY DEF CarriedParts
<1>1. /\ live[l] \in Seq(Nat) /\ chan[l] \in Seq(Nat) /\ stream[l].held \in Nat
      /\ << >> \in Seq(Nat)
  BY DEF LogTypeOK
<1> DEFINE held == IF stream[l].pc = "send" THEN <<stream[l].held>> ELSE << >>
<1>2. held \in Seq(Nat)
  BY <1>1, RangeOne
<1>3. Range(held) = IF stream[l].pc = "send" THEN {stream[l].held} ELSE {}
  BY <1>1, RangeOne
<1> DEFINE front == live[l] \o held
<1> HIDE DEF held
<1>4. front \in Seq(Nat)
  BY <1>1, <1>2, ConcatProperties
<1>5. Range(front) = Range(live[l]) \cup Range(held)
  BY <1>1, <1>2, RangeConcat
<1> HIDE DEF front
<1>6. Range(front \o chan[l]) = Range(front) \cup Range(chan[l])
  BY <1>1, <1>4, RangeConcat
<1>7. Carried(l) = front \o chan[l]
  BY DEF Carried, held, front
<1> QED
  BY <1>3, <1>5, <1>6, <1>7

LEMMA CarriedIsAfter == LogTypeOK' => CarriedParts'
  BY CarriedIs, PTL

-----------------------------------------------------------------------------
(* Registered is inductive *)

LEMMA RegisteredInit == LogInit => Registered
<1> SUFFICES ASSUME LogInit PROVE Registered
  OBVIOUS
<1> USE DEF LogInit
<1>1. LogTypeOK
  BY LogAssumption DEF LogTypeOK, IdleWriter, NoStream, WriterStates, StreamStates
<1>2. JobsGiven /\ ChannelsServed
  BY DEF JobsGiven, ChannelsServed, Served, IdleWriter, NoStream
<1> QED
  BY <1>1, <1>2 DEF Registered

LEMMA WritersKeepRegistered ==
  ASSUME Registered, NEW w \in Writers, WriterStep(w) \/ \E j \in Jobs : Log(w, j)
  PROVE  Registered'
<1> USE DEF Registered
<1>1. ASSUME NEW j \in Jobs, Log(w, j) PROVE Registered'
  <2> USE <1>1 DEF Log
  <2>1. LogTypeOK'
    BY DEF LogTypeOK, WriterStates
  <2>2. JobsGiven' /\ ChannelsServed'
    BY DEF LogTypeOK, JobsGiven, ChannelsServed, Served
  <2> QED
    BY <2>1, <2>2
<1>2. CASE Store(w)
  <2>0. /\ writer[w].pc = "want" /\ writer[w].job \in Jobs
        /\ writer \in [Writers -> [pc : WriterStates, job : Jobs \cup {NoJob}, line : Nat]]
        /\ lines \in [Jobs -> Nat]
    BY <1>2 DEF Store, JobsGiven, LogTypeOK
  <2> DEFINE n == lines[writer[w].job] + 1
             r == [writer[w] EXCEPT !.pc = "notify", !.line = n]
  <2>1. writer' = [writer EXCEPT ![w] = r]
    BY <1>2 DEF Store
  <2>2. r \in [pc : WriterStates, job : Jobs \cup {NoJob}, line : Nat] /\ r.job \in Jobs
    <3>1. n \in Nat /\ writer[w] \in [pc : WriterStates, job : Jobs \cup {NoJob}, line : Nat]
      BY <2>0
    <3> HIDE DEF n
    <3> QED
      BY <2>0, <3>1 DEF WriterStates
  <2> HIDE DEF r
  <2>3. LogTypeOK'
    <3>1. lines' \in [Jobs -> Nat]
      BY <1>2, <2>0 DEF Store
    <3>2. writer' \in [Writers -> [pc : WriterStates, job : Jobs \cup {NoJob}, line : Nat]]
      BY <2>0, <2>1, <2>2
    <3>3. UNCHANGED <<logMu, stream, logChannels, chan, live, unread, gone, closed, dropped>>
      BY <1>2 DEF Store
    <3> QED
      BY <3>1, <3>2, <3>3 DEF LogTypeOK
  <2>4. JobsGiven' /\ ChannelsServed'
    BY <1>2, <2>0, <2>1, <2>2 DEF Store, JobsGiven, ChannelsServed, Served
  <2> QED
    BY <2>3, <2>4
<1>3. CASE Notify(w)
  <2> USE <1>3 DEF Notify
  <2> DEFINE n == writer[w].line
  <2>0. n \in Nat /\ IdleWriter \in [pc : WriterStates, job : Jobs \cup {NoJob}, line : Nat]
    BY DEF LogTypeOK, IdleWriter, WriterStates
  <2>1. ASSUME NEW l \in Streams
        PROVE  /\ chan'[l] \in Seq(Nat) /\ Len(chan'[l]) <= ChanCap
               /\ dropped'[l] \in SUBSET Nat
    <3>1. chan[l] \in Seq(Nat) /\ Len(chan[l]) <= ChanCap /\ dropped[l] \in SUBSET Nat
      BY DEF LogTypeOK
    <3>2. chan'[l] = chan[l] \/ (Len(chan[l]) < ChanCap /\ chan'[l] = Append(chan[l], n))
      BY DEF Offer, HasRoom
    <3>3. dropped'[l] = dropped[l] \/ dropped'[l] = dropped[l] \cup {n}
      BY DEF Offer
    <3>4. Append(chan[l], n) \in Seq(Nat) /\ Len(Append(chan[l], n)) = Len(chan[l]) + 1
      BY <2>0, <3>1, AppendProperties
    <3>5. Len(chan[l]) \in Nat /\ ChanCap \in Nat
      BY <3>1, LogAssumption
    <3>6. dropped'[l] \in SUBSET Nat
      BY <2>0, <3>1, <3>3
    <3>7. chan'[l] \in Seq(Nat) /\ Len(chan'[l]) <= ChanCap
      <4> DEFINE a == Append(chan[l], n)
      <4> HIDE DEF Notify, a
      <4>1. CASE chan'[l] = chan[l]
        BY <3>1, <4>1
      <4>2. CASE Len(chan[l]) < ChanCap /\ chan'[l] = a
        BY <3>4, <3>5, <4>2 DEF a
      <4> QED
        BY <3>2, <4>1, <4>2 DEF a
    <3> QED
      BY <3>6, <3>7
  <2>2. chan' \in [Streams -> Seq(Nat)] /\ dropped' \in [Streams -> SUBSET Nat]
    <3> DEFINE e(l) == IF l \in logChannels[writer[w].job] /\ HasRoom(l)
                       THEN Append(chan[l], n) ELSE chan[l]
    <3>1. chan' = [l \in Streams |-> e(l)]
      BY DEF Offer
    <3>2. \A l \in Streams : e(l) \in Seq(Nat)
      BY <2>1, <3>1
    <3> HIDE DEF e
    <3>3. chan' \in [Streams -> Seq(Nat)]
      BY <3>1, <3>2
    <3>4. dropped' \in [Streams -> SUBSET Nat]
      BY <2>1 DEF Offer
    <3> QED
      BY <3>3, <3>4
  <2>3. LogTypeOK'
    BY <2>0, <2>1, <2>2 DEF LogTypeOK
  <2>4. JobsGiven' /\ ChannelsServed'
    BY DEF LogTypeOK, JobsGiven, ChannelsServed, Served, IdleWriter
  <2> QED
    BY <2>3, <2>4
<1> QED
  BY <1>1, <1>2, <1>3 DEF WriterStep

StreamRecords == [pc : StreamStates, job : Jobs \cup {NoJob}, pos : Nat, since : Nat, held : Nat]

\* What the streams have of their own.
StreamDataOK ==
    /\ chan \in [Streams -> Seq(Nat)] /\ \A l \in Streams : Len(chan[l]) <= ChanCap
    /\ live \in [Streams -> Seq(Nat)]
    /\ unread \in [Streams -> 0 .. Window]
    /\ gone \in SUBSET Streams
    /\ dropped \in [Streams -> SUBSET Nat]

\* What a step of one stream must do to keep Registered.
LEMMA StreamEffect ==
  ASSUME Registered, NEW l \in Streams, NEW r \in StreamRecords,
         stream' = [stream EXCEPT ![l] = r],
         r.pc # "none" => r.job \in Jobs,
         writer' = writer, lines' = lines,
         logMu' \in Streams \cup {Nobody}, logMu' = l <=> r.pc = "replay",
         \A m \in Streams \ {l} : logMu' = m <=> logMu = m,
         logChannels' \in [Jobs -> SUBSET Streams], closed' \subseteq Streams,
         \A m \in Streams \ {l} :
            /\ m \in closed' <=> m \in closed
            /\ \A j \in Jobs : m \in logChannels'[j] <=> m \in logChannels[j],
         \A j \in Jobs : l \in logChannels'[j] <=>
                            r.pc \in {"listen", "send", "leave"} /\ r.job = j,
         r.pc \in {"listen", "send", "leave"} => l \notin closed',
         StreamDataOK'
  PROVE  Registered'
<1> USE DEF Registered
<1>1. /\ stream \in [Streams -> StreamRecords] /\ stream' \in [Streams -> StreamRecords]
      /\ stream'[l] = r /\ \A m \in Streams \ {l} : stream'[m] = stream[m]
  BY DEF LogTypeOK, StreamRecords
<1>2. LogTypeOK'
  <2>1. \A m \in Streams : logMu' = m <=> stream'[m].pc = "replay"
    <3>1. \A m \in Streams : logMu = m <=> stream[m].pc = "replay"
      BY DEF LogTypeOK
    <3> QED
      BY <1>1, <3>1
  <2> QED
    BY <1>1, <2>1 DEF LogTypeOK, StreamRecords, StreamDataOK
<1>3. JobsGiven'
  BY <1>1 DEF JobsGiven
<1>4. ChannelsServed'
  BY <1>1 DEF ChannelsServed, Served, JobsGiven
<1> QED
  BY <1>2, <1>3, <1>4

LEMMA StreamsKeepRegistered ==
  ASSUME Registered, NEW l \in Streams,
         \/ StreamStep(l) \/ LockLog(l) \/ Recv(l) \/ HangUp(l)
         \/ \E j \in Jobs : Open(l, j)
  PROVE  Registered'
<1> USE DEF Registered, Moves
<1> DEFINE s == stream[l]
<1>0. /\ s \in StreamRecords /\ (s.pc # "none" => s.job \in Jobs) /\ StreamDataOK
      /\ closed \subseteq Streams /\ logChannels \in [Jobs -> SUBSET Streams]
      /\ logMu \in Streams \cup {Nobody} /\ (logMu = l <=> s.pc = "replay")
  BY DEF JobsGiven, LogTypeOK, StreamDataOK, StreamRecords
<1>1. /\ \A j \in Jobs : l \in logChannels[j] <=>
                            s.pc \in {"listen", "send", "leave"} /\ s.job = j
      /\ s.pc \in {"listen", "send", "leave"} => l \notin closed
  BY <1>0 DEF ChannelsServed, Served
<1>2. NoStream \in StreamRecords /\ NoStream.pc = "none" /\ Nobody \notin Streams
  BY LogAssumption DEF NoStream, StreamStates, StreamRecords
<1>3. ASSUME NEW j \in Jobs, Open(l, j) PROVE Registered'
  <2> DEFINE r == [NoStream EXCEPT !.pc = "lock", !.job = j]
  <2>1. r \in StreamRecords /\ r.pc = "lock" /\ r.job = j
    BY DEF NoStream, StreamStates, StreamRecords
  <2>2. StreamDataOK'
    BY <1>0, <1>3 DEF Open, StreamDataOK
  <2>3. stream' = [stream EXCEPT ![l] = r]
    BY <1>3 DEF Open
  <2> HIDE DEF r
  <2> QED
    BY <1>0, <1>1, <1>2, <1>3, <2>1, <2>2, <2>3, StreamEffect DEF Open
<1>4. CASE LockLog(l)
  <2> DEFINE r == [s EXCEPT !.pc = "replay"]
  <2>1. r \in StreamRecords /\ r.pc = "replay" /\ r.job = s.job
    BY <1>0 DEF StreamStates, StreamRecords
  <2>2. StreamDataOK'
    BY <1>0, <1>4 DEF LockLog, StreamDataOK
  <2>3. stream' = [stream EXCEPT ![l] = r]
    BY <1>4 DEF LockLog
  <2> HIDE DEF r
  <2> QED
    BY <1>0, <1>1, <1>2, <1>4, <2>1, <2>2, <2>3, StreamEffect DEF LockLog
<1>5. CASE ReplayLine(l)
  <2> DEFINE r == [s EXCEPT !.pos = @ + 1]
  <2>1. r \in StreamRecords /\ r.pc = s.pc /\ r.job = s.job
    BY <1>0 DEF StreamStates, StreamRecords
  <2>2. StreamDataOK'
    BY <1>0, <1>5, LogAssumption DEF ReplayLine, CanSend, StreamDataOK
  <2>3. stream' = [stream EXCEPT ![l] = r]
    BY <1>5 DEF ReplayLine
  <2> HIDE DEF r
  <2> QED
    BY <1>0, <1>1, <1>2, <1>5, <2>1, <2>2, <2>3, StreamEffect DEF ReplayLine
<1>6. CASE ReplayFails(l)
  <2>1. StreamDataOK'
    BY <1>0, <1>6, LogAssumption DEF ReplayFails, Returns, StreamDataOK
  <2>2. stream' = [stream EXCEPT ![l] = NoStream]
    BY <1>6 DEF ReplayFails, Returns
  <2> QED
    BY <1>0, <1>1, <1>2, <1>6, <2>1, <2>2, StreamEffect DEF ReplayFails
<1>7. CASE ReplayEnds(l)
  <2> DEFINE r == [s EXCEPT !.pc = "gap"]
  <2>1. r \in StreamRecords /\ r.pc = "gap" /\ r.job = s.job
    BY <1>0 DEF StreamStates, StreamRecords
  <2>2. StreamDataOK'
    BY <1>0, <1>7 DEF ReplayEnds, StreamDataOK
  <2>3. stream' = [stream EXCEPT ![l] = r]
    BY <1>7 DEF ReplayEnds
  <2> HIDE DEF r
  <2> QED
    BY <1>0, <1>1, <1>2, <1>7, <2>1, <2>2, <2>3, StreamEffect DEF ReplayEnds
<1>8. CASE Register(l)
  <2> DEFINE r == [s EXCEPT !.pc = "listen", !.since = lines[s.job]]
  <2>0. lines[s.job] \in Nat
    BY <1>0, <1>8 DEF Register, LogTypeOK
  <2>1. r \in StreamRecords /\ r.pc = "listen" /\ r.job = s.job
    BY <1>0, <2>0 DEF StreamStates, StreamRecords
  <2>2. StreamDataOK'
    BY <1>0, <1>8 DEF Register, StreamDataOK
  <2>3. stream' = [stream EXCEPT ![l] = r]
    BY <1>8 DEF Register
  <2> HIDE DEF r
  <2> QED
    <3>1. /\ writer' = writer /\ lines' = lines /\ logMu' = logMu /\ closed' = closed \ {l}
          /\ s.pc = "gap" /\ s.job \in Jobs
          /\ logChannels' = [logChannels EXCEPT ![s.job] = @ \cup {l}]
      BY <1>0, <1>8 DEF Register
    <3>2. /\ logChannels' \in [Jobs -> SUBSET Streams]
          /\ \A j \in Jobs : l \in logChannels'[j] <=> s.job = j
          /\ \A m \in Streams \ {l}, j \in Jobs : m \in logChannels'[j] <=> m \in logChannels[j]
      BY <1>0, <1>1, <3>1
    <3>3. /\ r.job \in Jobs /\ closed' \subseteq Streams /\ logMu' \in Streams \cup {Nobody}
          /\ (logMu' = l <=> r.pc = "replay") /\ l \notin closed'
          /\ \A m \in Streams \ {l} : logMu' = m <=> logMu = m
          /\ \A m \in Streams \ {l} :
                /\ m \in closed' <=> m \in closed
                /\ \A j \in Jobs : m \in logChannels'[j] <=> m \in logChannels[j]
      BY <1>0, <2>1, <3>1, <3>2
    <3>4. \A j \in Jobs : l \in logChannels'[j] <=>
                            r.pc \in {"listen", "send", "leave"} /\ r.job = j
      BY <2>1, <3>2
    <3>5. writer' = writer /\ lines' = lines /\ logChannels' \in [Jobs -> SUBSET Streams]
      BY <3>1, <3>2
    <3> HIDE DEF s, Registered
    <3> QED
      BY <2>1, <2>2, <2>3, <3>3, <3>4, <3>5, StreamEffect, ZenonT(60)
<1>9. CASE Receive(l)
  <2> DEFINE r == [s EXCEPT !.pc = "send", !.held = Head(chan[l])]
  <2>0. /\ chan[l] \in Seq(Nat) /\ Head(chan[l]) \in Nat /\ Tail(chan[l]) \in Seq(Nat)
        /\ Len(Tail(chan[l])) <= ChanCap
    BY <1>9, RangeHeadTail, LogAssumption DEF LogTypeOK, Receive
  <2>1. r \in StreamRecords /\ r.pc = "send" /\ r.job = s.job
    BY <1>0, <2>0 DEF StreamStates, StreamRecords
  <2>2. StreamDataOK'
    BY <1>0, <1>9, <2>0 DEF Receive, StreamDataOK
  <2>3. stream' = [stream EXCEPT ![l] = r]
    BY <1>9 DEF Receive
  <2> HIDE DEF r
  <2>4. /\ writer' = writer /\ lines' = lines /\ logMu' = logMu /\ closed' = closed
        /\ logChannels' = logChannels /\ s.pc \in {"listen", "send"}
    BY <1>9 DEF Receive
  <2> QED
    BY <1>0, <1>1, <2>1, <2>2, <2>3, <2>4, StreamEffect
<1>10. CASE Forward(l)
  <2> DEFINE r == [s EXCEPT !.pc = "listen", !.held = 0]
  <2>0. live[l] \in Seq(Nat) /\ Append(live[l], s.held) \in Seq(Nat)
    BY <1>0, RangeAppend DEF LogTypeOK, StreamRecords
  <2>1. r \in StreamRecords /\ r.pc = "listen" /\ r.job = s.job
    BY <1>0 DEF StreamStates, StreamRecords
  <2>2. StreamDataOK'
    <3>1. /\ live' = [live EXCEPT ![l] = Append(live[l], s.held)]
          /\ unread' = [unread EXCEPT ![l] = @ + 1] /\ unread[l] < Window
          /\ UNCHANGED <<chan, gone, dropped>>
      BY <1>10 DEF Forward, CanSend
    <3>2. live' \in [Streams -> Seq(Nat)]
      BY <1>0, <2>0, <3>1 DEF StreamDataOK
    <3>3. unread' \in [Streams -> 0 .. Window]
      BY <1>0, <3>1, LogAssumption DEF StreamDataOK
    <3> QED
      BY <1>0, <3>1, <3>2, <3>3 DEF StreamDataOK
  <2>3. stream' = [stream EXCEPT ![l] = r]
    BY <1>10 DEF Forward
  <2> HIDE DEF r
  <2>4. /\ writer' = writer /\ lines' = lines /\ logMu' = logMu /\ closed' = closed
        /\ logChannels' = logChannels /\ s.pc \in {"listen", "send"}
    BY <1>10 DEF Forward
  <2> QED
    BY <1>0, <1>1, <2>1, <2>2, <2>3, <2>4, StreamEffect
<1>11. CASE Leave(l)
  <2> DEFINE r == [s EXCEPT !.pc = "leave"]
  <2>1. r \in StreamRecords /\ r.pc = "leave" /\ r.job = s.job
    BY <1>0 DEF StreamStates, StreamRecords
  <2>2. StreamDataOK'
    BY <1>0, <1>11 DEF Leave, StreamDataOK
  <2>3. stream' = [stream EXCEPT ![l] = r]
    BY <1>11 DEF Leave
  <2> HIDE DEF r
  <2>4. /\ writer' = writer /\ lines' = lines /\ logMu' = logMu /\ closed' = closed
        /\ logChannels' = logChannels /\ s.pc \in {"listen", "send"}
    BY <1>11 DEF Leave
  <2> QED
    BY <1>0, <1>1, <2>1, <2>2, <2>3, <2>4, StreamEffect
<1>12. CASE Unregister(l)
  <2> DEFINE r == [s EXCEPT !.pc = "close"]
  <2>1. r \in StreamRecords /\ r.pc = "close" /\ r.job = s.job
    BY <1>0 DEF StreamStates, StreamRecords
  <2>2. StreamDataOK'
    BY <1>0, <1>12 DEF Unregister, StreamDataOK
  <2>3. stream' = [stream EXCEPT ![l] = r]
    BY <1>12 DEF Unregister
  <2> HIDE DEF r
  <2> QED
    <3>1. /\ writer' = writer /\ lines' = lines /\ logMu' = logMu /\ closed' = closed
          /\ s.pc = "leave" /\ s.job \in Jobs
          /\ logChannels' = [logChannels EXCEPT ![s.job] = @ \ {l}]
      BY <1>0, <1>12 DEF Unregister
    <3>2. /\ logChannels' \in [Jobs -> SUBSET Streams]
          /\ \A j \in Jobs : l \notin logChannels'[j]
          /\ \A m \in Streams \ {l}, j \in Jobs : m \in logChannels'[j] <=> m \in logChannels[j]
      BY <1>0, <1>1, <3>1
    <3> HIDE DEF s, Registered
    <3> QED
      BY <1>0, <2>1, <2>2, <2>3, <3>1, <3>2, StreamEffect
<1>13. CASE Close(l)
  <2>1. StreamDataOK'
    BY <1>0, <1>13, LogAssumption DEF Close, Returns, StreamDataOK
  <2>2. stream' = [stream EXCEPT ![l] = NoStream]
    BY <1>13 DEF Close, Returns
  <2> QED
    BY <1>0, <1>1, <1>2, <1>13, <2>1, <2>2, StreamEffect DEF Close
<1>14. CASE Recv(l) \/ HangUp(l)
  <2>0. StreamDataOK'
    <3>1. CASE Recv(l)
      BY <1>0, <3>1, LogAssumption DEF Recv, StreamDataOK
    <3>2. CASE HangUp(l)
      BY <1>0, <3>2 DEF HangUp, StreamDataOK
    <3> QED
      BY <1>14, <3>1, <3>2
  <2>1. LogTypeOK'
    BY <1>14, <2>0 DEF Recv, HangUp, LogTypeOK, StreamDataOK
  <2>2. JobsGiven' /\ ChannelsServed'
    BY <1>14 DEF Recv, HangUp, JobsGiven, ChannelsServed, Served
  <2> QED
    BY <2>1, <2>2
<1> QED
  BY <1>3, <1>4, <1>5, <1>6, <1>7, <1>8, <1>9, <1>10, <1>11, <1>12, <1>13, <1>14
     DEF StreamStep

LEMMA RegisteredNext == Registered /\ [LogNext]_logVars => Registered'
<1> SUFFICES ASSUME Registered, [LogNext]_logVars PROVE Registered'
  OBVIOUS
<1>1. CASE LogNext
  BY <1>1, WritersKeepRegistered, StreamsKeepRegistered DEF LogNext
<1>2. CASE UNCHANGED logVars
  BY <1>2 DEF logVars, Registered, LogTypeOK, JobsGiven, ChannelsServed, Served
<1> QED
  BY <1>1, <1>2

\* Any number of clients may come, stall and leave: the state is well typed,
\* and only the stream that replays holds logMu (StreamLogs).
THEOREM LogTypeCorrect == LogSafety => []LogTypeOK
<1>1. Registered => LogTypeOK
  BY DEF Registered
<1> QED
  BY <1>1, RegisteredInit, RegisteredNext, PTL DEF LogSafety

\* appendLog never sends on a closed channel: the deferred function of
\* StreamLogs closes a channel only after it took it from logChannels.
THEOREM ClosedAreUnregistered == LogSafety => []NoSendOnClosed
<1>1. Registered => NoSendOnClosed
  BY DEF Registered, LogTypeOK, ChannelsServed, NoSendOnClosed
<1> QED
  BY <1>1, RegisteredInit, RegisteredNext, PTL DEF LogSafety

-----------------------------------------------------------------------------
(* MissedOnlyWhenFull *)

\* A line that a follower has had, will have, or missed because of a full channel.
Accounted(l, n) ==
    n \in Range(Carried(l)) \/ n \in dropped[l] \/ OnItsWay(stream[l].job, n)

\* A step that stores no line and takes none back keeps what is accounted for.
LEMMA StillAccounted ==
  ASSUME Registered, Registered', MissedOnlyWhenFull, lines' = lines,
         \A l \in Streams : Listening(l)' =>
            \/ stream'[l].since = lines[stream'[l].job]
            \/ /\ Listening(l) /\ stream'[l].job = stream[l].job
               /\ stream'[l].since = stream[l].since
               /\ \A n \in Nat : Accounted(l, n) => Accounted(l, n)'
  PROVE  MissedOnlyWhenFull'
<1> SUFFICES ASSUME NEW l \in Streams, Listening(l)',
                    NEW n \in stream'[l].since + 1 .. lines[stream'[l].job]
             PROVE  Accounted(l, n)'
  BY DEF MissedOnlyWhenFull, Accounted
<1>1. /\ stream'[l].since \in Nat /\ stream'[l].job \in Jobs /\ lines[stream'[l].job] \in Nat
      /\ n \in Nat
  BY DEF Registered, LogTypeOK, JobsGiven, Listening
<1>2. CASE stream'[l].since = lines[stream'[l].job]
  BY <1>1, <1>2
<1>3. CASE /\ Listening(l) /\ stream'[l].job = stream[l].job
           /\ stream'[l].since = stream[l].since
           /\ \A m \in Nat : Accounted(l, m) => Accounted(l, m)'
  BY <1>1, <1>3 DEF MissedOnlyWhenFull, Accounted
<1> QED
  BY <1>2, <1>3

\* Store stores a line that is on its way to the channels from then on.
LEMMA StoreAccounts ==
  ASSUME Registered, Registered', MissedOnlyWhenFull, NEW w \in Writers, Store(w)
  PROVE  MissedOnlyWhenFull'
<1>0. writer[w].job \in Jobs /\ lines \in [Jobs -> Nat] /\ lines[writer[w].job] + 1 \in Nat
  BY DEF Store, Registered, LogTypeOK, JobsGiven
<1> PICK j \in Jobs, k \in Nat : j = writer[w].job /\ k = lines[j] + 1
  BY <1>0
<1>1. /\ lines' = [lines EXCEPT ![j] = k] /\ writer[w].pc = "want"
      /\ UNCHANGED <<stream, chan, live, dropped>>
  BY DEF Store
<1>2. writer'[w] = [pc |-> "notify", job |-> j, line |-> k]
  <2>1. writer[w] \in [pc : WriterStates, job : Jobs \cup {NoJob}, line : Nat]
    BY DEF Registered, LogTypeOK
  <2>2. writer'[w] = [writer[w] EXCEPT !.pc = "notify", !.line = k]
    BY DEF Store, Registered, LogTypeOK
  <2> QED
    BY <2>1, <2>2
<1>3. \A x \in Writers \ {w} : writer'[x] = writer[x]
  BY DEF Store, Registered, LogTypeOK
<1>4. \A i \in Jobs, n \in Nat : OnItsWay(i, n) => OnItsWay(i, n)'
  BY <1>1, <1>3 DEF OnItsWay
<1>5. OnItsWay(j, k)'
  BY <1>2 DEF OnItsWay
<1> SUFFICES ASSUME NEW l \in Streams, Listening(l),
                    NEW n \in stream[l].since + 1 .. lines'[stream[l].job]
             PROVE  \/ n \in Range(Carried(l)) \/ n \in dropped[l]
                    \/ OnItsWay(stream[l].job, n)'
  BY <1>1 DEF MissedOnlyWhenFull, Listening, Carried
<1>6. stream[l].since \in Nat /\ stream[l].job \in Jobs /\ lines[j] \in Nat
  BY <1>0 DEF Registered, LogTypeOK, JobsGiven, Listening
<1>7. CASE stream[l].job = j /\ n = k
  BY <1>1, <1>5, <1>7
<1>8. CASE ~(stream[l].job = j /\ n = k)
  <2>1. n \in stream[l].since + 1 .. lines[stream[l].job] /\ n \in Nat
    BY <1>0, <1>1, <1>6, <1>8
  <2>2. OnItsWay(stream[l].job, n) => OnItsWay(stream[l].job, n)'
    BY <1>1, <1>4, <1>6, <2>1
  <2> QED
    BY <2>1, <2>2 DEF MissedOnlyWhenFull
<1> QED
  BY <1>7, <1>8

\* Notify hands a line to every stream that is registered, or drops it.
LEMMA NotifyAccounts ==
  ASSUME Registered, Registered', MissedOnlyWhenFull, NEW w \in Writers, Notify(w)
  PROVE  MissedOnlyWhenFull'
<1> DEFINE j == writer[w].job
           k == writer[w].line
<1>1. /\ j \in Jobs /\ k \in Nat /\ UNCHANGED <<lines, stream, live>>
      /\ \A x \in Writers \ {w} : writer'[x] = writer[x]
  BY DEF Notify, Registered, LogTypeOK, JobsGiven
<1>2. ASSUME NEW l \in Streams
      PROVE  /\ chan'[l] = IF l \in logChannels[j] /\ HasRoom(l)
                           THEN Append(chan[l], k) ELSE chan[l]
             /\ dropped'[l] = IF l \in logChannels[j] /\ ~HasRoom(l)
                              THEN dropped[l] \cup {k} ELSE dropped[l]
  BY DEF Notify, Offer
<1> HIDE DEF j, k
<1>3. ASSUME NEW l \in Streams, Listening(l), NEW n \in Nat, Accounted(l, n)
      PROVE  Accounted(l, n)'
  <2>1. chan[l] \in Seq(Nat)
    BY DEF Registered, LogTypeOK
  <2>2. Range(Append(chan[l], k)) = Range(chan[l]) \cup {k}
    BY <1>1, <2>1, RangeAppend
  <2>3. /\ Range(chan[l]) \subseteq Range(chan'[l]) /\ dropped[l] \subseteq dropped'[l]
        /\ l \in logChannels[j] => k \in Range(chan'[l]) \cup dropped'[l]
    BY <1>2, <2>2
  <2>4. Range(Carried(l)) \cup Range(chan'[l]) \subseteq Range(Carried(l))'
    BY <1>1, <2>3, CarriedIs, CarriedIsAfter DEF Registered, CarriedParts
  <2>5. CASE OnItsWay(stream[l].job, n)
    <3>1. PICK x \in Writers : writer[x] = [pc |-> "notify", job |-> stream[l].job, line |-> n]
      BY <2>5 DEF OnItsWay
    <3>2. CASE x # w
      BY <1>1, <3>1, <3>2 DEF Accounted, OnItsWay
    <3>3. CASE x = w
      <4>1. k = n /\ j = stream[l].job
        BY <3>1, <3>3 DEF k, j
      <4>2. l \in logChannels[j]
        BY <1>3, <4>1 DEF Registered, ChannelsServed, Served, Listening
      <4> QED
        BY <2>3, <2>4, <4>1, <4>2 DEF Accounted
    <3> QED
      BY <3>2, <3>3
  <2>6. CASE n \in Range(Carried(l)) \/ n \in dropped[l]
    BY <2>3, <2>4, <2>6 DEF Accounted
  <2> QED
    BY <1>3, <2>5, <2>6 DEF Accounted
<1> QED
  BY <1>1, <1>3, StillAccounted DEF Listening

\* Steps of one stream, seen from the others.
LEMMA OthersAccounted ==
  ASSUME NEW l \in Streams, NEW n, writer' = writer, stream'[l] = stream[l],
         chan'[l] = chan[l], live'[l] = live[l], dropped'[l] = dropped[l], Accounted(l, n)
  PROVE  Accounted(l, n)'
  BY DEF Accounted, Carried, OnItsWay

LEMMA StreamAccounts ==
  ASSUME Registered, Registered', MissedOnlyWhenFull, NEW l \in Streams,
         \/ StreamStep(l) \/ LockLog(l) \/ Recv(l) \/ HangUp(l)
         \/ \E j \in Jobs : Open(l, j)
  PROVE  MissedOnlyWhenFull'
<1> USE DEF Moves
<1> DEFINE s == stream[l]
<1>0. /\ s \in StreamRecords /\ s.held \in Nat /\ live[l] \in Seq(Nat) /\ chan[l] \in Seq(Nat)
      /\ stream \in [Streams -> StreamRecords] /\ live \in [Streams -> Seq(Nat)]
      /\ chan \in [Streams -> Seq(Nat)] /\ dropped \in [Streams -> SUBSET Nat]
  BY DEF Registered, LogTypeOK, StreamRecords
<1>1. lines' = lines /\ writer' = writer
  BY DEF StreamStep, ReplayLine, ReplayFails, ReplayEnds, Register, Receive, Forward, Leave,
         Unregister, Close, LockLog, Recv, HangUp, Open
<1>2. ASSUME NEW m \in Streams \ {l}
      PROVE  /\ stream'[m] = stream[m] /\ chan'[m] = chan[m]
             /\ live'[m] = live[m] /\ dropped'[m] = dropped[m]
  BY <1>0 DEF StreamStep, ReplayLine, ReplayFails, ReplayEnds, Register, Receive, Forward, Leave,
         Unregister, Close, LockLog, Recv, HangUp, Open, Returns
<1>3. ASSUME \/ ~Listening(l)'
             \/ stream'[l].since = lines[stream'[l].job]
             \/ /\ Listening(l) /\ stream'[l].job = s.job /\ stream'[l].since = s.since
                /\ \A n \in Nat : Accounted(l, n) => Accounted(l, n)'
      PROVE  MissedOnlyWhenFull'
  <2>1. ASSUME NEW m \in Streams, Listening(m)', m # l
        PROVE  /\ Listening(m) /\ stream'[m].job = stream[m].job
               /\ stream'[m].since = stream[m].since
               /\ \A n \in Nat : Accounted(m, n) => Accounted(m, n)'
    BY <1>1, <1>2, <2>1, OthersAccounted DEF Listening
  <2> QED
    BY <1>1, <1>3, <2>1, StillAccounted
<1>4. ASSUME Listening(l), stream'[l].job = s.job, stream'[l].since = s.since,
             dropped'[l] = dropped[l], Range(Carried(l)) \subseteq Range(Carried(l))'
      PROVE  MissedOnlyWhenFull'
  <2>1. \A n \in Nat : Accounted(l, n) => Accounted(l, n)'
    BY <1>1, <1>4 DEF Accounted, OnItsWay
  <2> QED
    BY <1>3, <1>4, <2>1
<1>5. ASSUME stream'[l].pc \notin {"listen", "send"} PROVE MissedOnlyWhenFull'
  BY <1>3, <1>5 DEF Listening
<1>6. CASE \/ ReplayLine(l) \/ ReplayFails(l) \/ ReplayEnds(l) \/ Leave(l) \/ Unregister(l)
           \/ Close(l) \/ LockLog(l) \/ \E j \in Jobs : Open(l, j)
  <2>1. stream'[l].pc \notin {"listen", "send"}
    <3>1. CASE ReplayLine(l) \/ ReplayEnds(l) \/ Leave(l) \/ Unregister(l) \/ LockLog(l)
      BY <1>0, <3>1 DEF ReplayLine, ReplayEnds, Leave, Unregister, LockLog, StreamRecords
    <3>2. CASE ReplayFails(l) \/ Close(l)
      BY <1>0, <3>2 DEF ReplayFails, Close, Returns, NoStream
    <3>3. ASSUME NEW j \in Jobs, Open(l, j) PROVE stream'[l].pc \notin {"listen", "send"}
      BY <1>0, <3>3 DEF Open, NoStream
    <3> QED
      BY <1>6, <3>1, <3>2, <3>3
  <2> QED
    BY <1>5, <2>1
<1>7. CASE Register(l)
  <2>1. stream'[l].job = s.job /\ stream'[l].since = lines[s.job]
    BY <1>0, <1>7 DEF Register, StreamRecords
  <2> QED
    BY <1>3, <2>1
<1>8. CASE Receive(l)
  <2>1. /\ Listening(l) /\ chan[l] # << >> /\ live' = live /\ dropped' = dropped
        /\ s.pc = "listen" /\ chan'[l] = Tail(chan[l])
    BY <1>0, <1>8 DEF Receive, Listening
  <2>2. /\ stream'[l].job = s.job /\ stream'[l].since = s.since
        /\ stream'[l].pc = "send" /\ stream'[l].held = Head(chan[l])
    BY <1>0, <1>8 DEF Receive, StreamRecords
  <2>3. Range(chan[l]) = {Head(chan[l])} \cup Range(Tail(chan[l]))
    BY <1>0, <2>1, RangeHeadTail
  <2>4. Range(Carried(l)) \subseteq Range(Carried(l))'
    BY <2>1, <2>2, <2>3, CarriedIs, CarriedIsAfter DEF Registered, CarriedParts
  <2> QED
    BY <1>4, <2>1, <2>2, <2>4
<1>9. CASE Forward(l)
  <2>1. /\ Listening(l) /\ chan' = chan /\ dropped' = dropped
        /\ s.pc = "send" /\ live'[l] = Append(live[l], s.held)
    BY <1>0, <1>9 DEF Forward, Listening
  <2>2. /\ stream'[l].job = s.job /\ stream'[l].since = s.since /\ stream'[l].pc = "listen"
    BY <1>0, <1>9 DEF Forward, StreamRecords
  <2>3. Range(live'[l]) = Range(live[l]) \cup {s.held}
    BY <1>0, <2>1, RangeAppend
  <2>4. Range(Carried(l)) \subseteq Range(Carried(l))'
    BY <2>1, <2>2, <2>3, CarriedIs, CarriedIsAfter DEF Registered, CarriedParts
  <2> QED
    BY <1>4, <2>1, <2>2, <2>4
<1>10. CASE Recv(l) \/ HangUp(l)
  <2>1. UNCHANGED <<stream, chan, live, dropped>>
    BY <1>10 DEF Recv, HangUp
  <2>2. \A n \in Nat : Accounted(l, n) => Accounted(l, n)'
    BY <1>1, <2>1, OthersAccounted
  <2>3. Listening(l)' => Listening(l)
    BY <2>1 DEF Listening
  <2> QED
    BY <1>3, <2>1, <2>2, <2>3
<1> QED
  BY <1>6, <1>7, <1>8, <1>9, <1>10 DEF StreamStep

LEMMA MissedNext == Registered /\ MissedOnlyWhenFull /\ [LogNext]_logVars => MissedOnlyWhenFull'
<1> SUFFICES ASSUME Registered, MissedOnlyWhenFull, [LogNext]_logVars
             PROVE  MissedOnlyWhenFull'
  OBVIOUS
<1>0. Registered'
  BY RegisteredNext
<1>1. ASSUME NEW w \in Writers, WriterStep(w) PROVE MissedOnlyWhenFull'
  BY <1>0, <1>1, StoreAccounts, NotifyAccounts DEF WriterStep
<1>2. ASSUME NEW w \in Writers, NEW j \in Jobs, Log(w, j) PROVE MissedOnlyWhenFull'
  <2>1. /\ UNCHANGED <<lines, stream, chan, live, dropped>> /\ writer[w].pc = "idle"
        /\ \A x \in Writers \ {w} : writer'[x] = writer[x]
    BY <1>2 DEF Log, Registered, LogTypeOK
  <2>2. \A i, n : OnItsWay(i, n) => OnItsWay(i, n)'
    BY <2>1 DEF OnItsWay
  <2>3. \A l \in Streams, n \in Nat : Accounted(l, n) => Accounted(l, n)'
    BY <2>1, <2>2 DEF Accounted, Carried
  <2> QED
    BY <1>0, <2>1, <2>3, StillAccounted DEF Listening
<1>3. ASSUME NEW l \in Streams,
             \/ StreamStep(l) \/ LockLog(l) \/ Recv(l) \/ HangUp(l)
             \/ \E j \in Jobs : Open(l, j)
      PROVE  MissedOnlyWhenFull'
  BY <1>0, <1>3, StreamAccounts
<1>4. CASE UNCHANGED logVars
  BY <1>4 DEF logVars, MissedOnlyWhenFull, Listening, Carried, OnItsWay
<1> QED
  BY <1>1, <1>2, <1>3, <1>4 DEF LogNext

\* However appendLog, registrations and departures interleave, a follower that
\* is listening gets every line stored since it registered, but those that
\* found its channel full: a line is stored before the channels are walked.
THEOREM FollowersMissOnlyWhenFull == LogSafety => []MissedOnlyWhenFull
<1>1. LogInit => MissedOnlyWhenFull
  BY DEF LogInit, MissedOnlyWhenFull, Listening, NoStream
<1> QED
  BY <1>1, RegisteredInit, RegisteredNext, MissedNext, PTL DEF LogSafety
=============================================================================
