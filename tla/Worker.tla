------------------------------- MODULE Worker -------------------------------
(***************************************************************************)
(* The worker agents (internal/daemon/worker.go) and the channel that      *)
(* feeds them (pkg/messaging, a ZeroMQ publisher and its subscribers).     *)
(*                                                                         *)
(* A subscriber sees the published messages in order while it is           *)
(* connected and nothing else.  The message loop handles a cancel itself   *)
(* and starts one goroutine per execute message; such a goroutine is an    *)
(* attempt, and it lives in a slot until it ends.                          *)
(***************************************************************************)
EXTENDS Entities, Sequences

CONSTANTS MaxLive    \* execution goroutines and undelivered executes at once

ASSUME LiveAssumption == MaxLive \in Nat

VARIABLES
    up,           \* nodes whose worker process runs
    wire,         \* messages on their way to each worker, in order
    attempts,     \* what each slot holds
    cancelFuncs   \* per node: job -> slot whose context it cancels, or 0

workerVars == <<up, wire, attempts, cancelFuncs>>

Slots == 1 .. MaxLive

\* "wire": published; "ack": the goroutine is in acknowledgeStart; "start": it
\* has yet to register its cancel function; "run": in cmd.Run; "report": in
\* reportWithRetry; "sent": its report was accepted.
AttemptStates == {"none", "wire", "ack", "start", "run", "report", "sent"}
NoAttempt == [pc |-> "none", job |-> NoJob, node |-> NoNode, cancelled |-> FALSE,
              kind |-> "ok"]
Messages == [act : {"execute", "cancel"}, job : Jobs, slot : 0 .. MaxLive]

WorkerTypeOK ==
    /\ up \in SUBSET Nodes
    /\ wire \in [Nodes -> Seq(Messages)]
    /\ attempts \in [Slots -> [pc : AttemptStates, job : Jobs \cup {NoJob},
                               node : Nodes \cup {NoNode}, cancelled : BOOLEAN,
                               kind : {"ok", "user", "infra"}]]
    /\ cancelFuncs \in [Nodes -> [Jobs -> 0 .. MaxLive]]

WorkerInit ==
    /\ up = Nodes
    /\ wire = [n \in Nodes |-> << >>]
    /\ attempts = [i \in Slots |-> NoAttempt]
    /\ cancelFuncs = [n \in Nodes |-> [j \in Jobs |-> 0]]

-----------------------------------------------------------------------------
(* pub.Send *)

FreeSlots == {i \in Slots : attempts[i].pc = "none"}
FreeSlot == CHOOSE i \in FreeSlots : \A k \in FreeSlots : i <= k

\* Nobody is subscribed for a node that is down.
PublishExecute(n, j) ==
    /\ \/ /\ n \in up /\ FreeSlots # {}
          /\ wire' = [wire EXCEPT ![n] =
                         Append(@, [act |-> "execute", job |-> j, slot |-> FreeSlot])]
          /\ attempts' = [attempts EXCEPT ![FreeSlot] =
                             [NoAttempt EXCEPT !.pc = "wire", !.job = j, !.node = n]]
       \/ n \notin up /\ UNCHANGED <<wire, attempts>>
    /\ UNCHANGED <<up, cancelFuncs>>

PublishCancel(n, j) ==
    /\ \/ n \in up /\ wire' = [wire EXCEPT ![n] =
                          Append(@, [act |-> "cancel", job |-> j, slot |-> 0])]
       \/ n \notin up /\ UNCHANGED wire
    /\ UNCHANGED <<up, attempts, cancelFuncs>>

-----------------------------------------------------------------------------
(* The message loop *)

\* A cancel finds the job's cancel function or does nothing; it is not kept
\* for an execution that registers later.
ReceiveCancel(n) ==
    LET m == Head(wire[n])
        i == cancelFuncs[n][m.job]
    IN
    /\ wire[n] # << >> /\ m.act = "cancel"
    /\ wire' = [wire EXCEPT ![n] = Tail(@)]
    /\ attempts' = IF i = 0 THEN attempts
                   ELSE [attempts EXCEPT ![i].cancelled = TRUE]
    /\ UNCHANGED <<up, cancelFuncs>>

ReceiveExecute(n) ==
    /\ wire[n] # << >> /\ Head(wire[n]).act = "execute"
    /\ wire' = [wire EXCEPT ![n] = Tail(@)]
    /\ attempts' = [attempts EXCEPT ![Head(wire[n]).slot].pc = "ack"]
    /\ UNCHANGED <<up, cancelFuncs>>

-----------------------------------------------------------------------------
(* One execution *)

\* acknowledgeStart returns, whatever the master answered.
EndHandshake(i) ==
    /\ attempts[i].pc = "ack"
    /\ attempts' = [attempts EXCEPT ![i].pc = "start"]
    /\ UNCHANGED <<up, wire, cancelFuncs>>

\* The job's cancel function is registered, in place of any other execution's,
\* and the command starts.
StartRun(i) ==
    LET a == attempts[i] IN
    /\ a.pc = "start"
    /\ attempts' = [attempts EXCEPT ![i].pc = "run"]
    /\ cancelFuncs' = [cancelFuncs EXCEPT ![a.node][a.job] = i]
    /\ UNCHANGED <<up, wire>>

\* cmd.Run returns.  A cancelled command fails with "cancelled", unless it
\* was already through.
FinishRun(i, kind) ==
    /\ attempts[i].pc = "run"
    /\ attempts[i].cancelled => kind \in {"ok", "user"}
    /\ attempts' = [attempts EXCEPT ![i].pc = "report", ![i].kind = kind]
    /\ UNCHANGED <<up, wire, cancelFuncs>>

\* The master took the report.
Reported(i) ==
    /\ attempts[i].pc = "report"
    /\ attempts' = [attempts EXCEPT ![i].pc = "sent"]
    /\ UNCHANGED <<up, wire, cancelFuncs>>

\* The answer to the report did not come within ten seconds: reportWithRetry
\* reports again.
ReportAgain(i) ==
    /\ attempts[i].pc = "sent"
    /\ attempts' = [attempts EXCEPT ![i].pc = "report"]
    /\ UNCHANGED <<up, wire, cancelFuncs>>

\* The deferred function deletes the job's entry, whoever registered it.
EndAttempt(i) ==
    LET a == attempts[i] IN
    /\ a.pc = "sent"
    /\ attempts' = [attempts EXCEPT ![i] = NoAttempt]
    /\ cancelFuncs' = [cancelFuncs EXCEPT ![a.node][a.job] = 0]
    /\ UNCHANGED <<up, wire>>

\* The worker process dies with its goroutines and its subscription.
CrashNode(n) ==
    /\ n \in up
    /\ up' = up \ {n}
    /\ wire' = [wire EXCEPT ![n] = << >>]
    /\ attempts' = [i \in Slots |-> IF attempts[i].node = n THEN NoAttempt ELSE attempts[i]]
    /\ cancelFuncs' = [cancelFuncs EXCEPT ![n] = [j \in Jobs |-> 0]]

StartNode(n) ==
    /\ n \notin up
    /\ up' = up \cup {n}
    /\ UNCHANGED <<wire, attempts, cancelFuncs>>
=============================================================================
