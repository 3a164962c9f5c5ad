--------------------------- MODULE ServerSession ---------------------------
(***************************************************************************)
(* A remote ServerSession (session/connection.rs): one worker task per     *)
(* runtime, fed by a bounded command channel, that owns the connection to  *)
(* the runtime, reconnects it when it is lost and repeats the request it   *)
(* was serving.  All workers report to one health watch channel.           *)
(*                                                                         *)
(* One call is one SessionCommand: Requests stand for Request and          *)
(* RawRequest, OneWays for Notify, Resolve and Reject.  Payloads, logging  *)
(* and the transport-specific way to open a connection are abstracted.     *)
(***************************************************************************)
EXTENDS Integers, Sequences, FiniteSets, Functions

CONSTANTS Runtimes,      \* the runtimes the session was opened with
          Primary,       \* the first of them: it owns command_tx
          Kinds,         \* the runtime kinds callers ask for
          Requests, OneWays,
          Shutdown,      \* SessionCommand::Shutdown
          None,
          QueueCap,      \* capacity of a command channel (256 in the code)
          MaxAttempts,   \* REMOTE_RECONNECT_MAX_ATTEMPTS (5 in the code)
          MaxBreaks      \* model bound: how many connections may be lost

Calls == Requests \cup OneWays
Commands == Calls \cup {Shutdown}

ASSUME ConstantsAssumption ==
  /\ Primary \in Runtimes
  /\ Runtimes \subseteq Kinds
  /\ Requests \cap OneWays = {}
  /\ Shutdown \notin Calls
  /\ None \notin Commands
  /\ QueueCap \in Nat \ {0}
  /\ MaxAttempts \in Nat \ {0}
  /\ MaxBreaks \in Nat

VARIABLES
  lifecycle,   \* the session as its owner sees it
  owed,        \* Shutdown commands disconnect_inner has still to send
  health,      \* value of the health watch channel
  unseen,      \* a health value was sent since a reader last awaited changed()
  queue,       \* command_rx of each worker
  pc,          \* where each worker stands in its loop
  cur,         \* the request a worker is serving
  cause,       \* why a worker is reconnecting
  attempt,     \* the current attempt of reconnect_remote_client
  link,        \* the worker's AppServerClient
  reply,       \* the transmission of cur on the present connection
  caller,      \* what the caller of each call knows
  sends,       \* how often each call was put on a connection
  limbo,       \* transmissions the worker no longer follows, not executed yet
  execs,       \* how often the server executed each call
  breaks       \* connections lost so far

session == <<lifecycle, owed>>
watch == <<health, unseen>>
worker == <<queue, pc, cur, cause, attempt>>
wire == <<link, reply, sends, limbo, execs, breaks>>
vars == <<lifecycle, owed, health, unseen, queue, pc, cur, cause, attempt,
          link, reply, caller, sends, limbo, execs, breaks>>

TypeOK ==
  /\ lifecycle \in {"connecting", "open", "stopping", "joining", "closed"}
  /\ owed \in [Runtimes -> 0..2]
  /\ health \in {"connecting", "connected", "disconnected"}
  /\ unseen \in BOOLEAN
  /\ queue \in [Runtimes -> Seq(Commands)]
  /\ pc \in [Runtimes ->
       {"selecting", "requesting", "reconnecting", "retrying", "exited"}]
  /\ cur \in [Runtimes -> Requests \cup {None}]
  /\ cause \in [Runtimes -> {"none", "request", "event", "end"}]
  /\ attempt \in [Runtimes -> 0..MaxAttempts]
  /\ link \in [Runtimes -> {"up", "lost", "ended"}]
  /\ reply \in [Runtimes -> {"none", "sent", "answered"}]
  /\ caller \in [Calls ->
       {"idle", "waiting", "ok", "refused", "failed", "disconnected"}]
  /\ sends \in [Calls -> Nat]
  /\ limbo \in [Calls -> Nat]
  /\ execs \in [Calls -> Nat]
  /\ breaks \in 0..MaxBreaks

\* connect_remote_multiplexed: the workers are spawned, health is not yet
\* announced and no caller holds the session.
Init ==
  /\ lifecycle = "connecting"
  /\ owed = [r \in Runtimes |-> 0]
  /\ health = "connecting" /\ unseen = FALSE
  /\ queue = [r \in Runtimes |-> <<>>]
  /\ pc = [r \in Runtimes |-> "selecting"]
  /\ cur = [r \in Runtimes |-> None]
  /\ cause = [r \in Runtimes |-> "none"]
  /\ attempt = [r \in Runtimes |-> 0]
  /\ link = [r \in Runtimes |-> "up"]
  /\ reply = [r \in Runtimes |-> "none"]
  /\ caller = [c \in Calls |-> "idle"]
  /\ sends = [c \in Calls |-> 0]
  /\ limbo = [c \in Calls |-> 0]
  /\ execs = [c \in Calls |-> 0]
  /\ breaks = 0

\* watch::Sender::send: the value changes and every receiver is marked changed.
SendHealth(h) == health' = h /\ unseen' = TRUE

Settle(c, a) == caller' = [caller EXCEPT ![c] = a]

----------------------------------------------------------------------------
(* The session's owner and its callers *)

\* The last step of connect_remote_multiplexed, concurrent with the workers.
Announce ==
  /\ lifecycle = "connecting"
  /\ lifecycle' = "open"
  /\ SendHealth("connected")
  /\ UNCHANGED <<owed, worker, wire, caller>>

\* runtime_command_txs.get(kind).unwrap_or(&command_tx)
Route(k) == IF k \in Runtimes THEN k ELSE Primary

\* A caller's send on the bounded channel; it waits while the channel is full
\* and gets Disconnected when the worker has dropped the receiver.
Submit(c, k) ==
  LET r == Route(k) IN
  /\ lifecycle # "connecting"
  /\ caller[c] = "idle"
  /\ IF pc[r] = "exited"
     THEN Settle(c, "disconnected") /\ UNCHANGED queue
     ELSE /\ Len(queue[r]) < QueueCap
          /\ queue' = [queue EXCEPT ![r] = Append(@, c)]
          /\ Settle(c, "waiting")
  /\ UNCHANGED <<session, watch, pc, cur, cause, attempt, wire>>

\* Mutant: only the primary runtime is told to stop.
PrimaryOwed == [r \in Runtimes |-> IF r = Primary THEN 1 ELSE 0]

\* command_tx is the primary's channel, which runtime_command_txs holds as well.
ShutdownsOwed == [r \in Runtimes |-> IF r = Primary THEN 2 ELSE 1]

\* disconnect_inner: health is set first, then command_tx gets a Shutdown and
\* so does every entry of runtime_command_txs, the primary's a second time.
BeginDisconnect ==
  /\ lifecycle = "open"
  /\ lifecycle' = "stopping"
  /\ owed' = ShutdownsOwed
  /\ SendHealth("disconnected")
  /\ UNCHANGED <<worker, wire, caller>>

SendShutdown(r) ==
  /\ lifecycle = "stopping"
  /\ owed[r] > 0
  /\ r # Primary => owed[Primary] < 2
  /\ owed' = [owed EXCEPT ![r] = @ - 1]
  /\ IF pc[r] = "exited"
     THEN UNCHANGED queue
     ELSE /\ Len(queue[r]) < QueueCap
          /\ queue' = [queue EXCEPT ![r] = Append(@, Shutdown)]
  /\ UNCHANGED <<lifecycle, watch, pc, cur, cause, attempt, wire, caller>>

\* Mutant: the join handle is that of the primary's worker alone.
PrimaryJoined == pc[Primary] = "exited"

WorkersJoined == \A r \in Runtimes : pc[r] = "exited"

\* worker_handle joins every worker before disconnect returns.
Join ==
  \/ /\ lifecycle = "stopping"
     /\ \A r \in Runtimes : owed[r] = 0
     /\ lifecycle' = "joining"
     /\ UNCHANGED <<owed, watch, worker, wire, caller>>
  \/ /\ lifecycle = "joining"
     /\ WorkersJoined
     /\ lifecycle' = "closed"
     /\ UNCHANGED <<owed, watch, worker, wire, caller>>

----------------------------------------------------------------------------
(* A worker serving commands: the command branch of its select! *)

CanTake(r) == pc[r] = "selecting" /\ queue[r] # <<>>

Dequeue(r) == queue' = [queue EXCEPT ![r] = Tail(@)]

\* client.request on the present connection; a dead client transmits nothing.
Transmit(r, c) ==
  IF link[r] = "up"
  THEN /\ sends' = [sends EXCEPT ![c] = @ + 1]
       /\ reply' = [reply EXCEPT ![r] = "sent"]
  ELSE UNCHANGED <<sends, reply>>

TakeRequest(r) ==
  /\ CanTake(r) /\ Head(queue[r]) \in Requests
  /\ Dequeue(r)
  /\ cur' = [cur EXCEPT ![r] = Head(queue[r])]
  /\ pc' = [pc EXCEPT ![r] = "requesting"]
  /\ Transmit(r, Head(queue[r]))
  /\ UNCHANGED <<session, watch, cause, attempt, link, caller, limbo, execs, breaks>>

\* notify, resolve_server_request, reject_server_request: never repeated.
TakeOneWay(r) ==
  /\ CanTake(r) /\ Head(queue[r]) \in OneWays
  /\ Dequeue(r)
  /\ LET c == Head(queue[r]) IN
     IF link[r] = "up"
     THEN /\ sends' = [sends EXCEPT ![c] = @ + 1]
          /\ limbo' = [limbo EXCEPT ![c] = @ + 1]
          /\ Settle(c, "ok")
     ELSE Settle(c, "failed") /\ UNCHANGED <<sends, limbo>>
  /\ UNCHANGED <<session, watch, pc, cur, cause, attempt, link, reply, execs, breaks>>

\* Mutant: a worker leaves with the calls of its channel unanswered.
NoneDropped(r) == {}

\* The response channels of these calls are dropped with the command receiver.
Dropped(r) == Range(queue[r]) \cap Calls

Exit(r) ==
  /\ pc' = [pc EXCEPT ![r] = "exited"]
  /\ caller' = [c \in Calls |-> IF c \in Dropped(r) THEN "disconnected" ELSE caller[c]]
  /\ queue' = [queue EXCEPT ![r] = <<>>]
  /\ link' = [link EXCEPT ![r] = "ended"]

TakeShutdown(r) ==
  /\ CanTake(r) /\ Head(queue[r]) = Shutdown
  /\ Exit(r)
  /\ UNCHANGED <<session, watch, cur, cause, attempt, reply, sends, limbo, execs, breaks>>

\* The request is over: its answer goes to the caller, the worker selects again.
Finish(r, a) ==
  /\ Settle(cur[r], a)
  /\ cur' = [cur EXCEPT ![r] = None]
  /\ pc' = [pc EXCEPT ![r] = "selecting"]
  /\ reply' = [reply EXCEPT ![r] = "none"]

ReceiveReply(r) ==
  /\ pc[r] \in {"requesting", "retrying"}
  /\ link[r] = "up" /\ reply[r] = "answered"
  /\ \E a \in {"ok", "refused"} : Finish(r, a)
  /\ UNCHANGED <<session, watch, queue, cause, attempt, link, sends, limbo, execs, breaks>>

----------------------------------------------------------------------------
(* Reconnection: reconnect_remote_client and what its three callers do *)

BeginReconnect(r, why) ==
  /\ pc' = [pc EXCEPT ![r] = "reconnecting"]
  /\ cause' = [cause EXCEPT ![r] = why]
  /\ attempt' = [attempt EXCEPT ![r] = 1]
  /\ SendHealth("connecting")

\* Mutant: every failure of a request is answered by a reconnection and a repeat.
AlwaysReconnect(r) == TRUE

\* Only the first failure of a request is answered by a reconnection.
MayReconnect(r) == pc[r] = "requesting"

RequestFails(r) ==
  /\ pc[r] \in {"requesting", "retrying"} /\ link[r] # "up"
  /\ IF MayReconnect(r)
     THEN BeginReconnect(r, "request") /\ UNCHANGED <<cur, caller, reply>>
     ELSE Finish(r, "failed") /\ UNCHANGED <<watch, cause, attempt>>
  /\ UNCHANGED <<session, queue, link, sends, limbo, execs, breaks>>

\* The event branch of select!: AppServerEvent::Disconnected, then None.
SeeConnectionLoss(r) ==
  /\ pc[r] = "selecting" /\ link[r] # "up"
  /\ BeginReconnect(r, IF link[r] = "lost" THEN "event" ELSE "end")
  /\ link' = [link EXCEPT ![r] = "ended"]
  /\ UNCHANGED <<session, queue, cur, caller, reply, sends, limbo, execs, breaks>>

\* Mutant: a successful reconnection is not reported.
UnreportedHealth == UNCHANGED watch

RestoredHealth == SendHealth("connected")

\* A fresh client replaces the old one; a request in hand is sent once more.
ConnectSucceeds(r) ==
  /\ pc[r] = "reconnecting"
  /\ RestoredHealth
  /\ link' = [link EXCEPT ![r] = "up"]
  /\ attempt' = [attempt EXCEPT ![r] = 0]
  /\ cause' = [cause EXCEPT ![r] = "none"]
  /\ IF cause[r] = "request"
     THEN /\ pc' = [pc EXCEPT ![r] = "retrying"]
          /\ sends' = [sends EXCEPT ![cur[r]] = @ + 1]
          /\ reply' = [reply EXCEPT ![r] = "sent"]
     ELSE /\ pc' = [pc EXCEPT ![r] = "selecting"]
          /\ UNCHANGED <<sends, reply>>
  /\ UNCHANGED <<session, queue, cur, caller, limbo, execs, breaks>>

\* Mutant: one attempt too many.
OneMoreAttempt(r) == attempt[r] <= MaxAttempts

AttemptsLeft(r) == attempt[r] < MaxAttempts

ConnectFails(r) ==
  /\ pc[r] = "reconnecting" /\ AttemptsLeft(r)
  /\ attempt' = [attempt EXCEPT ![r] = @ + 1]
  /\ SendHealth("connecting")
  /\ UNCHANGED <<session, queue, pc, cur, cause, wire, caller>>

ExhaustedHealth == SendHealth("disconnected")

\* A failed series of attempts sleeps REMOTE_RECONNECT_DELAY between them, and
\* Announce follows the spawn of the workers without an await: the series does
\* not end before it.
AnnouncedByNow == lifecycle # "connecting"

\* The last attempt failed.  A request in hand fails and the worker goes on, a
\* Disconnected event is routed and the worker goes on, the end of the event
\* stream ends the worker.
GiveUp(r) ==
  /\ pc[r] = "reconnecting" /\ ~AttemptsLeft(r)
  /\ AnnouncedByNow
  /\ ExhaustedHealth
  /\ attempt' = [attempt EXCEPT ![r] = 0]
  /\ cause' = [cause EXCEPT ![r] = "none"]
  /\ CASE cause[r] = "request" -> Finish(r, "failed") /\ UNCHANGED <<queue, link>>
       [] cause[r] = "event"   -> /\ pc' = [pc EXCEPT ![r] = "selecting"]
                                  /\ UNCHANGED <<cur, caller, queue, link, reply>>
       [] cause[r] = "end"     -> Exit(r) /\ UNCHANGED <<cur, reply>>
  /\ UNCHANGED <<session, sends, limbo, execs, breaks>>

----------------------------------------------------------------------------
(* The environment: the network and the server *)

\* The connection of r breaks, with or without a Disconnected event.  What was
\* transmitted on it and not executed may still be.
Break(r) ==
  /\ breaks < MaxBreaks
  /\ link[r] = "up" /\ pc[r] # "exited"
  /\ breaks' = breaks + 1
  /\ \E l \in {"lost", "ended"} : link' = [link EXCEPT ![r] = l]
  /\ reply' = [reply EXCEPT ![r] = "none"]
  /\ limbo' = IF reply[r] = "sent" THEN [limbo EXCEPT ![cur[r]] = @ + 1] ELSE limbo
  /\ UNCHANGED <<session, watch, worker, caller, sends, execs>>

\* The server executes the request in hand and its answer is on its way.
Execute(r) ==
  /\ reply[r] = "sent"
  /\ reply' = [reply EXCEPT ![r] = "answered"]
  /\ execs' = [execs EXCEPT ![cur[r]] = @ + 1]
  /\ UNCHANGED <<session, watch, worker, caller, link, sends, limbo, breaks>>

ExecuteLate(c) ==
  /\ limbo[c] > 0
  /\ limbo' = [limbo EXCEPT ![c] = @ - 1]
  /\ execs' = [execs EXCEPT ![c] = @ + 1]
  /\ UNCHANGED <<session, watch, worker, caller, link, reply, sends, breaks>>

----------------------------------------------------------------------------

WorkerStep(r) ==
  \/ TakeRequest(r) \/ TakeOneWay(r) \/ TakeShutdown(r)
  \/ ReceiveReply(r) \/ RequestFails(r) \/ SeeConnectionLoss(r)
  \/ ConnectSucceeds(r) \/ ConnectFails(r) \/ GiveUp(r)

Owner == Announce \/ BeginDisconnect \/ (\E r \in Runtimes : SendShutdown(r)) \/ Join

Next ==
  \/ Owner
  \/ \E c \in Calls, k \in Kinds : Submit(c, k)
  \/ \E r \in Runtimes : WorkerStep(r) \/ Break(r) \/ Execute(r)
  \/ \E c \in Calls : ExecuteLate(c)

Spec == Init /\ [][Next]_vars

\* The workers, and a disconnect that has begun, are scheduled; the server
\* answers a request as long as its connection stands.
Fairness ==
  /\ WF_vars(Announce)
  /\ WF_vars(Join)
  /\ \A r \in Runtimes : /\ WF_vars(SendShutdown(r))
                         /\ WF_vars(WorkerStep(r))
                         /\ WF_vars(Execute(r))

FairSpec == Spec /\ Fairness

----------------------------------------------------------------------------
(* Properties *)

\* The session keeps what CallService promises its callers: a request is put
\* on a connection at most twice and a one-way call (an approval, say) at most
\* once, a call settles once, an answer was produced by the server, and
\* Disconnected is only told of calls that never left the device
\* (connection.rs:981-1176 against the worker of :1677-1844).
Service == INSTANCE CallService WITH status <- caller
ServiceRefined == Service!ASpec

\* "connecting" is never shown with nobody trying: as long as the session is
\* healthy or being repaired some worker is in reconnect_remote_client, even
\* though all workers write the same watch channel (:1326-1391).
ConnectingMeansTrying ==
  health = "connecting" /\ lifecycle # "connecting"
    => \E r \in Runtimes : pc[r] = "reconnecting"

\* When every worker has given up on its connection, and nobody asked the
\* session to stop, the health channel says so: existing_active_session
\* (mobile_client/mod.rs:1354) would otherwise hand out a dead session.
AllDeadMeansDisconnected ==
  lifecycle = "open" /\ (\A r \in Runtimes : pc[r] = "exited")
    => health = "disconnected"

\* After disconnect has returned no worker runs and no caller is left waiting.
ClosedIsQuiet ==
  lifecycle = "closed" =>
    /\ \A r \in Runtimes : pc[r] = "exited"
    /\ \A c \in Calls : caller[c] # "waiting"

\* Every submitted call is answered, whatever is lost and whoever disconnects.
CallsSettle == \A c \in Calls : caller[c] = "waiting" ~> caller[c] # "waiting"

\* A disconnect that has begun returns, although its Shutdown queues behind
\* other commands and behind a reconnection in progress (:1188-1242).
DisconnectCompletes == lifecycle = "stopping" ~> lifecycle = "closed"
=============================================================================
