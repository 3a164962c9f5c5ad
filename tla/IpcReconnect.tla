---------------------------- MODULE IpcReconnect ----------------------------
(***************************************************************************)
(* ReconnectingIpcClient (codex-ipc/src/client/reconnect.rs) with the      *)
(* clients it hands out (handle.rs, connection.rs, pending.rs).            *)
(*                                                                         *)
(* One task, reconnect_loop, keeps a slot filled with a connected client.  *)
(* Clients are clones of one Arc per connection; a connection has a task   *)
(* that reads and one that writes what a bounded channel holds, whether or *)
(* not a clone is left.  They end on their own, at the end of the stream   *)
(* or an error, or when somebody aborts them.  The loop also waits for its *)
(* broadcast channel to be closed, but that has no action: the client the  *)
(* loop itself holds keeps a sender of it.                                 *)
(*                                                                         *)
(* Of what the peer asks, discovery is modelled, the one answer the reader *)
(* sends itself; broadcasts and the answers of handlers only take room in  *)
(* the channel, as that one does.                                          *)
(*                                                                         *)
(* abort() takes effect at an await that is pending; until then a poll that*)
(* has begun goes on.  The steps at "attempt", "registering", "storing",   *)
(* "clearing" and the two reports belong to such a poll.                   *)
(***************************************************************************)
EXTENDS Naturals, FiniteSets, Sequences

CONSTANTS
  Requests,          \* calls of send_request
  Setters,           \* calls of set_request_handler, each with its own handler
  None,
  Finder,            \* a peer that asks what we can handle
  Scenarios,         \* what may come together: records as below
  Capacity,          \* of the channel to the writer, with the frame it is writing (257)
  MaxConns,          \* model bound: connections of a scenario
  MaxLosses,         \* model bound: peers that go away or do not read
  MaxInvalidations   \* model bound

Conns == 1..MaxConns

ASSUME IpcAssumption ==
  /\ None \notin Setters
  /\ MaxConns \in Nat \ {0}
  /\ Scenarios \subseteq
       [ max_attempts : Nat,                                 \* of the policy, 0 for None
         cast : SUBSET (Requests \cup Setters \cup {Finder}), \* who may act
         opens : 1..MaxConns,                                \* connections that are opened
         faults : SUBSET {"gone", "stalled", "cut"} ]        \* of peers
  /\ MaxLosses \in Nat /\ MaxInvalidations \in Nat /\ Capacity \in Nat \ {0}

VARIABLES
  scenario,         \* of this behaviour
  slot,             \* the client in ReconnectingIpcClient, 0 for None
  shown,            \* connection_tx
  handler,          \* the handler to register
  signals,          \* signals in the invalidate channel
  invalidations,    \* calls of invalidate so far
  pc,               \* reconnect_loop
  current,          \* the client the loop holds, 0 for none
  attempt,
  dropped,          \* connections the loop dropped at the handshake (history)
  opened,           \* connections opened so far
  peer,             \* connections whose peer is there
  link,             \* how far what is written gets: it may be stalled or cut
  losses,           \* what went wrong with peers and links so far
  reading,          \* connections whose read task runs
  answering,        \* those among them at an answer that is not in the channel yet
  writing,          \* connections whose write task runs
  outbox,           \* the channel of each connection
  aborted,          \* connections that were shut
  deaf,             \* connections whose reader ended at an answer (history)
  registered,       \* handler slot of each connection
  setter, target,   \* progress of each set_request_handler, the client it took
  overtaken,        \* one came between the loop's look at the handler and the store (history)
  request, on,      \* state of each request, its connection
  pending,          \* PendingRequests: those it holds
  arrived,          \* requests the peer got
  late,             \* requests sent after the end of their connection (history)
  stop, stopped     \* progress of shutdown, the client it took

max_attempts == scenario.max_attempts
loop == <<pc, current, attempt, dropped>>
links == <<peer, link, losses>>
tasks == <<reading, answering, writing, outbox, aborted, deaf>>
conns == <<opened, links, tasks, registered>>
setters == <<setter, target, overtaken>>
requests == <<request, on, pending, arrived, late>>
owner == <<stop, stopped>>
vars == <<scenario, slot, shown, handler, signals, invalidations, loop, conns, setters,
          requests, owner>>

TypeOK ==
  /\ scenario \in Scenarios
  /\ slot \in 0..opened /\ shown \in BOOLEAN
  /\ handler \in Setters \cup {None}
  /\ signals \in 0..invalidations /\ invalidations \in 0..MaxInvalidations
  /\ pc \in {"top", "watching", "clearing", "reporting_lost", "attempt", "waiting",
             "handshaking", "registering", "storing", "reporting_connected",
             "cancelled", "gave_up"}
  /\ current \in 0..opened
  /\ dropped \subseteq 1..opened
  /\ attempt \in Nat /\ (max_attempts # 0 => attempt <= max_attempts)
  /\ opened \in 0..scenario.opens
  /\ peer \subseteq 1..opened /\ link \in [Conns -> {"open", "stalled", "cut"}]
  /\ losses \in 0..MaxLosses
  /\ reading \subseteq 1..opened /\ answering \subseteq reading
  /\ writing \subseteq 1..opened
  /\ outbox \in [Conns -> Seq(Requests \cup {Finder})]
  /\ \A n \in Conns : Len(outbox[n]) <= Capacity
  /\ aborted \subseteq 1..opened /\ deaf \subseteq 1..opened
  /\ registered \in [Conns -> Setters \cup {None}]
  /\ setter \in [Setters -> {"idle", "wrote", "took", "done"}]
  /\ target \in [Setters -> 0..opened] /\ overtaken \in BOOLEAN
  /\ request \in [Requests -> {"idle", "cloned", "sending", "waiting", "answered",
                               "not_connected", "timeout", "closed"}]
  /\ on \in [Requests -> 0..opened]
  /\ pending \subseteq Requests /\ arrived \subseteq Requests /\ late \subseteq Requests
  /\ stop \in {"idle", "aborting", "disconnecting", "reporting", "done"}
  /\ stopped \in 0..opened

\* start_with_connector, with an initial client or without
Init ==
  /\ scenario \in Scenarios
  /\ slot \in {0, 1} /\ shown = (slot = 1)
  /\ opened = slot /\ peer = 1..slot /\ reading = 1..slot /\ writing = 1..slot
  /\ link = [n \in Conns |-> "open"] /\ losses = 0
  /\ answering = {} /\ aborted = {} /\ deaf = {}
  /\ outbox = [n \in Conns |-> <<>>]
  /\ registered = [n \in Conns |-> None]
  /\ handler = None /\ signals = 0 /\ invalidations = 0
  /\ pc = "top" /\ current = 0 /\ attempt = 0 /\ dropped = {}
  /\ setter = [s \in Setters |-> "idle"] /\ target = [s \in Setters |-> 0]
  /\ overtaken = FALSE
  /\ request = [r \in Requests |-> "idle"] /\ on = [r \in Requests |-> 0]
  /\ pending = {} /\ arrived = {} /\ late = {}
  /\ stop = "idle" /\ stopped = 0

Aborted == stop # "idle"

-----------------------------------------------------------------------------
(* A connection: read_loop, write_loop, PendingRequests. *)

\* Connections that are read and were not shut.
Live == reading \ aborted

InCall(r) == request[r] \in {"cloned", "sending", "waiting"}

\* Who holds a clone of a client.
Held(n) ==
  \/ n \in {slot, current, stopped}
  \/ \E s \in Setters : setter[s] = "took" /\ target[s] = n
  \/ \E r \in Requests : InCall(r) /\ on[r] = n

\* PendingRequests::clear.  A call that still waits for room learns of it later.
ClearPending(n) ==
  /\ pending' = {r \in pending : on[r] # n}
  /\ request' = [r \in Requests |->
       IF request[r] = "waiting" /\ r \in pending /\ on[r] = n THEN "not_connected"
                                                               ELSE request[r]]

\* shutdown and shutdown_ref: tasks aborted, pending requests cleared
Shut(n) == ClearPending(n) /\ aborted' = aborted \cup {n}

TasksEnd(n) ==
  /\ n \in aborted \cap (reading \cup writing)
  /\ reading' = reading \ {n} /\ answering' = answering \ {n}
  /\ writing' = writing \ {n}
  /\ outbox' = [outbox EXCEPT ![n] = <<>>]
  /\ UNCHANGED <<scenario, slot, shown, handler, signals, invalidations, loop, opened,
                 links, aborted, deaf, registered, setters, requests, owner>>

\* The peer is gone, or only does not read any more, or closes its reading end.
PeerCloses(n) ==
  /\ losses < MaxLosses /\ losses' = losses + 1
  /\ n \in peer
  /\ \E how \in scenario.faults :
       \/ /\ how = "gone"
          /\ peer' = peer \ {n} /\ link' = [link EXCEPT ![n] = "cut"]
       \/ /\ how # "gone" /\ link[n] = "open"
          /\ link' = [link EXCEPT ![n] = how]
          /\ UNCHANGED peer
  /\ UNCHANGED <<scenario, slot, shown, handler, signals, invalidations, loop, opened,
                 tasks, registered, setters, requests, owner>>

ReadLoopEnds(n) ==
  /\ n \in reading \ (peer \cup answering)
  /\ reading' = reading \ {n}
  /\ ClearPending(n)
  /\ UNCHANGED <<scenario, slot, shown, handler, signals, invalidations, loop, opened,
                 links, answering, writing, outbox, aborted, deaf, registered, setters,
                 on, arrived, late, owner>>

HasRoom(n) == Len(outbox[n]) < Capacity

DiscoveryComes(n) ==
  /\ Finder \in scenario.cast
  /\ n \in (reading \cap peer) \ answering
  /\ answering' = answering \cup {n}
  /\ UNCHANGED <<scenario, slot, shown, handler, signals, invalidations, loop, opened,
                 links, reading, writing, outbox, aborted, deaf, registered, setters,
                 requests, owner>>

\* Without a writer the loop ends, and those who wait are not told.
DiscoveryAnswered(n) ==
  /\ n \in answering
  /\ answering' = answering \ {n}
  /\ \/ /\ n \in writing /\ HasRoom(n)
        /\ outbox' = [outbox EXCEPT ![n] = Append(@, Finder)]
        /\ UNCHANGED <<reading, deaf>>
     \/ /\ n \notin writing
        /\ reading' = reading \ {n} /\ deaf' = deaf \cup {n}
        /\ UNCHANGED outbox
  /\ UNCHANGED <<scenario, slot, shown, handler, signals, invalidations, loop, opened,
                 links, writing, aborted, registered, setters, requests, owner>>

WriteFrame(n) ==
  /\ n \in writing /\ outbox[n] # <<>> /\ link[n] = "open"
  /\ outbox' = [outbox EXCEPT ![n] = Tail(@)]
  /\ arrived' = arrived \cup ({Head(outbox[n])} \cap Requests)
  /\ UNCHANGED <<scenario, slot, shown, handler, signals, invalidations, loop, opened,
                 links, reading, answering, writing, aborted, deaf, registered, setters,
                 request, on, pending, late, owner>>

\* After a write error.  It ends as well when no sender is left, which nobody can tell.
WriteLoopEnds(n) ==
  /\ n \in writing /\ outbox[n] # <<>> /\ link[n] = "cut"
  /\ writing' = writing \ {n}
  /\ outbox' = [outbox EXCEPT ![n] = <<>>]
  /\ UNCHANGED <<scenario, slot, shown, handler, signals, invalidations, loop, opened,
                 links, reading, answering, aborted, deaf, registered, setters,
                 requests, owner>>

-----------------------------------------------------------------------------
(* Callers: client().send_request, set_request_handler, invalidate. *)

SendRequest(r) ==
  /\ r \in scenario.cast /\ request[r] = "idle" /\ slot # 0
  /\ on' = [on EXCEPT ![r] = slot]
  /\ request' = [request EXCEPT ![r] = "cloned"]
  /\ UNCHANGED <<scenario, slot, shown, handler, signals, invalidations, loop, conns,
                 setters, pending, arrived, late, owner>>

\* pending.insert and write_tx.send.  The time of the request begins with the wait.
Insert(r) ==
  /\ request[r] = "cloned"
  /\ request' = [request EXCEPT ![r] = "sending"]
  /\ pending' = pending \cup {r}
  /\ late' = IF on[r] \in Live THEN late ELSE late \cup {r}
  /\ UNCHANGED <<scenario, slot, shown, handler, signals, invalidations, loop, conns,
                 setters, on, arrived, owner>>

IntoChannel(r) ==
  /\ request[r] = "sending" /\ on[r] \in writing /\ HasRoom(on[r])
  /\ outbox' = [outbox EXCEPT ![on[r]] = Append(@, r)]
  /\ request' = [request EXCEPT ![r] = IF r \in pending THEN "waiting" ELSE "not_connected"]
  /\ UNCHANGED <<scenario, slot, shown, handler, signals, invalidations, loop, opened,
                 links, reading, answering, writing, aborted, deaf, registered, setters,
                 on, pending, arrived, late, owner>>

ChannelClosed(r) ==
  /\ request[r] = "sending" /\ on[r] \notin writing
  /\ request' = [request EXCEPT ![r] = "closed"]
  /\ UNCHANGED <<scenario, slot, shown, handler, signals, invalidations, loop, conns,
                 setters, on, pending, arrived, late, owner>>

\* read_loop with PendingRequests::resolve
Answer(r) ==
  /\ request[r] = "waiting" /\ r \in pending \cap arrived
  /\ on[r] \in (reading \cap peer) \ answering
  /\ request' = [request EXCEPT ![r] = "answered"]
  /\ pending' = pending \ {r}
  /\ UNCHANGED <<scenario, slot, shown, handler, signals, invalidations, loop, conns,
                 setters, on, arrived, late, owner>>

\* Mutant: only the connection's tasks keep the time.
TimerWithTasks(r) == request[r] = "waiting" /\ on[r] \in reading

TimerRuns(r) == request[r] = "waiting"

TimeOut(r) ==
  /\ TimerRuns(r)
  /\ request' = [request EXCEPT ![r] = "timeout"]
  /\ UNCHANGED <<scenario, slot, shown, handler, signals, invalidations, loop, conns,
                 setters, on, pending, arrived, late, owner>>

SetHandler(s) ==
  /\ s \in scenario.cast /\ setter[s] = "idle"
  /\ handler' = s
  /\ setter' = [setter EXCEPT ![s] = "wrote"]
  /\ UNCHANGED <<scenario, slot, shown, signals, invalidations, loop, conns,
                 target, overtaken, requests, owner>>

SetTakesClient(s) ==
  /\ setter[s] = "wrote"
  /\ target' = [target EXCEPT ![s] = slot]
  /\ setter' = [setter EXCEPT ![s] = IF slot = 0 THEN "done" ELSE "took"]
  /\ overtaken' = (overtaken \/ (slot = 0 /\ pc = "storing"))
  /\ UNCHANGED <<scenario, slot, shown, handler, signals, invalidations, loop,
                 conns, requests, owner>>

SetRegisters(s) ==
  /\ setter[s] = "took"
  /\ registered' = [registered EXCEPT ![target[s]] = s]
  /\ setter' = [setter EXCEPT ![s] = "done"]
  /\ UNCHANGED <<scenario, slot, shown, handler, signals, invalidations, loop,
                 opened, links, tasks, target, overtaken, requests, owner>>

Invalidate ==
  /\ invalidations < MaxInvalidations
  /\ invalidations' = invalidations + 1 /\ signals' = signals + 1
  /\ UNCHANGED <<scenario, slot, shown, handler, loop, conns, setters, requests,
                 owner>>

-----------------------------------------------------------------------------
(* reconnect_loop *)

Goto(from, to) == pc = from /\ pc' = to

TakeCurrent ==
  /\ Goto("top", IF slot = 0 THEN "clearing" ELSE "watching")
  /\ current' = slot
  /\ UNCHANGED <<scenario, dropped, slot, shown, handler, signals, invalidations,
                 attempt, conns, setters, requests, owner>>

\* Mutant: the client is dropped, but not shut.
DropClient(n) == UNCHANGED <<aborted, request, pending>>

\* force_disconnect
ForceDisconnect(n) == Shut(n)

SeeInvalidation ==
  /\ Goto("watching", "clearing")
  /\ ~Aborted /\ signals > 0
  /\ signals' = signals - 1
  /\ ForceDisconnect(current)
  /\ current' = 0
  /\ UNCHANGED <<scenario, dropped, slot, shown, handler, invalidations, attempt,
                 opened, links, reading, answering, writing, outbox, deaf, registered,
                 setters, on, arrived, late, owner>>

ClearSlot ==
  /\ Goto("clearing", "reporting_lost")
  /\ slot' = 0
  /\ UNCHANGED <<scenario, dropped, shown, handler, signals, invalidations,
                 current, attempt, conns, setters, requests, owner>>

ReportLost ==
  /\ Goto("reporting_lost", "attempt")
  /\ shown' = FALSE
  /\ attempt' = 0
  /\ UNCHANGED <<scenario, dropped, slot, handler, signals, invalidations, current,
                 conns, setters, requests, owner>>

\* Mutant: no limit is read as none allowed.
NoneAllowed == attempt < max_attempts

AttemptsLeft == max_attempts = 0 \/ attempt < max_attempts

\* The number matters only for a policy with a limit.
BeginAttempt ==
  /\ Goto("attempt", IF AttemptsLeft THEN "waiting" ELSE "gave_up")
  /\ attempt' = IF AttemptsLeft /\ max_attempts # 0 THEN attempt + 1 ELSE attempt
  /\ UNCHANGED <<scenario, dropped, slot, shown, handler, signals, invalidations,
                 current, conns, setters, requests, owner>>

\* The delay is over; connect_with_stream has spawned the tasks and sent initialize.
DialSucceeds ==
  /\ Goto("waiting", "handshaking")
  /\ ~Aborted /\ opened < scenario.opens
  /\ opened' = opened + 1
  /\ current' = opened'
  /\ peer' = peer \cup {opened'}
  /\ reading' = reading \cup {opened'} /\ writing' = writing \cup {opened'}
  /\ UNCHANGED <<scenario, dropped, slot, shown, handler, signals, invalidations,
                 attempt, link, losses, answering, outbox, aborted, deaf, registered,
                 setters, requests, owner>>

DialFails ==
  /\ Goto("waiting", "attempt")
  /\ ~Aborted
  /\ UNCHANGED <<scenario, dropped, slot, shown, handler, signals, invalidations,
                 current, attempt, conns, setters, requests, owner>>

\* The connection is dropped; its tasks are not.
HandshakeFails ==
  /\ Goto("handshaking", "attempt")
  /\ ~Aborted
  /\ current' = 0 /\ dropped' = dropped \cup {current}
  /\ UNCHANGED <<scenario, slot, shown, handler, signals, invalidations, attempt,
                 conns, setters, requests, owner>>

HandshakeSucceeds ==
  /\ Goto("handshaking", "registering")
  /\ ~Aborted /\ current \in reading
  /\ UNCHANGED <<scenario, dropped, slot, shown, handler, signals, invalidations,
                 current, attempt, conns, setters, requests, owner>>

\* Mutant: the new client is left without.
NoHandler == None

LatestHandler == handler

Register ==
  /\ Goto("registering", "storing")
  /\ registered' = [registered EXCEPT ![current] = LatestHandler]
  /\ UNCHANGED <<scenario, dropped, slot, shown, handler, signals, invalidations,
                 current, attempt, opened, links, tasks, setters, requests, owner>>

Store ==
  /\ Goto("storing", "reporting_connected")
  /\ slot' = current
  /\ current' = 0
  /\ UNCHANGED <<scenario, dropped, shown, handler, signals, invalidations,
                 attempt, conns, setters, requests, owner>>

\* Mutant: signals of the time before are thrown away.
DrainSignals == signals' = 0

KeepSignals == UNCHANGED signals

ReportConnected ==
  /\ Goto("reporting_connected", "top")
  /\ shown' = TRUE
  /\ KeepSignals
  /\ UNCHANGED <<scenario, dropped, slot, handler, invalidations, current, attempt,
                 conns, setters, requests, owner>>

-----------------------------------------------------------------------------
(* shutdown *)

Shutdown ==
  /\ stop = "idle"
  /\ stop' = "aborting"
  /\ UNCHANGED <<scenario, slot, shown, handler, signals, invalidations, loop,
                 conns, setters, requests, stopped>>

\* What the loop holds, it drops.
LoopCancelled ==
  /\ Aborted /\ pc \in {"watching", "waiting", "handshaking"}
  /\ pc' = "cancelled" /\ current' = 0
  /\ dropped' = IF pc = "handshaking" THEN dropped \cup {current} ELSE dropped
  /\ UNCHANGED <<scenario, slot, shown, handler, signals, invalidations, attempt,
                 conns, setters, requests, owner>>

ShutdownTakes ==
  /\ stop = "aborting"
  /\ stop' = IF slot = 0 THEN "reporting" ELSE "disconnecting"
  /\ stopped' = slot /\ slot' = 0
  /\ UNCHANGED <<scenario, shown, handler, signals, invalidations, loop, conns,
                 setters, requests>>

\* disconnect shuts the connection only if its clone is the last.
LastClone ==
  /\ current # stopped
  /\ \A s \in Setters : setter[s] = "took" => target[s] # stopped
  /\ \A r \in Requests : InCall(r) => on[r] # stopped

ShutdownDisconnects ==
  /\ stop = "disconnecting"
  /\ stop' = "reporting" /\ stopped' = 0
  /\ \/ LastClone /\ Shut(stopped)
     \/ ~LastClone /\ UNCHANGED <<aborted, request, pending>>
  /\ UNCHANGED <<scenario, slot, shown, handler, signals, invalidations, loop,
                 opened, links, reading, answering, writing, outbox, deaf, registered,
                 setters, on, arrived, late>>

ShutdownReports ==
  /\ stop = "reporting"
  /\ stop' = "done"
  /\ shown' = FALSE
  /\ UNCHANGED <<scenario, slot, handler, signals, invalidations, loop, conns,
                 setters, requests, stopped>>

-----------------------------------------------------------------------------

Loop ==
  \/ TakeCurrent \/ SeeInvalidation \/ ClearSlot \/ ReportLost \/ BeginAttempt
  \/ Register \/ Store \/ ReportConnected \/ LoopCancelled
Dial == DialSucceeds \/ DialFails
Handshake == HandshakeSucceeds \/ HandshakeFails
Setting(s) == SetTakesClient(s) \/ SetRegisters(s)
Stopping == ShutdownTakes \/ ShutdownDisconnects \/ ShutdownReports
Reader(n) == ReadLoopEnds(n) \/ DiscoveryComes(n) \/ DiscoveryAnswered(n)
Writer(n) == WriteFrame(n) \/ WriteLoopEnds(n)
Sending(r) == Insert(r) \/ IntoChannel(r) \/ ChannelClosed(r) \/ TimeOut(r)

Next ==
  \/ Loop \/ Dial \/ Handshake
  \/ \E n \in Conns : PeerCloses(n) \/ Reader(n) \/ Writer(n) \/ TasksEnd(n)
  \/ \E r \in Requests : SendRequest(r) \/ Sending(r) \/ Answer(r)
  \/ \E s \in Setters : SetHandler(s) \/ Setting(s)
  \/ Invalidate \/ Shutdown \/ Stopping

Spec == Init /\ [][Next]_vars

\* Tasks are polled and time passes; the peer can be reached now and then.  Those who
\* wait for room get it in the order they came (tokio::sync::mpsc).
FairSpec ==
  /\ Spec
  /\ WF_vars(Loop) /\ WF_vars(Dial) /\ WF_vars(Handshake) /\ WF_vars(Stopping)
  /\ SF_vars(DialSucceeds) /\ SF_vars(HandshakeSucceeds)
  /\ \A n \in Conns : WF_vars(Writer(n)) /\ WF_vars(TasksEnd(n))
  /\ \A r \in Requests : WF_vars(Sending(r)) /\ SF_vars(IntoChannel(r))
  /\ \A s \in Setters : WF_vars(Setting(s))

-----------------------------------------------------------------------------

\* A connection that was recycled is gone: one that still runs is held by somebody,
\* or the loop dropped it at the handshake, or it was in use at shutdown
\* (force_disconnect).
NoStrays ==
  \A n \in Live \cap peer : Held(n) \/ n \in dropped \/ Aborted

\* An invalidation replaces the client that was there, whenever it comes and
\* however far the loop is (the channel of reconnect_loop).
InvalidationRecycles ==
  \A n \in Conns : (slot = n /\ signals > 0) ~> (slot # n \/ Aborted)

\* With an unlimited policy a client that is gone is followed by another one,
\* however many handshakes fail (reconnect_loop, its inner loop).
ClientComesBack ==
  (slot = 0 /\ max_attempts = 0) ~> (slot # 0 \/ Aborted \/ opened = scenario.opens)

\* Of those that wait for an answer only two kinds wait for their timeout, one sent
\* after the end of its connection and one whose reader ended at an answer it could not
\* send; the others are told at once (read_loop, shutdown_ref).
ToldAtOnce(r) ==
  request[r] = "waiting" /\ r \notin late => on[r] \in Live \cup (deaf \ aborted)

\* Every call of send_request returns, but one that finds the channel full while the
\* peer does not read: no time is kept before the request is in the channel
\* (handle.rs, send_request).  Who waits when its connection ends is told.
RequestsSettle ==
  \A r \in Requests :
    /\ []ToldAtOnce(r)
    /\ InCall(r) ~> (~InCall(r) \/ (request[r] = "sending" /\ link[on[r]] = "stalled"))

\* With nobody in the middle of setting a handler, and none set while the loop was
\* between its look at the handler and the store, the client in the slot has a
\* handler ("It will be re-registered on reconnect").
HandlerIsRegistered ==
  ( /\ \A s \in Setters : setter[s] \in {"idle", "done"}
    /\ slot # 0 /\ handler # None /\ ~overtaken )
    => registered[slot] # None
=============================================================================
