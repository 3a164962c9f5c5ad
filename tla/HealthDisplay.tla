---------------------------- MODULE HealthDisplay ----------------------------
(***************************************************************************)
(* What the store shows as the health of one server.  It is written from   *)
(* four sides: by the calls that connect or remove the server, directly;   *)
(* by the health reader of each session, through the event channel and the *)
(* store listener; by requests that fail, directly; and by those a session *)
(* that was replaced has under way.                                        *)
(*                                                                         *)
(* Connects come one at a time and disconnect waits for them (the gate); a *)
(* restart does not.  Tasks run on several threads, so that others come    *)
(* between any two statements that touch shared state.                     *)
(***************************************************************************)
EXTENDS Naturals, Sequences

CONSTANTS
  MaxSessions,   \* model bound: sessions that are opened
  AppRequests,   \* requests of the application
  Scenarios      \* who acts besides the connects, how many sessions are opened, over
                 \* SSH or not, how many connections are lost and events missed

Sessions == 1..MaxSessions
Removals == {"disconnect", "restart"}

ASSUME HealthAssumption ==
  /\ MaxSessions \in Nat
  /\ Scenarios \subseteq [cast : SUBSET (AppRequests \cup Removals),
                          sessions : 0..MaxSessions, ssh : SUBSET BOOLEAN,
                          losses : Nat, lags : Nat]

VARIABLES
  scenario,
  current,          \* the session in MobileClient::sessions, 0 for none
  opened,           \* sessions opened so far
  link_health,      \* watch channel of each session: the health of its connection
  unread,           \* has its reader a change to see
  runtime,          \* runtime worker of each session
  losses,
  reader, got,      \* health reader of each session, the value it has read
  extra,            \* events it emitted after its session had been replaced (history)
  events,           \* ConnectionStateChanged events on their way: <<session, health>>
  lags,
  shown,            \* health of the server in the store, "none" if it is not there
  progress,         \* connection_progress of the server is Some
  writer,           \* the session shown stems from, 0 if it is another's word (history)
  connect, by_ssh,  \* progress of the connect, has it set connection_progress
  removal, taken,   \* disconnect and restart, the session each took out of the map
  request, on       \* state of each request, its session

channel == <<link_health, unread>>
readers == <<reader, got, extra>>
coming == <<events, lags>>
store == <<shown, progress, writer>>
connecting == <<connect, by_ssh>>
removing == <<removal, taken>>
asking == <<request, on>>
healthVars == <<scenario, current, opened, channel, runtime, losses, readers, coming,
                store, connecting, removing, asking>>

Healths == {"connected", "connecting", "disconnected"}

HealthTypeOK ==
  /\ scenario \in Scenarios
  /\ current \in 0..opened /\ opened \in 0..MaxSessions /\ losses \in 0..scenario.losses
  /\ link_health \in [Sessions -> Healths] /\ unread \in [Sessions -> BOOLEAN]
  /\ runtime \in [Sessions -> {"up", "reconnecting", "dead"}]
  /\ reader \in [Sessions -> {"none", "start", "top", "checked", "read", "waiting", "over"}]
  /\ got \in [Sessions -> Healths] /\ extra \in [Sessions -> Nat]
  /\ events \in Seq(Sessions \X Healths) /\ lags \in 0..scenario.lags
  /\ shown \in Healths \cup {"none"} /\ progress \in BOOLEAN /\ writer \in 0..opened
  /\ connect \in {"idle", "preparing", "replacing", "dialing", "attaching", "inserting", "ending"}
  /\ by_ssh \in BOOLEAN
  /\ removal \in [Removals -> {"idle", "took", "removed", "done"}]
  /\ taken \in [Removals -> 0..opened]
  /\ request \in [AppRequests -> {"idle", "sent", "failed", "over"}]
  /\ on \in [AppRequests -> 0..opened]

HealthInit ==
  /\ scenario \in Scenarios
  /\ current = 0 /\ opened = 0 /\ losses = 0
  /\ link_health = [n \in Sessions |-> "connected"] /\ unread = [n \in Sessions |-> TRUE]
  /\ runtime = [n \in Sessions |-> "up"]
  /\ reader = [n \in Sessions |-> "none"]
  /\ got = [n \in Sessions |-> "connected"] /\ extra = [n \in Sessions |-> 0]
  /\ events = <<>> /\ lags = 0
  /\ shown = "none" /\ progress = FALSE /\ writer = 0
  /\ connect = "idle" /\ by_ssh = FALSE
  /\ removal = [c \in Removals |-> "idle"]
  /\ taken = [c \in Removals |-> 0]
  /\ request = [r \in AppRequests |-> "idle"] /\ on = [r \in AppRequests |-> 0]

-----------------------------------------------------------------------------
(* The watch channel of a session, and its worker *)

\* Mutant: only a change of the value is noticed.
Notify(n, h) ==
  /\ link_health' = [link_health EXCEPT ![n] = h]
  /\ unread' = [unread EXCEPT ![n] = @ \/ link_health[n] # h]

\* watch::Sender::send: each value counts as a change, an equal one too.
Send(n, h) ==
  /\ link_health' = [link_health EXCEPT ![n] = h]
  /\ unread' = [unread EXCEPT ![n] = TRUE]

Opened == 1..opened

WorkerLoses(n) ==
  /\ n \in Opened /\ runtime[n] = "up" /\ losses < scenario.losses
  /\ losses' = losses + 1
  /\ runtime' = [runtime EXCEPT ![n] = "reconnecting"]
  /\ Send(n, "connecting")
  /\ UNCHANGED <<scenario, current, opened, readers, coming, store, connecting, removing,
                 asking>>

\* The attempts end one way or the other (reconnect_remote_client), for a session
\* that is being closed as well.
WorkerSettles(n) ==
  /\ runtime[n] = "reconnecting"
  /\ \/ runtime' = [runtime EXCEPT ![n] = "up"] /\ Send(n, "connected")
     \/ runtime' = [runtime EXCEPT ![n] = "dead"] /\ Send(n, "disconnected")
  /\ UNCHANGED <<scenario, current, opened, losses, readers, coming, store, connecting,
                 removing, asking>>

-----------------------------------------------------------------------------
(* The health reader *)

Move(n, pc) == reader' = [reader EXCEPT ![n] = pc]

\* emit_connection_state; what a reader still says of a session that is gone is counted.
Emit(n, h) ==
  /\ events' = Append(events, <<n, h>>)
  /\ extra' = IF current = n THEN extra ELSE [extra EXCEPT ![n] = @ + 1]
  /\ UNCHANGED lags

\* Mutant: only the first look asks.
AlwaysCurrent(n) == TRUE

\* session_is_current
IsCurrent(n) == current = n

ReaderStarts(n) ==
  /\ reader[n] = "start"
  /\ \/ current = n /\ Move(n, "top") /\ Emit(n, "connecting")
     \/ current # n /\ Move(n, "over") /\ UNCHANGED <<extra, coming>>
  /\ UNCHANGED <<scenario, current, opened, channel, runtime, losses, got, store,
                 connecting, removing, asking>>

ReaderChecks(n) ==
  /\ reader[n] = "top"
  /\ Move(n, IF IsCurrent(n) THEN "checked" ELSE "over")
  /\ UNCHANGED <<scenario, current, opened, channel, runtime, losses, got, extra,
                 coming, store, connecting, removing, asking>>

\* Mutant: the look marks the change as seen after the value was taken.
SeenLate(n) == [unread EXCEPT ![n] = FALSE]

\* borrow() leaves the change marked as not seen.
SeenAtEmit(n) == unread

ReaderReads(n) ==
  /\ reader[n] = "checked"
  /\ Move(n, "read")
  /\ got' = [got EXCEPT ![n] = link_health[n]]
  /\ UNCHANGED <<scenario, current, opened, channel, runtime, losses, extra, coming,
                 store, connecting, removing, asking>>

ReaderEmits(n) ==
  /\ reader[n] = "read"
  /\ Move(n, "waiting")
  /\ Emit(n, got[n])
  /\ unread' = SeenAtEmit(n)
  /\ UNCHANGED <<scenario, current, opened, link_health, runtime, losses, got, store,
                 connecting, removing, asking>>

\* changed().  The reader holds its session, so that the channel stays open.
ReaderWakes(n) ==
  /\ reader[n] = "waiting" /\ unread[n]
  /\ unread' = [unread EXCEPT ![n] = FALSE]
  /\ Move(n, "top")
  /\ UNCHANGED <<scenario, current, opened, link_health, runtime, losses, got, extra,
                 coming, store, connecting, removing, asking>>

-----------------------------------------------------------------------------
(* The store *)

\* update_server_health, for a server that is there; the word of a call or a request.
Report(h) ==
  /\ shown' = IF shown = "none" THEN "none" ELSE h
  /\ writer' = 0

\* remove_server
Remove == shown' = "none" /\ progress' = FALSE /\ writer' = 0

\* A server that is being connected over SSH is not shown as disconnected.
Masked(h) == progress /\ h = "disconnected"

\* apply_ui_event, ConnectionStateChanged
ApplyEvent ==
  /\ events # <<>>
  /\ events' = Tail(events)
  /\ LET n == Head(events)[1]
         h == Head(events)[2]
     IN \/ shown = "none" /\ UNCHANGED <<shown, writer>>
        \/ /\ shown # "none"
           /\ shown' = IF Masked(h) THEN "connecting" ELSE h
           /\ writer' = IF Masked(h) THEN 0 ELSE n
  /\ UNCHANGED <<scenario, current, opened, channel, runtime, losses, readers, lags,
                 progress, connecting, removing, asking>>

\* Lagged: other events have pushed it out of the broadcast channel.
MissEvent ==
  /\ events # <<>> /\ lags < scenario.lags
  /\ events' = Tail(events) /\ lags' = lags + 1
  /\ writer' = 0
  /\ UNCHANGED <<scenario, current, opened, channel, runtime, losses, readers, shown,
                 progress, connecting, removing, asking>>

-----------------------------------------------------------------------------
(* connect_remote_over_alleycat, connect_remote_over_ssh *)

GateIsFree == connect = "idle" /\ removal["disconnect"] \in {"idle", "done"}

\* upsert_server keeps the progress that is there.
Prepare ==
  /\ GateIsFree /\ opened < scenario.sessions
  /\ by_ssh' \in scenario.ssh
  /\ connect' = IF by_ssh' THEN "preparing" ELSE "replacing"
  /\ shown' = "connecting" /\ writer' = 0
  /\ UNCHANGED <<scenario, current, opened, channel, runtime, losses, readers, coming,
                 progress, removing, asking>>

\* update_server_connection_progress, for a server that is still there
SetProgress ==
  /\ connect = "preparing"
  /\ connect' = "replacing"
  /\ progress' = (shown # "none")
  /\ UNCHANGED <<scenario, current, opened, channel, runtime, losses, readers, coming,
                 shown, writer, by_ssh, removing, asking>>

\* replace_existing_session, up to the first await of disconnect_inner
Replace ==
  /\ connect = "replacing"
  /\ connect' = "dialing"
  /\ current' = 0
  /\ IF current = 0 THEN UNCHANGED channel ELSE Send(current, "disconnected")
  /\ UNCHANGED <<scenario, opened, runtime, losses, readers, coming, store, by_ssh,
                 removing, asking>>

\* An SSH connection that cannot be opened is not reported.
DialFails ==
  /\ connect = "dialing"
  /\ \/ Report("disconnected") /\ connect' = "ending"
     \/ by_ssh /\ connect' = "idle" /\ UNCHANGED <<shown, writer>>
  /\ UNCHANGED <<scenario, current, opened, channel, runtime, losses, readers, coming,
                 progress, by_ssh, removing, asking>>

\* connect_remote_multiplexed
DialSucceeds ==
  /\ connect = "dialing"
  /\ connect' = "attaching"
  /\ opened' = opened + 1
  /\ UNCHANGED <<scenario, current, channel, runtime, losses, readers, coming, store,
                 by_ssh, removing, asking>>

\* attach_remote_session, upsert_server: the first word of the new session
Attach ==
  /\ connect = "attaching"
  /\ connect' = "inserting"
  /\ shown' = "connected" /\ writer' = opened
  /\ UNCHANGED <<scenario, current, opened, channel, runtime, losses, readers, coming,
                 progress, by_ssh, removing, asking>>

\* attach_remote_session, from the insertion on
Insert ==
  /\ connect = "inserting"
  /\ connect' = "ending"
  /\ current' = opened
  /\ Move(opened, "start")
  /\ UNCHANGED <<scenario, opened, channel, runtime, losses, got, extra, coming, store,
                 by_ssh, removing, asking>>

EndConnect ==
  /\ connect = "ending"
  /\ connect' = "idle"
  /\ progress' = (progress /\ ~by_ssh)
  /\ UNCHANGED <<scenario, current, opened, channel, runtime, losses, readers, coming,
                 shown, writer, by_ssh, removing, asking>>

-----------------------------------------------------------------------------
(* disconnect_server and restart_app_server *)

Take(c) ==
  /\ c \in scenario.cast /\ removal[c] = "idle"
  /\ c = "disconnect" => GateIsFree
  /\ removal' = [removal EXCEPT ![c] = "took"]
  /\ taken' = [taken EXCEPT ![c] = current]
  /\ current' = 0
  /\ UNCHANGED <<scenario, opened, channel, runtime, losses, readers, coming, store,
                 connecting, asking>>

RemoveServer(c) ==
  /\ removal[c] = "took"
  /\ removal' = [removal EXCEPT ![c] = "removed"]
  /\ Remove
  /\ UNCHANGED <<scenario, current, opened, channel, runtime, losses, readers, coming,
                 connecting, taken, asking>>

CloseTaken(c) ==
  /\ removal[c] = "removed"
  /\ removal' = [removal EXCEPT ![c] = "done"]
  /\ IF taken[c] = 0 THEN UNCHANGED channel ELSE Send(taken[c], "disconnected")
  /\ UNCHANGED <<scenario, current, opened, runtime, losses, readers, coming, store,
                 connecting, taken, asking>>

-----------------------------------------------------------------------------
(* Requests: get_session, reconcile_transport_error *)

\* Without a session the request fails at once.
Ask(r) ==
  /\ r \in scenario.cast /\ request[r] = "idle"
  /\ on' = [on EXCEPT ![r] = current]
  /\ request' = [request EXCEPT ![r] = IF current = 0 THEN "failed" ELSE "sent"]
  /\ UNCHANGED <<scenario, current, opened, channel, runtime, losses, readers, coming,
                 store, connecting, removing>>

\* The connection it was sent on is closed, or is lost and its repetition fails too;
\* the worker may speak of the loss before or after.
Fail(r) ==
  /\ request[r] = "sent"
  /\ request' = [request EXCEPT ![r] = "failed"]
  /\ UNCHANGED <<scenario, current, opened, channel, runtime, losses, readers, coming,
                 store, connecting, removing, on>>

MarkDisconnected(r) ==
  /\ request[r] = "failed"
  /\ request' = [request EXCEPT ![r] = "over"]
  /\ Report("disconnected") /\ UNCHANGED progress
  /\ UNCHANGED <<scenario, current, opened, channel, runtime, losses, readers, coming,
                 connecting, removing, on>>

-----------------------------------------------------------------------------

Reading(n) ==
  ReaderStarts(n) \/ ReaderChecks(n) \/ ReaderReads(n) \/ ReaderEmits(n) \/ ReaderWakes(n)
Connecting ==
  SetProgress \/ Replace \/ DialFails \/ DialSucceeds \/ Attach \/ Insert \/ EndConnect
Removing(c) == RemoveServer(c) \/ CloseTaken(c)

HealthNext ==
  \/ Prepare \/ Connecting
  \/ \E n \in Sessions : WorkerLoses(n) \/ WorkerSettles(n) \/ Reading(n)
  \/ ApplyEvent \/ MissEvent
  \/ \E c \in Removals : Take(c) \/ Removing(c)
  \/ \E r \in AppRequests : Ask(r) \/ Fail(r) \/ MarkDisconnected(r)

HealthSpec == HealthInit /\ [][HealthNext]_healthVars

\* Tasks that can go on are polled, and the listener takes what comes.
FairHealthSpec ==
  /\ HealthSpec
  /\ WF_healthVars(ApplyEvent) /\ WF_healthVars(Connecting)
  /\ \A n \in Sessions : WF_healthVars(Reading(n))
  /\ \A c \in Removals : WF_healthVars(Removing(c))

-----------------------------------------------------------------------------

\* Nothing old stays on screen: once the attach or the reader of the session in the
\* map has had the last word, the store comes to show the health of that session,
\* however its events cross with what calls, requests and old sessions write.
HealthIsShown ==
  \A n \in Sessions :
    []<>(current = n /\ writer = n => shown = link_health[n])

\* The reader of a session that is no longer in the map ends, and lets go of the
\* session it holds (spawn_health_reader, "exiting for stale server session").
ReadersEnd ==
  \A n \in Sessions :
    (reader[n] # "none" /\ current # n) ~> (reader[n] = "over")

\* A session that has been replaced is heard of at most once more: by the event of a
\* reader that had looked just before.
SpeaksOnceMore == \A n \in Sessions : extra[n] <= 1
=============================================================================
