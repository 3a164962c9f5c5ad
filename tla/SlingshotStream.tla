--------------------------- MODULE SlingshotStream ---------------------------
(***************************************************************************)
(* One SlingshotJsonLineStream (codex-slingshot/src/stream.rs): a byte     *)
(* stream of JSON lines over a relay's websocket, which is lost and opened *)
(* again underneath.  Every line becomes one message with a sequence id of *)
(* its own, so that line n carries id n; a large one is split into several *)
(* envelopes that share the id.  Envelopes stay in the replay queue until  *)
(* they are acknowledged and are sent again after a reconnection.  In the  *)
(* other direction the client names the last cursor it has seen, and the   *)
(* relay goes on behind it.                                                *)
(*                                                                         *)
(* The relay is external.  It is what the client's protocol needs it to    *)
(* be: it takes a message once, by its sequence id, acknowledges whole     *)
(* messages, all up to an id at once, and resumes its own log strictly     *)
(* after the cursor.  Each envelope of that log has a cursor, its index.   *)
(*                                                                         *)
(* Writes are whole lines: JsonLineWire writes the line and its newline,   *)
(* and nothing leaves before the newline.  So the command channel holds    *)
(* the lines from next_sequence_id to written and then, if it was sent,    *)
(* the shutdown.  The readers of the two legacy envelope formats are not   *)
(* called.                                                                 *)
(***************************************************************************)
EXTENDS Naturals, Sequences, SequencesExt, Retaining

CONSTANTS
  MaxLines,   \* model bound: lines the application writes
  Segments,   \* envelopes of each line; 0: it exceeds the size limit
  ServerLogs, \* what the relay may have for this client: its envelopes in order
  MaxBreaks   \* model bound: connections that are lost

Lines == 1..MaxLines

\* The relay logs every chunk of a message once, and each says of how many it is.
WellCut(log) ==
  \A i, j \in 1..Len(log) :
    /\ log[i].seg <= log[i].of
    /\ log[i].msg = log[j].msg => log[i].of = log[j].of
    /\ log[i].msg = log[j].msg /\ log[i].seg = log[j].seg => i = j

ASSUME SlingshotAssumption ==
  /\ MaxLines \in Nat /\ MaxBreaks \in Nat
  /\ Segments \in [Lines -> Nat]
  /\ ServerLogs \subseteq Seq([msg : Nat, seg : Nat \ {0}, of : Nat \ {0},
                               kind : {"good", "bad", "undecodable"}])
  /\ \A log \in ServerLogs : WellCut(log)

VARIABLES
  written,            \* lines the application has written
  shutdown_sent,
  server_log,         \* the relay's log, one of ServerLogs
  task,               \* the control loop: "offline", "online" or "ended"
  breaks,             \* connections lost so far
  next_sequence_id,
  wire_replay_queue,
  cut,                \* lines whose sending failed between two envelopes (history)
  cursor,             \* current_subscribe_cursor, 0 for none
  chunk_assemblies,   \* chunks held, <<message, segment>>
  delivered,          \* messages put into inbound_tx
  up,                 \* envelopes on their way to the relay
  down,               \* acknowledgements and log entries on their way back
  taken,              \* the relay: the highest id it has taken
  held,               \* chunks it holds
  accepted,           \* lines it has handed to the app server
  closed,             \* client_closed has arrived
  sent_pos            \* index of the log entry sent last on this connection

app == <<written, shutdown_sent, server_log>>
state == <<next_sequence_id, wire_replay_queue, cut>>
inbound == <<cursor, chunk_assemblies, delivered>>
relay == <<taken, held, accepted, closed>>
streamVars == <<written, shutdown_sent, server_log, task, breaks, next_sequence_id,
                wire_replay_queue, cut, cursor, chunk_assemblies, delivered, up, down,
                taken, held, accepted, closed, sent_pos>>

Envelopes == [seq : Nat \ {0}, seg : Nat]
Positions == 0..Len(server_log)
Acks == [ack : BOOLEAN, id : Nat]
Ack(id) == [ack |-> TRUE, id |-> id]
Entry(pos) == [ack |-> FALSE, id |-> pos]

StreamTypeOK ==
  /\ written \in 0..MaxLines
  /\ shutdown_sent \in BOOLEAN
  /\ server_log \in ServerLogs
  /\ task \in {"offline", "online", "ended"}
  /\ breaks \in 0..MaxBreaks
  /\ next_sequence_id \in 1..(written + IF task = "ended" THEN 2 ELSE 1)
  /\ wire_replay_queue \in Seq(Envelopes)
  /\ cut \subseteq Lines
  /\ cursor \in Positions
  /\ chunk_assemblies \subseteq Nat \X (Nat \ {0})
  /\ delivered \in Seq(Nat)
  /\ up \in Seq(Envelopes)
  /\ down \in Seq(Acks)
  /\ taken \in 0..MaxLines
  /\ held \subseteq Lines \X (Nat \ {0})
  /\ accepted \in Seq(Lines)
  /\ closed \in BOOLEAN
  /\ sent_pos \in Positions

\* SlingshotJsonLineStream::connect, ControlState::new
StreamInit ==
  /\ written = 0 /\ shutdown_sent = FALSE /\ server_log \in ServerLogs
  /\ task = "offline" /\ breaks = 0
  /\ next_sequence_id = 1 /\ wire_replay_queue = <<>> /\ cut = {}
  /\ cursor = 0 /\ chunk_assemblies = {} /\ delivered = <<>>
  /\ up = <<>> /\ down = <<>>
  /\ taken = 0 /\ held = {} /\ accepted = <<>> /\ closed = FALSE /\ sent_pos = 0

-----------------------------------------------------------------------------
(* The application's end: JsonLineWire, poll_write, poll_shutdown, drop. *)

Write ==
  /\ written < MaxLines
  /\ ~shutdown_sent /\ task # "ended"
  /\ written' = written + 1
  /\ UNCHANGED <<shutdown_sent, server_log, task, breaks, state, inbound, up, down, relay, sent_pos>>

\* poll_flush does nothing, and poll_shutdown does not wait either.
PollShutdown ==
  /\ ~shutdown_sent /\ task # "ended"
  /\ shutdown_sent' = TRUE
  /\ UNCHANGED <<written, server_log, task, breaks, state, inbound, up, down, relay, sent_pos>>

\* The loop is aborted wherever it waits.
Drop ==
  /\ task # "ended"
  /\ task' = "ended" /\ down' = <<>>
  /\ UNCHANGED <<app, breaks, state, inbound, up, relay, sent_pos>>

-----------------------------------------------------------------------------
(* The control loop.  While it is offline it takes no command. *)

Offline == task' = "offline" /\ down' = <<>>

Lost == breaks < MaxBreaks /\ breaks' = breaks + 1 /\ Offline

\* Mutant: what was sent once is not sent again.
NoReplay == <<>>

Replay == wire_replay_queue

\* A connection is open and k envelopes of the replay have been sent.
Connect(k) ==
  /\ task = "offline"
  /\ k <= Len(Replay)
  /\ up' = SubSeq(Replay, 1, k)
  /\ sent_pos' = cursor
  /\ \/ k = Len(Replay) /\ task' = "online" /\ UNCHANGED <<breaks, down>>
     \/ k < Len(Replay) /\ Lost
  /\ UNCHANGED <<app, state, inbound, relay>>

\* A failed ping, no pong in time, a close frame, the end of the stream.
Break ==
  /\ task = "online"
  /\ Lost
  /\ UNCHANGED <<app, state, inbound, up, relay, sent_pos>>

\* allocate_sequence_id
NextId == next_sequence_id + 1

\* split_client_wire_envelope_for_transport, its first n envelopes
Split(id, n) == [i \in 1..n |-> [seq |-> id, seg |-> i]]

\* Mutant: an envelope is kept when it has been sent.
KeptAfterSend(sent) == sent

\* Each is kept before it is sent; the first failure ends the loop over them.
KeptBeforeSend(sent) == IF sent < Segments[next_sequence_id] THEN sent + 1 ELSE sent

PushBack(envelopes) == wire_replay_queue \o envelopes

\* Of the envelopes of the next line, the first "sent" have been sent.
HandleOutboundBytes(sent) ==
  LET line == next_sequence_id IN
  /\ task = "online"
  /\ line <= written
  /\ sent <= Segments[line]
  /\ cut' = IF sent + 1 < Segments[line] THEN cut \cup {line} ELSE cut
  /\ next_sequence_id' = NextId
  /\ wire_replay_queue' = PushBack(Split(line, KeptBeforeSend(sent)))
  /\ up' = up \o Split(line, sent)
  /\ \/ Segments[line] = 0 /\ Offline /\ UNCHANGED breaks
     \/ sent < Segments[line] /\ Lost
     \/ Segments[line] # 0 /\ sent = Segments[line] /\ UNCHANGED <<task, breaks, down>>
  /\ UNCHANGED <<app, inbound, relay, sent_pos>>

\* client_closed is sent once, well or badly, and the loop returns.
HandleShutdown(ok) ==
  /\ task = "online"
  /\ shutdown_sent /\ next_sequence_id = written + 1
  /\ up' = IF ok THEN Append(up, [seq |-> next_sequence_id, seg |-> 0]) ELSE up
  /\ next_sequence_id' = NextId
  /\ task' = "ended" /\ down' = <<>>
  /\ UNCHANGED <<app, breaks, wire_replay_queue, cut, inbound, relay, sent_pos>>

\* retain(seq_id > acked) drops the first k: ids never decrease along the queue.
Trims(acked, k) ==
  \A i \in 1..Len(wire_replay_queue) : wire_replay_queue[i].seq > acked <=> i > k

ReceiveAck ==
  /\ task = "online"
  /\ down # <<>> /\ Head(down).ack
  /\ down' = Tail(down)
  /\ \E k \in 0..Len(wire_replay_queue) :
       /\ Trims(Head(down).id, k)
       /\ wire_replay_queue' = SubSeq(wire_replay_queue, k + 1, Len(wire_replay_queue))
  /\ UNCHANGED <<app, task, breaks, next_sequence_id, cut, inbound, up, relay, sent_pos>>

Received == server_log[Head(down).id]
Incoming(kind) ==
  /\ task = "online"
  /\ down # <<>> /\ ~Head(down).ack
  /\ Received.kind = kind

\* Mutant: the cursor follows delivery.
LateCursor(ok) == cursor' = IF ok THEN Head(down).id ELSE cursor

\* The cursor moves before the envelope is looked at.
MoveCursor(ok) == cursor' = Head(down).id

\* ServerMessage and ServerMessageChunk; the last chunk completes its message.
Observe(e) ==
  LET chunks == chunk_assemblies \cup {<<e.msg, e.seg>>}
      whole == {e.msg} \X (1..e.of)
  IN \/ /\ whole \subseteq chunks
        /\ chunk_assemblies' = chunks \ whole
        /\ delivered' = Append(delivered, e.msg)
     \/ /\ ~(whole \subseteq chunks)
        /\ chunk_assemblies' = chunks
        /\ UNCHANGED delivered

ReceiveMessage ==
  /\ Incoming("good")
  /\ MoveCursor(TRUE)
  /\ Observe(Received)
  /\ down' = Tail(down)
  /\ UNCHANGED <<app, task, breaks, state, up, relay, sent_pos>>

\* An error in the handler, such as a chunk that is no base64, ends the connection.
ReceiveBad ==
  /\ Incoming("bad")
  /\ MoveCursor(FALSE)
  /\ Offline
  /\ UNCHANGED <<app, breaks, state, chunk_assemblies, delivered, up, relay, sent_pos>>

\* So does an envelope that does not parse, and it has no cursor to move.
ReceiveUndecodable ==
  /\ Incoming("undecodable")
  /\ Offline
  /\ UNCHANGED <<app, breaks, state, inbound, up, relay, sent_pos>>

-----------------------------------------------------------------------------
(* The relay and the app server behind it. *)

Acknowledge(id) == down' = IF task = "online" THEN Append(down, Ack(id)) ELSE down

RelayCloses ==
  /\ up # <<>> /\ Head(up).seg = 0
  /\ up' = Tail(up)
  /\ closed' = TRUE
  /\ UNCHANGED <<app, task, breaks, state, inbound, down, taken, held, accepted, sent_pos>>

\* The message was taken before; its acknowledgement may have been lost.
RelayTakesAgain ==
  /\ up # <<>> /\ Head(up).seg # 0 /\ Head(up).seq <= taken
  /\ up' = Tail(up)
  /\ Acknowledge(taken)
  /\ UNCHANGED <<app, task, breaks, state, inbound, relay, sent_pos>>

RelayTakes ==
  /\ up # <<>> /\ Head(up).seg # 0 /\ Head(up).seq > taken
  /\ up' = Tail(up)
  /\ LET id == Head(up).seq
         chunks == held \cup {<<id, Head(up).seg>>}
     IN \/ /\ \A i \in 1..Segments[id] : <<id, i>> \in chunks
           /\ taken' = id
           /\ held' = {c \in chunks : c[1] > id}
           /\ accepted' = Append(accepted, id)
           /\ Acknowledge(id)
        \/ /\ \E i \in 1..Segments[id] : <<id, i>> \notin chunks
           /\ held' = chunks
           /\ UNCHANGED <<taken, accepted, down>>
  /\ UNCHANGED <<app, task, breaks, state, inbound, closed, sent_pos>>

RelaySends ==
  /\ task = "online"
  /\ sent_pos < Len(server_log)
  /\ sent_pos' = sent_pos + 1
  /\ down' = Append(down, Entry(sent_pos + 1))
  /\ UNCHANGED <<app, task, breaks, state, inbound, up, relay>>

-----------------------------------------------------------------------------

Outbound == \E sent \in UNION {0..Segments[l] : l \in Lines} : HandleOutboundBytes(sent)
Closing == \E ok \in BOOLEAN : HandleShutdown(ok)
Receive == ReceiveAck \/ ReceiveMessage \/ ReceiveBad \/ ReceiveUndecodable
Reconnect == \E k \in 0..Len(Replay) : Connect(k)
Relay == RelayCloses \/ RelayTakesAgain \/ RelayTakes

StreamNext ==
  \/ Write \/ PollShutdown \/ Drop
  \/ Reconnect \/ Break
  \/ Outbound \/ Closing
  \/ Receive
  \/ Relay \/ RelaySends

StreamSpec == StreamInit /\ [][StreamNext]_streamVars

\* The loop is polled and connections can be opened; the relay does its work.
FairStream ==
  /\ StreamSpec
  /\ WF_streamVars(Reconnect) /\ WF_streamVars(Outbound) /\ WF_streamVars(Closing)
  /\ WF_streamVars(Receive) /\ WF_streamVars(Relay) /\ WF_streamVars(RelaySends)

-----------------------------------------------------------------------------

\* A line over the size limit is dropped; one whose sending failed between two of
\* its envelopes is never sent whole, for the rest of it was not kept (stream.rs:845).
Whole(line) == Segments[line] > 0 /\ line \notin cut

\* The loop has taken the lines up to this one from the application.
LastHandled == IF next_sequence_id <= written THEN next_sequence_id - 1 ELSE written
Handled == 1..LastHandled
Accepted(line) == \E p \in 1..Len(accepted) : accepted[p] = line

\* The lines the app server gets are the lines the loop has taken from the
\* application, in order, none twice and none missing, across any number of
\* reconnections, those that were dropped or cut left out; and none is stuck: it
\* arrives unless it is cut or the stream ends first (control_loop,
\* handle_outbound_bytes_wire).  An envelope of the relay that cannot be parsed
\* comes again after every reconnection, and then nothing else may get through.
UpStream == INSTANCE FifoStream WITH
  input <- Retain([l \in Handled |-> l], {l \in Lines : Whole(l)}),
  output <- accepted,
  ended <- task = "ended"
Poisoned == \E i \in 1..Len(server_log) : server_log[i].kind = "undecodable"
LinesCarried ==
  /\ UpStream!Spec
  /\ \A l \in Lines :
       (written >= l /\ Whole(l) /\ ~Poisoned) ~> (Accepted(l) \/ l \in cut \/ task = "ended")

\* A message of the relay's log is complete with the envelope that brings the last of
\* its chunks undamaged, if the log can be read up to there.
HasChunk(i, k) ==
  \E j \in 1..i : /\ server_log[j].kind = "good"
                  /\ server_log[j].msg = server_log[i].msg /\ server_log[j].seg = k
Completes(i) ==
  /\ server_log[i].kind = "good"
  /\ \A k \in 1..server_log[i].of : HasChunk(i, k)
  /\ \A j \in 1..i : server_log[j].kind # "undecodable"
Completing == {i \in 1..Len(server_log) : Completes(i)}
Deliverable ==
  LET ends == Retain([i \in 1..Len(server_log) |-> i], Completing)
  IN [n \in 1..Len(ends) |-> server_log[ends[n]].msg]

\* The application reads the messages of the relay's log in order, none twice and,
\* except for those with a damaged envelope, none missing, chunks put together
\* across reconnections included; and a damaged envelope does not keep the
\* connection from ever getting past it (handle_inbound_wire_envelope).
DownStream == INSTANCE FifoStream WITH
  input <- Deliverable,
  output <- delivered,
  ended <- task = "ended"
Messages == UNION {{log[i].msg : i \in 1..Len(log)} : log \in ServerLogs}
MessagesCarried ==
  /\ DownStream!Spec
  /\ \A m \in Messages : m \in Range(Deliverable) => <>(m \in Range(delivered) \/ task = "ended")

\* The app server hears of the close only after every line written before it.
ClosedIsLast == closed => \A l \in 1..written : Whole(l) => Accepted(l)
=============================================================================
