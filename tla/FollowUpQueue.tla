---------------------------- MODULE FollowUpQueue ----------------------------
(***************************************************************************)
(* Messages to one thread of one server: start_turn, steer_queued_follow_up*)
(* and delete_queued_follow_up (mobile_client/mod.rs), the store listener  *)
(* that sends the next draft when a turn ends (store_listener.rs) and the  *)
(* parts of the reducer they meet in: the active turn, the drafts and the  *)
(* overlays that show a message before the server echoes it.               *)
(*                                                                         *)
(* A message with text is kept as a draft while a turn is active; one with *)
(* only mentions or skills (Bare) cannot be, and steers the turn.  Drafts  *)
(* are taken off the front by TurnStarted and by every user item, whoever  *)
(* sent it.                                                                *)
(*                                                                         *)
(* The app server is external: turn/start begins a turn or, in a turn,     *)
(* adds to it; turn/steer adds to the turn it names and fails otherwise.   *)
(* Each message taken is echoed by UserItems item events.                  *)
(***************************************************************************)
EXTENDS Naturals, Sequences, SequencesExt, FiniteSets, Retaining

CONSTANTS
  Messages,          \* each is sent by one call of start_turn
  Bare,              \* those that make no draft
  Taps,              \* calls of steer_queued_follow_up
  Listener,
  Deleter,           \* one call of delete_queued_follow_up
  Scenarios,         \* who calls, and whether a request may fail
  UserItems,
  MaxTurns           \* model bound

Actors == Messages \cup Taps \cup {Listener}

ASSUME FollowUpAssumption ==
  /\ Bare \subseteq Messages
  /\ Messages \cap Taps = {} /\ Listener \notin Messages \cup Taps
  /\ Deleter \notin Actors
  /\ Scenarios \subseteq
       [cast : SUBSET (Messages \cup Taps \cup {Deleter}), failing : BOOLEAN]
  /\ UserItems \in Nat \ {0} /\ MaxTurns \in Nat

VARIABLES
  scenario,
  active,         \* active_turn_id of the thread in the store, 0 for None
  drafts,         \* queued_follow_up_drafts
  overlays,       \* local_overlay_items, <<message, turn>>
  items,          \* user messages among the thread's items
  events,         \* UI events on their way to the listener
  listener,       \* "idle", "ended" a turn has ended, "sending"
  call, seen,     \* start_turn of each message, the turn it saw
  tap, tapped,    \* progress of each tap, its <<message, turn>>
  deletion,       \* progress of the deletion
  deleted, next_drafts,
  undone,         \* the drafts from the first one it puts back on (history)
  req,            \* the request of each actor
  turn, turns,    \* the server: its turn, turns so far
  runs            \* how often it has taken each message

store == <<active, drafts, overlays, items>>
calls == <<call, seen>>
taps == <<tap, tapped>>
deleting == <<deletion, deleted, next_drafts, undone>>
server == <<turn, turns, runs>>
vars == <<scenario, store, events, listener, calls, taps, deleting, req, server>>

Drafts == [msg : Messages, kind : {"Message", "PendingSteer"}]
Events == [type : {"TurnStarted", "UserItem", "TurnCompleted"}, turn : Nat,
           msg : SUBSET Messages]
NoRequest == [op |-> "none"]
Request(op, m, t) == [op |-> op, msg |-> m, turn |-> t, result |-> "none"]

TurnRequests == [op : {"start", "steer"}, msg : Messages, turn : Nat,
             result : {"none", "ok", "error"}]

TypeOK ==
  /\ scenario \in Scenarios
  /\ active \in Nat /\ turn \in Nat /\ turns \in Nat
  /\ drafts \in Seq(Drafts) /\ next_drafts \in Seq(Drafts)
  /\ overlays \in Seq(Messages \X Nat)
  /\ items \subseteq Messages
  /\ events \in Seq(Events)
  /\ \A i \in 1..Len(events) :
       events[i].type = "UserItem" => \E m \in Messages : events[i].msg = {m}
  /\ listener \in {"idle", "ended", "sending"}
  /\ call \in [Messages -> {"idle", "read", "steering", "starting", "queued", "done"}]
  /\ seen \in [Messages -> Nat]
  /\ tap \in [Taps -> {"idle", "read", "steering", "done"}]
  /\ tapped \in [Taps -> (Messages \X Nat) \cup {<<>>}]
  /\ \A k \in Taps : tap[k] \in {"read", "steering"} => tapped[k] \in Messages \X Nat
  /\ deletion \in {"idle", "read", "done"} /\ deleted \subseteq Messages
  /\ undone \subseteq Messages
  /\ req \in [Actors -> TurnRequests \cup {NoRequest}]
  /\ runs \in [Messages -> Nat]

\* A loaded thread, idle or in a turn that began elsewhere.
Init ==
  /\ scenario \in Scenarios
  /\ turns \in {0, 1} /\ turn = turns /\ active = turns
  /\ drafts = <<>> /\ overlays = <<>> /\ items = {} /\ events = <<>>
  /\ listener = "idle"
  /\ call = [m \in Messages |-> "idle"] /\ seen = [m \in Messages |-> 0]
  /\ tap = [k \in Taps |-> "idle"] /\ tapped = [k \in Taps |-> <<>>]
  /\ deletion = "idle" /\ deleted = {} /\ next_drafts = <<>> /\ undone = {}
  /\ req = [a \in Actors |-> NoRequest]
  /\ runs = [m \in Messages |-> 0]

Send(a, op, m, t) == req' = [req EXCEPT ![a] = Request(op, m, t)]
Answered(a) == req[a] # NoRequest /\ req[a].result # "none"
Clear(a) == req' = [req EXCEPT ![a] = NoRequest]

Queued(m) == \E i \in 1..Len(drafts) : drafts[i].msg = m
Position(m) == CHOOSE i \in 1..Len(drafts) : drafts[i].msg = m

-----------------------------------------------------------------------------
(* start_turn *)

ReadThread(m) ==
  /\ m \in scenario.cast /\ call[m] = "idle"
  /\ call' = [call EXCEPT ![m] = "read"]
  /\ seen' = [seen EXCEPT ![m] = active]
  /\ UNCHANGED <<scenario, store, events, listener, taps, deleting, req, server>>

\* stage_local_user_message_overlay; a message without text makes no overlay.
StartDirectly(m) ==
  /\ call[m] = "read" /\ seen[m] = 0
  /\ call' = [call EXCEPT ![m] = "starting"]
  /\ overlays' = IF m \in Bare THEN overlays ELSE Append(overlays, <<m, 0>>)
  /\ Send(m, "start", m, 0)
  /\ UNCHANGED <<scenario, active, drafts, items, events, listener, seen, taps,
                 deleting, server>>

\* enqueue_thread_follow_up_draft
Enqueue(m) ==
  /\ call[m] = "read" /\ seen[m] # 0 /\ m \notin Bare
  /\ call' = [call EXCEPT ![m] = "queued"]
  /\ drafts' = Append(drafts, [msg |-> m, kind |-> "Message"])
  /\ UNCHANGED <<scenario, active, overlays, items, events, listener, seen, taps,
                 deleting, req, server>>

SteerDirectly(m) ==
  /\ call[m] = "read" /\ seen[m] # 0 /\ m \in Bare
  /\ call' = [call EXCEPT ![m] = "steering"]
  /\ Send(m, "steer", m, seen[m])
  /\ UNCHANGED <<scenario, store, events, listener, seen, taps, deleting, server>>

\* Any error falls through to turn/start.
SteerReturns(m) ==
  /\ call[m] = "steering" /\ Answered(m)
  /\ \/ /\ req[m].result = "ok"
        /\ call' = [call EXCEPT ![m] = "done"]
        /\ Clear(m)
     \/ /\ req[m].result = "error"
        /\ call' = [call EXCEPT ![m] = "starting"]
        /\ Send(m, "start", m, 0)
  /\ UNCHANGED <<scenario, store, events, listener, seen, taps, deleting, server>>

BindTo(m, t) == [i \in 1..Len(overlays) |->
                  IF overlays[i][1] = m THEN <<m, t>> ELSE overlays[i]]
Without(m) == Retain(overlays, (Messages \ {m}) \X Nat)

\* The overlay is bound to the turn of the response, or taken back.
StartReturns(m) ==
  /\ call[m] = "starting" /\ Answered(m)
  /\ call' = [call EXCEPT ![m] = "done"]
  /\ overlays' = IF req[m].result = "ok" THEN BindTo(m, req[m].turn) ELSE Without(m)
  /\ Clear(m)
  /\ UNCHANGED <<scenario, active, drafts, items, events, listener, seen, taps,
                 deleting, server>>

-----------------------------------------------------------------------------
(* steer_queued_follow_up *)

TapReads(k, m) ==
  /\ k \in scenario.cast /\ tap[k] = "idle" /\ Queued(m)
  /\ tap' = [tap EXCEPT ![k] = "read"]
  /\ tapped' = [tapped EXCEPT ![k] = <<m, active>>]
  /\ UNCHANGED <<scenario, store, events, listener, calls, deleting, req, server>>

\* try_begin_steer_queued_follow_up
MayBegin(m) == Queued(m) /\ drafts[Position(m)].kind = "Message"

\* The draft is marked before the turn is looked at.
TapBegins(k) ==
  LET m == tapped[k][1]
      t == tapped[k][2]
  IN
  /\ tap[k] = "read"
  /\ \/ /\ MayBegin(m)
        /\ drafts' = [drafts EXCEPT ![Position(m)].kind = "PendingSteer"]
        /\ \/ t = 0 /\ tap' = [tap EXCEPT ![k] = "done"] /\ UNCHANGED req
           \/ /\ t # 0 /\ tap' = [tap EXCEPT ![k] = "steering"]
              /\ Send(k, "steer", m, t)
     \/ ~MayBegin(m) /\ tap' = [tap EXCEPT ![k] = "done"] /\ UNCHANGED <<drafts, req>>
  /\ UNCHANGED <<scenario, active, overlays, items, events, listener, calls, tapped,
                 deleting, server>>

\* A failure is reported; the draft stays as it is.
TapReturns(k) ==
  /\ tap[k] = "steering" /\ Answered(k)
  /\ tap' = [tap EXCEPT ![k] = "done"]
  /\ Clear(k)
  /\ UNCHANGED <<scenario, store, events, listener, calls, tapped, deleting, server>>

(* delete_queued_follow_up *)

DeleteReads(m) ==
  /\ Deleter \in scenario.cast /\ deletion = "idle" /\ Queued(m)
  /\ deletion' = "read" /\ deleted' = deleted \cup {m}
  /\ next_drafts' = Retain(drafts, {d \in Drafts : d.msg # m})
  /\ UNCHANGED <<scenario, store, events, listener, calls, taps, undone, req, server>>

DeleteWrites ==
  /\ deletion = "read"
  /\ deletion' = "done"
  /\ drafts' = next_drafts
  /\ undone' = {next_drafts[i].msg : i \in {j \in 1..Len(next_drafts) :
                   \E k \in 1..j : ~Contains(drafts, next_drafts[k])}}
  /\ UNCHANGED <<scenario, active, overlays, items, events, listener, calls, taps,
                 deleted, next_drafts, req, server>>

-----------------------------------------------------------------------------
(* The store listener. *)

\* Mutant: what has been sent stays in the queue.
KeepFirst(s) == s

\* remove_first_queued_follow_up
DropFirst(s) == IF s = <<>> THEN s ELSE Tail(s)

\* bind_first_pending_local_user_message_overlay_to_turn
BindFirst(t) ==
  LET pending == {i \in 1..Len(overlays) : overlays[i][2] = 0}
  IN IF pending = {} THEN overlays
     ELSE [overlays EXCEPT ![Min(pending)] = <<overlays[Min(pending)][1], t>>]

Take(type) ==
  /\ listener = "idle"
  /\ events # <<>> /\ Head(events).type = type
  /\ events' = Tail(events)

SeeTurnStarted ==
  /\ Take("TurnStarted")
  /\ drafts' = DropFirst(drafts)
  /\ active' = Head(events).turn
  /\ overlays' = BindFirst(Head(events).turn)
  /\ UNCHANGED <<scenario, items, listener, calls, taps, deleting, req, server>>

\* Mutant: an overlay goes only when it is bound to the item's turn.
IfBound(m, t) == Retain(overlays, (Messages \X Nat) \ {<<m, t>>})

\* is_superseded_overlay_item: the same text, bound or not
Supersede(m, t) == Without(m)

SeeUserItem ==
  /\ Take("UserItem")
  /\ \A m \in Head(events).msg :
       /\ overlays' = Supersede(m, Head(events).turn)
       /\ items' = items \cup {m}
  /\ drafts' = DropFirst(drafts)
  /\ UNCHANGED <<scenario, active, listener, calls, taps, deleting, req, server>>

SeeTurnCompleted ==
  /\ Take("TurnCompleted")
  /\ active' = 0
  /\ drafts' = Retain(drafts, {d \in Drafts : d.kind # "PendingSteer"})
  /\ listener' = "ended"
  /\ UNCHANGED <<scenario, overlays, items, calls, taps, deleting, req, server>>

\* Mutant: the queue is sent only when it has one draft.
OnlyOne == active = 0 /\ Len(drafts) = 1

MaySend == active = 0 /\ drafts # <<>>

\* maybe_send_next_local_queued_follow_up; the listener waits for the response.
SendNext ==
  /\ listener = "ended"
  /\ \/ /\ MaySend
        /\ listener' = "sending"
        /\ Send(Listener, "start", Head(drafts).msg, 0)
     \/ ~MaySend /\ listener' = "idle" /\ UNCHANGED req
  /\ UNCHANGED <<scenario, store, events, calls, taps, deleting, server>>

NextSent ==
  /\ listener = "sending" /\ Answered(Listener)
  /\ listener' = "idle"
  /\ Clear(Listener)
  /\ UNCHANGED <<scenario, store, events, calls, taps, deleting, server>>

-----------------------------------------------------------------------------
(* The app server. *)

Echo(m, t) ==
  [i \in 1..(IF m \in Bare THEN 0 ELSE UserItems) |->
     [type |-> "UserItem", turn |-> t, msg |-> {m}]]
Event(type, t) == [type |-> type, turn |-> t, msg |-> {}]
Result(a, r, t) == req' = [req EXCEPT ![a] = [@ EXCEPT !.result = r, !.turn = t]]
Waiting(a) == req[a] # NoRequest /\ req[a].result = "none"

Accept(a, t) ==
  LET m == req[a].msg IN
  /\ runs' = [runs EXCEPT ![m] = @ + 1]
  /\ \E r \in {"ok"} \cup (IF scenario.failing THEN {"error"} ELSE {}) : Result(a, r, t)
  /\ UNCHANGED <<scenario, store, listener, calls, taps, deleting>>

ServerBegins(a) ==
  /\ Waiting(a) /\ req[a].op = "start" /\ turn = 0
  /\ turns < MaxTurns
  /\ turns' = turns + 1 /\ turn' = turns'
  /\ events' = Append(events, Event("TurnStarted", turns')) \o Echo(req[a].msg, turns')
  /\ Accept(a, turns')

ServerAdds(a) ==
  /\ Waiting(a) /\ turn # 0
  /\ req[a].op = "steer" => req[a].turn = turn
  /\ events' = events \o Echo(req[a].msg, turn)
  /\ UNCHANGED <<turn, turns>>
  /\ Accept(a, turn)

\* The turn it names is not there, or the request did not get through.
ServerRefuses(a) ==
  /\ Waiting(a)
  /\ (req[a].op = "steer" /\ req[a].turn # turn) \/ scenario.failing
  /\ Result(a, "error", 0)
  /\ UNCHANGED <<scenario, store, events, listener, calls, taps, deleting, server>>

ServerCompletes ==
  /\ turn # 0
  /\ events' = Append(events, Event("TurnCompleted", turn))
  /\ turn' = 0
  /\ UNCHANGED <<scenario, store, listener, calls, taps, deleting, req, turns, runs>>

-----------------------------------------------------------------------------

Starting(m) ==
  StartDirectly(m) \/ Enqueue(m) \/ SteerDirectly(m) \/ SteerReturns(m) \/ StartReturns(m)
Tapping(k) == TapBegins(k) \/ TapReturns(k)
Listening == SeeTurnStarted \/ SeeUserItem \/ SeeTurnCompleted \/ SendNext \/ NextSent
Serving(a) == ServerBegins(a) \/ ServerAdds(a) \/ ServerRefuses(a)

Next ==
  \/ \E m \in Messages : ReadThread(m) \/ Starting(m)
  \/ \E k \in Taps : Tapping(k) \/ \E m \in Messages : TapReads(k, m)
  \/ DeleteWrites \/ \E m \in Messages : DeleteReads(m)
  \/ Listening
  \/ \E a \in Actors : Serving(a)
  \/ ServerCompletes

Spec == Init /\ [][Next]_vars

\* Tasks are polled, requests answered and turns end.
FairSpec ==
  /\ Spec
  /\ WF_vars(Listening) /\ WF_vars(ServerCompletes) /\ WF_vars(DeleteWrites)
  /\ \A m \in Messages : WF_vars(Starting(m))
  /\ \A k \in Taps : WF_vars(Tapping(k))
  /\ \A a \in Actors : WF_vars(Serving(a))

-----------------------------------------------------------------------------

\* While no answer is lost and no deletion puts it, or one before it, back, a message
\* comes into the conversation at most once, however it got there: at once, from the
\* queue, by steering or by the fallback after steering.
MessageOnce == ~scenario.failing => \A m \in Messages \ undone : runs[m] <= 1

\* A message is not shown twice, as overlay and as item, whichever of the
\* response, the turn and the item comes first.
NoDoubleBubble == \A i \in 1..Len(overlays) : overlays[i][1] \notin items

\* While no request fails, the draft at the head of the queue when the end of a turn
\* is on its way is sent or leaves the queue.
HeadIsSent ==
  \A m \in Messages :
    ( /\ ~scenario.failing /\ Queued(m)
      /\ \E i \in 1..Len(events) : events[i].type = "TurnCompleted" )
      ~> (~Queued(m) \/ runs[m] > 0 \/ Head(drafts).msg # m)
=============================================================================
