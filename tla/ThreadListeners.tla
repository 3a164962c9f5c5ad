--------------------------- MODULE ThreadListeners ---------------------------
(***************************************************************************)
(* The listeners a client keeps attached to its threads on ONE server      *)
(* (mobile_client/mod.rs, mobile_client/event_loop.rs).  The server sends  *)
(* the events of a thread to the connections in that thread's subscription *)
(* set; thread/resume enters the connection, a lost connection leaves all  *)
(* sets.  The client remembers in direct_resumed_threads where it has      *)
(* resumed, skips the resume of a marked thread, and resumes again what it *)
(* shows when the health reader sees a connection come back.  A connect    *)
(* may replace the whole session: it takes the old one out of the map,     *)
(* lets its worker finish, and attaches a new one with a reader that has   *)
(* seen nothing yet.                                                       *)
(*                                                                         *)
(* The session has one runtime and is ServerSession reduced to its         *)
(* connection, its command queue and its health channel; the lookup over   *)
(* several runtimes and the metadata fallback are one answer, "refused".   *)
(***************************************************************************)
EXTENDS Naturals, Sequences, Functions

CONSTANTS
  Threads,
  Gone,       \* threads whose resume the server refuses
  Opens,      \* visits of a thread: set_active_thread, external_resume_thread
  Leaves,     \* calls of thread_unsubscribe
  Abandons,   \* calls of abandon_alleycat_connections
  Connects,   \* connects that replace the session, one at a time by the gate
  Scenarios,  \* who acts in one behaviour, and how many connections may be lost
  None,
  MaxBreaks   \* model bound: the most losses of a scenario

Repairs == 1..MaxBreaks  \* spawns of run_post_reconnect_resubscribe
Callers == Opens \cup Leaves \cup Repairs
Tasks == Callers \cup Abandons \cup Connects

ASSUME ListenersAssumption ==
  /\ Gone \subseteq Threads
  /\ None \notin Threads
  /\ MaxBreaks \in Nat
  /\ Opens \cap (Leaves \cup Abandons \cup Nat) = {}
  /\ Leaves \cap (Abandons \cup Nat) = {} /\ Abandons \cap Nat = {}
  /\ Scenarios \subseteq [cast : SUBSET Tasks, breaks : 0..MaxBreaks]
  /\ Connects \cap (Callers \cup Abandons) = {}

VARIABLES
  scenario,
  paginated, \* the server lists turns: a resume brings none
  mapped,   \* the session is in MobileClient::sessions
  link,     \* the worker's connection
  breaks,   \* connections lost so far
  queue,    \* callers whose request the worker has not answered, in order
  subs,     \* threads whose subscription set holds the present connection
  health,   \* value of the health channel
  unseen,   \* it was sent since the health reader last awaited changed()
  reader,   \* the health reader looks at the value or awaits changed()
  prev,     \* its prev_connected
  lapse,    \* what it has seen of the last loss, or a new session (history)
  pc,       \* where each task stands
  thread,   \* the thread a caller works on
  todo,     \* keys_to_resume of each repair
  marked,   \* direct_resumed_threads
  stray,    \* those marked after their session had left the map (history)
  loaded,   \* threads in the store with items or initial_turns_loaded
  active    \* active_thread of the store

ground == <<scenario, paginated, mapped>>
net == <<link, breaks, queue, subs>>
watch == <<health, unseen>>
observer == <<reader, prev, lapse>>
store == <<marked, stray, loaded, active>>
vars == <<scenario, paginated, mapped, link, breaks, queue, subs, health, unseen, reader, prev,
          lapse, pc, thread, todo, marked, stray, loaded, active>>

TypeOK ==
  /\ scenario \in Scenarios /\ mapped \in BOOLEAN
  /\ link \in {"up", "lost", "reconnecting", "given up", "exited"}
  /\ breaks \in 0..MaxBreaks
  /\ queue \in Seq(Callers)
  /\ subs \subseteq Threads
  /\ health \in {"connecting", "connected", "disconnected"}
  /\ unseen \in BOOLEAN
  /\ reader \in {"looking", "waiting", "over"}
  /\ prev \in BOOLEAN /\ lapse \in {"none", "noticed", "missed", "replaced"} /\ paginated \in BOOLEAN
  /\ pc \in [Tasks -> {"idle", "checking", "waiting", "answered", "refused", "failed",
                       "clearing", "collecting", "picking", "closing", "draining", "dialing",
                       "ok", "err"}]
  /\ thread \in [Callers -> Threads \cup {None}]
  /\ todo \in [Repairs -> SUBSET Threads]
  /\ marked \subseteq Threads /\ stray \subseteq marked
  /\ loaded \subseteq Threads
  /\ active \in Threads \cup {None}

\* attach_remote_session has just spawned the readers of a connected session.
Init ==
  /\ scenario \in Scenarios /\ paginated \in BOOLEAN
  /\ mapped = TRUE
  /\ link = "up" /\ breaks = 0 /\ queue = <<>> /\ subs = {}
  /\ health = "connected" /\ unseen = FALSE
  /\ reader = "looking" /\ prev = TRUE /\ lapse = "none"
  /\ pc = [x \in Tasks |-> "idle"]
  /\ thread = [c \in Callers |-> None]
  /\ todo = [k \in Repairs |-> {}]
  /\ marked = {} /\ stray = {} /\ loaded = {} /\ active = None

SendHealth(h) == health' = h /\ unseen' = TRUE
Goto(x, l) == pc' = [pc EXCEPT ![x] = l]
Over(x) == pc[x] \in {"ok", "err"}

\* A step of the network takes a round trip: by then the callers whose turn it was
\* have run.  The health reader may be late; the channel keeps the last value only.
AtRest ==
  \A x \in Tasks : pc[x] \in {"idle", "waiting", "closing", "draining", "dialing", "ok", "err"}

----------------------------------------------------------------------------
(* The connection, its worker and the server *)

\* The server forgets a connection that is lost.
Break ==
  /\ link = "up" /\ breaks < scenario.breaks
  /\ link' = "lost" /\ breaks' = breaks + 1 /\ subs' = {}
  /\ UNCHANGED <<ground, queue, watch, observer, pc, thread, todo, store>>

NoticeLoss ==
  /\ link \in {"lost", "given up"}
  /\ link' = "reconnecting"
  /\ SendHealth("connecting")
  /\ UNCHANGED <<ground, breaks, queue, subs, observer, pc, thread, todo, store>>

Reconnect ==
  /\ link = "reconnecting" /\ AtRest
  /\ link' = "up"
  /\ SendHealth("connected")
  /\ lapse' = IF lapse = "noticed" THEN "none" ELSE "missed"
  /\ UNCHANGED <<ground, breaks, queue, subs, reader, prev, pc, thread, todo, store>>

\* A series of attempts fails.  It answered a Disconnected event, the request in
\* hand, which fails with it, or the end of the event stream: then the worker
\* exits and drops every request in its channel.
GiveUp ==
  /\ link = "reconnecting" /\ AtRest
  /\ SendHealth("disconnected")
  /\ \/ link' = "given up" /\ UNCHANGED <<queue, pc>>
     \/ /\ link' = "given up" /\ queue # <<>>
        /\ pc' = [pc EXCEPT ![Head(queue)] = "failed"] /\ queue' = Tail(queue)
     \/ /\ link' = "exited" /\ queue' = <<>>
        /\ pc' = [x \in Tasks |-> IF x \in Range(queue) THEN "failed" ELSE pc[x]]
  /\ UNCHANGED <<ground, breaks, subs, observer, thread, todo, store>>

\* The server answers the request of c; a request cut off by a lost connection
\* is repeated by the worker.
Answer(c) ==
  /\ link = "up" /\ AtRest
  /\ queue # <<>> /\ c = Head(queue)
  /\ queue' = Tail(queue)
  /\ \/ /\ c \in Leaves
        /\ subs' = subs \ {thread[c]} /\ Goto(c, "answered")
     \/ /\ c \notin Leaves /\ thread[c] \notin Gone
        /\ subs' = subs \cup {thread[c]} /\ Goto(c, "answered")
     \/ /\ c \notin Leaves /\ thread[c] \in Gone
        /\ Goto(c, "refused") /\ UNCHANGED subs
  /\ UNCHANGED <<ground, link, breaks, watch, observer, thread, todo, store>>

----------------------------------------------------------------------------
(* The health reader *)

\* Mutant: prev_connected is not written again.
NeverDown == TRUE

\* is_connected
NowConnected == health = "connected"

\* borrow() leaves the value unseen, so changed() returns for it once more.
Look ==
  /\ reader = "looking"
  /\ reader' = "waiting"
  /\ prev' = NowConnected
  /\ IF ~prev /\ health = "connected"
     THEN /\ \E k \in Repairs :
               /\ pc[k] = "idle" /\ \A j \in 1..(k - 1) : pc[j] # "idle"
               /\ Goto(k, "clearing")
          /\ lapse' = "none"
     ELSE /\ UNCHANGED pc
          /\ lapse' = IF health = "connected" \/ lapse = "missed" THEN lapse ELSE "noticed"
  /\ UNCHANGED <<ground, net, watch, thread, todo, store>>

Wake ==
  /\ reader = "waiting" /\ unseen
  /\ reader' = "looking" /\ unseen' = FALSE
  /\ UNCHANGED <<ground, net, health, prev, lapse, pc, thread, todo, store>>

----------------------------------------------------------------------------
(* Resuming threads: external_resume_thread and the repair's forced resume *)

\* Without a session get_session fails; a worker that has exited takes no request.
Ask(c) ==
  IF ~mapped \/ link = "exited"
  THEN Goto(c, "failed") /\ UNCHANGED queue
  ELSE Goto(c, "waiting") /\ queue' = Append(queue, c)

\* Mutant: markers outlive their connection.
KeepMarkers == UNCHANGED <<marked, stray>>

ClearMarkers == marked' = {} /\ stray' = {}

Visit(o, t) ==
  /\ o \in scenario.cast /\ pc[o] = "idle"
  /\ thread' = [thread EXCEPT ![o] = t]
  /\ active' = t
  /\ Goto(o, "checking")
  /\ UNCHANGED <<ground, net, watch, observer, todo, marked, stray, loaded>>

MaySkip(t) == t \in marked /\ (t \in loaded \/ paginated)

Resume(o) ==
  /\ pc[o] = "checking"
  /\ IF mapped /\ MaySkip(thread[o]) THEN Goto(o, "ok") /\ UNCHANGED queue ELSE Ask(o)
  /\ UNCHANGED <<ground, link, breaks, subs, watch, observer, thread, todo, store>>

\* What c does with its answer; a repair goes on to its next thread.  A failed
\* request marks the transport disconnected, and that clears the markers.
Conclude(c) ==
  LET done(l) == Goto(c, IF c \in Repairs THEN "picking" ELSE l) IN
  /\ \/ /\ pc[c] = "answered" /\ c \notin Leaves
        /\ marked' = marked \cup {thread[c]}
        /\ stray' = IF mapped THEN stray \ {thread[c]} ELSE stray \cup {thread[c]}
        /\ loaded' = IF paginated THEN loaded ELSE loaded \cup {thread[c]}
        /\ done("ok")
     \/ /\ pc[c] = "answered" /\ c \in Leaves
        /\ marked' = marked \ {thread[c]} /\ stray' = stray \ {thread[c]}
        /\ done("ok") /\ UNCHANGED loaded
     \/ pc[c] = "refused" /\ done("err") /\ UNCHANGED <<marked, stray, loaded>>
     \/ pc[c] = "failed" /\ ClearMarkers /\ done("err") /\ UNCHANGED loaded
  /\ UNCHANGED <<ground, net, watch, observer, thread, todo, active>>

\* load_thread_turns_page
LoadPage(t) ==
  /\ paginated /\ mapped /\ link = "up" /\ active = t /\ t \notin Gone \cup loaded
  /\ loaded' = loaded \cup {t}
  /\ UNCHANGED <<ground, net, watch, observer, pc, thread, todo, marked, stray, active>>

StartRepair(k) ==
  /\ pc[k] = "clearing"
  /\ ClearMarkers
  /\ Goto(k, "collecting")
  /\ UNCHANGED <<ground, net, watch, observer, thread, todo, loaded, active>>

\* keys_to_resume
KeysToResume == loaded \cup ({active} \ {None})

Collect(k) ==
  /\ pc[k] = "collecting"
  /\ todo' = [todo EXCEPT ![k] = KeysToResume]
  /\ Goto(k, "picking")
  /\ UNCHANGED <<ground, net, watch, observer, thread, store>>

\* The threads come in the order of a HashMap, after the active one.
Pick(k) ==
  /\ pc[k] = "picking"
  /\ \/ \E t \in todo[k] :
          /\ todo' = [todo EXCEPT ![k] = @ \ {t}]
          /\ thread' = [thread EXCEPT ![k] = t]
          /\ Ask(k)
     \/ todo[k] = {} /\ Goto(k, "ok") /\ UNCHANGED <<queue, thread, todo>>
  /\ UNCHANGED <<ground, link, breaks, subs, watch, observer, store>>

----------------------------------------------------------------------------
(* Leaving a thread, and abandoning the connection *)

Leave(l, t) ==
  /\ l \in scenario.cast /\ pc[l] = "idle"
  /\ thread' = [thread EXCEPT ![l] = t]
  /\ Ask(l)
  /\ UNCHANGED <<ground, link, breaks, subs, watch, observer, todo, store>>

\* abandon_alleycat_connections: the markers first, then the connection; it does
\* nothing for a session that is not in the map.
Abandon(a) ==
  \/ /\ a \in scenario.cast /\ pc[a] = "idle" /\ mapped
     /\ ClearMarkers
     /\ Goto(a, "closing")
     /\ UNCHANGED <<ground, net, watch, observer, thread, todo, loaded, active>>
  \/ /\ pc[a] = "closing" /\ (link = "up" => breaks < scenario.breaks)
     /\ IF link = "up" THEN link' = "lost" /\ subs' = {} /\ breaks' = breaks + 1
                       ELSE UNCHANGED <<link, subs, breaks>>
     /\ Goto(a, "ok")
     /\ UNCHANGED <<ground, queue, watch, observer, thread, todo, store>>

----------------------------------------------------------------------------
(* Replacing the session *)

\* replace_existing_session: the session leaves the map and with it the markers.
\* Its reader finds itself stale; an abandon under way would close the connection
\* that is closed anyway.
Replace(n) ==
  /\ n \in scenario.cast /\ pc[n] = "idle" /\ \A m \in Connects : pc[m] \notin {"draining", "dialing"}
  /\ mapped' = FALSE /\ ClearMarkers /\ reader' = "over"
  /\ pc' = [x \in Tasks |-> IF x = n THEN "draining"
                            ELSE IF pc[x] = "closing" THEN "ok" ELSE pc[x]]
  /\ UNCHANGED <<scenario, paginated, net, watch, prev, lapse, thread, todo, loaded, active>>

\* Shutdown waits in the channel behind the requests that came before it.
Drain(n) ==
  /\ pc[n] = "draining" /\ queue = <<>> /\ link # "reconnecting"
  /\ link' = "exited" /\ subs' = {}
  /\ Goto(n, "dialing")
  /\ UNCHANGED <<ground, breaks, queue, watch, observer, thread, todo, store>>

\* attach_remote_session, or a dial that fails.
Attach(n) ==
  /\ pc[n] = "dialing" /\ AtRest
  /\ \/ /\ mapped' = TRUE /\ link' = "up"
        /\ health' = "connected" /\ unseen' = FALSE
        /\ reader' = "looking" /\ prev' = TRUE /\ lapse' = "replaced"
        /\ Goto(n, "ok")
     \/ Goto(n, "err") /\ UNCHANGED <<mapped, link, watch, observer>>
  /\ UNCHANGED <<scenario, paginated, breaks, queue, subs, thread, todo, store>>

----------------------------------------------------------------------------

ReaderStep == Look \/ Wake
RepairStep(k) == StartRepair(k) \/ Collect(k) \/ Pick(k)

Next ==
  \/ Break \/ NoticeLoss \/ Reconnect \/ GiveUp \/ ReaderStep
  \/ \E c \in Callers : Answer(c) \/ Conclude(c)
  \/ \E k \in Repairs : RepairStep(k)
  \/ \E o \in Opens : Resume(o)
  \/ \E t \in Threads : LoadPage(t)
  \/ \E o \in Opens, t \in Threads : Visit(o, t)
  \/ \E l \in Leaves, t \in Threads : Leave(l, t)
  \/ \E a \in Abandons : Abandon(a)
  \/ \E n \in Connects : Replace(n) \/ Drain(n) \/ Attach(n)

Spec == Init /\ [][Next]_vars

\* Spawned tasks are polled and the worker serves its queue; nobody promises
\* that a reconnection succeeds.
FairSpec ==
  /\ Spec
  /\ WF_vars(NoticeLoss) /\ WF_vars(ReaderStep)
  /\ \A c \in Callers : WF_vars(Answer(c)) /\ WF_vars(Conclude(c))
  /\ \A k \in Repairs : WF_vars(RepairStep(k))
  /\ \A o \in Opens : WF_vars(Resume(o))

----------------------------------------------------------------------------
(* Properties *)

\* No connection change is waiting to be noticed or repaired.
Settled ==
  /\ mapped /\ link = "up" /\ reader = "waiting" /\ ~unseen /\ lapse # "missed"
  /\ \A k \in Repairs : pc[k] = "idle" \/ Over(k)

Leaving(t) ==
  \E l \in Leaves : thread[l] = t /\ pc[l] \in {"waiting", "answered", "failed"}

\* Outside a repair, and unless the reader slept through a loss, a marked thread has
\* a listener on the PRESENT connection of the PRESENT session, or its unsubscribe is
\* under way: a marker that outlives its connection would silence the thread, for a
\* visit skips the resume (mod.rs:2366-2376).  A resume whose answer came when its
\* session had already left the map is left out: nothing takes its marker back.
MarkedIsHeard == Settled => \A t \in marked \ stray : t \in subs \/ Leaving(t)

\* However connections come and go, once one lasts the thread on screen and
\* every thread with turns that was not left end up with a listener on it, without
\* any visit (mod.rs:4026-4049), if the reader saw the loss before the connection
\* was back and no session was replaced since: a new one starts with the listeners
\* of the visits that follow.
Left == {thread[l] : l \in Leaves}
Wanted == (loaded \cup {active}) \ (Gone \cup Left \cup {None})
ListenersReturn == <>[](mapped /\ link = "up" /\ lapse \notin {"missed", "replaced"}) => <>[](Wanted \subseteq subs)
=============================================================================
