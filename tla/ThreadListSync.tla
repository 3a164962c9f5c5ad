--------------------------- MODULE ThreadListSync ---------------------------
(***************************************************************************)
(* How the list of a server's threads in the app store follows the server: *)
(* run_remote_thread_list_sync and refresh_thread_list_from_app_server     *)
(* (the poll), AppClient::list_threads (ffi/client.rs, the lists the       *)
(* platforms ask for) and the list_sessions tool of the agent, all of      *)
(* which write the same store from tasks of their own while the events and *)
(* approvals of the session arrive.                                        *)
(*                                                                         *)
(* Every list is paged and goes to every runtime of the session, or to     *)
(* those a call asks for.  A page holds one thread here; the server lists  *)
(* newest first and a cursor says where the next page begins.  Threads are *)
(* numbered in the order they are made.                                    *)
(***************************************************************************)
EXTENDS Naturals, Sequences, FiniteSets

CONSTANTS
  N,           \* threads that can ever exist are 1..N
  Runtimes,    \* runtimes of the session
  RuntimeOf,   \* the runtime each thread belongs to
  Default,     \* the runtime a request without a thread goes to
  Polls,       \* the poll: one process, or none
  Drains,      \* calls of list_threads that drain all pages
  Limited,     \* calls of list_threads with a limit: the first page only
  Tools,       \* calls of the list_sessions tool
  Courses      \* what may happen, see Course

Threads == 1..N
Passes == Polls \cup Drains \cup Limited \cup Tools

\* threads at the start, those that can be made, the passes that begin, the healths
\* the session can lose its connection to; and the model bounds: events on their way,
\* requests that fail on a connected session, changes of health
Course ==
  [first : SUBSET Threads, threads : SUBSET Threads, passes : SUBSET Passes,
   losses : SUBSET {"connecting", "disconnected"}, feed : Nat, fails : Nat, flaps : Nat]

ASSUME ListAssumption ==
  /\ N \in Nat
  /\ RuntimeOf \in [Threads -> Runtimes] /\ Default \in Runtimes
  /\ Polls \cap (Drains \cup Limited \cup Tools) = {}
  /\ Drains \cap (Limited \cup Tools) = {} /\ Limited \cap Tools = {}
  /\ Courses \subseteq Course

VARIABLES
  course,
  made,     \* server: threads made so far
  gone,     \* server: threads deleted
  inTurn,   \* server: threads with a turn in progress
  asks,     \* server: threads that wait for an approval
  replies,  \* answers to thread/start on their way
  starts,   \* those being applied: whether the store knew a turn of the thread
  health,   \* health channel of the session
  feed,     \* events and approvals on their way to the store
  known,    \* app store: what it knows of each thread
  screen,   \* app store: active_thread, or 0
  prompted, \* app store: threads with a pending approval
  syncing,  \* the poll's loop runs
  stage,    \* of a pass
  asked,    \* of a pass: the runtimes it asks
  lane,     \* of a pass: where its requests to each runtime stand
  ids,      \* of a pass: incoming_ids
  old,      \* ghost: threads the server listed when the pass began
  revived,  \* ghost: threads whose turn an answer to thread/start has brought back
  fails, flaps

listServer == <<made, gone, inTurn, asks, replies>>
app == <<known, screen, prompted, starts, revived>>
passes == <<stage, asked, lane, ids, old>>
listVars == <<course, listServer, health, feed, app, syncing, passes, fails, flaps>>

Absent == [there |-> FALSE, turn |-> FALSE, status |-> "idle"]
Entry(turn, status) == [there |-> TRUE, turn |-> turn, status |-> status]
Exists == made \ gone
InStore == {t \in Threads : known[t].there}

\* ThreadStarted and ThreadStatusChanged: "active"; and to Idle or SystemError: "idle"
Kinds == {"started", "completed", "active", "idle", "archived", "ask"}

Idle == [at |-> "idle", cursor |-> N + 1, page |-> 0, live |-> FALSE, more |-> FALSE]

ListTypeOK ==
  /\ course \in Courses
  /\ made \subseteq Threads /\ gone \subseteq made
  /\ replies \subseteq made /\ inTurn \subseteq made /\ asks \subseteq inTurn
  /\ health \in {"connected", "connecting", "disconnected"}
  /\ feed \in Seq(Kinds \X Threads) /\ starts \subseteq Threads \X BOOLEAN
  /\ known \in
       [Threads -> [there : BOOLEAN, turn : BOOLEAN, status : {"idle", "active"}]]
  /\ screen \in Threads \cup {0}
  /\ prompted \subseteq Threads /\ revived \subseteq Threads
  /\ syncing \in BOOLEAN
  /\ stage \in [Passes -> {"idle", "open", "done"}]
  /\ asked \in [Passes -> SUBSET Runtimes]
  /\ lane \in [Passes -> [Runtimes ->
                 [at : {"idle", "asking", "got", "over", "failed"},
                  cursor : 1..(N + 1), page : 0..N, live : BOOLEAN, more : BOOLEAN]]]
  /\ ids \in [Passes -> SUBSET Threads] /\ old \in [Passes -> SUBSET Threads]
  /\ fails \in 0..course.fails /\ flaps \in 0..course.flaps

ListInit ==
  /\ course \in Courses
  /\ made = course.first /\ gone = {} /\ inTurn = {} /\ asks = {} /\ replies = {}
  /\ health = "connected" /\ feed = <<>>
  /\ known = [t \in Threads |->
       IF t \in course.first THEN Entry(FALSE, "idle") ELSE Absent]
  /\ screen = 0 /\ prompted = {} /\ starts = {} /\ revived = {}
  /\ syncing = TRUE
  /\ stage = [p \in Passes |-> "idle"] /\ asked = [p \in Passes |-> {}]
  /\ lane = [p \in Passes |-> [r \in Runtimes |-> Idle]]
  /\ ids = [p \in Passes |-> {}] /\ old = [p \in Passes |-> {}]
  /\ fails = 0 /\ flaps = 0

----------------------------------------------------------------------------
(* The server *)

\* An event goes to the app, in order with the others.
Notify(k, t) == Len(feed) < course.feed /\ feed' = Append(feed, <<k, t>>)
MayNotify(k, t) == Notify(k, t) \/ UNCHANGED feed

\* A CLI makes a thread and the app hears of it from a list or an event, or the app
\* makes it with thread/start and gets an answer.
Make(t) ==
  /\ t \in course.threads \ made /\ \A u \in Threads : u < t => u \in made
  /\ made' = made \cup {t}
  /\ replies' \in {replies, replies \cup {t}}
  /\ MayNotify("active", t)
  /\ UNCHANGED <<course, gone, inTurn, asks, health, app, syncing, passes, fails, flaps>>

Delete(t) ==
  /\ t \in Exists \ inTurn
  /\ gone' = gone \cup {t}
  /\ MayNotify("archived", t)
  /\ UNCHANGED <<course, made, inTurn, asks, replies, health, app, syncing, passes, fails,
                 flaps>>

BeginTurn(t) ==
  /\ t \in Exists \ inTurn
  /\ inTurn' = inTurn \cup {t} /\ Notify("started", t)
  /\ UNCHANGED <<course, made, gone, asks, replies, health, app, syncing, passes, fails,
                 flaps>>

Ask(t) ==
  /\ t \in inTurn \ asks
  /\ asks' = asks \cup {t} /\ Notify("ask", t)
  /\ UNCHANGED <<course, made, gone, inTurn, replies, health, app, syncing, passes, fails,
                 flaps>>

EndTurn(t) ==
  /\ t \in inTurn \ asks
  /\ inTurn' = inTurn \ {t} /\ Notify("completed", t)
  /\ UNCHANGED <<course, made, gone, asks, replies, health, app, syncing, passes, fails,
                 flaps>>

\* thread/status/changed; a thread may report an error in its turn.
Report(t) ==
  /\ t \in Exists
  /\ Notify("idle", t) \/ (t \in inTurn /\ Notify("active", t))
  /\ UNCHANGED <<course, listServer, health, app, syncing, passes, fails, flaps>>

\* The workers of the session lose the connection and get it back.
Flap(h) ==
  /\ flaps < course.flaps /\ h # health
  /\ h \in course.losses \cup {"connected"}
  /\ health' = h /\ flaps' = flaps + 1
  /\ UNCHANGED <<course, listServer, feed, app, syncing, passes, fails>>

----------------------------------------------------------------------------
(* Events, and the user *)

\* apply_ui_event.  TurnStarted and TurnCompleted change an existing entry only, the
\* status events make one (upsert_or_merge_thread); remove_thread takes the screen and
\* the approvals of the thread along.
After(k, e) ==
  CASE k = "started"   -> IF e.there THEN Entry(TRUE, "active") ELSE e
    [] k = "completed" -> IF e.there THEN Entry(FALSE, "idle") ELSE e
    [] k = "active"    -> Entry(e.turn, "active")
    [] k = "idle"      -> Entry(FALSE, "idle")
    [] k = "archived"  -> Absent
    [] k = "ask"       -> e

HearEvent ==
  /\ feed # <<>>
  /\ feed' = Tail(feed)
  /\ LET k == Head(feed)[1]
         t == Head(feed)[2]
     IN /\ known' = [known EXCEPT ![t] = After(k, @)]
        /\ prompted' = CASE k = "ask" -> prompted \cup {t}
                         [] k = "archived" -> prompted \ {t}
                         [] OTHER -> prompted
        /\ screen' = IF k = "archived" /\ screen = t THEN 0 ELSE screen
        /\ revived' = IF k \in {"active", "ask"} THEN revived ELSE revived \ {t}
  /\ UNCHANGED <<course, listServer, health, starts, syncing, passes, fails, flaps>>

\* apply_thread_start_response reads the entry under one lock,
StartAnswered(t) ==
  /\ t \in replies
  /\ replies' = replies \ {t}
  /\ starts' = starts \cup {<<t, known[t].turn>>}
  /\ UNCHANGED <<course, made, gone, inTurn, asks, health, feed, known, screen, prompted,
                 revived, syncing, passes, fails, flaps>>

\* and writes it under another: reconcile_active_turn keeps the turn it has read.
StartStored(t, turn) ==
  /\ <<t, turn>> \in starts
  /\ starts' = starts \ {<<t, turn>>}
  /\ known' = [known EXCEPT ![t] = Entry(turn, IF turn THEN "active" ELSE "idle")]
  /\ revived' = IF turn /\ ~known[t].turn THEN revived \cup {t} ELSE revived
  /\ UNCHANGED <<course, listServer, health, feed, screen, prompted, syncing, passes, fails,
                 flaps>>

\* The list on screen may still show a thread that the store has lost.
Open(t) ==
  /\ t \in made \cup {0} /\ screen' = t /\ t # screen
  /\ UNCHANGED <<course, listServer, health, feed, known, prompted, starts, revived, syncing,
                 passes, fails, flaps>>

\* respond_to_approval: resolve_approval once the answer is sent.
Approve(t) ==
  /\ t \in prompted /\ health = "connected"
  /\ prompted' = prompted \ {t} /\ asks' = asks \ {t}
  /\ UNCHANGED <<course, made, gone, inTurn, replies, health, feed, known, screen, starts,
                 revived, syncing, passes, fails, flaps>>

----------------------------------------------------------------------------
(* A pass over the list *)

At(p, l) == {r \in Runtimes : lane[p][r].at = l}

\* The poll asks all runtimes of the session, the tool the default one, and a call of
\* list_threads those of the runtime_kinds in its request that are available, so maybe none.
Fanned(p) ==
  IF p \in Polls THEN {Runtimes} ELSE IF p \in Tools THEN {{Default}} ELSE SUBSET Runtimes

\* The poll refreshes only while connected; its loop ends at the first
\* Disconnected it sees.  The others are called.
BeginPass(p) ==
  /\ p \in course.passes /\ stage[p] = "idle"
  /\ p \in Polls => syncing /\ health = "connected"
  /\ stage' = [stage EXCEPT ![p] = "open"]
  /\ \E S \in Fanned(p) :
       /\ asked' = [asked EXCEPT ![p] = S]
       /\ lane' = [lane EXCEPT ![p] = [r \in Runtimes |->
                     IF r \in S THEN [Idle EXCEPT !.at = "asking"] ELSE Idle]]
  /\ old' = [old EXCEPT ![p] = Exists]
  /\ ids' = [ids EXCEPT ![p] = {}]
  /\ UNCHANGED <<course, listServer, health, feed, app, syncing, fails, flaps>>

EndSync ==
  /\ syncing /\ \A p \in Polls : stage[p] # "open"
  /\ health = "disconnected"
  /\ syncing' = FALSE
  /\ UNCHANGED <<course, listServer, health, feed, app, passes, fails, flaps>>

\* The poll asks one runtime after the other, list_threads all at once.
MayAsk(p, r) ==
  /\ lane[p][r].at = "asking"
  /\ p \in Polls => /\ At(p, "got") = {}
                    /\ \A q \in At(p, "asking") : lane[p][q].cursor <= N => q = r

Older(r, c) == {t \in Exists : RuntimeOf[t] = r /\ t < c}
Newest(S) == CHOOSE t \in S : \A u \in S : u <= t

Answer(p, r) ==
  /\ MayAsk(p, r) /\ health = "connected"
  /\ LET S == Older(r, lane[p][r].cursor)
         t == IF S = {} THEN 0 ELSE Newest(S)
     IN lane' = [lane EXCEPT ![p][r] =
                   [@ EXCEPT !.at = "got", !.page = t, !.live = t \in inTurn,
                             !.more = S \ {t} # {}]]
  /\ UNCHANGED <<course, listServer, health, feed, app, syncing, stage, asked, ids, old,
                 fails, flaps>>

\* A runtime that fails does not stop the others.
Fail(p, r) ==
  /\ MayAsk(p, r)
  /\ \/ health # "connected" /\ fails' = fails
     \/ fails < course.fails /\ fails' = fails + 1
  /\ lane' = [lane EXCEPT ![p][r].at = "failed"]
  /\ UNCHANGED <<course, listServer, health, feed, app, syncing, stage, asked, ids, old,
                 flaps>>

\* upsert_thread_list_page_for_runtime: the entry is built anew from the page
\* (ThreadSnapshot::from_info has no turn) and upsert_thread_snapshot keeps
\* neither the turn nor the status of the entry it replaces.
Upsert(st, t, live) ==
  [st EXCEPT ![t] = Entry(FALSE, IF live THEN "active" ELSE "idle")]

\* Mutant: a thread that was in a turn when it was listed has one.
MergeListed(st, t, live) ==
  [st EXCEPT ![t] = Entry(@.turn \/ live, IF live \/ @.turn THEN "active" ELSE "idle")]

\* sync_thread_list: a thread that has a turn keeps it and its status.
Merge(st, t, live) ==
  [st EXCEPT ![t] = Entry(@.turn, IF live \/ @.turn THEN "active" ELSE "idle")]

Apply(p, r) ==
  /\ p \notin Tools /\ lane[p][r].at = "got"
  /\ LET t == lane[p][r].page
         again == lane[p][r].more /\ p \notin Limited
     IN /\ known' = IF t = 0 THEN known ELSE Upsert(known, t, lane[p][r].live)
        /\ ids' = [ids EXCEPT ![p] = @ \cup ({t} \ {0})]
        /\ lane' = [lane EXCEPT ![p][r] =
                      IF again THEN [Idle EXCEPT !.at = "asking", !.cursor = t]
                      ELSE [Idle EXCEPT !.at = "over"]]
  /\ UNCHANGED <<course, listServer, health, feed, screen, prompted, starts, revived, syncing,
                 stage, asked, old, fails, flaps>>

Pruned(keep) == InStore \ (keep \cup {screen})
PruneNone(st, keep) == st

Prune(st, keep) == [t \in Threads |-> IF t \in Pruned(keep) THEN Absent ELSE st[t]]

\* What goes with the threads that are pruned: their approvals, and the screen if its
\* thread is not there at all.
Forget(keep) ==
  /\ prompted' = prompted \ Pruned(keep)
  /\ screen' = IF screen \in keep \cup InStore THEN screen ELSE 0

Reset(p) ==
  /\ stage' = [stage EXCEPT ![p] = IF p \in Polls THEN "idle" ELSE "done"]
  /\ lane' = [lane EXCEPT ![p] = [r \in Runtimes |-> Idle]]
  /\ asked' = [asked EXCEPT ![p] = {}]
  /\ ids' = [ids EXCEPT ![p] = {}] /\ old' = [old EXCEPT ![p] = {}]

\* Mutant: with what could be read.
FinalizeAnyway(p) ==
  /\ p \in Polls \cup Drains /\ stage[p] = "open"
  /\ At(p, "over") \cup At(p, "failed") = asked[p]
  /\ known' = Prune(known, ids[p]) /\ Forget(ids[p])
  /\ Reset(p)
  /\ UNCHANGED <<course, listServer, health, feed, starts, revived, syncing, fails, flaps>>

\* Every runtime that was asked is through; what the others have is pruned as well.
Finalize(p) ==
  /\ p \in Polls \cup Drains /\ stage[p] = "open" /\ At(p, "over") = asked[p]
  /\ known' = Prune(known, ids[p]) /\ Forget(ids[p])
  /\ Reset(p)
  /\ UNCHANGED <<course, listServer, health, feed, starts, revived, syncing, fails, flaps>>

\* A pass that failed somewhere prunes nothing; a limited list never does.
GiveUp(p) ==
  /\ stage[p] = "open" /\ At(p, "over") \cup At(p, "failed") = asked[p]
  /\ At(p, "failed") # {} \/ p \in Limited
  /\ Reset(p)
  /\ UNCHANGED <<course, listServer, health, feed, app, syncing, fails, flaps>>

\* The tool lists one page of one runtime and syncs the whole server with it.
ToolSync(p) ==
  /\ p \in Tools /\ lane[p][Default].at = "got"
  /\ LET t == lane[p][Default].page
         keep == {t} \ {0}
         left == Prune(known, keep)
     IN /\ known' = IF t = 0 THEN left ELSE Merge(left, t, lane[p][Default].live)
        /\ Forget(keep)
  /\ Reset(p)
  /\ UNCHANGED <<course, listServer, health, feed, starts, revived, syncing, fails, flaps>>

Continue(p) ==
  \/ Finalize(p) \/ GiveUp(p) \/ ToolSync(p)
  \/ \E r \in Runtimes : Answer(p, r) \/ Fail(p, r) \/ Apply(p, r)

ListNext ==
  \/ \E t \in Threads : \/ Make(t) \/ Delete(t)
                        \/ BeginTurn(t) \/ Ask(t) \/ EndTurn(t)
                        \/ Report(t) \/ StartAnswered(t) \/ Approve(t)
                        \/ \E turn \in BOOLEAN : StartStored(t, turn)
  \/ \E t \in Threads \cup {0} : Open(t)
  \/ \E h \in {"connected", "connecting", "disconnected"} : Flap(h)
  \/ HearEvent \/ EndSync
  \/ \E p \in Passes : BeginPass(p) \/ Continue(p)

\* The timer of the poll ticks; its requests are answered or fail; its task runs.
\* The session gets its connection back only if the workers do.
ListFairness ==
  \A p \in Polls : WF_listVars(BeginPass(p)) /\ WF_listVars(Continue(p))

ListSpec == ListInit /\ [][ListNext]_listVars /\ ListFairness

----------------------------------------------------------------------------
(* Properties *)

\* A thread the server has had since before a list began is never taken out of
\* the store at its end by a list that has asked its runtime: whatever the order of
\* pages, failures, events and other lists, only threads that are gone, or that the list
\* could not have seen, are pruned (finalize_thread_list_sync).
OnlyStalePruned ==
  [][\A t \in InStore \ gone : \A p \in Passes :
       ~known'[t].there /\ Finalize(p) /\ RuntimeOf[t] \in asked[p]
         => t \notin old[p]]_listVars

\* A turn the store shows is in progress, or the event of its end is on its way: no list
\* that was answered before the end, no status and no other event brings one back.  Only
\* an answer to thread/start can, when the end comes between its two locks
\* (apply_ui_event, sync_thread_list).
TurnsAreReal ==
  \A t \in Threads : known[t].turn /\ t \notin revived =>
    t \in inTurn \/ \E i \in DOMAIN feed : feed[i] = <<"completed", t>>

\* The poll brings every thread of a server that is not lost for good to the store
\* and takes every deleted one out of it, unless it is on screen; and a thread that is not
\* there does not stay on screen (run_remote_thread_list_sync, finalize_thread_list_sync).
Followed == Polls \subseteq course.passes /\ "disconnected" \notin course.losses

StoreFollows ==
  \A t \in Threads :
    /\ [](Followed /\ flaps = course.flaps /\ health = "connected" /\ t \in Exists
            => <>(t \in InStore \/ t \in gone))
    /\ [](Followed /\ health = "connected" /\ t \in gone
            => <>(t \notin InStore \/ screen = t \/ health # "connected"))
    /\ [](Followed /\ health = "connected" /\ screen = t /\ t \notin InStore
            => <>(t \in InStore \/ screen # t \/ health # "connected"))
=============================================================================
