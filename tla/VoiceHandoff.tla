---------------------------- MODULE VoiceHandoff ----------------------------
(***************************************************************************)
(* Handing a request of the voice session to a coding thread: HandoffManager*)
(* (session/voice_handoff.rs) and VoiceRuntimeController.swift, which calls *)
(* it on the main actor, performs its actions and reports back.            *)
(*                                                                         *)
(* The actions of a call are dispatched at once, each as a task that is    *)
(* not waited for: starting a thread, sending the turn, and the calls that *)
(* give the voice session the output and the end of a handoff.  Tasks come *)
(* to their end in any order, so the end may reach the voice session       *)
(* before the output; an error of the two is swallowed.  The store's       *)
(* snapshot of the coding thread is external: its turn, and its items by   *)
(* version.                                                                *)
(***************************************************************************)
EXTENDS Naturals, FiniteSets

CONSTANTS
  Handoffs,   \* the ids of requests
  Worlds,     \* overlap: a request may come before the one before has ended;
              \* lags: the snapshot shows the turn later than turn/start returns;
              \* late: items change after the snapshot shows the end of the turn;
              \* hides: the snapshot loses a thread (model bound: one)
  MaxItems    \* model bound

ASSUME VoiceAssumption ==
  Worlds \subseteq [overlap : BOOLEAN, lags : BOOLEAN, late : BOOLEAN, hides : BOOLEAN]
  /\ MaxItems \in Nat

VARIABLES
  world,
  shown,      \* appModel.snapshot is there
  entries,    \* handoffs of the manager
  reused,     \* reused_threads of the one target server, 0 for None
  tasks,      \* threads and turns whose start is awaited
  calls,      \* calls to the voice session on their way
  poller,     \* handoffActionPollTask
  cancelled,  \* poll tasks that were cancelled in their sleep
  phase,      \* of activeVoiceSession
  threads,    \* threads created on the target server
  turn, items, \* what the snapshot shows of each
  owner,      \* of a thread: the handoff whose turn it was sent
  hidden,     \* threads the snapshot has lost
  asked,
  heard,      \* of a call: how often it has reached the voice session
  lost        \* calls that failed

manager == <<entries, reused>>
voice == <<calls, heard, lost>>
polling == <<poller, cancelled>>
remote == <<threads, turn, items, owner, hidden>>
vars == <<world, shown, manager, tasks, voice, polling, phase, remote, asked>>

Threads == 1..Cardinality(Handoffs)
NoEntry == [phase |-> "none"]
NewEntry == [phase |-> "Pending", signature |-> {}, polls |-> 0, overdue |-> FALSE]
Phases == {"Pending", "Streaming", "WaitingFinalize", "Completed", "Failed"}
NoPoller == [h |-> "none"]
Pollers == [h : Handoffs, thread : Threads, inactive : 0..2]
Tasks == [op : {"start", "send"}, h : Handoffs, thread : {0} \cup Threads]
Task(op, h, t) == [op |-> op, h |-> h, thread |-> t]
Calls == [op : {"chunk", "end"}, h : Handoffs, what : 0..MaxItems]

TypeOK ==
  /\ world \in Worlds /\ shown \in BOOLEAN
  /\ \A h \in Handoffs :
       entries[h] = NoEntry \/
       entries[h] \in [phase : Phases, signature : SUBSET (0..MaxItems), polls : 0..2,
                       overdue : BOOLEAN]
  /\ reused \in 0..threads /\ tasks \subseteq Tasks /\ calls \subseteq Calls
  /\ poller = NoPoller \/ poller \in Pollers
  /\ cancelled \subseteq Pollers
  /\ phase \in {"listening", "handoff"}
  /\ threads \in {0} \cup Threads
  /\ turn \in [Threads -> {"none", "coming", "active", "done"}]
  /\ items \in [Threads -> 0..MaxItems]
  /\ owner \in [Threads -> SUBSET Handoffs]
  /\ hidden \subseteq Threads
  /\ asked \subseteq Handoffs
  /\ heard \in [Calls -> Nat] /\ lost \subseteq Calls

Init ==
  /\ world \in Worlds /\ shown = FALSE
  /\ entries = [h \in Handoffs |-> NoEntry] /\ reused = 0
  /\ tasks = {} /\ calls = {} /\ phase = "listening"
  /\ poller = NoPoller /\ cancelled = {}
  /\ threads = 0
  /\ turn = [t \in Threads |-> "none"] /\ items = [t \in Threads |-> 0]
  /\ owner = [t \in Threads |-> {}] /\ hidden = {}
  /\ asked = {} /\ heard = [call \in Calls |-> 0] /\ lost = {}

\* A chunk is the items by their version, or 0 for a message of the manager.
Chunk(h, what) == [op |-> "chunk", h |-> h, what |-> what]
End(h) == [op |-> "end", h |-> h, what |-> 0]

\* ResolveHandoff and FinalizeHandoff are dispatched together, each as its own task.
Tell(h, what) == calls' = calls \cup {Chunk(h, what), End(h)}

-----------------------------------------------------------------------------
(* Requests. *)

Busy == \E h \in Handoffs : entries[h].phase \notin {"none", "Completed"}

SnapshotComes ==
  /\ ~shown /\ shown' = TRUE
  /\ UNCHANGED <<world, manager, tasks, voice, polling, phase, remote, asked>>

\* syncHandoffServers resets the manager and registers the servers, unless there is no
\* snapshot yet and so no server at all; handle_handoff_request then reuses or starts a
\* thread, or finds no server.
Request(h) ==
  /\ h \notin asked /\ (world.overlap \/ ~Busy)
  /\ asked' = asked \cup {h}
  /\ phase' = "handoff"
  /\ LET left == IF shown THEN [g \in Handoffs |-> NoEntry] ELSE entries
     IN /\ reused' = IF shown THEN 0 ELSE reused
        /\ \/ /\ shown
              /\ entries' = [left EXCEPT ![h] = NewEntry]
              /\ tasks' = tasks \cup
                   {IF reused' = 0 THEN Task("start", h, 0) ELSE Task("send", h, reused')}
              /\ UNCHANGED calls
           \/ /\ entries' = [left EXCEPT ![h] = [NewEntry EXCEPT !.phase = "Failed"]]
              /\ Tell(h, 0)
              /\ UNCHANGED tasks
  /\ UNCHANGED <<world, shown, heard, lost, polling, remote>>

-----------------------------------------------------------------------------
(* Results of the actions. *)

\* report_thread_creation_failed, report_turn_send_failed
Fail(task) ==
  LET h == task.h IN
  /\ task \in tasks /\ tasks' = tasks \ {task}
  /\ \/ /\ entries[h] = NoEntry
        /\ UNCHANGED <<entries, calls>>
     \/ /\ entries[h] # NoEntry
        /\ entries' = [entries EXCEPT ![h].phase = "Failed"]
        /\ Tell(h, 0)
  /\ UNCHANGED <<world, shown, reused, heard, lost, polling, phase, remote, asked>>

\* executeHandoffStartThread, report_thread_created
ThreadStarts(h) ==
  LET task == Task("start", h, 0) IN
  /\ task \in tasks
  /\ threads' = threads + 1
  /\ \/ /\ entries[h] = NoEntry
        /\ tasks' = tasks \ {task}
        /\ UNCHANGED reused
     \/ /\ entries[h] # NoEntry
        /\ reused' = threads'
        /\ tasks' = (tasks \ {task}) \cup {Task("send", h, threads')}
  /\ UNCHANGED <<world, shown, entries, voice, polling, phase, turn, items, owner, hidden,
                 asked>>

\* executeHandoffSendTurn: report_turn_sent, and polling begins anew.  A task that is
\* cancelled in its sleep wakes, polls once more and is over.
TurnSent(h, t) ==
  /\ Task("send", h, t) \in tasks
  /\ tasks' = tasks \ {Task("send", h, t)}
  /\ turn' = [turn EXCEPT ![t] = IF world.lags THEN "coming" ELSE "active"]
  /\ owner' = [owner EXCEPT ![t] = {h}]
  /\ entries' = IF entries[h] = NoEntry THEN entries
                ELSE [entries EXCEPT ![h].phase = "Streaming"]
  /\ poller' = [h |-> h, thread |-> t, inactive |-> 0]
  /\ cancelled' = cancelled \cup ({poller} \ {NoPoller})
  /\ UNCHANGED <<world, shown, reused, voice, phase, threads, items, hidden, asked>>

\* A call reaches the voice session or fails.
Returns(call) ==
  /\ call \in calls /\ calls' = calls \ {call}
  /\ \/ heard' = [heard EXCEPT ![call] = @ + 1] /\ UNCHANGED lost
     \/ lost' = lost \cup {call} /\ UNCHANGED heard

\* executeHandoffResolve
Resolved(h) ==
  /\ \E what \in 0..MaxItems : Returns(Chunk(h, what))
  /\ UNCHANGED <<world, shown, manager, tasks, polling, phase, remote, asked>>

\* executeHandoffFinalize, report_finalized: whether the call failed or not
Finalized(h) ==
  LET known == entries[h] # NoEntry IN
  /\ Returns(End(h))
  /\ entries' = IF known THEN [entries EXCEPT ![h].phase = "Completed"] ELSE entries
  /\ phase' = IF known THEN "listening" ELSE phase
  /\ UNCHANGED <<world, shown, reused, tasks, polling, remote, asked>>

-----------------------------------------------------------------------------
(* Polling. *)

\* Mutant: what the turn has said so far is sent.
OnlyStable(e, active, version) == e.signature = {version}

\* poll_stream_progress goes on only when the turn is over and nothing has changed.
IsQuiet(e, active, version) == ~active /\ e.signature = {version}

\* Mutant: the end is left to a later poll.
StillStreaming(h, e) == e

Ended(h, e) == [e EXCEPT !.phase = "WaitingFinalize"]

\* Mutant: a turn may be quiet for long.
ThreePolls(e) == e.polls >= 2

SecondPoll(e) == e.polls + 1 >= 2

\* poll_stream_progress, with what the snapshot shows of the poller's thread
Look(p) ==
  LET h == p.h
      e == entries[h]
      active == turn[p.thread] = "active"
      version == items[p.thread]
      seen == [e EXCEPT !.signature = {version}]
      ending(text) == entries' = [entries EXCEPT ![h] = Ended(h, seen)] /\ Tell(h, text)
  IN
  \/ /\ e.phase # "Streaming"
     /\ UNCHANGED <<entries, calls>>
  \/ /\ e.phase = "Streaming" /\ e.overdue
     /\ ending(0)
  \/ /\ e.phase = "Streaming" /\ ~e.overdue
     /\ ~IsQuiet(e, active, version)
     /\ entries' = [entries EXCEPT ![h] = [seen EXCEPT !.polls = 0]]
     /\ UNCHANGED calls
  \/ /\ e.phase = "Streaming" /\ ~e.overdue
     /\ IsQuiet(e, active, version)
     /\ IF SecondPoll(e) THEN ending(version)
        ELSE /\ entries' = [entries EXCEPT ![h] = [seen EXCEPT !.polls = @ + 1]]
             /\ UNCHANGED calls

\* startHandoffStreamPolling breaks at the third poll that finds no turn.
Polled(active) ==
  poller' = IF active THEN [poller EXCEPT !.inactive = 0]
            ELSE IF poller.inactive = 2 THEN NoPoller
            ELSE [poller EXCEPT !.inactive = @ + 1]

\* It breaks as well when the snapshot does not have the thread.
Poll ==
  /\ poller # NoPoller
  /\ \/ /\ poller.thread \notin hidden
        /\ Polled(turn[poller.thread] = "active") /\ Look(poller)
     \/ /\ poller.thread \in hidden
        /\ poller' = NoPoller /\ UNCHANGED <<entries, calls>>
  /\ UNCHANGED <<world, shown, reused, tasks, heard, lost, cancelled, phase, remote, asked>>

LastPoll(p) ==
  /\ p \in cancelled /\ cancelled' = cancelled \ {p}
  /\ \/ p.thread \notin hidden /\ Look(p)
     \/ p.thread \in hidden /\ UNCHANGED <<entries, calls>>
  /\ UNCHANGED <<world, shown, reused, tasks, heard, lost, poller, phase, remote, asked>>

\* stream_timeout_secs have passed.
TimePasses(h) ==
  /\ entries[h].phase = "Streaming" /\ ~entries[h].overdue
  /\ entries' = [entries EXCEPT ![h].overdue = TRUE]
  /\ UNCHANGED <<world, shown, reused, tasks, voice, polling, phase, remote, asked>>

-----------------------------------------------------------------------------
(* The coding thread. *)

app == <<world, shown, manager, tasks, voice, polling, phase, threads, owner, asked>>

TurnShown(t) ==
  /\ turn[t] = "coming"
  /\ turn' = [turn EXCEPT ![t] = "active"]
  /\ UNCHANGED <<app, items, hidden>>

ItemsChange(t) ==
  /\ turn[t] = "active" \/ (world.late /\ turn[t] = "done")
  /\ items[t] < MaxItems
  /\ items' = [items EXCEPT ![t] = @ + 1]
  /\ UNCHANGED <<app, turn, hidden>>

TurnEnds(t) ==
  /\ turn[t] = "active"
  /\ turn' = [turn EXCEPT ![t] = "done"]
  /\ UNCHANGED <<app, items, hidden>>

\* The store prunes the thread, or it is archived.
Hide(t) ==
  /\ world.hides /\ t <= threads /\ hidden = {}
  /\ hidden' = {t}
  /\ UNCHANGED <<app, turn, items>>

-----------------------------------------------------------------------------

Results(h) ==
  \/ ThreadStarts(h) \/ Fail(Task("start", h, 0)) \/ Resolved(h) \/ Finalized(h)
  \/ \E t \in Threads : TurnSent(h, t) \/ Fail(Task("send", h, t))

Next ==
  \/ \E h \in Handoffs : Request(h) \/ Results(h) \/ TimePasses(h)
  \/ Poll \/ \E p \in cancelled : LastPoll(p)
  \/ SnapshotComes
  \/ \E t \in Threads : TurnShown(t) \/ ItemsChange(t) \/ TurnEnds(t) \/ Hide(t)

Spec == Init /\ [][Next]_vars

\* Calls are answered, the poll task runs, turns begin and end.
FairSpec ==
  /\ Spec
  /\ WF_vars(Poll)
  /\ \A h \in Handoffs : WF_vars(Results(h))
  /\ \A t \in Threads : WF_vars(TurnShown(t)) /\ WF_vars(TurnEnds(t))

-----------------------------------------------------------------------------

\* The voice session is told of a handoff once: it hears at most one output and one
\* end, and neither when the call for it has failed, whichever steps fail, overlap or
\* come late.  The two may come in either order.
ToldOnce ==
  /\ \A c, d \in Calls :
       heard[c] > 0 /\ heard[d] > 0 /\ c.h = d.h /\ c.op = d.op => c = d
  /\ \A c \in Calls : heard[c] <= 1 /\ (c \in lost => heard[c] = 0)

\* One request at a time, and a snapshot that is up to date.
Orderly == ~world.overlap /\ ~world.lags /\ ~world.late /\ ~world.hides

\* What an orderly voice session hears of a turn is its final answer: the turn that was
\* sent for this handoff is over, and these are its items (poll_stream_progress).
AnswerIsFinal ==
  \A c \in Calls :
    heard[c] > 0 /\ c.what > 0 /\ Orderly =>
      \E t \in Threads : c.h \in owner[t] /\ turn[t] = "done" /\ items[t] = c.what

\* In it every handoff comes to its end: the voice session hears the end, or the call
\* for it has failed, and the manager has let it go or has been asked for the next one
\* (executeHandoffFinalize swallows the error).
Told(h) == heard[End(h)] > 0 \/ End(h) \in lost

HandoffEnds ==
  \A h \in Handoffs :
    (h \in asked /\ Orderly) ~> (Told(h) /\ entries[h].phase \in {"Completed", "none"})
=============================================================================
