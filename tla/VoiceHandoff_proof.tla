-------------------------- MODULE VoiceHandoff_proof --------------------------
(***************************************************************************)
(* The voice session is told of a handoff once, whatever the threads, the  *)
(* turns, the polls and the requests that come in between do, and in an    *)
(* orderly session what it hears of a turn is final.                       *)
(***************************************************************************)
EXTENDS VoiceHandoff, TLAPS

Polls(p) == p \in Pollers

Shape ==
  /\ DOMAIN entries = Handoffs
  /\ \A h \in Handoffs : "phase" \in DOMAIN entries[h]
  /\ \A task \in tasks : task.h \in Handoffs
  /\ poller # NoPoller => Polls(poller)
  /\ \A p \in cancelled : Polls(p)
  /\ items \in [Threads -> 0..MaxItems]
  /\ calls \subseteq Calls /\ lost \subseteq Calls /\ heard \in [Calls -> Nat]

\* A thread or a turn of h is being started.
Starting(h) == \E task \in tasks : task.h = h

Out(c) == c \in calls \/ c \in lost \/ heard[c] > 0
Said(h) == \E c \in Calls : c.h = h /\ Out(c)

\* h goes through its stages in order: it is asked for, started by one task at a time,
\* streamed, and then the voice session is told.
InOrder(h) ==
  /\ Starting(h) \/ Said(h) => h \in asked
  /\ entries[h].phase = "Streaming" => h \in asked
  /\ Said(h) \/ entries[h].phase = "Streaming" => ~Starting(h)
  /\ Said(h) => entries[h].phase # "Streaming"
  /\ \A s, t \in tasks : s.h = h /\ t.h = h => s = t

\* One call of each kind is made for a handoff, and it is on its way, heard or lost.
OneCall ==
  /\ \A c, d \in Calls : Out(c) /\ Out(d) /\ c.h = d.h /\ c.op = d.op => c = d
  /\ \A c \in Calls : /\ heard[c] <= 1
                      /\ c \in calls => heard[c] = 0 /\ c \notin lost
                      /\ c \in lost => heard[c] = 0

IInv == Shape /\ (\A h \in Handoffs : InOrder(h)) /\ OneCall

LEMMA MaxIsNat == MaxItems \in Nat
BY VoiceAssumption

\* What the manager says of a handoff: the output and the end.
LEMMA Telling ==
  ASSUME Shape, OneCall, NEW h \in Handoffs, ~Said(h), NEW w \in 0..MaxItems, Tell(h, w),
         UNCHANGED <<heard, lost>>
  PROVE  /\ calls' \subseteq Calls /\ OneCall'
         /\ \A g \in Handoffs : Said(g)' <=> Said(g) \/ g = h
<1>1. Chunk(h, w) \in Calls /\ End(h) \in Calls
  BY MaxIsNat DEF Chunk, End, Calls
<1>2. /\ Chunk(h, w).h = h /\ End(h).h = h
      /\ Chunk(h, w).op = "chunk" /\ End(h).op = "end"
  BY DEF Chunk, End
<1>3. calls' = calls \cup {Chunk(h, w), End(h)} /\ calls' \subseteq Calls
  BY <1>1 DEF Tell, Shape
<1>4. \A c \in Calls : c.h = h => ~Out(c)
  BY DEF Said
<1>5. ASSUME NEW c \in Calls
      PROVE  Out(c)' <=> Out(c) \/ c \in {Chunk(h, w), End(h)}
  BY <1>3 DEF Out
<1>6. OneCall'
  <2>1. ASSUME NEW c \in Calls, NEW d \in Calls, Out(c)', Out(d)', c.h = d.h, c.op = d.op
        PROVE  c = d
    <3>1. CASE c.h = h
      BY <1>2, <1>4, <1>5, <2>1, <3>1
    <3>2. CASE c.h # h
      BY <1>2, <1>5, <2>1, <3>2 DEF OneCall
    <3> QED
      BY <3>1, <3>2
  <2>2. ASSUME NEW c \in Calls
        PROVE  /\ heard'[c] <= 1
               /\ c \in calls' => heard'[c] = 0 /\ c \notin lost'
               /\ c \in lost' => heard'[c] = 0
    <3>1. CASE c \in {Chunk(h, w), End(h)}
      <4>1. ~Out(c) /\ heard[c] \in Nat
        BY <1>1, <1>2, <1>4, <3>1 DEF Shape
      <4> QED
        BY <4>1 DEF Out
    <3>2. CASE c \notin {Chunk(h, w), End(h)}
      BY <1>3, <3>2 DEF OneCall
    <3> QED
      BY <3>1, <3>2
  <2> QED
    BY <2>1, <2>2 DEF OneCall
<1>7. ASSUME NEW g \in Handoffs
      PROVE  Said(g)' <=> Said(g) \/ g = h
  <2>1. Said(g) => Said(g)'
    BY <1>5 DEF Said
  <2>2. Said(h)'
    BY <1>1, <1>2, <1>5 DEF Said
  <2>3. Said(g)' => Said(g) \/ g = h
    BY <1>2, <1>5 DEF Said
  <2> QED
    BY <2>1, <2>2, <2>3
<1> QED
  BY <1>3, <1>6, <1>7

\* A call that comes to its end has been made, and is heard or lost, not both.
LEMMA Returning ==
  ASSUME Shape, OneCall, NEW call, Returns(call)
  PROVE  /\ calls' \subseteq Calls /\ lost' \subseteq Calls /\ heard' \in [Calls -> Nat]
         /\ OneCall'
         /\ \A g \in Handoffs : Said(g)' <=> Said(g)
<1>1. call \in Calls /\ call \in calls /\ heard[call] = 0 /\ call \notin lost
  BY DEF Returns, Shape, OneCall
<1>2. calls' = calls \ {call}
  BY DEF Returns
<1>3. /\ calls' \subseteq Calls /\ lost' \subseteq Calls /\ heard' \in [Calls -> Nat]
  BY <1>1 DEF Returns, Shape
<1>4. \A c \in Calls : c # call => heard'[c] = heard[c] /\ (c \in lost' <=> c \in lost)
  BY <1>1 DEF Returns, Shape
<1>5. \/ heard'[call] = 1 /\ call \notin lost'
      \/ heard'[call] = 0 /\ call \in lost'
  BY <1>1 DEF Returns, Shape
<1>6. \A c \in Calls : Out(c)' <=> Out(c)
  BY <1>1, <1>2, <1>4, <1>5 DEF Out
<1>7. OneCall'
  <2>1. \A c, d \in Calls : Out(c)' /\ Out(d)' /\ c.h = d.h /\ c.op = d.op => c = d
    BY <1>6 DEF OneCall
  <2>2. ASSUME NEW c \in Calls
        PROVE  /\ heard'[c] <= 1
               /\ c \in calls' => heard'[c] = 0 /\ c \notin lost'
               /\ c \in lost' => heard'[c] = 0
    <3>1. CASE c = call
      BY <1>2, <1>5, <3>1
    <3>2. CASE c # call
      BY <1>2, <1>4, <3>2 DEF OneCall
    <3> QED
      BY <3>1, <3>2
  <2> QED
    BY <2>1, <2>2 DEF OneCall
<1> QED
  BY <1>3, <1>6, <1>7 DEF Said

\* The calls stay as they are.
LEMMA NothingSaid ==
  ASSUME UNCHANGED <<calls, heard, lost>>
  PROVE  /\ OneCall => OneCall'
         /\ \A g \in Handoffs : Said(g)' <=> Said(g)
BY DEF OneCall, Said, Out

LEMMA InitInv == Init => IInv
<1> SUFFICES ASSUME Init PROVE IInv
  OBVIOUS
<1>1. Shape
  BY MaxIsNat DEF Init, Shape, NoEntry, NoPoller
<1>2. \A c \in Calls : ~Out(c) /\ heard[c] = 0
  BY DEF Init, Out
<1>3. OneCall /\ \A h \in Handoffs : ~Said(h)
  BY <1>2 DEF OneCall, Said, Init
<1>4. \A h \in Handoffs : InOrder(h)
  BY <1>3 DEF Init, InOrder, Starting, NoEntry
<1> QED
  BY <1>1, <1>3, <1>4 DEF IInv

\* A handoff that is asked for is new: it is started, or the voice session is told
\* that its server is not there.
LEMMA RequestKeeps ==
  ASSUME IInv, NEW h \in Handoffs, Request(h)
  PROVE  IInv'
<1> DEFINE left == IF shown THEN [g \in Handoffs |-> NoEntry] ELSE entries
<1>1. h \notin asked /\ asked' = asked \cup {h} /\ UNCHANGED <<heard, lost, poller, cancelled, items>>
  BY DEF Request, polling, remote
<1>2. ~Starting(h) /\ ~Said(h)
  BY <1>1 DEF IInv, InOrder
<1>3. /\ DOMAIN left = Handoffs
      /\ \A g \in Handoffs :
           /\ "phase" \in DOMAIN left[g]
           /\ left[g].phase = "Streaming" => entries[g].phase = "Streaming"
  BY DEF IInv, Shape, NoEntry
<1>4. ASSUME NEW k, k.h = h, k \notin tasks,
             tasks' = tasks \cup {k}, UNCHANGED calls,
             entries' = [left EXCEPT ![h] = NewEntry]
      PROVE  IInv'
  <2>1. Shape' /\ OneCall'
    BY <1>1, <1>3, <1>4, NothingSaid DEF IInv, Shape, NewEntry, Polls, Pollers
  <2>2. ASSUME NEW g \in Handoffs PROVE InOrder(g)'
    <3>1. entries'[g].phase = "Streaming" => entries[g].phase = "Streaming" /\ g # h
      BY <1>3, <1>4 DEF NewEntry
    <3>2. Said(g)' <=> Said(g)
      BY <1>1, <1>4, NothingSaid
    <3>3. CASE g = h
      BY <1>1, <1>2, <1>4, <3>1, <3>2, <3>3 DEF InOrder, Starting
    <3>4. CASE g # h
      <4>1. \A s \in tasks' : s.h = g => s \in tasks
        BY <1>4, <3>4
      <4> QED
        BY <1>1, <3>1, <3>2, <4>1 DEF IInv, InOrder, Starting
    <3> QED
      BY <3>3, <3>4
  <2> QED
    BY <2>1, <2>2 DEF IInv
<1>5. ASSUME entries' = [left EXCEPT ![h] = [NewEntry EXCEPT !.phase = "Failed"]],
             Tell(h, 0), UNCHANGED tasks
      PROVE  IInv'
  <2>1. calls' \subseteq Calls /\ OneCall' /\ \A g \in Handoffs : Said(g)' <=> Said(g) \/ g = h
    <3>1. 0 \in 0..MaxItems
      BY MaxIsNat
    <3> QED
      BY <1>1, <1>2, <1>5, <3>1, Telling DEF IInv
  <2>2. Shape'
    BY <1>1, <1>3, <1>5, <2>1 DEF IInv, Shape, NewEntry, Polls, Pollers
  <2>3. ASSUME NEW g \in Handoffs PROVE InOrder(g)'
    <3>1. entries'[g].phase = "Streaming" => entries[g].phase = "Streaming" /\ g # h
      BY <1>3, <1>5 DEF NewEntry
    <3>2. Starting(g)' <=> Starting(g)
      BY <1>5 DEF Starting
    <3> QED
      BY <1>1, <1>2, <1>5, <2>1, <3>1, <3>2 DEF IInv, InOrder
  <2> QED
    BY <2>1, <2>2, <2>3 DEF IInv
<1>6. \/ Tell(h, 0) /\ UNCHANGED tasks
         /\ entries' = [left EXCEPT ![h] = [NewEntry EXCEPT !.phase = "Failed"]]
      \/ /\ entries' = [left EXCEPT ![h] = NewEntry] /\ UNCHANGED calls
         /\ \E k \in {Task("start", h, 0), Task("send", h, reused')} : tasks' = tasks \cup {k}
  BY DEF Request
<1>7. \A k \in {Task("start", h, 0), Task("send", h, reused')} : k.h = h
  BY DEF Task
<1>8. \A k \in {Task("start", h, 0), Task("send", h, reused')} : k \notin tasks
  BY <1>2, <1>7 DEF Starting
<1> QED
  BY <1>4, <1>5, <1>6, <1>7, <1>8

\* A task that starts h is the only one, and nothing is said of h before.
LEMMA Starter ==
  ASSUME IInv, NEW h \in Handoffs, NEW task \in tasks, task.h = h
  PROVE  /\ h \in asked /\ ~Said(h) /\ entries[h].phase # "Streaming"
         /\ \A s \in tasks : s.h = h => s = task
BY DEF IInv, InOrder, Starting

\* The one task that would have started h is over; the voice session is told, unless
\* the manager no longer knows h.
LEMMA FailKeeps ==
  ASSUME IInv, NEW h \in Handoffs, NEW task, task.h = h, Fail(task)
  PROVE  IInv'
<1>1. /\ task \in tasks /\ tasks' = tasks \ {task}
      /\ UNCHANGED <<heard, lost, poller, cancelled, items, asked>>
  BY DEF Fail, polling, remote
<1>2. CASE UNCHANGED <<entries, calls>>
  <2>1. Shape' /\ OneCall'
    BY <1>1, <1>2, NothingSaid DEF IInv, Shape, Polls, Pollers
  <2>2. ASSUME NEW g \in Handoffs PROVE InOrder(g)'
    <3>1. Said(g)' <=> Said(g)
      BY <1>1, <1>2, NothingSaid
    <3> QED
      BY <1>1, <1>2, <3>1 DEF IInv, InOrder, Starting
  <2> QED
    BY <2>1, <2>2 DEF IInv
<1>3. CASE entries' = [entries EXCEPT ![h].phase = "Failed"] /\ Tell(h, 0)
  <2>1. calls' \subseteq Calls /\ OneCall' /\ \A g \in Handoffs : Said(g)' <=> Said(g) \/ g = h
    <3>1. 0 \in 0..MaxItems
      BY MaxIsNat
    <3> QED
      BY <1>1, <1>3, <3>1, Telling, Starter DEF IInv
  <2>2. Shape'
    BY <1>1, <1>3, <2>1 DEF IInv, Shape, Polls, Pollers
  <2>3. ASSUME NEW g \in Handoffs PROVE InOrder(g)'
    <3>1. CASE g = h
      <4>1. ~Starting(h)'
        BY <1>1, Starter DEF Starting
      <4>2. entries'[h].phase # "Streaming" /\ h \in asked'
        BY <1>1, <1>3, Starter DEF IInv, Shape
      <4> QED
        BY <3>1, <4>1, <4>2 DEF InOrder, Starting
    <3>2. CASE g # h
      <4>1. entries'[g] = entries[g] /\ (Said(g)' <=> Said(g))
        BY <1>3, <2>1, <3>2 DEF IInv, Shape
      <4> QED
        BY <1>1, <4>1 DEF IInv, InOrder, Starting
    <3> QED
      BY <3>1, <3>2
  <2> QED
    BY <2>1, <2>2, <2>3 DEF IInv
<1> QED
  BY <1>2, <1>3 DEF Fail

\* The thread is there, and its turn is the next task.
LEMMA ThreadStartsKeeps ==
  ASSUME IInv, NEW h \in Handoffs, ThreadStarts(h)
  PROVE  IInv'
<1> DEFINE task == Task("start", h, 0)
<1>1. task \in tasks /\ task.h = h /\ Task("send", h, threads').h = h
  BY DEF ThreadStarts, Task
<1>2. UNCHANGED <<entries, poller, cancelled, items, asked, calls, heard, lost>>
  BY DEF ThreadStarts, voice, polling
<1>3. \/ tasks' = tasks \ {task}
      \/ tasks' = (tasks \ {task}) \cup {Task("send", h, threads')}
  BY DEF ThreadStarts
<1>4. Shape' /\ OneCall'
  BY <1>1, <1>2, <1>3, NothingSaid DEF IInv, Shape, Polls, Pollers
<1>5. ASSUME NEW g \in Handoffs PROVE InOrder(g)'
  <2>1. Said(g)' <=> Said(g)
    BY <1>2, NothingSaid
  <2>2. CASE g = h
    BY <1>1, <1>2, <1>3, <2>1, <2>2, Starter DEF InOrder, Starting
  <2>3. CASE g # h
    <3>1. \A s \in tasks' : s.h = g => s \in tasks
      BY <1>1, <1>3, <2>3
    <3> QED
      BY <1>2, <2>1, <3>1 DEF IInv, InOrder, Starting
  <2> QED
    BY <2>2, <2>3
<1> QED
  BY <1>4, <1>5 DEF IInv

\* The turn is sent by the last task that starts h.
LEMMA TurnSentKeeps ==
  ASSUME IInv, NEW h \in Handoffs, NEW t \in Threads, TurnSent(h, t)
  PROVE  IInv'
<1> DEFINE task == Task("send", h, t)
<1>1. task \in tasks /\ task.h = h /\ tasks' = tasks \ {task}
  BY DEF TurnSent, Task
<1>2. /\ UNCHANGED <<items, asked, calls, heard, lost>>
      /\ poller' = [h |-> h, thread |-> t, inactive |-> 0]
      /\ cancelled' = cancelled \cup ({poller} \ {NoPoller})
      /\ entries' = entries \/ entries' = [entries EXCEPT ![h].phase = "Streaming"]
  BY DEF TurnSent, voice
<1>3. Shape' /\ OneCall'
  BY <1>1, <1>2, NothingSaid DEF IInv, Shape, Polls, Pollers
<1>4. ASSUME NEW g \in Handoffs PROVE InOrder(g)'
  <2>1. Said(g)' <=> Said(g)
    BY <1>2, NothingSaid
  <2>2. CASE g = h
    BY <1>1, <1>2, <2>1, <2>2, Starter DEF InOrder, Starting
  <2>3. CASE g # h
    <3>1. entries'[g] = entries[g]
      BY <1>2, <2>3 DEF IInv, Shape
    <3> QED
      BY <1>1, <1>2, <2>1, <3>1 DEF IInv, InOrder, Starting
  <2> QED
    BY <2>2, <2>3
<1> QED
  BY <1>3, <1>4 DEF IInv

LEMMA ReturnsKeep ==
  ASSUME IInv, NEW h \in Handoffs, Resolved(h) \/ Finalized(h)
  PROVE  IInv'
<1>1. \E call : Returns(call)
  BY DEF Resolved, Finalized
<1>2. /\ calls' \subseteq Calls /\ lost' \subseteq Calls /\ heard' \in [Calls -> Nat]
      /\ OneCall' /\ \A g \in Handoffs : Said(g)' <=> Said(g)
  BY <1>1, Returning DEF IInv
<1>3. /\ UNCHANGED <<tasks, poller, cancelled, items, asked>>
      /\ entries' = entries \/ entries' = [entries EXCEPT ![h].phase = "Completed"]
  BY DEF Resolved, Finalized, manager, polling, remote
<1>4. Shape'
  BY <1>2, <1>3 DEF IInv, Shape, Polls, Pollers
<1>5. ASSUME NEW g \in Handoffs PROVE InOrder(g)'
  <2>1. entries'[g].phase = "Streaming" => entries[g].phase = "Streaming"
    BY <1>3 DEF IInv, Shape
  <2>2. Starting(g)' <=> Starting(g)
    BY <1>3 DEF Starting
  <2> QED
    BY <1>2, <1>3, <2>1, <2>2 DEF IInv, InOrder
<1> QED
  BY <1>2, <1>4, <1>5 DEF IInv

\* A poll looks at a handoff, and may tell the voice session of it, which is streamed
\* until then.
LEMMA Looks ==
  ASSUME IInv, NEW p, Polls(p), Look(p)
  PROVE  \/ UNCHANGED <<entries, calls>>
         \/ /\ entries[p.h].phase = "Streaming" /\ UNCHANGED calls
            /\ \E e : "phase" \in DOMAIN e /\ entries' = [entries EXCEPT ![p.h] = e]
         \/ /\ entries[p.h].phase = "Streaming"
            /\ \E w \in {0, items[p.thread]} : Tell(p.h, w)
            /\ \E e : /\ "phase" \in DOMAIN e /\ e.phase # "Streaming"
                      /\ entries' = [entries EXCEPT ![p.h] = e]
<1> DEFINE seen == [entries[p.h] EXCEPT !.signature = {items[p.thread]}]
<1>1. "phase" \in DOMAIN entries[p.h]
  BY DEF Polls, Pollers, IInv, Shape
<1>2. /\ "phase" \in DOMAIN Ended(p.h, seen) /\ Ended(p.h, seen).phase # "Streaming"
      /\ "phase" \in DOMAIN [seen EXCEPT !.polls = 0]
      /\ "phase" \in DOMAIN [seen EXCEPT !.polls = @ + 1]
  BY <1>1 DEF Ended
<1>3. \/ UNCHANGED <<entries, calls>>
      \/ /\ entries[p.h].phase = "Streaming" /\ UNCHANGED calls
         /\ \/ entries' = [entries EXCEPT ![p.h] = [seen EXCEPT !.polls = 0]]
            \/ entries' = [entries EXCEPT ![p.h] = [seen EXCEPT !.polls = @ + 1]]
      \/ /\ entries[p.h].phase = "Streaming"
         /\ Tell(p.h, 0) \/ Tell(p.h, items[p.thread])
         /\ entries' = [entries EXCEPT ![p.h] = Ended(p.h, seen)]
  BY DEF Look
<1> QED
  BY <1>2, <1>3

LEMMA LookKeeps ==
  ASSUME IInv, NEW p, Polls(p), Look(p) \/ UNCHANGED <<entries, calls>>,
         UNCHANGED <<tasks, heard, lost, items, asked>>,
         poller' # NoPoller => Polls(poller'),
         \A q \in cancelled' : Polls(q)
  PROVE  IInv'
<1> DEFINE h == p.h
<1>1. h \in Handoffs /\ \A g \in Handoffs : Starting(g)' <=> Starting(g)
  BY DEF Polls, Pollers, Starting
<1>2. CASE UNCHANGED <<entries, calls>>
  <2>1. Shape' /\ OneCall'
    BY <1>2, NothingSaid DEF IInv, Shape, Polls, Pollers
  <2>2. \A g \in Handoffs : Said(g)' <=> Said(g)
    BY <1>2, NothingSaid
  <2> QED
    BY <1>1, <1>2, <2>1, <2>2 DEF IInv, InOrder
<1>3. ASSUME entries[h].phase = "Streaming", UNCHANGED calls,
             NEW e, "phase" \in DOMAIN e, entries' = [entries EXCEPT ![h] = e]
      PROVE  IInv'
  <2>1. Shape' /\ OneCall'
    BY <1>1, <1>3, NothingSaid DEF IInv, Shape, Polls, Pollers
  <2>2. ASSUME NEW g \in Handoffs PROVE InOrder(g)'
    <3>1. entries'[g].phase = "Streaming" => entries[g].phase = "Streaming"
      BY <1>3 DEF IInv, Shape
    <3>2. Said(g)' <=> Said(g)
      BY <1>3, NothingSaid
    <3> QED
      BY <1>1, <3>1, <3>2 DEF IInv, InOrder
  <2> QED
    BY <2>1, <2>2 DEF IInv
<1>4. ASSUME entries[h].phase = "Streaming", NEW w \in 0..MaxItems, Tell(h, w),
             NEW e, "phase" \in DOMAIN e, e.phase # "Streaming",
             entries' = [entries EXCEPT ![h] = e]
      PROVE  IInv'
  <2>1. ~Said(h) /\ ~Starting(h) /\ h \in asked
    BY <1>1, <1>4 DEF IInv, InOrder
  <2>2. calls' \subseteq Calls /\ OneCall' /\ \A g \in Handoffs : Said(g)' <=> Said(g) \/ g = h
    BY <1>1, <1>4, <2>1, Telling DEF IInv
  <2>3. Shape'
    BY <1>1, <1>4, <2>2 DEF IInv, Shape, Polls, Pollers
  <2>4. ASSUME NEW g \in Handoffs PROVE InOrder(g)'
    <3>1. /\ g = h => entries'[g].phase # "Streaming"
          /\ g # h => entries'[g] = entries[g]
      BY <1>1, <1>4 DEF IInv, Shape
    <3> QED
      BY <1>1, <2>1, <2>2, <3>1 DEF IInv, InOrder
  <2> QED
    BY <2>2, <2>3, <2>4 DEF IInv
<1>5. 0 \in 0..MaxItems /\ items[p.thread] \in 0..MaxItems
  BY MaxIsNat DEF Polls, Pollers, IInv, Shape
<1> QED
  BY <1>2, <1>3, <1>4, <1>5, Looks

\* The poll task keeps to its thread.
LEMMA PollerStays ==
  ASSUME Polls(poller), NEW active \in BOOLEAN, Polled(active), poller' # NoPoller
  PROVE  /\ Polls(poller')
         /\ poller'.h = poller.h /\ poller'.thread = poller.thread
BY DEF Polled, Polls, Pollers

LEMMA PollKeeps ==
  ASSUME IInv, Poll
  PROVE  IInv'
<1>1. Polls(poller) /\ (Look(poller) \/ UNCHANGED <<entries, calls>>)
  BY DEF Poll, IInv, Shape
<1>2. UNCHANGED <<tasks, heard, lost, items, asked, cancelled>>
  BY DEF Poll, remote
<1>3. poller' # NoPoller => Polls(poller')
  BY <1>1, PollerStays DEF Poll
<1>4. \A q \in cancelled' : Polls(q)
  BY <1>2 DEF IInv, Shape
<1> QED
  BY <1>1, <1>2, <1>3, <1>4, LookKeeps

LEMMA LastPollKeeps ==
  ASSUME IInv, NEW p \in cancelled, LastPoll(p)
  PROVE  IInv'
<1>1. Polls(p) /\ (Look(p) \/ UNCHANGED <<entries, calls>>)
  BY DEF LastPoll, IInv, Shape
<1>2. UNCHANGED <<tasks, heard, lost, items, asked, poller>> /\ cancelled' = cancelled \ {p}
  BY DEF LastPoll, remote
<1>3. (poller' # NoPoller => Polls(poller')) /\ \A q \in cancelled' : Polls(q)
  BY <1>2 DEF IInv, Shape, Polls, Pollers
<1> QED
  BY <1>1, <1>2, <1>3, LookKeeps

\* Time, the snapshot and the coding thread start nothing and end nothing.
LEMMA OthersKeep ==
  ASSUME IInv,
         \/ \E h \in Handoffs : TimePasses(h)
         \/ \E t \in Threads : TurnShown(t) \/ ItemsChange(t) \/ TurnEnds(t) \/ Hide(t)
         \/ SnapshotComes \/ UNCHANGED vars
  PROVE  IInv'
<1>1. ASSUME UNCHANGED <<tasks, calls, heard, lost, poller, cancelled, asked>>,
             items' \in [Threads -> 0..MaxItems], DOMAIN entries' = Handoffs,
             \A g \in Handoffs :
               entries'[g].phase = entries[g].phase /\ "phase" \in DOMAIN entries'[g]
      PROVE  IInv'
  <2>1. OneCall' /\ \A g \in Handoffs : Said(g)' <=> Said(g)
    BY <1>1, NothingSaid DEF IInv
  <2>2. Shape'
    BY <1>1 DEF IInv, Shape, Polls, Pollers
  <2>3. \A g \in Handoffs : InOrder(g)'
    BY <1>1, <2>1 DEF IInv, InOrder, Starting
  <2> QED
    BY <2>1, <2>2, <2>3 DEF IInv
<1>2. ASSUME NEW h \in Handoffs, TimePasses(h) PROVE IInv'
  <2>1. UNCHANGED <<tasks, calls, heard, lost, poller, cancelled, items, asked>>
    BY <1>2 DEF TimePasses, voice, polling, remote
  <2>2. /\ DOMAIN entries' = Handoffs
        /\ \A g \in Handoffs :
             entries'[g].phase = entries[g].phase /\ "phase" \in DOMAIN entries'[g]
    BY <1>2 DEF TimePasses, IInv, Shape
  <2>3. items' \in [Threads -> 0..MaxItems]
    BY <2>1 DEF IInv, Shape
  <2> QED
    BY <1>1, <2>1, <2>2, <2>3
<1>3. ASSUME NEW t \in Threads, TurnShown(t) \/ ItemsChange(t) \/ TurnEnds(t) \/ Hide(t)
      PROVE  IInv'
  <2>1. UNCHANGED <<entries, tasks, calls, heard, lost, poller, cancelled, asked>>
    BY <1>3 DEF TurnShown, ItemsChange, TurnEnds, Hide, app, manager, voice, polling
  <2>2. items' \in [Threads -> 0..MaxItems]
    <3>1. UNCHANGED items
             \/ (items[t] < MaxItems /\ items' = [items EXCEPT ![t] = @ + 1])
      BY <1>3 DEF TurnShown, ItemsChange, TurnEnds, Hide
    <3> QED
      BY <3>1, MaxIsNat DEF IInv, Shape
  <2>3. \A g \in Handoffs : "phase" \in DOMAIN entries'[g] /\ DOMAIN entries' = Handoffs
    BY <2>1 DEF IInv, Shape
  <2>4. DOMAIN entries' = Handoffs
    BY <2>1 DEF IInv, Shape
  <2> QED
    BY <1>1, <2>1, <2>2, <2>3, <2>4
<1>4. ASSUME SnapshotComes \/ UNCHANGED vars PROVE IInv'
  <2>1. UNCHANGED <<entries, tasks, calls, heard, lost, poller, cancelled, items, asked>>
    BY <1>4 DEF SnapshotComes, vars, manager, voice, polling, remote
  <2>2. /\ items' \in [Threads -> 0..MaxItems] /\ DOMAIN entries' = Handoffs
        /\ \A g \in Handoffs : "phase" \in DOMAIN entries'[g]
    BY <2>1 DEF IInv, Shape
  <2> QED
    BY <1>1, <2>1, <2>2
<1> QED
  BY <1>2, <1>3, <1>4

LEMMA NextKeeps == IInv /\ [Next]_vars => IInv'
<1> SUFFICES ASSUME IInv, [Next]_vars PROVE IInv'
  OBVIOUS
<1>1. ASSUME NEW h \in Handoffs, Fail(Task("start", h, 0)) PROVE IInv'
  <2>1. Task("start", h, 0).h = h
    BY DEF Task
  <2> QED
    BY <1>1, <2>1, FailKeeps
<1>2. ASSUME NEW h \in Handoffs, NEW t \in Threads, Fail(Task("send", h, t)) PROVE IInv'
  <2>1. Task("send", h, t).h = h
    BY DEF Task
  <2> QED
    BY <1>2, <2>1, FailKeeps
<1> QED
  BY <1>1, <1>2, RequestKeeps, ThreadStartsKeeps, TurnSentKeeps, ReturnsKeep, PollKeeps,
     LastPollKeeps, OthersKeep DEF Next, Results

\* However handoffs overlap, fail or come late, the voice session hears at most one
\* output and one end of each, in whatever order the two calls arrive.
THEOREM HandoffsToldOnce == Spec => []ToldOnce
<1>1. IInv => ToldOnce
  BY DEF IInv, OneCall, Out, ToldOnce
<1> QED
  BY InitInv, NextKeeps, <1>1, PTL DEF Spec

-----------------------------------------------------------------------------
(* What the voice session hears of a turn is final. *)

Final(c) ==
  \E t \in Threads : c.h \in owner[t] /\ turn[t] = "done" /\ items[t] = c.what

\* Each turn has a thread of its own, which has no turn before, and is shown from the
\* moment it is sent if the snapshot does not lag.
Turns ==
  /\ threads \in Nat /\ DOMAIN turn = Threads /\ DOMAIN owner = Threads
  /\ \A t \in Threads : turn[t] \in {"none", "coming", "active", "done"}
  /\ \A t \in Threads : turn[t] # "none" => t \in 1..threads
  /\ \A task \in tasks : task.op = "send" =>
       task.thread \in 1..threads /\ (task.thread \in Threads => turn[task.thread] = "none")
  /\ \A r, s \in tasks : r.op = "send" /\ s.op = "send" /\ r.thread = s.thread => r = s
  /\ ~world.lags => \A t \in Threads : turn[t] # "coming"

\* A poll looks at the turn of its handoff.
Mine(p) == turn[p.thread] # "none" /\ p.h \in owner[p.thread]
Watching == (poller # NoPoller => Mine(poller)) /\ \A p \in cancelled : Mine(p)

\* What is said, even before it is heard, is final.
SaidFinal == \A c \in Calls : Out(c) /\ c.what > 0 /\ Orderly => Final(c)

AInv == Turns /\ Watching /\ SaidFinal

LEMMA AnswerInit == Init => AInv
BY DEF Init, AInv, Turns, Watching, SaidFinal, Out, NoPoller

\* Nothing more is said, and final answers stay.
LEMMA SameAnswers ==
  ASSUME SaidFinal, UNCHANGED world, \A c \in Calls : Out(c)' => Out(c),
         Orderly => \A c \in Calls : Final(c) => Final(c)'
  PROVE  SaidFinal'
BY DEF SaidFinal, Orderly

LEMMA MoreAnswers ==
  ASSUME SaidFinal, UNCHANGED <<world, heard, lost, turn, items, owner>>,
         NEW h \in Handoffs, NEW w \in 0..MaxItems, Tell(h, w),
         Orderly /\ w > 0 =>
           \E t \in Threads : h \in owner[t] /\ turn[t] = "done" /\ items[t] = w
  PROVE  SaidFinal'
<1>1. ASSUME NEW c \in Calls, Out(c)', c.what > 0, Orderly'
      PROVE  Final(c)'
  <2>1. Orderly /\ (Final(c) => Final(c)')
    BY <1>1 DEF Orderly, Final
  <2>2. Out(c) \/ c = Chunk(h, w) \/ c = End(h)
    BY <1>1 DEF Out, Tell
  <2>3. CASE Out(c)
    BY <1>1, <2>1, <2>3 DEF SaidFinal
  <2>4. CASE c = Chunk(h, w)
    BY <1>1, <2>1, <2>4 DEF Chunk, Final
  <2>5. CASE c = End(h)
    BY <1>1, <2>5 DEF End
  <2> QED
    BY <2>2, <2>3, <2>4, <2>5
<1> QED
  BY <1>1 DEF SaidFinal

LEMMA ZeroAnswers ==
  ASSUME SaidFinal, UNCHANGED <<world, heard, lost, turn, items, owner>>,
         NEW h \in Handoffs, UNCHANGED calls \/ Tell(h, 0)
  PROVE  SaidFinal'
<1>1. 0 \in 0..MaxItems
  BY MaxIsNat
<1>2. CASE UNCHANGED calls
  BY <1>2, SameAnswers DEF Out, Final
<1>3. CASE Tell(h, 0)
  BY <1>1, <1>3, MoreAnswers
<1> QED
  BY <1>2, <1>3

\* A request is told of, or is a task that sends nothing yet: the manager was reset, and
\* knows no thread to reuse.
LEMMA RequestAnswers ==
  ASSUME AInv, NEW h \in Handoffs, Request(h)
  PROVE  AInv'
<1>1. UNCHANGED <<world, heard, lost, poller, cancelled, threads, turn, items, owner>>
  BY DEF Request, polling, remote
<1>2. tasks' \subseteq tasks \cup {Task("start", h, 0)}
  BY DEF Request
<1>3. Turns'
  BY <1>1, <1>2 DEF AInv, Turns, Task
<1>4. Watching'
  BY <1>1 DEF AInv, Watching, Mine
<1>5. UNCHANGED calls \/ Tell(h, 0)
  BY DEF Request
<1>6. SaidFinal'
  BY <1>1, <1>5, ZeroAnswers DEF AInv
<1> QED
  BY <1>3, <1>4, <1>6 DEF AInv

LEMMA FailAnswers ==
  ASSUME AInv, NEW task, task.h \in Handoffs, Fail(task)
  PROVE  AInv'
<1>1. /\ UNCHANGED <<world, heard, lost, poller, cancelled, threads, turn, items, owner>>
      /\ tasks' \subseteq tasks
  BY DEF Fail, polling, remote
<1>2. Turns' /\ Watching'
  BY <1>1 DEF AInv, Turns, Watching, Mine
<1>3. UNCHANGED calls \/ Tell(task.h, 0)
  BY DEF Fail
<1>4. SaidFinal'
  BY <1>1, <1>3, ZeroAnswers DEF AInv
<1> QED
  BY <1>2, <1>4 DEF AInv

\* The new thread is the next one, which has no turn.
LEMMA ThreadStartsAnswers ==
  ASSUME AInv, NEW h \in Handoffs, ThreadStarts(h)
  PROVE  AInv'
<1>1. /\ UNCHANGED <<world, poller, cancelled, turn, items, owner, calls, heard, lost>>
      /\ threads' = threads + 1
      /\ tasks' \subseteq tasks \cup {Task("send", h, threads')}
  BY DEF ThreadStarts, polling, voice
<1>2. threads \in Nat
  BY DEF AInv, Turns
<1>3. \A t \in 1..threads : t \in 1..threads' /\ t # threads'
  BY <1>1, <1>2
<1>4. threads' \in Nat /\ threads' \in 1..threads' /\ threads' \notin 1..threads
  BY <1>1, <1>2
<1>5. Task("send", h, threads').thread = threads'
  BY DEF Task
<1>6. Turns'
  BY <1>1, <1>3, <1>4, <1>5 DEF AInv, Turns
<1>7. Watching' /\ SaidFinal'
  BY <1>1, SameAnswers DEF AInv, Watching, Mine, Out, Final
<1> QED
  BY <1>6, <1>7 DEF AInv

\* The turn is sent to a thread without one, which is nobody's answer yet.
LEMMA TurnSentAnswers ==
  ASSUME AInv, NEW h \in Handoffs, NEW t \in Threads, TurnSent(h, t)
  PROVE  AInv'
<1> DEFINE task == Task("send", h, t)
<1>1. /\ UNCHANGED <<world, threads, items, calls, heard, lost>>
      /\ tasks' = tasks \ {task} /\ task \in tasks /\ task.op = "send" /\ task.thread = t
      /\ turn' = [turn EXCEPT ![t] = IF world.lags THEN "coming" ELSE "active"]
      /\ owner' = [owner EXCEPT ![t] = {h}]
      /\ poller' = [h |-> h, thread |-> t, inactive |-> 0]
      /\ cancelled' = cancelled \cup ({poller} \ {NoPoller})
  BY DEF TurnSent, Task, voice
<1>2. turn[t] = "none" /\ t \in 1..threads
  BY <1>1 DEF AInv, Turns
<1>3. /\ DOMAIN turn' = Threads /\ DOMAIN owner' = Threads
      /\ \A s \in Threads :
           /\ turn'[s] = IF s = t THEN (IF world.lags THEN "coming" ELSE "active") ELSE turn[s]
           /\ owner'[s] = IF s = t THEN {h} ELSE owner[s]
  BY <1>1 DEF AInv, Turns
<1>4. Turns'
  BY <1>1, <1>2, <1>3 DEF AInv, Turns
<1>5. \A s : turn[s] # "none" => s # t /\ turn'[s] = turn[s] /\ owner'[s] = owner[s]
  BY <1>1, <1>2
<1>6. Watching'
  <2>1. \A p : Mine(p) => Mine(p)'
    BY <1>5 DEF Mine
  <2>2. poller'.h = h /\ poller'.thread = t /\ h \in owner'[t] /\ turn'[t] # "none"
    BY <1>1, <1>3
  <2> QED
    BY <1>1, <2>1, <2>2 DEF AInv, Watching, Mine
<1>7. \A c \in Calls : Final(c) => Final(c)'
  BY <1>1, <1>5 DEF Final
<1>8. SaidFinal'
  BY <1>1, <1>7, SameAnswers DEF AInv, Out
<1> QED
  BY <1>4, <1>6, <1>8 DEF AInv

\* A poll that has something to say has seen the turn over, and its items.
LEMMA LookAnswers ==
  ASSUME IInv, AInv, NEW p, Polls(p), Mine(p), Look(p) \/ UNCHANGED <<entries, calls>>,
         UNCHANGED <<world, heard, lost, turn, items, owner>>
  PROVE  SaidFinal'
<1> DEFINE version == items[p.thread]
<1>1. p.h \in Handoffs /\ p.thread \in Threads /\ version \in 0..MaxItems
  BY DEF Polls, Pollers, IInv, Shape
<1>2. \/ UNCHANGED calls \/ Tell(p.h, 0)
      \/ Tell(p.h, version) /\ turn[p.thread] # "active"
  BY DEF Look, IsQuiet
<1>3. CASE UNCHANGED calls \/ Tell(p.h, 0)
  BY <1>1, <1>3, ZeroAnswers DEF AInv
<1>4. CASE Tell(p.h, version) /\ turn[p.thread] # "active"
  <2>1. Orderly => turn[p.thread] = "done" /\ p.h \in owner[p.thread]
    BY <1>1, <1>4 DEF AInv, Turns, Mine, Orderly
  <2> QED
    BY <1>1, <1>4, <2>1, MoreAnswers DEF AInv
<1> QED
  BY <1>2, <1>3, <1>4

LEMMA PollAnswers ==
  ASSUME IInv, AInv, Poll \/ \E p \in cancelled : LastPoll(p)
  PROVE  AInv'
<1>1. UNCHANGED <<world, tasks, heard, lost, threads, turn, items, owner>>
  BY DEF Poll, LastPoll, remote
<1>2. Turns'
  BY <1>1 DEF AInv, Turns
<1>3. CASE Poll
  <2>1. /\ Polls(poller) /\ Mine(poller) /\ UNCHANGED cancelled
        /\ Look(poller) \/ UNCHANGED <<entries, calls>>
    BY <1>3 DEF Poll, IInv, Shape, AInv, Watching
  <2>2. SaidFinal'
    BY <1>1, <2>1, LookAnswers
  <2>3. poller' # NoPoller => poller'.thread = poller.thread /\ poller'.h = poller.h
    BY <1>3, <2>1, PollerStays DEF Poll
  <2> QED
    BY <1>1, <1>2, <2>1, <2>2, <2>3 DEF AInv, Watching, Mine
<1>4. ASSUME NEW p \in cancelled, LastPoll(p) PROVE AInv'
  <2>1. /\ Polls(p) /\ Mine(p) /\ UNCHANGED poller /\ cancelled' \subseteq cancelled
        /\ Look(p) \/ UNCHANGED <<entries, calls>>
    BY <1>4 DEF LastPoll, IInv, Shape, AInv, Watching
  <2>2. SaidFinal'
    BY <1>1, <2>1, LookAnswers
  <2> QED
    BY <1>1, <1>2, <2>1, <2>2 DEF AInv, Watching, Mine
<1> QED
  BY <1>3, <1>4

\* A turn that is over stays over, with its items, in an orderly session.
LEMMA ThreadAnswers ==
  ASSUME IInv, AInv, NEW t \in Threads,
         TurnShown(t) \/ ItemsChange(t) \/ TurnEnds(t) \/ Hide(t)
  PROVE  AInv'
<1>1. UNCHANGED <<world, tasks, poller, cancelled, threads, owner, calls, heard, lost>>
  BY DEF TurnShown, ItemsChange, TurnEnds, Hide, app, voice, polling
<1>2. CASE TurnShown(t) \/ TurnEnds(t)
  <2>1. UNCHANGED items /\ turn[t] \in {"coming", "active"}
    BY <1>2 DEF TurnShown, TurnEnds
  <2>2. \E now \in {"active", "done"} : turn' = [turn EXCEPT ![t] = now]
    BY <1>2 DEF TurnShown, TurnEnds
  <2>3. Turns'
    BY <1>1, <2>1, <2>2 DEF AInv, Turns, IInv, Shape
  <2>4. \A s : turn[s] # "none" => turn'[s] # "none"
    BY <2>1, <2>2 DEF AInv, Turns
  <2>5. Watching'
    BY <1>1, <2>4 DEF AInv, Watching, Mine
  <2>6. \A c \in Calls : Final(c) => Final(c)'
    BY <1>1, <2>1, <2>2 DEF AInv, Turns, Final
  <2>7. SaidFinal'
    BY <1>1, <2>6, SameAnswers DEF AInv, Out
  <2> QED
    BY <2>3, <2>5, <2>7 DEF AInv
<1>3. CASE ItemsChange(t)
  <2>1. UNCHANGED turn /\ items' = [items EXCEPT ![t] = @ + 1]
    BY <1>3 DEF ItemsChange
  <2>2. Turns' /\ Watching'
    BY <1>1, <2>1 DEF AInv, Turns, Watching, Mine
  <2>3. Orderly => turn[t] = "active"
    BY <1>3 DEF ItemsChange, Orderly
  <2>4. Orderly => \A c \in Calls : Final(c) => Final(c)'
    BY <1>1, <2>1, <2>3 DEF IInv, Shape, Final
  <2>5. SaidFinal'
    BY <1>1, <2>4, SameAnswers DEF AInv, Out
  <2> QED
    BY <2>2, <2>5 DEF AInv
<1>4. CASE Hide(t)
  <2>1. UNCHANGED <<turn, items>>
    BY <1>4 DEF Hide
  <2> QED
    BY <1>1, <2>1, SameAnswers DEF AInv, Turns, Watching, Mine, Out, Final
<1> QED
  BY <1>2, <1>3, <1>4

LEMMA AnswerNext == IInv /\ AInv /\ [Next]_vars => AInv'
<1> SUFFICES ASSUME IInv, AInv, [Next]_vars PROVE AInv'
  OBVIOUS
<1>1. ASSUME NEW h \in Handoffs, Fail(Task("start", h, 0)) PROVE AInv'
  <2>1. Task("start", h, 0).h \in Handoffs
    BY DEF Task
  <2> QED
    BY <1>1, <2>1, FailAnswers
<1>2. ASSUME NEW h \in Handoffs, NEW t \in Threads, Fail(Task("send", h, t)) PROVE AInv'
  <2>1. Task("send", h, t).h \in Handoffs
    BY DEF Task
  <2> QED
    BY <1>2, <2>1, FailAnswers
<1>3. ASSUME UNCHANGED <<world, tasks, poller, cancelled, threads, turn, items, owner>>,
             \A c \in Calls : Out(c)' => Out(c)
      PROVE  AInv'
  BY <1>3, SameAnswers DEF AInv, Turns, Watching, Mine, Final
<1>4. ASSUME NEW h \in Handoffs, Resolved(h) \/ Finalized(h) PROVE AInv'
  <2>1. \E call : Returns(call)
    BY <1>4 DEF Resolved, Finalized
  <2>2. \A c \in Calls : Out(c)' => Out(c)
    BY <2>1 DEF Returns, Out, IInv, Shape
  <2>3. UNCHANGED <<world, tasks, poller, cancelled, threads, turn, items, owner>>
    BY <1>4 DEF Resolved, Finalized, polling, remote
  <2> QED
    BY <1>3, <2>2, <2>3
<1>5. ASSUME (\E h \in Handoffs : TimePasses(h)) \/ SnapshotComes \/ UNCHANGED vars
      PROVE  AInv'
  <2>1. UNCHANGED <<world, tasks, poller, cancelled, threads, turn, items, owner, calls,
                    heard, lost>>
    BY <1>5 DEF TimePasses, SnapshotComes, vars, voice, polling, remote
  <2> QED
    BY <1>3, <2>1 DEF Out
<1> QED
  BY <1>1, <1>2, <1>4, <1>5, RequestAnswers, ThreadStartsAnswers, TurnSentAnswers,
     PollAnswers, ThreadAnswers DEF Next, Results

\* With one request at a time and a snapshot that is up to date, what the voice session
\* hears of a turn is the final answer of the turn that was sent for this handoff.
THEOREM AnswersAreFinal == Spec => []AnswerIsFinal
<1>1. AInv => AnswerIsFinal
  BY DEF AInv, SaidFinal, Final, Out, AnswerIsFinal
<1> QED
  BY InitInv, NextKeeps, AnswerInit, AnswerNext, <1>1, PTL DEF Spec
=============================================================================
