------------------------ MODULE ThreadListeners_proof ------------------------
(***************************************************************************)
(* A marked thread is heard, for any threads, calls, sessions and losses.  *)
(*                                                                         *)
(* A marker is right from the answer that set it to the end of the         *)
(* connection.  From then on, until the markers are cleared, something     *)
(* shows that they may be wrong: the connection is down, or the health     *)
(* reader has noticed that it was, or missed it, or its repair is about to *)
(* clear them.  A marker set for a session that has left the map is stray. *)
(***************************************************************************)
EXTENDS ThreadListeners, TLAPS

Stages == {"idle", "checking", "waiting", "answered", "refused", "failed", "clearing",
           "collecting", "picking", "closing", "draining", "dialing", "ok", "err"}

Shape ==
  /\ pc \in [Tasks -> Stages]
  /\ thread = [c \in Callers |-> thread[c]]

\* The health channel and what its reader remembers.
Watched ==
  /\ link = "up" => health = "connected"
  /\ reader = "waiting" /\ ~unseen => (prev <=> health = "connected")
  /\ lapse = "noticed" => ~prev

\* An answer in hand is about the present connection, unless that is gone.
AnswersHold ==
  \A c \in Callers \ Leaves : pc[c] = "answered" /\ link = "up" => thread[c] \in subs

\* A connection was lost since the markers were cleared.
Doubtful ==
  \/ link # "up" \/ lapse = "missed" \/ ~prev
  \/ \E k \in Repairs : pc[k] = "clearing"

Heard(t) == t \in subs \/ Leaving(t)
MarksHold == mapped /\ ~Doubtful => \A t \in marked \ stray : Heard(t)

StrayOnes == ~mapped => marked \subseteq stray

\* Who waits for the worker is a caller.
Queued == queue \in Seq(Callers)

\* One connect at a time replaces the session, which is not in the map meanwhile.
Busy(n) == pc[n] \in {"draining", "dialing"}
Replacing == \A n \in Connects : Busy(n) => ~mapped /\ \A m \in Connects \ {n} : ~Busy(m)

IInv == Replacing /\ Queued /\ Shape /\ Watched /\ AnswersHold /\ MarksHold /\ StrayOnes

LEMMA Casting ==
  /\ Callers \subseteq Tasks /\ Repairs \subseteq Callers /\ Opens \subseteq Callers
  /\ Leaves \subseteq Callers /\ Abandons \subseteq Tasks /\ Connects \subseteq Tasks
  /\ Repairs \cap (Opens \cup Leaves \cup Abandons \cup Connects) = {}
  /\ Opens \cap (Leaves \cup Abandons \cup Connects) = {}
  /\ Leaves \cap (Abandons \cup Connects) = {} /\ Connects \cap (Abandons \cup Callers) = {}
BY ListenersAssumption DEF Callers, Tasks, Repairs

LEMMA InitInv == Init => IInv
<1> SUFFICES ASSUME Init PROVE IInv
  OBVIOUS
<1>1. Shape
  BY DEF Init, Shape, Stages
<1>2. Watched /\ MarksHold /\ StrayOnes
  BY DEF Init, Watched, MarksHold, StrayOnes
<1>3. AnswersHold
  BY Casting DEF Init, AnswersHold
<1>4. Replacing /\ Queued
  BY Casting DEF Init, Replacing, Busy, Queued
<1> QED
  BY <1>1, <1>2, <1>3, <1>4 DEF IInv

LEMMA InvImplies == IInv => MarkedIsHeard
<1> SUFFICES ASSUME IInv, Settled, NEW t \in marked \ stray
             PROVE  t \in subs \/ Leaving(t)
  BY DEF MarkedIsHeard
<1>1. ~Doubtful
  BY DEF Settled, Doubtful, IInv, Watched, Over
<1> QED
  BY <1>1 DEF Settled, IInv, MarksHold, Heard

\* Who leaves a thread goes on leaving it.
LEMMA LeavingStays ==
  ASSUME Shape, NEW t,
         \A l \in Leaves : pc[l] \in {"waiting", "answered", "failed"} =>
           pc'[l] \in {"waiting", "answered", "failed"} /\ thread'[l] = thread[l],
         Leaving(t)
  PROVE  Leaving(t)'
BY DEF Leaving

\* Steps that clear the markers, or after which the connection is in doubt.
LEMMA NothingMarked ==
  ASSUME marked' = {} PROVE MarksHold' /\ StrayOnes'
BY DEF MarksHold, StrayOnes

LEMMA InDoubt ==
  ASSUME IInv, Doubtful', UNCHANGED <<mapped, marked, stray>>
  PROVE  MarksHold' /\ StrayOnes'
BY DEF IInv, MarksHold, StrayOnes

LEMMA StepShape == Shape /\ [Next]_vars => Shape'
<1> SUFFICES ASSUME Shape, [Next]_vars PROVE Shape'
  OBVIOUS
<1> USE Casting DEF Shape, Stages, Goto
<1>1. CASE Break \/ NoticeLoss \/ Reconnect \/ Wake \/ UNCHANGED vars
  BY <1>1 DEF Break, NoticeLoss, Reconnect, Wake, vars
<1>2. CASE GiveUp
  BY <1>2 DEF GiveUp
<1>3. CASE Look
  BY <1>3 DEF Look
<1>4. ASSUME NEW c \in Callers, Answer(c) PROVE Shape'
  BY <1>4 DEF Answer
<1>5. ASSUME NEW c \in Callers, Conclude(c) PROVE Shape'
  BY <1>5 DEF Conclude
<1>6. ASSUME NEW k \in Repairs, StartRepair(k) \/ Collect(k) PROVE Shape'
  BY <1>6 DEF StartRepair, Collect
<1>7. ASSUME NEW k \in Repairs, Pick(k) PROVE Shape'
  <2>1. CASE UNCHANGED thread /\ Goto(k, "ok")
    BY <2>1
  <2>2. ASSUME NEW t \in todo[k], thread' = [thread EXCEPT ![k] = t], Ask(k) PROVE Shape'
    BY <2>2 DEF Ask
  <2> QED
    BY <1>7, <2>1, <2>2 DEF Pick
<1>8. ASSUME NEW o \in Opens, Resume(o) PROVE Shape'
  BY <1>8 DEF Resume, Ask
<1>9. ASSUME NEW t \in Threads, LoadPage(t) PROVE Shape'
  BY <1>9 DEF LoadPage
<1>10. ASSUME NEW o \in Opens, NEW t \in Threads, Visit(o, t) PROVE Shape'
  BY <1>10 DEF Visit
<1>11. ASSUME NEW l \in Leaves, NEW t \in Threads, Leave(l, t) PROVE Shape'
  BY <1>11 DEF Leave, Ask
<1>12. ASSUME NEW a \in Abandons, Abandon(a) PROVE Shape'
  BY <1>12 DEF Abandon
<1>13. ASSUME NEW n \in Connects, Replace(n) \/ Drain(n) \/ Attach(n) PROVE Shape'
  BY <1>13 DEF Replace, Drain, Attach
<1> QED
  BY <1>1, <1>2, <1>3, <1>4, <1>5, <1>6, <1>7, <1>8, <1>9, <1>10, <1>11, <1>12, <1>13
  DEF Next, ReaderStep, RepairStep

LEMMA StepQueued == Queued /\ [Next]_vars => Queued'
<1> SUFFICES ASSUME Queued, [Next]_vars PROVE Queued'
  OBVIOUS
<1> USE Casting DEF Queued
<1>1. CASE UNCHANGED queue
  BY <1>1
<1>2. ASSUME NEW c \in Callers, queue' = Append(queue, c) PROVE Queued'
  BY <1>2
<1>3. CASE queue # <<>> /\ queue' = Tail(queue)
  BY <1>3
<1>4. CASE queue' = <<>>
  BY <1>4
<1>5. CASE Break \/ NoticeLoss \/ Reconnect \/ ReaderStep \/ UNCHANGED vars
  BY <1>1, <1>5 DEF Break, NoticeLoss, Reconnect, ReaderStep, Look, Wake, vars, net
<1>6. CASE GiveUp
  BY <1>1, <1>3, <1>4, <1>6 DEF GiveUp
<1>7. ASSUME NEW c \in Callers, Answer(c) \/ Conclude(c) PROVE Queued'
  BY <1>1, <1>3, <1>7 DEF Answer, Conclude, net
<1>8. ASSUME NEW k \in Repairs, RepairStep(k) PROVE Queued'
  BY <1>1, <1>2, <1>8 DEF RepairStep, StartRepair, Collect, Pick, Ask, net
<1>9. ASSUME NEW o \in Opens, Resume(o) PROVE Queued'
  BY <1>1, <1>2, <1>9 DEF Resume, Ask
<1>10. ASSUME NEW t \in Threads, LoadPage(t) \/ \E o \in Opens : Visit(o, t) PROVE Queued'
  BY <1>1, <1>10 DEF LoadPage, Visit, net
<1>11. ASSUME NEW l \in Leaves, NEW t \in Threads, Leave(l, t) PROVE Queued'
  BY <1>1, <1>2, <1>11 DEF Leave, Ask
<1>12. ASSUME NEW a \in Abandons, Abandon(a) PROVE Queued'
  BY <1>1, <1>12 DEF Abandon, net
<1>13. ASSUME NEW n \in Connects, Replace(n) \/ Drain(n) \/ Attach(n) PROVE Queued'
  BY <1>1, <1>13 DEF Replace, Drain, Attach, net
<1> QED
  BY <1>5, <1>6, <1>7, <1>8, <1>9, <1>10, <1>11, <1>12, <1>13 DEF Next

LEMMA StepReplacing == IInv /\ [Next]_vars => Replacing'
<1> SUFFICES ASSUME IInv, [Next]_vars PROVE Replacing'
  OBVIOUS
<1> USE Casting DEF IInv, Shape, Stages, Goto
<1>1. ASSUME UNCHANGED mapped, \A n \in Connects : pc'[n] = pc[n] PROVE Replacing'
  BY <1>1 DEF Replacing, Busy
<1>2. CASE Break \/ NoticeLoss \/ Reconnect \/ Wake \/ UNCHANGED vars
  BY <1>1, <1>2 DEF Break, NoticeLoss, Reconnect, Wake, vars, ground
<1>3. CASE GiveUp
  <2>1. DOMAIN queue = 1..Len(queue) /\ \A i \in 1..Len(queue) : queue[i] \in Callers
    BY DEF Queued
  <2>2. Range(queue) \cap Connects = {}
    BY <2>1 DEF Range
  <2>3. queue # <<>> => Head(queue) \notin Connects
    BY DEF Queued
  <2> QED
    BY <1>1, <1>3, <2>2, <2>3 DEF GiveUp, ground
<1>4. CASE Look
  BY <1>1, <1>4 DEF Look, ground
<1>5. ASSUME NEW c \in Callers, Answer(c) PROVE Replacing'
  BY <1>1, <1>5 DEF Answer, ground
<1>6. ASSUME NEW c \in Callers, Conclude(c) PROVE Replacing'
  BY <1>1, <1>6 DEF Conclude, ground
<1>7. ASSUME NEW k \in Repairs, StartRepair(k) \/ Collect(k) \/ Pick(k) PROVE Replacing'
  BY <1>1, <1>7 DEF StartRepair, Collect, Pick, Ask, ground
<1>8. ASSUME NEW o \in Opens, Resume(o) PROVE Replacing'
  BY <1>1, <1>8 DEF Resume, Ask, ground
<1>9. ASSUME NEW t \in Threads, LoadPage(t) PROVE Replacing'
  BY <1>1, <1>9 DEF LoadPage, ground
<1>10. ASSUME NEW o \in Opens, NEW t \in Threads, Visit(o, t) PROVE Replacing'
  BY <1>1, <1>10 DEF Visit, ground
<1>11. ASSUME NEW l \in Leaves, NEW t \in Threads, Leave(l, t) PROVE Replacing'
  BY <1>1, <1>11 DEF Leave, Ask, ground
<1>12. ASSUME NEW a \in Abandons, Abandon(a) PROVE Replacing'
  BY <1>1, <1>12 DEF Abandon, ground
<1>13. ASSUME NEW n \in Connects, Replace(n) PROVE Replacing'
  BY <1>13 DEF Replace, Replacing, Busy
<1>14. ASSUME NEW n \in Connects, Drain(n) PROVE Replacing'
  BY <1>14 DEF Drain, Replacing, Busy, ground
<1>15. ASSUME NEW n \in Connects, Attach(n) PROVE Replacing'
  BY <1>15 DEF Attach, Replacing, Busy
<1> QED
  BY <1>2, <1>3, <1>4, <1>5, <1>6, <1>7, <1>8, <1>9, <1>10, <1>11, <1>12, <1>13, <1>14,
     <1>15
  DEF Next, ReaderStep, RepairStep

\* What a step of the tasks leaves alone: answers in hand, those who leave, and repairs
\* that are about to clear the markers.
NoNews == \A c \in Callers \ Leaves :
  pc'[c] = "answered" => pc[c] = "answered" /\ thread'[c] = thread[c]
LeavesGoOn == \A l \in Leaves :
  pc[l] \in {"waiting", "answered", "failed"} =>
    pc'[l] \in {"waiting", "answered", "failed"} /\ thread'[l] = thread[l]
RepairsGoOn == \A k \in Repairs : pc[k] = "clearing" => pc'[k] = "clearing"

Rest == Watched' /\ AnswersHold' /\ MarksHold' /\ StrayOnes'

LEMMA TasksKeep ==
  ASSUME IInv, NoNews, LeavesGoOn, RepairsGoOn,
         UNCHANGED <<mapped, link, subs, prev, lapse, marked, stray>>, Watched'
  PROVE  Rest
<1>1. AnswersHold' /\ StrayOnes'
  BY DEF IInv, NoNews, AnswersHold, StrayOnes
<1>2. Doubtful => Doubtful'
  BY DEF Doubtful, RepairsGoOn
<1>3. ASSUME NEW t, Heard(t) PROVE Heard(t)'
  BY <1>3 DEF Heard, Leaving, LeavesGoOn
<1>4. MarksHold'
  BY <1>2, <1>3 DEF IInv, MarksHold
<1> QED
  BY <1>1, <1>4 DEF Rest

\* The calls between their requests.
LEMMA CallsKeep ==
  ASSUME IInv,
         \/ \E o \in Opens : Resume(o) \/ \E t \in Threads : Visit(o, t)
         \/ \E k \in Repairs : Collect(k) \/ Pick(k)
         \/ \E l \in Leaves, t \in Threads : Leave(l, t)
         \/ \E t \in Threads : LoadPage(t)
         \/ UNCHANGED vars
  PROVE  Rest
<1> USE Casting DEF IInv, Shape, Stages, Goto, NoNews, LeavesGoOn, RepairsGoOn, ground, net,
        watch, observer, store
<1>0. Watched'
  BY DEF Resume, Visit, Collect, Pick, Leave, LoadPage, vars, Watched, Ask
<1>1. CASE UNCHANGED vars
  BY <1>0, <1>1, TasksKeep DEF vars
<1>2. ASSUME NEW t \in Threads, LoadPage(t) PROVE Rest
  BY <1>0, <1>2, TasksKeep DEF LoadPage
<1>3. ASSUME NEW o \in Opens, NEW t \in Threads, Visit(o, t) PROVE Rest
  BY <1>0, <1>3, TasksKeep DEF Visit
<1>4. ASSUME NEW o \in Opens, Resume(o) PROVE Rest
  BY <1>0, <1>4, TasksKeep DEF Resume, Ask
<1>5. ASSUME NEW k \in Repairs, Collect(k) PROVE Rest
  BY <1>0, <1>5, TasksKeep DEF Collect
<1>6. ASSUME NEW k \in Repairs, Pick(k) PROVE Rest
  <2>1. CASE UNCHANGED thread /\ Goto(k, "ok")
    BY <1>0, <1>6, <2>1, TasksKeep DEF Pick
  <2>2. ASSUME NEW t \in todo[k], thread' = [thread EXCEPT ![k] = t], Ask(k) PROVE Rest
    BY <1>0, <1>6, <2>2, TasksKeep DEF Pick, Ask
  <2> QED
    BY <1>6, <2>1, <2>2 DEF Pick
<1>7. ASSUME NEW l \in Leaves, NEW t \in Threads, Leave(l, t) PROVE Rest
  BY <1>0, <1>7, TasksKeep DEF Leave, Ask
<1> QED
  BY <1>1, <1>2, <1>3, <1>4, <1>5, <1>6, <1>7

\* The connection: a loss leaves the markers in doubt, and so does a reconnection
\* until the repair has begun.
LEMMA ConnectionKeeps ==
  ASSUME IInv, Break \/ NoticeLoss \/ Reconnect \/ GiveUp
  PROVE  Rest
<1> USE DEF IInv, ground, net, watch, observer, store, SendHealth
<1>1. Watched'
  <2>1. CASE Break \/ NoticeLoss
    <3>1. UNCHANGED <<prev, lapse>> /\ link' # "up"
      BY <2>1 DEF Break, NoticeLoss
    <3>2. UNCHANGED <<health, unseen, reader>> \/ unseen' = TRUE
      BY <2>1 DEF Break, NoticeLoss
    <3> QED
      BY <3>1, <3>2 DEF Watched
  <2>2. CASE Reconnect
    <3>1. lapse' # "noticed" /\ health' = "connected" /\ unseen'
      BY <2>2 DEF Reconnect
    <3> QED
      BY <3>1 DEF Watched
  <2>3. CASE GiveUp
    BY <2>3 DEF GiveUp, Watched
  <2> QED
    BY <2>1, <2>2, <2>3
<1>2. AnswersHold'
  <2>1. CASE link' # "up"
    BY <2>1 DEF AnswersHold
  <2>2. CASE Reconnect
    BY <2>2, Casting DEF Reconnect, AtRest, AnswersHold
  <2> QED
    BY <2>1, <2>2 DEF Break, NoticeLoss, GiveUp
<1>3. Doubtful'
  BY DEF Break, NoticeLoss, Reconnect, GiveUp, Doubtful, Watched
<1>4. UNCHANGED <<mapped, marked, stray>>
  BY DEF Break, NoticeLoss, Reconnect, GiveUp
<1> QED
  BY <1>1, <1>2, <1>3, <1>4, InDoubt DEF Rest

\* The reader: when it sees the connection again, a repair is about to clear.
LEMMA ReaderKeeps ==
  ASSUME IInv, ReaderStep
  PROVE  Rest
<1> USE Casting DEF IInv, ground, net, watch, observer, store
<1>1. CASE Wake
  <2>1. Watched'
    BY <1>1 DEF Wake, Watched
  <2> QED
    BY <1>1, <2>1, TasksKeep DEF Wake, NoNews, LeavesGoOn, RepairsGoOn
<1>2. CASE ~prev /\ health = "connected" /\ Look
  <2>1. PICK k \in Repairs : pc[k] = "idle" /\ Goto(k, "clearing")
    BY <1>2 DEF Look
  <2>2. Watched' /\ AnswersHold'
    BY <1>2, <2>1 DEF Look, NowConnected, Goto, Watched, AnswersHold, Shape
  <2>3. Doubtful'
    BY <2>1 DEF Doubtful, Goto, Shape
  <2> QED
    BY <1>2, <2>2, <2>3, InDoubt DEF Look, Rest
<1>3. CASE ~(~prev /\ health = "connected") /\ Look
  <2>1. UNCHANGED <<pc, thread, mapped, link, subs, marked, stray>>
    BY <1>3 DEF Look
  <2>2. Watched'
    BY <1>3 DEF Look, NowConnected, Watched
  <2>3. Doubtful => Doubtful'
    BY <1>3 DEF Look, NowConnected, Watched, Doubtful
  <2> QED
    BY <2>1, <2>2, <2>3 DEF Rest, AnswersHold, MarksHold, StrayOnes, Heard, Leaving
<1> QED
  BY <1>1, <1>2, <1>3 DEF ReaderStep

\* An answer is about the present connection, and nobody else has one in hand.
LEMMA AnswerKeeps ==
  ASSUME IInv, NEW c \in Callers, Answer(c)
  PROVE  Rest
<1> USE Casting DEF IInv, Goto
<1>1. Watched' /\ StrayOnes' /\ UNCHANGED <<mapped, marked, stray>>
  BY DEF Answer, Watched, StrayOnes, ground, watch, observer, store
<1>2. AnswersHold'
  BY DEF Answer, AtRest, AnswersHold, Shape
<1>3. Doubtful => Doubtful'
  BY DEF Answer, AtRest, Doubtful, Shape, observer
<1>4. ASSUME NEW t, Heard(t) PROVE Heard(t)'
  BY <1>4 DEF Answer, Heard, Leaving, Shape
<1> QED
  BY <1>1, <1>2, <1>3, <1>4 DEF Rest, MarksHold

\* The thread that is marked is the one the answer is about, and it is heard unless
\* the connection is gone; without a session in the map the marker is stray.
LEMMA ConcludeKeeps ==
  ASSUME IInv, NEW c \in Callers, Conclude(c)
  PROVE  Rest
<1> USE Casting DEF IInv, Goto
<1>1. Watched' /\ UNCHANGED <<mapped, link, subs, thread, prev, lapse>>
  BY DEF Conclude, Watched, ground, net, watch, observer
<1>2. AnswersHold'
  BY <1>1 DEF Conclude, AnswersHold, Shape
<1>3. Doubtful => Doubtful'
  BY <1>1 DEF Conclude, Doubtful, Shape
<1>4. CASE pc[c] = "answered" /\ c \notin Leaves
  <2>1. /\ marked' = marked \cup {thread[c]}
        /\ stray' = IF mapped THEN stray \ {thread[c]} ELSE stray \cup {thread[c]}
    BY <1>4 DEF Conclude
  <2>2. ASSUME NEW t, Heard(t) PROVE Heard(t)'
    BY <1>1, <1>4, <2>2 DEF Conclude, Heard, Leaving, Shape
  <2>3. ~Doubtful => Heard(thread[c])'
    BY <1>1, <1>4 DEF AnswersHold, Doubtful, Heard
  <2> QED
    BY <1>1, <1>2, <1>3, <2>1, <2>2, <2>3 DEF Rest, MarksHold, StrayOnes
<1>5. CASE pc[c] = "answered" /\ c \in Leaves
  <2>1. marked' = marked \ {thread[c]} /\ stray' = stray \ {thread[c]}
    BY <1>5 DEF Conclude
  <2>2. ASSUME NEW t, t # thread[c], Heard(t) PROVE Heard(t)'
    BY <1>1, <1>5, <2>2 DEF Conclude, Heard, Leaving, Shape
  <2> QED
    BY <1>1, <1>2, <1>3, <2>1, <2>2 DEF Rest, MarksHold, StrayOnes
<1>6. CASE pc[c] = "refused"
  <2>1. UNCHANGED <<marked, stray>>
    BY <1>6 DEF Conclude
  <2>2. ASSUME NEW t, Heard(t) PROVE Heard(t)'
    BY <1>1, <1>6, <2>2 DEF Conclude, Heard, Leaving, Shape
  <2> QED
    BY <1>1, <1>2, <1>3, <2>1, <2>2 DEF Rest, MarksHold, StrayOnes
<1>7. CASE ClearMarkers
  BY <1>1, <1>2, <1>7, NothingMarked DEF ClearMarkers, Rest
<1> QED
  BY <1>4, <1>5, <1>6, <1>7 DEF Conclude

\* Repairs, abandons and connects clear the markers, or leave them in doubt.
LEMMA ClearingKeeps ==
  ASSUME IInv,
         \/ \E k \in Repairs : StartRepair(k)
         \/ \E a \in Abandons : Abandon(a)
         \/ \E n \in Connects : Replace(n) \/ Drain(n) \/ Attach(n)
  PROVE  Rest
<1> USE Casting DEF IInv, Goto, ground, net, watch, observer, store
<1>1. ASSUME NEW k \in Repairs, StartRepair(k) PROVE Rest
  BY <1>1, NothingMarked DEF StartRepair, ClearMarkers, Rest, Watched, AnswersHold, Shape
<1>2. ASSUME NEW a \in Abandons, Abandon(a) PROVE Rest
  <2>1. Watched'
    BY <1>2 DEF Abandon, Watched
  <2>2. AnswersHold'
    BY <1>2 DEF Abandon, AnswersHold, Shape
  <2>3. CASE pc[a] = "idle"
    BY <1>2, <2>1, <2>2, <2>3, NothingMarked DEF Abandon, ClearMarkers, Rest
  <2>4. CASE pc[a] = "closing" /\ link = "up"
    BY <1>2, <2>1, <2>2, <2>4, InDoubt DEF Abandon, Rest, Doubtful
  <2>5. CASE pc[a] = "closing" /\ link # "up"
    BY <1>2, <2>1, <2>2, <2>5, InDoubt DEF Abandon, Rest, Doubtful
  <2> QED
    BY <1>2, <2>3, <2>4, <2>5 DEF Abandon
<1>3. ASSUME NEW n \in Connects, Replace(n) PROVE Rest
  BY <1>3, NothingMarked DEF Replace, ClearMarkers, Rest, Watched, AnswersHold, Shape
<1>4. ASSUME NEW n \in Connects, Drain(n) PROVE Rest
  <2>1. Watched' /\ AnswersHold' /\ Doubtful'
    BY <1>4 DEF Drain, Watched, AnswersHold, Doubtful
  <2> QED
    BY <1>4, <2>1, InDoubt DEF Drain, Rest
<1>5. ASSUME NEW n \in Connects, Attach(n) PROVE Rest
  <2>1. AnswersHold'
    BY <1>5 DEF Attach, AtRest, AnswersHold, Shape
  <2>2. CASE link' = "up" /\ health' = "connected" /\ reader' = "looking" /\ lapse' = "replaced"
    <3>1. marked' \ stray' = {}
      BY <1>5 DEF Attach, Replacing, Busy, StrayOnes
    <3>2. Watched'
      BY <2>2 DEF Watched
    <3> QED
      BY <2>1, <2>2, <3>1, <3>2 DEF Rest, MarksHold, StrayOnes
  <2>3. CASE Goto(n, "err") /\ UNCHANGED <<mapped, link, watch, observer>>
    BY <1>5, <2>1, <2>3, TasksKeep
    DEF Attach, Watched, NoNews, LeavesGoOn, RepairsGoOn, Shape
  <2> QED
    BY <1>5, <2>2, <2>3 DEF Attach
<1> QED
  BY <1>1, <1>2, <1>3, <1>4, <1>5

LEMMA NextKeeps == IInv /\ [Next]_vars => IInv'
BY StepShape, StepQueued, StepReplacing, CallsKeep, ConnectionKeeps, ReaderKeeps, AnswerKeeps, ConcludeKeeps,
   ClearingKeeps DEF IInv, Rest, Next, RepairStep

\* However visits, leaves, repairs and sessions cross with lost connections, and unless
\* the reader slept through a loss, a marked thread has a listener on the present
\* connection (direct_resumed_threads, run_post_reconnect_resubscribe).
THEOREM MarkersAreTrue == Spec => []MarkedIsHeard
BY InitInv, NextKeeps, InvImplies, PTL DEF Spec
=============================================================================
