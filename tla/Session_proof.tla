---------------------------- MODULE Session_proof ----------------------------
(***************************************************************************)
(* Theorems about one server session and what the store shows of it:       *)
(* ServerSession for every set of runtimes and calls, every channel        *)
(* capacity, every number of attempts and of lost connections, and         *)
(* HealthDisplay for any number of sessions, requests, lost connections    *)
(* and missed events.                                                      *)
(*                                                                         *)
(* The health channel is followed from the steps that start and end a      *)
(* reconnection, the exits of the workers from who can send a Shutdown,    *)
(* and the waiting calls from where they are: in the channel or in the     *)
(* hands of a worker that has not exited.                                  *)
(***************************************************************************)
EXTENDS ServerSession, HealthDisplay, TLAPS


\* No call is in a channel twice.
NoRepeat(q) ==
  \A i, j \in 1..Len(q) : i # j /\ q[i] = q[j] => q[i] = Shutdown

\* The worker is at a point of its loop where it has a request in hand.
Serving(r) == \/ pc[r] \in {"requesting", "retrying"}
              \/ pc[r] = "reconnecting" /\ cause[r] = "request"

\* It has one there and nowhere else.
ServingShape ==
  \A r \in Runtimes : /\ cur[r] # None => Serving(r)
                      /\ Serving(r) => cur[r] # None

\* A worker that reconnects has a reason to.
CauseShape == \A r \in Runtimes : pc[r] = "reconnecting" => cause[r] # "none"
WaitingHeld ==
  \A c \in Calls : caller[c] = "waiting" =>
    \E r \in Runtimes : c \in Dropped(r) \/ cur[r] = c
ExitedEmpty == \A r \in Runtimes : pc[r] = "exited" => queue[r] = <<>>
ClosedExited == lifecycle = "closed" => \A r \in Runtimes : pc[r] = "exited"
NoEarlyShutdown ==
  lifecycle \in {"connecting", "open"} =>
    \A r \in Runtimes : Shutdown \notin Range(queue[r])
NoEarlyExit == lifecycle = "connecting" => \A r \in Runtimes : pc[r] # "exited"

----------------------------------------------------------------------------
(* Lemmas about channels *)

\* Appending to a channel adds one command at its end.
LEMMA AppendFacts ==
  ASSUME NEW q \in Seq(Commands), NEW e \in Commands
  PROVE  /\ Append(q, e) \in Seq(Commands)
         /\ Range(Append(q, e)) = Range(q) \cup {e}
<1>1. /\ Append(q, e) \in Seq(Commands)
      /\ Len(Append(q, e)) = Len(q) + 1
      /\ \A i \in 1..Len(q) : Append(q, e)[i] = q[i]
      /\ Append(q, e)[Len(q) + 1] = e
  OBVIOUS
<1>2. DOMAIN q = 1..Len(q) /\ DOMAIN Append(q, e) = 1..(Len(q) + 1)
  BY <1>1
<1>3. ASSUME NEW x \in Range(Append(q, e)) PROVE x \in Range(q) \cup {e}
  BY <1>1, <1>2, <1>3 DEF Range
<1>4. ASSUME NEW x \in Range(q) \cup {e} PROVE x \in Range(Append(q, e))
  <2>1. CASE x = e
    BY <1>1, <1>2, <2>1 DEF Range
  <2>2. CASE x \in Range(q)
    BY <1>1, <1>2, <2>2 DEF Range
  <2> QED BY <1>4, <2>1, <2>2
<1> QED BY <1>1, <1>3, <1>4

\* Taking the head of a channel that holds no call twice removes that call.
LEMMA TailFacts ==
  ASSUME NEW q \in Seq(Commands), q # <<>>
  PROVE  /\ Head(q) \in Range(q)
         /\ Head(q) \in Commands
         /\ Tail(q) \in Seq(Commands)
         /\ Range(Tail(q)) \subseteq Range(q)
         /\ NoRepeat(q) => NoRepeat(Tail(q))
         /\ NoRepeat(q) /\ Head(q) # Shutdown => Range(Tail(q)) = Range(q) \ {Head(q)}
<1>1. /\ Len(q) \in Nat \ {0}
      /\ Head(q) = q[1] /\ q[1] \in Commands
      /\ Tail(q) \in Seq(Commands)
      /\ Len(Tail(q)) = Len(q) - 1
      /\ \A i \in 1..Len(Tail(q)) : Tail(q)[i] = q[i + 1]
  OBVIOUS
<1>2. DOMAIN q = 1..Len(q) /\ DOMAIN Tail(q) = 1..(Len(q) - 1)
  BY <1>1
<1>3. Head(q) \in Range(q)
  BY <1>1, <1>2 DEF Range
<1>4. ASSUME NEW x \in Range(Tail(q)) PROVE x \in Range(q)
  BY <1>1, <1>2, <1>4 DEF Range
<1>5. NoRepeat(q) => NoRepeat(Tail(q))
  BY <1>1 DEF NoRepeat
<1>6. ASSUME NoRepeat(q), Head(q) # Shutdown
      PROVE  Range(Tail(q)) = Range(q) \ {Head(q)}
  <2>1. ASSUME NEW x \in Range(Tail(q)) PROVE x # Head(q)
    BY <1>1, <1>2, <1>6, <2>1 DEF Range, NoRepeat
  <2>2. ASSUME NEW x \in Range(q), x # Head(q) PROVE x \in Range(Tail(q))
    <3>1. PICK i \in 1..Len(q) : x = q[i]
      BY <1>2, <2>2 DEF Range
    <3>2. i # 1
      BY <1>1, <2>2, <3>1
    <3>3. i - 1 \in 1..Len(Tail(q)) /\ Tail(q)[i - 1] = x
      BY <1>1, <3>1, <3>2
    <3> QED BY <1>1, <1>2, <3>3 DEF Range
  <2> QED BY <1>4, <2>1, <2>2
<1> QED BY <1>1, <1>3, <1>4, <1>5, <1>6

\* A call that is in no channel yet can be appended to one.
LEMMA AppendNoRepeat ==
  ASSUME NEW q \in Seq(Commands), NEW e \in Commands, NoRepeat(q),
         e \notin Range(q) \/ e = Shutdown
  PROVE  NoRepeat(Append(q, e))
<1>1. /\ Len(Append(q, e)) = Len(q) + 1
      /\ \A i \in 1..Len(q) : Append(q, e)[i] = q[i] /\ q[i] \in Range(q)
      /\ Append(q, e)[Len(q) + 1] = e
  BY DEF Range
<1> QED BY <1>1 DEF NoRepeat

----------------------------------------------------------------------------
(* Types *)

\* The types, and with them that a worker that reconnects knows why: GiveUp has
\* no case for a reconnection without a cause.
TypeInv == TypeOK /\ CauseShape

LEMMA Bump ==
  ASSUME NEW S, NEW f \in [S -> Nat], NEW x
  PROVE  [f EXCEPT ![x] = @ + 1] \in [S -> Nat]
<1>1. CASE x \in S
  BY <1>1
<1>2. CASE x \notin S
  BY <1>2
<1> QED BY <1>1, <1>2

\* What a step that ends a request leaves behind.
FinishTyped(r) ==
  /\ caller' \in [Calls ->
       {"idle", "waiting", "ok", "refused", "failed", "disconnected"}]
  /\ cur' \in [Runtimes -> Requests \cup {None}]
  /\ pc' \in [Runtimes ->
       {"selecting", "requesting", "reconnecting", "retrying", "exited"}]
  /\ reply' \in [Runtimes -> {"none", "sent", "answered"}]
  /\ \A s \in Runtimes : pc'[s] = "reconnecting" => s # r /\ pc[s] = "reconnecting"

LEMMA FinishTypes ==
  ASSUME TypeOK, NEW r \in Runtimes, NEW a \in {"ok", "refused", "failed"}, Finish(r, a)
  PROVE  FinishTyped(r)
<1>1. caller' = [caller EXCEPT ![cur[r]] = a]
  BY DEF Finish, Settle
<1>2. caller' \in [Calls ->
        {"idle", "waiting", "ok", "refused", "failed", "disconnected"}]
  BY <1>1 DEF TypeOK
<1>3. cur' \in [Runtimes -> Requests \cup {None}]
  BY DEF Finish, TypeOK
<1>4. pc' \in [Runtimes ->
        {"selecting", "requesting", "reconnecting", "retrying", "exited"}]
  BY DEF Finish, TypeOK
<1>5. reply' \in [Runtimes -> {"none", "sent", "answered"}]
  BY DEF Finish, TypeOK
<1>6. \A s \in Runtimes : pc'[s] = "reconnecting" => s # r /\ pc[s] = "reconnecting"
  BY DEF Finish, TypeOK
<1> QED BY <1>2, <1>3, <1>4, <1>5, <1>6 DEF FinishTyped

LEMMA TypeInit == Init => TypeInv
<1> SUFFICES ASSUME Init PROVE TypeInv
  OBVIOUS
<1> USE ConstantsAssumption DEF Init
<1>1. queue \in [Runtimes -> Seq(Commands)]
  OBVIOUS
<1>2. /\ attempt \in [Runtimes -> 0..MaxAttempts]
      /\ breaks \in 0..MaxBreaks
  OBVIOUS
<1>3. /\ caller \in [Calls -> {"idle", "waiting", "ok", "refused", "failed", "disconnected"}]
      /\ sends \in [Calls -> Nat] /\ limbo \in [Calls -> Nat] /\ execs \in [Calls -> Nat]
  OBVIOUS
<1>4. owed \in [Runtimes -> 0..2]
  OBVIOUS
<1>5. CauseShape
  BY DEF CauseShape
<1> QED BY <1>1, <1>2, <1>3, <1>4, <1>5 DEF TypeInv, TypeOK

LEMMA TypeStep == TypeInv /\ [Next]_vars => TypeInv'
<1> SUFFICES ASSUME TypeInv, [Next]_vars PROVE TypeInv'
  OBVIOUS
<1> USE ConstantsAssumption DEF TypeInv, CauseShape, SendHealth, Settle
<1>1. CASE UNCHANGED vars
  BY <1>1 DEF vars, TypeOK
<1>2. CASE Announce
  BY <1>2 DEF Announce, TypeOK, worker, wire
<1>3. CASE BeginDisconnect
  BY <1>3 DEF BeginDisconnect, ShutdownsOwed, TypeOK, worker, wire
<1>4. ASSUME NEW r \in Runtimes, SendShutdown(r) PROVE TypeInv'
  <2>1. Shutdown \in Commands
    BY DEF Commands
  <2>2. Append(queue[r], Shutdown) \in Seq(Commands)
    BY <2>1 DEF TypeOK
  <2>3. queue' \in [Runtimes -> Seq(Commands)]
    BY <1>4, <2>2 DEF SendShutdown, TypeOK
  <2>4. owed' \in [Runtimes -> 0..2]
    BY <1>4 DEF SendShutdown, TypeOK
  <2> QED BY <1>4, <2>3, <2>4 DEF SendShutdown, TypeOK, watch, wire
<1>5. CASE Join
  BY <1>5 DEF Join, TypeOK, watch, worker, wire
<1>6. ASSUME NEW c \in Calls, NEW k \in Kinds, Submit(c, k) PROVE TypeInv'
  <2>1. c \in Commands /\ Route(k) \in Runtimes
    BY DEF Commands, Route
  <2>2. Append(queue[Route(k)], c) \in Seq(Commands)
    BY <2>1 DEF TypeOK
  <2>3. queue' \in [Runtimes -> Seq(Commands)]
    BY <1>6, <2>2 DEF Submit, TypeOK
  <2>4. caller' \in [Calls -> {"idle", "waiting", "ok", "refused", "failed", "disconnected"}]
    <3>1. \/ caller' = [caller EXCEPT ![c] = "disconnected"]
          \/ caller' = [caller EXCEPT ![c] = "waiting"]
      BY <1>6 DEF Submit
    <3> QED BY <3>1 DEF TypeOK
  <2> QED BY <1>6, <2>3, <2>4 DEF Submit, TypeOK, session, watch, wire
<1>7. ASSUME NEW r \in Runtimes, TakeRequest(r) PROVE TypeInv'
  <2>1. Tail(queue[r]) \in Seq(Commands)
    BY <1>7 DEF TakeRequest, CanTake, TypeOK
  <2>2. queue' \in [Runtimes -> Seq(Commands)]
    BY <1>7, <2>1 DEF TakeRequest, Dequeue, TypeOK
  <2>3. sends' \in [Calls -> Nat]
    <3>1. \/ UNCHANGED sends
          \/ sends' = [sends EXCEPT ![Head(queue[r])] = @ + 1]
      BY <1>7 DEF TakeRequest, Transmit
    <3>2. sends \in [Calls -> Nat]
      BY DEF TypeOK
    <3> QED BY <3>1, <3>2, Bump
  <2>4. reply' \in [Runtimes -> {"none", "sent", "answered"}]
    BY <1>7 DEF TakeRequest, Transmit, TypeOK
  <2> QED BY <1>7, <2>2, <2>3, <2>4 DEF TakeRequest, TypeOK, session, watch
<1>8. ASSUME NEW r \in Runtimes, TakeOneWay(r) PROVE TypeInv'
  <2>1. Tail(queue[r]) \in Seq(Commands)
    BY <1>8 DEF TakeOneWay, CanTake, TypeOK
  <2>2. queue' \in [Runtimes -> Seq(Commands)]
    BY <1>8, <2>1 DEF TakeOneWay, Dequeue, TypeOK
  <2>3. sends' \in [Calls -> Nat]
    <3>1. \/ UNCHANGED sends
          \/ sends' = [sends EXCEPT ![Head(queue[r])] = @ + 1]
      BY <1>8 DEF TakeOneWay
    <3>2. sends \in [Calls -> Nat]
      BY DEF TypeOK
    <3> QED BY <3>1, <3>2, Bump
  <2>4. limbo' \in [Calls -> Nat]
    <3>1. \/ UNCHANGED limbo
          \/ limbo' = [limbo EXCEPT ![Head(queue[r])] = @ + 1]
      BY <1>8 DEF TakeOneWay
    <3>2. limbo \in [Calls -> Nat]
      BY DEF TypeOK
    <3> QED BY <3>1, <3>2, Bump
  <2>5. caller' \in [Calls -> {"idle", "waiting", "ok", "refused", "failed", "disconnected"}]
    BY <1>8 DEF TakeOneWay, TypeOK
  <2> QED BY <1>8, <2>2, <2>3, <2>4, <2>5 DEF TakeOneWay, TypeOK, session, watch
<1>9. ASSUME NEW r \in Runtimes, TakeShutdown(r) PROVE TypeInv'
  <2>1. queue' \in [Runtimes -> Seq(Commands)]
    BY <1>9 DEF TakeShutdown, Exit, TypeOK
  <2> QED BY <1>9, <2>1 DEF TakeShutdown, Exit, TypeOK, session, watch
<1>10. ASSUME NEW r \in Runtimes, ReceiveReply(r) PROVE TypeInv'
  <2>1. PICK a \in {"ok", "refused"} : Finish(r, a)
    BY <1>10 DEF ReceiveReply
  <2>2. FinishTyped(r)
    BY <2>1, FinishTypes
  <2>3. TypeOK'
    BY <1>10, <2>2 DEF ReceiveReply, FinishTyped, TypeOK, session, watch
  <2>4. CauseShape'
    BY <1>10, <2>2 DEF ReceiveReply, FinishTyped
  <2> QED BY <2>3, <2>4
<1>11. ASSUME NEW r \in Runtimes, RequestFails(r) PROVE TypeInv'
  <2>1. CASE MayReconnect(r)
    <3>0. BeginReconnect(r, "request") /\ UNCHANGED <<cur, caller, reply>>
      BY <1>11, <2>1 DEF RequestFails
    <3>1. TypeOK'
      BY <1>11, <3>0 DEF RequestFails, BeginReconnect, TypeOK, session
    <3>2. CauseShape'
      BY <3>0 DEF BeginReconnect, TypeOK
    <3> QED BY <3>1, <3>2
  <2>2. CASE ~MayReconnect(r)
    <3>1. Finish(r, "failed") /\ UNCHANGED <<watch, cause, attempt>>
      BY <1>11, <2>2 DEF RequestFails
    <3>2. FinishTyped(r)
      BY <3>1, FinishTypes
    <3>3. UNCHANGED <<session, watch, cause, attempt, queue, link, sends, limbo, execs, breaks>>
      BY <1>11, <3>1 DEF RequestFails
    <3>4. TypeOK'
      BY <3>2, <3>3 DEF FinishTyped, TypeOK, session, watch
    <3>5. CauseShape'
      BY <3>2, <3>3 DEF FinishTyped
    <3> QED BY <3>4, <3>5
  <2> QED BY <2>1, <2>2
<1>12. ASSUME NEW r \in Runtimes, SeeConnectionLoss(r) PROVE TypeInv'
  BY <1>12 DEF SeeConnectionLoss, BeginReconnect, TypeOK, session
<1>13. ASSUME NEW r \in Runtimes, ConnectSucceeds(r) PROVE TypeInv'
  <2>1. sends' \in [Calls -> Nat]
    <3>1. \/ UNCHANGED sends
          \/ sends' = [sends EXCEPT ![cur[r]] = @ + 1]
      BY <1>13 DEF ConnectSucceeds
    <3>2. sends \in [Calls -> Nat]
      BY DEF TypeOK
    <3> QED BY <3>1, <3>2, Bump
  <2>2. reply' \in [Runtimes -> {"none", "sent", "answered"}]
    BY <1>13 DEF ConnectSucceeds, TypeOK
  <2>3. pc' \in [Runtimes ->
          {"selecting", "requesting", "reconnecting", "retrying", "exited"}]
    <3>1. \/ pc' = [pc EXCEPT ![r] = "retrying"]
          \/ pc' = [pc EXCEPT ![r] = "selecting"]
      BY <1>13 DEF ConnectSucceeds
    <3> QED BY <3>1 DEF TypeOK
  <2>4. TypeOK'
    BY <1>13, <2>1, <2>2, <2>3 DEF ConnectSucceeds, RestoredHealth, TypeOK, session
  <2>5. CauseShape'
    BY <1>13 DEF ConnectSucceeds, TypeOK
  <2> QED BY <2>4, <2>5
<1>14. ASSUME NEW r \in Runtimes, ConnectFails(r) PROVE TypeInv'
  BY <1>14 DEF ConnectFails, AttemptsLeft, TypeOK, session, wire
<1>15. ASSUME NEW r \in Runtimes, GiveUp(r) PROVE TypeInv'
  <2>1. cause[r] \in {"request", "event", "end"}
    BY <1>15 DEF GiveUp, TypeOK
  <2>2. /\ attempt' \in [Runtimes -> 0..MaxAttempts]
        /\ cause' \in [Runtimes -> {"none", "request", "event", "end"}]
    BY <1>15 DEF GiveUp, TypeOK
  <2>3. CASE cause[r] = "request"
    <3>1. Finish(r, "failed") /\ UNCHANGED <<queue, link>>
      BY <1>15, <2>3 DEF GiveUp
    <3>2. FinishTyped(r)
      BY <3>1, FinishTypes
    <3>3. /\ health' = "disconnected" /\ unseen' = TRUE
          /\ UNCHANGED <<session, queue, link, sends, limbo, execs, breaks>>
      BY <1>15, <3>1 DEF GiveUp, ExhaustedHealth
    <3>4. TypeOK'
      BY <2>2, <3>2, <3>3 DEF FinishTyped, TypeOK, session
    <3>5. cause' = [cause EXCEPT ![r] = "none"]
      BY <1>15 DEF GiveUp
    <3>6. CauseShape'
      BY <3>2, <3>5 DEF FinishTyped, TypeOK
    <3> QED BY <3>4, <3>6
  <2>4. CASE cause[r] = "event"
    <3>1. /\ pc' = [pc EXCEPT ![r] = "selecting"]
          /\ UNCHANGED <<cur, caller, queue, link, reply>>
      BY <1>15, <2>4 DEF GiveUp
    <3>2. TypeOK'
      BY <1>15, <2>2, <3>1 DEF GiveUp, ExhaustedHealth, TypeOK, session
    <3>3. CauseShape'
      BY <1>15, <3>1 DEF GiveUp, TypeOK
    <3> QED BY <3>2, <3>3
  <2>5. CASE cause[r] = "end"
    <3>1. Exit(r) /\ UNCHANGED <<cur, reply>>
      BY <1>15, <2>5 DEF GiveUp
    <3>2. TypeOK'
      BY <1>15, <2>2, <3>1 DEF GiveUp, ExhaustedHealth, Exit, TypeOK, session
    <3>3. CauseShape'
      BY <1>15, <3>1 DEF GiveUp, Exit, TypeOK
    <3> QED BY <3>2, <3>3
  <2> QED BY <2>1, <2>3, <2>4, <2>5
<1>16. ASSUME NEW r \in Runtimes, Break(r) PROVE TypeInv'
  <2>1. limbo' \in [Calls -> Nat]
    <3>1. \/ UNCHANGED limbo
          \/ limbo' = [limbo EXCEPT ![cur[r]] = @ + 1]
      BY <1>16 DEF Break
    <3>2. limbo \in [Calls -> Nat]
      BY DEF TypeOK
    <3> QED BY <3>1, <3>2, Bump
  <2>2. link' \in [Runtimes -> {"up", "lost", "ended"}] /\ breaks' \in 0..MaxBreaks
    BY <1>16 DEF Break, TypeOK
  <2> QED BY <1>16, <2>1, <2>2 DEF Break, TypeOK, session, watch, worker
<1>17. ASSUME NEW r \in Runtimes, Execute(r) PROVE TypeInv'
  <2>1. execs' \in [Calls -> Nat]
    <3>1. execs' = [execs EXCEPT ![cur[r]] = @ + 1]
      BY <1>17 DEF Execute
    <3>2. execs \in [Calls -> Nat]
      BY DEF TypeOK
    <3> QED BY <3>1, <3>2, Bump
  <2> QED BY <1>17, <2>1 DEF Execute, TypeOK, session, watch, worker
<1>18. ASSUME NEW c \in Calls, ExecuteLate(c) PROVE TypeInv'
  BY <1>18 DEF ExecuteLate, TypeOK, session, watch, worker
<1> QED
  BY <1>1, <1>2, <1>3, <1>4, <1>5, <1>6, <1>7, <1>8, <1>9, <1>10, <1>11, <1>12,
     <1>13, <1>14, <1>15, <1>16, <1>17, <1>18 DEF Next, Owner, WorkerStep

\* The state stays in its types, whatever the number of runtimes, calls, attempts
\* and lost connections.
THEOREM TypeCorrect == Spec => []TypeOK
<1>1. TypeInv => TypeOK
  BY DEF TypeInv
<1> QED BY <1>1, TypeInit, TypeStep, PTL DEF Spec

----------------------------------------------------------------------------
(* The health channel *)

LEMMA TryingStep ==
  TypeInv /\ ConnectingMeansTrying /\ [Next]_vars => ConnectingMeansTrying'
<1> SUFFICES ASSUME TypeInv, ConnectingMeansTrying, [Next]_vars
             PROVE  ConnectingMeansTrying'
  OBVIOUS
<1> USE DEF TypeInv, TypeOK, ConnectingMeansTrying
<1>1. CASE UNCHANGED <<lifecycle, health, pc>>
  BY <1>1
<1>2. CASE Announce \/ BeginDisconnect
  BY <1>2 DEF Announce, BeginDisconnect, SendHealth
<1>3. CASE Join
  BY <1>3 DEF Join, watch, worker
<1>4. ASSUME NEW r \in Runtimes, pc[r] # "reconnecting", UNCHANGED watch, UNCHANGED lifecycle,
             \E x : pc' = [pc EXCEPT ![r] = x]
      PROVE  ConnectingMeansTrying'
  BY <1>4 DEF watch
<1>5. ASSUME NEW r \in Runtimes, WorkerStep(r) PROVE ConnectingMeansTrying'
  <2>1. CASE TakeRequest(r)
    BY <1>4, <2>1 DEF TakeRequest, CanTake, session
  <2>2. CASE TakeOneWay(r)
    BY <1>1, <2>2 DEF TakeOneWay, session, watch
  <2>3. CASE TakeShutdown(r)
    BY <1>4, <2>3 DEF TakeShutdown, CanTake, Exit, session
  <2>4. CASE ReceiveReply(r)
    BY <1>4, <2>4 DEF ReceiveReply, Finish, session
  <2>5. CASE RequestFails(r)
    <3>1. CASE MayReconnect(r)
      <4>1. pc' = [pc EXCEPT ![r] = "reconnecting"]
        BY <2>5, <3>1 DEF RequestFails, BeginReconnect
      <4> QED BY <4>1
    <3>2. CASE ~MayReconnect(r)
      BY <1>4, <2>5, <3>2 DEF RequestFails, Finish, session
    <3> QED BY <3>1, <3>2
  <2>6. CASE SeeConnectionLoss(r)
    BY <2>6 DEF SeeConnectionLoss, BeginReconnect
  <2>7. CASE ConnectSucceeds(r)
    BY <2>7 DEF ConnectSucceeds, RestoredHealth, SendHealth
  <2>8. CASE ConnectFails(r)
    BY <2>8 DEF ConnectFails
  <2>9. CASE GiveUp(r)
    BY <2>9 DEF GiveUp, ExhaustedHealth, SendHealth
  <2> QED
    BY <1>5, <2>1, <2>2, <2>3, <2>4, <2>5, <2>6, <2>7, <2>8, <2>9 DEF WorkerStep
<1>6. ASSUME NEW r \in Runtimes, SendShutdown(r) \/ Break(r) \/ Execute(r)
      PROVE  ConnectingMeansTrying'
  BY <1>1, <1>6 DEF SendShutdown, Break, Execute, session, watch, worker
<1>7. ASSUME NEW c \in Calls, ExecuteLate(c) \/ \E k \in Kinds : Submit(c, k)
      PROVE  ConnectingMeansTrying'
  BY <1>1, <1>7 DEF ExecuteLate, Submit, session, watch, worker
<1>8. CASE UNCHANGED vars
  BY <1>1, <1>8 DEF vars
<1> QED BY <1>2, <1>3, <1>5, <1>6, <1>7, <1>8 DEF Next, Owner

\* The workers share one health channel, yet none of them can leave it at
\* "connecting" while nobody is connecting (connection.rs:1326-1391).
THEOREM HealthTrying == Spec => []ConnectingMeansTrying
<1>1. Init => ConnectingMeansTrying
  BY DEF Init, ConnectingMeansTrying
<1> QED BY <1>1, TypeInit, TypeStep, TryingStep, PTL DEF Spec

----------------------------------------------------------------------------
(* Who may exit, and when *)

\* Before disconnect no channel holds a Shutdown, so a worker exits only where
\* it has just set the health channel to "disconnected".
ExitInv == NoEarlyShutdown /\ NoEarlyExit /\ AllDeadMeansDisconnected

LEMMA ExitStep == TypeInv /\ ExitInv /\ [Next]_vars => ExitInv'
<1> SUFFICES ASSUME TypeInv, ExitInv, [Next]_vars PROVE ExitInv'
  OBVIOUS
<1> USE DEF TypeInv, ExitInv
<1>1. CASE UNCHANGED <<lifecycle, health, pc, queue>>
  BY <1>1 DEF NoEarlyShutdown, NoEarlyExit, AllDeadMeansDisconnected
<1>2. CASE Announce
  BY <1>2, ConstantsAssumption
     DEF Announce, worker, NoEarlyShutdown, NoEarlyExit, AllDeadMeansDisconnected
<1>3. CASE BeginDisconnect
  BY <1>3 DEF BeginDisconnect, NoEarlyShutdown, NoEarlyExit, AllDeadMeansDisconnected
<1>4. CASE Join
  BY <1>4 DEF Join, NoEarlyShutdown, NoEarlyExit, AllDeadMeansDisconnected
<1>5. ASSUME NEW r \in Runtimes, SendShutdown(r) PROVE ExitInv'
  BY <1>5 DEF SendShutdown, NoEarlyShutdown, NoEarlyExit, AllDeadMeansDisconnected
<1>6. ASSUME NEW c \in Calls, NEW k \in Kinds, Submit(c, k) PROVE ExitInv'
  <2>1. Route(k) \in Runtimes /\ c \in Commands /\ c # Shutdown
    BY ConstantsAssumption DEF Route, Commands
  <2>2. UNCHANGED <<lifecycle, health, pc>>
    BY <1>6 DEF Submit, session, watch
  <2>3. \/ UNCHANGED queue
        \/ queue' = [queue EXCEPT ![Route(k)] = Append(@, c)]
    BY <1>6 DEF Submit
  <2>4. Range(Append(queue[Route(k)], c)) = Range(queue[Route(k)]) \cup {c}
    BY <2>1, AppendFacts DEF TypeOK
  <2>5. \A s \in Runtimes : Shutdown \in Range(queue'[s]) => Shutdown \in Range(queue[s])
    <3>1. CASE UNCHANGED queue
      BY <3>1
    <3>2. CASE queue' = [queue EXCEPT ![Route(k)] = Append(@, c)]
      <4> SUFFICES ASSUME NEW s \in Runtimes, Shutdown \in Range(queue'[s])
                   PROVE  Shutdown \in Range(queue[s])
        OBVIOUS
      <4>1. s = Route(k) => queue'[s] = Append(queue[Route(k)], c)
        BY <2>1, <3>2 DEF TypeOK
      <4>2. s # Route(k) => queue'[s] = queue[s]
        BY <3>2 DEF TypeOK
      <4> QED BY <2>1, <2>4, <4>1, <4>2
    <3> QED BY <2>3, <3>1, <3>2
  <2>6. NoEarlyShutdown'
    BY <2>2, <2>5 DEF NoEarlyShutdown
  <2> QED BY <2>2, <2>6 DEF NoEarlyExit, AllDeadMeansDisconnected
<1>7. ASSUME NEW r \in Runtimes, pc[r] # "exited", UNCHANGED lifecycle,
             \E x : x # "exited" /\ pc' = [pc EXCEPT ![r] = x],
             queue' \in {queue, [queue EXCEPT ![r] = Tail(@)]},
             queue[r] # <<>> \/ UNCHANGED queue
      PROVE  ExitInv'
  <2>1. queue[r] # <<>> => Range(Tail(queue[r])) \subseteq Range(queue[r])
    BY TailFacts DEF TypeOK
  <2>2. NoEarlyShutdown'
    BY <1>7, <2>1 DEF NoEarlyShutdown, TypeOK
  <2>3. NoEarlyExit'
    BY <1>7 DEF NoEarlyExit, TypeOK
  <2>4. AllDeadMeansDisconnected'
    BY <1>7 DEF AllDeadMeansDisconnected, TypeOK
  <2> QED BY <2>2, <2>3, <2>4
<1>8. ASSUME NEW r \in Runtimes, WorkerStep(r) PROVE ExitInv'
  <2>1. CASE TakeRequest(r)
    BY <1>7, <2>1 DEF TakeRequest, CanTake, Dequeue, session
  <2>2. CASE TakeOneWay(r)
    BY <1>7, <2>2 DEF TakeOneWay, CanTake, Dequeue, session, TypeOK
  <2>3. CASE TakeShutdown(r)
    <3>1. Shutdown \in Range(queue[r])
      BY <2>3, TailFacts DEF TakeShutdown, CanTake, TypeOK
    <3>2. lifecycle \notin {"connecting", "open"} /\ UNCHANGED lifecycle
      BY <2>3, <3>1 DEF NoEarlyShutdown, TakeShutdown, session
    <3> QED BY <3>2 DEF NoEarlyShutdown, NoEarlyExit, AllDeadMeansDisconnected
  <2>4. CASE ReceiveReply(r)
    BY <1>7, <2>4 DEF ReceiveReply, Finish, session
  <2>5. CASE RequestFails(r)
    <3>1. \/ pc' = [pc EXCEPT ![r] = "reconnecting"]
          \/ pc' = [pc EXCEPT ![r] = "selecting"]
      BY <2>5 DEF RequestFails, BeginReconnect, Finish
    <3> QED BY <1>7, <2>5, <3>1 DEF RequestFails, session
  <2>6. CASE SeeConnectionLoss(r)
    BY <1>7, <2>6 DEF SeeConnectionLoss, BeginReconnect, session
  <2>7. CASE ConnectSucceeds(r)
    <3>1. \/ pc' = [pc EXCEPT ![r] = "retrying"]
          \/ pc' = [pc EXCEPT ![r] = "selecting"]
      BY <2>7 DEF ConnectSucceeds
    <3> QED BY <1>7, <2>7, <3>1 DEF ConnectSucceeds, session
  <2>8. CASE ConnectFails(r)
    <3>1. UNCHANGED <<lifecycle, pc, queue>> /\ pc[r] = "reconnecting"
      BY <2>8 DEF ConnectFails, session
    <3> QED BY <3>1 DEF NoEarlyShutdown, NoEarlyExit, AllDeadMeansDisconnected
  <2>9. CASE GiveUp(r)
    <3>1. /\ lifecycle # "connecting" /\ UNCHANGED lifecycle
          /\ health' = "disconnected"
      BY <2>9 DEF GiveUp, AnnouncedByNow, ExhaustedHealth, SendHealth, session
    <3>2. cause[r] \in {"request", "event", "end"}
      BY <2>9 DEF GiveUp, TypeOK, CauseShape
    <3>3. UNCHANGED queue \/ queue' = [queue EXCEPT ![r] = <<>>]
      BY <2>9, <3>2 DEF GiveUp, Exit
    <3>4. \A s \in Runtimes : queue'[s] = queue[s] \/ queue'[s] = <<>>
      BY <3>3 DEF TypeOK
    <3>5. Range(<<>>) = {}
      BY DEF Range
    <3>6. NoEarlyShutdown'
      BY <3>1, <3>4, <3>5 DEF NoEarlyShutdown
    <3> QED BY <3>1, <3>6 DEF NoEarlyExit, AllDeadMeansDisconnected
  <2> QED
    BY <1>8, <2>1, <2>2, <2>3, <2>4, <2>5, <2>6, <2>7, <2>8, <2>9 DEF WorkerStep
<1>9. ASSUME NEW r \in Runtimes, Break(r) \/ Execute(r) PROVE ExitInv'
  BY <1>1, <1>9 DEF Break, Execute, session, watch, worker
<1>10. ASSUME NEW c \in Calls, ExecuteLate(c) PROVE ExitInv'
  BY <1>1, <1>10 DEF ExecuteLate, session, watch, worker
<1>11. CASE UNCHANGED vars
  BY <1>1, <1>11 DEF vars
<1> QED
  BY <1>2, <1>3, <1>4, <1>5, <1>6, <1>8, <1>9, <1>10, <1>11 DEF Next, Owner

\* A session whose workers have all left on their own says so on its health
\* channel: no caller is handed a session that nobody serves
\* (connection.rs:1677-1844, mobile_client/mod.rs:1354).
THEOREM DeadSessionsShow == Spec => []AllDeadMeansDisconnected
<1>1. Init => ExitInv
  BY DEF Init, ExitInv, NoEarlyShutdown, NoEarlyExit, AllDeadMeansDisconnected, Range
<1>2. ExitInv => AllDeadMeansDisconnected
  BY DEF ExitInv
<1> QED BY <1>1, <1>2, TypeInit, TypeStep, ExitStep, PTL DEF Spec

----------------------------------------------------------------------------
(* Nobody waits for a worker that has gone *)

\* A call that waits is in the channel or in the hands of some worker, and a
\* worker that has exited has neither.
QuietInv == ServingShape /\ WaitingHeld /\ ExitedEmpty /\ ClosedExited

\* Taking the head of a channel leaves the rest in it.
LEMMA HeadOrTail ==
  ASSUME NEW q \in Seq(Commands), q # <<>>
  PROVE  Range(q) \subseteq {Head(q)} \cup Range(Tail(q))
<1>1. /\ Len(q) \in Nat \ {0} /\ DOMAIN q = 1..Len(q)
      /\ Head(q) = q[1]
      /\ Tail(q) \in Seq(Commands) /\ DOMAIN Tail(q) = 1..(Len(q) - 1)
      /\ \A i \in 1..(Len(q) - 1) : Tail(q)[i] = q[i + 1]
  OBVIOUS
<1> SUFFICES ASSUME NEW x \in Range(q), x # Head(q) PROVE x \in Range(Tail(q))
  OBVIOUS
<1>2. PICK i \in 1..Len(q) : x = q[i]
  BY <1>1 DEF Range
<1>3. i - 1 \in 1..(Len(q) - 1) /\ Tail(q)[i - 1] = x
  BY <1>1, <1>2
<1> QED BY <1>1, <1>3 DEF Range

LEMMA QuietStep == TypeInv /\ QuietInv /\ [Next]_vars => QuietInv'
<1> SUFFICES ASSUME TypeInv, QuietInv, [Next]_vars PROVE QuietInv'
  OBVIOUS
<1> USE DEF TypeInv, QuietInv
<1>1. CASE UNCHANGED <<lifecycle, pc, cur, cause, queue, caller>>
  BY <1>1 DEF ServingShape, Serving, WaitingHeld, ExitedEmpty, ClosedExited, Dropped
<1>2. CASE Announce \/ BeginDisconnect
  BY <1>2 DEF Announce, BeginDisconnect, worker, ServingShape, Serving, WaitingHeld,
              ExitedEmpty, ClosedExited, Dropped
<1>3. CASE Join
  <2>1. UNCHANGED <<pc, cur, cause, queue, caller>>
    BY <1>3 DEF Join, worker
  <2>2. lifecycle' = "closed" => \A r \in Runtimes : pc[r] = "exited"
    BY <1>3 DEF Join, WorkersJoined
  <2> QED BY <2>1, <2>2 DEF ServingShape, Serving, WaitingHeld, ExitedEmpty, ClosedExited, Dropped
<1>4. ASSUME NEW r \in Runtimes, SendShutdown(r) PROVE QuietInv'
  <2>1. UNCHANGED <<lifecycle, pc, cur, cause, caller>>
    BY <1>4 DEF SendShutdown
  <2>2. \/ UNCHANGED queue
        \/ pc[r] # "exited" /\ queue' = [queue EXCEPT ![r] = Append(@, Shutdown)]
    BY <1>4 DEF SendShutdown
  <2>3. Range(Append(queue[r], Shutdown)) = Range(queue[r]) \cup {Shutdown}
    BY AppendFacts DEF TypeOK, Commands
  <2>4. \A s \in Runtimes : Range(queue[s]) \subseteq Range(queue'[s])
    BY <2>2, <2>3 DEF TypeOK
  <2>5. WaitingHeld'
    BY <2>1, <2>4 DEF WaitingHeld, Dropped
  <2>6. ExitedEmpty'
    BY <2>1, <2>2 DEF ExitedEmpty, TypeOK
  <2> QED BY <2>1, <2>5, <2>6 DEF ServingShape, Serving, ClosedExited
<1>5. ASSUME NEW c \in Calls, NEW k \in Kinds, Submit(c, k) PROVE QuietInv'
  <2> DEFINE r == Route(k)
  <2>1. r \in Runtimes /\ c \in Commands
    BY ConstantsAssumption DEF Route, Commands
  <2>2. UNCHANGED <<lifecycle, pc, cur, cause>>
    BY <1>5 DEF Submit, session
  <2>3. CASE pc[r] = "exited"
    <3>1. UNCHANGED queue /\ caller' = [caller EXCEPT ![c] = "disconnected"]
      BY <1>5, <2>3 DEF Submit, Settle
    <3> QED BY <2>2, <3>1 DEF ServingShape, Serving, WaitingHeld, ExitedEmpty, ClosedExited, Dropped, TypeOK
  <2>4. CASE pc[r] # "exited"
    <3>1. /\ queue' = [queue EXCEPT ![r] = Append(@, c)]
          /\ caller' = [caller EXCEPT ![c] = "waiting"]
      BY <1>5, <2>4 DEF Submit, Settle
    <3>2. Range(Append(queue[r], c)) = Range(queue[r]) \cup {c}
      BY <2>1, AppendFacts DEF TypeOK
    <3>3. /\ \A s \in Runtimes : Range(queue[s]) \subseteq Range(queue'[s])
          /\ c \in Range(queue'[r])
      BY <2>1, <3>1, <3>2 DEF TypeOK
    <3>4. WaitingHeld'
      BY <2>1, <2>2, <3>1, <3>3 DEF WaitingHeld, Dropped, TypeOK
    <3>5. ExitedEmpty'
      BY <2>2, <2>4, <3>1 DEF ExitedEmpty, TypeOK
    <3> QED BY <2>2, <3>4, <3>5 DEF ServingShape, Serving, ClosedExited
  <2> QED BY <2>3, <2>4
<1>6. ASSUME NEW r \in Runtimes, UNCHANGED lifecycle, pc[r] # "exited",
             \A s \in Runtimes : s # r =>
               /\ pc'[s] = pc[s] /\ cur'[s] = cur[s]
               /\ cause'[s] = cause[s] /\ queue'[s] = queue[s],
             (cur[r] # None => Serving(r))', (Serving(r) => cur[r] # None)',
             pc'[r] = "exited" => queue'[r] = <<>>,
             \A c \in Calls : caller'[c] = "waiting" =>
               /\ caller[c] = "waiting"
               /\ c \in Range(queue[r]) \/ cur[r] = c
                    => c \in Range(queue'[r]) \/ cur'[r] = c
      PROVE  QuietInv'
  <2>1. ServingShape'
    <3> SUFFICES ASSUME NEW s \in Runtimes
                 PROVE  (cur[s] # None => Serving(s))' /\ (Serving(s) => cur[s] # None)'
      BY DEF ServingShape
    <3>1. CASE s = r
      BY <1>6, <3>1
    <3>2. CASE s # r
      BY <1>6, <3>2 DEF ServingShape, Serving
    <3> QED BY <3>1, <3>2
  <2>2. WaitingHeld'
    BY <1>6 DEF WaitingHeld, Dropped
  <2>3. ExitedEmpty' /\ ClosedExited'
    BY <1>6 DEF ExitedEmpty, ClosedExited
  <2> QED BY <2>1, <2>2, <2>3
<1>7. ASSUME NEW r \in Runtimes, WorkerStep(r) PROVE QuietInv'
  <2> USE DEF TypeOK, Serving
  <2>1. CASE TakeRequest(r)
    <3>1. /\ pc[r] = "selecting" /\ cur[r] = None
          /\ Range(queue[r]) \subseteq {Head(queue[r])} \cup Range(Tail(queue[r]))
          /\ Head(queue[r]) # None /\ None \notin Calls
      BY <2>1, HeadOrTail, ConstantsAssumption
         DEF TakeRequest, CanTake, ServingShape, Commands, Calls
    <3>2. /\ UNCHANGED <<lifecycle, cause, caller>>
          /\ queue' = [queue EXCEPT ![r] = Tail(@)]
          /\ cur' = [cur EXCEPT ![r] = Head(queue[r])]
          /\ pc' = [pc EXCEPT ![r] = "requesting"]
      BY <2>1 DEF TakeRequest, Dequeue, session
    <3>3. /\ pc'[r] = "requesting" /\ cur'[r] = Head(queue[r])
          /\ queue'[r] = Tail(queue[r])
      BY <3>2
    <3>4. \A s \in Runtimes : s # r =>
            /\ pc'[s] = pc[s] /\ cur'[s] = cur[s]
            /\ cause'[s] = cause[s] /\ queue'[s] = queue[s]
      BY <3>2
    <3>5. \A c \in Calls : c \in Range(queue[r]) \/ cur[r] = c
                            => c \in Range(queue'[r]) \/ cur'[r] = c
      BY <3>1, <3>3
    <3> QED BY <1>6, <3>1, <3>2, <3>3, <3>4, <3>5
  <2>2. CASE TakeOneWay(r)
    <3>1. /\ pc[r] = "selecting" /\ cur[r] = None
          /\ Range(queue[r]) \subseteq {Head(queue[r])} \cup Range(Tail(queue[r]))
          /\ None \notin Calls
      BY <2>2, HeadOrTail, ConstantsAssumption
         DEF TakeOneWay, CanTake, ServingShape, Commands
    <3>2. /\ UNCHANGED <<lifecycle, cause, cur, pc>>
          /\ queue' = [queue EXCEPT ![r] = Tail(@)]
      BY <2>2 DEF TakeOneWay, Dequeue, session
    <3>3. \/ caller' = [caller EXCEPT ![Head(queue[r])] = "ok"]
          \/ caller' = [caller EXCEPT ![Head(queue[r])] = "failed"]
      BY <2>2 DEF TakeOneWay, Settle
    <3>4. /\ queue'[r] = Tail(queue[r])
          /\ \A s \in Runtimes : s # r => queue'[s] = queue[s]
      BY <3>2
    <3>5. \A c \in Calls : caller'[c] = "waiting" => caller[c] = "waiting" /\ c # Head(queue[r])
      BY <3>3
    <3> QED BY <1>6, <3>1, <3>2, <3>4, <3>5 DEF ServingShape
  <2>3. CASE TakeShutdown(r)
    <3>1. pc[r] = "selecting" /\ cur[r] = None /\ None \notin Calls
      BY <2>3, ConstantsAssumption DEF TakeShutdown, CanTake, ServingShape, Commands
    <3>2. /\ UNCHANGED <<lifecycle, cause, cur>>
          /\ pc' = [pc EXCEPT ![r] = "exited"]
          /\ queue' = [queue EXCEPT ![r] = <<>>]
          /\ \A c \in Calls : caller'[c] = IF c \in Range(queue[r]) THEN "disconnected" ELSE caller[c]
      BY <2>3 DEF TakeShutdown, Exit, Dropped, session
    <3> QED BY <1>6, <3>1, <3>2
  <2>4. CASE ReceiveReply(r)
    <3>1. PICK a \in {"ok", "refused"} : Finish(r, a)
      BY <2>4 DEF ReceiveReply
    <3>2. UNCHANGED <<lifecycle, cause, queue>> /\ pc[r] # "exited"
      BY <2>4 DEF ReceiveReply, session
    <3> QED BY <1>6, <3>1, <3>2 DEF Finish, Settle
  <2>5. CASE RequestFails(r)
    <3>1. UNCHANGED <<lifecycle, queue>> /\ pc[r] \in {"requesting", "retrying"}
      BY <2>5 DEF RequestFails, session
    <3>2. CASE MayReconnect(r)
      <4>1. BeginReconnect(r, "request") /\ UNCHANGED <<cur, caller>>
        BY <2>5, <3>2 DEF RequestFails
      <4> QED BY <1>6, <3>1, <4>1 DEF BeginReconnect, ServingShape
    <3>3. CASE ~MayReconnect(r)
      <4>1. Finish(r, "failed") /\ UNCHANGED cause
        BY <2>5, <3>3 DEF RequestFails
      <4> QED BY <1>6, <3>1, <4>1 DEF Finish, Settle
    <3> QED BY <3>2, <3>3
  <2>6. CASE SeeConnectionLoss(r)
    <3>1. /\ UNCHANGED <<lifecycle, queue, cur, caller>>
          /\ pc[r] = "selecting" /\ cur[r] = None
          /\ BeginReconnect(r, IF link[r] = "lost" THEN "event" ELSE "end")
      BY <2>6 DEF SeeConnectionLoss, ServingShape, session
    <3> QED BY <1>6, <3>1 DEF BeginReconnect
  <2>7. CASE ConnectSucceeds(r)
    <3>1. /\ UNCHANGED <<lifecycle, queue, cur, caller>> /\ pc[r] = "reconnecting"
          /\ cause' = [cause EXCEPT ![r] = "none"]
      BY <2>7 DEF ConnectSucceeds, session
    <3>2. CASE cause[r] = "request"
      <4>1. pc' = [pc EXCEPT ![r] = "retrying"]
        BY <2>7, <3>2 DEF ConnectSucceeds
      <4> QED BY <1>6, <3>1, <3>2, <4>1 DEF ServingShape
    <3>3. CASE cause[r] # "request"
      <4>1. pc' = [pc EXCEPT ![r] = "selecting"]
        BY <2>7, <3>3 DEF ConnectSucceeds
      <4> QED BY <1>6, <3>1, <3>3, <4>1 DEF ServingShape
    <3> QED BY <3>2, <3>3
  <2>8. CASE ConnectFails(r)
    BY <1>1, <2>8 DEF ConnectFails, session
  <2>9. CASE GiveUp(r)
    <3>1. UNCHANGED lifecycle /\ pc[r] = "reconnecting" /\ cause' = [cause EXCEPT ![r] = "none"]
      BY <2>9 DEF GiveUp, session
    <3>2. cause[r] \in {"request", "event", "end"}
      BY <3>1 DEF CauseShape
    <3>3. CASE cause[r] = "request"
      <4>1. Finish(r, "failed") /\ UNCHANGED queue
        BY <2>9, <3>3 DEF GiveUp
      <4> QED BY <1>6, <3>1, <4>1 DEF Finish, Settle
    <3>4. CASE cause[r] = "event"
      <4>1. pc' = [pc EXCEPT ![r] = "selecting"] /\ UNCHANGED <<cur, caller, queue>>
        BY <2>9, <3>4 DEF GiveUp
      <4>2. cur[r] = None
        BY <3>1, <3>4 DEF ServingShape
      <4> QED BY <1>6, <3>1, <4>1, <4>2
    <3>5. CASE cause[r] = "end"
      <4>1. Exit(r) /\ UNCHANGED cur
        BY <2>9, <3>5 DEF GiveUp
      <4>2. cur[r] = None /\ None \notin Calls
        BY <3>1, <3>5, ConstantsAssumption DEF ServingShape, Commands
      <4>3. /\ pc' = [pc EXCEPT ![r] = "exited"] /\ queue' = [queue EXCEPT ![r] = <<>>]
            /\ \A c \in Calls : caller'[c] = IF c \in Range(queue[r]) THEN "disconnected" ELSE caller[c]
        BY <4>1 DEF Exit, Dropped
      <4> QED BY <1>6, <3>1, <4>1, <4>2, <4>3
    <3> QED BY <3>2, <3>3, <3>4, <3>5
  <2> QED
    BY <1>7, <2>1, <2>2, <2>3, <2>4, <2>5, <2>6, <2>7, <2>8, <2>9 DEF WorkerStep
<1>8. ASSUME NEW r \in Runtimes, Break(r) \/ Execute(r) PROVE QuietInv'
  BY <1>1, <1>8 DEF Break, Execute, session, watch, worker
<1>9. ASSUME NEW c \in Calls, ExecuteLate(c) PROVE QuietInv'
  BY <1>1, <1>9 DEF ExecuteLate, session, watch, worker
<1>10. CASE UNCHANGED vars
  BY <1>1, <1>10 DEF vars
<1> QED BY <1>2, <1>3, <1>4, <1>5, <1>7, <1>8, <1>9, <1>10 DEF Next, Owner

\* When disconnect has returned, every worker has exited and no caller waits for
\* an answer that nobody will give (connection.rs:1188-1242).
THEOREM ClosedMeansQuiet == Spec => []ClosedIsQuiet
<1>1. Init => QuietInv
  BY DEF Init, QuietInv, ServingShape, Serving, WaitingHeld, ExitedEmpty, ClosedExited
<1>2. TypeInv /\ QuietInv => ClosedIsQuiet
  <2> SUFFICES ASSUME TypeInv, QuietInv, lifecycle = "closed"
               PROVE  \A c \in Calls : caller[c] # "waiting"
    BY DEF QuietInv, ClosedExited, ClosedIsQuiet
  <2>1. \A r \in Runtimes : pc[r] = "exited" /\ queue[r] = <<>> /\ cur[r] = None
    BY DEF QuietInv, ClosedExited, ExitedEmpty, ServingShape, Serving
  <2>2. Range(<<>>) = {} /\ None \notin Calls
    BY ConstantsAssumption DEF Range, Commands
  <2> QED BY <2>1, <2>2 DEF QuietInv, WaitingHeld, Dropped
<1> QED BY <1>1, <1>2, TypeInit, TypeStep, QuietStep, PTL DEF Spec

----------------------------------------------------------------------------
(***************************************************************************)
(* ServerSession implements CallService.  A call that waits is in exactly  *)
(* one place: in the channel of one worker, never transmitted, or in the   *)
(* hands of one worker that has transmitted it at most once, or at most    *)
(* twice if it is retrying.  Executions and transmissions still on their   *)
(* way never exceed transmissions, and a worker that has an answer has an  *)
(* execution.                                                              *)
(***************************************************************************)


\* The calls of a channel wait, were never sent and are in no other channel.
QueuedCalls ==
  \A r \in Runtimes :
    /\ NoRepeat(queue[r])
    /\ \A c \in Dropped(r) : caller[c] = "waiting" /\ sends[c] = 0
    /\ \A s \in Runtimes : r # s => Dropped(r) \cap Dropped(s) = {}

\* The request in the hands of a worker waits, and is nowhere else.
ServedCalls ==
  \A r \in Runtimes : cur[r] # None =>
    /\ caller[cur[r]] = "waiting"
    /\ \A s \in Runtimes : cur[r] \notin Dropped(s)
    /\ \A s \in Runtimes : r # s => cur[r] # cur[s]

UnsentCalls ==
  \A c \in Calls : caller[c] \in {"idle", "disconnected"} => sends[c] = 0

Places == QueuedCalls /\ ServedCalls /\ UnsentCalls

\* A worker sends its request a second time only when it begins to retry.
TriesLeft ==
  \A r \in Runtimes : cur[r] # None =>
    /\ sends[cur[r]] <= 2
    /\ pc[r] # "retrying" => sends[cur[r]] <= 1

\* What is transmitted for a request in hand is on the present connection.
ReplyShape ==
  \A r \in Runtimes : reply[r] # "none" =>
    link[r] = "up" /\ pc[r] \in {"requesting", "retrying"}

Executions == \A c \in Calls : execs[c] + limbo[c] <= sends[c]

\* A transmission in progress is not counted yet, an answer has its execution.
Replies ==
  \A r \in Runtimes :
    /\ reply[r] = "sent" => execs[cur[r]] + limbo[cur[r]] < sends[cur[r]]
    /\ reply[r] = "answered" => execs[cur[r]] > 0

Counts == TriesLeft /\ ReplyShape /\ Executions /\ Replies

CallInv == Places /\ Counts

\* What the invariants of ServerSession_proof contribute.
Known == TypeInv /\ ServingShape

----------------------------------------------------------------------------
(* Where a call is *)

\* A step of one worker that only takes calls out of its channel, and touches
\* no call that it does not have, keeps every call in its one place.
LEMMA WorkerPlaces ==
  ASSUME TypeOK, Places, NEW r \in Runtimes,
         \A s \in Runtimes : s # r => queue'[s] = queue[s] /\ cur'[s] = cur[s],
         NoRepeat(queue'[r]),
         Dropped(r)' \subseteq Dropped(r),
         cur'[r] # None => /\ cur'[r] = cur[r] \/ cur'[r] \in Dropped(r)
                           /\ cur'[r] \notin Dropped(r)'
                           /\ caller'[cur'[r]] = "waiting",
         \A c \in Calls : c \in Dropped(r)' \/ (c \notin Dropped(r) /\ c # cur[r])
                            => caller'[c] = caller[c] /\ sends'[c] = sends[c],
         UnsentCalls'
  PROVE  Places'
<1> USE DEF Places
<1>1. \A s \in Runtimes : s # r => Dropped(s)' = Dropped(s)
  BY DEF Dropped
<1>2. \A s \in Runtimes : Dropped(s) \subseteq Calls /\ (cur[s] # None => cur[s] \in Calls)
  BY DEF Dropped, TypeOK, Calls
<1>3. \A s \in Runtimes : s # r => Dropped(s) \cap Dropped(r) = {} /\ cur[r] \notin Dropped(s)
  <2>1. None \notin Calls
    BY ConstantsAssumption DEF Commands
  <2> QED BY <1>2, <2>1 DEF QueuedCalls, ServedCalls
<1>4. QueuedCalls'
  <2> SUFFICES ASSUME NEW s \in Runtimes
               PROVE  /\ NoRepeat(queue'[s])
                      /\ \A c \in Dropped(s)' : caller'[c] = "waiting" /\ sends'[c] = 0
                      /\ \A t \in Runtimes : s # t => Dropped(s)' \cap Dropped(t)' = {}
    BY DEF QueuedCalls
  <2>1. Dropped(s)' \subseteq Dropped(s)
    BY <1>1
  <2>2. NoRepeat(queue'[s])
    BY DEF QueuedCalls
  <2>3. \A c \in Dropped(s)' : caller'[c] = caller[c] /\ sends'[c] = sends[c]
    <3>1. CASE s = r
      BY <1>2, <2>1, <3>1
    <3>2. CASE s # r
      BY <1>2, <1>3, <2>1, <3>2
    <3> QED BY <3>1, <3>2
  <2>4. \A t \in Runtimes : s # t => Dropped(s)' \cap Dropped(t)' = {}
    BY <1>1, <2>1 DEF QueuedCalls
  <2> QED BY <2>1, <2>2, <2>3, <2>4 DEF QueuedCalls
<1>5. ServedCalls'
  <2> SUFFICES ASSUME NEW s \in Runtimes, cur'[s] # None
               PROVE  /\ caller'[cur'[s]] = "waiting"
                      /\ \A t \in Runtimes : cur'[s] \notin Dropped(t)'
                      /\ \A t \in Runtimes : s # t => cur'[s] # cur'[t]
    BY DEF ServedCalls
  <2>1. CASE s = r
    <3>1. (cur'[r] = cur[r] /\ cur[r] # None) \/ cur'[r] \in Dropped(r)
      BY <2>1
    <3>2. \A t \in Runtimes : t # r => cur'[r] \notin Dropped(t) /\ cur'[r] # cur[t]
      BY <1>2, <1>3, <3>1, <2>1 DEF ServedCalls
    <3> QED BY <1>1, <2>1, <3>2
  <2>2. CASE s # r
    <3>1. cur'[s] = cur[s] /\ cur[s] \in Calls /\ cur[s] \notin Dropped(r) /\ cur[s] # cur[r]
      BY <1>2, <2>2 DEF ServedCalls
    <3>2. caller'[cur[s]] = "waiting"
      BY <2>2, <3>1 DEF ServedCalls
    <3>3. \A t \in Runtimes : cur[s] \notin Dropped(t)'
      BY <1>1, <2>2, <3>1 DEF ServedCalls
    <3>4. \A t \in Runtimes : s # t => cur[s] # cur'[t]
      BY <1>1, <2>2, <3>1 DEF ServedCalls
    <3> QED BY <3>1, <3>2, <3>3, <3>4
  <2> QED BY <2>1, <2>2
<1> QED BY <1>4, <1>5

\* Taking a call out of a channel.
LEMMA TakeFacts ==
  ASSUME Known, Places, NEW r \in Runtimes, CanTake(r), Head(queue[r]) \in Calls, Dequeue(r)
  PROVE  /\ cur[r] = None
         /\ Head(queue[r]) \in Dropped(r)
         /\ Dropped(r)' = Dropped(r) \ {Head(queue[r])}
         /\ NoRepeat(queue'[r])
         /\ \A s \in Runtimes : s # r => queue'[s] = queue[s]
<1> USE DEF Known, TypeInv
<1>1. cur[r] = None
  BY DEF CanTake, ServingShape, Serving
<1>2. /\ queue'[r] = Tail(queue[r])
      /\ \A s \in Runtimes : s # r => queue'[s] = queue[s]
  BY DEF Dequeue, TypeOK
<1>3. Head(queue[r]) # Shutdown
  BY ConstantsAssumption
<1>4. /\ Head(queue[r]) \in Range(queue[r])
      /\ NoRepeat(Tail(queue[r]))
      /\ Range(Tail(queue[r])) = Range(queue[r]) \ {Head(queue[r])}
  BY <1>3, TailFacts DEF CanTake, TypeOK, Places, QueuedCalls
<1> QED BY <1>1, <1>2, <1>4 DEF Dropped

\* A worker that exits leaves an empty channel.
LEMMA EmptyFacts ==
  ASSUME Known, NEW r \in Runtimes, queue' = [queue EXCEPT ![r] = <<>>]
  PROVE  /\ Dropped(r)' = {} /\ NoRepeat(queue'[r])
         /\ \A s \in Runtimes : s # r => queue'[s] = queue[s]
<1>1. /\ queue'[r] = <<>>
      /\ \A s \in Runtimes : s # r => queue'[s] = queue[s]
  BY DEF Known, TypeInv, TypeOK
<1> QED BY <1>1 DEF Dropped, NoRepeat, Range

LEMMA PlacesStep == Known /\ Places /\ [Next]_vars => Places'
<1> SUFFICES ASSUME Known, Places, [Next]_vars PROVE Places'
  OBVIOUS
<1> USE DEF Known, TypeInv
<1>0. None \notin Calls /\ Shutdown \notin Calls
  BY ConstantsAssumption DEF Commands
<1>1. CASE UNCHANGED <<queue, cur, caller, sends>>
  BY <1>1 DEF Places, QueuedCalls, ServedCalls, UnsentCalls, Dropped
<1>2. CASE Announce \/ BeginDisconnect \/ Join
  BY <1>1, <1>2 DEF Announce, BeginDisconnect, Join, worker, wire
<1>3. ASSUME NEW r \in Runtimes, SendShutdown(r) PROVE Places'
  <2>1. UNCHANGED <<cur, caller, sends>>
    BY <1>3 DEF SendShutdown, wire
  <2>2. CASE UNCHANGED queue
    BY <1>1, <2>1, <2>2
  <2>3. CASE queue' = [queue EXCEPT ![r] = Append(@, Shutdown)]
    <3>1. /\ Range(Append(queue[r], Shutdown)) = Range(queue[r]) \cup {Shutdown}
          /\ NoRepeat(Append(queue[r], Shutdown))
      BY AppendFacts, AppendNoRepeat DEF TypeOK, Commands, Places, QueuedCalls
    <3>2. /\ queue'[r] = Append(queue[r], Shutdown)
          /\ \A s \in Runtimes : s # r => queue'[s] = queue[s]
      BY <2>3 DEF TypeOK
    <3>3. \A s \in Runtimes : Dropped(s)' = Dropped(s) /\ NoRepeat(queue'[s])
      BY <1>0, <3>1, <3>2 DEF Dropped, Places, QueuedCalls
    <3> QED BY <2>1, <3>3 DEF Places, QueuedCalls, ServedCalls, UnsentCalls
  <2> QED BY <1>3, <2>2, <2>3 DEF SendShutdown
<1>4. ASSUME NEW c \in Calls, NEW k \in Kinds, Submit(c, k) PROVE Places'
  <2> DEFINE r == Route(k)
  <2>1. r \in Runtimes /\ c \in Commands
    BY ConstantsAssumption DEF Route, Commands
  <2>2. UNCHANGED <<cur, sends>> /\ caller[c] = "idle" /\ sends[c] = 0
    BY <1>4 DEF Submit, wire, Places, UnsentCalls
  <2>3. \A s \in Runtimes : c \notin Dropped(s) /\ cur[s] # c
    BY <1>0, <2>2 DEF Places, QueuedCalls, ServedCalls
  <2>4. UnsentCalls' /\ ServedCalls'
    <3>1. \/ UNCHANGED queue
          \/ queue' = [queue EXCEPT ![r] = Append(@, c)]
      BY <1>4 DEF Submit
    <3>2. \A a : caller' = [caller EXCEPT ![c] = a] =>
            \A d \in Calls : d # c => caller'[d] = caller[d]
      BY DEF TypeOK
    <3>3. \A d \in Calls : d # c => caller'[d] = caller[d]
      BY <1>4, <3>2 DEF Submit, Settle
    <3>4. Range(Append(queue[r], c)) = Range(queue[r]) \cup {c}
      BY <2>1, AppendFacts DEF TypeOK
    <3>5. \A s \in Runtimes : Dropped(s)' \subseteq Dropped(s) \cup {c}
      BY <2>1, <3>1, <3>4 DEF Dropped, TypeOK
    <3>6. UnsentCalls'
      BY <2>2, <3>3 DEF Places, UnsentCalls
    <3>7. \A s \in Runtimes : cur[s] # None => cur[s] \in Calls
      BY DEF TypeOK, Calls
    <3> QED BY <2>2, <2>3, <3>3, <3>5, <3>6, <3>7 DEF Places, ServedCalls
  <2>5. QueuedCalls'
    <3>1. CASE pc[r] = "exited"
      <4>1. UNCHANGED queue /\ caller' = [caller EXCEPT ![c] = "disconnected"]
        BY <1>4, <3>1 DEF Submit, Settle
      <4>2. \A s \in Runtimes : Dropped(s)' = Dropped(s) /\ Dropped(s) \subseteq Calls \ {c}
        BY <2>3, <4>1 DEF Dropped
      <4>3. \A d \in Calls \ {c} : caller'[d] = caller[d]
        BY <4>1 DEF TypeOK
      <4> QED BY <2>2, <4>1, <4>2, <4>3 DEF Places, QueuedCalls
    <3>2. CASE pc[r] # "exited"
      <4>1. /\ queue' = [queue EXCEPT ![r] = Append(@, c)]
            /\ caller' = [caller EXCEPT ![c] = "waiting"]
        BY <1>4, <3>2 DEF Submit, Settle
      <4>2. c \notin Range(queue[r])
        BY <2>1, <2>3 DEF Dropped
      <4>3. /\ Range(Append(queue[r], c)) = Range(queue[r]) \cup {c}
            /\ NoRepeat(Append(queue[r], c))
        BY <2>1, <4>2, AppendFacts, AppendNoRepeat DEF TypeOK, Places, QueuedCalls
      <4>4. /\ queue'[r] = Append(queue[r], c)
            /\ \A s \in Runtimes : s # r => queue'[s] = queue[s]
            /\ \A d \in Calls : d # c => caller'[d] = caller[d]
            /\ caller'[c] = "waiting"
        BY <2>1, <4>1 DEF TypeOK
      <4>5. \A s \in Runtimes : NoRepeat(queue'[s])
        BY <4>3, <4>4 DEF Places, QueuedCalls
      <4>6. /\ Dropped(r)' = Dropped(r) \cup {c}
            /\ \A s \in Runtimes : s # r => Dropped(s)' = Dropped(s)
        BY <4>3, <4>4 DEF Dropped
      <4>7. \A s \in Runtimes : Dropped(s) \subseteq Calls
        BY DEF Dropped
      <4>8. \A s \in Runtimes : \A d \in Dropped(s)' : caller'[d] = "waiting" /\ sends'[d] = 0
        BY <2>2, <4>4, <4>6, <4>7 DEF Places, QueuedCalls
      <4>9. \A s, t \in Runtimes : s # t => Dropped(s)' \cap Dropped(t)' = {}
        BY <2>1, <2>3, <4>6 DEF Places, QueuedCalls
      <4> QED BY <4>5, <4>8, <4>9 DEF QueuedCalls
    <3> QED BY <3>1, <3>2
  <2> QED BY <2>4, <2>5 DEF Places
<1>5. ASSUME NEW r \in Runtimes, UNCHANGED <<queue, sends>>,
             cur[r] # None,
             \E a \in {"ok", "refused", "failed"} : Finish(r, a)
      PROVE  Places'
  <2>1. PICK a \in {"ok", "refused", "failed"} : Finish(r, a)
    BY <1>5
  <2>2. cur[r] \in Calls /\ cur[r] \notin Dropped(r)
    BY <1>5 DEF TypeOK, Calls, Places, ServedCalls
  <2>3. /\ \A s \in Runtimes : s # r => cur'[s] = cur[s]
        /\ cur'[r] = None
        /\ \A c \in Calls : c # cur[r] => caller'[c] = caller[c]
        /\ caller'[cur[r]] = a
    BY <2>1, <2>2 DEF Finish, Settle, TypeOK
  <2>4. UnsentCalls'
    BY <1>5, <2>1, <2>3 DEF Places, UnsentCalls
  <2>5. NoRepeat(queue'[r]) /\ Dropped(r)' = Dropped(r)
    BY <1>5 DEF Dropped, Places, QueuedCalls
  <2> QED BY <1>5, <2>2, <2>3, <2>4, <2>5, WorkerPlaces
<1>6. ASSUME NEW r \in Runtimes, UNCHANGED <<cur, sends>>, Exit(r), cur[r] = None
      PROVE  Places'
  <2>1. /\ queue' = [queue EXCEPT ![r] = <<>>]
        /\ \A c \in Calls : caller'[c] = IF c \in Dropped(r) THEN "disconnected" ELSE caller[c]
    BY <1>6 DEF Exit
  <2>2. UnsentCalls'
    BY <1>6, <2>1 DEF Places, UnsentCalls, QueuedCalls
  <2> HIDE DEF Known, TypeInv
  <2>3. /\ Dropped(r)' = {} /\ NoRepeat(queue'[r])
        /\ \A s \in Runtimes : s # r => queue'[s] = queue[s]
    BY <2>1, EmptyFacts
  <2> QED BY <1>6, <2>1, <2>2, <2>3, WorkerPlaces DEF Known, TypeInv
<1>7. ASSUME NEW r \in Runtimes, WorkerStep(r) PROVE Places'
  <2>1. CASE TakeRequest(r)
    <3> DEFINE h == Head(queue[r])
    <3>1. CanTake(r) /\ h \in Calls /\ Dequeue(r)
      BY <2>1 DEF TakeRequest, Calls
    <3>2. /\ h \in Dropped(r) /\ Dropped(r)' = Dropped(r) \ {h}
          /\ NoRepeat(queue'[r])
          /\ \A s \in Runtimes : s # r => queue'[s] = queue[s]
      BY <3>1, TakeFacts
    <3>3. /\ UNCHANGED caller /\ cur'[r] = h
          /\ \A s \in Runtimes : s # r => cur'[s] = cur[s]
      BY <2>1 DEF TakeRequest, TypeOK
    <3>4. \A c \in Calls : c # h => sends'[c] = sends[c]
      BY <2>1 DEF TakeRequest, Transmit, TypeOK
    <3>5. caller[h] = "waiting"
      BY <3>2 DEF Places, QueuedCalls
    <3>6. UnsentCalls'
      BY <3>3, <3>4, <3>5 DEF Places, UnsentCalls
    <3> HIDE DEF h
    <3> QED BY <3>2, <3>3, <3>4, <3>5, <3>6, WorkerPlaces
  <2>2. CASE TakeOneWay(r)
    <3> DEFINE h == Head(queue[r])
    <3>1. CanTake(r) /\ h \in Calls /\ Dequeue(r)
      BY <2>2 DEF TakeOneWay, Calls
    <3>2. /\ h \in Dropped(r) /\ Dropped(r)' = Dropped(r) \ {h}
          /\ NoRepeat(queue'[r]) /\ cur[r] = None
          /\ \A s \in Runtimes : s # r => queue'[s] = queue[s]
      BY <3>1, TakeFacts
    <3>3. UNCHANGED cur
      BY <2>2 DEF TakeOneWay
    <3>4. /\ \A c \in Calls : c # h => sends'[c] = sends[c]
          /\ \A c \in Calls : c # h => caller'[c] = caller[c]
          /\ caller'[h] \in {"ok", "failed"}
      <4>1. h \in Calls /\ DOMAIN caller = Calls /\ DOMAIN sends = Calls
        BY <3>1 DEF TypeOK
      <4>2. \/ caller' = [caller EXCEPT ![h] = "ok"]
            \/ caller' = [caller EXCEPT ![h] = "failed"]
        BY <2>2 DEF TakeOneWay, Settle
      <4>3. sends' = sends \/ sends' = [sends EXCEPT ![h] = @ + 1]
        BY <2>2 DEF TakeOneWay
      <4> QED BY <4>1, <4>2, <4>3
    <3>5. UnsentCalls'
      BY <3>4 DEF Places, UnsentCalls
    <3> HIDE DEF h
    <3> QED BY <3>2, <3>3, <3>4, <3>5, WorkerPlaces
  <2>3. CASE TakeShutdown(r)
    <3>1. Exit(r) /\ UNCHANGED <<cur, sends>> /\ cur[r] = None
      BY <2>3 DEF TakeShutdown, CanTake, ServingShape, Serving
    <3> QED BY <1>6, <3>1
  <2>4. CASE ReceiveReply(r)
    <3>1. UNCHANGED <<queue, sends>> /\ cur[r] # None
      BY <2>4 DEF ReceiveReply, ServingShape, Serving
    <3>2. \E a \in {"ok", "refused", "failed"} : Finish(r, a)
      BY <2>4 DEF ReceiveReply
    <3> QED BY <1>5, <3>1, <3>2
  <2>5. CASE RequestFails(r)
    <3>1. UNCHANGED <<queue, sends>> /\ cur[r] # None
      BY <2>5 DEF RequestFails, ServingShape, Serving
    <3>2. CASE MayReconnect(r)
      BY <1>1, <2>5, <3>1, <3>2 DEF RequestFails
    <3>3. CASE ~MayReconnect(r)
      BY <1>5, <2>5, <3>1, <3>3 DEF RequestFails
    <3> QED BY <3>2, <3>3
  <2>6. CASE SeeConnectionLoss(r)
    BY <1>1, <2>6 DEF SeeConnectionLoss
  <2>7. CASE ConnectSucceeds(r)
    <3>1. UNCHANGED <<queue, cur, caller>>
      BY <2>7 DEF ConnectSucceeds
    <3>2. CASE cause[r] = "request"
      <4>1. cur[r] # None /\ cur[r] \in Calls
        BY <2>7, <3>2 DEF ConnectSucceeds, ServingShape, Serving, TypeOK, Calls
      <4>2. \A c \in Calls : c # cur[r] => sends'[c] = sends[c]
        BY <2>7, <3>2 DEF ConnectSucceeds, TypeOK
      <4>3. /\ caller[cur[r]] = "waiting" /\ cur[r] \notin Dropped(r)
            /\ NoRepeat(queue[r]) /\ Dropped(r)' = Dropped(r)
        BY <3>1, <4>1 DEF Places, ServedCalls, QueuedCalls, Dropped
      <4>4. UnsentCalls'
        BY <3>1, <4>2, <4>3 DEF Places, UnsentCalls
      <4> QED BY <3>1, <4>2, <4>3, <4>4, WorkerPlaces
    <3>3. CASE cause[r] # "request"
      BY <1>1, <2>7, <3>1, <3>3 DEF ConnectSucceeds
    <3> QED BY <3>2, <3>3
  <2>8. CASE ConnectFails(r)
    BY <1>1, <2>8 DEF ConnectFails, wire
  <2>9. CASE GiveUp(r)
    <3>1. UNCHANGED sends /\ pc[r] = "reconnecting" /\ cause[r] \in {"request", "event", "end"}
      BY <2>9 DEF GiveUp, CauseShape, TypeOK
    <3>2. CASE cause[r] = "request"
      <4>1. UNCHANGED queue /\ Finish(r, "failed")
        BY <2>9, <3>2 DEF GiveUp
      <4>2. cur[r] # None
        BY <3>1, <3>2 DEF ServingShape, Serving
      <4> QED BY <1>5, <3>1, <4>1, <4>2
    <3>3. CASE cause[r] = "event"
      BY <1>1, <2>9, <3>1, <3>3 DEF GiveUp
    <3>4. CASE cause[r] = "end"
      <4>1. Exit(r) /\ UNCHANGED cur
        BY <2>9, <3>4 DEF GiveUp
      <4>2. cur[r] = None
        BY <3>1, <3>4 DEF ServingShape, Serving
      <4> QED BY <1>6, <3>1, <4>1, <4>2
    <3> QED BY <3>1, <3>2, <3>3, <3>4
  <2> QED
    BY <1>7, <2>1, <2>2, <2>3, <2>4, <2>5, <2>6, <2>7, <2>8, <2>9 DEF WorkerStep
<1>8. ASSUME NEW r \in Runtimes, Break(r) \/ Execute(r) PROVE Places'
  BY <1>1, <1>8 DEF Break, Execute, worker
<1>9. ASSUME NEW c \in Calls, ExecuteLate(c) PROVE Places'
  BY <1>1, <1>9 DEF ExecuteLate, worker
<1>10. CASE UNCHANGED vars
  BY <1>1, <1>10 DEF vars
<1> QED BY <1>2, <1>3, <1>4, <1>7, <1>8, <1>9, <1>10 DEF Next, Owner

----------------------------------------------------------------------------
(* How often a call is sent and executed *)

\* A step of one worker, or of the environment on its connection, that changes
\* the counts of one call, which no other worker has in hand.
LEMMA WorkerCounts ==
  ASSUME Known, Counts, NEW r \in Runtimes, NEW x,
         \A s \in Runtimes : s # r =>
           /\ pc'[s] = pc[s] /\ cur'[s] = cur[s]
           /\ link'[s] = link[s] /\ reply'[s] = reply[s]
           /\ cur[s] # None => cur[s] # x,
         \A c \in Calls : c # x =>
           sends'[c] = sends[c] /\ limbo'[c] = limbo[c] /\ execs'[c] = execs[c],
         x \in Calls => execs'[x] + limbo'[x] <= sends'[x],
         cur'[r] # None => /\ sends'[cur'[r]] <= 2
                           /\ pc'[r] # "retrying" => sends'[cur'[r]] <= 1,
         reply'[r] # "none" => link'[r] = "up" /\ pc'[r] \in {"requesting", "retrying"},
         reply'[r] = "sent" => execs'[cur'[r]] + limbo'[cur'[r]] < sends'[cur'[r]],
         reply'[r] = "answered" => execs'[cur'[r]] > 0
  PROVE  Counts'
<1> USE DEF Counts
<1>1. \A s \in Runtimes : s # r /\ cur[s] # None =>
        /\ cur'[s] = cur[s] /\ cur[s] \in Calls
        /\ sends'[cur[s]] = sends[cur[s]] /\ limbo'[cur[s]] = limbo[cur[s]]
        /\ execs'[cur[s]] = execs[cur[s]]
  BY DEF Known, TypeInv, TypeOK, Calls
<1>2. \A s \in Runtimes : reply[s] # "none" => cur[s] # None
  BY DEF Known, ServingShape, Serving, ReplyShape
<1>3. TriesLeft'
  BY <1>1 DEF TriesLeft
<1>4. ReplyShape'
  BY DEF ReplyShape
<1>5. Executions'
  BY DEF Executions
<1>6. Replies'
  BY <1>1, <1>2 DEF Replies
<1> QED BY <1>3, <1>4, <1>5, <1>6

LEMMA CountsStep == Known /\ Places /\ Counts /\ [Next]_vars => Counts'
<1> SUFFICES ASSUME Known, Places, Counts, [Next]_vars PROVE Counts'
  OBVIOUS
<1>1. CASE UNCHANGED <<pc, cur, link, reply, sends, limbo, execs>>
  BY <1>1 DEF Counts, TriesLeft, ReplyShape, Executions, Replies
<1>2. CASE Announce \/ BeginDisconnect \/ Join
  BY <1>1, <1>2 DEF Announce, BeginDisconnect, Join, worker, wire
<1>3. ASSUME NEW r \in Runtimes, SendShutdown(r) PROVE Counts'
  BY <1>1, <1>3 DEF SendShutdown, wire
<1>4. ASSUME NEW c \in Calls, NEW k \in Kinds, Submit(c, k) PROVE Counts'
  BY <1>1, <1>4 DEF Submit, wire

\* A worker that puts its request down.
<1>5. ASSUME NEW r \in Runtimes, UNCHANGED <<link, sends, limbo, execs>>,
             \E a \in {"ok", "refused", "failed"} : Finish(r, a)
      PROVE  Counts'
  <2>1. /\ cur'[r] = None /\ reply'[r] = "none"
        /\ \A s \in Runtimes : s # r =>
             pc'[s] = pc[s] /\ cur'[s] = cur[s] /\ reply'[s] = reply[s]
    BY <1>5 DEF Finish, Known, TypeInv, TypeOK
  <2>2. \A s \in Runtimes : s # r /\ cur[s] # None => cur[s] # cur[r]
    BY DEF Places, ServedCalls
  <2>3. cur[r] \in Calls => execs'[cur[r]] + limbo'[cur[r]] <= sends'[cur[r]]
    BY <1>5 DEF Counts, Executions
  <2> QED BY <1>5, <2>1, <2>2, <2>3, WorkerCounts

\* A worker that has nothing in hand, and nothing on its connection.
<1>6. ASSUME NEW r \in Runtimes, UNCHANGED <<cur, reply, sends, limbo, execs>>,
             \A s \in Runtimes : s # r => pc'[s] = pc[s] /\ link'[s] = link[s],
             reply[r] = "none", pc[r] # "retrying"
      PROVE  Counts'
  <2>1. cur[r] # None => sends[cur[r]] <= 1 /\ sends[cur[r]] <= 2
    BY <1>6 DEF Counts, TriesLeft
  <2>2. \A s \in Runtimes : s # r /\ cur[s] # None => cur[s] # cur[r]
    BY DEF Places, ServedCalls
  <2>3. cur[r] \in Calls => execs'[cur[r]] + limbo'[cur[r]] <= sends'[cur[r]]
    BY <1>6 DEF Counts, Executions
  <2> QED BY <1>6, <2>1, <2>2, <2>3, WorkerCounts
<1>7. \A r \in Runtimes : pc[r] \notin {"requesting", "retrying"} \/ link[r] # "up"
                            => reply[r] = "none"
  BY DEF Counts, ReplyShape
<1>8. \A c \in Calls : sends[c] \in Nat /\ limbo[c] \in Nat /\ execs[c] \in Nat
  BY DEF Known, TypeInv, TypeOK
<1>9. ASSUME NEW r \in Runtimes, WorkerStep(r) PROVE Counts'
  <2>1. CASE TakeRequest(r)
    <3> DEFINE h == Head(queue[r])
    <3>1. CanTake(r) /\ h \in Calls /\ Dequeue(r)
      BY <2>1 DEF TakeRequest, Calls
    <3>2. h \in Dropped(r) /\ reply[r] = "none"
      BY <1>7, <3>1, TakeFacts DEF CanTake
    <3>3. /\ sends[h] = 0 /\ execs[h] = 0 /\ limbo[h] = 0
          /\ \A s \in Runtimes : cur[s] # h
      <4>1. sends[h] = 0 /\ execs[h] + limbo[h] <= sends[h]
        BY <3>1, <3>2 DEF Places, QueuedCalls, Counts, Executions
      <4>2. h # None
        BY <3>1, ConstantsAssumption DEF Commands
      <4> QED BY <1>8, <3>1, <3>2, <4>1, <4>2 DEF Places, ServedCalls
    <3>4. /\ UNCHANGED <<link, limbo, execs>>
          /\ cur'[r] = h /\ pc'[r] = "requesting"
          /\ \A s \in Runtimes : s # r => pc'[s] = pc[s] /\ cur'[s] = cur[s]
      BY <2>1 DEF TakeRequest, Known, TypeInv, TypeOK
    <3>5. \/ UNCHANGED <<sends, reply>>
          \/ /\ link[r] = "up"
             /\ sends' = [sends EXCEPT ![h] = @ + 1]
             /\ reply' = [reply EXCEPT ![r] = "sent"]
      BY <2>1 DEF TakeRequest, Transmit
    <3>6. \/ UNCHANGED <<sends, reply>>
          \/ /\ link[r] = "up" /\ sends'[h] = 1 /\ reply'[r] = "sent"
             /\ \A c \in Calls : c # h => sends'[c] = sends[c]
             /\ \A s \in Runtimes : s # r => reply'[s] = reply[s]
      BY <3>1, <3>3, <3>5 DEF Known, TypeInv, TypeOK
    <3> HIDE DEF h
    <3> QED BY <3>2, <3>3, <3>4, <3>6, WorkerCounts
  <2>2. CASE TakeOneWay(r)
    <3> DEFINE h == Head(queue[r])
    <3>1. CanTake(r) /\ h \in Calls /\ Dequeue(r)
      BY <2>2 DEF TakeOneWay, Calls
    <3>2. h \in Dropped(r) /\ reply[r] = "none" /\ cur[r] = None
      BY <1>7, <3>1, TakeFacts DEF CanTake
    <3>3. \A s \in Runtimes : cur[s] # None => cur[s] # h
      BY <3>2 DEF Places, ServedCalls
    <3>4. UNCHANGED <<pc, cur, link, reply, execs>>
      BY <2>2 DEF TakeOneWay
    <3>5. \/ UNCHANGED <<sends, limbo>>
          \/ /\ sends' = [sends EXCEPT ![h] = @ + 1]
             /\ limbo' = [limbo EXCEPT ![h] = @ + 1]
      BY <2>2 DEF TakeOneWay
    <3>6. /\ \A c \in Calls : c # h => sends'[c] = sends[c] /\ limbo'[c] = limbo[c]
          /\ execs'[h] + limbo'[h] <= sends'[h]
      <4>1. /\ sends \in [Calls -> Nat] /\ limbo \in [Calls -> Nat]
            /\ execs \in [Calls -> Nat]
        BY DEF Known, TypeInv, TypeOK
      <4>2. execs[h] + limbo[h] <= sends[h]
        BY <1>8, <3>1 DEF Counts, Executions
      <4>3. CASE UNCHANGED <<sends, limbo>>
        BY <3>4, <4>2, <4>3
      <4>4. CASE /\ sends' = [sends EXCEPT ![h] = @ + 1]
                 /\ limbo' = [limbo EXCEPT ![h] = @ + 1]
        <5>1. /\ \A c \in Calls : c # h => sends'[c] = sends[c] /\ limbo'[c] = limbo[c]
              /\ sends'[h] = sends[h] + 1 /\ limbo'[h] = limbo[h] + 1 /\ execs'[h] = execs[h]
          BY <3>1, <3>4, <4>1, <4>4
        <5>2. sends[h] \in Nat /\ limbo[h] \in Nat /\ execs[h] \in Nat
          BY <3>1, <4>1
        <5> QED BY <4>2, <5>1, <5>2
      <4> QED BY <3>5, <4>3, <4>4
    <3> HIDE DEF h
    <3> QED BY <3>2, <3>3, <3>4, <3>6, WorkerCounts
  <2>3. CASE TakeShutdown(r)
    <3>1. /\ UNCHANGED <<cur, reply, sends, limbo, execs>>
          /\ pc[r] = "selecting"
          /\ \A s \in Runtimes : s # r => pc'[s] = pc[s] /\ link'[s] = link[s]
      BY <2>3 DEF TakeShutdown, CanTake, Exit, Known, TypeInv, TypeOK
    <3> QED BY <1>6, <1>7, <3>1
  <2>4. CASE ReceiveReply(r)
    BY <1>5, <2>4 DEF ReceiveReply
  <2>5. CASE RequestFails(r)
    <3>1. /\ UNCHANGED <<link, sends, limbo, execs>>
          /\ reply[r] = "none"
      BY <1>7, <2>5 DEF RequestFails
    <3>2. CASE MayReconnect(r)
      <4>1. /\ UNCHANGED <<cur, reply>> /\ pc[r] = "requesting"
            /\ \A s \in Runtimes : s # r => pc'[s] = pc[s]
        BY <2>5, <3>2 DEF RequestFails, MayReconnect, BeginReconnect, Known, TypeInv, TypeOK
      <4> QED BY <1>6, <3>1, <4>1
    <3>3. CASE ~MayReconnect(r)
      BY <1>5, <2>5, <3>1, <3>3 DEF RequestFails
    <3> QED BY <3>2, <3>3
  <2>6. CASE SeeConnectionLoss(r)
    <3>1. /\ UNCHANGED <<cur, reply, sends, limbo, execs>> /\ pc[r] = "selecting"
          /\ \A s \in Runtimes : s # r => pc'[s] = pc[s] /\ link'[s] = link[s]
      BY <2>6 DEF SeeConnectionLoss, BeginReconnect, Known, TypeInv, TypeOK
    <3> QED BY <1>6, <1>7, <3>1
  <2>7. CASE ConnectSucceeds(r)
    <3>1. /\ UNCHANGED <<cur, limbo, execs>> /\ pc[r] = "reconnecting"
          /\ link' = [link EXCEPT ![r] = "up"]
          /\ \A s \in Runtimes : s # r => pc'[s] = pc[s] /\ link'[s] = link[s]
      BY <2>7 DEF ConnectSucceeds, Known, TypeInv, TypeOK
    <3>2. CASE cause[r] = "request"
      <4>1. cur[r] # None /\ cur[r] \in Calls
        BY <3>1, <3>2 DEF Known, TypeInv, TypeOK, ServingShape, Serving, Calls
      <4>2. /\ pc'[r] = "retrying" /\ link'[r] = "up" /\ reply'[r] = "sent"
            /\ sends'[cur[r]] = sends[cur[r]] + 1
            /\ \A c \in Calls : c # cur[r] => sends'[c] = sends[c]
            /\ \A s \in Runtimes : s # r => reply'[s] = reply[s]
        BY <2>7, <3>2, <4>1 DEF ConnectSucceeds, Known, TypeInv, TypeOK
      <4>3. sends[cur[r]] <= 1 /\ execs[cur[r]] + limbo[cur[r]] <= sends[cur[r]]
        BY <3>1, <4>1 DEF Counts, TriesLeft, Executions
      <4>4. /\ sends'[cur[r]] <= 2
            /\ execs'[cur[r]] + limbo'[cur[r]] < sends'[cur[r]]
            /\ execs'[cur[r]] + limbo'[cur[r]] <= sends'[cur[r]]
        BY <1>8, <3>1, <4>1, <4>2, <4>3
      <4>5. \A s \in Runtimes : s # r /\ cur[s] # None => cur[s] # cur[r]
        BY DEF Places, ServedCalls
      <4> QED BY <3>1, <4>2, <4>4, <4>5, WorkerCounts
    <3>3. CASE cause[r] # "request"
      <4>1. UNCHANGED <<sends, reply>>
        BY <2>7, <3>3 DEF ConnectSucceeds
      <4> QED BY <1>6, <1>7, <3>1, <4>1
    <3> QED BY <3>2, <3>3
  <2>8. CASE ConnectFails(r)
    BY <1>1, <2>8 DEF ConnectFails, wire
  <2>9. CASE GiveUp(r)
    <3>1. /\ UNCHANGED <<sends, limbo, execs>> /\ pc[r] = "reconnecting"
          /\ cause[r] \in {"request", "event", "end"}
      BY <2>9 DEF GiveUp, Known, TypeInv, CauseShape, TypeOK
    <3>2. CASE cause[r] = "request"
      <4>1. UNCHANGED link /\ Finish(r, "failed")
        BY <2>9, <3>2 DEF GiveUp
      <4> QED BY <1>5, <3>1, <4>1
    <3>3. CASE cause[r] \in {"event", "end"}
      <4>1. /\ UNCHANGED <<cur, reply>>
            /\ \A s \in Runtimes : s # r => pc'[s] = pc[s] /\ link'[s] = link[s]
        BY <2>9, <3>3 DEF GiveUp, Exit, Known, TypeInv, TypeOK
      <4> QED BY <1>6, <1>7, <3>1, <4>1
    <3> QED BY <3>1, <3>2, <3>3
  <2> QED
    BY <1>9, <2>1, <2>2, <2>3, <2>4, <2>5, <2>6, <2>7, <2>8, <2>9 DEF WorkerStep
<1>10. ASSUME NEW r \in Runtimes, Break(r) PROVE Counts'
  <2>1. /\ UNCHANGED <<pc, cur, sends, execs>>
        /\ reply'[r] = "none"
        /\ \A s \in Runtimes : s # r => link'[s] = link[s] /\ reply'[s] = reply[s]
    BY <1>10 DEF Break, worker, Known, TypeInv, TypeOK
  <2>2. \A s \in Runtimes : s # r /\ cur[s] # None => cur[s] # cur[r]
    BY DEF Places, ServedCalls
  <2>3. cur[r] # None => /\ sends[cur[r]] <= 2
                         /\ pc[r] # "retrying" => sends[cur[r]] <= 1
    BY DEF Counts, TriesLeft
  <2>4. \A c \in Calls : c # cur[r] => limbo'[c] = limbo[c]
    BY <1>10 DEF Break, Known, TypeInv, TypeOK
  <2>5. cur[r] \in Calls => execs[cur[r]] + limbo'[cur[r]] <= sends[cur[r]]
    <3>1. CASE reply[r] = "sent"
      <4>1. limbo' = [limbo EXCEPT ![cur[r]] = @ + 1]
        BY <1>10, <3>1 DEF Break
      <4>2. execs[cur[r]] + limbo[cur[r]] < sends[cur[r]]
        BY <3>1 DEF Counts, Replies
      <4> QED BY <1>8, <4>1, <4>2 DEF Known, TypeInv, TypeOK
    <3>2. CASE reply[r] # "sent"
      BY <1>10, <3>2 DEF Break, Counts, Executions
    <3> QED BY <3>1, <3>2
  <2> QED BY <2>1, <2>2, <2>3, <2>4, <2>5, WorkerCounts
<1>11. ASSUME NEW r \in Runtimes, Execute(r) PROVE Counts'
  <2>1. /\ UNCHANGED <<pc, cur, link, sends, limbo>>
        /\ reply[r] = "sent" /\ reply'[r] = "answered"
        /\ \A s \in Runtimes : s # r => reply'[s] = reply[s]
        /\ execs' = [execs EXCEPT ![cur[r]] = @ + 1]
    BY <1>11 DEF Execute, worker, Known, TypeInv, TypeOK
  <2>2. /\ link[r] = "up" /\ pc[r] \in {"requesting", "retrying"}
        /\ cur[r] # None /\ cur[r] \in Calls
    BY <2>1 DEF Counts, ReplyShape, Known, TypeInv, TypeOK, ServingShape, Serving, Calls
  <2>3. \A s \in Runtimes : s # r /\ cur[s] # None => cur[s] # cur[r]
    BY DEF Places, ServedCalls
  <2>4. /\ \A c \in Calls : c # cur[r] => execs'[c] = execs[c]
        /\ execs'[cur[r]] = execs[cur[r]] + 1
    BY <2>1, <2>2 DEF Known, TypeInv, TypeOK
  <2>5. execs'[cur[r]] + limbo[cur[r]] <= sends[cur[r]] /\ execs'[cur[r]] > 0
    BY <1>8, <2>1, <2>2, <2>4 DEF Counts, Replies
  <2>6. sends[cur[r]] <= 2 /\ (pc[r] # "retrying" => sends[cur[r]] <= 1)
    BY <2>2 DEF Counts, TriesLeft
  <2> QED BY <2>1, <2>2, <2>3, <2>4, <2>5, <2>6, WorkerCounts
<1>12. ASSUME NEW c \in Calls, ExecuteLate(c) PROVE Counts'
  <2>1. /\ UNCHANGED <<pc, cur, link, reply, sends>>
        /\ execs' = [execs EXCEPT ![c] = @ + 1] /\ limbo' = [limbo EXCEPT ![c] = @ - 1]
    BY <1>12 DEF ExecuteLate, worker
  <2>2. \A d \in Calls : /\ execs'[d] + limbo'[d] = execs[d] + limbo[d]
                         /\ execs[d] > 0 => execs'[d] > 0
    BY <1>8, <2>1 DEF Known, TypeInv, TypeOK
  <2>3. \A r \in Runtimes : reply[r] # "none" => cur[r] \in Calls
    BY DEF Counts, ReplyShape, Known, TypeInv, TypeOK, ServingShape, Serving, Calls
  <2> QED BY <2>1, <2>2, <2>3 DEF Counts, TriesLeft, ReplyShape, Executions, Replies
<1>13. CASE UNCHANGED vars
  BY <1>1, <1>13 DEF vars
<1> QED
  BY <1>2, <1>3, <1>4, <1>9, <1>10, <1>11, <1>12, <1>13 DEF Next, Owner

----------------------------------------------------------------------------
(* The refinement *)

LEMMA CallInvInductive ==
  /\ Init => CallInv
  /\ Known /\ CallInv /\ [Next]_vars => CallInv'
<1>1. ASSUME Init PROVE CallInv
  <2>1. \A r \in Runtimes : queue[r] = <<>> /\ Dropped(r) = {} /\ cur[r] = None /\ reply[r] = "none"
    BY <1>1 DEF Init, Dropped, Range
  <2>2. \A c \in Calls : caller[c] = "idle" /\ sends[c] = 0 /\ limbo[c] = 0 /\ execs[c] = 0
    BY <1>1 DEF Init
  <2>3. Places
    BY <2>1, <2>2 DEF Places, QueuedCalls, ServedCalls, UnsentCalls, NoRepeat
  <2>4. Counts
    BY <2>1, <2>2 DEF Counts, TriesLeft, ReplyShape, Executions, Replies
  <2> QED BY <2>3, <2>4 DEF CallInv
<1>2. Known /\ CallInv /\ [Next]_vars => CallInv'
  BY PlacesStep, CountsStep DEF CallInv
<1> QED BY <1>1, <1>2

LEMMA StepRefines ==
  Known /\ CallInv /\ [Next]_vars => [Service!ANext]_Service!avars
<1> SUFFICES ASSUME Known, CallInv, [Next]_vars PROVE [Service!ANext]_Service!avars
  OBVIOUS
<1>0. /\ Service!Calls = Calls
      /\ \A c \in Calls : sends[c] \in Nat /\ limbo[c] \in Nat /\ execs[c] \in Nat
      /\ caller \in [Calls -> Service!Answers \cup {"idle", "waiting"}]
      /\ \A r \in Runtimes : cur[r] # None => cur[r] \in Requests /\ cur[r] \in Calls
  BY DEF Known, TypeInv, TypeOK, Calls, Service!Calls, Service!Answers
<1>1. CASE UNCHANGED <<caller, sends, execs>>
  BY <1>1 DEF Service!avars
<1>2. CASE Announce \/ BeginDisconnect \/ Join
  BY <1>1, <1>2 DEF Announce, BeginDisconnect, Join, wire
<1>3. ASSUME NEW r \in Runtimes, SendShutdown(r) PROVE [Service!ANext]_Service!avars
  BY <1>1, <1>3 DEF SendShutdown, wire
<1>4. ASSUME NEW c \in Calls, NEW k \in Kinds, Submit(c, k) PROVE [Service!ANext]_Service!avars
  <2>1. Service!ASubmit(c) \/ Service!AReject(c)
    BY <1>4 DEF Submit, Settle, wire, Service!ASubmit, Service!AReject
  <2> QED BY <1>0, <2>1 DEF Service!ANext

\* A worker that drops its channel settles the calls of it at once.
<1>5. ASSUME NEW r \in Runtimes, Exit(r), UNCHANGED <<sends, execs>>
      PROVE  [Service!ANext]_Service!avars
  <2>1. caller' = [c \in Calls |-> IF c \in Dropped(r) THEN "disconnected" ELSE caller[c]]
    BY <1>5 DEF Exit
  <2>2. CASE Dropped(r) = {}
    <3>1. caller' = caller
      BY <1>0, <2>1, <2>2
    <3> QED BY <1>1, <1>5, <3>1
  <2>3. CASE Dropped(r) # {}
    <3>1. \A c \in Dropped(r) : caller[c] = "waiting" /\ sends[c] = 0
      BY DEF CallInv, Places, QueuedCalls
    <3>2. Dropped(r) \in SUBSET Service!Calls
      BY <1>0 DEF Dropped
    <3>3. Service!ADrop(Dropped(r))
      BY <1>0, <1>5, <2>1, <2>3, <3>1 DEF Service!ADrop
    <3> QED BY <3>2, <3>3 DEF Service!ANext
  <2> QED BY <2>2, <2>3

\* A request that has failed for good.
<1>6. ASSUME NEW r \in Runtimes, Finish(r, "failed"), UNCHANGED <<sends, execs>>, cur[r] # None
      PROVE  [Service!ANext]_Service!avars
  <2>1. caller[cur[r]] = "waiting"
    BY <1>6 DEF CallInv, Places, ServedCalls
  <2>2. Service!AFail(cur[r])
    BY <1>6, <2>1 DEF Finish, Settle, Service!AFail
  <2> QED BY <1>0, <1>6, <2>2 DEF Service!ANext
<1>7. ASSUME NEW r \in Runtimes, WorkerStep(r) PROVE [Service!ANext]_Service!avars
  <2>0. Serving(r) => cur[r] # None
    BY DEF Known, ServingShape
  <2>1. CASE TakeRequest(r)
    <3> DEFINE h == Head(queue[r])
    <3>1. /\ CanTake(r) /\ h \in Requests /\ h \in Calls /\ Dequeue(r)
          /\ UNCHANGED <<caller, execs>>
      BY <2>1 DEF TakeRequest, Calls
    <3>2. caller[h] = "waiting" /\ sends[h] = 0
      BY <3>1, TakeFacts DEF CallInv, Places, QueuedCalls
    <3>3. UNCHANGED sends \/ sends' = [sends EXCEPT ![h] = @ + 1]
      BY <2>1 DEF TakeRequest, Transmit
    <3>4. UNCHANGED sends \/ Service!ATransmit(h)
      BY <3>1, <3>2, <3>3 DEF Service!ATransmit, Service!Budget
    <3> HIDE DEF h
    <3> QED BY <1>0, <1>1, <3>1, <3>4 DEF Service!ANext
  <2>2. CASE TakeOneWay(r)
    <3> DEFINE h == Head(queue[r])
    <3>1. /\ CanTake(r) /\ h \in OneWays /\ h \in Calls /\ Dequeue(r)
          /\ UNCHANGED execs
      BY <2>2 DEF TakeOneWay, Calls
    <3>2. caller[h] = "waiting" /\ sends[h] = 0 /\ h \notin Requests
      BY <3>1, TakeFacts, ConstantsAssumption DEF CallInv, Places, QueuedCalls
    <3>3. \/ /\ sends' = [sends EXCEPT ![h] = @ + 1]
             /\ caller' = [caller EXCEPT ![h] = "ok"]
          \/ UNCHANGED sends /\ caller' = [caller EXCEPT ![h] = "failed"]
      BY <2>2 DEF TakeOneWay, Settle
    <3>4. Service!AFire(h) \/ Service!AFail(h)
      BY <3>1, <3>2, <3>3 DEF Service!AFire, Service!AFail, Service!Budget
    <3> HIDE DEF h
    <3> QED BY <1>0, <3>1, <3>4 DEF Service!ANext
  <2>3. CASE TakeShutdown(r)
    BY <1>5, <2>3 DEF TakeShutdown
  <2>4. CASE ReceiveReply(r)
    <3>1. /\ UNCHANGED <<sends, execs>> /\ reply[r] = "answered" /\ cur[r] # None
          /\ \E a \in {"ok", "refused"} : caller' = [caller EXCEPT ![cur[r]] = a]
      BY <2>0, <2>4 DEF ReceiveReply, Serving, Finish, Settle
    <3>2. caller[cur[r]] = "waiting" /\ execs[cur[r]] > 0
      BY <3>1 DEF CallInv, Places, ServedCalls, Counts, Replies
    <3>3. Service!AAnswer(cur[r])
      BY <1>0, <3>1, <3>2 DEF Service!AAnswer
    <3> QED BY <1>0, <3>1, <3>3 DEF Service!ANext
  <2>5. CASE RequestFails(r)
    <3>1. UNCHANGED <<sends, execs>> /\ cur[r] # None
      BY <2>0, <2>5 DEF RequestFails, Serving
    <3>2. UNCHANGED caller \/ Finish(r, "failed")
      BY <2>5 DEF RequestFails
    <3> QED BY <1>1, <1>6, <3>1, <3>2
  <2>6. CASE SeeConnectionLoss(r)
    BY <1>1, <2>6 DEF SeeConnectionLoss
  <2>7. CASE ConnectSucceeds(r)
    <3>1. UNCHANGED <<caller, execs>> /\ pc[r] = "reconnecting"
      BY <2>7 DEF ConnectSucceeds
    <3>2. CASE cause[r] # "request"
      BY <1>1, <2>7, <3>1, <3>2 DEF ConnectSucceeds
    <3>3. CASE cause[r] = "request"
      <4>1. cur[r] # None
        BY <2>0, <3>1, <3>3 DEF Serving
      <4>2. caller[cur[r]] = "waiting" /\ sends[cur[r]] <= 1
        BY <3>1, <4>1 DEF CallInv, Places, ServedCalls, Counts, TriesLeft
      <4>3. sends' = [sends EXCEPT ![cur[r]] = @ + 1]
        BY <2>7, <3>3 DEF ConnectSucceeds
      <4>4. Service!ATransmit(cur[r])
        BY <1>0, <3>1, <4>1, <4>2, <4>3 DEF Service!ATransmit, Service!Budget
      <4> QED BY <1>0, <4>1, <4>4 DEF Service!ANext
    <3> QED BY <3>2, <3>3
  <2>8. CASE ConnectFails(r)
    BY <1>1, <2>8 DEF ConnectFails, wire
  <2>9. CASE GiveUp(r)
    <3>1. /\ UNCHANGED <<sends, execs>> /\ pc[r] = "reconnecting"
          /\ cause[r] \in {"request", "event", "end"}
      BY <2>9 DEF GiveUp, Known, TypeInv, CauseShape, TypeOK
    <3>2. CASE cause[r] = "request"
      <4>1. Finish(r, "failed")
        BY <2>9, <3>2 DEF GiveUp
      <4> QED BY <1>6, <2>0, <3>1, <3>2, <4>1 DEF Serving
    <3>3. CASE cause[r] = "event"
      BY <1>1, <2>9, <3>1, <3>3 DEF GiveUp
    <3>4. CASE cause[r] = "end"
      BY <1>5, <2>9, <3>1, <3>4 DEF GiveUp
    <3> QED BY <3>1, <3>2, <3>3, <3>4
  <2> QED
    BY <1>7, <2>1, <2>2, <2>3, <2>4, <2>5, <2>6, <2>7, <2>8, <2>9 DEF WorkerStep
<1>8. ASSUME NEW r \in Runtimes, Break(r) PROVE [Service!ANext]_Service!avars
  BY <1>1, <1>8 DEF Break
<1>9. ASSUME NEW r \in Runtimes, Execute(r) PROVE [Service!ANext]_Service!avars
  <2>1. /\ reply[r] = "sent" /\ UNCHANGED <<caller, sends>>
        /\ execs' = [execs EXCEPT ![cur[r]] = @ + 1]
    BY <1>9 DEF Execute
  <2>2. cur[r] \in Calls /\ execs[cur[r]] + limbo[cur[r]] < sends[cur[r]]
    BY <1>0, <2>1 DEF CallInv, Counts, ReplyShape, Replies, Known, ServingShape, Serving
  <2>3. execs[cur[r]] < sends[cur[r]]
    BY <1>0, <2>2
  <2>4. Service!AExecute(cur[r])
    BY <2>1, <2>3 DEF Service!AExecute
  <2> QED BY <1>0, <2>2, <2>4 DEF Service!ANext
<1>10. ASSUME NEW c \in Calls, ExecuteLate(c) PROVE [Service!ANext]_Service!avars
  <2>1. execs[c] < sends[c]
    BY <1>0, <1>10 DEF ExecuteLate, CallInv, Counts, Executions
  <2>2. Service!AExecute(c)
    BY <1>10, <2>1 DEF ExecuteLate, Service!AExecute
  <2> QED BY <1>0, <2>2 DEF Service!ANext
<1>11. CASE UNCHANGED vars
  BY <1>1, <1>11 DEF vars
<1> QED
  BY <1>2, <1>3, <1>4, <1>7, <1>8, <1>9, <1>10, <1>11 DEF Next, Owner

\* What request_client, notify, respond and reject promise (connection.rs:981-1176)
\* is kept by the workers (:1677-1844): a request is transmitted at most twice and
\* a one-way call at most once, a call settles once, a result was executed, and
\* Disconnected is told only of calls that were never transmitted.
THEOREM ServiceKept == Spec => ServiceRefined
<1>1. Init => QuietInv
  BY DEF Init, QuietInv, ServingShape, Serving, WaitingHeld, ExitedEmpty, ClosedExited
<1>2. TypeInv /\ QuietInv => Known
  BY DEF Known, QuietInv
<1>3. Init => Service!AInit
  BY DEF Init, Service!AInit, Service!Calls, Calls
<1> QED
  BY <1>1, <1>2, <1>3, TypeInit, TypeStep, QuietStep, CallInvInductive, StepRefines, PTL
     DEF Spec, ServiceRefined, Service!ASpec

-----------------------------------------------------------------------------
(* HealthDisplay: a replaced session is heard of at most once more. *)


\* A session that the map has not had yet has no reader.
Fresh(n) == n > opened \/ (n = opened /\ connect \in {"attaching", "inserting"})

FreshIsSilent ==
  \A n \in Sessions : Fresh(n) => reader[n] = "none" /\ extra[n] = 0 /\ current # n

\* Every word is preceded by a look of its own: a reader that has spoken too late has
\* not looked since, and the look that comes next ends it.
LateIsLast ==
  \A n \in Sessions :
    /\ current = n => extra[n] = 0
    /\ extra[n] = 0 \/ (extra[n] = 1 /\ reader[n] \in {"waiting", "top", "over"})

Numbers ==
  /\ opened \in Nat /\ current \in Nat
  /\ DOMAIN reader = Sessions /\ extra \in [Sessions -> Nat]

IInv == Numbers /\ FreshIsSilent /\ LateIsLast

\* In the beginning nobody has spoken.
LEMMA InitInv == HealthInit => IInv
BY DEF HealthInit, IInv, Numbers, FreshIsSilent, LateIsLast, Fresh, Sessions

\* Steps that leave the readers, the map and the connect alone.
LEMMA OthersKeep ==
  ASSUME IInv, UNCHANGED <<opened, current, reader, extra, connect>>
  PROVE  IInv'
BY DEF IInv, Numbers, FreshIsSilent, LateIsLast, Fresh

\* The five steps of a health reader.
LEMMA ReaderKeeps ==
  ASSUME IInv, NEW n \in Sessions, Reading(n)
  PROVE  IInv'
<1>1. CASE ReaderStarts(n)
  BY <1>1 DEF IInv, Numbers, FreshIsSilent, LateIsLast, Fresh, ReaderStarts, Move, Emit,
              coming, connecting, Sessions
<1>2. CASE ReaderChecks(n)
  BY <1>2 DEF IInv, Numbers, FreshIsSilent, LateIsLast, Fresh, ReaderChecks, Move,
              IsCurrent, connecting, Sessions
<1>3. CASE ReaderReads(n)
  BY <1>3 DEF IInv, Numbers, FreshIsSilent, LateIsLast, Fresh, ReaderReads, Move,
              connecting, Sessions
<1>4. CASE ReaderEmits(n)
  <2>1. reader[n] = "read" /\ extra[n] = 0
    BY <1>4 DEF ReaderEmits, IInv, LateIsLast
  <2> QED
    BY <1>4, <2>1 DEF IInv, Numbers, FreshIsSilent, LateIsLast, Fresh, ReaderEmits, Move,
                      Emit, connecting, Sessions
<1>5. CASE ReaderWakes(n)
  BY <1>5 DEF IInv, Numbers, FreshIsSilent, LateIsLast, Fresh, ReaderWakes, Move,
              connecting, Sessions
<1> QED
  BY <1>1, <1>2, <1>3, <1>4, <1>5 DEF Reading

\* The steps of a connect; the session it opens is fresh until it is inserted.
LEMMA ConnectKeeps ==
  ASSUME IInv, Prepare \/ Connecting
  PROVE  IInv'
<1>1. CASE Prepare
  BY <1>1 DEF IInv, Numbers, FreshIsSilent, LateIsLast, Fresh, Prepare, GateIsFree, readers,
              Sessions
<1>2. CASE SetProgress
  BY <1>2 DEF IInv, Numbers, FreshIsSilent, LateIsLast, Fresh, SetProgress, readers, Sessions
<1>3. CASE Replace
  BY <1>3 DEF IInv, Numbers, FreshIsSilent, LateIsLast, Fresh, Replace, readers, Sessions
<1>4. CASE DialFails
  BY <1>4 DEF IInv, Numbers, FreshIsSilent, LateIsLast, Fresh, DialFails, readers, Sessions
<1>5. CASE DialSucceeds
  BY <1>5 DEF IInv, Numbers, FreshIsSilent, LateIsLast, Fresh, DialSucceeds, readers,
              Sessions
<1>6. CASE Attach
  BY <1>6 DEF IInv, Numbers, FreshIsSilent, LateIsLast, Fresh, Attach, readers, Sessions
<1>7. CASE Insert
  BY <1>7 DEF IInv, Numbers, FreshIsSilent, LateIsLast, Fresh, Insert, Move, Sessions
<1>8. CASE EndConnect
  BY <1>8 DEF IInv, Numbers, FreshIsSilent, LateIsLast, Fresh, EndConnect, readers, Sessions
<1> QED
  BY <1>1, <1>2, <1>3, <1>4, <1>5, <1>6, <1>7, <1>8 DEF Connecting

\* A disconnect or a restart takes the session out of the map and nothing else.
LEMMA RemovalKeeps ==
  ASSUME IInv, NEW c \in Removals, Take(c) \/ Removing(c)
  PROVE  IInv'
<1>1. CASE Take(c)
  BY <1>1 DEF IInv, Numbers, FreshIsSilent, LateIsLast, Fresh, Take, readers, connecting,
              Sessions
<1>2. CASE Removing(c)
  BY <1>2, OthersKeep DEF Removing, RemoveServer, CloseTaken, readers, connecting
<1> QED
  BY <1>1, <1>2

\* One step of anybody.
LEMMA NextKeeps == IInv /\ [HealthNext]_healthVars => IInv'
<1> SUFFICES ASSUME IInv, [HealthNext]_healthVars PROVE IInv'
  OBVIOUS
<1>1. CASE Prepare \/ Connecting
  BY <1>1, ConnectKeeps
<1>2. ASSUME NEW n \in Sessions, WorkerLoses(n) \/ WorkerSettles(n) PROVE IInv'
  BY <1>2, OthersKeep DEF WorkerLoses, WorkerSettles, readers, connecting
<1>3. ASSUME NEW n \in Sessions, Reading(n) PROVE IInv'
  BY <1>3, ReaderKeeps
<1>4. CASE ApplyEvent \/ MissEvent
  BY <1>4, OthersKeep DEF ApplyEvent, MissEvent, readers, connecting
<1>5. ASSUME NEW c \in Removals, Take(c) \/ Removing(c) PROVE IInv'
  BY <1>5, RemovalKeeps
<1>6. ASSUME NEW r \in AppRequests, Ask(r) \/ Fail(r) \/ MarkDisconnected(r) PROVE IInv'
  BY <1>6, OthersKeep DEF Ask, Fail, MarkDisconnected, readers, connecting
<1>7. CASE UNCHANGED healthVars
  BY <1>7, OthersKeep DEF healthVars, readers, connecting
<1> QED
  BY <1>1, <1>2, <1>3, <1>4, <1>5, <1>6, <1>7 DEF HealthNext

\* However often sessions replace each other, and whoever removes them, the reader of
\* a session that is gone adds at most one event (spawn_health_reader).
THEOREM OldSessionsFallSilent == HealthSpec => []SpeaksOnceMore
<1>1. IInv => SpeaksOnceMore
  BY DEF IInv, LateIsLast, SpeaksOnceMore
<1> QED
  BY <1>1, InitInv, NextKeeps, PTL DEF HealthSpec

-----------------------------------------------------------------------------
(* The types of HealthDisplay. *)

\* Only a session that has been opened is inserted, read and spoken of.
HealthTypeInv ==
  /\ HealthTypeOK
  /\ connect \in {"preparing", "replacing", "dialing"} => opened < scenario.sessions
  /\ connect \in {"attaching", "inserting"} => opened # 0
  /\ \A n \in Sessions : reader[n] # "none" => n <= opened
  /\ \A i \in 1..Len(events) : events[i][1] <= opened

\* In the beginning.
LEMMA HealthTypeInit == HealthInit => HealthTypeInv
<1> SUFFICES ASSUME HealthInit PROVE HealthTypeInv
  OBVIOUS
<1>1. /\ opened \in 0..MaxSessions /\ current \in 0..opened /\ writer \in 0..opened
      /\ losses \in 0..scenario.losses /\ lags \in 0..scenario.lags
  BY HealthAssumption DEF HealthInit
<1>2. /\ taken \in [Removals -> 0..opened] /\ on \in [AppRequests -> 0..opened]
      /\ extra \in [Sessions -> Nat] /\ events \in Seq(Sessions \X Healths)
      /\ Len(events) = 0
  BY DEF HealthInit
<1> QED
  <2>1. connect = "idle" /\ \A n \in Sessions : reader[n] = "none"
    BY DEF HealthInit
  <2>2. HealthTypeOK
    BY <1>1, <1>2 DEF HealthInit, HealthTypeOK, Healths
  <2> QED
    BY <1>2, <2>1, <2>2 DEF HealthTypeInv

\* A scenario has its fields.
LEMMA ScenarioHas ==
  ASSUME scenario \in Scenarios
  PROVE  /\ scenario.losses \in Nat /\ scenario.lags \in Nat
         /\ scenario.sessions \in 0..MaxSessions /\ scenario.ssh \subseteq BOOLEAN
BY HealthAssumption

\* A reader that speaks adds one event, of its own session.
LEMMA EmitTypes ==
  ASSUME HealthTypeInv, NEW n \in Sessions, NEW h \in Healths, reader[n] # "none",
         Emit(n, h)
  PROVE  /\ extra' \in [Sessions -> Nat] /\ lags' = lags
         /\ events' \in Seq(Sessions \X Healths)
         /\ \A i \in 1..Len(events') : events'[i][1] <= opened
<1>1. extra' \in [Sessions -> Nat] /\ lags' = lags
  BY DEF Emit, HealthTypeInv, HealthTypeOK
<1>2. events \in Seq(Sessions \X Healths) /\ <<n, h>> \in Sessions \X Healths
  BY DEF HealthTypeInv, HealthTypeOK
<1>3. /\ events' \in Seq(Sessions \X Healths) /\ Len(events') = Len(events) + 1
      /\ \A i \in 1..Len(events) : events'[i] = events[i]
      /\ events'[Len(events) + 1] = <<n, h>>
  BY <1>2 DEF Emit
<1>4. n <= opened
  BY DEF HealthTypeInv
<1>5. ASSUME NEW i \in 1..Len(events') PROVE events'[i][1] <= opened
  <2>1. CASE i \in 1..Len(events)
    BY <1>3, <2>1 DEF HealthTypeInv
  <2>2. CASE i = Len(events) + 1
    BY <1>3, <1>4, <2>2
  <2> QED
    BY <1>2, <1>3, <1>5, <2>1, <2>2
<1> QED
  BY <1>1, <1>3, <1>5

\* A reader that goes on has begun.
LEMMA MoveTypes ==
  ASSUME HealthTypeInv, NEW n \in Sessions, reader[n] # "none",
         NEW stage \in {"start", "top", "checked", "read", "waiting", "over"},
         Move(n, stage)
  PROVE  /\ reader' \in [Sessions -> {"none", "start", "top", "checked", "read",
                                      "waiting", "over"}]
         /\ \A m \in Sessions : reader'[m] # "none" => m <= opened
BY DEF HealthTypeInv, HealthTypeOK, Move

\* The worker and the reader of a session.
LEMMA SessionTypes ==
  ASSUME HealthTypeInv, NEW n \in Sessions,
         WorkerLoses(n) \/ WorkerSettles(n) \/ Reading(n)
  PROVE  HealthTypeInv'
<1> USE DEF store, connecting, removing, asking
<1>1. CASE WorkerLoses(n)
  <2>1. losses' \in 0..scenario.losses
    BY <1>1, ScenarioHas DEF WorkerLoses, HealthTypeInv, HealthTypeOK
  <2> QED
    <3>1. /\ link_health' \in [Sessions -> Healths] /\ unread' \in [Sessions -> BOOLEAN]
          /\ runtime' \in [Sessions -> {"up", "reconnecting", "dead"}]
      BY <1>1 DEF WorkerLoses, Send, Healths, HealthTypeInv, HealthTypeOK
    <3> QED
      BY <1>1, <2>1, <3>1 DEF WorkerLoses, readers, coming, HealthTypeInv, HealthTypeOK
<1>2. CASE WorkerSettles(n)
  <2>1. /\ link_health' \in [Sessions -> Healths] /\ unread' \in [Sessions -> BOOLEAN]
        /\ runtime' \in [Sessions -> {"up", "reconnecting", "dead"}]
    BY <1>2 DEF WorkerSettles, Send, Healths, HealthTypeInv, HealthTypeOK
  <2> QED
    BY <1>2, <2>1 DEF WorkerSettles, readers, coming, HealthTypeInv, HealthTypeOK
<1>3. CASE ReaderStarts(n) /\ current = n
  <2>1. /\ extra' \in [Sessions -> Nat] /\ lags' = lags
        /\ events' \in Seq(Sessions \X Healths)
        /\ \A i \in 1..Len(events') : events'[i][1] <= opened
    BY <1>3, EmitTypes DEF ReaderStarts, Healths
  <2>2. /\ reader' \in [Sessions -> {"none", "start", "top", "checked", "read",
                                     "waiting", "over"}]
        /\ \A m \in Sessions : reader'[m] # "none" => m <= opened
    BY <1>3, MoveTypes DEF ReaderStarts
  <2> QED
    BY <1>3, <2>1, <2>2 DEF ReaderStarts, channel, HealthTypeInv, HealthTypeOK
<1>4. CASE ReaderStarts(n) /\ current # n
  <2>1. /\ reader' \in [Sessions -> {"none", "start", "top", "checked", "read",
                                     "waiting", "over"}]
        /\ \A m \in Sessions : reader'[m] # "none" => m <= opened
    BY <1>4, MoveTypes DEF ReaderStarts
  <2> QED
    BY <1>4, <2>1 DEF ReaderStarts, channel, coming, HealthTypeInv, HealthTypeOK
<1>5. CASE ReaderChecks(n)
  <2>1. /\ reader' \in [Sessions -> {"none", "start", "top", "checked", "read",
                                     "waiting", "over"}]
        /\ \A m \in Sessions : reader'[m] # "none" => m <= opened
    BY <1>5, MoveTypes DEF ReaderChecks
  <2> QED
    BY <1>5, <2>1 DEF ReaderChecks, channel, coming, HealthTypeInv, HealthTypeOK
<1>6. CASE ReaderReads(n)
  <2>1. /\ reader' \in [Sessions -> {"none", "start", "top", "checked", "read",
                                     "waiting", "over"}]
        /\ \A m \in Sessions : reader'[m] # "none" => m <= opened
    BY <1>6, MoveTypes DEF ReaderReads
  <2> QED
    BY <1>6, <2>1 DEF ReaderReads, channel, coming, HealthTypeInv, HealthTypeOK
<1>7. CASE ReaderEmits(n)
  <2>1. /\ extra' \in [Sessions -> Nat] /\ lags' = lags
        /\ events' \in Seq(Sessions \X Healths)
        /\ \A i \in 1..Len(events') : events'[i][1] <= opened
    <3>1. got[n] \in Healths
      BY DEF HealthTypeInv, HealthTypeOK
    <3> QED
      BY <1>7, <3>1, EmitTypes DEF ReaderEmits
  <2>2. /\ reader' \in [Sessions -> {"none", "start", "top", "checked", "read",
                                     "waiting", "over"}]
        /\ \A m \in Sessions : reader'[m] # "none" => m <= opened
    BY <1>7, MoveTypes DEF ReaderEmits
  <2> QED
    BY <1>7, <2>1, <2>2 DEF ReaderEmits, SeenAtEmit, HealthTypeInv, HealthTypeOK
<1>8. CASE ReaderWakes(n)
  <2>1. /\ reader' \in [Sessions -> {"none", "start", "top", "checked", "read",
                                     "waiting", "over"}]
        /\ \A m \in Sessions : reader'[m] # "none" => m <= opened
    BY <1>8, MoveTypes DEF ReaderWakes
  <2>2. unread' \in [Sessions -> BOOLEAN]
    BY <1>8 DEF ReaderWakes, HealthTypeInv, HealthTypeOK
  <2> QED
    BY <1>8, <2>1, <2>2 DEF ReaderWakes, coming, HealthTypeInv, HealthTypeOK
<1> QED
  BY <1>1, <1>2, <1>3, <1>4, <1>5, <1>6, <1>7, <1>8 DEF Reading

\* The store listener takes the event that comes first, or misses it.
LEMMA ListenerTypes ==
  ASSUME HealthTypeInv, ApplyEvent \/ MissEvent
  PROVE  HealthTypeInv'
<1>1. events \in Seq(Sessions \X Healths) /\ events # <<>> /\ events' = Tail(events)
  BY DEF ApplyEvent, MissEvent, HealthTypeInv, HealthTypeOK
<1>2. /\ events' \in Seq(Sessions \X Healths) /\ Len(events') = Len(events) - 1
      /\ \A i \in 1..Len(events') : events'[i] = events[i + 1] /\ i + 1 \in 1..Len(events)
      /\ Head(events) = events[1] /\ 1 \in 1..Len(events)
      /\ events[1] \in Sessions \X Healths
  BY <1>1
<1>3. \A i \in 1..Len(events') : events'[i][1] <= opened
  BY <1>2 DEF HealthTypeInv
<1>4. opened \in Nat
  BY HealthAssumption DEF HealthTypeInv, HealthTypeOK
<1>5. Head(events)[1] \in 0..opened /\ Head(events)[2] \in Healths
  BY <1>2, <1>4, HealthAssumption DEF HealthTypeInv, Sessions
<1>6. CASE ApplyEvent
  <2>1. shown' \in Healths \cup {"none"} /\ writer' \in 0..opened
    BY <1>4, <1>5, <1>6 DEF ApplyEvent, Healths, HealthTypeInv, HealthTypeOK
  <2> QED
    BY <1>2, <1>3, <1>6, <2>1
       DEF ApplyEvent, channel, readers, connecting, removing, asking, HealthTypeInv,
           HealthTypeOK
<1>7. CASE MissEvent
  <2>1. lags' \in 0..scenario.lags /\ writer' \in 0..opened
    BY <1>4, <1>7, ScenarioHas DEF MissEvent, HealthTypeInv, HealthTypeOK
  <2> QED
    BY <1>2, <1>3, <1>7, <2>1
       DEF MissEvent, channel, readers, connecting, removing, asking, HealthTypeInv,
           HealthTypeOK
<1> QED
  BY <1>6, <1>7

\* A connect.
LEMMA ConnectTypes ==
  ASSUME HealthTypeInv, Prepare \/ Connecting
  PROVE  HealthTypeInv'
<1> USE DEF HealthTypeInv, HealthTypeOK, Healths, readers, coming, removing, asking
<1>0. opened \in Nat /\ 0 \in 0..opened
  BY HealthAssumption
<1>1. CASE Prepare
  <2>1. by_ssh' \in BOOLEAN
    BY <1>1, ScenarioHas DEF Prepare
  <2>2. connect' \in {"preparing", "replacing"}
    BY <1>1 DEF Prepare
  <2> QED
    BY <1>0, <1>1, <2>1, <2>2 DEF Prepare, channel
<1>2. CASE SetProgress
  BY <1>2 DEF SetProgress, channel
<1>3. CASE Replace
  <2>1. link_health' \in [Sessions -> Healths] /\ unread' \in [Sessions -> BOOLEAN]
    BY <1>3 DEF Replace, channel, Send
  <2> QED
    BY <1>0, <1>3, <2>1 DEF Replace, store
<1>4. CASE DialFails
  <2>1. shown' \in Healths \cup {"none"} /\ writer' \in 0..opened
    BY <1>0, <1>4 DEF DialFails, Report
  <2>2. connect' \in {"ending", "idle"}
    BY <1>4 DEF DialFails
  <2> QED
    BY <1>4, <2>1, <2>2 DEF DialFails, channel
<1>5. CASE DialSucceeds
  <2>1. opened' = opened + 1 /\ 0..opened \subseteq 0..opened'
    BY <1>0, <1>5 DEF DialSucceeds
  <2>2. opened' <= MaxSessions
    BY <1>0, <1>5, <2>1, ScenarioHas, HealthAssumption DEF DialSucceeds
  <2> QED
    <3>1. /\ current' \in 0..opened' /\ writer' \in 0..opened' /\ opened' # 0
          /\ opened' \in 0..MaxSessions /\ connect' = "attaching"
      BY <1>0, <1>5, <2>1, <2>2 DEF DialSucceeds, store
    <3>2. /\ taken' \in [Removals -> 0..opened'] /\ on' \in [AppRequests -> 0..opened']
      BY <1>5, <2>1 DEF DialSucceeds
    <3>3. \A n \in Sessions : reader'[n] # "none" => n <= opened'
      BY <1>0, <1>5, <2>1 DEF DialSucceeds, Sessions
    <3>4. \A i \in 1..Len(events') : events'[i][1] <= opened'
      <4>1. ASSUME NEW i \in 1..Len(events) PROVE events[i][1] <= opened + 1
        <5>1. events[i] \in Sessions \X Healths
          OBVIOUS
        <5>2. events[i][1] \in Nat
          BY <5>1, HealthAssumption DEF Sessions
        <5>3. events[i][1] <= opened
          OBVIOUS
        <5> QED
          BY <1>0, <5>2, <5>3
      <4> QED
        BY <1>5, <2>1, <4>1 DEF DialSucceeds
    <3> QED
      BY <1>5, <3>1, <3>2, <3>3, <3>4 DEF DialSucceeds, channel, store
<1>6. CASE Attach
  <2>1. opened \in 0..opened
    BY <1>0
  <2> QED
    BY <1>6, <2>1 DEF Attach, channel
<1>7. CASE Insert
  <2>1. opened \in Sessions /\ current' \in 0..opened
    BY <1>0, <1>7, HealthAssumption DEF Insert, Sessions
  <2>2. /\ reader' \in [Sessions -> {"none", "start", "top", "checked", "read",
                                     "waiting", "over"}]
        /\ \A m \in Sessions : reader'[m] # "none" => m <= opened
    BY <1>0, <1>7, <2>1 DEF Insert, Move
  <2> QED
    BY <1>7, <2>1, <2>2 DEF Insert, channel, store
<1>8. CASE EndConnect
  BY <1>8 DEF EndConnect, channel
<1> QED
  BY <1>1, <1>2, <1>3, <1>4, <1>5, <1>6, <1>7, <1>8 DEF Connecting

\* Disconnects, restarts and requests.
LEMMA OutsideTypes ==
  ASSUME HealthTypeInv,
         \/ \E c \in Removals : Take(c) \/ Removing(c)
         \/ \E r \in AppRequests : Ask(r) \/ Fail(r) \/ MarkDisconnected(r)
  PROVE  HealthTypeInv'
<1> USE DEF HealthTypeInv, HealthTypeOK, Healths, readers, coming, connecting
<1>0. opened \in Nat /\ 0 \in 0..opened
  BY HealthAssumption
<1>1. ASSUME NEW c \in Removals, Take(c) PROVE HealthTypeInv'
  BY <1>0, <1>1 DEF Take, channel, store, asking
<1>2. ASSUME NEW c \in Removals, RemoveServer(c) PROVE HealthTypeInv'
  <2>1. removal' \in [Removals -> {"idle", "took", "removed", "done"}]
    BY <1>2 DEF RemoveServer
  <2> QED
    BY <1>0, <1>2, <2>1 DEF RemoveServer, Remove, channel, asking
<1>3. ASSUME NEW c \in Removals, CloseTaken(c) PROVE HealthTypeInv'
  <2>1. link_health' \in [Sessions -> Healths] /\ unread' \in [Sessions -> BOOLEAN]
    BY <1>3 DEF CloseTaken, channel, Send
  <2>2. removal' \in [Removals -> {"idle", "took", "removed", "done"}]
    BY <1>3 DEF CloseTaken
  <2> QED
    BY <1>3, <2>1, <2>2 DEF CloseTaken, store, asking
<1>4. ASSUME NEW r \in AppRequests, Ask(r) PROVE HealthTypeInv'
  BY <1>4 DEF Ask, channel, store, removing
<1>5. ASSUME NEW r \in AppRequests, Fail(r) PROVE HealthTypeInv'
  BY <1>5 DEF Fail, channel, store, removing
<1>6. ASSUME NEW r \in AppRequests, MarkDisconnected(r) PROVE HealthTypeInv'
  <2>1. shown' \in Healths \cup {"none"} /\ writer' \in 0..opened
    BY <1>0, <1>6 DEF MarkDisconnected, Report
  <2>2. request' \in [AppRequests -> {"idle", "sent", "failed", "over"}]
    BY <1>6 DEF MarkDisconnected
  <2> QED
    BY <1>6, <2>1, <2>2 DEF MarkDisconnected, channel, removing
<1> QED
  BY <1>1, <1>2, <1>3, <1>4, <1>5, <1>6 DEF Removing

\* Every step keeps the types.
LEMMA HealthTypeNext == HealthTypeInv /\ [HealthNext]_healthVars => HealthTypeInv'
<1>1. ASSUME HealthTypeInv, UNCHANGED healthVars PROVE HealthTypeInv'
  BY <1>1 DEF healthVars, HealthTypeInv, HealthTypeOK, channel, readers, coming, store,
     connecting, removing, asking
<1> QED
  BY <1>1, SessionTypes, ListenerTypes, ConnectTypes, OutsideTypes DEF HealthNext

\* The types of what the store shows and of those who write it.
THEOREM HealthTypeCorrect == HealthSpec => []HealthTypeOK
<1>1. HealthTypeInv => HealthTypeOK
  BY DEF HealthTypeInv
<1> QED
  BY <1>1, HealthTypeInit, HealthTypeNext, PTL DEF HealthSpec
=============================================================================
