--------------------------- MODULE Transports_proof ---------------------------
(***************************************************************************)
(* Theorems about the two transports that outlive their connections.       *)
(*                                                                         *)
(* IpcReconnect (Init, Next and Spec are its own): a recycled connection   *)
(* is gone, and handlers arrive, for any requests, handlers, limits and    *)
(* numbers of connections, losses and invalidations.                       *)
(*                                                                         *)
(* SlingshotStream, for any lines, segments, logs and lost connections:    *)
(* the relay still holds or gets every envelope of a line it has yet to    *)
(* take, in the order of the lines, whether it is on its way, held there   *)
(* or in the replay queue.  So what it hands over is the input of the      *)
(* abstract stream, and the close comes last.  On the way down, what is on *)
(* its way follows the cursor, and what has been delivered is complete     *)
(* behind it.                                                              *)
(***************************************************************************)
EXTENDS IpcReconnect, SlingshotStream, Retaining_proof

\* Steps of a connection and its tasks, and of a call.
ConnStep(n) == PeerCloses(n) \/ Reader(n) \/ Writer(n) \/ TasksEnd(n)
CallStep(r) == SendRequest(r) \/ Sending(r) \/ Answer(r)

\* What a connection leaves alone: it ends no call for good but by PendingRequests.
LEMMA ConnFrame ==
  ASSUME NEW n \in Conns, ConnStep(n)
  PROVE  /\ UNCHANGED <<scenario, slot, shown, handler, signals, invalidations, loop,
                        opened, aborted, registered, setters, owner, on, late>>
         /\ reading' \subseteq reading /\ peer' \subseteq peer
<1> USE DEF links, tasks, requests
<1>1. CASE PeerCloses(n)
  BY <1>1 DEF PeerCloses
<1>2. CASE ReadLoopEnds(n)
  BY <1>2 DEF ReadLoopEnds
<1>3. CASE DiscoveryComes(n)
  BY <1>3 DEF DiscoveryComes
<1>4. CASE DiscoveryAnswered(n)
  BY <1>4 DEF DiscoveryAnswered
<1>5. CASE WriteFrame(n)
  BY <1>5 DEF WriteFrame
<1>6. CASE WriteLoopEnds(n)
  BY <1>6 DEF WriteLoopEnds
<1>7. CASE TasksEnd(n)
  BY <1>7 DEF TasksEnd
<1> QED
  BY <1>1, <1>2, <1>3, <1>4, <1>5, <1>6, <1>7 DEF ConnStep, Reader, Writer

\* What a call leaves alone.
LEMMA CallFrame ==
  ASSUME NEW r \in Requests, CallStep(r)
  PROVE  UNCHANGED <<scenario, slot, shown, handler, signals, invalidations, loop,
                     opened, links, reading, answering, writing, aborted, deaf,
                     registered, setters, owner>>
BY DEF CallStep, SendRequest, Sending, Insert, IntoChannel, ChannelClosed, Answer,
   TimeOut, conns, tasks

\* Where the loop is says what it holds, and whether there is a client in the slot.
LoopHolds ==
  /\ pc = "watching" => current = slot
  /\ pc \in {"top", "clearing", "reporting_lost", "attempt", "waiting",
             "reporting_connected"} => current = 0
  /\ pc \in {"reporting_lost", "attempt", "waiting", "handshaking", "registering",
             "storing"} => slot = 0
  /\ pc = "clearing" => slot \notin Live

\* A connection that runs is in the slot or with the loop, unless its handshake failed.
InUse == \A n \in Live \cap peer : n \in {slot, current} \cup dropped

\* Connections are numbered as they are opened.
Numbered == opened \in Nat /\ reading \subseteq 1..opened

\* shutdown makes an end of it: only what comes before is of interest.
IInv == ~Aborted => LoopHolds /\ InUse /\ Numbered

\* In the beginning there is no connection.
LEMMA InitInv == Init => IInv
BY DEF Init, IInv, LoopHolds, InUse, Numbered, Live

\* The invariant says that nothing runs astray.
LEMMA InvImplies == IInv => NoStrays
BY DEF IInv, InUse, NoStrays, Held

\* shutdown is called once; nothing takes it back.
LEMMA AbortedStays == Aborted /\ [Next]_vars => Aborted'
<1> SUFFICES ASSUME Aborted, [Next]_vars PROVE stop' # "idle"
  BY DEF Aborted
<1>1. CASE UNCHANGED owner \/ UNCHANGED stop
  BY <1>1 DEF Aborted, owner
<1>2. CASE Shutdown \/ Stopping
  BY <1>2 DEF Shutdown, Stopping, ShutdownTakes, ShutdownDisconnects, ShutdownReports
<1>3. CASE UNCHANGED vars
  BY <1>1, <1>3 DEF vars, owner
<1>4. CASE Loop \/ Dial \/ Handshake
  BY <1>1, <1>4 DEF Loop, Dial, Handshake, TakeCurrent, SeeInvalidation, ClearSlot,
     ReportLost, BeginAttempt, Register, Store, ReportConnected, LoopCancelled,
     DialSucceeds, DialFails, HandshakeSucceeds, HandshakeFails
<1>5. ASSUME NEW n \in Conns, ConnStep(n) PROVE stop' # "idle"
  BY <1>1, <1>5, ConnFrame
<1>6. ASSUME NEW r \in Requests, CallStep(r) PROVE stop' # "idle"
  BY <1>1, <1>6, CallFrame
<1>7. ASSUME NEW s \in Setters, SetHandler(s) \/ Setting(s) PROVE stop' # "idle"
  BY <1>1, <1>7 DEF SetHandler, Setting, SetTakesClient, SetRegisters
<1>8. CASE Invalidate
  BY <1>1, <1>8 DEF Invalidate
<1> QED
  BY <1>2, <1>3, <1>4, <1>5, <1>6, <1>7, <1>8 DEF Next, ConnStep, CallStep

\* The loop, one step of it at a time.
LEMMA LoopKeeps ==
  ASSUME IInv, ~Aborted, ~Aborted', Loop \/ Dial \/ Handshake
  PROVE  LoopHolds' /\ InUse' /\ Numbered'
<1> USE DEF IInv, LoopHolds, InUse, Numbered, Goto, Live, conns, links, tasks
<1>1. CASE TakeCurrent
  BY <1>1 DEF TakeCurrent
<1>2. CASE SeeInvalidation
  BY <1>2 DEF SeeInvalidation, ForceDisconnect, Shut
<1>3. CASE ClearSlot
  BY <1>3 DEF ClearSlot
<1>4. CASE ReportLost
  BY <1>4 DEF ReportLost
<1>5. CASE BeginAttempt
  BY <1>5 DEF BeginAttempt
<1>6. CASE Register
  BY <1>6 DEF Register
<1>7. CASE Store
  BY <1>7 DEF Store
<1>8. CASE ReportConnected
  BY <1>8 DEF ReportConnected
<1>9. CASE LoopCancelled
  BY <1>9 DEF LoopCancelled
<1>10. CASE DialSucceeds
  BY <1>10 DEF DialSucceeds
<1>11. CASE DialFails
  BY <1>11 DEF DialFails
<1>12. CASE HandshakeSucceeds
  BY <1>12 DEF HandshakeSucceeds
<1>13. CASE HandshakeFails
  BY <1>13 DEF HandshakeFails
<1> QED
  BY <1>1, <1>2, <1>3, <1>4, <1>5, <1>6, <1>7, <1>8, <1>9, <1>10, <1>11, <1>12, <1>13
  DEF Loop, Dial, Handshake

\* The others open no connection and touch neither the slot nor the loop.
LEMMA OthersKeep ==
  ASSUME IInv, ~Aborted, UNCHANGED <<slot, loop, opened>>,
         UNCHANGED aborted, reading' \subseteq reading, peer' \subseteq peer
  PROVE  LoopHolds' /\ InUse' /\ Numbered'
BY DEF IInv, LoopHolds, InUse, Numbered, Live, loop

\* Every step keeps the invariant.
LEMMA NextKeeps == IInv /\ [Next]_vars => IInv'
<1> SUFFICES ASSUME IInv, [Next]_vars, ~Aborted, ~Aborted'
             PROVE  LoopHolds' /\ InUse' /\ Numbered'
  BY AbortedStays DEF IInv
<1>1. ASSUME NEW n \in Conns, ConnStep(n) PROVE LoopHolds' /\ InUse' /\ Numbered'
  BY <1>1, ConnFrame, OthersKeep
<1>2. ASSUME NEW r \in Requests, CallStep(r) PROVE LoopHolds' /\ InUse' /\ Numbered'
  BY <1>2, CallFrame, OthersKeep DEF links
<1>3. ASSUME NEW s \in Setters, SetHandler(s) \/ Setting(s)
      PROVE  LoopHolds' /\ InUse' /\ Numbered'
  BY <1>3, OthersKeep
     DEF SetHandler, Setting, SetTakesClient, SetRegisters, conns, links, tasks
<1>4. CASE Invalidate
  BY <1>4, OthersKeep DEF Invalidate, conns, links, tasks
<1>5. CASE Shutdown \/ Stopping
  BY <1>5 DEF Shutdown, Stopping, ShutdownTakes, ShutdownDisconnects, ShutdownReports,
     Aborted
<1>6. CASE UNCHANGED vars
  BY <1>6, OthersKeep DEF vars, conns, links, tasks
<1> QED
  BY <1>1, <1>2, <1>3, <1>4, <1>5, <1>6, LoopKeeps DEF Next, ConnStep, CallStep

\* However often the client is invalidated and the peer is lost, no connection stays
\* behind that nobody can reach.
THEOREM NothingStaysBehind == Spec => []NoStrays
BY InitInv, NextKeeps, InvImplies, PTL DEF Spec

-----------------------------------------------------------------------------
(* The handler of the client in the slot. *)

\* Connection n has a handler, or somebody will see to it.
Covered(n) ==
  \/ registered[n] # None
  \/ handler = None \/ overtaken
  \/ \E s \in Setters : setter[s] = "wrote" \/ (setter[s] = "took" /\ target[s] = n)

\* The inductive invariant of the handlers.
HandlerInv ==
  /\ DOMAIN registered = Conns /\ DOMAIN setter = Setters /\ DOMAIN target = Setters
  /\ scenario \in Scenarios
  /\ slot \in Conns \cup {0} /\ opened \in Nat
  /\ handler \in Setters \cup {None} /\ overtaken \in BOOLEAN
  /\ pc \in {"handshaking", "registering", "storing"} => current \in Conns
  /\ pc \in {"reporting_lost", "attempt", "waiting", "handshaking", "registering",
             "storing"} => slot = 0
  /\ \A s \in Setters : setter[s] = "took" => target[s] \in Conns
  /\ slot # 0 => Covered(slot)
  /\ pc = "storing" => Covered(current)

\* In the beginning there is no handler.
LEMMA HandlerInit == Init => HandlerInv
<1> SUFFICES ASSUME Init PROVE HandlerInv
  OBVIOUS
<1>1. scenario \in Scenarios /\ slot \in Conns \cup {0} /\ opened \in Nat
  BY IpcAssumption DEF Init, Conns
<1>2. handler = None /\ pc = "top" /\ overtaken = FALSE
  BY DEF Init
<1>3. /\ DOMAIN registered = Conns /\ DOMAIN setter = Setters /\ DOMAIN target = Setters
      /\ \A s \in Setters : setter[s] # "took"
  BY DEF Init
<1> QED
  BY <1>1, <1>2, <1>3 DEF HandlerInv, Covered

\* It says what is claimed.
LEMMA HandlerImplies == HandlerInv => HandlerIsRegistered
BY DEF HandlerInv, HandlerIsRegistered, Covered

\* The loop looks at the handler and stores the client.
LEMMA LoopCovers ==
  ASSUME HandlerInv, Loop \/ Dial \/ Handshake
  PROVE  HandlerInv'
<1> USE DEF HandlerInv, Covered, Goto, setters, conns
<1>1. CASE TakeCurrent
  BY <1>1 DEF TakeCurrent
<1>2. CASE SeeInvalidation
  BY <1>2 DEF SeeInvalidation
<1>3. CASE ClearSlot
  BY <1>3 DEF ClearSlot
<1>4. CASE ReportLost
  BY <1>4 DEF ReportLost
<1>5. CASE BeginAttempt
  BY <1>5 DEF BeginAttempt
<1>6. CASE Register
  BY <1>6 DEF Register, LatestHandler
<1>7. CASE Store
  BY <1>7 DEF Store
<1>8. CASE ReportConnected
  BY <1>8 DEF ReportConnected
<1>9. CASE LoopCancelled
  BY <1>9 DEF LoopCancelled
<1>10. CASE DialSucceeds
  <2>1. opened' = opened + 1 /\ current' = opened + 1 /\ opened < scenario.opens
    BY <1>10 DEF DialSucceeds
  <2>2. current' \in Conns /\ opened' \in Nat
    BY <2>1, IpcAssumption DEF Conns
  <2> QED
    BY <1>10, <2>2 DEF DialSucceeds
<1>11. CASE DialFails
  BY <1>11 DEF DialFails
<1>12. CASE HandshakeSucceeds
  BY <1>12 DEF HandshakeSucceeds
<1>13. CASE HandshakeFails
  BY <1>13 DEF HandshakeFails
<1> QED
  BY <1>1, <1>2, <1>3, <1>4, <1>5, <1>6, <1>7, <1>8, <1>9, <1>10, <1>11, <1>12, <1>13
  DEF Loop, Dial, Handshake

\* A handler is set: arrived, then registered at the client that was in the slot.
LEMMA SetterCovers ==
  ASSUME HandlerInv, NEW s \in Setters, SetHandler(s) \/ Setting(s)
  PROVE  HandlerInv'
<1> USE DEF HandlerInv, Covered
<1>1. CASE SetHandler(s)
  BY <1>1 DEF SetHandler, loop, conns
<1>2. CASE SetTakesClient(s)
  BY <1>2 DEF SetTakesClient, loop, conns
<1>3. CASE SetRegisters(s)
  <2>1. s # None
    BY IpcAssumption
  <2>2. /\ \A n \in Conns : registered'[n] = IF n = target[s] THEN s ELSE registered[n]
        /\ DOMAIN registered' = Conns
    BY <1>3 DEF SetRegisters
  <2>3. \A n \in Conns : Covered(n) => Covered(n)'
    BY <1>3, <2>1, <2>2 DEF SetRegisters
  <2> QED
    BY <1>3, <2>2, <2>3 DEF SetRegisters, loop
<1> QED
  BY <1>1, <1>2, <1>3 DEF Setting

\* Every step keeps the handlers covered.
LEMMA HandlerNext == HandlerInv /\ [Next]_vars => HandlerInv'
<1> SUFFICES ASSUME HandlerInv, [Next]_vars PROVE HandlerInv'
  OBVIOUS
<1>1. CASE UNCHANGED <<scenario, slot, handler, pc, current, opened, registered, setters>>
  BY <1>1 DEF HandlerInv, Covered, setters
<1>2. ASSUME NEW n \in Conns, ConnStep(n) PROVE HandlerInv'
  BY <1>1, <1>2, ConnFrame DEF loop
<1>3. ASSUME NEW r \in Requests, CallStep(r) PROVE HandlerInv'
  BY <1>1, <1>3, CallFrame DEF loop
<1>4. CASE Invalidate \/ Shutdown \/ ShutdownReports \/ ShutdownDisconnects
  BY <1>1, <1>4 DEF Invalidate, Shutdown, ShutdownReports, ShutdownDisconnects, loop, conns
<1>5. CASE ShutdownTakes
  BY <1>5 DEF ShutdownTakes, HandlerInv, Covered, loop, conns, setters
<1>6. CASE UNCHANGED vars
  BY <1>1, <1>6 DEF vars, loop, conns
<1> QED
  BY <1>2, <1>3, <1>4, <1>5, <1>6, LoopCovers, SetterCovers
  DEF Next, Stopping, ConnStep, CallStep

\* A handler that is set while the client is replaced, lost or shut down reaches the
\* client in the slot, unless it comes between the loop's look and its store.
THEOREM HandlersArrive == Spec => []HandlerIsRegistered
BY HandlerInit, HandlerNext, HandlerImplies, PTL DEF Spec

-----------------------------------------------------------------------------
(* The types of IpcReconnect, and who waits. *)

\* While it watches, the loop holds a client; a shutdown that disconnects, too.
LoopHoldsOne ==
  /\ pc = "watching" => current # 0
  /\ stop = "disconnecting" => stopped # 0

LEMMA HoldsInit == Init => LoopHoldsOne
BY DEF Init, LoopHoldsOne

LEMMA HoldsNext == LoopHoldsOne /\ [Next]_vars => LoopHoldsOne'
<1> SUFFICES ASSUME LoopHoldsOne, [Next]_vars PROVE LoopHoldsOne'
  OBVIOUS
<1> USE DEF LoopHoldsOne
<1>1. CASE UNCHANGED <<loop, owner>>
  BY <1>1 DEF loop, owner
<1>2. CASE Loop \/ Dial \/ Handshake
  BY <1>2 DEF Loop, Dial, Handshake, TakeCurrent, SeeInvalidation, ClearSlot, ReportLost,
     BeginAttempt, Register, Store, ReportConnected, LoopCancelled, DialSucceeds,
     DialFails, HandshakeSucceeds, HandshakeFails, Goto, owner
<1>3. CASE Shutdown \/ Stopping
  BY <1>3 DEF Shutdown, Stopping, ShutdownTakes, ShutdownDisconnects, ShutdownReports, loop
<1>4. ASSUME NEW n \in Conns, ConnStep(n) PROVE LoopHoldsOne'
  BY <1>1, <1>4, ConnFrame
<1>5. ASSUME NEW r \in Requests, CallStep(r) PROVE LoopHoldsOne'
  BY <1>1, <1>5, CallFrame
<1>6. ASSUME NEW s \in Setters, SetHandler(s) \/ Setting(s) PROVE LoopHoldsOne'
  BY <1>1, <1>6 DEF SetHandler, Setting, SetTakesClient, SetRegisters
<1>7. CASE Invalidate
  BY <1>1, <1>7 DEF Invalidate
<1>8. CASE UNCHANGED vars
  BY <1>1, <1>8 DEF vars
<1> QED
  BY <1>2, <1>3, <1>4, <1>5, <1>6, <1>7, <1>8 DEF Next, ConnStep, CallStep

\* The loop shakes hands with a connection it has opened.
IpcTypeInv == TypeOK /\ (pc = "handshaking" => current # 0)

CallStates == {"idle", "cloned", "sending", "waiting", "answered", "not_connected",
               "timeout", "closed"}

\* Faults are of three kinds.
ScenarioFaults == scenario.faults \subseteq {"gone", "stalled", "cut"}

\* What a scenario says.
LEMMA ScenarioIs ==
  ASSUME scenario \in Scenarios
  PROVE  scenario.opens \in 1..MaxConns /\ scenario.opens \in Nat /\ max_attempts \in Nat
BY IpcAssumption DEF max_attempts

\* In the beginning.
LEMMA IpcTypeInit == Init => IpcTypeInv
<1> SUFFICES ASSUME Init PROVE IpcTypeInv
  OBVIOUS
<1>1. opened \in 0..scenario.opens /\ slot \in 0..opened
  BY ScenarioIs DEF Init
<1>2. peer \subseteq 1..opened /\ reading \subseteq 1..opened /\ writing \subseteq 1..opened
  BY DEF Init
<1>3. current \in 0..opened /\ stopped \in 0..opened
  BY <1>1 DEF Init
<1>4. /\ on \in [Requests -> 0..opened] /\ target \in [Setters -> 0..opened]
      /\ signals \in 0..invalidations /\ invalidations \in 0..MaxInvalidations
      /\ attempt \in Nat /\ (max_attempts # 0 => attempt <= max_attempts)
  BY <1>1, ScenarioIs, IpcAssumption DEF Init
<1>5. /\ losses \in 0..MaxLosses
      /\ outbox \in [Conns -> Seq(Requests \cup {Finder})]
      /\ \A n \in Conns : Len(outbox[n]) <= Capacity
  BY IpcAssumption DEF Init
<1> QED
  BY <1>1, <1>2, <1>3, <1>4, <1>5 DEF Init, IpcTypeInv, TypeOK

\* Who shuts a connection keeps the types.
LEMMA ShutTypes ==
  ASSUME TypeOK, NEW n \in 0..opened, n # 0, Shut(n)
  PROVE  /\ request' \in [Requests -> CallStates] /\ pending' \subseteq Requests
         /\ aborted' \subseteq 1..opened
<1>1. n \in 1..opened
  BY ScenarioIs DEF TypeOK
<1> QED
  BY <1>1 DEF Shut, ClearPending, CallStates, TypeOK

\* The loop.
LEMMA LoopTypes ==
  ASSUME IpcTypeInv, LoopHoldsOne, Loop \/ Dial \/ Handshake
  PROVE  IpcTypeInv'
<1> USE DEF IpcTypeInv, TypeOK, Goto, conns, links, tasks, setters, requests, owner,
            max_attempts
<1>0. opened \in Nat /\ scenario.opens \in Nat /\ scenario.max_attempts \in Nat
  BY ScenarioIs
<1>1. CASE TakeCurrent
  BY <1>1 DEF TakeCurrent
<1>2. CASE SeeInvalidation
  <2>1. signals' \in 0..invalidations
    BY <1>2 DEF SeeInvalidation
  <2>2. /\ request' \in [Requests -> CallStates] /\ pending' \subseteq Requests
        /\ aborted' \subseteq 1..opened
    BY <1>2, ShutTypes DEF SeeInvalidation, ForceDisconnect, LoopHoldsOne
  <2>3. current' \in 0..opened
    BY <1>0, <1>2 DEF SeeInvalidation
  <2> QED
    BY <1>2, <2>1, <2>2, <2>3 DEF SeeInvalidation, CallStates
<1>3. CASE ClearSlot
  BY <1>0, <1>3 DEF ClearSlot
<1>4. CASE ReportLost
  <2>1. attempt' \in Nat /\ (max_attempts # 0 => attempt' <= max_attempts)
    BY <1>0, <1>4 DEF ReportLost
  <2> QED
    BY <1>4, <2>1 DEF ReportLost
<1>5. CASE BeginAttempt
  <2>1. attempt' \in Nat /\ (max_attempts # 0 => attempt' <= max_attempts)
    BY <1>0, <1>5 DEF BeginAttempt, AttemptsLeft
  <2> QED
    BY <1>5, <2>1 DEF BeginAttempt
<1>6. CASE Register
  BY <1>6 DEF Register, LatestHandler
<1>7. CASE Store
  <2>1. slot' \in 0..opened /\ current' \in 0..opened
    BY <1>0, <1>7 DEF Store
  <2> QED
    BY <1>7, <2>1 DEF Store
<1>8. CASE ReportConnected
  BY <1>8 DEF ReportConnected, KeepSignals
<1>9. CASE LoopCancelled
  <2>1. dropped' \subseteq 1..opened /\ current' \in 0..opened
    BY <1>0, <1>9 DEF LoopCancelled
  <2> QED
    BY <1>9, <2>1 DEF LoopCancelled
<1>10. CASE DialSucceeds
  <2>1. opened' = opened + 1 /\ opened' \in 0..scenario.opens
    BY <1>0, <1>10 DEF DialSucceeds
  <2>2. 0..opened \subseteq 0..opened' /\ 1..opened \subseteq 1..opened'
    BY <1>0, <2>1
  <2>3. /\ slot' \in 0..opened' /\ current' \in 0..opened' /\ current' # 0
        /\ dropped' \subseteq 1..opened' /\ stopped' \in 0..opened'
        /\ aborted' \subseteq 1..opened' /\ deaf' \subseteq 1..opened'
    BY <1>0, <1>10, <2>1, <2>2 DEF DialSucceeds
  <2>4. /\ peer' \subseteq 1..opened' /\ reading' \subseteq 1..opened'
        /\ writing' \subseteq 1..opened' /\ answering' \subseteq reading'
    BY <1>0, <1>10, <2>1, <2>2 DEF DialSucceeds
  <2>5. target' \in [Setters -> 0..opened'] /\ on' \in [Requests -> 0..opened']
    BY <1>10, <2>2 DEF DialSucceeds
  <2> QED
    BY <1>10, <2>1, <2>3, <2>4, <2>5 DEF DialSucceeds
<1>11. CASE DialFails
  BY <1>11 DEF DialFails
<1>12. CASE HandshakeSucceeds
  BY <1>12 DEF HandshakeSucceeds
<1>13. CASE HandshakeFails
  <2>1. dropped' \subseteq 1..opened /\ current' \in 0..opened
    BY <1>0, <1>13 DEF HandshakeFails
  <2> QED
    BY <1>13, <2>1 DEF HandshakeFails
<1> QED
  BY <1>1, <1>2, <1>3, <1>4, <1>5, <1>6, <1>7, <1>8, <1>9, <1>10, <1>11, <1>12, <1>13
  DEF Loop, Dial, Handshake

\* A connection and its tasks.
LEMMA ConnTypes ==
  ASSUME IpcTypeInv, NEW n \in Conns, ConnStep(n)
  PROVE  IpcTypeInv'
<1> USE DEF IpcTypeInv, TypeOK
<1>1. SUFFICES
        /\ link' \in [Conns -> {"open", "stalled", "cut"}] /\ losses' \in 0..MaxLosses
        /\ answering' \subseteq reading' /\ writing' \subseteq 1..opened
        /\ outbox' \in [Conns -> Seq(Requests \cup {Finder})]
        /\ \A m \in Conns : Len(outbox'[m]) <= Capacity
        /\ deaf' \subseteq 1..opened
        /\ request' \in [Requests -> CallStates]
        /\ pending' \subseteq Requests /\ arrived' \subseteq Requests
  <2>1. /\ UNCHANGED <<scenario, slot, shown, handler, signals, invalidations, opened,
                       aborted, registered, setter, target, overtaken, on, late, pc,
                       current, attempt, dropped, stop, stopped>>
        /\ reading' \subseteq reading /\ peer' \subseteq peer
    BY ConnFrame DEF loop, setters, owner
  <2>2. max_attempts' = max_attempts
    BY <2>1 DEF max_attempts
  <2>3. reading' \subseteq 1..opened /\ peer' \subseteq 1..opened
    BY <2>1
  <2>4. ( /\ scenario \in Scenarios
          /\ slot \in 0..opened /\ shown \in BOOLEAN
          /\ handler \in Setters \cup {None}
          /\ signals \in 0..invalidations /\ invalidations \in 0..MaxInvalidations
          /\ pc \in {"top", "watching", "clearing", "reporting_lost", "attempt", "waiting",
                     "handshaking", "registering", "storing", "reporting_connected",
                     "cancelled", "gave_up"}
          /\ current \in 0..opened
          /\ dropped \subseteq 1..opened
          /\ attempt \in Nat /\ (max_attempts # 0 => attempt <= max_attempts)
          /\ opened \in 0..scenario.opens )'
    BY <2>1, <2>2
  <2>5. ( /\ aborted \subseteq 1..opened
          /\ registered \in [Conns -> Setters \cup {None}]
          /\ setter \in [Setters -> {"idle", "wrote", "took", "done"}]
          /\ target \in [Setters -> 0..opened] /\ overtaken \in BOOLEAN
          /\ on \in [Requests -> 0..opened] /\ late \subseteq Requests
          /\ stop \in {"idle", "aborting", "disconnecting", "reporting", "done"}
          /\ stopped \in 0..opened )'
    BY <2>1
  <2>6. deaf' \subseteq 1..opened' /\ writing' \subseteq 1..opened'
    BY <1>1, <2>1
  <2>7. reading' \subseteq 1..opened' /\ peer' \subseteq 1..opened'
    BY <2>1, <2>3
  <2>8. TypeOK'
    BY <1>1, <2>4, <2>5, <2>6, <2>7 DEF CallStates
  <2> QED
    BY <2>1, <2>8 DEF IpcTypeInv
<1>2. request \in [Requests -> CallStates]
  BY DEF CallStates
<1>3. <<>> \in Seq(Requests \cup {Finder}) /\ Len(<<>>) = 0 /\ Capacity \in Nat
  <2>1. Capacity \in Nat
    BY IpcAssumption
  <2> QED
    BY <2>1, EmptySeq
<1>4. CASE PeerCloses(n)
  <2>1. ScenarioFaults
    BY IpcAssumption DEF ScenarioFaults
  <2>2. link' \in [Conns -> {"open", "stalled", "cut"}] /\ losses' \in 0..MaxLosses
    BY <1>4, <2>1, IpcAssumption DEF PeerCloses, ScenarioFaults
  <2> QED
    BY <1>2, <1>4, <2>2 DEF PeerCloses, tasks, requests
<1>5. CASE ReadLoopEnds(n)
  <2>1. request' \in [Requests -> CallStates] /\ pending' \subseteq Requests
    BY <1>2, <1>5 DEF ReadLoopEnds, ClearPending, CallStates
  <2>2. answering' \subseteq reading'
    BY <1>5 DEF ReadLoopEnds
  <2> QED
    BY <1>5, <2>1, <2>2 DEF ReadLoopEnds, links
<1>6. CASE DiscoveryComes(n)
  BY <1>2, <1>6 DEF DiscoveryComes, links, requests
<1>7. CASE DiscoveryAnswered(n)
  <2>1. /\ outbox' \in [Conns -> Seq(Requests \cup {Finder})]
        /\ \A m \in Conns : Len(outbox'[m]) <= Capacity
    <3>1. CASE UNCHANGED outbox
      BY <3>1
    <3>2. CASE HasRoom(n) /\ outbox' = [outbox EXCEPT ![n] = Append(@, Finder)]
      <4>1. outbox[n] \in Seq(Requests \cup {Finder})
        OBVIOUS
      <4>2. /\ Append(outbox[n], Finder) \in Seq(Requests \cup {Finder})
            /\ Len(Append(outbox[n], Finder)) = Len(outbox[n]) + 1 /\ Len(outbox[n]) \in Nat
        BY <4>1
      <4>3. Len(Append(outbox[n], Finder)) <= Capacity
        BY <1>3, <3>2, <4>2 DEF HasRoom
      <4> QED
        BY <3>2, <4>2, <4>3
    <3> QED
      BY <1>7, <3>1, <3>2 DEF DiscoveryAnswered
  <2>2. answering' \subseteq reading' /\ deaf' \subseteq 1..opened
    BY <1>7 DEF DiscoveryAnswered
  <2> QED
    BY <1>2, <1>7, <2>1, <2>2 DEF DiscoveryAnswered, links, requests
<1>8. CASE WriteFrame(n)
  <2>1. outbox[n] \in Seq(Requests \cup {Finder}) /\ outbox[n] # <<>>
    BY <1>8 DEF WriteFrame
  <2>2. /\ Tail(outbox[n]) \in Seq(Requests \cup {Finder})
        /\ Len(Tail(outbox[n])) = Len(outbox[n]) - 1 /\ Len(outbox[n]) \in Nat
    BY <2>1
  <2>3. /\ outbox' \in [Conns -> Seq(Requests \cup {Finder})]
        /\ \A m \in Conns : Len(outbox'[m]) <= Capacity
    BY <1>3, <1>8, <2>2 DEF WriteFrame
  <2> QED
    BY <1>2, <1>8, <2>3 DEF WriteFrame, links
<1>9. CASE WriteLoopEnds(n) \/ TasksEnd(n)
  <2>1. /\ outbox' \in [Conns -> Seq(Requests \cup {Finder})]
        /\ \A m \in Conns : Len(outbox'[m]) <= Capacity
    <3>1. outbox' = [outbox EXCEPT ![n] = <<>>] /\ 0 <= Capacity
      BY <1>3, <1>9 DEF WriteLoopEnds, TasksEnd
    <3> QED
      BY <1>3, <3>1
  <2>2. answering' \subseteq reading' /\ writing' \subseteq 1..opened
    BY <1>9 DEF WriteLoopEnds, TasksEnd
  <2> QED
    BY <1>2, <1>9, <2>1, <2>2 DEF WriteLoopEnds, TasksEnd, links, requests
<1> QED
  BY <1>4, <1>5, <1>6, <1>7, <1>8, <1>9 DEF ConnStep, Reader, Writer

\* A call.
LEMMA CallTypes ==
  ASSUME IpcTypeInv, NEW r \in Requests, CallStep(r)
  PROVE  IpcTypeInv'
<1> USE DEF IpcTypeInv, TypeOK
<1>1. SUFFICES
        /\ outbox' \in [Conns -> Seq(Requests \cup {Finder})]
        /\ \A m \in Conns : Len(outbox'[m]) <= Capacity
        /\ request' \in [Requests -> CallStates] /\ on' \in [Requests -> 0..opened]
        /\ pending' \subseteq Requests /\ arrived' \subseteq Requests
        /\ late' \subseteq Requests
  <2>1. /\ UNCHANGED <<scenario, slot, shown, handler, signals, invalidations, opened,
                       peer, link, losses, reading, answering, writing, aborted, deaf,
                       registered, setter, target, overtaken, pc, current, attempt,
                       dropped, stop, stopped>>
    BY CallFrame DEF loop, links, setters, owner
  <2>2. max_attempts' = max_attempts
    BY <2>1 DEF max_attempts
  <2> HIDE DEF IpcTypeInv, TypeOK
  <2>3. TypeOK'
    BY <1>1, <2>1, <2>2 DEF IpcTypeInv, TypeOK, CallStates
  <2> QED
    BY <2>1, <2>3 DEF IpcTypeInv
<1>2. request \in [Requests -> CallStates]
  BY DEF CallStates
<1>3. CASE IntoChannel(r)
  <2>1. CASE on[r] \notin Conns
    BY <1>2, <1>3, <2>1 DEF IntoChannel, CallStates
  <2>2. CASE on[r] \in Conns
    <3>1. outbox[on[r]] \in Seq(Requests \cup {Finder}) /\ Capacity \in Nat
      BY <2>2, IpcAssumption
    <3>2. /\ Append(outbox[on[r]], r) \in Seq(Requests \cup {Finder})
          /\ Len(Append(outbox[on[r]], r)) = Len(outbox[on[r]]) + 1
          /\ Len(outbox[on[r]]) \in Nat
      BY <3>1
    <3>3. Len(Append(outbox[on[r]], r)) <= Capacity
      BY <1>3, <3>1, <3>2 DEF IntoChannel, HasRoom
    <3>4. /\ outbox' \in [Conns -> Seq(Requests \cup {Finder})]
          /\ \A m \in Conns : Len(outbox'[m]) <= Capacity
      BY <1>3, <3>2, <3>3 DEF IntoChannel
    <3> QED
      BY <1>2, <1>3, <3>4 DEF IntoChannel, CallStates
  <2> QED
    BY <2>1, <2>2
<1>4. CASE SendRequest(r)
  <2>1. request' \in [Requests -> CallStates] /\ on' \in [Requests -> 0..opened]
    BY <1>2, <1>4 DEF SendRequest, CallStates
  <2> QED
    BY <1>4, <2>1 DEF SendRequest, conns, tasks
<1>6. CASE Insert(r)
  <2>1. request' \in [Requests -> CallStates]
    BY <1>2, <1>6 DEF Insert, CallStates
  <2>2. pending' \subseteq Requests /\ late' \subseteq Requests
    BY <1>6 DEF Insert
  <2> QED
    BY <1>6, <2>1, <2>2 DEF Insert, conns, tasks
<1>5. CASE ChannelClosed(r) \/ Answer(r) \/ TimeOut(r)
  BY <1>2, <1>5 DEF ChannelClosed, Answer, TimeOut, CallStates, conns, tasks
<1> QED
  BY <1>3, <1>4, <1>5, <1>6 DEF CallStep, Sending

\* Who sets a handler or invalidates the client.
LEMMA CallerTypes ==
  ASSUME IpcTypeInv, (\E s \in Setters : SetHandler(s) \/ Setting(s)) \/ Invalidate
  PROVE  IpcTypeInv'
<1> USE DEF IpcTypeInv, TypeOK, loop, owner, links, tasks, requests, max_attempts
<1>1. ASSUME NEW s \in Setters, SetHandler(s) PROVE IpcTypeInv'
  BY <1>1 DEF SetHandler, conns
<1>2. ASSUME NEW s \in Setters, SetTakesClient(s) PROVE IpcTypeInv'
  BY <1>2 DEF SetTakesClient, conns
<1>3. ASSUME NEW s \in Setters, SetRegisters(s) PROVE IpcTypeInv'
  <2>1. registered' \in [Conns -> Setters \cup {None}]
    BY <1>3 DEF SetRegisters
  <2>2. setter' \in [Setters -> {"idle", "wrote", "took", "done"}]
    BY <1>3 DEF SetRegisters
  <2> QED
    BY <1>3, <2>1, <2>2 DEF SetRegisters
<1>4. CASE Invalidate
  <2>1. signals' \in 0..invalidations' /\ invalidations' \in 0..MaxInvalidations
    BY <1>4, IpcAssumption DEF Invalidate
  <2> QED
    BY <1>4, <2>1 DEF Invalidate, conns, setters
<1> QED
  BY <1>1, <1>2, <1>3, <1>4 DEF Setting

\* Every step keeps the types.
LEMMA IpcTypeNext == IpcTypeInv /\ LoopHoldsOne /\ [Next]_vars => IpcTypeInv'
<1> SUFFICES ASSUME IpcTypeInv, LoopHoldsOne, [Next]_vars PROVE IpcTypeInv'
  OBVIOUS
<1>0. opened \in Nat
  BY ScenarioIs DEF IpcTypeInv, TypeOK
<1>1. CASE Shutdown
  BY <1>1 DEF Shutdown, IpcTypeInv, TypeOK, loop, conns, links, tasks, setters, requests,
     max_attempts
<1>2. CASE ShutdownTakes
  BY <1>0, <1>2 DEF ShutdownTakes, IpcTypeInv, TypeOK, loop, conns, links, tasks, setters,
     requests, max_attempts
<1>3. CASE ShutdownDisconnects
  <2>1. /\ request' \in [Requests -> CallStates] /\ pending' \subseteq Requests
        /\ aborted' \subseteq 1..opened
    <3>1. CASE Shut(stopped)
      BY <1>3, <3>1, ShutTypes DEF ShutdownDisconnects, LoopHoldsOne, IpcTypeInv, TypeOK
    <3>2. CASE UNCHANGED <<aborted, request, pending>>
      BY <3>2 DEF IpcTypeInv, TypeOK, CallStates
    <3> QED
      BY <1>3, <3>1, <3>2 DEF ShutdownDisconnects
  <2>2. stopped' \in 0..opened
    BY <1>0, <1>3 DEF ShutdownDisconnects
  <2> QED
    BY <1>3, <2>1, <2>2
       DEF ShutdownDisconnects, IpcTypeInv, TypeOK, CallStates, loop, links, setters,
           max_attempts
<1>4. CASE ShutdownReports
  BY <1>4 DEF ShutdownReports, IpcTypeInv, TypeOK, loop, conns, links, tasks, setters,
     requests, max_attempts
<1>5. CASE UNCHANGED vars
  BY <1>5 DEF vars, IpcTypeInv, TypeOK, loop, conns, links, tasks, setters, requests,
     owner, max_attempts
<1> QED
  BY <1>1, <1>2, <1>3, <1>4, <1>5, LoopTypes, ConnTypes, CallTypes, CallerTypes
  DEF Next, Stopping, ConnStep, CallStep

\* The types of the client, its connections and its callers.
THEOREM IpcTypeCorrect == Spec => []TypeOK
<1>1. IpcTypeInv => TypeOK
  BY DEF IpcTypeInv
<1> QED
  BY <1>1, IpcTypeInit, IpcTypeNext, HoldsInit, HoldsNext, PTL DEF Spec

\* A request that is on its way or waits, and that nobody cleared, is on a connection
\* that is read and was not shut, unless it came too late or the reader could not answer.
Expected(r) ==
  request[r] \in {"sending", "waiting"} /\ r \in pending \ late
    => on[r] \in Live \cup (deaf \ aborted)

TellInv ==
  \A r \in Requests : Expected(r) /\ (request[r] = "waiting" => r \in pending)

\* Whoever clears the requests of a connection answers those who wait on it.
LEMMA EndTells ==
  ASSUME TypeOK, TellInv, NEW n, ClearPending(n), UNCHANGED <<on, late, deaf>>,
         reading \ {n} \subseteq reading', aborted' \subseteq aborted \cup {n}
  PROVE  TellInv'
BY DEF TypeOK, TellInv, Expected, Live, ClearPending

\* A connection and its tasks: only the end of the read loop ends a call.
LEMMA ConnTells ==
  ASSUME TypeOK, TellInv, NEW n \in Conns, ConnStep(n)
  PROVE  TellInv'
<1>1. CASE ReadLoopEnds(n)
  BY <1>1, EndTells DEF ReadLoopEnds
<1>2. CASE DiscoveryAnswered(n)
  BY <1>2 DEF DiscoveryAnswered, TellInv, Expected, Live, requests
<1>3. CASE TasksEnd(n)
  BY <1>3 DEF TasksEnd, TellInv, Expected, Live, requests
<1>4. CASE PeerCloses(n) \/ DiscoveryComes(n) \/ WriteFrame(n) \/ WriteLoopEnds(n)
  BY <1>4 DEF PeerCloses, DiscoveryComes, WriteFrame, WriteLoopEnds, TellInv, Expected, Live,
     requests, tasks
<1> QED
  BY <1>1, <1>2, <1>3, <1>4 DEF ConnStep, Reader, Writer

\* A call.
LEMMA CallTells ==
  ASSUME TypeOK, TellInv, NEW r \in Requests, CallStep(r)
  PROVE  TellInv'
<1> USE DEF TypeOK, TellInv, Expected, Live
<1>0. UNCHANGED <<reading, aborted, deaf>>
  BY CallFrame
<1>1. CASE SendRequest(r)
  BY <1>0, <1>1 DEF SendRequest
<1>2. CASE Insert(r)
  BY <1>0, <1>2 DEF Insert
<1>3. CASE IntoChannel(r)
  BY <1>0, <1>3 DEF IntoChannel
<1>4. CASE ChannelClosed(r) \/ Answer(r) \/ TimeOut(r)
  BY <1>0, <1>4 DEF ChannelClosed, Answer, TimeOut
<1> QED
  BY <1>1, <1>2, <1>3, <1>4 DEF CallStep, Sending

\* Every step keeps it.
LEMMA TellNext == TypeOK /\ TellInv /\ [Next]_vars => TellInv'
<1> SUFFICES ASSUME TypeOK, TellInv, [Next]_vars PROVE TellInv'
  OBVIOUS
<1>1. ASSUME UNCHANGED <<requests, deaf, aborted>>, reading \subseteq reading'
      PROVE  TellInv'
  BY <1>1 DEF TellInv, Expected, Live, requests
<1>2. ASSUME NEW s \in Setters, SetHandler(s) \/ Setting(s) PROVE TellInv'
  BY <1>1, <1>2 DEF SetHandler, Setting, SetTakesClient, SetRegisters, conns, tasks
<1>3. CASE SeeInvalidation
  BY <1>3, EndTells DEF SeeInvalidation, ForceDisconnect, Shut
<1>4. CASE Loop /\ ~SeeInvalidation
  BY <1>1, <1>4 DEF Loop, TakeCurrent, ClearSlot, ReportLost, BeginAttempt, Register,
     Store, ReportConnected, LoopCancelled, conns, tasks
<1>5. CASE Dial \/ Handshake
  BY <1>1, <1>5 DEF Dial, Handshake, DialSucceeds, DialFails, HandshakeSucceeds,
     HandshakeFails, conns, tasks
<1>6. CASE ShutdownDisconnects
  <2>1. CASE Shut(stopped)
    BY <1>6, <2>1, EndTells DEF ShutdownDisconnects, Shut
  <2>2. CASE UNCHANGED <<aborted, request, pending>>
    BY <1>1, <1>6, <2>2 DEF ShutdownDisconnects, requests
  <2> QED
    BY <1>6, <2>1, <2>2 DEF ShutdownDisconnects
<1>7. CASE Invalidate \/ Shutdown \/ ShutdownTakes \/ ShutdownReports
  BY <1>1, <1>7 DEF Invalidate, Shutdown, ShutdownTakes, ShutdownReports, conns, tasks
<1>8. CASE UNCHANGED vars
  BY <1>1, <1>8 DEF vars, conns, tasks
<1> QED
  BY <1>2, <1>3, <1>4, <1>5, <1>6, <1>7, <1>8, ConnTells, CallTells
  DEF Next, Stopping, ConnStep, CallStep

\* Those who wait are told as soon as their connection ends, whoever ends it and in
\* whatever state the loop, the reader and the channel are (read_loop, shutdown_ref):
\* the safety part of RequestsSettle.  Not so those who came after the end, and those
\* whose reader ended at an answer it could not send.
THEOREM WaitersAreTold == Spec => [](\A r \in Requests : ToldAtOnce(r))
<1>1. Init => TellInv
  BY DEF Init, TellInv, Expected
<1>2. TellInv => \A r \in Requests : ToldAtOnce(r)
  BY DEF TellInv, Expected, ToldAtOnce
<1> QED
  BY <1>1, <1>2, TellNext, IpcTypeCorrect, PTL DEF Spec

-----------------------------------------------------------------------------
(* SlingshotStream *)

\* An envelope of a line that has been handled; of a line that is cut the last is missing.
Fits(l, i) ==
  l \in Handled /\ i \in 1..Segments[l] /\ (l \in cut => i # Segments[l])

\* client_closed, the last thing that is sent.
IsClose(e) == e.seg = 0 /\ e.seq = written + 1 /\ task = "ended"

\* The loop numbers the lines, and the relay takes none that has not been handled.
Counted ==
  /\ next_sequence_id <= written + 1 \/ (next_sequence_id = written + 2 /\ task = "ended")
  /\ cut \subseteq Handled /\ taken <= LastHandled

\* What is on its way or kept is of lines that have been handled; only the close is not.
Fitting ==
  /\ \A p \in 1..Len(wire_replay_queue) :
       Fits(wire_replay_queue[p].seq, wire_replay_queue[p].seg)
  /\ \A p \in 1..Len(up) : Fits(up[p].seq, up[p].seg) \/ IsClose(up[p])
  /\ \A h \in held : Fits(h[1], h[2])
  /\ (\E p \in 1..Len(up) : IsClose(up[p])) \/ closed
       => next_sequence_id = written + 2 /\ task = "ended"

\* Lines the relay should still get.
Due(l) == l \in Handled /\ Whole(l) /\ l > taken

\* The envelope i of line l is among the first k of s.
In(l, i, s, k) == \E r \in 1..k : s[r].seq = l /\ s[r].seg = i

\* Before the first envelope on its way of a line come all those of the lines before it,
\* unless the relay holds them.
AheadUp ==
  \A p \in 1..Len(up), l \in Lines :
    Due(l) /\ l < up[p].seq =>
      \A i \in 1..Segments[l] : <<l, i>> \in held \/ In(l, i, up, p - 1)

\* While a connection is open, what the relay lacks is on its way.
SentOnline ==
  task = "online" =>
    \A l \in Lines : Due(l) =>
      \A i \in 1..Segments[l] : <<l, i>> \in held \/ In(l, i, up, Len(up))

\* The replay queue is in the order of the lines
AheadKept ==
  \A p \in 1..Len(wire_replay_queue), l \in Lines :
    Due(l) /\ l < wire_replay_queue[p].seq =>
      \A i \in 1..Segments[l] : In(l, i, wire_replay_queue, p - 1)

\* and has all the relay should still get.
DueKept ==
  \A l \in Lines : Due(l) =>
    \A i \in 1..Segments[l] : In(l, i, wire_replay_queue, Len(wire_replay_queue))

\* The relay has taken a line when it holds all of it.
HeldInPart == \A l \in Lines : Due(l) => \E i \in 1..Segments[l] : <<l, i>> \notin held

\* What is acknowledged is taken, and what comes back is in the log.
AcksTaken ==
  \A p \in 1..Len(down) : IF down[p].ack THEN down[p].id <= taken
                          ELSE down[p].id \in 1..Len(server_log)

\* The first n lines; those of them that are carried; what the relay has handed over.
UpTo(n) == [l \in 1..n |-> l]
WholeLines == {l \in Lines : Whole(l)}
AcceptedSoFar == accepted = Retain(UpTo(taken), WholeLines)

\* How the lines are carried.
Carried == AheadUp /\ SentOnline /\ AheadKept /\ DueKept /\ HeldInPart /\ AcceptedSoFar

\* The inductive invariant of the stream.
StreamInv == StreamTypeOK /\ Counted /\ Fitting /\ Carried /\ AcksTaken

-----------------------------------------------------------------------------

\* What the prover needs to know of the types.
LEMMA StreamTypes ==
  ASSUME StreamTypeOK
  PROVE  /\ MaxLines \in Nat /\ Segments \in [Lines -> Nat] /\ Lines = 1..MaxLines
         /\ written \in 0..MaxLines /\ next_sequence_id \in Nat \ {0} /\ taken \in Nat
         /\ wire_replay_queue \in Seq(Envelopes) /\ up \in Seq(Envelopes)
         /\ Len(up) \in Nat /\ Len(wire_replay_queue) \in Nat /\ Len(down) \in Nat
         /\ down \in Seq(Acks)
         /\ \A p \in 1..Len(up) : up[p].seq \in Nat \ {0} /\ up[p].seg \in Nat
         /\ \A p \in 1..Len(wire_replay_queue) :
              wire_replay_queue[p].seq \in Nat \ {0} /\ wire_replay_queue[p].seg \in Nat
         /\ LastHandled \in Nat /\ LastHandled <= MaxLines
<1>1. MaxLines \in Nat /\ Segments \in [Lines -> Nat] /\ Lines = 1..MaxLines
  BY SlingshotAssumption DEF Lines
<1>2. /\ written \in 0..MaxLines /\ taken \in 0..MaxLines
      /\ next_sequence_id \in 1..(written + IF task = "ended" THEN 2 ELSE 1)
      /\ wire_replay_queue \in Seq(Envelopes) /\ up \in Seq(Envelopes) /\ down \in Seq(Acks)
  BY DEF StreamTypeOK
<1>3. written \in 0..MaxLines /\ next_sequence_id \in Nat \ {0} /\ taken \in Nat
  BY <1>1, <1>2
<1>4. LastHandled \in Nat /\ LastHandled <= MaxLines
  BY <1>1, <1>3 DEF LastHandled
<1>5. /\ \A p \in 1..Len(up) : up[p].seq \in Nat \ {0} /\ up[p].seg \in Nat
      /\ \A p \in 1..Len(wire_replay_queue) :
           wire_replay_queue[p].seq \in Nat \ {0} /\ wire_replay_queue[p].seg \in Nat
  <2>1. /\ \A p \in 1..Len(up) : up[p] \in Envelopes
        /\ \A p \in 1..Len(wire_replay_queue) : wire_replay_queue[p] \in Envelopes
    BY <1>2
  <2>2. \A e \in Envelopes : e.seq \in Nat \ {0} /\ e.seg \in Nat
    BY DEF Envelopes
  <2> QED BY <2>1, <2>2
<1> QED BY <1>1, <1>2, <1>3, <1>4, <1>5

\* Steps that leave the envelopes, the relay and the numbers alone.
LEMMA QuietKeeps ==
  ASSUME StreamTypeOK, Counted, Fitting, Carried,
         UNCHANGED <<next_sequence_id, wire_replay_queue, cut, up, relay>>,
         \/ written' = written
         \/ written' = written + 1 /\ task # "ended",
         task' = "online" => task = "online", task = "ended" => task' = "ended"
  PROVE  Counted' /\ Fitting' /\ Carried'
<1>0. /\ written \in Nat /\ next_sequence_id \in Nat
      /\ next_sequence_id <= written + 1 \/ (next_sequence_id = written + 2 /\ task = "ended")
  BY StreamTypes DEF Counted
<1>a. UNCHANGED <<next_sequence_id, wire_replay_queue, cut, up, taken, held, accepted, closed>>
  BY DEF relay
<1>1. LastHandled' = LastHandled
  <2>1. CASE written' = written
    BY <1>a, <2>1 DEF LastHandled
  <2>2. CASE written' = written + 1 /\ next_sequence_id <= written + 1
    <3>1. CASE next_sequence_id <= written
      BY <1>0, <1>a, <2>2, <3>1 DEF LastHandled
    <3>2. CASE next_sequence_id = written + 1
      BY <1>0, <1>a, <2>2, <3>2 DEF LastHandled
    <3> QED BY <1>0, <2>2, <3>1, <3>2
  <2> QED BY <1>0, <2>1, <2>2
<1>2. Handled' = Handled /\ (\A l : Whole(l)' <=> Whole(l)) /\ taken' = taken /\ held' = held
      /\ accepted' = accepted /\ closed' = closed
  BY <1>1 DEF Handled, Whole, relay
<1>3. \A l, i : Fits(l, i)' <=> Fits(l, i)
  BY <1>2 DEF Fits
<1>4. \A l : Due(l)' <=> Due(l)
  BY <1>2 DEF Due
<1>5. Counted'
  BY <1>0, <1>1, <1>2 DEF Counted
<1>6. Fitting'
  <2>1. CASE written' = written
    <3>1. \A p \in 1..Len(up) : IsClose(up[p]) => IsClose(up[p])'
      BY <1>a, <2>1 DEF IsClose
    <3>2. \A p \in 1..Len(up) : IsClose(up[p])' => task' = "ended" /\ up[p].seg = 0
      BY <1>a DEF IsClose
    <3>3. \A p \in 1..Len(up) : Fits(up[p].seq, up[p].seg) => up[p].seg # 0
      BY DEF Fits
    <3>4. \A p \in 1..Len(up) : up[p].seg = 0 => IsClose(up[p])
      BY <3>3 DEF Fitting
    <3>5. (\E p \in 1..Len(up) : IsClose(up[p])') \/ closed
            => next_sequence_id = written + 2 /\ task' = "ended"
      BY <3>2, <3>4 DEF Fitting
    <3>6. /\ \A p \in 1..Len(wire_replay_queue) :
              Fits(wire_replay_queue[p].seq, wire_replay_queue[p].seg)'
          /\ \A p \in 1..Len(up) : Fits(up[p].seq, up[p].seg)' \/ IsClose(up[p])'
          /\ \A h \in held : Fits(h[1], h[2])'
      BY <1>a, <1>3, <3>1 DEF Fitting
    <3> QED BY <1>a, <2>1, <3>5, <3>6 DEF Fitting
  <2>2. CASE task # "ended"
    <3>1. ~closed /\ \A p \in 1..Len(up) : ~IsClose(up[p])
      BY <2>2 DEF Fitting
    <3>2. \A p \in 1..Len(up) : Fits(up[p].seq, up[p].seg)
      BY <3>1 DEF Fitting
    <3>3. \A p \in 1..Len(up) : Fits(up[p].seq, up[p].seg)' /\ up[p].seg # 0
      BY <1>3, <1>a, <3>2 DEF Fits
    <3> QED BY <1>a, <1>3, <3>1, <3>3 DEF Fitting, IsClose
  <2> QED BY <2>1, <2>2
<1>7. Carried'
  <2>1. AheadUp' /\ SentOnline'
    BY <1>a, <1>4 DEF Carried, AheadUp, SentOnline, In
  <2>2. AheadKept' /\ DueKept'
    BY <1>a, <1>4 DEF Carried, AheadKept, DueKept, In
  <2>3. HeldInPart' /\ AcceptedSoFar'
    BY <1>2, <1>4 DEF Carried, HeldInPart, AcceptedSoFar, WholeLines
  <2> QED BY <2>1, <2>2, <2>3 DEF Carried
<1> QED BY <1>5, <1>6, <1>7

\* A connection is opened: what was kept is sent again.
LEMMA ConnectKeeps ==
  ASSUME StreamInv, NEW k \in 0..Len(Replay), Connect(k)
  PROVE  Counted' /\ Fitting' /\ Carried'
<1>0. /\ UNCHANGED <<written, next_sequence_id, wire_replay_queue, cut, taken, held, accepted, closed>>
      /\ k \in 0..Len(wire_replay_queue)
      /\ up' = SubSeq(wire_replay_queue, 1, k)
      /\ task = "offline" /\ task' # "ended" /\ (task' = "online" => k = Len(wire_replay_queue))
  BY DEF Connect, app, state, relay, Replay, Lost, Offline
<1>1. /\ Len(up') = k /\ \A p \in 1..Len(up') : up'[p] = wire_replay_queue[p]
      /\ Len(wire_replay_queue) \in Nat
  BY <1>0, StreamTypes DEF StreamInv
<1>2. /\ LastHandled' = LastHandled /\ Handled' = Handled /\ (\A l : Whole(l)' <=> Whole(l))
      /\ (\A l : Due(l)' <=> Due(l)) /\ (\A l, i : Fits(l, i)' <=> Fits(l, i))
  BY <1>0 DEF LastHandled, Handled, Whole, Due, Fits
<1>3. Counted'
  BY <1>0, <1>2 DEF StreamInv, Counted
<1>4. Fitting'
  <2>1. \A p \in 1..Len(up') : Fits(up'[p].seq, up'[p].seg) /\ p \in 1..Len(wire_replay_queue)
    BY <1>0, <1>1 DEF StreamInv, Fitting
  <2>2. \A p \in 1..Len(up') : up'[p].seg # 0
    BY <2>1 DEF Fits
  <2>3. ~closed
    BY <1>0 DEF StreamInv, Fitting
  <2> QED BY <1>0, <1>2, <2>1, <2>2, <2>3 DEF StreamInv, Fitting, IsClose
<1>5. \A l, i : \A n \in 0..k : In(l, i, wire_replay_queue, n) => In(l, i, up', n)
  BY <1>0, <1>1 DEF In
<1>6. AheadUp'
  <2> SUFFICES ASSUME NEW p \in 1..Len(up'), NEW l \in Lines, Due(l), l < up'[p].seq,
                      NEW i \in 1..Segments[l]
               PROVE  In(l, i, up', p - 1)
    BY <1>2 DEF AheadUp
  <2>1. p \in 1..Len(wire_replay_queue) /\ p - 1 \in 0..k /\ l < wire_replay_queue[p].seq
    BY <1>0, <1>1
  <2>2. In(l, i, wire_replay_queue, p - 1)
    BY <2>1 DEF StreamInv, Carried, AheadKept
  <2> QED BY <1>5, <2>1, <2>2
<1>7. SentOnline'
  <2> SUFFICES ASSUME task' = "online", NEW l \in Lines, Due(l), NEW i \in 1..Segments[l]
               PROVE  In(l, i, up', Len(up'))
    BY <1>2 DEF SentOnline
  <2>1. In(l, i, wire_replay_queue, k) /\ k \in 0..k
    BY <1>0, <1>1 DEF StreamInv, Carried, DueKept
  <2> QED BY <1>1, <1>5, <2>1
<1>8. AheadKept' /\ DueKept' /\ HeldInPart' /\ AcceptedSoFar'
  <2>1. AheadKept' /\ DueKept'
    BY <1>0, <1>2 DEF StreamInv, Carried, AheadKept, DueKept, In
  <2>2. HeldInPart' /\ AcceptedSoFar'
    BY <1>0, <1>2 DEF StreamInv, Carried, HeldInPart, AcceptedSoFar, WholeLines
  <2> QED BY <2>1, <2>2
<1> QED BY <1>3, <1>4, <1>6, <1>7, <1>8 DEF Carried

\* The envelopes of a line come at the end.
AddsSplit(r, s, id, n) == r = s \o Split(id, n)

\* What PushBack leaves in a queue.
LEMMA SplitIs ==
  ASSUME NEW id \in Nat \ {0}, NEW n \in Nat, NEW s \in Seq(Envelopes), NEW r,
         AddsSplit(r, s, id, n)
  PROVE  /\ r \in Seq(Envelopes) /\ Len(r) = Len(s) + n
         /\ \A p \in 1..Len(s) : r[p] = s[p]
         /\ \A p \in (Len(s) + 1)..(Len(s) + n) : r[p].seq = id /\ r[p].seg = p - Len(s)
<1> DEFINE e(i) == [seq |-> id, seg |-> i]
           t == Split(id, n)
<1>1. \A i \in 1..n : e(i) \in Envelopes
  BY DEF Envelopes
<1>2. t = [i \in 1..n |-> e(i)]
  BY DEF Split
<1> HIDE DEF e, t
<1>3. t \in Seq(Envelopes) /\ Len(t) = n /\ \A i \in 1..n : t[i] = e(i)
  BY <1>1, <1>2
<1>a. r = s \o t
  BY DEF t, AddsSplit
<1>4. /\ r \in Seq(Envelopes) /\ Len(s) \in Nat
      /\ Len(r) = Len(s) + Len(t)
      /\ \A i \in 1..(Len(s) + Len(t)) : r[i] = IF i <= Len(s) THEN s[i] ELSE t[i - Len(s)]
  <2>1. t \in Seq(Envelopes) /\ Len(s) \in Nat /\ Len(t) \in Nat
    BY <1>3
  <2>2. s \o t \in Seq(Envelopes)
    BY <2>1
  <2>3. Len(s \o t) = Len(s) + Len(t)
    BY <2>1
  <2>4. \A i \in 1..(Len(s) + Len(t)) : (s \o t)[i] = IF i <= Len(s) THEN s[i] ELSE t[i - Len(s)]
    BY <2>1
  <2> QED BY <1>a, <2>1, <2>2, <2>3, <2>4
<1>5. \A p \in 1..Len(s) : r[p] = s[p]
  BY <1>3, <1>4
<1>6. ASSUME NEW p \in (Len(s) + 1)..(Len(s) + n)
      PROVE  r[p].seq = id /\ r[p].seg = p - Len(s)
  <2>1. p - Len(s) \in 1..n /\ p \in 1..(Len(s) + Len(t)) /\ ~(p <= Len(s))
    BY <1>3, <1>4
  <2>2. r[p] = t[p - Len(s)] /\ t[p - Len(s)] = e(p - Len(s))
    BY <1>3, <1>4, <2>1
  <2> QED BY <2>2 DEF e
<1> QED BY <1>3, <1>4, <1>5, <1>6

\* What is in a part of a sequence is in more of it.
LEMMA InMore ==
  ASSUME NEW l, NEW i, NEW s, NEW t, NEW k \in Nat, NEW m \in Nat, k <= m,
         \A p \in 1..k : t[p] = s[p], In(l, i, s, k)
  PROVE  In(l, i, t, m)
<1>1. PICK r \in 1..k : s[r].seq = l /\ s[r].seg = i
  BY DEF In
<1>2. r \in 1..m /\ t[r] = s[r]
  BY <1>1
<1> QED BY <1>1, <1>2 DEF In

\* The first n lines, one by one.
LEMMA UpToIs ==
  ASSUME NEW n \in Nat
  PROVE  UpTo(n) \in Seq(Nat) /\ Len(UpTo(n)) = n /\ \A i \in 1..n : UpTo(n)[i] = i
BY DEF UpTo

\* The next line is handled: it is split, kept and sent, as far as the connection holds.
LEMMA OutboundKeeps ==
  ASSUME StreamInv, NEW sent \in Nat, HandleOutboundBytes(sent)
  PROVE  Counted' /\ Fitting' /\ Carried'
<1>l. PICK line : line = next_sequence_id
  OBVIOUS
<1> DEFINE n == Segments[line]
           kept == IF sent < n THEN sent + 1 ELSE sent
           q == wire_replay_queue
<1>t. /\ Lines = 1..MaxLines /\ MaxLines \in Nat /\ Segments \in [Lines -> Nat]
      /\ written \in 0..MaxLines /\ line \in Nat \ {0} /\ taken \in Nat
      /\ q \in Seq(Envelopes) /\ up \in Seq(Envelopes)
      /\ Len(up) \in Nat /\ Len(q) \in Nat
      /\ \A p \in 1..Len(up) : up[p].seq \in Nat \ {0}
      /\ \A p \in 1..Len(q) : q[p].seq \in Nat \ {0}
  BY <1>l, StreamTypes DEF StreamInv
<1>0. /\ task = "online" /\ line <= written /\ sent <= n
      /\ cut' = IF sent + 1 < n THEN cut \cup {line} ELSE cut
      /\ next_sequence_id' = line + 1
      /\ q' = q \o Split(line, kept) /\ up' = up \o Split(line, sent)
      /\ UNCHANGED <<written, taken, held, accepted, closed>>
      /\ task' = "online" => sent = n
      /\ task' # "ended"
  BY <1>l DEF HandleOutboundBytes, NextId, PushBack, KeptBeforeSend, app, relay, Lost, Offline
<1>1. line \in Lines /\ n \in Nat /\ kept \in Nat /\ kept <= n /\ sent <= kept
  BY <1>t, <1>0
<1>2. /\ LastHandled = line - 1 /\ LastHandled' = line
      /\ Handled = 1..(line - 1) /\ Handled' = 1..line
  BY <1>l, <1>t, <1>0 DEF LastHandled, Handled
<1>3. line \notin cut /\ cut \subseteq Handled /\ taken <= line - 1
  BY <1>t, <1>2 DEF StreamInv, Counted
<1>4. /\ Len(q') = Len(q) + kept /\ (\A p \in 1..Len(q) : q'[p] = q[p])
      /\ \A p \in (Len(q) + 1)..(Len(q) + kept) : q'[p].seq = line /\ q'[p].seg = p - Len(q)
  <2>1. q \in Seq(Envelopes) /\ line \in Nat \ {0} /\ kept \in Nat /\ q' = q \o Split(line, kept)
    BY <1>t, <1>0, <1>1
  <2> HIDE DEF q, kept
  <2>2. PICK u : u = q'
    OBVIOUS
  <2>3. /\ Len(u) = Len(q) + kept /\ (\A p \in 1..Len(q) : u[p] = q[p])
        /\ \A p \in (Len(q) + 1)..(Len(q) + kept) : u[p].seq = line /\ u[p].seg = p - Len(q)
    <3> HIDE DEF n
    <3>1. AddsSplit(u, q, line, kept)
      BY <2>1, <2>2 DEF AddsSplit
    <3> QED BY <2>1, <3>1, SplitIs
  <2> QED BY <2>2, <2>3
<1>5. /\ Len(up') = Len(up) + sent /\ (\A p \in 1..Len(up) : up'[p] = up[p])
      /\ \A p \in (Len(up) + 1)..(Len(up) + sent) : up'[p].seq = line /\ up'[p].seg = p - Len(up)
  <2>1. up \in Seq(Envelopes) /\ line \in Nat \ {0} /\ sent \in Nat /\ up' = up \o Split(line, sent)
    BY <1>t, <1>0, <1>1
  <2>2. PICK u : u = up'
    OBVIOUS
  <2>3. /\ Len(u) = Len(up) + sent /\ (\A p \in 1..Len(up) : u[p] = up[p])
        /\ \A p \in (Len(up) + 1)..(Len(up) + sent) : u[p].seq = line /\ u[p].seg = p - Len(up)
    <3> HIDE DEF n
    <3>1. AddsSplit(u, up, line, sent)
      BY <2>1, <2>2 DEF AddsSplit
    <3> QED BY <2>1, <3>1, SplitIs
  <2> QED BY <2>2, <2>3
<1> HIDE DEF kept
<1> DEFINE FitsNow(l, i) ==
      l \in Handled' /\ i \in 1..Segments[l] /\ (l \in cut' => i # Segments[l])
<1>k. kept = IF sent < n THEN sent + 1 ELSE sent
  BY DEF kept
<1>6. ASSUME NEW l, l # line PROVE l \in cut' <=> l \in cut
  BY <1>0, <1>6
<1>7. ASSUME NEW l \in Handled
      PROVE  /\ l \in Lines /\ l < line /\ l \in Handled'
             /\ Due(l)' <=> Due(l)
             /\ \A i : FitsNow(l, i) <=> Fits(l, i)
  <2>1. l \in Lines /\ l < line /\ l \in Handled' /\ l # line
    <3>1. line \in 1..MaxLines /\ MaxLines \in Nat /\ Lines = 1..MaxLines
      BY <1>t, <1>1
    <3>2. l \in 1..(line - 1) /\ Handled' = 1..line
      BY <1>2, <1>7
    <3> QED BY <3>1, <3>2
  <2> QED BY <1>0, <1>6, <2>1 DEF Due, Fits, Whole
<1>8. ASSUME NEW l \in Lines, Due(l)' PROVE l = line \/ (Due(l) /\ l \in Handled)
  <2>1. l \in Handled \/ l = line
    BY <1>t, <1>2, <1>8 DEF Due
  <2> QED BY <1>7, <1>8, <2>1
<1>9. ASSUME NEW j \in 1..kept PROVE FitsNow(line, j)
  <2>1. line \in Handled' /\ j \in 1..n
    BY <1>t, <1>1, <1>2
  <2>2. line \in cut' => j # n
    BY <1>0, <1>1, <1>3, <1>k
  <2> QED BY <2>1, <2>2
<1>10. \A p \in 1..Len(up) : Fits(up[p].seq, up[p].seg) /\ up[p].seq \in Handled
  <2>1. \A p \in 1..Len(up) : ~IsClose(up[p])
    BY <1>0 DEF IsClose
  <2> QED BY <2>1 DEF StreamInv, Fitting, Fits
<1>11. \A p \in 1..Len(q) : Fits(q[p].seq, q[p].seg) /\ q[p].seq \in Handled
  BY DEF StreamInv, Fitting, Fits
<1>12. Counted'
  <2>1. line \in Nat \ {0} /\ 1..(line - 1) \subseteq 1..line /\ line \in 1..line
    BY <1>t
  <2>2. cut' \subseteq Handled'
    BY <1>0, <1>2, <1>3, <2>1
  <2>3. taken' <= LastHandled'
    BY <1>t, <1>0, <1>2, <1>3
  <2>4. next_sequence_id' <= written' + 1
    BY <1>t, <1>0
  <2> QED BY <2>2, <2>3, <2>4 DEF Counted
<1>13. Fitting'
  <2>1. ASSUME NEW p \in 1..Len(q') PROVE FitsNow(q'[p].seq, q'[p].seg)
    <3>1. CASE p \in 1..Len(q)
      BY <1>4, <1>7, <1>11, <3>1
    <3>2. CASE p \in (Len(q) + 1)..(Len(q) + kept)
      <4>1. p - Len(q) \in 1..kept
        BY <1>t, <1>1, <3>2
      <4> QED BY <1>4, <1>9, <3>2, <4>1
    <3> QED BY <1>t, <1>1, <1>4, <2>1, <3>1, <3>2
  <2>2. ASSUME NEW p \in 1..Len(up') PROVE FitsNow(up'[p].seq, up'[p].seg)
    <3>1. CASE p \in 1..Len(up)
      BY <1>5, <1>7, <1>10, <3>1
    <3>2. CASE p \in (Len(up) + 1)..(Len(up) + sent)
      <4>1. p - Len(up) \in 1..kept
        BY <1>t, <1>1, <3>2
      <4> QED BY <1>5, <1>9, <3>2, <4>1
    <3> QED BY <1>t, <1>1, <1>5, <2>2, <3>1, <3>2
  <2>3. \A h \in held : FitsNow(h[1], h[2])
    <3>1. \A h \in held : Fits(h[1], h[2]) /\ h[1] \in Handled
      BY DEF StreamInv, Fitting, Fits
    <3> QED BY <1>7, <3>1
  <2>4. ~closed
    BY <1>0 DEF StreamInv, Fitting
  <2> QED BY <1>0, <2>1, <2>2, <2>3, <2>4 DEF Fitting, Fits, IsClose
<1>14. AheadUp'
  <2> SUFFICES ASSUME NEW p \in 1..Len(up'), NEW l \in Lines, Due(l)', l < up'[p].seq,
                      NEW i \in 1..Segments[l], <<l, i>> \notin held
               PROVE  In(l, i, up', p - 1)
    BY <1>0 DEF AheadUp
  <2>1. CASE p \in 1..Len(up)
    <3>1. up[p].seq \in Handled /\ up'[p] = up[p]
      BY <1>5, <1>10, <2>1
    <3>2. l # line
      <4>1. up[p].seq < line /\ up[p].seq \in Nat
        <5>1. up[p].seq < line
          BY <1>7, <3>1
        <5>2. up[p].seq \in Nat
          BY <1>t, <2>1
        <5> QED BY <5>1, <5>2
      <4>2. l \in Nat /\ line \in Nat
        BY <1>t, <1>0
      <4> QED BY <3>1, <4>1, <4>2
    <3>3. Due(l)
      BY <1>8, <3>2
    <3>4. In(l, i, up, p - 1)
      BY <2>1, <3>1, <3>3 DEF StreamInv, Carried, AheadUp
    <3>5. p - 1 \in Nat /\ \A r \in 1..(p - 1) : r \in 1..Len(up)
      BY <1>t, <2>1
    <3>6. \A r \in 1..(p - 1) : up'[r] = up[r]
      BY <1>5, <3>5
    <3> QED BY <3>4, <3>5, <3>6, InMore
  <2>2. CASE p \in (Len(up) + 1)..(Len(up) + sent)
    <3>1. up'[p].seq = line
      BY <1>5, <2>2
    <3>2. l # line
      BY <1>t, <3>1
    <3>3. Due(l)
      BY <1>8, <3>2
    <3>4. In(l, i, up, Len(up))
      BY <1>0, <3>3 DEF StreamInv, Carried, SentOnline
    <3>5. p - 1 \in Nat /\ Len(up) <= p - 1
      BY <1>t, <2>2
    <3> QED BY <1>t, <1>5, <3>4, <3>5, InMore
  <2> QED BY <1>t, <1>5, <2>1, <2>2
<1>15. SentOnline'
  <2> SUFFICES ASSUME task' = "online", NEW l \in Lines, Due(l)', NEW i \in 1..Segments[l],
                      <<l, i>> \notin held
               PROVE  In(l, i, up', Len(up'))
    BY <1>0 DEF SentOnline
  <2>1. CASE l = line
    <3>1. Len(up) + i \in (Len(up) + 1)..(Len(up) + sent) /\ Len(up) + i \in 1..Len(up')
          /\ (Len(up) + i) - Len(up) = i
      BY <1>t, <1>0, <1>1, <1>5, <2>1
    <3> QED BY <1>5, <2>1, <3>1 DEF In
  <2>2. CASE Due(l)
    <3>1. In(l, i, up, Len(up))
      BY <1>0, <2>2 DEF StreamInv, Carried, SentOnline
    <3>2. Len(up') \in Nat /\ Len(up) <= Len(up')
      BY <1>t, <1>5
    <3> QED BY <1>t, <1>5, <3>1, <3>2, InMore
  <2> QED BY <1>8, <2>1, <2>2
<1>16. AheadKept'
  <2> SUFFICES ASSUME NEW p \in 1..Len(q'), NEW l \in Lines, Due(l)', l < q'[p].seq,
                      NEW i \in 1..Segments[l]
               PROVE  In(l, i, q', p - 1)
    BY DEF AheadKept
  <2>1. CASE p \in 1..Len(q)
    <3>1. q[p].seq \in Handled /\ q'[p] = q[p]
      BY <1>4, <1>11, <2>1
    <3>2. l # line
      <4>1. q[p].seq < line /\ q[p].seq \in Nat
        BY <1>t, <1>7, <3>1
      <4>2. l \in Nat /\ line \in Nat
        BY <1>t, <1>0
      <4> QED BY <3>1, <4>1, <4>2
    <3>3. Due(l)
      BY <1>8, <3>2
    <3>4. In(l, i, q, p - 1)
      BY <2>1, <3>1, <3>3 DEF StreamInv, Carried, AheadKept
    <3>5. p - 1 \in Nat /\ \A r \in 1..(p - 1) : r \in 1..Len(q)
      BY <1>t, <2>1
    <3>6. \A r \in 1..(p - 1) : q'[r] = q[r]
      BY <1>4, <3>5
    <3> QED BY <3>4, <3>5, <3>6, InMore
  <2>2. CASE p \in (Len(q) + 1)..(Len(q) + kept)
    <3>1. q'[p].seq = line
      BY <1>4, <2>2
    <3>2. l # line
      BY <1>t, <3>1
    <3>3. Due(l)
      BY <1>8, <3>2
    <3>4. In(l, i, q, Len(q))
      BY <3>3 DEF StreamInv, Carried, DueKept
    <3>5. p - 1 \in Nat /\ Len(q) <= p - 1
      <4>1. Len(q) \in Nat /\ kept \in Nat
        BY <1>t, <1>1
      <4>2. p \in Int /\ p >= Len(q) + 1
        BY <2>2, <4>1
      <4> QED BY <4>1, <4>2
    <3>6. \A r \in 1..Len(q) : q'[r] = q[r]
      BY <1>4
    <3> QED BY <1>t, <3>4, <3>5, <3>6, InMore
  <2> QED BY <1>t, <1>1, <1>4, <2>1, <2>2
<1>17. DueKept'
  <2> SUFFICES ASSUME NEW l \in Lines, Due(l)', NEW i \in 1..Segments[l]
               PROVE  In(l, i, q', Len(q'))
    BY DEF DueKept
  <2>1. CASE l = line
    <3>1. line \notin cut'
      BY <2>1 DEF Due, Whole
    <3>2. kept = n
      BY <1>t, <1>0, <1>1, <1>k, <3>1
    <3>3. Len(q) + i \in (Len(q) + 1)..(Len(q) + kept) /\ Len(q) + i \in 1..Len(q')
          /\ (Len(q) + i) - Len(q) = i
      BY <1>t, <1>1, <1>4, <2>1, <3>2
    <3> QED BY <1>4, <2>1, <3>3 DEF In
  <2>2. CASE Due(l)
    <3>1. In(l, i, q, Len(q))
      BY <2>2 DEF StreamInv, Carried, DueKept
    <3>2. Len(q') \in Nat /\ Len(q) <= Len(q')
      BY <1>t, <1>1, <1>4
    <3> QED BY <1>t, <1>4, <3>1, <3>2, InMore
  <2> QED BY <1>8, <2>1, <2>2
<1>18. HeldInPart'
  <2> SUFFICES ASSUME NEW l \in Lines, Due(l)' PROVE \E i \in 1..Segments[l] : <<l, i>> \notin held
    BY <1>0 DEF HeldInPart
  <2>1. CASE l = line
    <3>1. 1 \in 1..Segments[l]
      BY <1>1, <2>1 DEF Due, Whole
    <3>2. <<l, 1>> \notin held
      <4>1. \A h \in held : h[1] \in Handled
        BY DEF StreamInv, Fitting, Fits
      <4>2. l \notin Handled
        BY <1>t, <1>2, <2>1
      <4> QED BY <4>1, <4>2
    <3> QED BY <3>1, <3>2
  <2>2. CASE Due(l)
    BY <2>2 DEF StreamInv, Carried, HeldInPart
  <2> QED BY <1>8, <2>1, <2>2
<1>19. AcceptedSoFar'
  <2>1. \A i \in 1..taken : i \in WholeLines <=> i \in WholeLines'
    <3> SUFFICES ASSUME NEW i \in 1..taken PROVE i \in WholeLines <=> i \in WholeLines'
      OBVIOUS
    <3>1. i # line
      BY <1>t, <1>3
    <3> QED BY <1>0, <1>6, <3>1 DEF WholeLines, Whole
  <2> DEFINE V == WholeLines'
  <2>v. V = WholeLines'
    OBVIOUS
  <2> HIDE DEF V
  <2>2. \A i \in 1..Len(UpTo(taken)) : UpTo(taken)[i] \in WholeLines <=> UpTo(taken)[i] \in V
    BY <1>t, <2>v, <2>1, UpToIs
  <2>3. Retain(UpTo(taken), WholeLines) = Retain(UpTo(taken), V)
    BY <1>t, <2>2, UpToIs, RetainAgrees
  <2> QED BY <1>0, <2>v, <2>3 DEF StreamInv, Carried, AcceptedSoFar
<1> QED BY <1>12, <1>13, <1>14, <1>15, <1>16, <1>17, <1>18, <1>19 DEF Carried

\* The close is sent, or not, and the loop ends.
LEMMA ShutdownKeeps ==
  ASSUME StreamInv, NEW ok \in BOOLEAN, HandleShutdown(ok)
  PROVE  Counted' /\ Fitting' /\ Carried'
<1>t. /\ written \in 0..MaxLines /\ MaxLines \in Nat /\ next_sequence_id \in Nat \ {0}
      /\ taken \in Nat /\ up \in Seq(Envelopes) /\ Len(up) \in Nat
      /\ LastHandled \in Nat
      /\ \A p \in 1..Len(up) : up[p].seq \in Nat \ {0}
  BY StreamTypes DEF StreamInv
<1>0. /\ task = "online" /\ task' = "ended"
      /\ next_sequence_id = written + 1 /\ next_sequence_id' = written + 2
      /\ UNCHANGED <<written, wire_replay_queue, cut, taken, held, accepted, closed>>
  BY <1>t DEF HandleShutdown, NextId, app, relay
<1>1. LastHandled = written /\ LastHandled' = written
  BY <1>t, <1>0 DEF LastHandled
<1>2. /\ Handled' = Handled /\ (\A l : Whole(l)' <=> Whole(l))
      /\ (\A l : Due(l)' <=> Due(l)) /\ (\A l, i : Fits(l, i)' <=> Fits(l, i))
  BY <1>0, <1>1 DEF Handled, Whole, Due, Fits
<1>3. \/ up' = up
      \/ /\ Len(up') = Len(up) + 1 /\ \A p \in 1..Len(up) : up'[p] = up[p]
         /\ up'[Len(up) + 1].seq = written + 1 /\ up'[Len(up) + 1].seg = 0
  <2>1. [seq |-> next_sequence_id, seg |-> 0] \in Envelopes
    BY <1>t DEF Envelopes
  <2> DEFINE e == [seq |-> next_sequence_id, seg |-> 0]
  <2>2. e \in Envelopes /\ e.seq = written + 1 /\ e.seg = 0
    BY <1>0, <2>1
  <2>3. up' = up \/ up' = Append(up, e)
    BY DEF HandleShutdown
  <2> HIDE DEF e
  <2> QED BY <1>t, <2>2, <2>3, AppendProperties
<1>4. ~closed /\ \A p \in 1..Len(up) : Fits(up[p].seq, up[p].seg)
  <2>1. \A p \in 1..Len(up) : ~IsClose(up[p])
    BY <1>0 DEF IsClose
  <2> QED BY <1>0, <2>1 DEF StreamInv, Fitting
<1>5. Counted'
  BY <1>0, <1>1, <1>2 DEF StreamInv, Counted
<1>6. Fitting'
  <2>1. \A p \in 1..Len(up') : \/ p \in 1..Len(up) /\ up'[p] = up[p]
                               \/ up'[p].seg = 0 /\ up'[p].seq = written + 1
    BY <1>t, <1>0, <1>3
  <2>2. \A p \in 1..Len(up') : \/ Fits(up'[p].seq, up'[p].seg)
                               \/ up'[p].seg = 0 /\ up'[p].seq = written + 1
    BY <1>4, <2>1
  <2>3. \A p \in 1..Len(wire_replay_queue) :
          Fits(wire_replay_queue[p].seq, wire_replay_queue[p].seg)
    BY DEF StreamInv, Fitting
  <2>4. \A h \in held : Fits(h[1], h[2])
    BY DEF StreamInv, Fitting
  <2> QED BY <1>0, <1>2, <2>2, <2>3, <2>4 DEF Fitting, IsClose
<1>7. AheadUp'
  <2> SUFFICES ASSUME NEW p \in 1..Len(up'), NEW l \in Lines, Due(l), l < up'[p].seq,
                      NEW i \in 1..Segments[l], <<l, i>> \notin held
               PROVE  In(l, i, up', p - 1)
    BY <1>0, <1>2 DEF AheadUp
  <2>1. CASE up' = up
    BY <2>1 DEF StreamInv, Carried, AheadUp
  <2>2. CASE Len(up') = Len(up) + 1 /\ \A r \in 1..Len(up) : up'[r] = up[r]
    <3>1. CASE p \in 1..Len(up)
      <4>1. In(l, i, up, p - 1)
        BY <2>2, <3>1 DEF StreamInv, Carried, AheadUp
      <4>2. p - 1 \in Nat /\ \A r \in 1..(p - 1) : r \in 1..Len(up)
        BY <1>t, <3>1
      <4>3. \A r \in 1..(p - 1) : up'[r] = up[r]
        BY <2>2, <4>2
      <4> QED BY <4>1, <4>2, <4>3, InMore
    <3>2. CASE p = Len(up) + 1
      <4>1. In(l, i, up, Len(up)) /\ p - 1 = Len(up)
        BY <1>t, <1>0, <3>2 DEF StreamInv, Carried, SentOnline
      <4> QED BY <1>t, <2>2, <4>1, InMore
    <3> QED BY <1>t, <2>2, <3>1, <3>2
  <2> QED BY <1>3, <2>1, <2>2
<1>8. AheadKept' /\ DueKept'
  BY <1>0, <1>2 DEF StreamInv, Carried, AheadKept, DueKept, In
<1>9. SentOnline' /\ HeldInPart' /\ AcceptedSoFar'
  BY <1>0, <1>2 DEF StreamInv, Carried, SentOnline, HeldInPart, AcceptedSoFar, WholeLines
<1> QED BY <1>5, <1>6, <1>7, <1>8, <1>9 DEF Carried

\* What is acknowledged is not kept any longer, and the relay has taken it.
LEMMA AckKeeps ==
  ASSUME StreamInv, ReceiveAck
  PROVE  Counted' /\ Fitting' /\ Carried'
<1> DEFINE q == wire_replay_queue
<1>t. /\ q \in Seq(Envelopes) /\ Len(q) \in Nat /\ taken \in Nat
      /\ \A p \in 1..Len(q) : q[p].seq \in Nat
      /\ Len(down) \in Nat /\ down \in Seq(Acks)
  BY StreamTypes DEF StreamInv
<1>0. /\ UNCHANGED <<written, next_sequence_id, cut, up, taken, held, accepted, closed, task>>
      /\ task = "online" /\ down # <<>> /\ Head(down).ack
  BY DEF ReceiveAck, app, relay
<1>1. Head(down).id <= taken /\ Head(down).id \in Nat
  <2>0. Len(down) # 0
    BY <1>t, <1>0, EmptySeq
  <2>a. 1 \in 1..Len(down) /\ Head(down) = down[1]
    BY <1>t, <2>0, HeadTailProperties
  <2>1. 1 \in 1..Len(down) /\ Head(down) = down[1] /\ down[1] \in Acks
    <3>1. down \in Seq(Acks) /\ down # <<>>
      BY <1>t, <1>0
    <3>2. Head(down) \in Acks
      BY <3>1, HeadTailProperties
    <3> QED BY <2>a, <3>2
  <2> QED BY <1>0, <2>1 DEF StreamInv, AcksTaken, Acks
<1>2. PICK k \in 0..Len(q) : Trims(Head(down).id, k) /\ q' = SubSeq(q, k + 1, Len(q))
  BY DEF ReceiveAck
<1>3. /\ Len(q') = Len(q) - k
      /\ \A p \in 1..Len(q') : p + k \in 1..Len(q) /\ q'[p] = q[p + k]
  <2>1. Len(q) \in Nat /\ k \in Nat /\ k <= Len(q)
    BY <1>t
  <2> HIDE DEF q
  <2>2. PICK u : u = q'
    OBVIOUS
  <2>3. u = SubSeq(q, k + 1, Len(q))
    BY <1>2, <2>2
  <2>4. Len(u) = Len(q) - k /\ \A p \in 1..(Len(q) - k) : u[p] = q[p + k]
    <3>1. Len(u) = Len(q) - k
      BY <2>1, <2>3
    <3>2. ASSUME NEW p \in 1..(Len(q) - k) PROVE u[p] = q[p + k]
      <4>1. p \in 1..(Len(q) - (k + 1) + 1) /\ (k + 1) + p - 1 = p + k
        BY <2>1
      <4> QED BY <2>1, <2>3, <4>1
    <3> QED BY <3>1, <3>2
  <2>5. \A p \in 1..(Len(q) - k) : p + k \in 1..Len(q)
    BY <2>1
  <2> QED BY <2>2, <2>4, <2>5
<1>4. \A p \in 1..k : q[p].seq <= taken
  <2> SUFFICES ASSUME NEW p \in 1..k PROVE q[p].seq <= taken
    OBVIOUS
  <2>1. p \in 1..Len(q) /\ ~(p > k) /\ q[p].seq \in Nat
    BY <1>t, <1>2
  <2>2. ~(q[p].seq > Head(down).id)
    BY <1>2, <2>1 DEF Trims
  <2> QED BY <1>t, <1>1, <2>1, <2>2
<1>5. /\ LastHandled' = LastHandled /\ Handled' = Handled /\ (\A l : Whole(l)' <=> Whole(l))
      /\ (\A l : Due(l)' <=> Due(l)) /\ (\A l, i : Fits(l, i)' <=> Fits(l, i))
  BY <1>0 DEF LastHandled, Handled, Whole, Due, Fits
<1>6. ASSUME NEW l \in Lines, Due(l), NEW i, NEW m \in 0..Len(q'), In(l, i, q, m + k)
      PROVE  In(l, i, q', m)
  <2>1. PICK r \in 1..(m + k) : q[r].seq = l /\ q[r].seg = i
    BY <1>6 DEF In
  <2>2. l > taken /\ l \in Nat
    BY <1>6 DEF Due, Handled
  <2>3. r \notin 1..k
    BY <1>t, <1>4, <2>1, <2>2
  <2>4. r - k \in 1..m /\ r - k \in 1..Len(q') /\ (r - k) + k = r
    <3>1. k \in Nat /\ m \in Nat /\ Len(q') \in Nat /\ m <= Len(q')
      BY <1>t, <1>2, <1>3, <1>6
    <3>2. r \in 1..(m + k) /\ r \notin 1..k
      BY <2>1, <2>3
    <3> QED BY <3>1, <3>2
  <2> QED BY <1>3, <2>1, <2>4 DEF In
<1>7. Counted' /\ Fitting'
  <2>1. \A p \in 1..Len(q') : Fits(q'[p].seq, q'[p].seg)
    BY <1>3 DEF StreamInv, Fitting
  <2> QED BY <1>0, <1>5, <2>1 DEF StreamInv, Counted, Fitting, IsClose
<1>8. AheadKept'
  <2> SUFFICES ASSUME NEW p \in 1..Len(q'), NEW l \in Lines, Due(l), l < q'[p].seq,
                      NEW i \in 1..Segments[l]
               PROVE  In(l, i, q', p - 1)
    BY <1>5 DEF AheadKept
  <2>1. p + k \in 1..Len(q) /\ q'[p] = q[p + k] /\ p - 1 \in 0..Len(q')
        /\ (p + k) - 1 = (p - 1) + k
    BY <1>t, <1>2, <1>3
  <2>2. In(l, i, q, (p + k) - 1)
    BY <2>1 DEF StreamInv, Carried, AheadKept
  <2> QED BY <1>6, <2>1, <2>2
<1>9. DueKept'
  <2> SUFFICES ASSUME NEW l \in Lines, Due(l), NEW i \in 1..Segments[l]
               PROVE  In(l, i, q', Len(q'))
    BY <1>5 DEF DueKept
  <2>1. Len(q') + k = Len(q) /\ Len(q') \in 0..Len(q')
    BY <1>t, <1>2, <1>3
  <2>2. In(l, i, q, Len(q))
    BY DEF StreamInv, Carried, DueKept
  <2> QED BY <1>6, <2>1, <2>2
<1>10. AheadUp' /\ SentOnline'
  BY <1>0, <1>5 DEF StreamInv, Carried, AheadUp, SentOnline, In
<1>11. HeldInPart' /\ AcceptedSoFar'
  BY <1>0, <1>5 DEF StreamInv, Carried, HeldInPart, AcceptedSoFar, WholeLines
<1> QED BY <1>7, <1>8, <1>9, <1>10, <1>11 DEF Carried

\* The relay reads the first envelope on its way.
LEMMA FirstIs ==
  ASSUME StreamTypeOK, up # <<>>, up' = Tail(up)
  PROVE  /\ Head(up) = up[1] /\ 1 \in 1..Len(up)
         /\ Len(up') = Len(up) - 1 /\ Len(up') \in Nat
         /\ \A p \in 1..Len(up') : p + 1 \in 1..Len(up) /\ up'[p] = up[p + 1]
         /\ \A l, i : \A k \in 1..Len(up) :
              In(l, i, up, k) => (up[1].seq = l /\ up[1].seg = i) \/ In(l, i, up', k - 1)
<1>1. up \in Seq(Envelopes) /\ Len(up) \in Nat
  BY StreamTypes
<1>2. Head(up) = up[1] /\ 1 \in 1..Len(up)
  BY <1>1
<1>3. /\ Len(up') = Len(up) - 1 /\ Len(up') \in Nat
      /\ \A p \in 1..Len(up') : p + 1 \in 1..Len(up) /\ up'[p] = up[p + 1]
  BY <1>1, <1>2
<1>4. ASSUME NEW l, NEW i, NEW k \in 1..Len(up), In(l, i, up, k), ~(up[1].seq = l /\ up[1].seg = i)
      PROVE  In(l, i, up', k - 1)
  <2>1. PICK r \in 1..k : up[r].seq = l /\ up[r].seg = i
    BY <1>4 DEF In
  <2>2. r # 1
    BY <1>4, <2>1
  <2>3. r - 1 \in 1..(k - 1) /\ r - 1 \in 1..Len(up') /\ (r - 1) + 1 = r
    BY <1>1, <1>3, <2>1, <2>2
  <2> QED BY <1>3, <2>1, <2>3 DEF In
<1> QED BY <1>2, <1>3, <1>4

\* What the relay takes in: the chunks it had and the one that comes first.
LEMMA TailKeeps ==
  ASSUME StreamInv, up # <<>>, up' = Tail(up),
         UNCHANGED <<written, next_sequence_id, wire_replay_queue, cut, task>>,
         taken' \in Nat, taken <= taken', taken' <= LastHandled,
         closed' => closed \/ IsClose(up[1]),
         \A h \in held' : h \in held \/ (h = <<up[1].seq, up[1].seg>> /\ up[1].seg # 0),
         \A l, i : l > taken' /\ <<l, i>> \in held => <<l, i>> \in held',
         up[1].seq > taken' /\ up[1].seg # 0 => <<up[1].seq, up[1].seg>> \in held',
         HeldInPart', AcceptedSoFar'
  PROVE  Counted' /\ Fitting' /\ Carried'
<1>0. /\ Head(up) = up[1] /\ 1 \in 1..Len(up)
      /\ Len(up') = Len(up) - 1 /\ Len(up') \in Nat
      /\ \A p \in 1..Len(up') : p + 1 \in 1..Len(up) /\ up'[p] = up[p + 1]
      /\ \A l, i : \A k \in 1..Len(up) :
           In(l, i, up, k) => (up[1].seq = l /\ up[1].seg = i) \/ In(l, i, up', k - 1)
  BY FirstIs DEF StreamInv
<1>t. taken \in Nat /\ LastHandled \in Nat /\ Len(up) \in Nat
  BY StreamTypes DEF StreamInv
<1>1. /\ LastHandled' = LastHandled /\ Handled' = Handled /\ (\A l : Whole(l)' <=> Whole(l))
      /\ \A l, i : Fits(l, i)' <=> Fits(l, i)
  BY DEF LastHandled, Handled, Whole, Fits
<1>2. ASSUME NEW l, Due(l)' PROVE Due(l) /\ l > taken' /\ l \in Nat
  <2>1. l \in Nat /\ l > taken'
    BY <1>2 DEF Due, Handled
  <2> QED BY <1>t, <1>1, <1>2, <2>1 DEF Due
<1>3. Counted'
  BY <1>1 DEF StreamInv, Counted
<1>4. Fitting'
  <2>1. \A p \in 1..Len(up') : Fits(up'[p].seq, up'[p].seg) \/ IsClose(up'[p])
    BY <1>0 DEF StreamInv, Fitting
  <2>2. \A h \in held' : Fits(h[1], h[2])
    <3> SUFFICES ASSUME NEW h \in held' PROVE Fits(h[1], h[2])
      OBVIOUS
    <3>1. CASE h \in held
      BY <3>1 DEF StreamInv, Fitting
    <3>2. CASE h = <<up[1].seq, up[1].seg>> /\ up[1].seg # 0
      BY <1>0, <3>2 DEF StreamInv, Fitting, IsClose
    <3> QED BY <3>1, <3>2
  <2>3. (\E p \in 1..Len(up') : IsClose(up'[p])) \/ closed'
          => (\E p \in 1..Len(up) : IsClose(up[p])) \/ closed
    BY <1>0
  <2>4. \A e : IsClose(e)' <=> IsClose(e)
    BY DEF IsClose
  <2> QED BY <1>1, <2>1, <2>2, <2>3, <2>4 DEF StreamInv, Fitting
<1>5. ASSUME NEW l \in Lines, Due(l)', NEW i \in 1..Segments[l], NEW k \in 1..Len(up),
             <<l, i>> \in held \/ In(l, i, up, k)
      PROVE  <<l, i>> \in held' \/ In(l, i, up', k - 1)
  <2>1. Due(l) /\ l > taken' /\ i # 0
    BY <1>2, <1>5
  <2> QED BY <1>0, <1>5, <2>1
<1>6. AheadUp'
  <2> SUFFICES ASSUME NEW p \in 1..Len(up'), NEW l \in Lines, Due(l)', l < up'[p].seq,
                      NEW i \in 1..Segments[l]
               PROVE  <<l, i>> \in held' \/ In(l, i, up', p - 1)
    BY DEF AheadUp
  <2>1. p + 1 \in 1..Len(up) /\ up'[p] = up[p + 1] /\ (p + 1) - 1 = p /\ Due(l)
    BY <1>0, <1>2
  <2>2. <<l, i>> \in held \/ In(l, i, up, p)
    BY <2>1 DEF StreamInv, Carried, AheadUp
  <2>3. p \in 1..Len(up)
    BY <1>t, <1>0
  <2> QED BY <1>5, <2>2, <2>3
<1>7. SentOnline'
  <2> SUFFICES ASSUME task = "online", NEW l \in Lines, Due(l)', NEW i \in 1..Segments[l]
               PROVE  <<l, i>> \in held' \/ In(l, i, up', Len(up'))
    BY DEF SentOnline
  <2>1. <<l, i>> \in held \/ In(l, i, up, Len(up))
    BY <1>2 DEF StreamInv, Carried, SentOnline
  <2>2. Len(up) \in 1..Len(up) /\ Len(up) - 1 = Len(up')
    BY <1>t, <1>0
  <2> QED BY <1>5, <2>1, <2>2
<1>8. AheadKept' /\ DueKept'
  <2>1. \A l, i, k : In(l, i, wire_replay_queue, k)' <=> In(l, i, wire_replay_queue, k)
    BY DEF In
  <2>2. AheadKept'
    BY <1>1, <1>2, <2>1 DEF StreamInv, Carried, AheadKept
  <2>3. DueKept'
    BY <1>1, <1>2, <2>1 DEF StreamInv, Carried, DueKept
  <2> QED BY <2>2, <2>3
<1> QED BY <1>3, <1>4, <1>6, <1>7, <1>8 DEF Carried

-----------------------------------------------------------------------------

\* One more line of the first ones.
LEMMA UpToNext ==
  ASSUME NEW n \in Nat, NEW K
  PROVE  Retain(UpTo(n + 1), K) =
           IF n + 1 \in K THEN Append(Retain(UpTo(n), K), n + 1) ELSE Retain(UpTo(n), K)
<1> DEFINE s == UpTo(n)
           t == UpTo(n + 1)
<1>1. s \in Seq(Nat) /\ Len(s) = n /\ \A i \in 1..n : s[i] = i
  BY UpToIs
<1>2. t \in Seq(Nat) /\ Len(t) = n + 1 /\ \A i \in 1..(n + 1) : t[i] = i
  <2>1. n + 1 \in Nat
    OBVIOUS
  <2> QED BY <2>1, UpToIs
<1> HIDE DEF s, t
<1>3. /\ Append(s, n + 1) \in Seq(Nat) /\ Len(Append(s, n + 1)) = n + 1
      /\ \A i \in 1..n : Append(s, n + 1)[i] = s[i]
      /\ Append(s, n + 1)[n + 1] = n + 1
  BY <1>1, AppendProperties
<1>4. \A i \in 1..(n + 1) : t[i] = Append(s, n + 1)[i]
  BY <1>1, <1>2, <1>3
<1>5. t = Append(s, n + 1)
  BY <1>2, <1>3, <1>4, SeqEqual
<1>6. Retain(Append(s, n + 1), K) =
        IF n + 1 \in K THEN Append(Retain(s, K), n + 1) ELSE Retain(s, K)
  <2>1. n + 1 \in Nat
    OBVIOUS
  <2>2. s \in Seq(Nat)
    BY <1>1
  <2>3. \A x \in Nat : Retain(Append(s, x), K)
                        = IF x \in K THEN Append(Retain(s, K), x) ELSE Retain(s, K)
    BY <2>2, RetainAppend
  <2> QED BY <2>1, <2>3
<1> QED BY <1>5, <1>6 DEF s, t

\* What is retained of more lines begins with what is retained of fewer, and is
\* the same when no line between them is retained.
LEMMA UpToMore ==
  ASSUME NEW a \in Nat, NEW b \in Nat, a <= b, NEW K
  PROVE  /\ Retain(UpTo(a), K) \in Seq(Nat) /\ Retain(UpTo(b), K) \in Seq(Nat)
         /\ Len(Retain(UpTo(a), K)) <= Len(Retain(UpTo(b), K))
         /\ \A i \in 1..Len(Retain(UpTo(a), K)) : Retain(UpTo(b), K)[i] = Retain(UpTo(a), K)[i]
         /\ (\A l \in (a + 1)..b : l \notin K) => Retain(UpTo(b), K) = Retain(UpTo(a), K)
<1> DEFINE R(n) == Retain(UpTo(n), K)
           More(n) ==
             /\ R(n) \in Seq(Nat) /\ Len(R(a)) <= Len(R(n))
             /\ \A i \in 1..Len(R(a)) : R(n)[i] = R(a)[i]
             /\ (\A l \in (a + 1)..n : l \notin K) => R(n) = R(a)
           S == {n \in Nat : More(a + n)}
<1>1. \A n \in Nat : R(n) \in Seq(Nat)
  BY UpToIs, RetainElements
<1>2. \A n \in Nat : R(n + 1) = IF n + 1 \in K THEN Append(R(n), n + 1) ELSE R(n)
  BY UpToNext
<1> HIDE DEF R
<1>3. 0 \in S
  BY <1>1
<1>4. ASSUME NEW n \in Nat, n \in S PROVE n + 1 \in S
  <2>1. More(a + n) /\ a + n \in Nat /\ a + (n + 1) = (a + n) + 1
    BY <1>4
  <2>2. R(a + n) \in Seq(Nat) /\ R(a) \in Seq(Nat) /\ Len(R(a)) \in Nat /\ Len(R(a + n)) \in Nat
    BY <1>1, <2>1
  <2>3. CASE (a + n) + 1 \in K
    <3>1. R((a + n) + 1) = Append(R(a + n), (a + n) + 1)
      BY <1>2, <2>1, <2>3
    <3>2. /\ Append(R(a + n), (a + n) + 1) \in Seq(Nat)
          /\ Len(Append(R(a + n), (a + n) + 1)) = Len(R(a + n)) + 1
          /\ \A i \in 1..Len(R(a + n)) : Append(R(a + n), (a + n) + 1)[i] = R(a + n)[i]
      BY <2>1, <2>2, AppendProperties
    <3>3. (a + n) + 1 \in (a + 1)..((a + n) + 1)
      BY <2>1
    <3>4. R((a + n) + 1) \in Seq(Nat) /\ Len(R(a)) <= Len(R((a + n) + 1))
      <4>1. Len(R((a + n) + 1)) = Len(R(a + n)) + 1 /\ R((a + n) + 1) \in Seq(Nat)
        BY <3>1, <3>2
      <4>2. Len(R(a)) <= Len(R(a + n)) /\ Len(R(a)) \in Nat /\ Len(R(a + n)) \in Nat
        BY <2>1, <2>2
      <4> QED BY <4>1, <4>2
    <3>5. \A i \in 1..Len(R(a)) : R((a + n) + 1)[i] = R(a)[i]
      <4>1. \A i \in 1..Len(R(a)) : i \in 1..Len(R(a + n)) /\ R(a + n)[i] = R(a)[i]
        BY <2>1, <2>2
      <4> QED BY <3>1, <3>2, <4>1
    <3>6. More((a + n) + 1)
      BY <2>3, <3>3, <3>4, <3>5
    <3> QED BY <2>1, <3>6
  <2>4. CASE (a + n) + 1 \notin K
    <3>1. R((a + n) + 1) = R(a + n)
      BY <1>2, <2>1, <2>4
    <3>2. \A l \in (a + 1)..(a + n) : l \in (a + 1)..((a + n) + 1)
      BY <2>1
    <3>3. More((a + n) + 1)
      BY <2>1, <2>2, <3>1, <3>2
    <3> QED BY <2>1, <3>3
  <2> QED BY <2>3, <2>4
<1>5. Nat \subseteq S
  <2> HIDE DEF S
  <2> QED BY <1>3, <1>4, NatInd
<1>6. b - a \in Nat /\ a + (b - a) = b
  OBVIOUS
<1>7. More(b)
  BY <1>5, <1>6
<1>8. R(a) \in Seq(Nat)
  BY <1>1
<1> QED BY <1>7, <1>8 DEF R

\* Nothing is due before the first envelope on its way.
LEMMA NoneBefore ==
  ASSUME StreamInv, up # <<>>, NEW l \in Lines, Due(l)
  PROVE  ~(l < up[1].seq)
<1>1. 1 \in 1..Len(up)
  <2>1. up \in Seq(Envelopes) /\ Len(up) # 0 /\ Len(up) \in Nat
    BY StreamTypes, EmptySeq DEF StreamInv
  <2> QED BY <2>1
<1>2. ASSUME l < up[1].seq PROVE \A i \in 1..Segments[l] : <<l, i>> \in held
  <2>1. \A i : ~In(l, i, up, 1 - 1)
    BY DEF In
  <2> QED BY <1>1, <1>2, <2>1 DEF StreamInv, Carried, AheadUp
<1> QED BY <1>2 DEF StreamInv, Carried, HeldInPart

\* The relay hears of the close.
LEMMA ClosesKeeps ==
  ASSUME StreamInv, RelayCloses
  PROVE  Counted' /\ Fitting' /\ Carried' /\ \A l \in Lines : ~Due(l)'
<1>0. /\ UNCHANGED <<written, next_sequence_id, wire_replay_queue, cut, task, taken, held, accepted>>
      /\ up # <<>> /\ up' = Tail(up) /\ Head(up).seg = 0 /\ closed'
  BY DEF RelayCloses, app, state
<1>t. taken \in Nat /\ taken <= LastHandled /\ written \in Nat
  BY StreamTypes DEF StreamInv, Counted
<1>1. Head(up) = up[1] /\ 1 \in 1..Len(up)
  BY <1>0, FirstIs DEF StreamInv
<1>2. IsClose(up[1])
  BY <1>0, <1>1 DEF StreamInv, Fitting, Fits
<1>3. HeldInPart' /\ AcceptedSoFar' /\ (\A l : Due(l)' <=> Due(l))
  BY <1>0 DEF StreamInv, Carried, HeldInPart, AcceptedSoFar, WholeLines, Due, Whole, Handled,
              LastHandled
<1>4. \A l \in Lines : ~Due(l)
  <2> SUFFICES ASSUME NEW l \in Lines, Due(l) PROVE FALSE
    OBVIOUS
  <2>1. l \in 1..LastHandled /\ LastHandled <= written
    <3>1. next_sequence_id \in Nat \ {0}
      BY StreamTypes DEF StreamInv
    <3> QED BY <1>t, <3>1 DEF Due, Handled, LastHandled
  <2>2. l < up[1].seq
    BY <1>t, <1>2, <2>1, StreamTypes DEF IsClose, StreamInv
  <2> QED BY <1>0, <2>2, NoneBefore
<1>5. Counted' /\ Fitting' /\ Carried'
  BY <1>0, <1>t, <1>1, <1>2, <1>3, TailKeeps
<1> QED BY <1>3, <1>4, <1>5

\* The relay knows the line.
LEMMA AgainKeeps ==
  ASSUME StreamInv, RelayTakesAgain
  PROVE  Counted' /\ Fitting' /\ Carried'
<1>0. /\ UNCHANGED <<written, next_sequence_id, wire_replay_queue, cut, task, taken, held, accepted, closed>>
      /\ up # <<>> /\ up' = Tail(up) /\ Head(up).seq <= taken /\ Head(up).seg # 0
  BY DEF RelayTakesAgain, app, state, relay
<1>t. taken \in Nat /\ taken <= LastHandled
  BY StreamTypes DEF StreamInv, Counted
<1>1. Head(up) = up[1] /\ 1 \in 1..Len(up)
  BY <1>0, FirstIs DEF StreamInv
<1>2. HeldInPart' /\ AcceptedSoFar'
  BY <1>0 DEF StreamInv, Carried, HeldInPart, AcceptedSoFar, WholeLines, Due, Whole, Handled,
              LastHandled
<1>3. up[1].seq \in Nat
  BY <1>1, StreamTypes DEF StreamInv
<1>4. ~(up[1].seq > taken)
  BY <1>0, <1>t, <1>1, <1>3
<1> QED BY <1>0, <1>t, <1>1, <1>2, <1>4, TailKeeps

\* The relay takes an envelope, and the line with it when that was the last one missing.
LEMMA TakesKeeps ==
  ASSUME StreamInv, RelayTakes
  PROVE  /\ Counted' /\ Fitting' /\ Carried'
         /\ \A l \in Lines : Due(l)' => Due(l)
         /\ taken' \in Nat /\ taken <= taken' /\ taken' <= MaxLines
         /\ held' \subseteq Lines \X (Nat \ {0})
         /\ accepted' \in Seq(Lines)
         /\ \/ UNCHANGED down
            \/ Acknowledge(taken')
<1> DEFINE id == up[1].seq
           seg == up[1].seg
           chunks == held \cup {<<id, seg>>}
<1>0. /\ UNCHANGED <<written, next_sequence_id, wire_replay_queue, cut, task, closed>>
      /\ up # <<>> /\ up' = Tail(up)
  BY DEF RelayTakes, app, state
<1>t. /\ taken \in Nat /\ taken <= LastHandled /\ LastHandled \in Nat /\ LastHandled <= MaxLines
      /\ Lines = 1..MaxLines /\ Segments \in [Lines -> Nat] /\ MaxLines \in Nat
  BY StreamTypes DEF StreamInv, Counted
<1>1. Head(up) = up[1] /\ 1 \in 1..Len(up)
  BY <1>0, FirstIs DEF StreamInv
<1>2. id \in Nat /\ seg # 0 /\ id > taken
  BY <1>1, StreamTypes DEF StreamInv, RelayTakes
<1>3. Fits(id, seg)
  BY <1>1, <1>2 DEF StreamInv, Fitting, IsClose
<1>4. id \in Handled /\ id \in Lines /\ seg \in 1..Segments[id] /\ id <= LastHandled
      /\ Segments[id] \in Nat
  <2>1. id \in Handled /\ seg \in 1..Segments[id]
    BY <1>3 DEF Fits
  <2>2. id \in Lines /\ id <= LastHandled
    BY <1>t, <2>1 DEF Handled
  <2> QED BY <1>t, <2>1, <2>2
<1>5. /\ LastHandled' = LastHandled /\ Handled' = Handled /\ (\A l : Whole(l)' <=> Whole(l))
      /\ WholeLines' = WholeLines
  BY <1>0 DEF LastHandled, Handled, Whole, WholeLines
<1>6. /\ held \subseteq Lines \X (Nat \ {0}) /\ accepted \in Seq(Lines)
  BY DEF StreamInv, StreamTypeOK
<1>7. chunks \subseteq Lines \X (Nat \ {0})
  BY <1>4, <1>6
<1>8. \/ /\ \A i \in 1..Segments[id] : <<id, i>> \in chunks
         /\ taken' = id
         /\ held' = {c \in chunks : c[1] > id}
         /\ accepted' = Append(accepted, id)
         /\ Acknowledge(id)
      \/ /\ \E i \in 1..Segments[id] : <<id, i>> \notin chunks
         /\ held' = chunks
         /\ UNCHANGED <<taken, accepted, down>>
  BY <1>1 DEF RelayTakes
<1>9. CASE /\ \A i \in 1..Segments[id] : <<id, i>> \in chunks
           /\ taken' = id
           /\ held' = {c \in chunks : c[1] > id}
           /\ accepted' = Append(accepted, id)
           /\ Acknowledge(id)
  <2>1. Whole(id)
    <3>1. Segments[id] \in 1..Segments[id]
      BY <1>4
    <3>2. <<id, Segments[id]>> \in held \/ seg = Segments[id]
      BY <1>9, <3>1
    <3>3. id \notin cut
      BY <1>3, <3>2 DEF Fits, StreamInv, Fitting
    <3> QED BY <1>4, <3>3 DEF Whole
  <2>2. \A l \in (taken + 1)..(id - 1) : l \notin WholeLines
    <3> SUFFICES ASSUME NEW l \in (taken + 1)..(id - 1), l \in WholeLines PROVE FALSE
      OBVIOUS
    <3>1. l \in Lines /\ l \in Handled /\ l > taken /\ l < id /\ Whole(l)
      BY <1>t, <1>2, <1>4 DEF Handled, WholeLines
    <3>2. Due(l)
      BY <3>1 DEF Due
    <3> QED BY <1>0, <3>1, <3>2, NoneBefore
  <2>3. id - 1 \in Nat /\ taken <= id - 1 /\ (id - 1) + 1 = id
    BY <1>t, <1>2
  <2>4. Retain(UpTo(id - 1), WholeLines) = Retain(UpTo(taken), WholeLines)
    <3> HIDE DEF id
    <3> QED BY <1>t, <2>2, <2>3, UpToMore
  <2>5. Retain(UpTo(id), WholeLines) = Append(Retain(UpTo(taken), WholeLines), id)
    <3>1. id \in WholeLines
      BY <1>4, <2>1 DEF WholeLines
    <3> HIDE DEF id
    <3>2. Retain(UpTo((id - 1) + 1), WholeLines) =
            IF (id - 1) + 1 \in WholeLines
            THEN Append(Retain(UpTo(id - 1), WholeLines), (id - 1) + 1)
            ELSE Retain(UpTo(id - 1), WholeLines)
      BY <2>3, UpToNext
    <3> QED BY <2>3, <2>4, <3>1, <3>2
  <2>6. AcceptedSoFar'
    BY <1>5, <1>9, <2>5 DEF StreamInv, Carried, AcceptedSoFar
  <2>7. \A l \in Lines : Due(l)' => Due(l) /\ l > id
    <3> SUFFICES ASSUME NEW l \in Lines, Due(l)' PROVE Due(l) /\ l > id
      OBVIOUS
    <3>1. l \in Nat /\ l > id
      BY <1>t, <1>9 DEF Due
    <3> QED BY <1>t, <1>2, <1>5, <3>1 DEF Due
  <2>8. \A h \in held' : h \in held /\ h[1] > id
    <3> SUFFICES ASSUME NEW h \in held' PROVE h \in held /\ h[1] > id
      OBVIOUS
    <3>1. h \in chunks /\ h[1] > id
      BY <1>9
    <3>2. h # <<id, seg>>
      BY <1>2, <3>1
    <3> QED BY <3>1, <3>2
  <2>9. HeldInPart'
    BY <2>7, <2>8 DEF StreamInv, Carried, HeldInPart
  <2>10. \A l, i : l > taken' /\ <<l, i>> \in held => <<l, i>> \in held'
    BY <1>9
  <2>11. taken' \in Nat /\ taken <= taken' /\ taken' <= LastHandled /\ ~(id > taken')
    BY <1>t, <1>2, <1>4, <1>9
  <2>12. Counted' /\ Fitting' /\ Carried'
    BY <1>0, <2>6, <2>8, <2>9, <2>10, <2>11, TailKeeps
  <2>13. held' \subseteq Lines \X (Nat \ {0}) /\ accepted' \in Seq(Lines)
    <3>1. Append(accepted, id) \in Seq(Lines)
      BY <1>4, <1>6, AppendProperties
    <3> QED BY <1>6, <1>9, <2>8, <3>1
  <2>14. Acknowledge(taken')
    BY <1>9 DEF Acknowledge
  <2>15. taken' <= MaxLines
    BY <1>t, <2>11
  <2> QED BY <2>7, <2>11, <2>12, <2>13, <2>14, <2>15
<1>10. CASE /\ \E i \in 1..Segments[id] : <<id, i>> \notin chunks
            /\ held' = chunks
            /\ UNCHANGED <<taken, accepted, down>>
  <2>1. \A l \in Lines : Due(l)' <=> Due(l)
    BY <1>5, <1>10 DEF Due
  <2>2. HeldInPart'
    <3> SUFFICES ASSUME NEW l \in Lines, Due(l)
                 PROVE  \E i \in 1..Segments[l] : <<l, i>> \notin held'
      BY <2>1 DEF HeldInPart
    <3>1. CASE l = id
      BY <1>10, <3>1
    <3>2. CASE l # id
      <4>1. PICK i \in 1..Segments[l] : <<l, i>> \notin held
        BY DEF StreamInv, Carried, HeldInPart
      <4> QED BY <1>10, <3>2, <4>1
    <3> QED BY <3>1, <3>2
  <2>3. AcceptedSoFar'
    BY <1>5, <1>10 DEF StreamInv, Carried, AcceptedSoFar
  <2>4. Counted' /\ Fitting' /\ Carried'
    BY <1>0, <1>t, <1>2, <1>10, <2>2, <2>3, TailKeeps
  <2>5. /\ taken' \in Nat /\ taken <= taken' /\ taken' <= MaxLines
        /\ held' \subseteq Lines \X (Nat \ {0}) /\ accepted' \in Seq(Lines)
    BY <1>t, <1>6, <1>7, <1>10
  <2> QED BY <1>10, <2>1, <2>4, <2>5
<1> QED BY <1>8, <1>9, <1>10

\* What has come back stays within what the relay has taken and what its log holds.
LEMMA AcksKeep ==
  ASSUME StreamInv, taken' \in Nat, taken <= taken', server_log' = server_log,
         \/ UNCHANGED down
         \/ down' = <<>>
         \/ down # <<>> /\ down' = Tail(down)
         \/ \E e \in Acks : /\ down' = Append(down, e)
                            /\ IF e.ack THEN e.id <= taken' ELSE e.id \in 1..Len(server_log)
  PROVE  down' \in Seq(Acks) /\ AcksTaken'
<1> DEFINE Good(e, n) == IF e.ack THEN e.id <= n ELSE e.id \in 1..Len(server_log)
<1>1. down \in Seq(Acks) /\ Len(down) \in Nat /\ taken \in Nat
  BY StreamTypes DEF StreamInv
<1>2. \A e \in Acks : e.id \in Nat
  BY DEF Acks
<1>3. \A p \in 1..Len(down) : down[p] \in Acks
  BY <1>1
<1>4. \A p \in 1..Len(down) : Good(down[p], taken')
  <2>1. \A p \in 1..Len(down) : Good(down[p], taken)
    BY DEF StreamInv, AcksTaken
  <2>2. \A p \in 1..Len(down) : down[p].id \in Nat
    BY <1>2, <1>3
  <2> QED BY <1>1, <2>1, <2>2
<1> DEFINE Fine(s) == s \in Seq(Acks) /\ \A p \in 1..Len(s) : Good(s[p], taken')
<1>5. Fine(down)
  BY <1>1, <1>4
<1>6. Fine(<<>>)
  BY EmptySeq
<1>7. ASSUME down # <<>> PROVE Fine(Tail(down))
  <2>1. /\ Tail(down) \in Seq(Acks) /\ Len(Tail(down)) = Len(down) - 1
        /\ \A i \in 1..Len(Tail(down)) : Tail(down)[i] = down[i + 1]
    BY <1>1, <1>7, HeadTailProperties
  <2>2. \A i \in 1..Len(Tail(down)) : i + 1 \in 1..Len(down)
    BY <1>1, <2>1
  <2> QED BY <1>4, <2>1, <2>2
<1>8. ASSUME NEW e \in Acks, Good(e, taken') PROVE Fine(Append(down, e))
  <2>1. /\ Append(down, e) \in Seq(Acks) /\ Len(Append(down, e)) = Len(down) + 1
        /\ \A i \in 1..Len(down) : Append(down, e)[i] = down[i]
        /\ Append(down, e)[Len(down) + 1] = e
    BY <1>1, AppendProperties
  <2>2. \A i \in 1..Len(Append(down, e)) : i \in 1..Len(down) \/ i = Len(down) + 1
    BY <1>1, <2>1
  <2> QED BY <1>4, <1>8, <2>1, <2>2
<1> HIDE DEF Good
<1>9. \E s : Fine(s) /\ s = down'
  <2> HIDE DEF Fine
  <2>1. CASE UNCHANGED down
    BY <1>5, <2>1
  <2>2. CASE down' = <<>>
    BY <1>6, <2>2
  <2>3. CASE down # <<>> /\ down' = Tail(down)
    BY <1>7, <2>3
  <2>4. CASE \E e \in Acks : /\ down' = Append(down, e)
                             /\ IF e.ack THEN e.id <= taken' ELSE e.id \in 1..Len(server_log)
    BY <1>8, <2>4 DEF Good
  <2> QED BY <2>1, <2>2, <2>3, <2>4
<1>10. PICK s : s = down' /\ s \in Seq(Acks) /\ \A p \in 1..Len(s) : Good(s[p], taken')
  BY <1>9
<1> QED BY <1>10 DEF Good, AcksTaken

-----------------------------------------------------------------------------

\* The types of the application's end and of the loop's own state.
LEMMA OutTypes ==
  ASSUME StreamInv, UNCHANGED server_log,
         written' \in 0..MaxLines, shutdown_sent' \in BOOLEAN,
         task' \in {"offline", "online", "ended"}, breaks' \in 0..MaxBreaks,
         next_sequence_id' \in Nat \ {0}, Counted',
         wire_replay_queue' \in Seq(Envelopes), up' \in Seq(Envelopes),
         cut' \subseteq Lines, cursor' \in Positions, sent_pos' \in Positions,
         chunk_assemblies' \subseteq Nat \X (Nat \ {0}), delivered' \in Seq(Nat),
         taken' \in 0..MaxLines, held' \subseteq Lines \X (Nat \ {0}), accepted' \in Seq(Lines),
         closed' \in BOOLEAN, down' \in Seq(Acks)
  PROVE  StreamTypeOK'
<1>1. next_sequence_id' \in 1..(written' + IF task' = "ended" THEN 2 ELSE 1)
  <2>1. PICK n \in Nat \ {0} : n = next_sequence_id'
    OBVIOUS
  <2>2. PICK w \in Nat : w = written'
    <3>1. MaxLines \in Nat
      BY SlingshotAssumption
    <3> QED BY <3>1
  <2>3. n <= w + 1 \/ (n = w + 2 /\ task' = "ended")
    BY <2>1, <2>2 DEF Counted
  <2>4. n \in 1..(w + IF task' = "ended" THEN 2 ELSE 1)
    <3>1. CASE task' = "ended"
      <4>1. n \in 1..(w + 2)
        BY <2>3
      <4> QED BY <3>1, <4>1
    <3>2. CASE task' # "ended"
      <4>1. n \in 1..(w + 1)
        BY <2>3, <3>2
      <4> QED BY <3>2, <4>1
    <3> QED BY <3>1, <3>2
  <2> QED BY <2>1, <2>2, <2>4
<1>2. server_log' \in ServerLogs /\ Positions' = Positions
  BY DEF StreamInv, StreamTypeOK, Positions
<1> QED BY <1>1, <1>2 DEF StreamTypeOK

\* The whole invariant, with what the close leaves behind.
NoneLeft == closed => \A l \in Lines : ~Due(l)

\* The whole of it is inductive.
FullInv == StreamInv /\ NoneLeft

\* The envelopes of the relay's log.
LEMMA LogTypes ==
  ASSUME StreamInv, NEW i \in 1..Len(server_log)
  PROVE  server_log[i].msg \in Nat /\ server_log[i].seg \in Nat \ {0}
<1> DEFINE E == [msg : Nat, seg : Nat \ {0}, of : Nat \ {0},
                 kind : {"good", "bad", "undecodable"}]
<1>1. server_log \in Seq(E)
  BY SlingshotAssumption DEF StreamInv, StreamTypeOK
<1>2. \A e \in E : e.msg \in Nat /\ e.seg \in Nat \ {0}
  OBVIOUS
<1> HIDE DEF E
<1>3. server_log[i] \in E
  BY <1>1
<1> QED BY <1>2, <1>3

\* Everything but the two sequences and what the relay and the reader write.
LEMMA PlainTypes ==
  ASSUME StreamInv
  PROVE  /\ written \in 0..MaxLines /\ shutdown_sent \in BOOLEAN /\ breaks \in 0..MaxBreaks
         /\ task \in {"offline", "online", "ended"} /\ next_sequence_id \in Nat \ {0}
         /\ wire_replay_queue \in Seq(Envelopes) /\ up \in Seq(Envelopes)
         /\ cut \subseteq Lines /\ cursor \in Positions /\ sent_pos \in Positions
         /\ chunk_assemblies \subseteq Nat \X (Nat \ {0}) /\ delivered \in Seq(Nat)
         /\ taken \in 0..MaxLines /\ held \subseteq Lines \X (Nat \ {0})
         /\ accepted \in Seq(Lines) /\ closed \in BOOLEAN /\ down \in Seq(Acks)
         /\ MaxLines \in Nat /\ MaxBreaks \in Nat /\ Len(server_log) \in Nat
<1>1. next_sequence_id \in Nat \ {0}
  BY StreamTypes DEF StreamInv
<1>2. MaxLines \in Nat /\ MaxBreaks \in Nat /\ Len(server_log) \in Nat
  BY SlingshotAssumption DEF StreamInv, StreamTypeOK
<1> QED BY <1>1, <1>2 DEF StreamInv, StreamTypeOK

\* In the invariant they are at hand.
LEMMA FullTypes ==
  ASSUME FullInv
  PROVE  /\ written \in 0..MaxLines /\ shutdown_sent \in BOOLEAN /\ breaks \in 0..MaxBreaks
         /\ task \in {"offline", "online", "ended"} /\ next_sequence_id \in Nat \ {0}
         /\ wire_replay_queue \in Seq(Envelopes) /\ up \in Seq(Envelopes)
         /\ cut \subseteq Lines /\ cursor \in Positions /\ sent_pos \in Positions
         /\ chunk_assemblies \subseteq Nat \X (Nat \ {0}) /\ delivered \in Seq(Nat)
         /\ taken \in 0..MaxLines /\ held \subseteq Lines \X (Nat \ {0})
         /\ accepted \in Seq(Lines) /\ closed \in BOOLEAN /\ down \in Seq(Acks)
         /\ MaxLines \in Nat /\ MaxBreaks \in Nat /\ Len(server_log) \in Nat
BY PlainTypes DEF FullInv

\* The reader's end: acknowledgements and entries come in.
LEMMA ReceiveKeeps ==
  ASSUME FullInv, ReceiveMessage \/ ReceiveBad \/ ReceiveUndecodable
  PROVE  FullInv'
<1>1. /\ task = "online" /\ down # <<>> /\ ~Head(down).ack
      /\ UNCHANGED <<written, shutdown_sent, server_log, breaks, next_sequence_id,
                     wire_replay_queue, cut, up, taken, held, accepted, closed, sent_pos>>
      /\ task' \in {"online", "offline"}
      /\ down' = Tail(down) \/ down' = <<>>
      /\ cursor' = Head(down).id \/ cursor' = cursor
      /\ ReceiveMessage \/ UNCHANGED <<chunk_assemblies, delivered>>
  BY DEF ReceiveMessage, ReceiveBad, ReceiveUndecodable, Incoming, Offline, MoveCursor, app,
         state, relay, inbound
<1>2. Head(down).id \in 1..Len(server_log)
  <2>1. down \in Seq(Acks) /\ Len(down) # 0 /\ Len(down) \in Nat
    BY <1>1, PlainTypes, EmptySeq DEF FullInv
  <2>2. 1 \in 1..Len(down) /\ Head(down) = down[1]
    BY <2>1
  <2> QED BY <1>1, <2>2 DEF FullInv, StreamInv, AcksTaken
<1>3. Counted' /\ Fitting' /\ Carried'
  <2>1. UNCHANGED relay
    BY <1>1 DEF relay
  <2> QED BY <1>1, <2>1, QuietKeeps DEF FullInv, StreamInv
<1>4. down' \in Seq(Acks) /\ AcksTaken'
  <2>1. taken \in Nat
    BY FullTypes
  <2> QED BY <1>1, <2>1, AcksKeep DEF FullInv
<1>5. cursor' \in Positions
  <2>1. cursor \in Positions
    BY FullTypes
  <2> QED BY <1>1, <1>2, <2>1 DEF Positions
<1>6. chunk_assemblies' \subseteq Nat \X (Nat \ {0}) /\ delivered' \in Seq(Nat)
  <2>1. CASE UNCHANGED <<chunk_assemblies, delivered>>
    BY <2>1, FullTypes
  <2>2. CASE ReceiveMessage
    <3>1. /\ server_log[Head(down).id].msg \in Nat
          /\ server_log[Head(down).id].seg \in Nat \ {0}
      BY <1>2, LogTypes DEF FullInv
    <3> DEFINE e == server_log[Head(down).id]
    <3>2. /\ chunk_assemblies' \subseteq chunk_assemblies \cup {<<e.msg, e.seg>>}
          /\ delivered' = Append(delivered, e.msg) \/ delivered' = delivered
      BY <2>2 DEF ReceiveMessage, Observe, Received
    <3>3. e.msg \in Nat /\ e.seg \in Nat \ {0}
      BY <3>1
    <3> HIDE DEF e
    <3>4. chunk_assemblies \subseteq Nat \X (Nat \ {0}) /\ delivered \in Seq(Nat)
      BY FullTypes
    <3>5. Append(delivered, e.msg) \in Seq(Nat)
      BY <3>3, <3>4, AppendProperties
    <3>6. <<e.msg, e.seg>> \in Nat \X (Nat \ {0})
      BY <3>3
    <3>7. chunk_assemblies' \subseteq Nat \X (Nat \ {0})
      BY <3>2, <3>4, <3>6
    <3> QED BY <3>2, <3>4, <3>5, <3>7
  <2> QED BY <1>1, <2>1, <2>2
<1>7. StreamTypeOK'
  BY <1>1, <1>3, <1>4, <1>5, <1>6, PlainTypes, OutTypes DEF FullInv
<1>8. NoneLeft'
  BY <1>1 DEF NoneLeft, FullInv, StreamInv, Fitting
<1> QED BY <1>3, <1>4, <1>7, <1>8 DEF FullInv, StreamInv

\* What the application does, a connection that is lost, and the relay's own log.
LEMMA AroundKeeps ==
  ASSUME FullInv, Write \/ PollShutdown \/ Drop \/ Break \/ RelaySends
  PROVE  FullInv'
<1>1. /\ UNCHANGED <<server_log, next_sequence_id, wire_replay_queue, cut, cursor,
                     chunk_assemblies, delivered, up, taken, held, accepted, closed>>
      /\ UNCHANGED relay
      /\ written' = written \/ (written' = written + 1 /\ task # "ended" /\ written < MaxLines)
      /\ task' = "online" => task = "online"
      /\ task = "ended" => task' = "ended"
  BY DEF Write, PollShutdown, Drop, Break, RelaySends, Lost, Offline, app, state, relay, inbound
<1>2. shutdown_sent' = shutdown_sent \/ shutdown_sent' = TRUE
  BY DEF Write, PollShutdown, Drop, Break, RelaySends, app
<1>3. breaks' = breaks \/ (breaks' = breaks + 1 /\ breaks < MaxBreaks)
  BY DEF Write, PollShutdown, Drop, Break, RelaySends, Lost
<1>4. task' \in {task, "offline", "ended"}
  BY DEF Write, PollShutdown, Drop, Break, RelaySends, Lost, Offline
<1>5. \/ down' = down \/ down' = <<>>
      \/ sent_pos < Len(server_log) /\ down' = Append(down, Entry(sent_pos + 1))
  BY DEF Write, PollShutdown, Drop, Break, RelaySends, Lost, Offline
<1>6. sent_pos' = sent_pos \/ (sent_pos < Len(server_log) /\ sent_pos' = sent_pos + 1)
  BY DEF Write, PollShutdown, Drop, Break, RelaySends
<1>7. Counted' /\ Fitting' /\ Carried'
  BY <1>1, QuietKeeps DEF FullInv, StreamInv
<1>8. down' \in Seq(Acks) /\ AcksTaken'
  <2>1. taken \in Nat /\ sent_pos \in 0..Len(server_log) /\ Len(server_log) \in Nat
    BY FullTypes DEF Positions
  <2>2. ASSUME sent_pos < Len(server_log)
        PROVE  /\ Entry(sent_pos + 1) \in Acks /\ ~Entry(sent_pos + 1).ack
               /\ Entry(sent_pos + 1).id \in 1..Len(server_log)
    BY <2>1, <2>2 DEF Entry, Acks
  <2>3. \/ UNCHANGED down \/ down' = <<>>
        \/ \E e \in Acks : /\ down' = Append(down, e)
                           /\ IF e.ack THEN e.id <= taken' ELSE e.id \in 1..Len(server_log)
    BY <1>5, <2>2
  <2>4. taken' \in Nat /\ taken <= taken'
    BY <1>1, <2>1
  <2> QED BY <1>1, <2>3, <2>4, AcksKeep DEF FullInv
<1>9. StreamTypeOK'
  <2>1. written' \in 0..MaxLines /\ breaks' \in 0..MaxBreaks
    <3>1. written \in 0..MaxLines /\ MaxLines \in Nat /\ breaks \in 0..MaxBreaks /\ MaxBreaks \in Nat
      BY FullTypes
    <3>2. written' = written \/ (written' = written + 1 /\ written < MaxLines)
      BY <1>1
    <3> QED BY <1>3, <3>1, <3>2
  <2>2. sent_pos' \in Positions
    BY <1>6, FullTypes DEF Positions
  <2>3. shutdown_sent' \in BOOLEAN /\ task' \in {"offline", "online", "ended"}
    BY <1>2, <1>4, FullTypes
  <2> QED BY <1>1, <1>7, <1>8, <2>1, <2>2, <2>3, PlainTypes, OutTypes DEF FullInv
<1>10. NoneLeft'
  <2>1. LastHandled' = LastHandled \/ ~closed
    <3>1. CASE written' = written
      BY <1>1, <3>1 DEF LastHandled
    <3>2. CASE task # "ended"
      BY <3>2 DEF FullInv, StreamInv, Fitting
    <3> QED BY <1>1, <3>1, <3>2
  <2> QED BY <1>1, <2>1 DEF NoneLeft, FullInv, Due, Handled, Whole
<1> QED BY <1>7, <1>8, <1>9, <1>10 DEF FullInv, StreamInv

\* The steps of the loop that change what it keeps or sends.
LEMMA ControlKeeps ==
  ASSUME FullInv, Reconnect \/ Outbound \/ Closing \/ ReceiveAck
  PROVE  FullInv'
<1>t. /\ Len(wire_replay_queue) \in Nat /\ wire_replay_queue \in Seq(Envelopes)
      /\ up \in Seq(Envelopes) /\ taken \in Nat
  BY StreamTypes DEF FullInv, StreamInv
<1>1. /\ UNCHANGED <<written, shutdown_sent, server_log, cursor, chunk_assemblies, delivered,
                     taken, held, accepted, closed>>
      /\ task # "ended"
  BY DEF Reconnect, Connect, Outbound, HandleOutboundBytes, Closing, HandleShutdown, ReceiveAck,
         app, inbound, relay
<1>2. task' \in {"offline", "online", "ended"}
  <2>1. task \in {"offline", "online", "ended"}
    BY FullTypes
  <2> QED BY <2>1 DEF Reconnect, Connect, Outbound, HandleOutboundBytes, Closing, HandleShutdown,
                      ReceiveAck, Lost, Offline
<1>3. breaks' \in 0..MaxBreaks
  <2>1. breaks' = breaks \/ (breaks' = breaks + 1 /\ breaks < MaxBreaks)
    BY DEF Reconnect, Connect, Outbound, HandleOutboundBytes, Closing, HandleShutdown, ReceiveAck,
           Lost
  <2> QED BY <2>1, PlainTypes DEF FullInv
<1>4. sent_pos' \in Positions
  <2>1. sent_pos' = sent_pos \/ sent_pos' = cursor
    BY DEF Reconnect, Connect, Outbound, HandleOutboundBytes, Closing, HandleShutdown, ReceiveAck
  <2> QED BY <1>1, <2>1, PlainTypes DEF FullInv, Positions
<1>5. down' \in Seq(Acks) /\ AcksTaken'
  <2>1. \/ UNCHANGED down \/ down' = <<>>
        \/ down # <<>> /\ down' = Tail(down)
    BY DEF Reconnect, Connect, Outbound, HandleOutboundBytes, Closing, HandleShutdown, ReceiveAck,
           Lost, Offline
  <2> QED BY <1>t, <1>1, <2>1, AcksKeep DEF FullInv
<1> DEFINE Seen ==
      /\ Counted' /\ Fitting' /\ Carried'
      /\ next_sequence_id' \in Nat \ {0}
      /\ cut' \subseteq Lines
      /\ wire_replay_queue' \in Seq(Envelopes) /\ up' \in Seq(Envelopes)
<1>6. ASSUME NEW k \in 0..Len(Replay), Connect(k) PROVE Seen
  <2>1. UNCHANGED <<next_sequence_id, cut, wire_replay_queue>> /\ up' = SubSeq(wire_replay_queue, 1, k)
        /\ k \in 0..Len(wire_replay_queue)
    BY <1>6 DEF Connect, state, Replay
  <2>2. SubSeq(wire_replay_queue, 1, k) \in Seq(Envelopes)
    BY <1>t, <2>1
  <2> QED BY <1>6, <2>1, <2>2, ConnectKeeps, PlainTypes DEF FullInv
<1>7. ASSUME NEW sent \in Nat, HandleOutboundBytes(sent) PROVE Seen
  <2> DEFINE line == next_sequence_id
             kept == KeptBeforeSend(sent)
  <2>1. /\ next_sequence_id' = line + 1
        /\ line \in Nat \ {0} /\ line \in Lines /\ kept \in Nat
        /\ cut' \subseteq cut \cup {line}
        /\ wire_replay_queue' = wire_replay_queue \o Split(line, kept)
        /\ up' = up \o Split(line, sent)
    <3>1. line \in Nat \ {0} /\ Lines = 1..MaxLines /\ written \in 0..MaxLines /\ MaxLines \in Nat
          /\ Segments \in [Lines -> Nat]
      BY StreamTypes DEF FullInv, StreamInv
    <3>2. line <= written
      BY <1>7 DEF HandleOutboundBytes
    <3>3. line \in Lines
      BY <3>1, <3>2
    <3>4. kept \in Nat
      BY <3>1, <3>3 DEF KeptBeforeSend
    <3> QED BY <1>7, <3>1, <3>3, <3>4 DEF HandleOutboundBytes, NextId, PushBack
  <2> HIDE DEF line, kept
  <2>2. wire_replay_queue \o Split(line, kept) \in Seq(Envelopes)
    <3>1. AddsSplit(wire_replay_queue \o Split(line, kept), wire_replay_queue, line, kept)
      BY DEF AddsSplit
    <3> QED BY <1>t, <2>1, <3>1, SplitIs
  <2>3. up \o Split(line, sent) \in Seq(Envelopes)
    <3>1. AddsSplit(up \o Split(line, sent), up, line, sent)
      BY DEF AddsSplit
    <3> QED BY <1>t, <2>1, <3>1, SplitIs
  <2>4. cut' \subseteq Lines /\ next_sequence_id' \in Nat \ {0}
    <3>1. cut \subseteq Lines
      BY FullTypes
    <3>2. cut' \subseteq Lines
      BY <2>1, <3>1
    <3>3. next_sequence_id' \in Nat \ {0}
      BY <2>1
    <3> QED BY <3>2, <3>3
  <2>5. Counted' /\ Fitting' /\ Carried'
    BY <1>7, OutboundKeeps DEF FullInv
  <2> QED BY <2>1, <2>2, <2>3, <2>4, <2>5
<1>8. ASSUME NEW ok \in BOOLEAN, HandleShutdown(ok) PROVE Seen
  <2> DEFINE e == [seq |-> next_sequence_id, seg |-> 0]
  <2>1. /\ next_sequence_id' = next_sequence_id + 1 /\ UNCHANGED <<cut, wire_replay_queue>>
        /\ up' = up \/ up' = Append(up, e)
    BY <1>8 DEF HandleShutdown, NextId
  <2>2. e \in Envelopes /\ next_sequence_id \in Nat \ {0}
    BY PlainTypes DEF FullInv, Envelopes
  <2> HIDE DEF e
  <2>3. Append(up, e) \in Seq(Envelopes)
    BY <1>t, <2>2, AppendProperties
  <2>4. next_sequence_id' \in Nat \ {0}
    BY <2>1, <2>2
  <2>5. Counted' /\ Fitting' /\ Carried'
    BY <1>8, ShutdownKeeps DEF FullInv
  <2> QED BY <1>t, <2>1, <2>3, <2>4, <2>5, PlainTypes DEF FullInv
<1>9. ASSUME ReceiveAck PROVE Seen
  <2>1. UNCHANGED <<next_sequence_id, cut, up>>
    BY <1>9 DEF ReceiveAck
  <2>2. PICK k \in 0..Len(wire_replay_queue) :
          wire_replay_queue' = SubSeq(wire_replay_queue, k + 1, Len(wire_replay_queue))
    BY <1>9 DEF ReceiveAck
  <2>3. SubSeq(wire_replay_queue, k + 1, Len(wire_replay_queue)) \in Seq(Envelopes)
    BY <1>t
  <2>4. Counted' /\ Fitting' /\ Carried'
    BY <1>9, AckKeeps DEF FullInv
  <2> QED BY <2>1, <2>2, <2>3, <2>4, PlainTypes DEF FullInv
<1>10. Seen
  <2>1. \A sent \in UNION {0..Segments[l] : l \in Lines} : sent \in Nat
    BY SlingshotAssumption
  <2> QED BY <1>6, <1>7, <1>8, <1>9, <2>1 DEF Reconnect, Outbound, Closing
<1>11. StreamTypeOK'
  BY <1>1, <1>2, <1>3, <1>4, <1>5, <1>10, PlainTypes, OutTypes DEF FullInv
<1>12. NoneLeft'
  BY <1>1 DEF NoneLeft, FullInv, StreamInv, Fitting
<1> QED BY <1>5, <1>10, <1>11, <1>12 DEF FullInv, StreamInv

\* The relay's steps.
LEMMA RelayKeeps ==
  ASSUME FullInv, Relay
  PROVE  FullInv'
<1>1. /\ UNCHANGED <<written, shutdown_sent, server_log, task, breaks, next_sequence_id,
                     wire_replay_queue, cut, cursor, chunk_assemblies, delivered, sent_pos>>
      /\ up # <<>> /\ up' = Tail(up)
      /\ closed' = closed \/ (RelayCloses /\ closed' = TRUE)
  BY DEF Relay, RelayCloses, RelayTakesAgain, RelayTakes, app, state, inbound, relay
<1>2. up' \in Seq(Envelopes)
  BY <1>1, PlainTypes, HeadTailProperties DEF FullInv
<1>3. /\ Counted' /\ Fitting' /\ Carried'
      /\ NoneLeft'
      /\ taken' \in 0..MaxLines /\ taken <= taken' /\ held' \subseteq Lines \X (Nat \ {0})
      /\ accepted' \in Seq(Lines)
      /\ UNCHANGED down \/ Acknowledge(taken')
  <2>1. CASE RelayCloses
    <3>1. UNCHANGED <<taken, held, accepted, down>>
      BY <2>1 DEF RelayCloses
    <3>2. taken <= taken
      BY PlainTypes DEF FullInv
    <3> QED BY <2>1, <3>1, <3>2, ClosesKeeps, PlainTypes DEF FullInv, NoneLeft
  <2>2. CASE RelayTakesAgain
    <3>1. UNCHANGED <<taken, held, accepted, closed>> /\ Acknowledge(taken)
      BY <2>2 DEF RelayTakesAgain, relay
    <3>2. \A l : Due(l)' <=> Due(l)
      BY <1>1, <3>1 DEF Due, Handled, LastHandled, Whole
    <3>3. taken <= taken /\ Acknowledge(taken')
      BY <3>1, FullTypes DEF Acknowledge
    <3>4. NoneLeft'
      BY <3>1, <3>2 DEF FullInv, NoneLeft
    <3> QED BY <2>2, <3>1, <3>3, <3>4, AgainKeeps, PlainTypes DEF FullInv
  <2>3. CASE RelayTakes
    <3>1. /\ Counted' /\ Fitting' /\ Carried'
          /\ \A l \in Lines : Due(l)' => Due(l)
          /\ taken' \in Nat /\ taken <= taken' /\ taken' <= MaxLines
          /\ held' \subseteq Lines \X (Nat \ {0})
          /\ accepted' \in Seq(Lines)
          /\ \/ UNCHANGED down
             \/ Acknowledge(taken')
      BY <2>3, TakesKeeps DEF FullInv
    <3>2. closed' = closed
      BY <2>3 DEF RelayTakes
    <3>3. taken' \in 0..MaxLines
      BY <3>1, FullTypes
    <3>4. NoneLeft'
      <4>1. closed => \A l \in Lines : ~Due(l)
        BY DEF FullInv, NoneLeft
      <4> QED BY <3>1, <3>2, <4>1 DEF NoneLeft
    <3> QED BY <3>1, <3>3, <3>4
  <2> QED BY <2>1, <2>2, <2>3 DEF Relay
<1>4. down' \in Seq(Acks) /\ AcksTaken'
  <2>1. taken' \in Nat /\ taken' <= taken'
    BY <1>3, FullTypes
  <2>2. ASSUME Acknowledge(taken')
        PROVE  \/ UNCHANGED down
               \/ \E e \in Acks : /\ down' = Append(down, e)
                                  /\ IF e.ack THEN e.id <= taken' ELSE e.id \in 1..Len(server_log)
    <3>1. Ack(taken') \in Acks /\ Ack(taken').ack /\ Ack(taken').id <= taken'
      BY <2>1 DEF Ack, Acks
    <3>2. down' = down \/ down' = Append(down, Ack(taken'))
      BY <2>2 DEF Acknowledge
    <3> HIDE DEF Ack
    <3> QED BY <3>1, <3>2
  <2> QED BY <1>1, <1>3, <2>1, <2>2, AcksKeep DEF FullInv
<1>5. closed' \in BOOLEAN
  BY <1>1, PlainTypes DEF FullInv
<1>6. StreamTypeOK'
  <2>1. UNCHANGED Positions
    BY <1>1 DEF Positions
  <2> QED BY <1>1, <1>2, <1>3, <1>4, <1>5, <2>1, PlainTypes, OutTypes DEF FullInv
<1> QED BY <1>3, <1>4, <1>6 DEF FullInv, StreamInv

\* In the beginning nothing has been written.
LEMMA StreamInitInv ==
  ASSUME StreamInit
  PROVE  FullInv
<1>1. /\ written = 0 /\ shutdown_sent = FALSE /\ server_log \in ServerLogs
      /\ task = "offline" /\ breaks = 0
      /\ next_sequence_id = 1 /\ wire_replay_queue = <<>> /\ cut = {}
      /\ cursor = 0 /\ chunk_assemblies = {} /\ delivered = <<>>
      /\ up = <<>> /\ down = <<>>
      /\ taken = 0 /\ held = {} /\ accepted = <<>> /\ closed = FALSE /\ sent_pos = 0
  BY DEF StreamInit
<1>2. /\ MaxLines \in Nat /\ MaxBreaks \in Nat /\ Len(server_log) \in Nat
      /\ Len(up) = 0 /\ Len(wire_replay_queue) = 0 /\ Len(down) = 0
  BY <1>1, SlingshotAssumption
<1>3. LastHandled = 0 /\ Handled = {}
  BY <1>1 DEF LastHandled, Handled
<1>4. StreamTypeOK
  <2>1. /\ written \in 0..MaxLines /\ breaks \in 0..MaxBreaks /\ taken \in 0..MaxLines
        /\ cursor \in Positions /\ sent_pos \in Positions
    BY <1>1, <1>2 DEF Positions
  <2>2. next_sequence_id \in 1..(written + IF task = "ended" THEN 2 ELSE 1)
    BY <1>1
  <2>3. /\ wire_replay_queue \in Seq(Envelopes) /\ up \in Seq(Envelopes)
        /\ delivered \in Seq(Nat) /\ down \in Seq(Acks) /\ accepted \in Seq(Lines)
    BY <1>1
  <2> QED BY <1>1, <2>1, <2>2, <2>3 DEF StreamTypeOK
<1>5. Counted /\ Fitting /\ AcksTaken
  BY <1>1, <1>2, <1>3 DEF Counted, Fitting, AcksTaken
<1>6. AheadUp /\ SentOnline /\ AheadKept /\ DueKept /\ HeldInPart /\ NoneLeft
  BY <1>1, <1>2, <1>3 DEF AheadUp, SentOnline, AheadKept, DueKept, HeldInPart, Due, NoneLeft
<1>7. AcceptedSoFar
  <2>1. UpTo(0) \in Seq(Nat) /\ Len(UpTo(0)) = 0
    BY UpToIs
  <2> DEFINE r == Retain(UpTo(0), WholeLines)
  <2>2. PICK g : Steps(g, UpTo(0), 0, WholeLines) /\ r = g[0]
    BY <2>1, RetainSteps
  <2> QED BY <1>1, <2>2 DEF Steps, AcceptedSoFar
<1> QED BY <1>4, <1>5, <1>6, <1>7 DEF FullInv, StreamInv, Carried

\* Every step keeps the invariant.
LEMMA StreamNextKeeps == FullInv /\ [StreamNext]_streamVars => FullInv'
<1> SUFFICES ASSUME FullInv, [StreamNext]_streamVars PROVE FullInv'
  OBVIOUS
<1>1. CASE StreamNext
  BY <1>1, AroundKeeps, ControlKeeps, ReceiveKeeps, RelayKeeps DEF StreamNext, Receive
<1>2. CASE UNCHANGED streamVars
  <2>1. /\ UNCHANGED <<written, shutdown_sent, server_log, task, breaks, next_sequence_id,
                       wire_replay_queue, cut, cursor, chunk_assemblies, delivered, up, down,
                       taken, held, accepted, closed, sent_pos>>
        /\ UNCHANGED relay
    BY <1>2 DEF streamVars, relay
  <2>2. Counted' /\ Fitting' /\ Carried'
    BY <2>1, QuietKeeps DEF FullInv, StreamInv
  <2>3. AcksTaken' /\ StreamTypeOK'
    BY <2>1 DEF FullInv, StreamInv, AcksTaken, StreamTypeOK, Positions
  <2>4. NoneLeft'
    BY <2>1 DEF FullInv, NoneLeft, Due, Handled, LastHandled, Whole
  <2> QED BY <2>2, <2>3, <2>4 DEF FullInv, StreamInv
<1> QED BY <1>1, <1>2

\* It holds.
LEMMA FullStreamInv == StreamSpec => []FullInv
BY StreamInitInv, StreamNextKeeps, PTL DEF StreamSpec

\* The stream keeps its types.
THEOREM StreamTypeCorrect == StreamSpec => []StreamTypeOK
<1>1. FullInv => StreamTypeOK
  BY DEF FullInv, StreamInv
<1> QED BY <1>1, FullStreamInv, PTL

\* The app server hears of the close only after every line written before it.
THEOREM ClosedLast == StreamSpec => []ClosedIsLast
<1>1. FullInv => ClosedIsLast
  <2> SUFFICES ASSUME FullInv, closed, NEW l \in 1..written, Whole(l) PROVE Accepted(l)
    BY DEF ClosedIsLast
  <2>1. /\ written \in 0..MaxLines /\ MaxLines \in Nat /\ Lines = 1..MaxLines
        /\ next_sequence_id = written + 2 /\ taken \in Nat
    BY StreamTypes DEF FullInv, StreamInv, Fitting
  <2>2. l \in Lines /\ l \in Handled /\ l \in WholeLines
    BY <2>1 DEF Handled, LastHandled, WholeLines
  <2>3. l <= taken
    BY <2>1, <2>2 DEF FullInv, NoneLeft, Due
  <2>4. UpTo(taken) \in Seq(Nat) /\ Len(UpTo(taken)) = taken /\ UpTo(taken)[l] = l
    BY <2>1, <2>3, UpToIs
  <2>5. Complete(Retain(UpTo(taken), WholeLines), UpTo(taken), Len(UpTo(taken)), WholeLines)
    BY <2>4, RetainMade
  <2>6. l \in 1..Len(UpTo(taken))
    BY <2>1, <2>3, <2>4
  <2> QED BY <2>2, <2>4, <2>5, <2>6 DEF Complete, Accepted, FullInv, StreamInv, Carried, AcceptedSoFar
<1> QED BY <1>1, FullStreamInv, PTL

-----------------------------------------------------------------------------

\* The lines that go into the abstract stream.
Input == Retain([l \in Handled |-> l], {l \in Lines : Whole(l)})

\* It is what Retain leaves of the lines that have been handled.
LEMMA InputIs == Input = Retain(UpTo(LastHandled), WholeLines)
BY DEF Input, UpTo, Handled, WholeLines

\* Steps that take no line.
LEMMA SameLines ==
  ASSUME UNCHANGED <<next_sequence_id, cut>>,
         \/ written' = written
         \/ written' = written + 1 /\ next_sequence_id <= written + 1,
         FullInv
  PROVE  Input' = Input /\ LastHandled' = LastHandled /\ WholeLines' = WholeLines
<1>1. next_sequence_id \in Nat /\ written \in Nat
  BY PlainTypes DEF FullInv
<1>2. LastHandled' = LastHandled
  <2>1. CASE written' = written
    BY <2>1 DEF LastHandled
  <2>2. CASE written' = written + 1 /\ next_sequence_id <= written
    BY <1>1, <2>2 DEF LastHandled
  <2>3. CASE written' = written + 1 /\ next_sequence_id = written + 1
    BY <1>1, <2>3 DEF LastHandled
  <2> QED BY <1>1, <2>1, <2>2, <2>3
<1>3. WholeLines' = WholeLines
  BY DEF WholeLines, Whole
<1>4. Input' = Input
  BY <1>2 DEF Input, Handled, Whole
<1> QED BY <1>2, <1>3, <1>4

\* A line is handled: it is the next of the abstract stream, if it is carried.
LEMMA HandlesLine ==
  ASSUME FullInv, NEW sent \in Nat, HandleOutboundBytes(sent)
  PROVE  /\ Input' = Input
            \/ (Len(Input') = Len(Input) + 1 /\ SubSeq(Input', 1, Len(Input)) = Input)
         /\ task # "ended" /\ task' # "ended" /\ UNCHANGED accepted
<1> DEFINE line == next_sequence_id
<1>1. /\ task = "online" /\ task' # "ended" /\ line <= written /\ UNCHANGED <<written, accepted>>
      /\ next_sequence_id' = line + 1 /\ cut' \subseteq cut \cup {line} /\ cut \subseteq cut'
  BY DEF HandleOutboundBytes, NextId, app, relay, Offline, Lost
<1>2. line \in Nat \ {0} /\ written \in Nat
  BY PlainTypes DEF FullInv
<1>3. LastHandled = line - 1 /\ LastHandled' = line /\ line - 1 \in Nat
  BY <1>1, <1>2 DEF LastHandled
<1>4. PICK W : W = WholeLines'
  OBVIOUS
<1>5. \A l \in 1..(line - 1) : l \in W <=> l \in WholeLines
  BY <1>1, <1>2, <1>4 DEF WholeLines, Whole
<1> DEFINE r == Retain(UpTo(line - 1), WholeLines)
           t == Retain(UpTo((line - 1) + 1), W)
<1>6. Retain(UpTo(line - 1), W) = r /\ r \in Seq(Nat)
  <2>1. UpTo(line - 1) \in Seq(Nat) /\ Len(UpTo(line - 1)) = line - 1
        /\ \A i \in 1..(line - 1) : UpTo(line - 1)[i] = i
    BY <1>3, UpToIs
  <2> HIDE DEF line
  <2>2. \A i \in 1..Len(UpTo(line - 1)) : UpTo(line - 1)[i] \in WholeLines <=> UpTo(line - 1)[i] \in W
    BY <1>5, <2>1
  <2> QED BY <2>1, <2>2, RetainAgrees, RetainElements
<1>7. t = r \/ t = Append(r, (line - 1) + 1)
  <2> HIDE DEF line
  <2>1. t = IF (line - 1) + 1 \in W THEN Append(Retain(UpTo(line - 1), W), (line - 1) + 1)
            ELSE Retain(UpTo(line - 1), W)
    BY <1>3, UpToNext
  <2> QED BY <1>6, <2>1
<1>8. Input = r /\ Input' = t
  <2>1. (line - 1) + 1 = line
    BY <1>2
  <2>2. Input = r
    BY <1>3, InputIs
  <2>3. Input' = Retain(UpTo(LastHandled), WholeLines)'
    BY DEF Input, UpTo, Handled, WholeLines
  <2>4. Retain(UpTo(LastHandled), WholeLines)' = Retain(UpTo(line), W)
    BY <1>3, <1>4 DEF UpTo
  <2> QED BY <2>1, <2>2, <2>3, <2>4
<1>9. ASSUME t = Append(r, (line - 1) + 1)
      PROVE  Len(t) = Len(r) + 1 /\ SubSeq(t, 1, Len(r)) = r
  <2>1. (line - 1) + 1 \in Nat
    BY <1>2
  <2> HIDE DEF r, line, t
  <2>2. /\ t \in Seq(Nat) /\ Len(t) = Len(r) + 1 /\ Len(r) \in Nat
        /\ \A i \in 1..Len(r) : t[i] = r[i]
    BY <1>6, <1>9, <2>1, AppendProperties
  <2> DEFINE u == SubSeq(t, 1, Len(r))
  <2>3. u \in Seq(Nat) /\ Len(u) = Len(r) /\ \A i \in 1..Len(r) : u[i] = t[i]
    BY <2>2
  <2> HIDE DEF u
  <2>4. u = r
    BY <1>6, <2>2, <2>3, SeqEqual
  <2> QED BY <2>2, <2>4 DEF u
<1> QED BY <1>1, <1>7, <1>8, <1>9

\* The relay hands the next line of the abstract stream to the app server.
LEMMA TakesNext ==
  ASSUME FullInv, RelayTakes
  PROVE  /\ \/ UNCHANGED accepted
            \/ /\ Len(accepted) < Len(Input)
               /\ accepted' = Append(accepted, Input[Len(accepted) + 1])
         /\ Input' = Input /\ UNCHANGED task
<1>1. UNCHANGED <<written, next_sequence_id, cut, task>>
  BY DEF RelayTakes, app, state
<1>2. Input' = Input /\ LastHandled' = LastHandled /\ WholeLines' = WholeLines
  BY <1>1, SameLines
<1>3. Counted' /\ AcceptedSoFar' /\ taken' \in Nat /\ LastHandled \in Nat
  BY TakesKeeps, StreamTypes DEF FullInv, StreamInv, Carried
<1>4. PICK n \in Nat : n = taken' /\ n <= LastHandled
  BY <1>2, <1>3 DEF Counted
<1> DEFINE a == Retain(UpTo(n), WholeLines)
<1>5. accepted' = a
  BY <1>2, <1>3, <1>4 DEF AcceptedSoFar, UpTo
<1>6. /\ a \in Seq(Nat) /\ Input \in Seq(Nat) /\ Len(a) <= Len(Input)
      /\ \A i \in 1..Len(a) : Input[i] = a[i]
  BY <1>3, <1>4, InputIs, UpToMore
<1> HIDE DEF a
<1>7. accepted' = accepted \/ accepted' = Append(accepted, Head(up).seq)
  BY DEF RelayTakes
<1>8. ASSUME accepted' = Append(accepted, Head(up).seq)
      PROVE  /\ Len(accepted) < Len(Input)
             /\ accepted' = Append(accepted, Input[Len(accepted) + 1])
  <2>1. accepted \in Seq(Nat)
    <3>1. UpTo(taken) \in Seq(Nat) /\ taken \in Nat
      BY StreamTypes, UpToIs DEF FullInv, StreamInv
    <3> QED BY <3>1, RetainElements DEF FullInv, StreamInv, Carried, AcceptedSoFar
  <2>2. Head(up).seq \in Nat
    <3>1. up \in Seq(Envelopes) /\ up # <<>>
      BY PlainTypes DEF FullInv, RelayTakes
    <3>2. Head(up) \in Envelopes
      BY <3>1, HeadTailProperties
    <3> QED BY <3>2 DEF Envelopes
  <2> DEFINE x == Head(up).seq
  <2> HIDE DEF x
  <2>3. a = Append(accepted, x) /\ x \in Nat
    BY <1>5, <1>8, <2>2 DEF x
  <2>4. Len(a) = Len(accepted) + 1 /\ a[Len(accepted) + 1] = x /\ Len(accepted) \in Nat
    BY <2>1, <2>3, AppendProperties
  <2>5. Len(Input) \in Nat
    BY <1>6
  <2>6. Len(accepted) + 1 \in 1..Len(a)
    BY <2>4
  <2>7. Len(accepted) < Len(Input) /\ Input[Len(accepted) + 1] = x
    BY <1>6, <2>4, <2>5, <2>6
  <2> QED BY <1>5, <2>3, <2>7
<1> QED BY <1>1, <1>2, <1>7, <1>8

\* Every step is one of the abstract stream or leaves it as it is.
LEMMA StreamSteps ==
  FullInv /\ [StreamNext]_streamVars => [UpStream!Next]_(UpStream!fifo)
<1> SUFFICES ASSUME FullInv, [StreamNext]_streamVars PROVE [UpStream!Next]_(UpStream!fifo)
  OBVIOUS
<1> DEFINE Same == Input' = Input /\ UNCHANGED accepted /\ (task = "ended")' = (task = "ended")
           Puts == /\ task # "ended" /\ Len(Input') = Len(Input) + 1
                   /\ SubSeq(Input', 1, Len(Input)) = Input
                   /\ UNCHANGED accepted /\ (task = "ended")' = (task = "ended")
           Delivers == /\ Len(accepted) < Len(Input)
                       /\ accepted' = Append(accepted, Input[Len(accepted) + 1])
                       /\ Input' = Input /\ (task = "ended")' = (task = "ended")
           Finishes == task # "ended" /\ (task = "ended")' = TRUE /\ Input' = Input /\ UNCHANGED accepted
<1>1. Same \/ Puts \/ Delivers \/ Finishes => [UpStream!Next]_(UpStream!fifo)
  BY DEF UpStream!Next, UpStream!Put, UpStream!Deliver, UpStream!End, UpStream!fifo, Input
<1>2. CASE UNCHANGED streamVars
  <2>1. UNCHANGED <<written, next_sequence_id, cut, task, accepted>>
    BY <1>2 DEF streamVars
  <2> QED BY <1>1, <2>1, SameLines
<1>3. CASE Drop
  <2>1. /\ UNCHANGED <<written, next_sequence_id, cut, accepted>>
        /\ task # "ended" /\ task' = "ended"
    BY <1>3 DEF Drop, app, state, relay
  <2> QED BY <1>1, <2>1, SameLines
<1>4. CASE Write \/ PollShutdown \/ Break \/ RelaySends \/ Receive \/ Reconnect
  <2>1. UNCHANGED <<next_sequence_id, cut, accepted>>
    BY <1>4 DEF Write, PollShutdown, Break, RelaySends, Receive, ReceiveAck, ReceiveMessage,
                ReceiveBad, ReceiveUndecodable, Reconnect, Connect, state, relay
  <2>2. (task = "ended") = FALSE /\ (task = "ended")' = FALSE
    BY <1>4 DEF Write, PollShutdown, Break, RelaySends, Receive, ReceiveAck, ReceiveMessage,
                ReceiveBad, ReceiveUndecodable, Reconnect, Connect, Incoming, Lost, Offline
  <2>3. written' = written \/ written' = written + 1
    BY <1>4 DEF Write, PollShutdown, Break, RelaySends, Receive, ReceiveAck, ReceiveMessage,
                ReceiveBad, ReceiveUndecodable, Reconnect, Connect, app
  <2>4. next_sequence_id <= written + 1
    BY <2>2 DEF FullInv, StreamInv, Counted
  <2> QED BY <1>1, <2>1, <2>2, <2>3, <2>4, SameLines
<1>5. CASE Closing
  <2>1. PICK ok \in BOOLEAN : HandleShutdown(ok)
    BY <1>5 DEF Closing
  <2>2. /\ UNCHANGED <<written, cut, accepted>> /\ next_sequence_id = written + 1
        /\ next_sequence_id' = written + 1 + 1 /\ task = "online" /\ task' = "ended"
    BY <2>1 DEF HandleShutdown, NextId, app, relay
  <2>3. LastHandled' = LastHandled
    <3>1. written \in Nat
      BY FullTypes
    <3>2. ~(next_sequence_id <= written) /\ ~(next_sequence_id' <= written)
      BY <2>2, <3>1
    <3> QED BY <2>2, <3>2 DEF LastHandled
  <2>4. Input' = Input
    BY <2>2, <2>3 DEF Input, Handled, Whole
  <2> QED BY <1>1, <2>2, <2>4
<1>6. CASE Outbound
  <2>1. PICK sent \in Nat : HandleOutboundBytes(sent)
    <3>1. \A sent \in UNION {0..Segments[l] : l \in Lines} : sent \in Nat
      BY SlingshotAssumption
    <3> QED BY <1>6, <3>1 DEF Outbound
  <2>2. Same \/ Puts
    BY <2>1, HandlesLine
  <2> QED BY <1>1, <2>2
<1>7. CASE RelayCloses \/ RelayTakesAgain
  <2>1. UNCHANGED <<written, next_sequence_id, cut, task, accepted>>
    BY <1>7 DEF RelayCloses, RelayTakesAgain, app, state, relay
  <2> QED BY <1>1, <2>1, SameLines
<1>8. CASE RelayTakes
  <2>1. Same \/ Delivers
    BY <1>8, TakesNext
  <2> QED BY <1>1, <2>1
<1> QED BY <1>2, <1>3, <1>4, <1>5, <1>6, <1>7, <1>8 DEF StreamNext, Relay

\* It begins where the abstract stream begins.
LEMMA StreamStarts == StreamInit => UpStream!Init
<1> SUFFICES ASSUME StreamInit PROVE UpStream!Init
  OBVIOUS
<1>1. Input \in Seq(Nat)
  <2>1. UpTo(LastHandled) \in Seq(Nat)
    BY StreamInitInv, StreamTypes, UpToIs DEF FullInv, StreamInv
  <2> QED BY <2>1, InputIs, RetainElements
<1> QED BY <1>1 DEF UpStream!Init, Input, StreamInit

\* What the relay hands to the app server is what the loop has taken from the
\* application, line by line, in order, none twice and none left out in between.
THEOREM LinesInOrder == StreamSpec => UpStream!Spec
BY StreamStarts, StreamSteps, FullStreamInv, PTL DEF StreamSpec, UpStream!Spec

-----------------------------------------------------------------------------

\* While the loop is online, what the relay has sent and the loop has not seen is on its
\* way, one entry after the other.
EntriesCome ==
  /\ task # "online" => down = <<>>
  /\ task = "online" =>
       /\ cursor <= sent_pos
       /\ \A p \in 1..Len(down) : ~down[p].ack => down[p].id \in (cursor + 1)..sent_pos
       /\ \A p, r \in 1..Len(down) :
            p < r /\ ~down[p].ack /\ ~down[r].ack => down[p].id < down[r].id
       /\ \A n \in (cursor + 1)..sent_pos :
            \E p \in 1..Len(down) : ~down[p].ack /\ down[p].id = n

\* The cursor never gets past an envelope that cannot be parsed.
ReadSoFar == \A j \in 1..cursor : server_log[j].kind # "undecodable"

\* The chunks that are held are those the cursor has passed, undamaged, of messages that
\* are not complete.
Passed(m, k, n) ==
  /\ \E j \in 1..n : /\ server_log[j].kind = "good"
                     /\ server_log[j].msg = m /\ server_log[j].seg = k
  /\ \A i \in 1..n : server_log[i].msg = m => i \notin Completing
ChunksHeld == \A m, k : <<m, k>> \in chunk_assemblies <=> Passed(m, k, cursor)

\* The messages that are complete with the first n entries of the log.
MessagesTo(n) ==
  LET ends == Retain(UpTo(n), Completing)
  IN [i \in 1..Len(ends) |-> server_log[ends[i]].msg]

\* Those the cursor has passed have been delivered.
DeliveredSoFar == delivered = MessagesTo(cursor)

\* The inductive invariant of the way down.
DownInv == EntriesCome /\ ReadSoFar /\ ChunksHeld /\ DeliveredSoFar

\* The log is one of those the relay may have.
LEMMA LogIs ==
  ASSUME StreamInv
  PROVE  /\ \A i \in 1..Len(server_log) :
              /\ server_log[i].msg \in Nat /\ server_log[i].seg \in 1..server_log[i].of
              /\ server_log[i].of \in Nat
         /\ WellCut(server_log)
<1>1. server_log \in ServerLogs
  BY DEF StreamInv, StreamTypeOK
<1>2. WellCut(server_log)
  BY <1>1, SlingshotAssumption
<1>3. server_log \in Seq([msg : Nat, seg : Nat \ {0}, of : Nat \ {0},
                          kind : {"good", "bad", "undecodable"}])
  BY <1>1, SlingshotAssumption
<1>4. ASSUME NEW i \in 1..Len(server_log)
      PROVE  /\ server_log[i].msg \in Nat /\ server_log[i].seg \in 1..server_log[i].of
             /\ server_log[i].of \in Nat
  <2> DEFINE E == [msg : Nat, seg : Nat \ {0}, of : Nat \ {0},
                   kind : {"good", "bad", "undecodable"}]
  <2>0. server_log \in Seq(E)
    BY <1>3
  <2>e. server_log[i] \in E
    <3> HIDE DEF E
    <3> QED BY <2>0
  <2>1. /\ server_log[i].msg \in Nat /\ server_log[i].seg \in Nat \ {0}
        /\ server_log[i].of \in Nat \ {0}
    BY <2>e
  <2>2. server_log[i].seg <= server_log[i].of
    BY <1>2 DEF WellCut
  <2> QED BY <2>1, <2>2
<1> QED BY <1>2, <1>4

\* The first entry on its way is the one after the cursor.
LEMMA HeadIsNext ==
  ASSUME EntriesCome, task = "online", cursor \in Nat, sent_pos \in Nat, Len(down) \in Nat,
         1 \in 1..Len(down), ~down[1].ack
  PROVE  down[1].id = cursor + 1
<1>1. down[1].id \in (cursor + 1)..sent_pos
  BY DEF EntriesCome
<1>2. PICK p \in 1..Len(down) : ~down[p].ack /\ down[p].id = cursor + 1
  BY <1>1 DEF EntriesCome
<1>3. p # 1 => down[1].id < down[p].id
  BY <1>2 DEF EntriesCome
<1> QED BY <1>1, <1>2, <1>3

\* The first of what is on its way is taken.
LEMMA EntryTaken ==
  ASSUME down \in Seq(Acks), down # <<>>, down' = Tail(down), cursor \in Nat, sent_pos \in Nat,
         task = "online", UNCHANGED <<task, sent_pos>>, EntriesCome,
         cursor' = IF Head(down).ack THEN cursor ELSE Head(down).id
  PROVE  EntriesCome'
<1> DEFINE d == down[1]
<1>1. /\ Head(down) = d /\ d \in Acks /\ Len(down) \in Nat \ {0} /\ 1 \in 1..Len(down)
      /\ Len(down') = Len(down) - 1
      /\ \A p \in 1..Len(down') : p + 1 \in 1..Len(down) /\ down'[p] = down[p + 1]
  <2>1. Len(down) \in Nat \ {0} /\ Head(down) = down[1]
    BY EmptySeq, HeadTailProperties
  <2>2. PICK u : u = down'
    OBVIOUS
  <2>3. u = Tail(down)
    BY <2>2
  <2>4. Len(u) = Len(down) - 1 /\ \A p \in 1..(Len(down) - 1) : u[p] = down[p + 1]
    BY <2>1, <2>3, HeadTailProperties
  <2>5. down[1] \in Acks
    BY <2>1, HeadTailProperties
  <2> QED BY <2>1, <2>2, <2>4, <2>5
<1>2. ~d.ack => d.id = cursor + 1
  BY <1>1, HeadIsNext
<1>3. cursor' \in Nat /\ cursor' <= sent_pos /\ cursor <= cursor'
      /\ \A n \in (cursor' + 1)..sent_pos : n \in (cursor + 1)..sent_pos /\ (~d.ack => n # d.id)
  BY <1>1, <1>2 DEF EntriesCome
<1>4. ASSUME NEW p \in 1..Len(down'), ~down'[p].ack PROVE down'[p].id \in (cursor' + 1)..sent_pos
  <2>1. p + 1 \in 1..Len(down) /\ down'[p] = down[p + 1] /\ ~down[p + 1].ack
    BY <1>1, <1>4
  <2>2. down[p + 1].id \in (cursor + 1)..sent_pos
    BY <2>1 DEF EntriesCome
  <2>3. ~d.ack => d.id < down[p + 1].id
    BY <1>1, <2>1 DEF EntriesCome
  <2> QED BY <1>1, <1>2, <2>1, <2>2, <2>3
<1>5. ASSUME NEW p \in 1..Len(down'), NEW r \in 1..Len(down'), p < r, ~down'[p].ack, ~down'[r].ack
      PROVE  down'[p].id < down'[r].id
  <2>1. /\ p + 1 \in 1..Len(down) /\ down'[p] = down[p + 1]
        /\ r + 1 \in 1..Len(down) /\ down'[r] = down[r + 1] /\ p + 1 < r + 1
    BY <1>1, <1>5
  <2> QED BY <1>5, <2>1 DEF EntriesCome
<1>6. ASSUME NEW n \in (cursor' + 1)..sent_pos
      PROVE  \E p \in 1..Len(down') : ~down'[p].ack /\ down'[p].id = n
  <2>1. PICK r \in 1..Len(down) : ~down[r].ack /\ down[r].id = n
    BY <1>3 DEF EntriesCome
  <2>2. r # 1
    BY <1>3, <2>1
  <2>3. r - 1 \in 1..Len(down') /\ down'[r - 1] = down[r]
    BY <1>1, <2>2
  <2> QED BY <2>1, <2>3
<1> QED BY <1>3, <1>4, <1>5, <1>6 DEF EntriesCome

\* One entry more is sent, or an acknowledgement.
LEMMA EntrySent ==
  ASSUME down \in Seq(Acks), cursor \in Nat, sent_pos \in Nat, EntriesCome, task = "online",
         NEW e \in Acks, down' = Append(down, e), UNCHANGED <<task, cursor>>,
         IF e.ack THEN sent_pos' = sent_pos ELSE sent_pos' = sent_pos + 1 /\ e.id = sent_pos + 1
  PROVE  EntriesCome'
<1>1. /\ Len(down) \in Nat /\ Len(down') = Len(down) + 1
      /\ \A p \in 1..Len(down) : down'[p] = down[p]
      /\ down'[Len(down) + 1] = e
  BY AppendProperties
<1>2. sent_pos' \in Nat /\ sent_pos <= sent_pos' /\ cursor <= sent_pos
  BY DEF EntriesCome
<1>3. ASSUME NEW p \in 1..Len(down'), ~down'[p].ack PROVE down'[p].id \in (cursor + 1)..sent_pos'
  <2>1. CASE p \in 1..Len(down)
    <3>1. down[p].id \in (cursor + 1)..sent_pos
      BY <1>1, <1>3, <2>1 DEF EntriesCome
    <3> QED BY <1>1, <1>2, <2>1, <3>1
  <2>2. CASE p = Len(down) + 1
    BY <1>1, <1>2, <1>3, <2>2
  <2> QED BY <1>1, <2>1, <2>2
<1>4. ASSUME NEW p \in 1..Len(down'), NEW r \in 1..Len(down'), p < r, ~down'[p].ack, ~down'[r].ack
      PROVE  down'[p].id < down'[r].id
  <2>1. p \in 1..Len(down) /\ down'[p] = down[p]
    BY <1>1, <1>4
  <2>2. CASE r \in 1..Len(down)
    <3>1. down'[r] = down[r]
      BY <1>1, <2>2
    <3> QED BY <1>4, <2>1, <2>2, <3>1 DEF EntriesCome
  <2>3. CASE r = Len(down) + 1
    <3>1. down[p].id \in (cursor + 1)..sent_pos
      BY <1>4, <2>1 DEF EntriesCome
    <3>2. ~e.ack /\ down'[r] = e
      BY <1>1, <1>4, <2>3
    <3> QED BY <2>1, <3>1, <3>2
  <2> QED BY <1>1, <2>2, <2>3
<1>5. ASSUME NEW n \in (cursor + 1)..sent_pos'
      PROVE  \E p \in 1..Len(down') : ~down'[p].ack /\ down'[p].id = n
  <2>1. CASE n \in (cursor + 1)..sent_pos
    <3>1. PICK p \in 1..Len(down) : ~down[p].ack /\ down[p].id = n
      BY <2>1 DEF EntriesCome
    <3> QED BY <1>1, <3>1
  <2>2. CASE n \notin (cursor + 1)..sent_pos
    <3>1. ~e.ack /\ e.id = n
      BY <1>2, <2>2
    <3>2. Len(down) + 1 \in 1..Len(down')
      BY <1>1
    <3> QED BY <1>1, <3>1, <3>2
  <2> QED BY <2>1, <2>2
<1>6. task' = "online" /\ cursor' = cursor /\ cursor <= sent_pos'
  BY <1>2
<1> QED BY <1>3, <1>4, <1>5, <1>6 DEF EntriesCome

\* What is said of the log stays as it is.
LEMMA SameLog ==
  ASSUME UNCHANGED server_log
  PROVE  /\ Completing' = Completing /\ Deliverable' = Deliverable
         /\ \A n : MessagesTo(n)' = MessagesTo(n)
         /\ \A m, k, n : Passed(m, k, n)' <=> Passed(m, k, n)
<1>1. Completing' = Completing
  BY DEF Completing, Completes, HasChunk
<1>2. Deliverable' = Deliverable
  BY <1>1 DEF Deliverable
<1>3. \A n : MessagesTo(n)' = MessagesTo(n)
  BY <1>1 DEF MessagesTo
<1>4. \A m, k, n : Passed(m, k, n)' <=> Passed(m, k, n)
  BY <1>1 DEF Passed
<1> QED BY <1>1, <1>2, <1>3, <1>4

\* The messages of the first entries are numbers, one for each entry that completes one.
LEMMA MessagesAre ==
  ASSUME StreamInv, NEW n \in 0..Len(server_log)
  PROVE  MessagesTo(n) \in Seq(Nat) /\ Len(MessagesTo(n)) = Len(Retain(UpTo(n), Completing))
<1> DEFINE r == Retain(UpTo(n), Completing)
<1>1. n \in Nat
  BY PlainTypes
<1>2. r \in Seq(Nat) /\ ToSet(r) = ToSet(UpTo(n)) \cap Completing
  BY <1>1, UpToIs, RetainElements
<1> HIDE DEF r
<1>3. \A i \in 1..Len(r) : r[i] \in 1..Len(server_log)
  <2>1. \A i \in 1..Len(r) : r[i] \in ToSet(r)
    BY <1>2 DEF ToSet
  <2> QED BY <1>2, <2>1 DEF Completing
<1>4. \A i \in 1..Len(r) : server_log[r[i]].msg \in Nat
  BY <1>3, LogIs
<1>5. MessagesTo(n) = [i \in 1..Len(r) |-> server_log[r[i]].msg]
  BY DEF MessagesTo, r
<1>6. Len(r) \in Nat
  BY <1>2
<1>7. MessagesTo(n) \in Seq(Nat) /\ Len(MessagesTo(n)) = Len(r)
  BY <1>4, <1>5, <1>6
<1> QED BY <1>7 DEF r

\* One entry more.
LEMMA MessagesNext ==
  ASSUME StreamInv, NEW n \in Nat, n + 1 <= Len(server_log)
  PROVE  MessagesTo(n + 1) =
           IF n + 1 \in Completing THEN Append(MessagesTo(n), server_log[n + 1].msg)
           ELSE MessagesTo(n)
<1> DEFINE r == Retain(UpTo(n), Completing)
           t == Retain(UpTo(n + 1), Completing)
<1>1. t = IF n + 1 \in Completing THEN Append(r, n + 1) ELSE r
  BY UpToNext
<1>2. r \in Seq(Nat)
  BY UpToIs, RetainElements
<1>3. /\ MessagesTo(n) = [i \in 1..Len(r) |-> server_log[r[i]].msg]
      /\ MessagesTo(n + 1) = [i \in 1..Len(t) |-> server_log[t[i]].msg]
  BY DEF MessagesTo
<1>4. Len(server_log) \in Nat /\ n \in 0..Len(server_log) /\ n + 1 \in 1..Len(server_log)
      /\ n + 1 \in 0..Len(server_log)
  <2>1. Len(server_log) \in Nat
    BY PlainTypes
  <2> QED BY <2>1
<1>5. /\ MessagesTo(n) \in Seq(Nat) /\ MessagesTo(n + 1) \in Seq(Nat)
      /\ Len(MessagesTo(n)) = Len(r) /\ Len(MessagesTo(n + 1)) = Len(t)
  BY <1>4, MessagesAre
<1> HIDE DEF r, t
<1>6. CASE n + 1 \in Completing
  <2>1. /\ Len(t) = Len(r) + 1 /\ t[Len(r) + 1] = n + 1 /\ Len(r) \in Nat
        /\ \A i \in 1..Len(r) : t[i] = r[i]
    <3>1. n + 1 \in Nat /\ t = Append(r, n + 1)
      BY <1>1, <1>6
    <3> QED BY <1>2, <3>1, AppendProperties
  <2> DEFINE x == server_log[n + 1].msg
             s == MessagesTo(n)
             u == MessagesTo(n + 1)
  <2>2. x \in Nat
    BY <1>4, LogIs
  <2>3. \A i \in 1..Len(r) : u[i] = s[i]
    BY <1>3, <2>1
  <2>4. u[Len(r) + 1] = x
    BY <1>3, <2>1
  <2>5. s \in Seq(Nat) /\ u \in Seq(Nat) /\ Len(s) = Len(r) /\ Len(u) = Len(r) + 1
    BY <1>5, <2>1
  <2> HIDE DEF x, s, u
  <2>6. /\ Append(s, x) \in Seq(Nat) /\ Len(Append(s, x)) = Len(r) + 1
        /\ \A i \in 1..Len(r) : Append(s, x)[i] = s[i]
        /\ Append(s, x)[Len(r) + 1] = x
    BY <2>2, <2>5, AppendProperties
  <2>7. \A i \in 1..Len(u) : u[i] = Append(s, x)[i]
    <3> SUFFICES ASSUME NEW i \in 1..Len(u) PROVE u[i] = Append(s, x)[i]
      OBVIOUS
    <3>1. i \in 1..Len(r) \/ i = Len(r) + 1
      BY <2>1, <2>5
    <3> QED BY <2>3, <2>4, <2>6, <3>1
  <2>8. u = Append(s, x)
    BY <2>5, <2>6, <2>7, SeqEqual
  <2> QED BY <1>6, <2>8 DEF s, u, x
<1>7. CASE n + 1 \notin Completing
  BY <1>1, <1>3, <1>7
<1> QED BY <1>6, <1>7

\* The first entries have the first of the messages.
LEMMA MessagesMore ==
  ASSUME StreamInv, NEW n \in 0..Len(server_log)
  PROVE  /\ Deliverable = MessagesTo(Len(server_log)) /\ Deliverable \in Seq(Nat)
         /\ Len(MessagesTo(n)) <= Len(Deliverable)
         /\ \A i \in 1..Len(MessagesTo(n)) : Deliverable[i] = MessagesTo(n)[i]
<1> DEFINE b == Len(server_log)
           r == Retain(UpTo(n), Completing)
           t == Retain(UpTo(b), Completing)
<1>1. b \in Nat /\ n \in Nat /\ n <= b /\ b \in 0..Len(server_log)
  <2>1. Len(server_log) \in Nat
    BY PlainTypes
  <2> QED BY <2>1
<1>2. Deliverable = MessagesTo(b)
  BY DEF Deliverable, MessagesTo, UpTo
<1>3. /\ Deliverable \in Seq(Nat) /\ Len(Deliverable) = Len(t)
      /\ Len(MessagesTo(n)) = Len(r)
  BY <1>1, <1>2, MessagesAre
<1>4. /\ MessagesTo(n) = [i \in 1..Len(r) |-> server_log[r[i]].msg]
      /\ Deliverable = [i \in 1..Len(t) |-> server_log[t[i]].msg]
  BY <1>2 DEF MessagesTo
<1>5. /\ r \in Seq(Nat) /\ t \in Seq(Nat) /\ Len(r) <= Len(t)
      /\ \A i \in 1..Len(r) : t[i] = r[i]
  BY <1>1, UpToMore
<1> HIDE DEF r, t
<1>6. Len(r) \in Nat /\ Len(t) \in Nat
  BY <1>5
<1>7. \A i \in 1..Len(r) : i \in 1..Len(t) /\ Deliverable[i] = MessagesTo(n)[i]
  BY <1>4, <1>5, <1>6
<1> QED BY <1>2, <1>3, <1>5, <1>7

\* A message is whole with the entry after the cursor if and only if it is complete with
\* it, and it has not been before.
LEMMA WholeIsComplete ==
  ASSUME StreamInv, ReadSoFar, ChunksHeld, cursor \in Nat, cursor + 1 \in 1..Len(server_log),
         NEW e, e = server_log[cursor + 1], e.kind = "good"
  PROVE  /\ \A i \in 1..cursor : server_log[i].msg = e.msg => i \notin Completing
         /\ ({e.msg} \X (1..e.of) \subseteq chunk_assemblies \cup {<<e.msg, e.seg>>})
              <=> cursor + 1 \in Completing
<1> DEFINE c == cursor + 1
           chunks == chunk_assemblies \cup {<<e.msg, e.seg>>}
<1>l. /\ Len(server_log) \in Nat /\ e.seg \in 1..e.of /\ WellCut(server_log)
      /\ \A i \in 1..c : i \in 1..Len(server_log)
      /\ \A i \in 1..c : i = c \/ i \in 1..cursor
      /\ \A i \in 1..cursor : i \in 1..c /\ i # c
  <2>1. Len(server_log) \in Nat
    BY PlainTypes
  <2>2. e.seg \in 1..e.of /\ WellCut(server_log)
    BY LogIs
  <2> QED BY <2>1, <2>2
<1> HIDE DEF c
<1>e. c \in 1..c /\ e = server_log[c] /\ c \in 1..Len(server_log)
  BY DEF c
<1>1. ASSUME NEW i \in 1..cursor, server_log[i].msg = e.msg, i \in Completing PROVE FALSE
  <2>1. i \in 1..Len(server_log) /\ \A j \in 1..i : j \in 1..cursor
    BY <1>l
  <2>2. server_log[i].of = e.of
    BY <1>l, <1>e, <1>1, <2>1 DEF WellCut
  <2>3. HasChunk(i, e.seg)
    BY <1>l, <1>1, <2>2 DEF Completing, Completes
  <2>4. PICK j \in 1..i : server_log[j].msg = server_log[i].msg /\ server_log[j].seg = e.seg
    BY <2>3 DEF HasChunk
  <2>5. j = c
    BY <1>l, <1>e, <1>1, <2>1, <2>4 DEF WellCut
  <2> QED BY <1>l, <2>1, <2>5
<1>2. ASSUME c \in Completing, NEW k \in 1..e.of PROVE <<e.msg, k>> \in chunks
  <2>1. HasChunk(c, k)
    BY <1>e, <1>2 DEF Completing, Completes
  <2>2. PICK j \in 1..c : /\ server_log[j].kind = "good"
                          /\ server_log[j].msg = e.msg /\ server_log[j].seg = k
    BY <1>e, <2>1 DEF HasChunk
  <2>3. CASE j = c
    BY <1>e, <2>2, <2>3
  <2>4. CASE j \in 1..cursor
    <3>1. Passed(e.msg, k, cursor)
      BY <1>1, <2>2, <2>4 DEF Passed
    <3> QED BY <3>1 DEF ChunksHeld
  <2> QED BY <1>l, <2>3, <2>4
<1>3. ASSUME {e.msg} \X (1..e.of) \subseteq chunks PROVE c \in Completing
  <2>1. ASSUME NEW k \in 1..e.of PROVE HasChunk(c, k)
    <3>1. <<e.msg, k>> \in chunks
      BY <1>3
    <3>2. CASE k = e.seg
      BY <1>e, <3>2 DEF HasChunk
    <3>3. CASE k # e.seg
      <4>1. Passed(e.msg, k, cursor)
        BY <3>1, <3>3 DEF ChunksHeld
      <4>2. PICK j \in 1..cursor : /\ server_log[j].kind = "good"
                                   /\ server_log[j].msg = e.msg /\ server_log[j].seg = k
        BY <4>1 DEF Passed
      <4> QED BY <1>l, <1>e, <4>2 DEF HasChunk
    <3> QED BY <3>2, <3>3
  <2>2. \A j \in 1..c : server_log[j].kind # "undecodable"
    BY <1>l, <1>e DEF ReadSoFar
  <2> QED BY <1>e, <2>1, <2>2 DEF Completing, Completes
<1>4. {e.msg} \X (1..e.of) \subseteq chunks <=> c \in Completing
  BY <1>2, <1>3
<1> QED BY <1>1, <1>4 DEF c

\* The chunks that are held when the cursor has moved to an undamaged entry.
LEMMA ChunksMove ==
  ASSUME StreamInv, ChunksHeld, cursor \in Nat, cursor + 1 \in 1..Len(server_log),
         NEW e, e = server_log[cursor + 1], e.kind = "good",
         \A i \in 1..cursor : server_log[i].msg = e.msg => i \notin Completing,
         NEW new,
         new = IF cursor + 1 \in Completing
               THEN (chunk_assemblies \cup {<<e.msg, e.seg>>}) \ ({e.msg} \X (1..e.of))
               ELSE chunk_assemblies \cup {<<e.msg, e.seg>>},
         NEW m, NEW k
  PROVE  <<m, k>> \in new <=> Passed(m, k, cursor + 1)
<1> DEFINE c == cursor + 1
<1>l. /\ e.seg \in 1..e.of /\ WellCut(server_log)
      /\ \A i \in 1..c : i \in 1..Len(server_log)
      /\ \A i \in 1..c : i = c \/ i \in 1..cursor
      /\ \A i \in 1..cursor : i \in 1..c /\ i # c
  <2>1. Len(server_log) \in Nat
    BY PlainTypes
  <2>2. e.seg \in 1..e.of /\ WellCut(server_log)
    BY LogIs
  <2> QED BY <2>1, <2>2
<1>n. new = IF c \in Completing
            THEN (chunk_assemblies \cup {<<e.msg, e.seg>>}) \ ({e.msg} \X (1..e.of))
            ELSE chunk_assemblies \cup {<<e.msg, e.seg>>}
  OBVIOUS
<1> HIDE DEF c
<1>e. c \in 1..c /\ e = server_log[c] /\ c \in 1..Len(server_log)
  BY DEF c
<1>1. CASE m # e.msg
  <2>1. <<m, k>> \in new <=> <<m, k>> \in chunk_assemblies
    BY <1>n, <1>1
  <2>2. Passed(m, k, c) <=> Passed(m, k, cursor)
    BY <1>l, <1>e, <1>1 DEF Passed
  <2> QED BY <2>1, <2>2 DEF ChunksHeld, c
<1>2. CASE m = e.msg /\ c \in Completing
  <2>1. ~Passed(m, k, c)
    BY <1>e, <1>2 DEF Passed
  <2>2. ASSUME <<m, k>> \in new PROVE FALSE
    <3>1. k \notin 1..e.of /\ k # e.seg /\ <<m, k>> \in chunk_assemblies
      BY <1>n, <1>l, <1>2, <2>2
    <3>2. PICK j \in 1..cursor : server_log[j].msg = m /\ server_log[j].seg = k
      BY <3>1 DEF ChunksHeld, Passed
    <3>3. j \in 1..Len(server_log)
      BY <1>l, <3>2
    <3>4. server_log[j].of = e.of /\ server_log[j].seg \in 1..server_log[j].of
      BY <1>l, <1>e, <1>2, <3>2, <3>3, LogIs DEF WellCut
    <3> QED BY <3>1, <3>2, <3>4
  <2> QED BY <2>1, <2>2 DEF c
<1>3. CASE m = e.msg /\ c \notin Completing
  <2>1. \A i \in 1..c : server_log[i].msg = m => i \notin Completing
    BY <1>l, <1>3
  <2>2. \A i \in 1..cursor : server_log[i].msg = m => i \notin Completing
    BY <1>3
  <2>3. CASE k = e.seg
    <3>1. Passed(m, k, c)
      BY <1>e, <1>3, <2>1, <2>3 DEF Passed
    <3> QED BY <1>n, <1>3, <2>3, <3>1 DEF c
  <2>4. CASE k # e.seg
    <3>1. Passed(m, k, c) <=> Passed(m, k, cursor)
      BY <1>l, <1>e, <2>1, <2>2, <2>4 DEF Passed
    <3>2. <<m, k>> \in new <=> <<m, k>> \in chunk_assemblies
      BY <1>n, <1>3, <2>4
    <3> QED BY <3>1, <3>2 DEF ChunksHeld, c
  <2> QED BY <2>3, <2>4
<1> QED BY <1>1, <1>2, <1>3

\* The entry that is received is the one after the cursor.
LEMMA ReceivedIsNext ==
  ASSUME FullInv, DownInv, task = "online", down # <<>>, ~Head(down).ack
  PROVE  /\ Head(down).id = cursor + 1 /\ cursor \in Nat
         /\ cursor + 1 \in 1..Len(server_log) /\ cursor \in 0..Len(server_log)
         /\ cursor + 1 \in 0..Len(server_log)
<1>1. /\ down \in Seq(Acks) /\ cursor \in 0..Len(server_log) /\ sent_pos \in 0..Len(server_log)
      /\ Len(server_log) \in Nat
  BY FullTypes DEF Positions
<1>2. Len(down) \in Nat /\ 1 \in 1..Len(down) /\ Head(down) = down[1]
  <2>1. Len(down) # 0 /\ Len(down) \in Nat
    BY <1>1, EmptySeq
  <2> QED BY <1>1, <2>1, HeadTailProperties
<1>3. cursor \in Nat /\ sent_pos \in Nat
  BY <1>1
<1>4. EntriesCome
  BY DEF DownInv
<1>5. down[1].id = cursor + 1
  BY <1>2, <1>3, <1>4, HeadIsNext
<1>6. down[1].id \in (cursor + 1)..sent_pos
  BY <1>2, <1>4 DEF EntriesCome
<1> QED BY <1>1, <1>2, <1>5, <1>6

\* A message or a chunk of one comes in.
LEMMA MessageComes ==
  ASSUME FullInv, DownInv, ReceiveMessage
  PROVE  /\ DownInv'
         /\ \/ UNCHANGED delivered
            \/ /\ Len(delivered) < Len(Deliverable)
               /\ delivered' = Append(delivered, Deliverable[Len(delivered) + 1])
<1>i. StreamInv /\ EntriesCome /\ ReadSoFar /\ ChunksHeld /\ DeliveredSoFar
  BY DEF FullInv, DownInv
<1>t. down \in Seq(Acks) /\ sent_pos \in Nat /\ Len(server_log) \in Nat
  <2>1. down \in Seq(Acks) /\ sent_pos \in 0..Len(server_log) /\ Len(server_log) \in Nat
    BY FullTypes DEF Positions
  <2> QED BY <2>1
<1>0. /\ task = "online" /\ down # <<>> /\ ~Head(down).ack /\ down' = Tail(down)
      /\ server_log[Head(down).id].kind = "good"
      /\ cursor' = Head(down).id
      /\ UNCHANGED <<task, server_log, sent_pos>>
      /\ Observe(server_log[Head(down).id])
  BY DEF ReceiveMessage, Incoming, Received, MoveCursor, app
<1>1. /\ Head(down).id = cursor + 1 /\ cursor \in Nat
      /\ cursor + 1 \in 1..Len(server_log) /\ cursor \in 0..Len(server_log)
      /\ cursor + 1 \in 0..Len(server_log)
  BY <1>0, ReceivedIsNext
<1>2. EntriesCome'
  BY <1>i, <1>t, <1>0, <1>1, EntryTaken
<1>3. PICK e : e = server_log[cursor + 1]
  OBVIOUS
<1>4. /\ \A i \in 1..cursor : server_log[i].msg = e.msg => i \notin Completing
      /\ ({e.msg} \X (1..e.of) \subseteq chunk_assemblies \cup {<<e.msg, e.seg>>})
           <=> cursor + 1 \in Completing
  BY <1>i, <1>0, <1>1, <1>3, WholeIsComplete
<1>5. /\ chunk_assemblies' =
           IF cursor + 1 \in Completing
           THEN (chunk_assemblies \cup {<<e.msg, e.seg>>}) \ ({e.msg} \X (1..e.of))
           ELSE chunk_assemblies \cup {<<e.msg, e.seg>>}
      /\ delivered' = IF cursor + 1 \in Completing THEN Append(delivered, e.msg) ELSE delivered
  <2>1. Observe(e)
    BY <1>0, <1>1, <1>3
  <2> QED BY <1>4, <2>1 DEF Observe
<1>6. ReadSoFar'
  <2>1. server_log' = server_log /\ cursor' = cursor + 1
    BY <1>0, <1>1
  <2>2. \A j \in 1..(cursor + 1) : j = cursor + 1 \/ j \in 1..cursor
    BY <1>1
  <2> QED BY <1>i, <1>0, <1>1, <2>1, <2>2 DEF ReadSoFar
<1>7. ChunksHeld'
  <2>1. ASSUME NEW m, NEW k PROVE <<m, k>> \in chunk_assemblies' <=> Passed(m, k, cursor + 1)
    BY <1>i, <1>0, <1>1, <1>3, <1>4, <1>5, ChunksMove
  <2>2. \A m, k, n : Passed(m, k, n)' <=> Passed(m, k, n)
    BY <1>0, SameLog
  <2> QED BY <1>0, <1>1, <2>1, <2>2 DEF ChunksHeld
<1>8. delivered' = MessagesTo(cursor + 1)
  BY <1>i, <1>1, <1>3, <1>5, MessagesNext DEF DeliveredSoFar
<1>9. DeliveredSoFar'
  <2>1. \A n : MessagesTo(n)' = MessagesTo(n)
    BY <1>0, SameLog
  <2> QED BY <1>0, <1>1, <1>8, <2>1 DEF DeliveredSoFar
<1>10. ASSUME cursor + 1 \in Completing
       PROVE  /\ Len(delivered) < Len(Deliverable)
              /\ delivered' = Append(delivered, Deliverable[Len(delivered) + 1])
  <2> DEFINE u == MessagesTo(cursor + 1)
  <2>1. delivered \in Seq(Nat)
    BY <1>i, <1>1, MessagesAre DEF DeliveredSoFar
  <2>2. e.msg \in Nat
    BY <1>i, <1>1, <1>3, LogIs
  <2>3. u = Append(delivered, e.msg)
    BY <1>5, <1>8, <1>10
  <2>4. /\ Deliverable \in Seq(Nat) /\ Len(u) <= Len(Deliverable)
        /\ \A i \in 1..Len(u) : Deliverable[i] = u[i]
    BY <1>i, <1>1, MessagesMore
  <2> HIDE DEF u
  <2>5. Len(u) = Len(delivered) + 1 /\ u[Len(delivered) + 1] = e.msg /\ Len(delivered) \in Nat
    BY <2>1, <2>2, <2>3, AppendProperties
  <2>6. Len(Deliverable) \in Nat /\ Len(delivered) + 1 \in 1..Len(u)
    BY <2>4, <2>5
  <2>7. Len(delivered) < Len(Deliverable) /\ Deliverable[Len(delivered) + 1] = e.msg
    BY <2>4, <2>5, <2>6
  <2> QED BY <1>5, <1>10, <2>7
<1> QED BY <1>2, <1>5, <1>6, <1>7, <1>9, <1>10 DEF DownInv

\* A damaged one moves the cursor and nothing else.
LEMMA BadComes ==
  ASSUME FullInv, DownInv, ReceiveBad
  PROVE  DownInv'
<1>i. StreamInv /\ EntriesCome /\ ReadSoFar /\ ChunksHeld /\ DeliveredSoFar
  BY DEF FullInv, DownInv
<1>0. /\ task = "online" /\ down # <<>> /\ ~Head(down).ack
      /\ server_log[Head(down).id].kind = "bad"
      /\ cursor' = Head(down).id /\ task' = "offline" /\ down' = <<>>
      /\ UNCHANGED <<server_log, chunk_assemblies, delivered>>
  BY DEF ReceiveBad, Incoming, Received, MoveCursor, Offline, app
<1>1. Head(down).id = cursor + 1 /\ cursor \in Nat /\ cursor + 1 \in 1..Len(server_log)
  BY <1>0, ReceivedIsNext
<1>2. /\ \A j \in 1..(cursor + 1) : j = cursor + 1 \/ j \in 1..cursor
      /\ \A j \in 1..cursor : j \in 1..(cursor + 1)
  BY <1>1
<1>3. server_log[cursor + 1].kind = "bad" /\ cursor + 1 \notin Completing
  BY <1>0, <1>1 DEF Completing, Completes
<1>4. EntriesCome'
  BY <1>0 DEF EntriesCome
<1>5. ReadSoFar'
  <2>1. server_log' = server_log /\ cursor' = cursor + 1
    BY <1>0, <1>1
  <2> QED BY <1>i, <1>2, <1>3, <2>1 DEF ReadSoFar
<1>6. ChunksHeld'
  <2>1. \A m, k : Passed(m, k, cursor + 1) <=> Passed(m, k, cursor)
    BY <1>2, <1>3 DEF Passed
  <2>2. \A m, k, n : Passed(m, k, n)' <=> Passed(m, k, n)
    BY <1>0, SameLog
  <2> QED BY <1>i, <1>0, <1>1, <2>1, <2>2 DEF ChunksHeld
<1>7. DeliveredSoFar'
  <2>1. \A n : MessagesTo(n)' = MessagesTo(n)
    BY <1>0, SameLog
  <2>2. cursor + 1 <= Len(server_log)
    <3>1. Len(server_log) \in Nat
      BY FullTypes
    <3> QED BY <1>1, <3>1
  <2>3. MessagesTo(cursor + 1) = MessagesTo(cursor)
    BY <1>i, <1>1, <1>3, <2>2, MessagesNext
  <2> QED BY <1>i, <1>0, <1>1, <2>1, <2>3 DEF DeliveredSoFar
<1> QED BY <1>4, <1>5, <1>6, <1>7 DEF DownInv

\* The other steps leave the cursor, the chunks and what has been delivered alone.
LEMMA OthersDown ==
  ASSUME FullInv, DownInv, [StreamNext]_streamVars, ~ReceiveMessage, ~ReceiveBad
  PROVE  UNCHANGED <<server_log, inbound>> /\ EntriesCome'
<1>t. /\ down \in Seq(Acks) /\ cursor \in Nat /\ sent_pos \in Nat /\ EntriesCome
      /\ (task = "online" \/ down = <<>>)
  <2>1. down \in Seq(Acks) /\ cursor \in Positions /\ sent_pos \in Positions
        /\ Len(server_log) \in Nat
    BY FullTypes
  <2>2. cursor \in Nat /\ sent_pos \in Nat
    BY <2>1 DEF Positions
  <2> QED BY <2>1, <2>2 DEF DownInv, EntriesCome
<1>1. ASSUME UNCHANGED <<task, down, cursor, sent_pos>> PROVE EntriesCome'
  BY <1>t, <1>1 DEF EntriesCome
<1>2. ASSUME task' # "online", down' = <<>> PROVE EntriesCome'
  BY <1>2 DEF EntriesCome
<1>3. ASSUME NEW id \in Nat, Acknowledge(id), UNCHANGED <<task, cursor, sent_pos>> PROVE EntriesCome'
  <2>1. CASE task = "online"
    <3>1. Ack(id) \in Acks /\ Ack(id).ack /\ down' = Append(down, Ack(id))
      BY <1>3, <2>1 DEF Ack, Acks, Acknowledge
    <3> QED BY <1>t, <1>3, <2>1, <3>1, EntrySent
  <2>2. CASE task # "online"
    BY <1>1, <1>3, <2>2 DEF Acknowledge
  <2> QED BY <2>1, <2>2
<1>4. CASE UNCHANGED streamVars
  BY <1>1, <1>4 DEF streamVars, inbound
<1>5. CASE Write \/ PollShutdown \/ RelayCloses
  <2>1. UNCHANGED <<task, down, server_log, inbound, sent_pos>>
    BY <1>5 DEF Write, PollShutdown, RelayCloses, app
  <2> QED BY <1>1, <2>1 DEF inbound
<1>6. CASE Drop \/ Break \/ Closing \/ ReceiveUndecodable
  <2>1. UNCHANGED <<server_log, inbound>> /\ task' # "online" /\ down' = <<>>
    BY <1>6 DEF Drop, Break, Closing, HandleShutdown, ReceiveUndecodable, Lost, Offline, app
  <2> QED BY <1>2, <2>1
<1>7. CASE Reconnect
  <2>1. /\ UNCHANGED <<server_log, inbound>> /\ task = "offline" /\ sent_pos' = cursor
        /\ (task' = "online" /\ UNCHANGED down) \/ (task' # "online" /\ down' = <<>>)
    BY <1>7 DEF Reconnect, Connect, Lost, Offline, app
  <2>2. CASE task' = "online" /\ UNCHANGED down
    <3>1. Len(down') = 0 /\ cursor' = cursor
      BY <1>t, <2>1, <2>2 DEF inbound
    <3> QED BY <1>t, <2>1, <2>2, <3>1 DEF EntriesCome
  <2> QED BY <1>2, <2>1, <2>2
<1>8. CASE Outbound
  <2>1. PICK sent : HandleOutboundBytes(sent)
    BY <1>8 DEF Outbound
  <2>2. /\ UNCHANGED <<server_log, inbound, sent_pos>>
        /\ (task' # "online" /\ down' = <<>>) \/ UNCHANGED <<task, down>>
    BY <2>1 DEF HandleOutboundBytes, Lost, Offline, app
  <2> QED BY <1>1, <1>2, <2>2 DEF inbound
<1>9. CASE ReceiveAck
  <2>1. /\ task = "online" /\ down # <<>> /\ Head(down).ack /\ down' = Tail(down)
        /\ UNCHANGED <<task, server_log, inbound, sent_pos>> /\ cursor' = cursor
    BY <1>9 DEF ReceiveAck, app, inbound
  <2>2. EntriesCome'
    BY <1>t, <2>1, EntryTaken
  <2> QED BY <2>1, <2>2
<1>10. CASE RelayTakesAgain
  <2>1. UNCHANGED <<task, server_log, inbound, sent_pos>> /\ Acknowledge(taken) /\ taken \in Nat
    <3>1. taken \in 0..MaxLines
      BY FullTypes
    <3> QED BY <1>10, <3>1 DEF RelayTakesAgain, app
  <2> QED BY <1>3, <2>1 DEF inbound
<1>11. CASE RelayTakes
  <2>1. /\ UNCHANGED <<task, server_log, inbound, sent_pos>>
        /\ Acknowledge(Head(up).seq) \/ UNCHANGED down
    BY <1>11 DEF RelayTakes, app
  <2>2. Head(up).seq \in Nat
    <3>1. up \in Seq(Envelopes) /\ up # <<>>
      BY <1>11, FullTypes DEF RelayTakes
    <3>2. Head(up) \in Envelopes
      BY <3>1, HeadTailProperties
    <3> QED BY <3>2 DEF Envelopes
  <2> QED BY <1>1, <1>3, <2>1, <2>2 DEF inbound
<1>12. CASE RelaySends
  <2>1. /\ task = "online" /\ sent_pos' = sent_pos + 1
        /\ down' = Append(down, Entry(sent_pos + 1))
        /\ UNCHANGED <<task, server_log, inbound>> /\ cursor' = cursor
    BY <1>12 DEF RelaySends, app, inbound
  <2>2. /\ Entry(sent_pos + 1) \in Acks /\ ~Entry(sent_pos + 1).ack
        /\ Entry(sent_pos + 1).id = sent_pos + 1
    BY <1>t DEF Entry, Acks
  <2>3. EntriesCome'
    BY <1>t, <2>1, <2>2, EntrySent
  <2> QED BY <2>1, <2>3
<1> QED
  BY <1>4, <1>5, <1>6, <1>7, <1>8, <1>9, <1>10, <1>11, <1>12 DEF StreamNext, Receive, Relay

\* The way down begins with nothing.
LEMMA DownStarts == StreamInit => DownInv
<1> SUFFICES ASSUME StreamInit PROVE DownInv
  OBVIOUS
<1>1. /\ task = "offline" /\ down = <<>> /\ cursor = 0 /\ chunk_assemblies = {} /\ delivered = <<>>
  BY DEF StreamInit
<1>2. EntriesCome /\ ReadSoFar /\ ChunksHeld
  BY <1>1 DEF EntriesCome, ReadSoFar, ChunksHeld, Passed
<1>3. MessagesTo(0) = <<>>
  <2>1. StreamInv /\ 0 \in 0..Len(server_log)
    <3>1. StreamInv
      BY StreamInitInv DEF FullInv
    <3>2. Len(server_log) \in Nat
      BY <3>1, PlainTypes
    <3> QED BY <3>1, <3>2
  <2>2. MessagesTo(0) \in Seq(Nat) /\ Len(MessagesTo(0)) = Len(Retain(UpTo(0), Completing))
    BY <2>1, MessagesAre
  <2>3. Len(Retain(UpTo(0), Completing)) = 0
    <3>1. UpTo(0) \in Seq(Nat) /\ Len(UpTo(0)) = 0
      BY UpToIs
    <3>2. /\ Retain(UpTo(0), Completing) \in Seq(Nat)
          /\ \E f \in [1..Len(Retain(UpTo(0), Completing)) -> 1..Len(UpTo(0))] : TRUE
      BY <3>1, RetainEmbeds
    <3>3. Len(Retain(UpTo(0), Completing)) \in Nat
      BY <3>2
    <3>4. PICK f \in [1..Len(Retain(UpTo(0), Completing)) -> 1..Len(UpTo(0))] : TRUE
      BY <3>2
    <3>5. ASSUME Len(Retain(UpTo(0), Completing)) # 0 PROVE FALSE
      <4>1. 1 \in 1..Len(Retain(UpTo(0), Completing))
        BY <3>3, <3>5
      <4>2. f[1] \in 1..Len(UpTo(0))
        BY <3>4, <4>1
      <4> QED BY <3>1, <4>2
    <3> QED BY <3>5
  <2> QED BY <2>2, <2>3, EmptySeq
<1> QED BY <1>1, <1>2, <1>3 DEF DownInv, DeliveredSoFar

\* Every step keeps the invariant of the way down.
LEMMA DownKeeps == FullInv /\ DownInv /\ [StreamNext]_streamVars => DownInv'
<1> SUFFICES ASSUME FullInv, DownInv, [StreamNext]_streamVars PROVE DownInv'
  OBVIOUS
<1>1. CASE ~ReceiveMessage /\ ~ReceiveBad
  <2>1. UNCHANGED <<server_log, cursor, chunk_assemblies, delivered>> /\ EntriesCome'
    BY <1>1, OthersDown DEF inbound
  <2>2. ReadSoFar'
    BY <2>1 DEF DownInv, ReadSoFar
  <2>3. ChunksHeld'
    BY <2>1, SameLog DEF DownInv, ChunksHeld
  <2>4. DeliveredSoFar'
    BY <2>1, SameLog DEF DownInv, DeliveredSoFar
  <2> QED BY <2>1, <2>2, <2>3, <2>4 DEF DownInv
<1> QED BY <1>1, MessageComes, BadComes

\* Every step is one of the abstract stream or leaves it as it is.
LEMMA DownSteps ==
  FullInv /\ DownInv /\ [StreamNext]_streamVars => [DownStream!Next]_(DownStream!fifo)
<1> SUFFICES ASSUME FullInv, DownInv, [StreamNext]_streamVars
             PROVE  [DownStream!Next]_(DownStream!fifo)
  OBVIOUS
<1> DEFINE Same == UNCHANGED delivered /\ (task = "ended")' = (task = "ended")
           Delivers == /\ Len(delivered) < Len(Deliverable)
                       /\ delivered' = Append(delivered, Deliverable[Len(delivered) + 1])
                       /\ (task = "ended")' = (task = "ended")
           Finishes == task # "ended" /\ (task = "ended")' = TRUE /\ UNCHANGED delivered
<1>1. UNCHANGED server_log
  <2>1. CASE ReceiveMessage \/ ReceiveBad
    BY <2>1 DEF ReceiveMessage, ReceiveBad, app
  <2>2. CASE ~ReceiveMessage /\ ~ReceiveBad
    BY <2>2, OthersDown
  <2> QED BY <2>1, <2>2
<1>2. Deliverable' = Deliverable
  BY <1>1, SameLog
<1>3. Same \/ Delivers \/ Finishes => [DownStream!Next]_(DownStream!fifo)
  BY <1>2 DEF DownStream!Next, DownStream!Deliver, DownStream!End, DownStream!fifo
<1>4. task = "ended" => task' = "ended"
  BY DEF StreamNext, Write, PollShutdown, Drop, Reconnect, Connect, Break, Outbound,
         HandleOutboundBytes, Closing, HandleShutdown, Receive, ReceiveAck, ReceiveMessage,
         ReceiveBad, ReceiveUndecodable, Incoming, Relay, RelayCloses, RelayTakesAgain,
         RelayTakes, RelaySends, streamVars
<1>5. CASE ReceiveMessage
  <2>1. task # "ended" /\ task' # "ended"
    BY <1>5 DEF ReceiveMessage, Incoming
  <2> QED BY <1>3, <1>5, <2>1, MessageComes
<1>6. CASE ~ReceiveMessage
  <2>1. UNCHANGED delivered
    <3>1. CASE ReceiveBad
      BY <3>1 DEF ReceiveBad
    <3> QED BY <1>6, <3>1, OthersDown DEF inbound
  <2> QED BY <1>3, <1>4, <2>1
<1> QED BY <1>5, <1>6

\* The messages of the log are those of the abstract stream from the beginning.
LEMMA DownBegins == StreamInit => DownStream!Init
<1> SUFFICES ASSUME StreamInit PROVE DownStream!Init
  OBVIOUS
<1>1. StreamInv
  BY StreamInitInv DEF FullInv
<1>2. 0 \in 0..Len(server_log)
  <2>1. Len(server_log) \in Nat
    BY <1>1, PlainTypes
  <2> QED BY <2>1
<1>3. Deliverable \in Seq(Nat)
  BY <1>1, <1>2, MessagesMore
<1> QED BY <1>3 DEF DownStream!Init, StreamInit

\* What the application reads is what the relay has logged for it, message by message, in
\* the order in which they are complete, none twice and none left out in between, however
\* often the connection breaks and whatever is damaged (handle_inbound_wire_envelope).
THEOREM MessagesInOrder == StreamSpec => DownStream!Spec
<1>1. StreamSpec => []DownInv
  BY DownStarts, DownKeeps, FullStreamInv, PTL DEF StreamSpec
<1> QED BY <1>1, DownBegins, DownSteps, FullStreamInv, PTL DEF StreamSpec, DownStream!Spec
=============================================================================
