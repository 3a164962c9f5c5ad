----------------------- MODULE SessionLifecycle_proof -----------------------
(***************************************************************************)
(* Theorems about SessionLifecycle for every set of overlapping calls.     *)
(*                                                                         *)
(* A session is named after the connect that makes it, and a connect that  *)
(* has put its session in the map is over.  So the session in the map is   *)
(* never one that a connect still carries, nor one that a closing call has *)
(* taken out (SlotInv), whether or not the calls take the gate.  That no   *)
(* session is orphaned needs the gate: at most one gated call is past it   *)
(* (GateInv), and it attaches to an empty entry only (EmptyInv).           *)
(***************************************************************************)
EXTENDS SessionLifecycle, ReconnectPlan, TLAPS

\* Where only connects stand, and where only removing calls stand.
ConnectPhase == {"probing", "checking", "preparing", "replacing", "dialing",
                 "attaching", "mapping"}
RemovePhase == {"removing", "forgetting"}
PhaseInv ==
  \A o \in Ops : /\ pc[o] \in ConnectPhase => o \in Connects
                 /\ pc[o] \in RemovePhase => o \in Disconnects \cup Restarts
                 /\ pc[o] = "queued" => o \in Gated
TypeInv == TypeOK /\ PhaseInv

\* A connect carries the session it made, and carries it alone.
Carried ==
  \A o \in Ops : pc[o] \in {"attaching", "mapping"} => mine[o] = o /\ run[o] = "live"
\* The connect that made the session in the map is over.
Mapped == slot # None => pc[slot] = "ok" /\ run[slot] = "live"
\* A session that was taken out to be closed is not in the map.
TakenOut ==
  \A o \in Ops : pc[o] = "forgetting" /\ mine[o] # None =>
    /\ mine[o] # slot
    /\ pc[mine[o]] = "ok"
SlotInv == Carried /\ Mapped /\ TakenOut

\* The calls that came to the gate came once, and those before one that got past
\* it are over.
Came ==
  /\ \A i \in DOMAIN order : pc[order[i]] # "idle"
  /\ \A o \in Gated : pc[o] # "idle" => \E i \in DOMAIN order : order[i] = o
Once == \A i, j \in DOMAIN order : order[i] = order[j] => i = j
Inside(o) == o \in Gated /\ pc[o] \notin {"idle", "queued", "ok", "err"}
Passed(o) == pc[o] \notin {"idle", "queued"}
Served ==
  \A i, j \in DOMAIN order : i < j /\ Passed(order[j]) => Over(order[i])
GateInv == Came /\ Once /\ Served

\* A connect that has replaced the old session finds no other in the map.
EmptyInv ==
  \A o \in Connects : pc[o] \in {"closing", "dialing", "attaching", "mapping"} => slot = None

\* Every connect that has begun came to the gate before d.
CameLast(d) == \A o \in Connects : pc[o] = "idle" \/ Before(o, d)
\* Nothing undoes the two steps of a disconnect that came last.
LastWord ==
  \A d \in Disconnects : Passed(d) /\ CameLast(d) =>
    /\ pc[d] # "removing" => slot = None
    /\ pc[d] \in {"closing", "ok"} => store = "absent"

----------------------------------------------------------------------------
(* Types *)

LEMMA KindFacts == Sessions \subseteq Ops /\ Gated \subseteq Ops /\ None \notin Ops
BY KindsAssumption DEF Sessions, Ops, Connects, Gated

LEMMA TypeInit == Init => TypeInv
BY KindsAssumption DEF Init, TypeInv, TypeOK, PhaseInv, ConnectPhase, RemovePhase

\* A call begins in the phase of its kind.
LEMMA FirstPhase ==
  ASSUME NEW o \in Ops
  PROVE  \/ FirstStep(o) = "queued" /\ o \in Gated
         \/ FirstStep(o) \in {"checking", "preparing"} /\ o \in Connects
         \/ FirstStep(o) = "removing" /\ o \in Restarts
BY KindsAssumption DEF FirstStep, Ops, Connects, Gated

LEMMA TypeStep == TypeInv /\ [Next]_vars => TypeInv'
<1> SUFFICES ASSUME TypeInv, [Next]_vars PROVE TypeInv'
  OBVIOUS
<1> USE KindFacts
<1>1. ASSUME NEW o \in Ops, Begin(o) PROVE TypeInv'
  <2>1. order' \in Seq(Gated)
    BY <1>1 DEF Begin, ComeToGate, TypeInv, TypeOK
  <2>2. PICK l \in {"ok", FirstStep(o)} : pc' = [pc EXCEPT ![o] = l]
    BY <1>1 DEF Begin, Goto
  <2>3. UNCHANGED <<mine, slot, run, health, store, progress, flips>>
    BY <1>1 DEF Begin, table, ui
  <2> QED
    BY <2>1, <2>2, <2>3, FirstPhase
    DEF TypeInv, TypeOK, PhaseInv, ConnectPhase, RemovePhase
<1>2. ASSUME NEW o \in Ops, Lock(o) PROVE TypeInv'
  <2>1. /\ pc[o] = "queued"
        /\ \/ o \in Alleycat /\ pc' = [pc EXCEPT ![o] = "probing"]
           \/ o \notin Alleycat /\ pc' = [pc EXCEPT ![o] = "removing"]
        /\ UNCHANGED <<mine, order, slot, run, health, store, progress, flips>>
    BY <1>2 DEF Lock, Goto, table, ui
  <2> QED
    BY <2>1 DEF TypeInv, TypeOK, PhaseInv, ConnectPhase, RemovePhase, Gated, Connects
<1>3. ASSUME NEW o \in Ops, Probe(o) \/ Check(o) \/ Prepare(o) PROVE TypeInv'
  <2>1. /\ o \in Connects
        /\ \E l \in {"checking", "preparing", "replacing", "dialing", "ok", "err"} :
             pc' = [pc EXCEPT ![o] = l]
        /\ UNCHANGED <<mine, order, slot, run, health, flips>>
    BY <1>3
    DEF Probe, Check, Prepare, Goto, table, TypeInv, PhaseInv, ConnectPhase
  <2>2. /\ store' \in {"absent", "connecting", "connected", "disconnected"}
        /\ progress' \in {"none", "running", "failed"}
    BY <1>3 DEF Probe, Check, Prepare, Upsert, Report, ui, TypeInv, TypeOK
  <2> QED
    BY <2>1, <2>2 DEF TypeInv, TypeOK, PhaseInv, ConnectPhase, RemovePhase
<1>4. ASSUME NEW o \in Ops, Replace(o) PROVE TypeInv'
  <2>1. /\ o \in Connects
        /\ slot' = None /\ mine' = [mine EXCEPT ![o] = slot]
        /\ \E l \in {"dialing", "closing"} : pc' = [pc EXCEPT ![o] = l]
        /\ UNCHANGED <<order, store, progress, flips>>
    BY <1>4
    DEF Replace, TakeOut, Remove, Goto, ui, TypeInv, PhaseInv, ConnectPhase
  <2>2. /\ run' \in [Sessions -> {"unborn", "live", "closing", "closed"}]
        /\ health' \in [Sessions -> {"connecting", "connected", "disconnected"}]
    BY <1>4 DEF Replace, CloseSession, TypeInv, TypeOK
  <2> QED
    BY <2>1, <2>2 DEF TypeInv, TypeOK, PhaseInv, ConnectPhase, RemovePhase
<1>5. ASSUME NEW o \in Ops, AwaitClose(o) PROVE TypeInv'
  <2>1. /\ mine' = [mine EXCEPT ![o] = None]
        /\ \/ o \in Connects /\ pc' = [pc EXCEPT ![o] = "dialing"]
           \/ pc' = [pc EXCEPT ![o] = "ok"]
        /\ UNCHANGED <<order, slot, run, health, store, progress, flips>>
    BY <1>5 DEF AwaitClose, Goto, table, ui
  <2> QED
    BY <2>1 DEF TypeInv, TypeOK, PhaseInv, ConnectPhase, RemovePhase
<1>6. ASSUME NEW o \in Ops, DialSucceeds(o) PROVE TypeInv'
  <2>1. o \in Sessions
    BY <1>6 DEF DialSucceeds, TypeInv, PhaseInv, ConnectPhase, Sessions
  <2> QED
    BY <1>6, <2>1
    DEF DialSucceeds, Goto, ui, TypeInv, TypeOK, PhaseInv, ConnectPhase,
        RemovePhase, Sessions
<1>7. ASSUME NEW o \in Ops, DialFails(o) PROVE TypeInv'
  <2>1. pc' = [pc EXCEPT ![o] = "err"] /\ UNCHANGED <<mine, order, slot, run, health, flips>>
    BY <1>7 DEF DialFails, Goto, table
  <2>2. /\ store' \in {"absent", "connecting", "connected", "disconnected"}
        /\ progress' \in {"none", "running", "failed"}
    BY <1>7 DEF DialFails, Report, ReportProgress, ui, TypeInv, TypeOK
  <2> QED
    BY <2>1, <2>2 DEF TypeInv, TypeOK, PhaseInv, ConnectPhase, RemovePhase
<1>8. ASSUME NEW o \in Ops, Attach(o) PROVE TypeInv'
  <2>1. /\ o \in Connects
        /\ \E l \in {"mapping", "ok"} : pc' = [pc EXCEPT ![o] = l]
        /\ slot' \in {slot, mine[o]}
        /\ mine' = mine \/ mine' = [mine EXCEPT ![o] = None]
        /\ UNCHANGED <<order, run, health, flips>>
    BY <1>8 DEF Attach, Goto, table, TypeInv, PhaseInv, ConnectPhase
  <2>2. /\ store' \in {"absent", "connecting", "connected", "disconnected"}
        /\ progress' \in {"none", "running", "failed"}
    BY <1>8 DEF Attach, Upsert, ClearsProgress, ReportProgress, TypeInv, TypeOK
  <2> QED
    BY <2>1, <2>2 DEF TypeInv, TypeOK, PhaseInv, ConnectPhase, RemovePhase
<1>9. ASSUME NEW o \in Ops, RemoveServer(o) PROVE TypeInv'
  <2>1. /\ o \in Disconnects \cup Restarts
        /\ \E l \in {"forgetting", "err"} : pc' = [pc EXCEPT ![o] = l]
        /\ slot' \in {slot, None}
        /\ mine' = mine \/ mine' = [mine EXCEPT ![o] = slot]
        /\ UNCHANGED <<order, run, health, store, progress, flips>>
    BY <1>9
    DEF RemoveServer, Remove, Goto, table, ui, TypeInv, PhaseInv, RemovePhase
  <2> QED
    BY <2>1 DEF TypeInv, TypeOK, PhaseInv, ConnectPhase, RemovePhase
<1>10. ASSUME NEW o \in Ops, Forget(o) PROVE TypeInv'
  <2>1. /\ \E l \in {"closing", "ok", "err"} : pc' = [pc EXCEPT ![o] = l]
        /\ store' = "absent" /\ progress' = "none"
        /\ UNCHANGED <<mine, order, slot, flips>>
    BY <1>10 DEF Forget, Goto
  <2>2. /\ run' \in [Sessions -> {"unborn", "live", "closing", "closed"}]
        /\ health' \in [Sessions -> {"connecting", "connected", "disconnected"}]
    BY <1>10 DEF Forget, CloseSession, TypeInv, TypeOK
  <2> QED
    BY <2>1, <2>2 DEF TypeInv, TypeOK, PhaseInv, ConnectPhase, RemovePhase
<1>11. ASSUME NEW s \in Sessions, Flip(s) PROVE TypeInv'
  <2>1. flips' \in 0..MaxFlips
    BY <1>11, KindsAssumption DEF Flip, TypeInv, TypeOK
  <2> QED
    BY <1>11, <2>1 DEF Flip, ui, TypeInv, TypeOK, PhaseInv
<1>12. ASSUME NEW s \in Sessions, Stop(s) PROVE TypeInv'
  BY <1>12 DEF Stop, ui, TypeInv, TypeOK, PhaseInv
<1>13. CASE UNCHANGED vars
  BY <1>13 DEF vars, TypeInv, TypeOK, PhaseInv
<1> QED
  BY <1>1, <1>2, <1>3, <1>4, <1>5, <1>6, <1>7, <1>8, <1>9, <1>10, <1>11, <1>12, <1>13
  DEF Next, Step

\* The variables keep their types.
THEOREM TypeCorrect == Spec => []TypeOK
<1>1. TypeInv => TypeOK
  BY DEF TypeInv
<1> QED
  BY <1>1, TypeInit, TypeStep, PTL DEF Spec

----------------------------------------------------------------------------
(* The map *)

LEMMA SlotInit == Init => SlotInv
BY DEF Init, SlotInv, Carried, Mapped, TakenOut

LEMMA SlotStep == TypeInv /\ SlotInv /\ [Next]_vars => SlotInv'
<1> SUFFICES ASSUME TypeInv, SlotInv, [Next]_vars PROVE SlotInv'
  OBVIOUS
<1> USE KindFacts DEF SlotInv, Carried, Mapped, TakenOut
<1>1. /\ pc \in [Ops -> {"idle", "queued", "probing", "checking", "preparing",
                     "replacing", "closing", "dialing", "attaching", "mapping",
                     "removing", "forgetting", "ok", "err"}]
      /\ mine \in [Ops -> Sessions \cup {None}]
      /\ slot \in Sessions \cup {None}
      /\ run \in [Sessions -> {"unborn", "live", "closing", "closed"}]
  BY DEF TypeInv, TypeOK
<1>2. ASSUME NEW o \in Ops,
             \/ Begin(o) \/ Lock(o) \/ Probe(o) \/ Check(o) \/ Prepare(o) \/ DialFails(o)
      PROVE  SlotInv'
  <2>1. /\ pc[o] \notin {"ok", "attaching", "mapping", "forgetting"}
        /\ \E l \in {"queued", "probing", "removing", "checking", "preparing",
                   "replacing", "dialing", "ok", "err"} : pc' = [pc EXCEPT ![o] = l]
        /\ UNCHANGED <<mine, slot, run>>
    BY <1>2, FirstPhase
    DEF Begin, Lock, Probe, Check, Prepare, DialFails, Goto, table
  <2> QED
    BY <1>1, <2>1
<1>3. ASSUME NEW o \in Ops, Replace(o) PROVE SlotInv'
  <2>1. /\ pc[o] = "replacing"
        /\ slot' = None /\ mine' = [mine EXCEPT ![o] = slot]
        /\ \E l \in {"dialing", "closing"} : pc' = [pc EXCEPT ![o] = l]
        /\ \/ run' = run
           \/ slot # None /\ run' = [run EXCEPT ![slot] = "closing"]
    BY <1>3 DEF Replace, TakeOut, Remove, Goto, CloseSession
  <2>2. Carried'
    BY <1>1, <2>1
  <2>3. TakenOut'
    BY <1>1, <2>1
  <2> QED
    BY <2>1, <2>2, <2>3
<1>4. ASSUME NEW o \in Ops, AwaitClose(o) PROVE SlotInv'
  <2>1. /\ pc[o] = "closing"
        /\ mine' = [mine EXCEPT ![o] = None]
        /\ \E l \in {"dialing", "ok"} : pc' = [pc EXCEPT ![o] = l]
        /\ UNCHANGED <<slot, run>>
    BY <1>4 DEF AwaitClose, Goto, table
  <2> QED
    BY <1>1, <2>1
<1>5. ASSUME NEW o \in Ops, DialSucceeds(o) PROVE SlotInv'
  <2>1. o \in Sessions
    BY <1>5 DEF DialSucceeds, TypeInv, PhaseInv, ConnectPhase, Sessions
  <2>2. /\ pc[o] = "dialing"
        /\ run' = [run EXCEPT ![o] = "live"]
        /\ mine' = [mine EXCEPT ![o] = o]
        /\ pc' = [pc EXCEPT ![o] = "attaching"]
        /\ slot' = slot
    BY <1>5 DEF DialSucceeds, Goto
  <2>3. Carried'
    BY <1>1, <2>1, <2>2
  <2>4. Mapped' /\ TakenOut'
    BY <1>1, <2>1, <2>2
  <2> QED
    BY <2>3, <2>4
<1>6. ASSUME NEW o \in Ops, Attach(o) PROVE SlotInv'
  <2>1. CASE pc[o] = "attaching"
    <3>1. pc' = [pc EXCEPT ![o] = "mapping"] /\ UNCHANGED <<mine, slot, run>>
      BY <1>6, <2>1 DEF Attach, Goto, table
    <3> QED
      BY <1>1, <2>1, <3>1
  <2>2. CASE pc[o] = "mapping"
    <3>1. /\ pc' = [pc EXCEPT ![o] = "ok"] /\ run' = run
          /\ slot' = o /\ mine' = [mine EXCEPT ![o] = None]
      BY <1>6, <2>2 DEF Attach, Goto
    <3>2. Carried' /\ Mapped'
      BY <1>1, <2>2, <3>1
    <3>3. TakenOut'
      BY <1>1, <2>2, <3>1
    <3> QED
      BY <3>2, <3>3
  <2> QED
    BY <1>6, <2>1, <2>2 DEF Attach
<1>7. ASSUME NEW o \in Ops, RemoveServer(o) PROVE SlotInv'
  <2>1. CASE slot' = None /\ mine' = [mine EXCEPT ![o] = slot]
               /\ pc' = [pc EXCEPT ![o] = "forgetting"]
    <3>1. pc[o] = "removing" /\ run' = run
      BY <1>7 DEF RemoveServer, table
    <3> QED
      BY <1>1, <2>1, <3>1
  <2>2. CASE pc' = [pc EXCEPT ![o] = "err"] /\ UNCHANGED <<mine, slot, run>>
    <3>1. pc[o] = "removing"
      BY <1>7 DEF RemoveServer
    <3> QED
      BY <1>1, <2>2, <3>1
  <2> QED
    BY <1>7, <2>1, <2>2 DEF RemoveServer, Remove, Goto, table
<1>8. ASSUME NEW o \in Ops, Forget(o) PROVE SlotInv'
  <2>1. /\ pc[o] = "forgetting"
        /\ \E l \in {"closing", "ok", "err"} : pc' = [pc EXCEPT ![o] = l]
        /\ \/ run' = run
           \/ mine[o] # None /\ run' = [run EXCEPT ![mine[o]] = "closing"]
        /\ UNCHANGED <<mine, slot>>
    BY <1>8 DEF Forget, Goto, CloseSession
  <2>2. Carried'
    BY <1>1, <2>1
  <2>3. Mapped' /\ TakenOut'
    BY <1>1, <2>1
  <2> QED
    BY <2>2, <2>3
<1>9. ASSUME NEW s \in Sessions, Flip(s) PROVE SlotInv'
  BY <1>9 DEF Flip
<1>10. ASSUME NEW s \in Sessions, Stop(s) PROVE SlotInv'
  BY <1>1, <1>10 DEF Stop
<1>11. CASE UNCHANGED vars
  BY <1>11 DEF vars
<1> QED
  BY <1>2, <1>3, <1>4, <1>5, <1>6, <1>7, <1>8, <1>9, <1>10, <1>11 DEF Next, Step

\* The map never holds a session that is closing or closed, whichever calls
\* overlap and whether or not they take the gate (mod.rs:1381-1417, 2407-2451).
THEOREM MapIsOpen == Spec => []MappedIsOpen
<1>1. SlotInv => MappedIsOpen
  BY DEF SlotInv, Mapped, MappedIsOpen
<1> QED
  BY <1>1, TypeInit, TypeStep, SlotInit, SlotStep, PTL DEF Spec

----------------------------------------------------------------------------
(* The gate *)

LEMMA GateInit == Init => GateInv
<1> SUFFICES ASSUME Init PROVE GateInv
  OBVIOUS
<1>1. DOMAIN order = {}
  BY DEF Init
<1>2. \A o \in Gated : pc[o] = "idle"
  BY KindFacts DEF Init
<1> QED
  BY <1>1, <1>2 DEF GateInv, Came, Once, Served

\* A call that comes to the gate comes last.
LEMMA LastInLine ==
  ASSUME NEW o \in Gated, order \in Seq(Gated), order' = Append(order, o)
  PROVE  /\ DOMAIN order = 1..Len(order) /\ Len(order) \in Nat
         /\ DOMAIN order' = 1..(Len(order) + 1)
         /\ \A i \in 1..Len(order) : order'[i] = order[i]
         /\ order'[Len(order) + 1] = o
OBVIOUS

LEMMA GateStep == TypeInv /\ GateInv /\ [Next]_vars => GateInv'
<1> SUFFICES ASSUME TypeInv, GateInv, [Next]_vars PROVE GateInv'
  OBVIOUS
<1> USE KindFacts
<1>1. /\ pc \in [Ops -> {"idle", "queued", "probing", "checking", "preparing",
                     "replacing", "closing", "dialing", "attaching", "mapping",
                     "removing", "forgetting", "ok", "err"}]
      /\ order \in Seq(Gated)
      /\ DOMAIN order = 1..Len(order) /\ Len(order) \in Nat
      /\ \A i \in DOMAIN order : order[i] \in Gated
  BY DEF TypeInv, TypeOK
<1>2. ASSUME NEW o \in Ops, Begin(o), o \in Gated PROVE GateInv'
  <2>1. /\ pc[o] = "idle" /\ pc' = [pc EXCEPT ![o] = "queued"]
        /\ order' = Append(order, o)
    BY <1>2, KindsAssumption
    DEF Begin, Goto, ComeToGate, JoinsFlow, FirstStep, Gated, Connects
  <2>2. /\ DOMAIN order' = 1..(Len(order) + 1)
        /\ \A i \in 1..Len(order) : order'[i] = order[i] /\ order'[i] # o
        /\ order'[Len(order) + 1] = o
    BY <1>1, <1>2, <2>1, LastInLine DEF GateInv, Came
  <2>3. Came'
    <3>1. \A i \in DOMAIN order' : pc'[order'[i]] # "idle"
      BY <1>1, <2>1, <2>2 DEF GateInv, Came
    <3>2. \A p \in Gated : pc'[p] # "idle" => \E i \in DOMAIN order' : order'[i] = p
      BY <1>1, <2>1, <2>2 DEF GateInv, Came
    <3> QED
      BY <3>1, <3>2 DEF Came
  <2>4. Once'
    BY <1>1, <2>2 DEF GateInv, Once
  <2>5. Served'
    BY <1>1, <2>1, <2>2 DEF GateInv, Served, Inside, Passed, Over
  <2> QED
    BY <2>3, <2>4, <2>5 DEF GateInv
<1>3. ASSUME NEW o \in Ops, Begin(o), o \notin Gated PROVE GateInv'
  <2>1. /\ order' = order
        /\ \E l \in {"checking", "preparing", "removing", "ok"} : pc' = [pc EXCEPT ![o] = l]
        /\ \A p \in Gated : pc'[p] = pc[p]
    BY <1>1, <1>3, FirstPhase DEF Begin, Goto, ComeToGate
  <2> QED
    BY <1>1, <2>1 DEF GateInv, Came, Once, Served, Passed, Over
<1>4. ASSUME NEW o \in Ops, Lock(o) PROVE GateInv'
  <2>1. /\ pc[o] = "queued" /\ order' = order
        /\ \E l \in {"probing", "removing"} : pc' = [pc EXCEPT ![o] = l]
        /\ \A i, j \in DOMAIN order : order[j] = o /\ i < j => Over(order[i])
    BY <1>4 DEF Lock, Goto, HoldsGate
  <2>2. \A i \in DOMAIN order : Over(order[i]) => Over(order[i])'
    BY <1>1, <2>1 DEF Over
  <2>3. \A j \in DOMAIN order : Passed(order[j])' => Passed(order[j]) \/ order[j] = o
    BY <1>1, <2>1 DEF Passed
  <2> QED
    BY <1>1, <2>1, <2>2, <2>3 DEF GateInv, Came, Once, Served
<1>5. ASSUME NEW o \in Ops,
             pc[o] \notin {"idle", "queued", "ok", "err"}, order' = order,
             \E l : l \notin {"idle", "queued"} /\ pc' = [pc EXCEPT ![o] = l]
      PROVE  GateInv'
  <2>1. \A p \in Gated : /\ pc[p] \in {"ok", "err"} => pc'[p] = pc[p]
                         /\ Passed(p)' => Passed(p)
    BY <1>1, <1>5 DEF Passed
  <2>2. Came'
    BY <1>1, <1>5 DEF GateInv, Came
  <2>3. Once'
    BY <1>5 DEF GateInv, Once
  <2>4. Served'
    BY <1>1, <1>5, <2>1 DEF GateInv, Served, Over, Passed
  <2> QED
    BY <2>2, <2>3, <2>4 DEF GateInv
<1>6. ASSUME NEW o \in Ops, Step(o), ~Lock(o) PROVE GateInv'
  <2>1. /\ pc[o] \notin {"idle", "queued", "ok", "err"} /\ order' = order
        /\ \E l : l \notin {"idle", "queued"} /\ pc' = [pc EXCEPT ![o] = l]
    BY <1>6
    DEF Step, Probe, Check, Prepare, Replace, AwaitClose, DialSucceeds, DialFails,
        Attach, RemoveServer, Forget, Goto
  <2> QED
    BY <1>5, <2>1
<1>7. CASE UNCHANGED <<pc, order>>
  BY <1>1, <1>7 DEF GateInv, Came, Once, Served, Passed, Over
<1>8. ASSUME NEW s \in Sessions, Flip(s) \/ Stop(s) PROVE UNCHANGED <<pc, order>>
  BY <1>8 DEF Flip, Stop
<1> QED
  BY <1>2, <1>3, <1>4, <1>6, <1>7, <1>8 DEF Next, vars

\* The gate lets one call past it at a time.
LEMMA Alone ==
  ASSUME TypeInv, GateInv, NEW o \in Ops, NEW p \in Ops, Inside(o), Inside(p)
  PROVE  o = p
<1>1. PICK i \in DOMAIN order : order[i] = o
  BY DEF GateInv, Came, Inside
<1>2. PICK j \in DOMAIN order : order[j] = p
  BY DEF GateInv, Came, Inside
<1>3. i \in Nat /\ j \in Nat
  BY DEF TypeInv, TypeOK
<1>4. ~(i < j)
  BY <1>1, <1>2 DEF GateInv, Served, Inside, Passed, Over
<1>5. ~(j < i)
  BY <1>1, <1>2 DEF GateInv, Served, Inside, Passed, Over
<1> QED
  BY <1>1, <1>2, <1>3, <1>4, <1>5

----------------------------------------------------------------------------
(* While only gated connects have begun *)

\* What holds of the map as long as only gated connects have begun.
GatedInv == OnlyGated => EmptyInv /\ Reachable

\* A call that has begun never becomes idle again.
LEMMA StaysBegun ==
  ASSUME TypeInv, [Next]_vars, NEW o \in Ops, pc'[o] = "idle"
  PROVE  pc[o] = "idle"
<1>1. UNCHANGED pc \/ \E p \in Ops : \E l : l # "idle" /\ pc' = [pc EXCEPT ![p] = l]
  <2>1. ASSUME NEW p \in Ops, Begin(p)
        PROVE  \E l : l # "idle" /\ pc' = [pc EXCEPT ![p] = l]
    BY <2>1, FirstPhase DEF Begin, Goto
  <2>2. ASSUME NEW p \in Ops, Step(p)
        PROVE  \E l : l # "idle" /\ pc' = [pc EXCEPT ![p] = l]
    BY <2>2
    DEF Step, Lock, Probe, Check, Prepare, Replace, AwaitClose, DialSucceeds,
        DialFails, Attach, RemoveServer, Forget, Goto
  <2>3. ASSUME NEW s \in Sessions, Flip(s) \/ Stop(s) PROVE UNCHANGED pc
    BY <2>3 DEF Flip, Stop
  <2> QED
    BY <2>1, <2>2, <2>3 DEF Next, vars
<1> QED
  BY <1>1 DEF TypeInv, TypeOK

LEMMA EmptyStep ==
  ASSUME OnlyGated, OnlyGated', TypeInv, GateInv, SlotInv, EmptyInv, [Next]_vars
  PROVE  EmptyInv'
<1> USE KindFacts
<1>1. /\ pc \in [Ops -> {"idle", "queued", "probing", "checking", "preparing",
                     "replacing", "closing", "dialing", "attaching", "mapping",
                     "removing", "forgetting", "ok", "err"}]
      /\ Connects \subseteq Ops /\ Guided \subseteq Connects \ Gated
      /\ \A o \in Connects : pc[o] # "idle" \/ pc'[o] # "idle" => o \in Gated
  BY KindsAssumption DEF TypeInv, TypeOK, OnlyGated, Ops, Connects, Gated
<1>2. ASSUME NEW o \in Ops, Begin(o) \/ Lock(o) \/ Probe(o) \/ Check(o) \/ Prepare(o)
      PROVE  EmptyInv'
  <2>1. /\ \E l \in {"queued", "probing", "removing", "checking", "preparing",
                   "replacing", "ok", "err"} : pc' = [pc EXCEPT ![o] = l]
        /\ slot' = slot
    BY <1>1, <1>2, FirstPhase DEF Begin, Lock, Probe, Check, Prepare, Goto, table
  <2> QED
    BY <1>1, <2>1 DEF EmptyInv
<1>3. ASSUME NEW o \in Ops, Replace(o) PROVE EmptyInv'
  BY <1>3 DEF Replace, TakeOut, Remove, EmptyInv
<1>4. ASSUME NEW o \in Ops, AwaitClose(o) \/ DialSucceeds(o) \/ DialFails(o)
      PROVE  EmptyInv'
  <2>1. /\ pc[o] \in {"closing", "dialing"} /\ slot' = slot
        /\ \E l \in {"dialing", "ok", "attaching", "err"} : pc' = [pc EXCEPT ![o] = l]
    BY <1>4 DEF AwaitClose, DialSucceeds, DialFails, Goto, table
  <2> QED
    BY <1>1, <2>1 DEF EmptyInv
<1>5. ASSUME NEW o \in Ops, Attach(o) PROVE EmptyInv'
  <2>1. CASE pc[o] = "attaching"
    <3>1. pc' = [pc EXCEPT ![o] = "mapping"] /\ slot' = slot
      BY <1>5, <2>1 DEF Attach, Goto, table
    <3> QED
      BY <1>1, <2>1, <3>1 DEF EmptyInv
  <2>2. CASE pc[o] = "mapping"
    <3>1. pc' = [pc EXCEPT ![o] = "ok"] /\ Inside(o)
      BY <1>1, <1>5, <2>2 DEF Attach, Goto, Inside, TypeInv, PhaseInv, ConnectPhase
    <3>2. ASSUME NEW p \in Connects,
                 pc'[p] \in {"closing", "dialing", "attaching", "mapping"}
          PROVE  FALSE
      <4>1. p # o /\ pc'[p] = pc[p]
        BY <1>1, <3>1, <3>2
      <4>2. Inside(p)
        BY <1>1, <3>2, <4>1 DEF Inside
      <4> QED
        BY <1>1, <3>1, <4>1, <4>2, Alone
    <3> QED
      BY <3>2 DEF EmptyInv
  <2> QED
    BY <1>5, <2>1, <2>2 DEF Attach
<1>6. ASSUME NEW o \in Ops, RemoveServer(o) PROVE EmptyInv'
  <2>1. /\ slot' \in {slot, None}
        /\ \E l \in {"forgetting", "err"} : pc' = [pc EXCEPT ![o] = l]
    BY <1>6 DEF RemoveServer, Remove, Goto, table
  <2> QED
    BY <1>1, <2>1 DEF EmptyInv
<1>7. ASSUME NEW o \in Ops, Forget(o) PROVE EmptyInv'
  <2>1. o \notin Connects
    BY <1>7, KindsAssumption DEF Forget, TypeInv, PhaseInv, RemovePhase
  <2>2. slot' = slot /\ \A p \in Connects : pc'[p] = pc[p]
    BY <1>1, <1>7, <2>1 DEF Forget, Goto
  <2> QED
    BY <2>2 DEF EmptyInv
<1>8. ASSUME NEW s \in Sessions, Flip(s) \/ Stop(s) PROVE EmptyInv'
  BY <1>8 DEF Flip, Stop, EmptyInv
<1>9. CASE UNCHANGED vars
  BY <1>9 DEF vars, EmptyInv
<1> QED
  BY <1>2, <1>3, <1>4, <1>5, <1>6, <1>7, <1>8, <1>9 DEF Next, Step

LEMMA OrphanStep ==
  ASSUME TypeInv, SlotInv, EmptyInv, Reachable, [Next]_vars
  PROVE  Reachable'
<1> USE KindFacts
<1>1. /\ pc \in [Ops -> {"idle", "queued", "probing", "checking", "preparing",
                     "replacing", "closing", "dialing", "attaching", "mapping",
                     "removing", "forgetting", "ok", "err"}]
      /\ mine \in [Ops -> Sessions \cup {None}]
      /\ slot \in Sessions \cup {None}
      /\ run \in [Sessions -> {"unborn", "live", "closing", "closed"}]
  BY DEF TypeInv, TypeOK
<1>2. ASSUME NEW o \in Ops,
             pc[o] \notin {"attaching", "mapping", "forgetting"},
             \E l : pc' = [pc EXCEPT ![o] = l],
             \A p \in Ops \ {o} : mine'[p] = mine[p],
             NEW s \in Sessions, InHand(s)
      PROVE  InHand(s)'
  BY <1>1, <1>2 DEF InHand
<1>3. ASSUME NEW o \in Ops,
             \/ Begin(o) \/ Lock(o) \/ Probe(o) \/ Check(o) \/ Prepare(o)
             \/ AwaitClose(o) \/ DialFails(o)
      PROVE  Reachable'
  <2>1. /\ pc[o] \notin {"attaching", "mapping", "forgetting"}
        /\ \E l : pc' = [pc EXCEPT ![o] = l]
        /\ \A p \in Ops \ {o} : mine'[p] = mine[p]
        /\ UNCHANGED <<slot, run>>
    BY <1>1, <1>3
    DEF Begin, Lock, Probe, Check, Prepare, AwaitClose, DialFails, Goto, table
  <2> QED
    BY <1>2, <2>1 DEF Reachable
<1>4. ASSUME NEW o \in Ops, Replace(o) PROVE Reachable'
  <2>1. /\ pc[o] = "replacing" /\ slot' = None
        /\ \E l : pc' = [pc EXCEPT ![o] = l]
        /\ \A p \in Ops \ {o} : mine'[p] = mine[p]
        /\ \/ slot = None /\ run' = run
           \/ slot # None /\ run' = [run EXCEPT ![slot] = "closing"]
    BY <1>1, <1>4 DEF Replace, TakeOut, Remove, Goto, CloseSession
  <2>2. ASSUME NEW s \in Sessions, run'[s] = "live" PROVE InHand(s)
    BY <1>1, <2>1, <2>2 DEF Reachable
  <2>3. pc[o] \notin {"attaching", "mapping", "forgetting"}
    BY <2>1
  <2> QED
    BY <1>2, <2>1, <2>2, <2>3 DEF Reachable
<1>5. ASSUME NEW o \in Ops, DialSucceeds(o) PROVE Reachable'
  <2>1. /\ pc[o] = "dialing" /\ slot' = slot
        /\ pc' = [pc EXCEPT ![o] = "attaching"]
        /\ mine' = [mine EXCEPT ![o] = o]
        /\ run' = [run EXCEPT ![o] = "live"]
    BY <1>5 DEF DialSucceeds, Goto
  <2>2. InHand(o)'
    BY <1>1, <2>1 DEF InHand
  <2>3. ASSUME NEW s \in Sessions, s # o, run'[s] = "live" PROVE slot' = s \/ InHand(s)'
    <3>1. slot = s \/ InHand(s)
      BY <1>1, <2>1, <2>3 DEF Reachable
    <3>2. /\ pc[o] \notin {"attaching", "mapping", "forgetting"}
          /\ \E l : pc' = [pc EXCEPT ![o] = l]
          /\ \A p \in Ops \ {o} : mine'[p] = mine[p]
      BY <1>1, <2>1
    <3> QED
      BY <1>2, <2>1, <3>1, <3>2
  <2> QED
    BY <2>2, <2>3 DEF Reachable
<1>6. ASSUME NEW o \in Ops, Attach(o) PROVE Reachable'
  <2>1. CASE pc[o] = "attaching"
    <3>1. pc' = [pc EXCEPT ![o] = "mapping"] /\ UNCHANGED <<mine, slot, run>>
      BY <1>6, <2>1 DEF Attach, Goto, table
    <3>2. \A s \in Sessions : InHand(s) => InHand(s)'
      BY <1>1, <3>1 DEF InHand
    <3> QED
      BY <3>1, <3>2 DEF Reachable
  <2>2. CASE pc[o] = "mapping"
    <3>1. /\ pc' = [pc EXCEPT ![o] = "ok"] /\ run' = run
          /\ slot' = o /\ mine' = [mine EXCEPT ![o] = None]
          /\ mine[o] = o
      BY <1>6, <2>2 DEF Attach, Goto, SlotInv, Carried
    <3>2. slot = None
      BY <2>2 DEF EmptyInv, TypeInv, PhaseInv, ConnectPhase
    <3>3. ASSUME NEW s \in Sessions, s # o, InHand(s) PROVE InHand(s)'
      BY <1>1, <3>1, <3>3 DEF InHand
    <3> QED
      BY <1>1, <3>1, <3>2, <3>3 DEF Reachable
  <2> QED
    BY <1>6, <2>1, <2>2 DEF Attach
<1>7. ASSUME NEW o \in Ops, RemoveServer(o) PROVE Reachable'
  <2>1. /\ pc[o] = "removing" /\ run' = run
        /\ \E l : pc' = [pc EXCEPT ![o] = l]
        /\ \A p \in Ops \ {o} : mine'[p] = mine[p]
        /\ \/ slot' = slot
           \/ slot' = None /\ mine'[o] = slot /\ pc'[o] = "forgetting"
    BY <1>1, <1>7 DEF RemoveServer, Remove, Goto, table
  <2>2. ASSUME NEW s \in Sessions, slot = s PROVE slot' = s \/ InHand(s)'
    BY <2>1, <2>2 DEF InHand
  <2>3. pc[o] \notin {"attaching", "mapping", "forgetting"}
    BY <2>1
  <2> QED
    BY <1>2, <2>1, <2>2, <2>3 DEF Reachable
<1>8. ASSUME NEW o \in Ops, Forget(o) PROVE Reachable'
  <2>1. /\ UNCHANGED <<mine, slot>>
        /\ \E l : pc' = [pc EXCEPT ![o] = l]
        /\ \/ mine[o] = None /\ run' = run
           \/ mine[o] # None /\ run' = [run EXCEPT ![mine[o]] = "closing"]
    BY <1>8 DEF Forget, Goto, CloseSession
  <2>2. ASSUME NEW s \in Sessions, run'[s] = "live" PROVE slot' = s \/ InHand(s)'
    <3>1. run[s] = "live" /\ mine[o] # s
      BY <1>1, <2>1, <2>2
    <3>2. slot = s \/ InHand(s)
      BY <3>1 DEF Reachable
    <3> QED
      BY <1>1, <2>1, <3>1, <3>2 DEF InHand
  <2> QED
    BY <2>2 DEF Reachable
<1>9. ASSUME NEW s \in Sessions, Flip(s) \/ Stop(s) PROVE Reachable'
  BY <1>1, <1>9 DEF Flip, Stop, Reachable, InHand
<1>10. CASE UNCHANGED vars
  BY <1>10 DEF vars, Reachable, InHand
<1> QED
  BY <1>3, <1>4, <1>5, <1>6, <1>7, <1>8, <1>9, <1>10 DEF Next, Step

\* As long as only connects that take the gate begin, as those of
\* connect_remote_over_alleycat do, no running session is out of reach;
\* restart_app_server may stay outside.
THEOREM GateSavesSessions == Spec => []NoOrphan
<1>1. Init => GatedInv
  BY KindFacts DEF Init, GatedInv, EmptyInv, Reachable, Sessions
<1>2. TypeInv /\ GateInv /\ SlotInv /\ GatedInv /\ [Next]_vars => GatedInv'
  <2> SUFFICES ASSUME TypeInv, GateInv, SlotInv, GatedInv, [Next]_vars, OnlyGated'
               PROVE  EmptyInv' /\ Reachable'
    BY DEF GatedInv
  <2>1. OnlyGated
    BY StaysBegun, KindFacts DEF OnlyGated, Ops
  <2> QED
    BY <2>1, EmptyStep, OrphanStep DEF GatedInv
<1>3. GatedInv => NoOrphan
  BY DEF GatedInv, NoOrphan
<1> QED
  BY <1>1, <1>2, <1>3, TypeInit, TypeStep, SlotInit, SlotStep, GateInit, GateStep,
     PTL DEF Spec

----------------------------------------------------------------------------
(* The last word of a disconnect *)

\* No connect is under way beside a disconnect that came last.
LEMMA ConnectsRest ==
  ASSUME GateInv, NEW d \in Disconnects, Passed(d), CameLast(d), NEW o \in Connects
  PROVE  pc[o] \in {"idle", "ok", "err"}
<1>1. CASE pc[o] = "idle"
  BY <1>1
<1>2. CASE Before(o, d)
  BY <1>2 DEF Before, GateInv, Served, Over
<1> QED
  BY <1>1, <1>2 DEF CameLast

\* A disconnect past the gate came last only if it did so before the step.
LEMMA LastBefore ==
  ASSUME TypeInv, GateInv, [Next]_vars, NEW d \in Disconnects, Passed(d), CameLast(d)'
  PROVE  CameLast(d)
<1> USE KindFacts
<1>1. \A o \in Ops : pc'[o] = "idle" => pc[o] = "idle"
  BY StaysBegun
<1>2. order' = order \/ \E o \in Gated : pc[o] = "idle" /\ order' = Append(order, o)
  BY DEF Next, Step, Begin, ComeToGate, Lock, Probe, Check, Prepare, Replace, AwaitClose,
         DialSucceeds, DialFails, Attach, RemoveServer, Forget, Flip, Stop, vars
<1>3. ASSUME NEW o \in Connects, Before(o, d)' PROVE Before(o, d)
  <2>1. CASE order' = order
    BY <1>3, <2>1 DEF Before
  <2>2. ASSUME NEW p \in Gated, pc[p] = "idle", order' = Append(order, p) PROVE Before(o, d)
    <3>1. /\ Len(order) \in Nat /\ DOMAIN order = 1..Len(order)
          /\ DOMAIN order' = 1..(Len(order) + 1)
          /\ \A i \in 1..Len(order) : order'[i] = order[i]
          /\ order'[Len(order) + 1] = p
      BY <2>2, LastInLine DEF TypeInv, TypeOK
    <3>2. p # d
      BY <2>2 DEF Passed
    <3>3. PICK i, j \in DOMAIN order' : i < j /\ order'[i] = o /\ order'[j] = d
      BY <1>3 DEF Before
    <3>4. i \in 1..Len(order) /\ j \in 1..Len(order)
      BY <3>1, <3>2, <3>3
    <3> QED
      BY <3>1, <3>3, <3>4 DEF Before
  <2> QED
    BY <1>2, <2>1, <2>2
<1> QED
  BY <1>1, <1>3 DEF CameLast, Ops

LEMMA LastWordStep ==
  ASSUME TypeInv, GateInv, LastWord, [Next]_vars
  PROVE  LastWord'
<1> USE KindFacts
<1> SUFFICES ASSUME NEW d \in Disconnects, Passed(d)', CameLast(d)'
             PROVE  /\ pc'[d] # "removing" => slot' = None
                    /\ pc'[d] \in {"closing", "ok"} => store' = "absent"
  BY DEF LastWord
<1> DEFINE Goal == /\ pc'[d] # "removing" => slot' = None
                   /\ pc'[d] \in {"closing", "ok"} => store' = "absent"
<1>1. /\ d \in Ops /\ d \notin Connects /\ d \notin Restarts /\ d \in Gated
      /\ pc \in [Ops -> {"idle", "queued", "probing", "checking", "preparing",
                     "replacing", "closing", "dialing", "attaching", "mapping",
                     "removing", "forgetting", "ok", "err"}]
  BY KindsAssumption DEF Ops, Gated, TypeInv, TypeOK
<1>2. Passed(d) =>
        /\ pc[d] # "removing" => slot = None
        /\ pc[d] \in {"closing", "ok"} => store = "absent"
        /\ \A o \in Connects : pc[o] \in {"idle", "ok", "err"}
  BY LastBefore, ConnectsRest DEF LastWord
<1>3. CASE UNCHANGED <<pc, slot, store>>
  BY <1>2, <1>3 DEF Passed
<1>4. ASSUME NEW o \in Ops, Begin(o) PROVE Goal
  <2>1. /\ pc[o] = "idle" /\ UNCHANGED <<slot, store>>
        /\ \E l : pc' = [pc EXCEPT ![o] = l]
        /\ o = d => pc'[d] = "queued"
    BY <1>1, <1>4, KindsAssumption
    DEF Begin, Goto, JoinsFlow, FirstStep, Connects, table, ui
  <2>2. o # d /\ pc'[d] = pc[d]
    BY <1>1, <2>1 DEF Passed
  <2> QED
    BY <1>2, <2>1, <2>2 DEF Passed
<1>5. ASSUME NEW o \in Ops, Lock(o) PROVE Goal
  <2>1. /\ UNCHANGED <<slot, store>> /\ pc[o] = "queued"
        /\ \E l : pc' = [pc EXCEPT ![o] = l]
        /\ o = d => pc'[d] = "removing"
    BY <1>1, <1>5 DEF Lock, Goto, Connects, table, ui
  <2> QED
    BY <1>1, <1>2, <2>1 DEF Passed
\* Every other step finds d past the gate.
<1>6. ASSUME NEW o \in Ops, Step(o), ~Lock(o) PROVE Goal
  <2>1. /\ pc[o] \notin {"idle", "queued", "ok", "err"}
        /\ \E l : pc' = [pc EXCEPT ![o] = l]
    BY <1>6
    DEF Step, Probe, Check, Prepare, Replace, AwaitClose, DialSucceeds, DialFails,
        Attach, RemoveServer, Forget, Goto
  <2>2. Passed(d) /\ (o # d => pc'[d] = pc[d])
    BY <1>1, <2>1 DEF Passed
  <2>3. o \notin Connects
    BY <1>2, <2>1, <2>2
  <2>4. pc[o] \notin ConnectPhase
    BY <2>3 DEF TypeInv, PhaseInv
  <2>5. CASE AwaitClose(o)
    <3>1. UNCHANGED <<slot, store>> /\ pc[o] = "closing"
      BY <2>5 DEF AwaitClose, table, ui
    <3> QED
      BY <1>2, <2>2, <3>1
  <2>6. CASE RemoveServer(o)
    <3>1. /\ slot' \in {slot, None} /\ UNCHANGED store
          /\ o = d => slot' = None /\ pc'[d] = "forgetting"
      BY <1>1, <2>6 DEF RemoveServer, Remove, Goto, table, ui
    <3> QED
      BY <1>2, <2>2, <3>1
  <2>7. CASE Forget(o)
    <3>1. UNCHANGED slot /\ store' = "absent" /\ pc[o] = "forgetting"
      BY <2>7 DEF Forget
    <3> QED
      BY <1>2, <2>2, <3>1
  <2> QED
    BY <1>6, <2>4, <2>5, <2>6, <2>7
    DEF Step, Probe, Check, Prepare, Replace, DialSucceeds, DialFails, Attach, ConnectPhase
<1>7. ASSUME NEW s \in Sessions, Flip(s) \/ Stop(s) PROVE Goal
  BY <1>3, <1>7 DEF Flip, Stop, ui
<1>8. CASE UNCHANGED vars
  BY <1>3, <1>8 DEF vars
<1> QED
  BY <1>4, <1>5, <1>6, <1>7, <1>8 DEF Next

\* A disconnect that every begun connect has let pass at the gate leaves the
\* server out of the map and out of the store, whatever other disconnects and
\* restarts do meanwhile (mod.rs:2407-2451).
THEOREM DisconnectLasts == Spec => []DisconnectHolds
<1>1. Init => LastWord
  BY KindsAssumption DEF Init, LastWord, Passed, Ops
<1>2. LastWord => DisconnectHolds
  BY DEF LastWord, DisconnectHolds, Passed, CameLast
<1> QED
  BY <1>1, <1>2, TypeInit, TypeStep, GateInit, GateStep, LastWordStep, PTL DEF Spec
----------------------------------------------------------------------------
(* The progress of an SSH connect *)

ShowsProgress == Ssh \cup Guided
\* Connects over SSH never take the gate nor test for reuse; the progress that runs
\* is that of one that has begun and has not succeeded.
ProgressInv ==
  /\ \A o \in ShowsProgress : pc[o] \notin {"queued", "probing", "checking"}
  /\ ProgressHasOwner

\* A step leaves every connect over SSH begun and short of success, or it ends the
\* progress.
LEMMA OwnerStays ==
  ASSUME TypeInv, ProgressInv, NEW o \in Ops, NEW l,
         pc' = [pc EXCEPT ![o] = l], l # "idle",
         o \in ShowsProgress => l \notin {"queued", "probing", "checking"},
         \/ progress' # "running"
         \/ o \in ShowsProgress /\ l # "ok"
         \/ progress' = progress /\ (o \in ShowsProgress /\ pc[o] # "idle" => l # "ok")
  PROVE  ProgressInv'
<1>1. \A p \in Ops : pc'[p] = IF p = o THEN l ELSE pc[p]
  BY DEF TypeInv, TypeOK
<1>2. ShowsProgress \subseteq Ops
  BY DEF ShowsProgress, Ops, Connects
<1> QED
  BY <1>1, <1>2 DEF ProgressInv, ProgressHasOwner, ShowsProgress

LEMMA ProgressStep == TypeInv /\ ProgressInv /\ [Next]_vars => ProgressInv'
<1> SUFFICES ASSUME TypeInv, ProgressInv, [Next]_vars PROVE ProgressInv'
  OBVIOUS
<1>1. ASSUME NEW o \in Ops, Begin(o) PROVE ProgressInv'
  <2>1. o \in ShowsProgress => FirstStep(o) = "preparing"
    BY KindsAssumption DEF ShowsProgress, FirstStep, Gated, Connects
  <2>2. FirstStep(o) # "idle"
    BY FirstPhase
  <2>3. pc[o] = "idle" /\ UNCHANGED progress
    BY <1>1 DEF Begin, ui
  <2>4. PICK l \in {"ok", FirstStep(o)} : pc' = [pc EXCEPT ![o] = l]
    BY <1>1 DEF Begin, Goto
  <2> QED
    BY <2>1, <2>2, <2>3, <2>4, OwnerStays
<1>2. ASSUME NEW o \in Ops, Lock(o) \/ Probe(o) \/ Check(o) PROVE ProgressInv'
  <2>1. o \notin ShowsProgress /\ UNCHANGED progress
    BY <1>2 DEF Lock, Probe, Check, ui, ProgressInv
  <2>2. \E l \in {"probing", "removing", "checking", "preparing", "ok", "err"} :
          pc' = [pc EXCEPT ![o] = l]
    BY <1>2 DEF Lock, Probe, Check, Goto
  <2> QED
    BY <2>1, <2>2, OwnerStays
<1>3. ASSUME NEW o \in Ops, Prepare(o) PROVE ProgressInv'
  <2>1. \E l \in {"dialing", "replacing", "err"} : pc' = [pc EXCEPT ![o] = l]
    BY <1>3 DEF Prepare, Goto
  <2>2. o \in ShowsProgress \/ UNCHANGED progress
    BY <1>3 DEF Prepare, ShowsProgress, ui
  <2> QED
    BY <2>1, <2>2, OwnerStays
<1>4. ASSUME NEW o \in Ops, Replace(o) \/ DialSucceeds(o) PROVE ProgressInv'
  <2>1. UNCHANGED progress /\ \E l \in {"dialing", "closing", "attaching"} :
          pc' = [pc EXCEPT ![o] = l]
    BY <1>4 DEF Replace, DialSucceeds, Goto, ui
  <2> QED
    BY <2>1, OwnerStays
<1>5. ASSUME NEW o \in Ops, AwaitClose(o) PROVE ProgressInv'
  <2>1. o \in ShowsProgress => o \in Connects
    BY DEF ShowsProgress, Connects
  <2>2. /\ UNCHANGED progress
        /\ \/ pc' = [pc EXCEPT ![o] = "dialing"]
           \/ pc' = [pc EXCEPT ![o] = "ok"] /\ o \notin ShowsProgress
    BY <1>5, <2>1 DEF AwaitClose, Goto, ui
  <2> QED
    BY <2>2, OwnerStays
<1>6. ASSUME NEW o \in Ops, DialFails(o) PROVE ProgressInv'
  <2>1. pc' = [pc EXCEPT ![o] = "err"]
    BY <1>6 DEF DialFails, Goto
  <2>2. UNCHANGED progress \/ progress' # "running"
    BY <1>6 DEF DialFails, ReportProgress, ui
  <2> QED
    BY <2>1, <2>2, OwnerStays
<1>7. ASSUME NEW o \in Ops, Attach(o) PROVE ProgressInv'
  <2>1. CASE pc' = [pc EXCEPT ![o] = "mapping"] /\ UNCHANGED progress
    BY <2>1, OwnerStays
  <2>2. CASE pc' = [pc EXCEPT ![o] = "ok"] /\ ClearsProgress(o)
    <3>1. CASE o \in ShowsProgress
      <4>1. progress' # "running"
        BY <2>2, <3>1 DEF ClearsProgress, ReportProgress, ShowsProgress
      <4> QED
        BY <2>2, <4>1, OwnerStays
    <3>2. CASE o \notin ShowsProgress
      <4>1. UNCHANGED progress
        BY <2>2, <3>2 DEF ClearsProgress, ShowsProgress
      <4> QED
        BY <2>2, <3>2, <4>1, OwnerStays
    <3> QED
      BY <3>1, <3>2
  <2> QED
    BY <1>7, <2>1, <2>2 DEF Attach, Goto
<1>8. ASSUME NEW o \in Ops, RemoveServer(o) \/ Forget(o) PROVE ProgressInv'
  <2>1. \E l \in {"forgetting", "err", "ok", "closing"} :
          pc' = [pc EXCEPT ![o] = l] /\ (l = "ok" => progress' = "none")
    BY <1>8 DEF RemoveServer, Forget, Goto
  <2>2. progress' = "none" \/ UNCHANGED progress
    BY <1>8 DEF RemoveServer, Forget, ui
  <2> QED
    BY <2>1, <2>2, OwnerStays
<1>9. CASE UNCHANGED <<pc, progress>>
  BY <1>9 DEF ProgressInv, ProgressHasOwner
<1>10. ASSUME NEW s \in Sessions, Flip(s) \/ Stop(s) PROVE ProgressInv'
  BY <1>9, <1>10 DEF Flip, Stop, ui
<1>11. CASE UNCHANGED vars
  BY <1>9, <1>11 DEF vars
<1> QED
  BY <1>1, <1>2, <1>3, <1>4, <1>5, <1>6, <1>7, <1>8, <1>10, <1>11 DEF Next, Step

\* However connects of all kinds overlap, with disconnects and restarts, the progress
\* of an SSH connect is shown only if one has begun that has not succeeded
\* (update_server_connection_progress).
THEOREM ProgressIsOwned == Spec => []ProgressHasOwner
<1>1. Init => ProgressInv
  BY DEF Init, ProgressInv, ProgressHasOwner, ShowsProgress, Ops, Connects
<1>2. ProgressInv => ProgressHasOwner
  BY DEF ProgressInv
<1> QED
  BY <1>1, <1>2, TypeInit, TypeStep, ProgressStep, PTL DEF Spec

\* A port is only found where a direct connection is open to the plan.
LEMMA PortsAreOpen ==
  ASSUME NEW r \in Records, DirectPort(r) # 0
  PROVE  Mode(r) # "ssh" /\ ~NeedsChoice(r)
  BY DEF DirectPort, NeedsChoice

\* However the fields of a record contradict each other, and for any ports: a chosen
\* mode is kept, a port is not picked where a choice is due, and a credential does not
\* change the way of a plan that needs none (compute_reconnect_plan_with_slingshot).
THEOREM PlansAreTheUsers == PlanIsTheUsers
<1> SUFFICES ASSUME NEW r \in Records, NEW m \in Means
    PROVE  /\ PlanOf(r, m).by = "ssh" => r.mode # "directCodex"
           /\ PlanOf(r, m).by = "direct" => Mode(r) # "ssh" /\ ~NeedsChoice(r)
           /\ PlanOf(r, WithoutCredentials(m)).by \notin {"none", "local"}
                => PlanOf(r, m) = PlanOf(r, WithoutCredentials(m))
  BY DEF PlanIsTheUsers
<1>1. PlanOf(r, m).by = "ssh" => r.mode # "directCodex"
  BY DEF PlanOf, PlanWithoutUrl, MayFallBack, Mode, By, Given, Direct
<1>2. PlanOf(r, m).by = "direct" => DirectPort(r) # 0
  BY DEF PlanOf, PlanWithoutUrl, By, Given, Direct
<1>3. PlanOf(r, WithoutCredentials(m)).by \notin {"none", "local"}
        => PlanOf(r, m) = PlanOf(r, WithoutCredentials(m))
  BY DEF WithoutCredentials, PlanOf, PlanWithoutUrl, By, Given, Direct
<1> QED BY <1>1, <1>2, <1>3, PortsAreOpen
=============================================================================
