-------------------------- MODULE SessionLifecycle --------------------------
(***************************************************************************)
(* The operations of MobileClient that create, replace and close the       *)
(* ServerSession of ONE server id (mobile_client/mod.rs, ffi/discovery.rs, *)
(* ffi/ssh.rs).  They run on the tasks of their callers, so their steps    *)
(* between two awaits interleave.  Only some of them take the connection   *)
(* gate.  A session is abstracted to whether it runs and to the value of   *)
(* its health channel: ServerSession has the rest, and its                 *)
(* DisconnectCompletes is why a session that is closing gets closed here.  *)
(***************************************************************************)
EXTENDS Naturals, Sequences

CONSTANTS
  Alleycat,    \* calls of connect_remote_over_alleycat
  Slingshot,   \* calls of connect_remote_over_slingshot
  Plain,       \* calls of connect_remote and connect_local
  Bridges,     \* calls of connect_remote_over_ssh_bridges
  Ssh,         \* calls of connect_remote_over_ssh
  Guided,      \* calls of start_remote_over_ssh_connect
  Disconnects, \* calls of disconnect_server
  Restarts,    \* calls of restart_app_server
  Casts,       \* sets of these calls that are looked at together
  None,
  MaxFlips     \* model bound: health changes of a running session

Connects == Alleycat \cup Slingshot \cup Plain \cup Bridges \cup Ssh \cup Guided
Ops == Connects \cup Disconnects \cup Restarts
Gated == Alleycat \cup Disconnects
Sessions == Connects  \* a connect makes at most one session, named after it

ASSUME KindsAssumption ==
  /\ (Alleycat \cup Slingshot) \cap (Plain \cup Bridges \cup Ssh \cup Guided) = {}
  /\ Alleycat \cap Slingshot = {}
  /\ (Plain \cup Bridges) \cap (Ssh \cup Guided) = {}
  /\ Plain \cap Bridges = {} /\ Ssh \cap Guided = {}
  /\ Connects \cap (Disconnects \cup Restarts) = {}
  /\ Disconnects \cap Restarts = {}
  /\ None \notin Ops
  /\ MaxFlips \in Nat

VARIABLES
  cast,      \* the calls that are made in this behaviour
  pc,        \* where each call stands
  mine,      \* the session a call has in hand
  order,     \* the calls that came to the gate, in that order
  slot,      \* sessions[server_id]
  run,       \* what becomes of each session's workers
  health,    \* health channel of each session
  store,     \* health of the server in the app store, or "absent"
  progress,  \* connection_progress of the server in the app store
  flips

table == <<slot, run, health>>
ui == <<store, progress>>
vars == <<cast, pc, mine, order, slot, run, health, store, progress, flips>>

TypeOK ==
  /\ pc \in [Ops -> {"idle", "queued", "probing", "checking", "preparing",
                     "replacing", "closing", "dialing", "attaching", "mapping",
                     "removing", "forgetting", "ok", "err"}]
  /\ mine \in [Ops -> Sessions \cup {None}]
  /\ order \in Seq(Gated)
  /\ slot \in Sessions \cup {None}
  /\ run \in [Sessions -> {"unborn", "live", "closing", "closed"}]
  /\ health \in [Sessions -> {"connecting", "connected", "disconnected"}]
  /\ store \in {"absent", "connecting", "connected", "disconnected"}
  /\ progress \in {"none", "running", "failed"}
  /\ flips \in 0..MaxFlips

Init ==
  /\ cast \in Casts
  /\ pc = [o \in Ops |-> "idle"]
  /\ mine = [o \in Ops |-> None]
  /\ order = <<>>
  /\ slot = None
  /\ run = [s \in Sessions |-> "unborn"]
  /\ health = [s \in Sessions |-> "disconnected"]
  /\ store = "absent" /\ progress = "none"
  /\ flips = 0

Goto(o, l) == pc' = [pc EXCEPT ![o] = l]
Over(o) == pc[o] \in {"ok", "err"}

\* upsert_server keeps the progress of an existing entry; update_server_health
\* changes an existing entry only.
Upsert(h) == store' = h
Report(h) == store' = IF store = "absent" THEN "absent" ELSE h
ReportProgress(p) == progress' = IF store = "absent" THEN "none" ELSE p

----------------------------------------------------------------------------
(* Beginning, and the gate: a fair mutex held to the end of the call *)

FirstStep(o) ==
  CASE o \in Gated                  -> "queued"
    [] o \in Slingshot \cup Plain   -> "checking"
    [] o \in Bridges \cup Ssh \cup Guided -> "preparing"
    [] o \in Restarts               -> "removing"

\* ssh_bootstrap_flows: a second guided connect joins the one in progress.
JoinsFlow(o) == o \in Guided /\ \E p \in Guided \ {o} : pc[p] # "idle" /\ ~Over(p)

\* Mutant: a restart comes to the gate, which it does not take.
AnyoneComes(o) == order' = Append(order, o)

ComeToGate(o) == order' = IF o \in Gated THEN Append(order, o) ELSE order

Begin(o) ==
  /\ o \in cast /\ pc[o] = "idle"
  /\ ComeToGate(o)
  /\ Goto(o, IF JoinsFlow(o) THEN "ok" ELSE FirstStep(o))
  /\ UNCHANGED <<cast, mine, table, ui, flips>>

\* Mutant: nobody waits at the gate.
OpenGate(o) == TRUE

\* Mutant: a call that fails keeps the gate.
HoldsAfterOk(o) ==
  \A i, j \in DOMAIN order :
    order[j] = o /\ i < j => pc[order[i]] = "ok"

\* tokio's Mutex serves its waiters in order.
HoldsGate(o) ==
  \A i, j \in DOMAIN order :
    order[j] = o /\ i < j => Over(order[i])

Lock(o) ==
  /\ pc[o] = "queued" /\ HoldsGate(o)
  /\ Goto(o, IF o \in Alleycat THEN "probing" ELSE "removing")
  /\ UNCHANGED <<cast, mine, order, table, ui, flips>>

----------------------------------------------------------------------------
(* Connecting *)

\* list_alleycat_agents, and the choice of runtimes among its answers.
Probe(o) ==
  /\ pc[o] = "probing"
  /\ \/ Goto(o, "checking") /\ UNCHANGED store
     \/ Goto(o, "err") /\ UNCHANGED store
     \/ Goto(o, "err") /\ Report("disconnected")
  /\ UNCHANGED <<cast, mine, order, table, progress, flips>>

\* existing_active_session; alleycat insists on a connected session.
Reusable(o) ==
  /\ slot # None
  /\ IF o \in Alleycat THEN health[slot] = "connected" ELSE health[slot] # "disconnected"

\* A connected session that lacks a runtime asked for is rebuilt.
Check(o) ==
  /\ pc[o] = "checking"
  /\ \/ Reusable(o) /\ Goto(o, "ok")
     \/ ~Reusable(o) /\ Goto(o, "preparing")
     \/ Reusable(o) /\ o \in Alleycat /\ Goto(o, "preparing")
  /\ UNCHANGED <<cast, mine, order, table, ui, flips>>

\* What precedes the replacement: the Slingshot enrollment, which can fail, and
\* the entry in the store.  A guided connect replaces nothing.
Prepare(o) ==
  /\ pc[o] = "preparing"
  /\ \/ /\ Goto(o, IF o \in Guided THEN "dialing" ELSE "replacing")
        /\ IF o \in Plain THEN UNCHANGED store ELSE Upsert("connecting")
        /\ progress' = IF o \in Ssh \cup Guided THEN "running" ELSE progress
     \/ o \in Slingshot /\ Goto(o, "err") /\ UNCHANGED ui
  /\ UNCHANGED <<cast, mine, order, table, flips>>

\* Take the session out of the map; its disconnect begins at once.
Remove(o) ==
  /\ slot' = None
  /\ mine' = [mine EXCEPT ![o] = slot]

\* Mutant: the old session is closed and stays in the map.
CloseInPlace(o) == slot' = slot /\ mine' = [mine EXCEPT ![o] = slot]

\* replace_existing_session's removal of the old session.
TakeOut(o) == Remove(o)

CloseSession(s) ==
  /\ run' = [run EXCEPT ![s] = "closing"]
  /\ health' = [health EXCEPT ![s] = "disconnected"]

Replace(o) ==
  /\ pc[o] = "replacing"
  /\ TakeOut(o)
  /\ IF slot = None
     THEN Goto(o, "dialing") /\ UNCHANGED <<run, health>>
     ELSE Goto(o, "closing") /\ CloseSession(slot)
  /\ UNCHANGED <<cast, order, ui, flips>>

\* session.disconnect().await returns: every worker has been joined.
AwaitClose(o) ==
  /\ pc[o] = "closing" /\ run[mine[o]] = "closed"
  /\ mine' = [mine EXCEPT ![o] = None]
  /\ Goto(o, IF o \in Connects THEN "dialing" ELSE "ok")
  /\ UNCHANGED <<cast, order, table, ui, flips>>

\* The transport is opened and connect_remote_multiplexed makes a session of it.
DialSucceeds(o) ==
  /\ pc[o] = "dialing"
  /\ run' = [run EXCEPT ![o] = "live"]
  /\ health' = [health EXCEPT ![o] = "connected"]
  /\ mine' = [mine EXCEPT ![o] = o]
  /\ Goto(o, "attaching")
  /\ UNCHANGED <<cast, order, slot, ui, flips>>

\* Not every path out of a failed connect writes the store: SshClient::connect
\* and connect_runtime_resources_via_ssh are left with a bare `?`.
DialFails(o) ==
  /\ pc[o] = "dialing"
  /\ Goto(o, "err")
  /\ \/ o \in Plain \cup Bridges \cup Ssh /\ UNCHANGED ui
     \/ o \in Alleycat \cup Slingshot \cup Bridges /\ Report("disconnected") /\ UNCHANGED progress
     \/ o \in Ssh /\ Report("disconnected") /\ ReportProgress("none")
     \/ o \in Guided /\ Report("disconnected") /\ ReportProgress("failed")
  /\ UNCHANGED <<cast, mine, order, table, flips>>

\* Mutant: a connect that succeeds leaves the progress.
KeepsProgress(o) == UNCHANGED progress

\* clear_server_connection_progress of the SSH connects.
ClearsProgress(o) ==
  IF o \in Ssh \cup Guided THEN ReportProgress("none") ELSE UNCHANGED progress

\* attach_remote_session: the store first, then the map.
Attach(o) ==
  \/ /\ pc[o] = "attaching"
     /\ Goto(o, "mapping")
     /\ Upsert("connected")
     /\ UNCHANGED <<cast, mine, order, table, progress, flips>>
  \/ /\ pc[o] = "mapping"
     /\ Goto(o, "ok")
     /\ slot' = mine[o]
     /\ mine' = [mine EXCEPT ![o] = None]
     /\ ClearsProgress(o)
     /\ UNCHANGED <<cast, order, run, health, store, flips>>

----------------------------------------------------------------------------
(* disconnect_server and restart_app_server *)

\* Before it removes anything restart_app_server may fail to restart the agent.
RemoveServer(o) ==
  \/ /\ pc[o] = "removing"
     /\ Remove(o)
     /\ Goto(o, "forgetting")
     /\ UNCHANGED <<cast, order, run, health, ui, flips>>
  \/ /\ pc[o] = "removing" /\ o \in Restarts
     /\ Goto(o, "err")
     /\ UNCHANGED <<cast, mine, order, table, ui, flips>>

Forget(o) ==
  /\ pc[o] = "forgetting"
  /\ store' = "absent" /\ progress' = "none"
  /\ IF mine[o] = None
     THEN Goto(o, IF o \in Restarts THEN "err" ELSE "ok") /\ UNCHANGED <<run, health>>
     ELSE Goto(o, "closing") /\ CloseSession(mine[o])
  /\ UNCHANGED <<cast, mine, order, slot, flips>>

----------------------------------------------------------------------------
(* The sessions *)

\* A session's workers lose, repair or give up their connections.
Flip(s) ==
  /\ run[s] = "live" /\ flips < MaxFlips
  /\ \E h \in {"connecting", "connected", "disconnected"} \ {health[s]} :
       health' = [health EXCEPT ![s] = h]
  /\ flips' = flips + 1
  /\ UNCHANGED <<cast, pc, mine, order, slot, run, ui>>

Stop(s) ==
  /\ run[s] = "closing"
  /\ run' = [run EXCEPT ![s] = "closed"]
  /\ UNCHANGED <<cast, pc, mine, order, slot, health, ui, flips>>

----------------------------------------------------------------------------

Step(o) ==
  \/ Lock(o) \/ Probe(o) \/ Check(o) \/ Prepare(o) \/ Replace(o) \/ AwaitClose(o)
  \/ DialSucceeds(o) \/ DialFails(o) \/ Attach(o) \/ RemoveServer(o) \/ Forget(o)

Next ==
  \/ \E o \in Ops : Begin(o) \/ Step(o)
  \/ \E s \in Sessions : Flip(s) \/ Stop(s)

Spec == Init /\ [][Next]_vars

\* A call that has begun is polled to its end, dialing included: it has timeouts.
\* Sessions told to stop do (ServerSession!DisconnectCompletes).
FairSpec ==
  /\ Spec
  /\ \A o \in Ops : WF_vars(Step(o))
  /\ \A s \in Sessions : WF_vars(Stop(s))

----------------------------------------------------------------------------
(* Properties *)

\* A session that runs can still be reached and closed: it is the one in the
\* map, or a call is about to put it there or to close it.  Otherwise its readers
\* keep it alive, its workers go on reconnecting and no call can stop them
\* (mod.rs:66-69 says so of two connects that do not share the gate).  So it is as
\* long as only connects that take the gate begin, restarts beside them or not.
InHand(s) ==
  \E o \in Ops : mine[o] = s /\ pc[o] \in {"attaching", "mapping", "forgetting"}
OnlyGated == \A o \in Connects \ Gated : pc[o] = "idle"
Reachable == \A s \in Sessions : run[s] = "live" => slot = s \/ InHand(s)
NoOrphan == OnlyGated => Reachable

\* get_session never hands out a session that is being closed or has been, even
\* where replacing and closing calls overlap (mod.rs:1381-1391, 2407-2451).
MappedIsOpen == slot # None => run[slot] = "live"

\* The last word is the user's: when a disconnect has returned, and every connect
\* that has begun came to the gate before it, the server is gone from the map and from the
\* store (mod.rs:2407-2425; the gate is served in order).
Before(o, d) == \E i, j \in DOMAIN order : i < j /\ order[i] = o /\ order[j] = d
DisconnectHolds ==
  \A d \in Disconnects :
    pc[d] = "ok" /\ (\A o \in Connects : pc[o] = "idle" \/ Before(o, d))
      => slot = None /\ store = "absent"

\* The progress of an SSH connect is shown while one is under way, and its success
\* ends it for good however the connects overlap (reducer.rs:1943-1946: until it
\* finishes).  Only a connect that failed may have left it (mod.rs:2141).
ProgressHasOwner ==
  progress = "running" => \E o \in Ssh \cup Guided : pc[o] \notin {"idle", "ok"}

\* No call waits for ever: not for the gate, not for an old session to close.
CallsReturn == \A o \in Ops : pc[o] # "idle" ~> Over(o)
=============================================================================
