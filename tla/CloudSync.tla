------------------------------ MODULE CloudSync ------------------------------
(***************************************************************************)
(* Settings shared by the devices of one account: the envelope and merge of*)
(* cloud_sync/mod.rs, driven by CloudKVSBridge.swift.  One Rust-owned      *)
(* setting stands for pins, hidden threads and home selection ("pins", kept*)
(* in mobile_prefs.json), one Swift-owned for the UserDefaults keys        *)
(* ("font").                                                               *)
(*                                                                         *)
(* A value is the number of the user's edit that made it, 0 at first, so   *)
(* that a larger value is a later decision.  The bridge runs on the main   *)
(* actor: each of its methods is one step, and what it puts into a Task is *)
(* a later one.  The key-value store is external: a copy on each device,   *)
(* uploaded and downloaded whole.                                          *)
(***************************************************************************)
EXTENDS Naturals, FiniteSets

CONSTANTS
  Devices,
  Scenarios         \* offline: an envelope may reach the cloud later than it is set;
                    \* skewed: each device has a clock of its own, which may be set back;
                    \* and the model bounds: edits, restarts, readings of the clock

ASSUME CloudAssumption ==
  Scenarios \subseteq [offline : BOOLEAN, skewed : BOOLEAN,
                      edits : Nat, restarts : Nat, clock : Nat]

VARIABLES
  scenario,
  clock,           \* SystemTime of each device
  edits, restarts,
  pins, font,      \* mobile_prefs.json and UserDefaults of each device
  table,           \* PLATFORM_TABLE, in memory
  applied,         \* lastAppliedEnvelopeHash
  exporting,       \* pendingExportTask
  last,            \* when the device last exported, 0 for never
  observed,        \* changes of font whose Task has not run, by who made them
  kvs, unsent,     \* the device's copy of the envelope, and whether it was uploaded
  notified,        \* didChangeExternally is on its way
  cloud

settings == <<pins, font>>
bridge == <<table, applied, exporting, last, observed>>
store == <<kvs, unsent, notified, cloud>>
vars == <<scenario, clock, edits, restarts, settings, bridge, store>>

Keys == {"pins", "font"}
None == [none |-> TRUE]
Entries == [value : 0..scenario.edits, at : 0..scenario.clock]
Envelopes == [Keys -> Entries \cup {None}]

TypeOK ==
  /\ scenario \in Scenarios
  /\ clock \in [Devices -> 0..scenario.clock] /\ edits \in 0..scenario.edits
  /\ restarts \in 0..scenario.restarts
  /\ pins \in [Devices -> 0..edits] /\ font \in [Devices -> 0..edits]
  /\ table \in [Devices -> Envelopes]
  /\ applied \in [Devices -> Envelopes \cup {None}]
  /\ exporting \in [Devices -> BOOLEAN] /\ last \in [Devices -> 0..scenario.clock]
  /\ observed \in [Devices -> SUBSET {"user", "merge"}]
  /\ kvs \in [Devices -> Envelopes \cup {None}] /\ cloud \in Envelopes \cup {None}
  /\ unsent \in [Devices -> BOOLEAN] /\ notified \in [Devices -> BOOLEAN]

\* New devices of a new account, launched.
Init ==
  /\ scenario \in Scenarios
  /\ clock = [d \in Devices |-> 0] /\ edits = 0 /\ restarts = 0
  /\ pins = [d \in Devices |-> 0] /\ font = [d \in Devices |-> 0]
  /\ table = [d \in Devices |-> [k \in Keys |-> None]]
  /\ applied = [d \in Devices |-> None]
  /\ exporting = [d \in Devices |-> TRUE] /\ last = [d \in Devices |-> 0]
  /\ observed = [d \in Devices |-> {}]
  /\ kvs = [d \in Devices |-> None] /\ cloud = None
  /\ unsent = [d \in Devices |-> FALSE] /\ notified = [d \in Devices |-> FALSE]

\* now_ms: time may have passed since the last reading of the clock or not.
Now(d, t) ==
  /\ t \in {clock[d], clock[d] + 1} /\ t <= scenario.clock
  /\ clock' = IF scenario.skewed THEN [clock EXCEPT ![d] = t] ELSE [e \in Devices |-> t]

\* The device sets its clock back; the half second until the next export is not
\* measured by it.
SetBack(d) ==
  /\ scenario.skewed
  /\ \E t \in 0..scenario.clock : t < clock[d] /\ clock' = [clock EXCEPT ![d] = t]
  /\ last' = [last EXCEPT ![d] = 0]
  /\ UNCHANGED <<scenario, edits, restarts, settings, table, applied, exporting, observed,
                 store>>

Entry(v, t) == [value |-> v, at |-> t]

-----------------------------------------------------------------------------
(* The user. *)

\* preferences_add_pinned_thread and its like, then notifyRustPreferencesChanged
EditPins(d) ==
  /\ edits < scenario.edits
  /\ edits' = edits + 1
  /\ pins' = [pins EXCEPT ![d] = edits']
  /\ exporting' = [exporting EXCEPT ![d] = TRUE]
  /\ UNCHANGED <<scenario, clock, restarts, font, table, applied, last, observed, store>>

EditFont(d) ==
  /\ edits < scenario.edits
  /\ edits' = edits + 1
  /\ font' = [font EXCEPT ![d] = edits']
  /\ observed' = [observed EXCEPT ![d] = @ \cup {"user"}]
  /\ UNCHANGED <<scenario, clock, restarts, pins, table, applied, exporting, last, store>>

-----------------------------------------------------------------------------
(* cloud_sync *)

\* Mutant: the remote value is taken whatever its time.
Always(mine, remote) == TRUE

\* Mutant: only what has never been received is taken.
OnlyFirst(mine, remote) == mine = None

\* apply_snapshot, platform keys: ties favor the remote side.
FontIsNewer(mine, remote) == mine = None \/ mine.at <= remote.at

\* merge_rust_key
PinsAreNewer(mine, remote) == mine = None \/ mine.at < remote.at

\* Whether apply_snapshot takes key k of the envelope.
Takes(d, env, k) ==
  /\ env[k] # None
  /\ CASE k = "font" -> FontIsNewer(table[d][k], env[k])
       [] k = "pins" -> PinsAreNewer(table[d][k], env[k])

Records(d, env, old) == [k \in Keys |-> IF Takes(d, env, k) THEN env[k] ELSE old[k]]

\* apply_snapshot, and applyWritebacks: a default that changes is observed.
Merge(d, env) ==
  LET pin == IF Takes(d, env, "pins") THEN env["pins"].value ELSE pins[d]
      fnt == IF Takes(d, env, "font") THEN env["font"].value ELSE font[d]
  IN
  /\ table' = [table EXCEPT ![d] = Records(d, env, @)]
  /\ pins' = [pins EXCEPT ![d] = pin] /\ font' = [font EXCEPT ![d] = fnt]
  /\ applied' = [applied EXCEPT ![d] = env]
  /\ observed' = [observed EXCEPT ![d] = IF fnt = font[d] THEN @ ELSE @ \cup {"merge"}]

\* build_snapshot: the Rust-owned value has the time of the export.
Snapshot(d, t) ==
  [k \in Keys |-> IF k = "pins" THEN Entry(pins[d], t) ELSE table[d][k]]

-----------------------------------------------------------------------------
(* CloudKVSBridge *)

\* handleLocalDefaultsChange runs after isApplyingRemoteUpdate has been reset.
Observe(d, by) ==
  /\ by \in observed[d]
  /\ \E t \in 0..scenario.clock :
       /\ Now(d, t)
       /\ table' = [table EXCEPT ![d]["font"] = Entry(font[d], t)]
  /\ observed' = [observed EXCEPT ![d] = @ \ {by}]
  /\ exporting' = [exporting EXCEPT ![d] = TRUE]
  /\ UNCHANGED <<scenario, edits, restarts, settings, applied, last, store>>

\* exportNow, half a second or more after the one before (debounceInterval)
Export(d) ==
  /\ exporting[d]
  /\ exporting' = [exporting EXCEPT ![d] = FALSE]
  /\ \E t \in 0..scenario.clock :
       /\ Now(d, t) /\ t > last[d]
       /\ last' = [last EXCEPT ![d] = t]
       /\ applied' = [applied EXCEPT ![d] = Snapshot(d, t)]
       /\ kvs' = [kvs EXCEPT ![d] = Snapshot(d, t)]
  /\ IF scenario.offline THEN unsent' = [unsent EXCEPT ![d] = TRUE] /\ UNCHANGED cloud
                ELSE cloud' = kvs'[d] /\ UNCHANGED unsent
  /\ UNCHANGED <<scenario, edits, restarts, settings, table, observed, notified>>

\* applyEnvelopeFromStore
ApplyStored(d) ==
  \/ /\ kvs[d] = None \/ kvs[d] = applied[d]
     /\ UNCHANGED <<settings, table, applied, observed>>
  \/ /\ kvs[d] # None /\ kvs[d] # applied[d]
     /\ Merge(d, kvs[d])

\* handleExternalChange
SeeChange(d) ==
  /\ notified[d]
  /\ notified' = [notified EXCEPT ![d] = FALSE]
  /\ ApplyStored(d)
  /\ UNCHANGED <<scenario, clock, edits, restarts, exporting, last, kvs, unsent, cloud>>

\* The app ends at any time; its next launch calls start.
Restart(d) ==
  /\ restarts < scenario.restarts
  /\ restarts' = restarts + 1
  /\ notified' = [notified EXCEPT ![d] = FALSE]
  /\ exporting' = [exporting EXCEPT ![d] = TRUE]
  /\ LET env == kvs[d]
         took == {k \in Keys : env # None /\ env[k] # None}
         fnt == IF "font" \in took THEN env["font"].value ELSE font[d]
     IN
     /\ table' = [table EXCEPT ![d] = [k \in Keys |-> IF k \in took THEN env[k] ELSE None]]
     /\ pins' = [pins EXCEPT ![d] = IF "pins" \in took THEN env["pins"].value ELSE @]
     /\ font' = [font EXCEPT ![d] = fnt]
     /\ observed' = [observed EXCEPT ![d] = IF fnt = font[d] THEN {} ELSE {"merge"}]
     /\ applied' = [applied EXCEPT ![d] = env]
  /\ UNCHANGED <<scenario, clock, edits, last, kvs, unsent, cloud>>

-----------------------------------------------------------------------------
(* NSUbiquitousKeyValueStore *)

Upload(d) ==
  /\ unsent[d]
  /\ cloud' = kvs[d]
  /\ unsent' = [unsent EXCEPT ![d] = FALSE]
  /\ UNCHANGED <<scenario, clock, edits, restarts, settings, bridge, kvs, notified>>

Download(d) ==
  /\ ~unsent[d] /\ cloud # kvs[d]
  /\ kvs' = [kvs EXCEPT ![d] = cloud]
  /\ notified' = [notified EXCEPT ![d] = TRUE]
  /\ UNCHANGED <<scenario, clock, edits, restarts, settings, bridge, unsent, cloud>>

-----------------------------------------------------------------------------

Bridge(d) == Observe(d, "user") \/ Observe(d, "merge") \/ Export(d) \/ SeeChange(d)
KeyValueStore(d) == Upload(d) \/ Download(d)

Next ==
  \E d \in Devices :
    EditPins(d) \/ EditFont(d) \/ Bridge(d) \/ Restart(d) \/ KeyValueStore(d) \/ SetBack(d)

Spec == Init /\ [][Next]_vars

\* Timers fire, tasks run, and devices are online again and again.
FairSpec ==
  /\ Spec
  /\ \A d \in Devices : WF_vars(Bridge(d)) /\ WF_vars(Upload(d)) /\ WF_vars(Download(d))

-----------------------------------------------------------------------------

\* What a running device knows of a setting never gets older: an envelope that was
\* long on its way undoes nothing that is recorded (apply_snapshot, merge_rust_key).
\* Only where clocks differ does a record get older, on a device whose own clock is
\* behind it (update_platform_value, which compares nothing).
NeverOlder ==
  [][\A d \in Devices, k \in Keys :
       (restarts' = restarts /\ table[d][k] # None) =>
         /\ table'[d][k] # None
         /\ \/ table'[d][k].at >= table[d][k].at
            \/ scenario.skewed /\ k = "font" /\ clock'[d] < table[d][k].at]_vars

\* While all are online, none restarts and the clocks agree: when the users stop, the
\* devices come to agree for good on the Rust-owned setting, on one of the values they
\* had (merge_rust_key, exportNow).
Faultless == ~scenario.offline /\ ~scenario.skewed /\ scenario.restarts = 0

PinsConverge == <>[](Faultless => \A d, e \in Devices : pins[d] = pins[e])
=============================================================================
