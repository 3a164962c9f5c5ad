--------------------------- MODULE CloudSync_proof ---------------------------
(***************************************************************************)
(* What a running device has recorded of a setting never gets older unless *)
(* its own clock is behind, for any devices, clocks, edits and ways the    *)
(* envelopes take.                                                         *)
(***************************************************************************)
EXTENDS CloudSync, TLAPS

\* Where all read one clock, no entry comes from the future.
IsEntry(e) ==
  \/ e = None
  \/ /\ e # None /\ e.at \in Nat
     /\ scenario.skewed \/ \A d \in Devices : e.at <= clock[d]

IsEnvelope(env) == env = None \/ \A k \in Keys : IsEntry(env[k])

IInv ==
  /\ clock \in [Devices -> Nat] /\ restarts \in Nat
  /\ scenario.skewed \/ \A d, e \in Devices : clock[d] = clock[e]
  /\ DOMAIN table = Devices
  /\ \A d \in Devices : DOMAIN table[d] = Keys /\ \A k \in Keys : IsEntry(table[d][k])
  /\ DOMAIN kvs = Devices /\ \A d \in Devices : IsEnvelope(kvs[d])
  /\ IsEnvelope(cloud)

\* What device d has recorded gets newer, or its clock is behind.
Newer(d) ==
  \A k \in Keys : table[d][k] # None =>
    /\ table'[d][k] # None
    /\ \/ table'[d][k].at >= table[d][k].at
       \/ scenario.skewed /\ k = "font" /\ clock'[d] < table[d][k].at

LEMMA Times == \A v : \A t : Entry(v, t) # None /\ Entry(v, t).at = t
BY DEF Entry, None

LEMMA InitInv == Init => IInv
BY DEF Init, IInv, IsEntry, IsEnvelope

\* The clock of the device goes on, and that of all where they read one.
LEMMA Ticks ==
  ASSUME IInv, NEW d \in Devices, NEW t, Now(d, t)
  PROVE  /\ t \in Nat /\ clock' \in [Devices -> Nat] /\ clock'[d] = t
         /\ scenario.skewed \/ \A e \in Devices : clock'[e] = t /\ clock[e] <= t
BY DEF IInv, Now

LEMMA Later ==
  ASSUME IInv, UNCHANGED scenario,
         scenario.skewed \/ \A d \in Devices : clock'[d] \in Nat /\ clock[d] <= clock'[d]
  PROVE  /\ \A e : IsEntry(e) => IsEntry(e)'
         /\ \A env : IsEnvelope(env) => IsEnvelope(env)'
<1>1. ASSUME NEW e, IsEntry(e) PROVE IsEntry(e)'
  BY <1>1 DEF IsEntry, IInv
<1> QED
  BY <1>1 DEF IsEnvelope

\* Whatever leaves the tables and the envelopes alone.
LEMMA Untouched ==
  ASSUME IInv, UNCHANGED <<scenario, clock, restarts, table, kvs, cloud>>
  PROVE  IInv' /\ \A d \in Devices : Newer(d)
<1>1. IInv'
  BY DEF IInv, IsEntry, IsEnvelope
<1>2. \A d \in Devices : Newer(d)
  BY DEF IInv, IsEntry, Newer
<1> QED
  BY <1>1, <1>2

\* A change of the user is recorded with the time at which it is seen.
LEMMA ObserveKeeps ==
  ASSUME IInv, NEW d \in Devices, NEW by, Observe(d, by)
  PROVE  IInv' /\ \A e \in Devices : Newer(e)
<1>1. PICK t : Now(d, t) /\ table' = [table EXCEPT ![d]["font"] = Entry(font[d], t)]
  BY DEF Observe
<1>2. UNCHANGED <<scenario, restarts, kvs, cloud>>
  BY DEF Observe, store
<1>3. /\ t \in Nat /\ clock' \in [Devices -> Nat] /\ clock'[d] = t
      /\ scenario.skewed \/ \A e \in Devices : clock'[e] = t /\ clock[e] <= t
  BY <1>1, Ticks
<1>4. /\ \A e : IsEntry(e) => IsEntry(e)'
      /\ \A env : IsEnvelope(env) => IsEnvelope(env)'
  BY <1>2, <1>3, Later
<1>5. PICK new : new = Entry(font[d], t)
  OBVIOUS
<1>6. new # None /\ new.at = t
  BY <1>5, Times
<1>7. PICK env : env = [table[d] EXCEPT !["font"] = new]
  OBVIOUS
<1>8. table' = [table EXCEPT ![d] = env]
  BY <1>1, <1>5, <1>7
<1>9. DOMAIN env = Keys /\ \A k \in Keys : env[k] = IF k = "font" THEN new ELSE table[d][k]
  BY <1>7 DEF IInv
<1>10. /\ DOMAIN table' = Devices
       /\ \A e \in Devices : table'[e] = IF e = d THEN env ELSE table[e]
  BY <1>8 DEF IInv
<1>11. IsEntry(new)'
  BY <1>2, <1>3, <1>6 DEF IsEntry
<1>12. \A k \in Keys : IsEntry(env[k])'
  BY <1>4, <1>9, <1>11 DEF IInv
<1>13. IInv'
  BY <1>2, <1>3, <1>4, <1>9, <1>10, <1>12 DEF IInv
<1>14. ASSUME NEW e \in Devices, NEW k \in Keys, table[e][k] # None
       PROVE  /\ table'[e][k] # None
              /\ \/ table'[e][k].at >= table[e][k].at
                 \/ scenario.skewed /\ k = "font" /\ clock'[e] < table[e][k].at
  <2>1. /\ table[e][k].at \in Nat
        /\ scenario.skewed \/ table[e][k].at <= clock[e]
    BY <1>14 DEF IInv, IsEntry
  <2>2. (e = d /\ k = "font" /\ table'[e][k] = new) \/ table'[e][k] = table[e][k]
    BY <1>9, <1>10
  <2>3. CASE table'[e][k] = table[e][k]
    BY <1>14, <2>1, <2>3
  <2>4. CASE e = d /\ k = "font" /\ table'[e][k] = new
    <3>1. table'[e][k] # None /\ table'[e][k].at = t /\ clock'[e] = t
      BY <1>3, <1>6, <2>4
    <3>2. CASE scenario.skewed
      BY <1>3, <2>1, <2>4, <3>1, <3>2
    <3>3. CASE ~scenario.skewed
      <4>1. table[e][k].at <= clock[e] /\ clock[e] <= t /\ clock[e] \in Nat
        BY <1>3, <2>1, <3>3 DEF IInv
      <4> QED
        BY <1>3, <2>1, <3>1, <4>1
    <3> QED
      BY <3>2, <3>3
  <2> QED
    BY <2>2, <2>3, <2>4
<1> QED
  BY <1>13, <1>14 DEF Newer

\* What is exported has the time of the export.
LEMMA ExportKeeps ==
  ASSUME IInv, NEW d \in Devices, Export(d)
  PROVE  IInv' /\ \A e \in Devices : Newer(e)
<1>1. PICK t : Now(d, t) /\ kvs' = [kvs EXCEPT ![d] = Snapshot(d, t)]
  BY DEF Export
<1>2. UNCHANGED <<scenario, restarts, table>> /\ cloud' \in {cloud, kvs'[d]}
  BY DEF Export
<1>3. /\ t \in Nat /\ clock' \in [Devices -> Nat] /\ clock'[d] = t
      /\ scenario.skewed \/ \A e \in Devices : clock'[e] = t /\ clock[e] <= t
  BY <1>1, Ticks
<1>4. /\ \A e : IsEntry(e) => IsEntry(e)'
      /\ \A env : IsEnvelope(env) => IsEnvelope(env)'
  BY <1>2, <1>3, Later
<1>5. PICK new : new = Entry(pins[d], t)
  OBVIOUS
<1>6. IsEntry(new)'
  BY <1>2, <1>3, <1>5, Times DEF IsEntry
<1>7. PICK env : env = Snapshot(d, t)
  OBVIOUS
<1>8. \A k \in Keys : env[k] = IF k = "pins" THEN new ELSE table[d][k]
  BY <1>5, <1>7 DEF Snapshot
<1>9. \A k \in Keys : IsEntry(env[k])'
  BY <1>4, <1>6, <1>8 DEF IInv
<1>10. IsEnvelope(env)'
  BY <1>9 DEF IsEnvelope
<1>11. kvs' = [kvs EXCEPT ![d] = env]
  BY <1>1, <1>7
<1>12. \A e \in Devices, k \in Keys : IsEntry(table[e][k])'
  BY <1>2, <1>4 DEF IInv
<1>13. IInv'
  BY <1>2, <1>3, <1>4, <1>10, <1>11, <1>12 DEF IInv
<1>14. \A e \in Devices : Newer(e)
  BY <1>2 DEF IInv, IsEntry, Newer
<1> QED
  BY <1>13, <1>14

\* An entry of the envelope is taken only if it is no older than the one recorded.
LEMMA MergeKeeps ==
  ASSUME IInv, NEW d \in Devices, NEW env, IsEnvelope(env), env # None, Merge(d, env),
         UNCHANGED <<scenario, clock, restarts, kvs, cloud>>
  PROVE  IInv' /\ \A e \in Devices : Newer(e)
<1>1. table' = [table EXCEPT ![d] = Records(d, env, table[d])]
  BY DEF Merge
<1>2. /\ DOMAIN table' = Devices
      /\ \A e \in Devices : DOMAIN table'[e] = Keys
      /\ \A e \in Devices, k \in Keys :
           table'[e][k] = IF e = d /\ Takes(d, env, k) THEN env[k] ELSE table[e][k]
  BY <1>1 DEF IInv, Records
<1>3. \A e : IsEntry(e)' <=> IsEntry(e)
  BY DEF IsEntry
<1>4. \A k \in Keys : IsEntry(env[k])
  BY DEF IsEnvelope
<1>5. IInv'
  BY <1>2, <1>3, <1>4 DEF IInv, IsEnvelope
<1>6. ASSUME NEW e \in Devices, NEW k \in Keys, table[e][k] # None
      PROVE  table'[e][k] # None /\ table'[e][k].at >= table[e][k].at
  <2>1. IsEntry(table[e][k])
    BY DEF IInv
  <2>2. CASE e = d /\ Takes(d, env, k)
    <3>1. k = "font" \/ k = "pins"
      BY DEF Keys
    <3>2. env[k] # None /\ (table[d][k] = None \/ table[d][k].at <= env[k].at)
      <4>1. IsEntry(table[d][k]) /\ IsEntry(env[k]) /\ env[k] # None
        BY <2>1, <2>2, <1>4 DEF Takes
      <4>2. CASE k = "font"
        BY <2>2, <4>1, <4>2 DEF Takes, FontIsNewer
      <4>3. CASE k = "pins"
        <5>1. "pins" # "font"
          OBVIOUS
        <5>2. PinsAreNewer(table[d][k], env[k])
          BY <2>2, <4>3, <5>1 DEF Takes
        <5> QED
          BY <4>1, <5>2 DEF PinsAreNewer, IsEntry
      <4> QED
        BY <3>1, <4>2, <4>3
    <3>3. table'[e][k] = env[k]
      BY <1>2, <2>2
    <3>4. env[k].at \in Nat /\ table[d][k].at \in Nat /\ table[d][k] # None
      BY <1>4, <1>6, <2>1, <2>2, <3>2 DEF IsEntry
    <3> QED
      BY <2>2, <3>2, <3>3, <3>4
  <2>3. CASE ~(e = d /\ Takes(d, env, k))
    BY <1>2, <1>6, <2>1, <2>3 DEF IsEntry
  <2> QED
    BY <2>2, <2>3
<1> QED
  BY <1>5, <1>6 DEF Newer

LEMMA SeeChangeKeeps ==
  ASSUME IInv, NEW d \in Devices, SeeChange(d)
  PROVE  IInv' /\ \A e \in Devices : Newer(e)
<1>1. UNCHANGED <<scenario, clock, restarts, kvs, cloud>>
  BY DEF SeeChange
<1>2. IsEnvelope(kvs[d])
  BY DEF IInv
<1>3. UNCHANGED table \/ (kvs[d] # None /\ Merge(d, kvs[d]))
  BY DEF SeeChange, ApplyStored
<1> QED
  BY <1>1, <1>2, <1>3, MergeKeeps, Untouched

\* A device that starts again has recorded nothing, until it reads its envelope.
LEMMA RestartKeeps ==
  ASSUME IInv, NEW d \in Devices, Restart(d)
  PROVE  IInv' /\ restarts' # restarts
<1> DEFINE env == kvs[d]
           took == {k \in Keys : env # None /\ env[k] # None}
<1>1. /\ restarts' = restarts + 1 /\ UNCHANGED <<scenario, clock, kvs, cloud>>
      /\ table' = [table EXCEPT ![d] = [k \in Keys |-> IF k \in took THEN env[k] ELSE None]]
  BY DEF Restart
<1>2. \A e : IsEntry(e)' <=> IsEntry(e)
  BY <1>1 DEF IsEntry
<1>3. \A k \in took : IsEntry(env[k])
  BY DEF IInv, IsEnvelope
<1>4. IsEntry(None)
  BY DEF IsEntry
<1>5. /\ DOMAIN table' = Devices
      /\ \A e \in Devices : DOMAIN table'[e] = Keys
      /\ \A e \in Devices, k \in Keys :
           table'[e][k] = IF e = d THEN IF k \in took THEN env[k] ELSE None
                                   ELSE table[e][k]
  BY <1>1 DEF IInv
<1> QED
  BY <1>1, <1>2, <1>3, <1>4, <1>5 DEF IInv, IsEnvelope

LEMMA StoreKeeps ==
  ASSUME IInv, NEW d \in Devices, KeyValueStore(d)
  PROVE  IInv' /\ \A e \in Devices : Newer(e)
<1>1. UNCHANGED <<scenario, clock, restarts, table>>
  BY DEF KeyValueStore, Upload, Download, bridge
<1>2. \/ cloud' = kvs[d] /\ UNCHANGED kvs
      \/ kvs' = [kvs EXCEPT ![d] = cloud] /\ UNCHANGED cloud
  BY DEF KeyValueStore, Upload, Download
<1>3. \A env : IsEnvelope(env)' <=> IsEnvelope(env)
  BY <1>1 DEF IsEnvelope, IsEntry
<1>4. \A e : IsEntry(e)' <=> IsEntry(e)
  BY <1>1 DEF IsEntry
<1>5. IInv'
  BY <1>1, <1>2, <1>3, <1>4 DEF IInv
<1>6. \A e \in Devices : Newer(e)
  BY <1>1 DEF IInv, IsEntry, Newer
<1> QED
  BY <1>5, <1>6

\* A clock that is set back changes no record.
LEMMA SetBackKeeps ==
  ASSUME IInv, NEW d \in Devices, SetBack(d)
  PROVE  IInv' /\ \A e \in Devices : Newer(e)
<1>1. scenario.skewed /\ UNCHANGED <<scenario, restarts, table, kvs, cloud>>
  BY DEF SetBack, store
<1>2. clock' \in [Devices -> Nat]
  BY DEF SetBack, IInv
<1>3. /\ \A e : IsEntry(e) => IsEntry(e)'
      /\ \A env : IsEnvelope(env) => IsEnvelope(env)'
  BY <1>1, Later
<1>4. IInv'
  BY <1>1, <1>2, <1>3 DEF IInv
<1>5. \A e \in Devices : Newer(e)
  BY <1>1 DEF IInv, IsEntry, Newer
<1> QED
  BY <1>4, <1>5

LEMMA NextKeeps ==
  ASSUME IInv, [Next]_vars
  PROVE  IInv' /\ (restarts' = restarts => \A d \in Devices : Newer(d))
<1>1. ASSUME NEW d \in Devices, EditPins(d) \/ EditFont(d)
      PROVE  IInv' /\ \A e \in Devices : Newer(e)
  BY <1>1, Untouched DEF EditPins, EditFont, store
<1>2. CASE UNCHANGED vars
  BY <1>2, Untouched DEF vars, bridge, store
<1> QED
  BY <1>1, <1>2, ObserveKeeps, ExportKeeps, SeeChangeKeeps, RestartKeeps, StoreKeeps,
  SetBackKeeps   DEF Next, Bridge

\* Late, crossing and repeated envelopes undo nothing that a running device knows,
\* whatever the clocks of the devices say; where they read one clock, nothing does.
THEOREM RecordsOnlyGrow == Spec => NeverOlder
<1>1. IInv /\ [Next]_vars => IInv'
  BY NextKeeps
<1>2. IInv /\ [Next]_vars =>
        [\A d \in Devices, k \in Keys :
           (restarts' = restarts /\ table[d][k] # None) =>
             /\ table'[d][k] # None
             /\ \/ table'[d][k].at >= table[d][k].at
                \/ scenario.skewed /\ k = "font" /\ clock'[d] < table[d][k].at]_vars
  BY NextKeeps DEF Newer
<1> QED
  BY InitInv, <1>1, <1>2, PTL DEF Spec, NeverOlder
=============================================================================
