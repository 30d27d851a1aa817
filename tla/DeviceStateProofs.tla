-------------------------- MODULE DeviceStateProofs --------------------------
(* What DeviceState promises of the store, for any values, any readers and   *)
(* any number of changes and snapshots; and CommandCatalog of the commands   *)
(* that it offers.                                                           *)
EXTENDS DeviceKnowledge, Sequences, TLAPS

USE ReaderAssumption, BoundsAssumption, NoneAssumption DEF Undated, Time, Stamp

-----------------------------------------------------------------------------
(* The inductive invariant. *)

(* The parts of TypeOK. *)
States4 == [value: Value, at: Stamp, ver: Nat, online: BOOLEAN, healthAt: Stamp]
Snaps == [query: Query, state: Reported \cup {None}, health: Health \cup {None}]
Reads == [phase: Phase, answer: Answer \cup {None}, first: Answer \cup {None}]
DeviceType == clock \in Time /\ device \in Device /\ pushes \subseteq StateEvent \cup HealthEvent
ReadType ==
  /\ snapshots \subseteq Snaps /\ \A s \in snapshots : s.query = "advanced" => s.health # None
  /\ reader \in [Reader -> Reads] /\ current \subseteq Reader
StoreType ==
  /\ store \in States4 /\ told \in [value: Value, online: BOOLEAN] /\ evidence \in BOOLEAN
Types == DeviceType /\ ReadType /\ StoreType

(* Everything that tells of the switch: the store, events, snapshots and the *)
(* answers of reads.                                                         *)
Events == {m \in pushes : m.type = "state"}
Snapped == {s.state : s \in {q \in snapshots : q.state # None}}
Answers == {reader[r].answer : r \in {q \in Reader : reader[q].answer # None}}
           \cup {reader[r].first : r \in {q \in Reader : reader[q].first # None}}
Reports == {store} \cup Events \cup Snapped \cup Answers

(* T is the time of the switch's last change: nothing is dated later, what is*)
(* dated T tells of the present value, and the event of T is under way or is *)
(* what the store was last dated by.                                         *)
LastChange(T) ==
  /\ T \in Time /\ T <= clock /\ device.at <= T
  /\ \A x \in Reports : x.at <= T /\ (x.at = T => x.ver = device.ver)
  /\ device.ver = 0 \/ store.at = T \/ \E m \in Events : m.at = T
Agree ==
  /\ \A x \in Reports : x.ver <= device.ver /\ (x.ver = device.ver => x.value = device.value)
  /\ \A x, y \in Reports : x.ver = y.ver => x.value = y.value
ValueInv == Agree /\ \E T \in Time : LastChange(T)

(* What a read that is still current has brought is no older than the store. *)
ReaderInv ==
  \A r \in current : store.at # Undated =>
    /\ reader[r].answer # None => reader[r].answer.ver >= store.ver
    /\ reader[r].first # None => reader[r].first.ver >= store.ver

(* Everything that tells of the device's health; a state event tells that it *)
(* was online.                                                               *)
Healthy == {m \in pushes : m.type = "health"}
           \cup {s.health : s \in {q \in snapshots : q.health # None}}
HealthInv ==
  /\ device.onlineAt <= clock /\ store.healthAt <= clock
  /\ \A m \in Events : m.at <= clock /\ (m.at >= device.onlineAt => device.online)
  /\ \A h \in Healthy :
       h.at <= device.onlineAt /\ (h.at = device.onlineAt => h.online = device.online)
  /\ ~evidence =>
       /\ store.healthAt >= device.onlineAt => store.online = device.online
       /\ \/ store.healthAt >= device.onlineAt
          \/ \E h \in pushes : h.type = "health" /\ h.at = device.onlineAt
          \/ device.onlineAt = 1 /\ device.online /\ store.online /\ \A h \in Healthy : h.online

Inv == Types /\ ValueInv /\ ReaderInv /\ HealthInv /\ ToldIsStored

-----------------------------------------------------------------------------
(* The decisions of the store. *)

\* What the types say of a report.
Report(x) == x.value \in Value /\ x.at \in Nat /\ x.ver \in Nat
LEMMA ReportTypes == ASSUME Types PROVE \A x \in Reports : Report(x)
<1>1. Report(store) BY DEF Types, StoreType, States4, Report
<1>2. \A x \in Events : Report(x)
  BY DEF Types, DeviceType, Events, StateEvent, HealthEvent, Report
<1>3. \A x \in Snapped : Report(x)
  BY DEF Types, ReadType, Snapped, Snaps, Reported, Report
<1>4. \A x \in Answers : Report(x)
  BY DEF Types, ReadType, Answers, Reads, Answer, Report
<1> QED BY <1>1, <1>2, <1>3, <1>4 DEF Reports

\* The store v after report r to the store s (#setState).
Took(v, s, r) ==
  /\ v \in States4 /\ v.online = s.online /\ v.healthAt = s.healthAt
  /\ v.at >= s.at /\ v.at >= r.at
  /\ \/ v = s /\ s.at # Undated /\ r.at <= s.at
     \/ /\ v.value = r.value /\ v.at = r.at /\ v.ver = r.ver
        /\ s.at = Undated \/ r.at > s.at
  /\ Accepts(s, r) => v.value = r.value
  /\ Accepts(s, r) \/ (v.value = s.value /\ v.at = s.at /\ (v.at = Undated \/ v = s))
LEMMA StoredTakes ==
  ASSUME NEW s \in States4, NEW r, Report(r), NEW v, v = Stored(s, r)
  PROVE  Took(v, s, r)
<1>1. s.at \in Nat /\ r.at \in Nat BY DEF States4, Report
<1>2. CASE IsOlderOrUndated(r.at, s.at)
  <2>1. v = s BY <1>2 DEF Stored
  <2>2. s.at # Undated /\ r.at <= s.at BY <1>1, <1>2 DEF IsOlderOrUndated
  <2>3. ~Accepts(s, r) BY <1>2 DEF Accepts
  <2> QED BY <1>1, <2>1, <2>2, <2>3 DEF Took
<1>3. CASE ~IsOlderOrUndated(r.at, s.at)
  <2>1. v = [value |-> r.value, at |-> r.at, ver |-> r.ver, online |-> s.online,
             healthAt |-> s.healthAt]
    BY <1>3 DEF Stored
  <2>2. s.at = Undated \/ r.at > s.at BY <1>1, <1>3 DEF IsOlderOrUndated
  <2>3. v \in States4 BY <2>1 DEF States4, Report
  <2>4. Accepts(s, r) \/ (v.value = s.value /\ v.at = s.at)
    BY <1>3, <2>1 DEF Accepts
  <2> QED BY <1>1, <2>1, <2>2, <2>3, <2>4 DEF Took
<1> QED BY <1>2, <1>3

\* The store u after news of the health to the store s (#setDeviceHealth).
Heard(u, s, online, at) ==
  /\ u \in States4 /\ u.value = s.value /\ u.at = s.at /\ u.ver = s.ver
  /\ u.healthAt >= s.healthAt /\ u.healthAt >= at
  /\ \/ u = s /\ s.healthAt # Undated /\ at <= s.healthAt
     \/ u.online = online /\ u.healthAt = at /\ (s.healthAt = Undated \/ at > s.healthAt)
LEMMA HealthHeard ==
  ASSUME NEW s \in States4, NEW online \in BOOLEAN, NEW at \in Nat,
         NEW u, u = WithHealth(s, online, at)
  PROVE  Heard(u, s, online, at)
<1>1. s.healthAt \in Nat BY DEF States4
<1>2. CASE IsOlderOrUndated(at, s.healthAt)
  BY <1>1, <1>2 DEF WithHealth, IsOlderOrUndated, Heard
<1>3. CASE ~IsOlderOrUndated(at, s.healthAt)
  <2>1. u = [value |-> s.value, at |-> s.at, ver |-> s.ver, online |-> online, healthAt |-> at]
    BY <1>3 DEF WithHealth
  <2>2. u \in States4 BY <2>1 DEF States4
  <2> QED BY <1>1, <1>3, <2>1, <2>2 DEF IsOlderOrUndated, Heard
<1> QED BY <1>2, <1>3

\* The store after answer a to the store s, of which the listeners know t.
Observed(r, a, s, proved) ==
  /\ store' \in States4 /\ store'.online = s.online /\ store'.healthAt = s.healthAt
  /\ store'.at >= s.at
  /\ \/ store' = s /\ s.at # Undated /\ a.at <= s.at /\ ~(proved /\ Repairable(a, s))
     \/ /\ store'.value = a.value /\ store'.ver = a.ver /\ store'.at = a.at
        /\ s.at = Undated \/ a.at > s.at
     \/ /\ store'.value = a.value /\ store'.ver = a.ver /\ store'.at = s.at
        /\ proved /\ s.at # Undated
  /\ \/ current' = {}
     \/ /\ current' = current \ {r} /\ store'.at = s.at /\ store'.value = s.value
        /\ store'.at = Undated \/ store' = s
  /\ told' = Snapshot(store')
LEMMA ObserveTakes ==
  ASSUME NEW r, NEW a, Report(a), NEW s \in States4, NEW t, t = Snapshot(s),
         NEW proved \in BOOLEAN, Observe(r, a, s, t, proved)
  PROVE  Observed(r, a, s, proved)
<1> DEFINE merged == Stored(s, a)
           repaired == proved /\ Repairable(a, merged)
           new == IF repaired THEN Repaired(merged, a) ELSE merged
<1>1. Took(merged, s, a) BY StoredTakes
<1>2. /\ store' = new
      /\ current' = IF repaired \/ Accepts(s, a) THEN {} ELSE current \ {r}
      /\ told' = IF new.value = s.value THEN t
                 ELSE IF r \in LightReader THEN [value |-> new.value, online |-> t.online]
                 ELSE Snapshot(new)
  BY DEF Observe
<1>3. s.at \in Nat /\ a.at \in Nat BY DEF States4, Report
<1>4. new.online = s.online /\ new.healthAt = s.healthAt
  BY <1>1 DEF Took, Repaired
<1>5. told' = Snapshot(store') BY <1>2, <1>4 DEF Snapshot
<1>6. CASE repaired
  <2>1. /\ merged.at # Undated /\ a.value # merged.value
        /\ a.at = Undated \/ a.at = merged.at
    BY <1>6 DEF Repairable
  <2>2. merged = s BY <1>1, <2>1 DEF Took
  <2>3. new = [value |-> a.value, at |-> s.at, ver |-> a.ver, online |-> s.online,
               healthAt |-> s.healthAt]
    BY <1>6, <2>1, <2>2 DEF Repaired
  <2>4. new \in States4 BY <2>3 DEF States4, Report
  <2> QED BY <1>2, <1>3, <1>5, <1>6, <2>1, <2>2, <2>3, <2>4 DEF Observed
<1>7. CASE ~repaired
  <2>1. new = merged BY <1>7
  <2>2. merged = s => ~(proved /\ Repairable(a, s)) BY <1>7
  <2> HIDE DEF merged, new
  <2> QED BY <1>1, <1>2, <1>3, <1>5, <1>7, <2>1, <2>2 DEF Observed, Took
<1> QED BY <1>6, <1>7

-----------------------------------------------------------------------------
(* What the steps have in common. *)

\* A report made now.
Present(y) == y.value = device.value /\ y.ver = device.ver /\ y.at \in {device.at, Undated}

\* Nothing new happens to the switch: what is reported was reported before or is
\* so now, the store takes nothing older, and no event goes that it would need.
LEMMA ValueKept ==
  ASSUME Types, Types', ValueInv, clock <= clock', device'.value = device.value,
         device'.ver = device.ver, device'.at = device.at,
         \A y \in Reports' : y \in Reports \/ Present(y) \/ y = store',
         \A m \in Events : m \in Events' \/ m.at <= store'.at,
         NEW x \in Reports, store'.value = x.value, store'.ver = x.ver, store'.at >= store.at,
         store'.at = x.at \/ (store'.at = store.at /\ x.ver >= store.ver)
  PROVE  ValueInv'
<1>1. PICK T \in Time : LastChange(T) BY DEF ValueInv
<1>2. \A y \in Reports : Report(y) BY ReportTypes
<1>3. Report(store') /\ store \in Reports /\ Report(store)
  <2>1. Report(store') BY DEF Types, StoreType, States4, Report
  <2>2. store \in Reports BY DEF Reports
  <2> QED BY <1>2, <2>1, <2>2
<1>4. device.ver \in Nat /\ device.at \in Nat /\ clock \in Nat /\ clock' \in Nat
  BY DEF Types, DeviceType, Device
<1>5. store'.at <= T /\ (store'.at = T => store'.ver = device.ver)
  BY <1>1, <1>2, <1>3, <1>4 DEF LastChange, ValueInv, Agree, Report
<1>6. LastChange(T)'
  <2>1. T <= clock' /\ device'.at <= T BY <1>1, <1>4 DEF LastChange
  <2>2. ASSUME NEW y \in Reports' PROVE y.at <= T /\ (y.at = T => y.ver = device'.ver)
    <3>1. CASE y \in Reports BY <1>1, <3>1 DEF LastChange
    <3>2. CASE Present(y) BY <1>1, <1>4, <3>2 DEF LastChange, Present
    <3>3. CASE y = store' BY <1>5, <3>3
    <3> QED BY <3>1, <3>2, <3>3
  <2>3. device'.ver = 0 \/ store'.at = T \/ \E m \in Events' : m.at = T
    <3>1. CASE device.ver = 0 BY <3>1
    <3>2. CASE store.at = T BY <1>3, <1>5, <3>2 DEF Report
    <3>3. CASE \E m \in Events : m.at = T BY <1>3, <1>5, <3>3 DEF Report
    <3> QED BY <1>1, <3>1, <3>2, <3>3 DEF LastChange
  <2> QED BY <2>1, <2>2, <2>3 DEF LastChange
<1>7. Agree'
  <2>1. \A y \in Reports' : \E z \in Reports \cup {y} :
          /\ y.ver = z.ver /\ y.value = z.value
          /\ z \in Reports \/ (z.ver = device.ver /\ z.value = device.value)
    BY DEF Present
  <2> QED BY <1>4, <2>1 DEF ValueInv, Agree
<1> QED BY <1>6, <1>7 DEF ValueInv

\* The same for a step that leaves the store's state of the switch alone.
LEMMA ValueSame ==
  ASSUME Types, Types', ValueInv, clock <= clock', device'.value = device.value,
         device'.ver = device.ver, device'.at = device.at,
         store'.value = store.value, store'.ver = store.ver, store'.at = store.at,
         \A y \in Reports' : y \in Reports \/ Present(y) \/ y = store',
         \A m \in Events : m \in Events' \/ m.at <= store.at
  PROVE  ValueInv'
<1>1. store \in Reports BY DEF Reports
<1>2. store.at \in Nat BY DEF Types, StoreType, States4
<1> QED BY <1>1, <1>2, ValueKept

\* A read stays as good as it was while the store takes nothing.
LEMMA ReaderKept ==
  ASSUME ReaderInv, current' \subseteq current, UNCHANGED reader,
         current' = {} \/ store'.at = Undated \/ (store'.at = store.at /\ store'.ver = store.ver)
  PROVE  ReaderInv'
BY DEF ReaderInv

\* The health the store holds, after news that had been reported or none.
HealthTaken ==
  \/ store'.online = store.online /\ store'.healthAt = store.healthAt
  \/ /\ store'.healthAt >= store.healthAt
     /\ \E h \in Healthy : store'.online = h.online /\ store'.healthAt = h.at
  \/ /\ store'.healthAt >= store.healthAt
     /\ \E m \in Events : store'.online = TRUE /\ store'.healthAt = m.at
LEMMA HealthKept ==
  ASSUME Types, Types', HealthInv, clock <= clock', device'.onlineAt = device.onlineAt,
         device'.online = device.online, evidence' = evidence,
         \A m \in Events' : m \in Events,
         \A h \in Healthy' : h \in Healthy \/ (h.online = device.online
                                               /\ h.at \in {device.onlineAt, Undated}),
         \A m \in pushes : m.type = "health" => m \in pushes' \/ m.at <= store'.healthAt,
         HealthTaken
  PROVE  HealthInv'
<1>1. /\ device.onlineAt \in Nat /\ clock \in Nat /\ clock' \in Nat /\ store.healthAt \in Nat
      /\ store'.healthAt \in Nat /\ device.online \in BOOLEAN
      /\ store.online \in BOOLEAN /\ store'.online \in BOOLEAN
  BY DEF Types, DeviceType, Device, StoreType, States4
<1>2. \A m \in Events : m.at \in Nat
  BY DEF Types, DeviceType, Events, StateEvent, HealthEvent
<1>3. \A h \in Healthy : h.at \in Nat
  BY DEF Types, DeviceType, ReadType, Healthy, HealthEvent, StateEvent, Snaps, Health
<1>4. device'.onlineAt <= clock' /\ store'.healthAt <= clock'
  <2>1. device.onlineAt <= clock /\ store.healthAt <= clock BY DEF HealthInv
  <2>2. store'.healthAt <= clock BY <1>1, <1>2, <1>3, <2>1 DEF HealthInv, HealthTaken
  <2> QED BY <1>1, <2>1, <2>2
<1>5. \A m \in Events' : m.at <= clock' /\ (m.at >= device'.onlineAt => device'.online)
  BY <1>1, <1>2 DEF HealthInv
<1>6. \A h \in Healthy' :
        h.at <= device'.onlineAt /\ (h.at = device'.onlineAt => h.online = device'.online)
  BY <1>1 DEF HealthInv
<1>7. ASSUME ~evidence
      PROVE  /\ store'.healthAt >= device.onlineAt => store'.online = device.online
             /\ \/ store'.healthAt >= device.onlineAt
                \/ \E h \in pushes' : h.type = "health" /\ h.at = device.onlineAt
                \/ /\ device.onlineAt = 1 /\ device.online /\ store'.online
                   /\ \A h \in Healthy' : h.online
  <2>1. store'.healthAt >= device.onlineAt => store'.online = device.online
    BY <1>1, <1>2, <1>3, <1>7 DEF HealthInv, HealthTaken
  <2>2. CASE store.healthAt >= device.onlineAt
    BY <1>1, <2>1, <2>2 DEF HealthTaken
  <2>3. CASE \E h \in pushes : h.type = "health" /\ h.at = device.onlineAt
    <3>1. PICK h \in pushes : h.type = "health" /\ h.at = device.onlineAt BY <2>3
    <3>2. h \in pushes' \/ device.onlineAt <= store'.healthAt BY <3>1
    <3> QED BY <1>1, <2>1, <3>1, <3>2
  <2>4. CASE device.onlineAt = 1 /\ device.online /\ store.online /\ \A h \in Healthy : h.online
    <3>1. store'.online BY <1>1, <2>4 DEF HealthTaken
    <3> QED BY <1>1, <2>1, <2>4, <3>1
  <2> QED BY <1>7, <2>1, <2>2, <2>3, <2>4 DEF HealthInv
<1> QED BY <1>4, <1>5, <1>6, <1>7 DEF HealthInv

-----------------------------------------------------------------------------
(* One step for each action. *)

LEMMA DeliverStateStep == ASSUME Inv, NEW m \in pushes, DeliverState(m) PROVE Inv'
<1> DEFINE v == Stored(store, m)
           new == WithHealth(v, TRUE, m.at)
<1>1. /\ m.type = "state" /\ pushes' = pushes \ {m}
      /\ UNCHANGED <<clock, device, snapshots, reader, evidence>>
      /\ IF Accepts(store, m)
         THEN /\ store' = new /\ current' = {}
              /\ told' = [value |-> IF m.value # store.value THEN m.value ELSE told.value,
                          online |-> IF store.online THEN told.online ELSE new.online]
         ELSE UNCHANGED <<store, current, told>>
  BY DEF DeliverState
<1>2. m \in Events /\ Report(m) /\ m.at \in Nat /\ m \in StateEvent
  BY <1>1 DEF Events, Inv, Types, DeviceType, StateEvent, HealthEvent, Report
<1>3. store \in States4 /\ told = Snapshot(store) /\ clock \in Nat
  BY DEF Inv, Types, StoreType, DeviceType, ToldIsStored
<1>4. Took(v, store, m) BY <1>2, <1>3, StoredTakes
<1>5. v \in States4 BY <1>4 DEF Took
<1>6. Heard(new, v, TRUE, m.at) BY <1>2, <1>5, HealthHeard
<1>7. store' \in States4 /\ told' = Snapshot(store')
  <2>1. CASE Accepts(store, m)
    <3>1. store' \in States4 /\ store' = new BY <1>1, <1>6, <2>1 DEF Heard
    <3>2. new.value = m.value BY <1>4, <1>6, <2>1 DEF Took, Heard
    <3>3. store.online => new.online = store.online
      BY <1>3, <1>4, <1>6 DEF Took, Heard, States4
    <3>4. told' = [value |-> new.value, online |-> new.online]
      BY <1>1, <1>3, <2>1, <3>2, <3>3 DEF Snapshot
    <3> QED BY <3>1, <3>4 DEF Snapshot
  <2>2. CASE ~Accepts(store, m) BY <1>1, <1>3, <2>2 DEF Snapshot
  <2> QED BY <2>1, <2>2
<1>8. Types'
  <2>1. told' \in [value: Value, online: BOOLEAN] BY <1>7 DEF Snapshot, States4
  <2>2. current' \subseteq Reader BY <1>1 DEF Inv, Types, ReadType
  <2> QED BY <1>1, <1>7, <2>1, <2>2 DEF Inv, Types, DeviceType, ReadType, StoreType
<1>9. Events' = Events \ {m} /\ Snapped' = Snapped /\ Answers' = Answers
  BY <1>1 DEF Events, Snapped, Answers
<1>10. \A y \in Reports' : y \in Reports \/ y = store' BY <1>9 DEF Reports
<1>11. ValueInv'
  <2>1. \A n \in Events : n \in Events' \/ n.at <= m.at BY <1>2, <1>9
  <2>2. CASE Accepts(store, m)
    <3>1. store' = new BY <1>1, <2>2
    <3>2. store'.value = v.value /\ store'.ver = v.ver /\ store'.at = v.at
      BY <1>6, <3>1 DEF Heard
    <3>3. v.at >= store.at /\ v.at >= m.at BY <1>4 DEF Took
    <3>4. \A n \in Events : n \in Events' \/ n.at <= store'.at
      BY <1>2, <1>3, <1>9, <3>2, <3>3
    <3>5. CASE v.value = m.value /\ v.at = m.at /\ v.ver = m.ver
      <4>1. m \in Reports BY <1>2 DEF Reports
      <4> QED BY <1>1, <1>3, <1>8, <1>10, <3>2, <3>3, <3>4, <3>5, <4>1, ValueKept DEF Inv
    <3>6. CASE v = store
      <4>1. \A n \in Events : n \in Events' \/ n.at <= store.at BY <3>2, <3>4, <3>6
      <4>2. store'.value = store.value /\ store'.ver = store.ver /\ store'.at = store.at
        BY <3>2, <3>6
      <4> QED BY <1>1, <1>3, <1>8, <1>10, <4>1, <4>2, ValueSame DEF Inv
    <3> QED BY <1>4, <3>5, <3>6 DEF Took
  <2>3. CASE ~Accepts(store, m)
    <3>1. store' = store BY <1>1, <2>3
    <3>2. m.at <= store.at BY <1>2, <1>3, <1>4, <2>3 DEF Took, States4
    <3>3. \A n \in Events : n \in Events' \/ n.at <= store.at BY <1>2, <1>9, <3>2
    <3> QED BY <1>1, <1>3, <1>8, <1>10, <3>1, <3>3, ValueSame DEF Inv
  <2> QED BY <2>2, <2>3
<1>12. ReaderInv'
  <2>1. current' \subseteq current /\ (current' = {} \/ store' = store) BY <1>1
  <2> QED BY <1>1, <2>1, ReaderKept DEF Inv
<1>13. HealthInv'
  <2>1. \A n \in Events' : n \in Events BY <1>9
  <2>2. Healthy' = Healthy BY <1>1 DEF Healthy
  <2>3. \A n \in pushes : n.type = "health" => n \in pushes' BY <1>1
  <2>4. v.online = store.online /\ v.healthAt = store.healthAt BY <1>4 DEF Took
  <2>5. HealthTaken
    <3>1. CASE store' = store BY <3>1 DEF HealthTaken
    <3>2. CASE store' = new BY <1>2, <1>6, <2>4, <3>2 DEF Heard, HealthTaken
    <3> QED BY <1>1, <3>1, <3>2
  <2>6. /\ Types /\ HealthInv /\ clock <= clock' /\ evidence' = evidence
        /\ device'.onlineAt = device.onlineAt /\ device'.online = device.online
    BY <1>1, <1>3 DEF Inv
  <2> QED BY <1>8, <2>1, <2>2, <2>3, <2>5, <2>6, HealthKept
<1>14. ToldIsStored' BY <1>7 DEF ToldIsStored
<1> QED BY <1>8, <1>11, <1>12, <1>13, <1>14 DEF Inv

LEMMA DeliverHealthStep == ASSUME Inv, NEW m \in pushes, DeliverHealth(m) PROVE Inv'
<1>1. /\ m.type = "health" /\ pushes' = pushes \ {m}
      /\ store' = WithHealth(store, m.online, m.at)
      /\ told' = IF store'.online # store.online
                 THEN [value |-> told.value, online |-> m.online] ELSE told
      /\ UNCHANGED <<clock, device, snapshots, reader, current, evidence>>
  BY DEF DeliverHealth
<1>2. m \in Healthy /\ m.online \in BOOLEAN /\ m.at \in Nat
  BY <1>1 DEF Healthy, Inv, Types, DeviceType, StateEvent, HealthEvent
<1>3. store \in States4 /\ told = Snapshot(store) /\ clock \in Nat
  BY DEF Inv, Types, StoreType, DeviceType, ToldIsStored
<1>4. Heard(store', store, m.online, m.at) BY <1>1, <1>2, <1>3, HealthHeard
<1>5. told' = Snapshot(store')
  <2>1. CASE store'.online = store.online BY <1>1, <1>3, <1>4, <2>1 DEF Heard, Snapshot
  <2>2. CASE store'.online # store.online
    <3>1. store'.online = m.online /\ store'.value = store.value BY <1>4, <2>2 DEF Heard
    <3>2. told.value = store.value BY <1>3 DEF Snapshot
    <3> QED BY <1>1, <2>2, <3>1, <3>2 DEF Snapshot
  <2> QED BY <2>1, <2>2
<1>6. Types'
  <2>1. store' \in States4 BY <1>4 DEF Heard
  <2>2. told' \in [value: Value, online: BOOLEAN] BY <1>5, <2>1 DEF Snapshot, States4
  <2> QED BY <1>1, <2>1, <2>2 DEF Inv, Types, DeviceType, ReadType, StoreType
<1>7. Events' = Events /\ Snapped' = Snapped /\ Answers' = Answers
  BY <1>1 DEF Events, Snapped, Answers
<1>8. ValueInv'
  <2>1. \A y \in Reports' : y \in Reports \/ y = store' BY <1>7 DEF Reports
  <2>2. store'.value = store.value /\ store'.ver = store.ver /\ store'.at = store.at
    BY <1>4 DEF Heard
  <2> QED BY <1>1, <1>3, <1>6, <1>7, <2>1, <2>2, ValueSame DEF Inv
<1>9. ReaderInv'
  <2>1. store'.at = store.at /\ store'.ver = store.ver BY <1>4 DEF Heard
  <2> QED BY <1>1, <2>1, ReaderKept DEF Inv
<1>10. HealthInv'
  <2>1. \A h \in Healthy' : h \in Healthy BY <1>1 DEF Healthy
  <2>2. \A n \in pushes : n.type = "health" => n \in pushes' \/ n.at <= store'.healthAt
    BY <1>1, <1>2, <1>3, <1>4 DEF Heard, States4
  <2>3. HealthTaken BY <1>2, <1>4 DEF Heard, HealthTaken
  <2>4. /\ Types /\ HealthInv /\ clock <= clock' /\ evidence' = evidence
        /\ device'.onlineAt = device.onlineAt /\ device'.online = device.online
    BY <1>1, <1>3 DEF Inv
  <2> QED BY <1>6, <1>7, <2>1, <2>2, <2>3, <2>4, HealthKept
<1>11. ToldIsStored' BY <1>5 DEF ToldIsStored
<1> QED BY <1>6, <1>8, <1>9, <1>10, <1>11 DEF Inv

LEMMA MergeStep ==
  ASSUME Inv, NEW s \in snapshots, NEW takes \in BOOLEAN, takes => s.health # None,
         Merge(s, takes)
  PROVE  Inv'
<1> DEFINE healthy == IF takes THEN WithHealth(store, s.health.online, s.health.at) ELSE store
           new == IF s.state # None THEN Stored(healthy, s.state) ELSE healthy
<1>1. /\ snapshots' = snapshots \ {s} /\ store' = new
      /\ current' = IF s.state # None /\ Accepts(healthy, s.state) THEN {} ELSE current
      /\ told' = IF Snapshot(new) # Snapshot(store) THEN Snapshot(new) ELSE told
      /\ UNCHANGED <<clock, device, pushes, reader, evidence>>
  BY DEF Merge
<1>2. /\ store \in States4 /\ told = Snapshot(store) /\ clock \in Nat /\ s \in Snaps
  BY DEF Inv, Types, StoreType, DeviceType, ReadType, ToldIsStored
<1>3. takes => s.health \in Healthy /\ s.health.online \in BOOLEAN /\ s.health.at \in Nat
  BY <1>2 DEF Healthy, Snaps, Health
<1>4. s.state # None => s.state \in Reports /\ Report(s.state)
  <2>1. s.state # None => s.state \in Snapped BY DEF Snapped
  <2>2. s.state # None => Report(s.state) BY <1>2 DEF Snaps, Reported, Report
  <2> QED BY <2>1, <2>2 DEF Reports
<1>5. takes => Heard(healthy, store, s.health.online, s.health.at)
  BY <1>2, <1>3, HealthHeard
<1>6. /\ healthy \in States4 /\ healthy.value = store.value /\ healthy.at = store.at
      /\ healthy.ver = store.ver
  BY <1>2, <1>5 DEF Heard
<1> HIDE DEF healthy
<1>7. s.state # None => Took(new, healthy, s.state) BY <1>4, <1>6, StoredTakes
<1>8. new \in States4 /\ new.online = healthy.online /\ new.healthAt = healthy.healthAt
  BY <1>6, <1>7 DEF Took
<1>9. told' = Snapshot(store') BY <1>1, <1>2
<1>10. Types'
  <2>1. told' \in [value: Value, online: BOOLEAN] BY <1>1, <1>8, <1>9 DEF Snapshot, States4
  <2>2. current' \subseteq Reader BY <1>1 DEF Inv, Types, ReadType
  <2> QED BY <1>1, <1>8, <2>1, <2>2 DEF Inv, Types, DeviceType, ReadType, StoreType
<1>11. Events' = Events /\ Snapped' \subseteq Snapped /\ Answers' = Answers
  BY <1>1 DEF Events, Snapped, Answers
<1>12. \A y \in Reports' : y \in Reports \/ y = store' BY <1>11 DEF Reports
<1>13. /\ Types /\ ValueInv /\ ReaderInv /\ HealthInv /\ clock <= clock' /\ evidence' = evidence
       /\ device' = device
  BY <1>1, <1>2 DEF Inv
<1>16. ValueInv'
  <2>1. CASE /\ s.state # None /\ new.value = s.state.value /\ new.at = s.state.at
             /\ new.ver = s.state.ver
    <3>1. new.at >= store.at BY <1>6, <1>7, <2>1 DEF Took
    <3> HIDE DEF new
    <3> QED BY <1>1, <1>4, <1>10, <1>11, <1>12, <1>13, <2>1, <3>1, ValueKept
  <2>2. CASE new.value = store.value /\ new.at = store.at /\ new.ver = store.ver
    <3> HIDE DEF new
    <3> QED BY <1>1, <1>10, <1>11, <1>12, <1>13, <2>2, ValueSame
  <2> QED BY <1>6, <1>7, <2>1, <2>2 DEF Took
<1>17. ReaderInv'
  <2>1. current' = {} \/ new.at = Undated \/ (new.at = store.at /\ new.ver = store.ver)
    BY <1>1, <1>6, <1>7 DEF Took
  <2>2. current' \subseteq current BY <1>1
  <2> HIDE DEF new
  <2> QED BY <1>1, <1>13, <2>1, <2>2, ReaderKept
<1>18. HealthInv'
  <2>1. \A h \in Healthy' : h \in Healthy BY <1>1 DEF Healthy
  <2>2. \A n \in pushes : n.type = "health" => n \in pushes' BY <1>1
  <2>3. HealthTaken
    <3>1. store'.online = healthy.online /\ store'.healthAt = healthy.healthAt BY <1>1, <1>8
    <3>2. CASE takes BY <1>2, <1>3, <1>5, <3>1, <3>2 DEF Heard, HealthTaken
    <3>3. CASE ~takes BY <3>1, <3>3 DEF HealthTaken, healthy
    <3> QED BY <3>2, <3>3
  <2> QED BY <1>10, <1>11, <1>13, <2>1, <2>2, <2>3, HealthKept
<1>19. ToldIsStored' BY <1>9 DEF ToldIsStored
<1> QED BY <1>10, <1>16, <1>17, <1>18, <1>19 DEF Inv

LEMMA SnapshotStep ==
  ASSUME Inv, NEW s \in snapshots, ApplySnapshot(s) \/ ApplyAdvancedDeviceSnapshot(s)
  PROVE  Inv'
<1>1. CASE ApplySnapshot(s)
  BY <1>1, MergeStep DEF ApplySnapshot
<1>2. CASE ApplyAdvancedDeviceSnapshot(s)
  <2>1. s.query = "advanced" /\ Merge(s, s.health.online \/ s.health.at # Undated)
    BY <1>2 DEF ApplyAdvancedDeviceSnapshot
  <2>2. s.health # None BY <2>1 DEF Inv, Types, ReadType
  <2>3. (s.health.online \/ s.health.at # Undated) \in BOOLEAN
    BY <2>2 DEF Inv, Types, ReadType, Snaps, Health
  <2> QED BY <2>1, <2>2, <2>3, MergeStep
<1> QED BY <1>1, <1>2

LEMMA AskSnapshotStep == ASSUME Inv, NEW q \in Query, AskSnapshot(q) PROVE Inv'
<1>1. PICK state \in IF q = "health" THEN {None} ELSE States,
           health \in IF q = "status" THEN {None} ELSE Healths :
        snapshots' = snapshots \cup {[query |-> q, state |-> state, health |-> health]}
  BY DEF AskSnapshot
<1>2. UNCHANGED <<clock, device, pushes, reader, current, store, told, evidence>>
  BY DEF AskSnapshot
<1> DEFINE n == [query |-> q, state |-> state, health |-> health]
<1>3. device \in Device BY DEF Inv, Types, DeviceType
<1>4. state = None \/ (Present(state) /\ state \in Reported)
  BY <1>3 DEF States, Present, Device, Reported
<1>5. \/ health = None
      \/ /\ health \in Health /\ health.online = device.online
         /\ health.at \in {device.onlineAt, Undated}
  BY <1>3 DEF Healths, Device, Health
<1>6. q = "advanced" => health # None
  <2>1. Healths \subseteq Health BY <1>3 DEF Healths, Health, Device
  <2> QED BY <2>1
<1>7. n \in Snaps BY <1>4, <1>5 DEF Snaps
<1>8. Types'
  BY <1>1, <1>2, <1>6, <1>7 DEF Inv, Types, DeviceType, ReadType, StoreType
<1>9. Events' = Events /\ Answers' = Answers
  BY <1>2 DEF Events, Answers
<1>10. \A y \in Snapped' : y \in Snapped \/ Present(y)
  BY <1>1, <1>4 DEF Snapped
<1>11. /\ Types /\ ValueInv /\ ReaderInv /\ HealthInv /\ clock <= clock' /\ evidence' = evidence
       /\ device' = device /\ store' = store
  <2>1. clock \in Nat BY DEF Inv, Types, DeviceType
  <2> QED BY <1>2, <2>1 DEF Inv
<1>12. ValueInv'
  <2>1. \A y \in Reports' : y \in Reports \/ Present(y) \/ y = store'
    BY <1>9, <1>10 DEF Reports
  <2> QED BY <1>8, <1>9, <1>11, <2>1, ValueSame
<1>13. ReaderInv' BY <1>2 DEF Inv, ReaderInv
<1>14. HealthInv'
  <2>1. \A h \in Healthy' : h \in Healthy \/ (h.online = device.online
                                              /\ h.at \in {device.onlineAt, Undated})
    BY <1>1, <1>2, <1>5 DEF Healthy
  <2>2. HealthTaken BY <1>11 DEF HealthTaken
  <2>3. \A m \in pushes : m.type = "health" => m \in pushes' BY <1>2
  <2> QED BY <1>8, <1>9, <1>11, <2>1, <2>2, <2>3, HealthKept
<1>15. ToldIsStored' BY <1>2 DEF Inv, ToldIsStored, Snapshot
<1> QED BY <1>8, <1>12, <1>13, <1>14, <1>15 DEF Inv

LEMMA BeginCommandStep == ASSUME Inv, BeginCommand PROVE Inv'
BY DEF BeginCommand, Inv, Types, DeviceType, ReadType, StoreType, ValueInv, LastChange, Agree,
   Reports, Events, Snapped, Answers, ReaderInv, HealthInv, Healthy, ToldIsStored, Snapshot

LEMMA StartReadStep == ASSUME Inv, NEW r \in Reader, StartRead(r) PROVE Inv'
<1>1. /\ reader' = [reader EXCEPT ![r] = [phase |-> "first", answer |-> None, first |-> None]]
      /\ current' \subseteq current \cup {r}
      /\ UNCHANGED <<clock, device, pushes, snapshots, store, told, evidence>>
  BY DEF StartRead
<1>2. reader \in [Reader -> Reads] /\ current \subseteq Reader BY DEF Inv, Types, ReadType
<1>3. /\ reader' \in [Reader -> Reads] /\ current' \subseteq Reader
      /\ reader'[r].answer = None /\ reader'[r].first = None
      /\ \A q \in Reader \ {r} : reader'[q] = reader[q]
  BY <1>1, <1>2 DEF Reads, Phase
<1>4. Types' BY <1>1, <1>3 DEF Inv, Types, DeviceType, ReadType, StoreType
<1>5. Answers' \subseteq Answers /\ Events' = Events /\ Snapped' = Snapped
  BY <1>1, <1>3 DEF Answers, Events, Snapped
<1>6. ValueInv'
  <2>1. \A y \in Reports' : y \in Reports \/ y = store' BY <1>5 DEF Reports
  <2>2. clock \in Nat BY DEF Inv, Types, DeviceType
  <2>3. Types /\ ValueInv /\ clock <= clock' /\ device' = device /\ store' = store
    BY <1>1, <2>2 DEF Inv
  <2> QED BY <1>4, <1>5, <2>1, <2>3, ValueSame
<1>7. ReaderInv' BY <1>1, <1>2, <1>3 DEF Inv, ReaderInv
<1>8. HealthInv' BY <1>1 DEF Inv, HealthInv, Events, Healthy
<1>9. ToldIsStored' BY <1>1 DEF Inv, ToldIsStored, Snapshot
<1> QED BY <1>4, <1>6, <1>7, <1>8, <1>9 DEF Inv

LEMMA ServerAnswersStep == ASSUME Inv, NEW r \in Reader, ServerAnswers(r) PROVE Inv'
<1>1. PICK state \in States :
        reader' = [reader EXCEPT ![r] =
                     [phase |-> reader[r].phase, first |-> reader[r].first,
                      answer |-> [value |-> state.value, at |-> state.at, ver |-> state.ver,
                                  healthAt |-> device.onlineAt]]]
  BY DEF ServerAnswers
<1>2. UNCHANGED <<clock, device, pushes, snapshots, current, store, told, evidence>>
  BY DEF ServerAnswers
<1> DEFINE a == [value |-> state.value, at |-> state.at, ver |-> state.ver,
                 healthAt |-> device.onlineAt]
<1>3. device \in Device /\ reader \in [Reader -> Reads] /\ current \subseteq Reader
  BY DEF Inv, Types, DeviceType, ReadType
<1>4. a \in Answer /\ Present(a) /\ a.ver = device.ver
  BY <1>3 DEF States, Answer, Present, Device
<1>5. /\ reader'[r] = [phase |-> reader[r].phase, first |-> reader[r].first, answer |-> a]
      /\ \A q \in Reader \ {r} : reader'[q] = reader[q]
  BY <1>1, <1>3
<1> HIDE DEF a
<1>6. reader' \in [Reader -> Reads]
  <2>1. [phase |-> reader[r].phase, first |-> reader[r].first, answer |-> a] \in Reads
    BY <1>3, <1>4 DEF Reads
  <2> QED BY <1>1, <1>3, <2>1 DEF a
<1>7. reader'[r].answer = a /\ reader'[r].first = reader[r].first BY <1>5
<1>8. Types' BY <1>2, <1>6 DEF Inv, Types, DeviceType, ReadType, StoreType
<1>9. Answers' \subseteq Answers \cup {a} /\ Events' = Events /\ Snapped' = Snapped
  BY <1>2, <1>5, <1>7 DEF Answers, Events, Snapped
<1>10. ValueInv'
  <2>1. \A y \in Reports' : y \in Reports \/ Present(y) \/ y = store'
    BY <1>4, <1>9 DEF Reports
  <2>2. clock \in Nat BY DEF Inv, Types, DeviceType
  <2>3. Types /\ ValueInv /\ clock <= clock' /\ device' = device /\ store' = store
    BY <1>2, <2>2 DEF Inv
  <2> QED BY <1>8, <1>9, <2>1, <2>3, ValueSame
<1>11. ReaderInv'
  <2>1. store.ver <= device.ver BY DEF Inv, ValueInv, Agree, Reports
  <2>2. store.ver \in Nat /\ device.ver \in Nat
    BY <1>3 DEF Inv, Types, StoreType, States4, Device
  <2> QED BY <1>2, <1>3, <1>4, <1>5, <1>7, <2>1, <2>2 DEF Inv, ReaderInv
<1>12. HealthInv' BY <1>2 DEF Inv, HealthInv, Events, Healthy
<1>13. ToldIsStored' BY <1>2 DEF Inv, ToldIsStored, Snapshot
<1> QED BY <1>8, <1>10, <1>11, <1>12, <1>13 DEF Inv

\* The store that has heard of the device: a sign of life of this moment.
LEMMA AliveHeard ==
  ASSUME Inv
  PROVE  /\ Alive \in States4 /\ Alive.value = store.value /\ Alive.at = store.at
         /\ Alive.ver = store.ver /\ Alive.online = TRUE /\ Alive.healthAt = clock + 1
         /\ ToldAlive = Snapshot(Alive)
<1>1. store \in States4 /\ clock \in Nat /\ store.healthAt <= clock /\ told = Snapshot(store)
  BY DEF Inv, Types, StoreType, DeviceType, HealthInv, ToldIsStored
<1>2. Heard(Alive, store, TRUE, clock + 1)
  <2>1. clock + 1 \in Nat /\ TRUE \in BOOLEAN BY <1>1
  <2> QED BY <1>1, <2>1, HealthHeard DEF Alive
<1>3. store.healthAt \in Nat BY <1>1 DEF States4
<1>4. Alive.online = TRUE /\ Alive.healthAt = clock + 1 BY <1>1, <1>2, <1>3 DEF Heard
<1>5. ToldAlive = Snapshot(Alive)
  <2>1. store.online \in BOOLEAN BY <1>1 DEF States4
  <2> QED BY <1>1, <1>2, <1>4, <2>1 DEF ToldAlive, Snapshot, Heard
<1> QED BY <1>2, <1>4, <1>5 DEF Heard

\* A read ends, and its answer a is merged into the store s.
LEMMA ReadEndsStep ==
  ASSUME Inv, NEW r \in Reader, Ends(r), NEW a \in Answers,
         NEW s \in States4, s.value = store.value, s.at = store.at, s.ver = store.ver,
         NEW proved \in BOOLEAN, proved => r \in current /\ a = reader[r].answer /\ a # None,
         Observed(r, a, s, proved), UNCHANGED <<device, pushes, snapshots>>,
         \/ s = store /\ UNCHANGED <<clock, evidence>>
         \/ s.healthAt = clock + 1 /\ clock' = clock + 1 /\ evidence' = TRUE
  PROVE  Inv'
<1>1. /\ reader \in [Reader -> Reads] /\ current \subseteq Reader /\ clock \in Time
      /\ store \in States4 /\ evidence \in BOOLEAN
  BY DEF Inv, Types, ReadType, DeviceType, StoreType
<1>2. /\ reader' \in [Reader -> Reads] /\ reader'[r].answer = None /\ reader'[r].first = None
      /\ \A q \in Reader \ {r} : reader'[q] = reader[q]
  BY <1>1 DEF Ends, Reads, Phase
<1>3. current' \subseteq current \ {r} BY DEF Observed
<1>4. clock' \in Time /\ clock <= clock' /\ evidence' \in BOOLEAN
  <2>1. CASE UNCHANGED <<clock, evidence>> BY <1>1, <2>1
  <2>2. CASE clock' = clock + 1 /\ evidence' = TRUE BY <1>1, <2>2
  <2> QED BY <2>1, <2>2
<1>5. Types'
  <2>1. store' \in States4 /\ told' = Snapshot(store') BY DEF Observed
  <2>2. told' \in [value: Value, online: BOOLEAN] BY <2>1 DEF Snapshot, States4
  <2> QED BY <1>1, <1>2, <1>3, <1>4, <2>1, <2>2 DEF Inv, Types, DeviceType, ReadType, StoreType
<1>6. Answers' \subseteq Answers /\ Events' = Events /\ Snapped' = Snapped
  BY <1>2 DEF Answers, Events, Snapped
<1>7. a \in Reports BY DEF Reports
<1>8. /\ Types /\ ValueInv /\ ReaderInv /\ HealthInv /\ device' = device
      /\ \A y \in Reports' : y \in Reports \/ y = store'
  BY <1>6 DEF Inv, Reports
<1>9. proved /\ store.at # Undated => a.ver >= store.ver
  BY <1>8 DEF ReaderInv
<1>10. store'.at >= store.at BY DEF Observed
<1>11. ValueInv'
  <2>1. CASE store' = s
    <3>1. store'.value = store.value /\ store'.at = store.at /\ store'.ver = store.ver BY <2>1
    <3> QED BY <1>4, <1>5, <1>6, <1>8, <3>1, ValueSame
  <2>2. CASE /\ store'.value = a.value /\ store'.ver = a.ver
             /\ store'.at = a.at \/ (store'.at = store.at /\ a.ver >= store.ver)
    BY <1>4, <1>5, <1>6, <1>7, <1>8, <1>10, <2>2, ValueKept
  <2> QED BY <1>9, <2>1, <2>2 DEF Observed
<1>12. ReaderInv'
  <2>1. \/ current' = {} \/ store'.at = Undated
        \/ store'.at = store.at /\ store'.ver = store.ver
    BY DEF Observed
  <2> QED BY <1>1, <1>2, <1>3, <1>8, <2>1 DEF ReaderInv
<1>13. HealthInv'
  <2>1. store'.online = s.online /\ store'.healthAt = s.healthAt BY DEF Observed
  <2>2. CASE s = store /\ UNCHANGED <<clock, evidence>>
    <3>1. HealthTaken BY <2>1, <2>2 DEF HealthTaken
    <3>2. Healthy' = Healthy /\ pushes' = pushes BY DEF Healthy
    <3>3. evidence' = evidence BY <2>2
    <3> QED BY <1>4, <1>5, <1>6, <1>8, <3>1, <3>2, <3>3, HealthKept
  <2>3. CASE s.healthAt = clock + 1 /\ clock' = clock + 1 /\ evidence' = TRUE
    <3>1. \A m \in Events : m.at \in Nat
      BY DEF Inv, Types, DeviceType, Events, StateEvent, HealthEvent
    <3>2. device.onlineAt \in Nat BY DEF Inv, Types, DeviceType, Device
    <3>3. device.onlineAt <= clock' BY <1>1, <1>8, <2>3, <3>2 DEF HealthInv
    <3>4. store'.healthAt <= clock' BY <1>1, <2>1, <2>3
    <3>5. \A m \in Events : m.at <= clock' BY <1>1, <1>8, <2>3, <3>1 DEF HealthInv
    <3>6. Healthy' = Healthy BY DEF Healthy
    <3> QED BY <1>6, <1>8, <2>3, <3>3, <3>4, <3>5, <3>6 DEF HealthInv
  <2> QED BY <2>2, <2>3
<1>14. ToldIsStored' BY DEF Observed, ToldIsStored
<1> QED BY <1>5, <1>11, <1>12, <1>13, <1>14 DEF Inv

LEMMA AnswerKnown ==
  ASSUME Inv, NEW r \in Reader
  PROVE  /\ reader[r].answer # None => reader[r].answer \in Answers /\ Report(reader[r].answer)
         /\ reader[r].first # None => reader[r].first \in Answers /\ Report(reader[r].first)
<1>1. /\ reader[r].answer # None => reader[r].answer \in Answers
      /\ reader[r].first # None => reader[r].first \in Answers
  BY DEF Answers
<1> QED BY <1>1, ReportTypes DEF Inv, Reports

\* Why the last step of a read changes the store as it does.
LEMMA FirstObserved ==
  ASSUME Inv, NEW r \in Reader, FirstArrives(r), ~Repairable(reader[r].answer, Alive)
  PROVE  /\ Ends(r) /\ reader[r].answer \in Answers /\ Report(reader[r].answer)
         /\ Observed(r, reader[r].answer, Alive, FALSE)
<1>1. /\ reader[r].answer # None /\ Ends(r)
      /\ Observe(r, reader[r].answer, Alive, ToldAlive, FALSE)
  BY DEF FirstArrives, Arrives
<1>2. reader[r].answer \in Answers /\ Report(reader[r].answer) BY <1>1, AnswerKnown
<1>3. Alive \in States4 /\ ToldAlive = Snapshot(Alive) BY AliveHeard
<1>4. FALSE \in BOOLEAN OBVIOUS
<1> QED BY <1>1, <1>2, <1>3, <1>4, ObserveTakes

LEMMA SecondObserved ==
  ASSUME Inv, NEW r \in Reader, SecondArrives(r)
  PROVE  /\ Ends(r) /\ reader[r].answer \in Answers /\ Report(reader[r].answer)
         /\ Observed(r, reader[r].answer, Alive, Proved(r))
         /\ Proved(r) \in BOOLEAN
<1>1. /\ reader[r].answer # None /\ Ends(r)
      /\ Observe(r, reader[r].answer, Alive, ToldAlive, Proved(r))
  BY DEF SecondArrives, Arrives
<1>2. reader[r].answer \in Answers /\ Report(reader[r].answer) BY <1>1, AnswerKnown
<1>3. Alive \in States4 /\ ToldAlive = Snapshot(Alive) /\ Alive.online = TRUE BY AliveHeard
<1>4. Proved(r) \in BOOLEAN BY <1>3 DEF Proved
<1> QED BY <1>1, <1>2, <1>3, <1>4, ObserveTakes

LEMMA FirstArrivesStep == ASSUME Inv, NEW r \in Reader, FirstArrives(r) PROVE Inv'
<1>1. /\ reader[r].phase = "first" /\ reader[r].answer # None
      /\ clock' = clock + 1 /\ evidence' = TRUE
      /\ UNCHANGED <<device, pushes, snapshots>>
  BY DEF FirstArrives, Arrives
<1>2. /\ Alive \in States4 /\ Alive.value = store.value /\ Alive.at = store.at
      /\ Alive.ver = store.ver /\ Alive.healthAt = clock + 1 /\ ToldAlive = Snapshot(Alive)
  BY AliveHeard
<1>3. CASE ~Repairable(reader[r].answer, Alive)
  <2>1. FALSE \in BOOLEAN OBVIOUS
  <2> QED BY <1>1, <1>2, <1>3, <2>1, FirstObserved, ReadEndsStep
<1>4. CASE Repairable(reader[r].answer, Alive)
  <2>1. /\ reader' = [reader EXCEPT ![r] =
             [phase |-> "second", answer |-> None, first |-> reader[r].answer]]
        /\ store' = Alive /\ told' = ToldAlive /\ current' = current
    BY <1>4 DEF FirstArrives
  <2>2. reader \in [Reader -> Reads] /\ clock \in Time /\ current \subseteq Reader
    BY DEF Inv, Types, ReadType, DeviceType
  <2>3. /\ reader' \in [Reader -> Reads]
        /\ reader'[r].answer = None /\ reader'[r].first = reader[r].answer
        /\ \A q \in Reader \ {r} : reader'[q] = reader[q]
    BY <2>1, <2>2 DEF Reads, Phase
  <2>4. Types'
    <3>1. told' \in [value: Value, online: BOOLEAN] BY <1>2, <2>1 DEF Snapshot, States4
    <3> QED BY <1>1, <1>2, <2>1, <2>2, <2>3, <3>1 DEF Inv, Types, DeviceType, ReadType, StoreType
  <2>5. Answers' \subseteq Answers /\ Events' = Events /\ Snapped' = Snapped
    BY <1>1, <2>3 DEF Answers, Events, Snapped
  <2>6. /\ Types /\ ValueInv /\ ReaderInv /\ HealthInv /\ device' = device /\ clock <= clock'
        /\ \A y \in Reports' : y \in Reports \/ y = store'
        /\ store'.value = store.value /\ store'.at = store.at /\ store'.ver = store.ver
    BY <1>1, <1>2, <2>1, <2>2, <2>5 DEF Inv, Reports
  <2>7. ValueInv' BY <2>4, <2>5, <2>6, ValueSame
  <2>8. ReaderInv' BY <1>1, <2>1, <2>2, <2>3, <2>6 DEF ReaderInv
  <2>9. HealthInv'
    <3>1. \A m \in Events : m.at \in Nat
      BY DEF Inv, Types, DeviceType, Events, StateEvent, HealthEvent
    <3>2. device.onlineAt \in Nat BY DEF Inv, Types, DeviceType, Device
    <3>3. device.onlineAt <= clock' BY <1>1, <2>2, <2>6, <3>2 DEF HealthInv
    <3>4. store'.healthAt <= clock' BY <1>1, <1>2, <2>1, <2>2
    <3>5. \A m \in Events : m.at <= clock' BY <1>1, <2>2, <2>6, <3>1 DEF HealthInv
    <3>6. Healthy' = Healthy BY <1>1 DEF Healthy
    <3> QED BY <1>1, <2>5, <2>6, <3>3, <3>4, <3>5, <3>6 DEF HealthInv
  <2>10. ToldIsStored' BY <1>2, <2>1 DEF ToldIsStored
  <2> QED BY <2>4, <2>7, <2>8, <2>9, <2>10 DEF Inv
<1> QED BY <1>3, <1>4

LEMMA SecondArrivesStep == ASSUME Inv, NEW r \in Reader, SecondArrives(r) PROVE Inv'
<1>1. /\ reader[r].answer # None /\ clock' = clock + 1 /\ evidence' = TRUE
      /\ UNCHANGED <<device, pushes, snapshots>>
  BY DEF SecondArrives, Arrives
<1>2. /\ Alive \in States4 /\ Alive.value = store.value /\ Alive.at = store.at
      /\ Alive.ver = store.ver /\ Alive.healthAt = clock + 1
  BY AliveHeard
<1>3. Proved(r) => r \in current BY DEF Proved
<1> QED BY <1>1, <1>2, <1>3, SecondObserved, ReadEndsStep

LEMMA FirstFailsStep == ASSUME Inv, NEW r \in Reader, FirstFails(r) PROVE Inv'
<1>1. /\ Ends(r) /\ current' = current \ {r}
      /\ UNCHANGED <<clock, device, pushes, snapshots, store, told, evidence>>
  BY DEF FirstFails
<1>2. reader \in [Reader -> Reads] /\ current \subseteq Reader BY DEF Inv, Types, ReadType
<1>3. /\ reader' \in [Reader -> Reads] /\ reader'[r].answer = None /\ reader'[r].first = None
      /\ \A q \in Reader \ {r} : reader'[q] = reader[q]
  BY <1>1, <1>2 DEF Ends, Reads, Phase
<1>4. Types' BY <1>1, <1>2, <1>3 DEF Inv, Types, DeviceType, ReadType, StoreType
<1>5. Answers' \subseteq Answers /\ Events' = Events /\ Snapped' = Snapped
  BY <1>1, <1>3 DEF Answers, Events, Snapped
<1>6. ValueInv'
  <2>1. \A y \in Reports' : y \in Reports \/ y = store' BY <1>5 DEF Reports
  <2>2. clock \in Nat BY DEF Inv, Types, DeviceType
  <2>3. Types /\ ValueInv /\ clock <= clock' /\ device' = device /\ store' = store
    BY <1>1, <2>2 DEF Inv
  <2> QED BY <1>4, <1>5, <2>1, <2>3, ValueSame
<1>7. ReaderInv' BY <1>1, <1>2, <1>3 DEF Inv, ReaderInv
<1>8. HealthInv' BY <1>1 DEF Inv, HealthInv, Events, Healthy
<1>9. ToldIsStored' BY <1>1 DEF Inv, ToldIsStored, Snapshot
<1> QED BY <1>4, <1>6, <1>7, <1>8, <1>9 DEF Inv

\* In the second phase a reader has its first answer.
LEMMA SecondFailsStep ==
  ASSUME Inv, NEW r \in Reader, SecondFails(r), reader[r].first # None PROVE Inv'
<1>1. /\ Ends(r) /\ Observe(r, reader[r].first, store, told, FALSE)
      /\ UNCHANGED <<clock, device, pushes, snapshots, evidence>>
  BY DEF SecondFails
<1>2. reader[r].first \in Answers /\ Report(reader[r].first) BY AnswerKnown
<1>3. store \in States4 /\ told = Snapshot(store)
  BY DEF Inv, Types, StoreType, ToldIsStored
<1>4. FALSE \in BOOLEAN OBVIOUS
<1>5. Observed(r, reader[r].first, store, FALSE) BY <1>1, <1>2, <1>3, <1>4, ObserveTakes
<1> QED BY <1>1, <1>2, <1>3, <1>4, <1>5, ReadEndsStep

LEMMA ReportValueStep ==
  ASSUME Inv, NEW v \in Value, NEW stamped \in BOOLEAN, ReportValue(v, stamped) PROVE Inv'
<1> DEFINE n == [type |-> "state", value |-> v, at |-> clock + 1, ver |-> device.ver + 1]
<1>1. /\ device.changes < MaxChanges /\ device.online /\ clock' = clock + 1
      /\ device' = [value |-> v, ver |-> device.ver + 1, changes |-> device.changes + 1,
                    at |-> IF stamped THEN clock + 1 ELSE device.at,
                    online |-> device.online, onlineAt |-> device.onlineAt]
      /\ pushes' = pushes \cup {n}
      /\ UNCHANGED <<snapshots, reader, current, store, told, evidence>>
  BY DEF ReportValue
<1>2. clock \in Time /\ device \in Device BY DEF Inv, Types, DeviceType
<1>3. device.ver \in Nat /\ device.at \in Nat /\ clock \in Nat BY <1>2 DEF Device
<1>4. n \in StateEvent BY <1>2, <1>3 DEF StateEvent
<1>5. Types'
  <2>1. device' \in Device
    <3>1. device.changes + 1 \in 0..MaxChanges BY <1>1, <1>2 DEF Device
    <3> QED BY <1>1, <1>2, <3>1 DEF Device
  <2> QED BY <1>1, <1>2, <1>4, <2>1 DEF Inv, Types, DeviceType, ReadType, StoreType
<1>6. /\ Events' = Events \cup {n} /\ Healthy' = Healthy /\ Snapped' = Snapped
      /\ Answers' = Answers
  BY <1>1 DEF Events, Healthy, Snapped, Answers
<1>7. Reports' = Reports \cup {n} BY <1>1, <1>6 DEF Reports
<1>8. PICK T \in Time : LastChange(T) BY DEF Inv, ValueInv
<1>9. \A x \in Reports : Report(x) /\ x.at < clock + 1 /\ x.ver < device.ver + 1
  <2>1. \A x \in Reports : Report(x) BY ReportTypes DEF Inv
  <2>2. T <= clock /\ \A x \in Reports : x.at <= T BY <1>8 DEF LastChange
  <2>3. \A x \in Reports : x.ver <= device.ver BY DEF Inv, ValueInv, Agree
  <2> QED BY <1>3, <2>1, <2>2, <2>3 DEF Report
<1>10. n.at = clock + 1 /\ n.ver = device.ver + 1 /\ n.value = v OBVIOUS
<1>11. clock' = clock + 1 /\ device'.ver = device.ver + 1 /\ device'.value = v
  BY <1>1
<1> HIDE DEF n
<1>12. LastChange(clock)'
  <2>1. clock' \in Time /\ device'.at <= clock'
    BY <1>1, <1>2, <1>3, <1>8 DEF LastChange
  <2>2. \A x \in Reports' : x.at <= clock' /\ (x.at = clock' => x.ver = device'.ver)
    BY <1>3, <1>7, <1>9, <1>10, <1>11 DEF Report
  <2>3. \E m \in Events' : m.at = clock' BY <1>6, <1>10, <1>11
  <2> QED BY <1>3, <1>11, <2>1, <2>2, <2>3 DEF LastChange
<1>13. ValueInv'
  <2>1. Agree'
    <3>1. \A x \in Reports' : x.ver <= device'.ver /\ (x.ver = device'.ver => x = n)
      BY <1>3, <1>7, <1>9, <1>10, <1>11 DEF Report
    <3>2. \A x, y \in Reports' : x.ver = y.ver => x.value = y.value
      BY <1>3, <1>7, <1>9, <1>10 DEF Report, Inv, ValueInv, Agree
    <3> QED BY <1>10, <1>11, <3>1, <3>2 DEF Agree
  <2>2. clock' \in Time BY <1>3, <1>11
  <2>3. (\E t \in Time : LastChange(t))' BY <1>12, <2>2
  <2> QED BY <2>1, <2>3 DEF ValueInv
<1>14. ReaderInv' BY <1>1 DEF Inv, ReaderInv
<1>15. HealthInv'
  <2>1. device'.onlineAt = device.onlineAt /\ device'.online = device.online BY <1>1
  <2>2. device.onlineAt \in Nat /\ store.healthAt \in Nat
    BY <1>2 DEF Device, Inv, Types, StoreType, States4
  <2>3. device.onlineAt <= clock' /\ store.healthAt <= clock'
    BY <1>3, <1>11, <2>2 DEF Inv, HealthInv
  <2>4. \A m \in Events' : m.at <= clock' /\ (m.at >= device.onlineAt => device.online)
    <3>1. \A m \in Events : m.at \in Nat
      BY DEF Inv, Types, DeviceType, Events, StateEvent, HealthEvent
    <3> QED BY <1>1, <1>3, <1>6, <1>10, <3>1 DEF Inv, HealthInv
  <2>5. \A h \in pushes : h \in pushes' BY <1>1
  <2> QED BY <1>1, <1>6, <2>1, <2>3, <2>4, <2>5 DEF Inv, HealthInv
<1>16. ToldIsStored' BY <1>1 DEF Inv, ToldIsStored, Snapshot
<1> QED BY <1>5, <1>13, <1>14, <1>15, <1>16 DEF Inv

LEMMA ChangeHealthStep == ASSUME Inv, ChangeHealth PROVE Inv'
<1> DEFINE n == [type |-> "health", online |-> ~device.online, at |-> clock + 1]
<1>1. /\ device.changes < MaxChanges /\ clock' = clock + 1
      /\ device' = [value |-> device.value, ver |-> device.ver, changes |-> device.changes + 1,
                    at |-> device.at, online |-> ~device.online, onlineAt |-> clock + 1]
      /\ pushes' = pushes \cup {n}
      /\ UNCHANGED <<snapshots, reader, current, store, told, evidence>>
  BY DEF ChangeHealth
<1>2. clock \in Time /\ device \in Device BY DEF Inv, Types, DeviceType
<1>3. /\ device'.value = device.value /\ device'.ver = device.ver /\ device'.at = device.at
      /\ device'.online = ~device.online /\ device'.onlineAt = clock + 1
  BY <1>1
<1>4. Types'
  <2>1. device.changes + 1 \in 0..MaxChanges /\ (~device.online) \in BOOLEAN
    BY <1>1, <1>2 DEF Device
  <2>2. device' \in Device BY <1>1, <1>2, <2>1 DEF Device
  <2>3. n \in HealthEvent BY <1>2, <2>1 DEF HealthEvent
  <2> QED BY <1>1, <1>2, <2>2, <2>3 DEF Inv, Types, DeviceType, ReadType, StoreType
<1>5. /\ Events' = Events /\ Healthy' = Healthy \cup {n} /\ Snapped' = Snapped
      /\ Answers' = Answers
  BY <1>1 DEF Events, Healthy, Snapped, Answers
<1>6. ValueInv'
  <2>1. \A y \in Reports' : y \in Reports \/ y = store' BY <1>5 DEF Reports
  <2>2. Types /\ ValueInv /\ store' = store /\ clock <= clock' BY <1>1, <1>2 DEF Inv
  <2> QED BY <1>3, <1>4, <1>5, <2>1, <2>2, ValueSame
<1>7. ReaderInv' BY <1>1 DEF Inv, ReaderInv
<1>8. HealthInv'
  <2>1. n.at = clock + 1 /\ n.online = ~device.online /\ n.type = "health" OBVIOUS
  <2> HIDE DEF n
  <2>2. store'.healthAt <= clock /\ store'.healthAt \in Nat /\ clock \in Nat
    BY <1>1, <1>2 DEF Inv, HealthInv, Types, StoreType, States4
  <2>3. \A m \in Events : m.at \in Nat /\ m.at <= clock
    BY DEF Inv, HealthInv, Types, DeviceType, Events, StateEvent, HealthEvent
  <2>4. \A h \in Healthy : h.at \in Nat /\ h.at <= clock
    <3>1. \A h \in Healthy : h.at \in Nat
      BY DEF Inv, Types, DeviceType, ReadType, Healthy, HealthEvent, StateEvent, Snaps, Health
    <3>2. device.onlineAt \in Nat BY <1>2 DEF Device
    <3> QED BY <2>2, <3>1, <3>2 DEF Inv, HealthInv
  <2>5. \A h \in Healthy' :
          h.at <= device'.onlineAt /\ (h.at = device'.onlineAt => h.online = device'.online)
    BY <1>3, <1>5, <2>1, <2>2, <2>4
  <2>6. \A m \in Events' : m.at <= clock' /\ ~(m.at >= device'.onlineAt)
    BY <1>1, <1>3, <1>5, <2>2, <2>3
  <2>7. \E h \in pushes' : h.type = "health" /\ h.at = device'.onlineAt
    BY <1>1, <1>3, <2>1
  <2>8. ~(store'.healthAt >= device'.onlineAt) BY <1>3, <2>2
  <2>9. device'.onlineAt <= clock' /\ store'.healthAt <= clock' BY <1>1, <1>3, <2>2
  <2> QED BY <2>5, <2>6, <2>7, <2>8, <2>9 DEF HealthInv
<1>9. ToldIsStored' BY <1>1 DEF Inv, ToldIsStored, Snapshot
<1> QED BY <1>4, <1>6, <1>7, <1>8, <1>9 DEF Inv

-----------------------------------------------------------------------------
(* The invariant holds.                                                      *)

\* A reader that waits for its second answer has its first.
Halves == \A r \in Reader : reader[r].phase = "second" => reader[r].first # None

LEMMA HalvesKept == ASSUME Inv, Halves, [Next]_vars PROVE Halves'
<1>1. reader \in [Reader -> Reads] BY DEF Inv, Types, ReadType
<1>2. CASE reader' = reader BY <1>2 DEF Halves
<1>3. ASSUME NEW r \in Reader, StartRead(r) \/ FirstFails(r) \/ SecondArrives(r) \/ SecondFails(r)
      PROVE  Halves'
  <2>1. \E p \in {"first", "done"} :
          reader' = [reader EXCEPT ![r] = [phase |-> p, answer |-> None, first |-> None]]
    BY <1>3 DEF StartRead, FirstFails, SecondArrives, SecondFails, Ends
  <2> QED BY <1>1, <2>1 DEF Halves
<1>4. ASSUME NEW r \in Reader, ServerAnswers(r) PROVE Halves'
  <2>1. PICK a : reader' = [reader EXCEPT ![r] =
                   [phase |-> reader[r].phase, first |-> reader[r].first, answer |-> a]]
    BY <1>4 DEF ServerAnswers
  <2> QED BY <1>1, <2>1 DEF Halves
<1>5. ASSUME NEW r \in Reader, FirstArrives(r) PROVE Halves'
  <2>1. reader[r].answer # None BY <1>5 DEF FirstArrives, Arrives
  <2>2. CASE Ends(r) BY <1>1, <2>2 DEF Ends, Halves
  <2>3. CASE reader' = [reader EXCEPT ![r] =
               [phase |-> "second", answer |-> None, first |-> reader[r].answer]]
    BY <1>1, <2>1, <2>3 DEF Halves
  <2> QED BY <1>5, <2>2, <2>3 DEF FirstArrives
<1>6. \/ reader' = reader
      \/ \E r \in Reader :
           \/ StartRead(r) \/ ServerAnswers(r) \/ FirstArrives(r) \/ SecondArrives(r)
           \/ FirstFails(r) \/ SecondFails(r)
  BY DEF Next, vars, ReportValue, ChangeHealth, DeliverState, DeliverHealth, AskSnapshot,
         ApplySnapshot, ApplyAdvancedDeviceSnapshot, Merge, BeginCommand
<1> QED BY <1>2, <1>3, <1>4, <1>5, <1>6

LEMMA InvInit == ASSUME Init PROVE Inv /\ Halves
<1>1. PICK v \in Value, at \in {Undated, 1}, healthAt \in {Undated, 1} :
        /\ clock = 1
        /\ device = [value |-> v, at |-> 1, ver |-> 0, online |-> TRUE, onlineAt |-> 1,
                     changes |-> 0]
        /\ pushes = {}
        /\ snapshots = {}
        /\ reader = [r \in Reader |-> [phase |-> "waiting", answer |-> None, first |-> None]]
        /\ current = {}
        /\ store = [value |-> v, at |-> at, ver |-> 0, online |-> TRUE, healthAt |-> healthAt]
        /\ told = [value |-> v, online |-> TRUE]
        /\ evidence = FALSE
  BY DEF Init
<1>2. Types
  <2>1. DeviceType BY <1>1 DEF DeviceType, Device
  <2>2. ReadType BY <1>1 DEF ReadType, Reads, Phase
  <2>3. StoreType
    <3>1. store \in States4 BY <1>1 DEF States4
    <3>2. told \in [value: Value, online: BOOLEAN] BY <1>1
    <3>3. evidence \in BOOLEAN BY <1>1
    <3> QED BY <3>1, <3>2, <3>3 DEF StoreType
  <2> QED BY <2>1, <2>2, <2>3 DEF Types
<1>3. Events = {} /\ Snapped = {} /\ Answers = {} /\ Healthy = {}
  BY <1>1 DEF Events, Snapped, Answers, Healthy
<1>4. ValueInv
  <2>1. Reports = {store} BY <1>3 DEF Reports
  <2>2. LastChange(1) BY <1>1, <2>1 DEF LastChange
  <2>3. Agree BY <1>1, <2>1 DEF Agree
  <2> QED BY <2>2, <2>3 DEF ValueInv
<1>5. ReaderInv BY <1>1 DEF ReaderInv
<1>6. HealthInv BY <1>1, <1>3 DEF HealthInv
<1>7. ToldIsStored BY <1>1 DEF ToldIsStored, Snapshot
<1>8. Halves BY <1>1 DEF Halves
<1> QED BY <1>2, <1>4, <1>5, <1>6, <1>7, <1>8 DEF Inv

LEMMA InvNext == ASSUME Inv, Halves, [Next]_vars PROVE Inv' /\ Halves'
<1>1. Halves' BY HalvesKept
<1>2. CASE UNCHANGED vars
  BY <1>1, <1>2 DEF vars, Inv, Types, DeviceType, ReadType, StoreType, ValueInv, LastChange, Agree,
     Reports, Events, Snapped, Answers, ReaderInv, HealthInv, Healthy, ToldIsStored, Snapshot
<1>3. CASE \E v \in Value, stamped \in BOOLEAN : ReportValue(v, stamped)
  BY <1>1, <1>3, ReportValueStep
<1>4. CASE ChangeHealth BY <1>1, <1>4, ChangeHealthStep
<1>5. CASE \E m \in pushes : DeliverState(m) \/ DeliverHealth(m)
  BY <1>1, <1>5, DeliverStateStep, DeliverHealthStep
<1>6. CASE \E q \in Query : AskSnapshot(q) BY <1>1, <1>6, AskSnapshotStep
<1>7. CASE \E s \in snapshots : ApplySnapshot(s) \/ ApplyAdvancedDeviceSnapshot(s)
  BY <1>1, <1>7, SnapshotStep
<1>8. CASE BeginCommand BY <1>1, <1>8, BeginCommandStep
<1>9. ASSUME NEW r \in Reader,
             \/ StartRead(r) \/ ServerAnswers(r) \/ FirstArrives(r) \/ SecondArrives(r)
             \/ FirstFails(r) \/ SecondFails(r)
      PROVE  Inv'
  <2>1. SecondFails(r) => reader[r].first # None BY DEF SecondFails, Halves
  <2> QED BY <1>9, <2>1, StartReadStep, ServerAnswersStep, FirstArrivesStep, SecondArrivesStep,
             FirstFailsStep, SecondFailsStep
<1>10. Inv' BY <1>2, <1>3, <1>4, <1>5, <1>6, <1>7, <1>8, <1>9 DEF Next
<1> QED BY <1>1, <1>10

-----------------------------------------------------------------------------
(* The theorems. *)

\* What the store holds is what its listeners were told, and what the device is once every
\* event has arrived, whatever order they came in and whatever snapshots and reads came
\* between: DeviceStore#applyDeviceEvent, applySnapshot and observeCommandDeviceStatus.
THEOREM StoreHoldsTruth == Spec => []StoreIsTrue
<1>1. Init => Inv /\ Halves BY InvInit
<1>2. (Inv /\ Halves) /\ [Next]_vars => (Inv /\ Halves)' BY InvNext
<1>3. Inv => StoreIsTrue
  <2> SUFFICES ASSUME Inv PROVE StoreIsTrue OBVIOUS
  <2>1. TypeOK
    BY DEF Inv, Types, DeviceType, ReadType, StoreType, TypeOK, Snaps, Reads, States4
  <2>2. DeliveredIsCurrent
    <3> SUFFICES ASSUME pushes = {}
                 PROVE  store.value = device.value /\ (~evidence => store.online = device.online)
      BY DEF DeliveredIsCurrent
    <3>1. store.value = device.value
      <4>1. PICK T \in Time : LastChange(T) BY DEF Inv, ValueInv
      <4>2. Events = {} BY DEF Events
      <4>3. store \in Reports /\ store.ver \in Nat
        BY DEF Reports, Inv, Types, StoreType, States4
      <4>4. store.ver <= device.ver BY <4>3 DEF Inv, ValueInv, Agree
      <4>5. store.ver = device.ver BY <4>1, <4>2, <4>3, <4>4 DEF LastChange
      <4> QED BY <4>3, <4>5 DEF Inv, ValueInv, Agree
    <3>2. ASSUME ~evidence PROVE store.online = device.online
      <4>1. store.online \in BOOLEAN /\ device.online \in BOOLEAN
        BY DEF Inv, Types, StoreType, States4, DeviceType, Device
      <4> QED BY <3>2, <4>1 DEF Inv, HealthInv
    <3> QED BY <3>1, <3>2
  <2> QED BY <2>1, <2>2 DEF Inv, StoreIsTrue
<1> QED BY <1>1, <1>2, <1>3, PTL DEF Spec

\* What a status read changes under the timestamp the store already has is newer, and a read
\* that nothing disturbed leaves the store with the device's value
\* (repairableLightStatus, readLightCommandStatus).
THEOREM ReadsChangeRightly == Spec => ReadsAreRight
<1> DEFINE Newer == \A r \in Reader : Repairs(r) => store'.ver > store.ver
           True == \A r \in Reader :
                     Undisturbed(r) /\ (FirstArrives(r) \/ SecondArrives(r))
                     /\ reader'[r].phase = "done" => store'.value = device.value
<1>1. Init => Inv /\ Halves BY InvInit
<1>2. (Inv /\ Halves) /\ [Next]_vars => (Inv /\ Halves)' BY InvNext
<1>3. Inv => Newer
  <2> SUFFICES ASSUME Inv, NEW r \in Reader, Repairs(r) PROVE store'.ver > store.ver
    OBVIOUS
  <2> DEFINE a == reader[r].answer
  <2>1. SecondArrives(r) /\ store.at # Undated /\ store'.at = store.at
        /\ store'.value # store.value
    BY DEF Repairs
  <2>2. a \in Answers /\ Report(a) /\ Observed(r, a, Alive, Proved(r)) /\ a # None
    BY <2>1, SecondObserved DEF SecondArrives, Arrives
  <2>3. Alive.value = store.value /\ Alive.at = store.at BY AliveHeard
  <2>4. a \in Reports /\ store \in Reports /\ store.ver \in Nat /\ store.at \in Nat
    BY <2>2 DEF Reports, Inv, Types, StoreType, States4
  <2>5. store'.value = a.value /\ store'.ver = a.ver /\ Proved(r)
    BY <2>1, <2>2, <2>3, <2>4 DEF Observed, Report
  <2>6. a.ver >= store.ver BY <2>1, <2>2, <2>5 DEF Inv, ReaderInv, Proved
  <2>7. a.ver # store.ver BY <2>1, <2>4, <2>5 DEF Inv, ValueInv, Agree
  <2> QED BY <2>2, <2>4, <2>5, <2>6, <2>7 DEF Report
<1>4. Inv /\ Halves => True
  <2> SUFFICES ASSUME Inv, Halves, NEW r \in Reader, Undisturbed(r),
                      FirstArrives(r) \/ SecondArrives(r), reader'[r].phase = "done"
               PROVE  store'.value = device.value
    OBVIOUS
  <2> DEFINE a == reader[r].answer
  <2>1. /\ r \in current /\ a # None /\ a.ver = device.ver
        /\ a.at = Undated \/ a.at >= store.at
    BY DEF Undisturbed
  <2>2. a \in Reports /\ Report(a) BY <2>1, AnswerKnown DEF Reports
  <2>3. a.value = device.value BY <2>1, <2>2 DEF Inv, ValueInv, Agree
  <2>4. Alive.value = store.value /\ Alive.at = store.at /\ Alive.online = TRUE BY AliveHeard
  <2>5. store.at \in Nat BY DEF Inv, Types, StoreType, States4
  <2>6. CASE FirstArrives(r)
    <3>1. reader \in [Reader -> Reads] BY DEF Inv, Types, ReadType
    <3>2. ~Repairable(a, Alive)
      <4>1. Repairable(a, Alive) =>
              reader' = [reader EXCEPT ![r] = [phase |-> "second", answer |-> None, first |-> a]]
        BY <2>6 DEF FirstArrives
      <4> HIDE DEF a
      <4> QED BY <3>1, <4>1
    <3>3. Observed(r, a, Alive, FALSE) BY <2>6, <3>2, FirstObserved
    <3> QED BY <2>1, <2>2, <2>3, <2>4, <2>5, <3>2, <3>3 DEF Observed, Repairable, Report
  <2>7. CASE SecondArrives(r)
    <3>1. Proved(r)
      <4>1. reader[r].phase = "second" BY <2>7 DEF SecondArrives
      <4>2. reader[r].first.ver = device.ver /\ reader[r].first.at = a.at
        BY <4>1 DEF Undisturbed
      <4>3. reader[r].first \in Reports BY <4>1, AnswerKnown DEF Halves, Reports
      <4>4. reader[r].first.value = device.value
        BY <4>2, <4>3 DEF Inv, ValueInv, Agree
      <4> QED BY <2>1, <2>3, <2>4, <4>2, <4>4 DEF Proved
    <3>2. Observed(r, a, Alive, Proved(r)) BY <2>7, SecondObserved
    <3> QED BY <2>1, <2>2, <2>3, <2>4, <2>5, <3>1, <3>2 DEF Observed, Repairable, Report
  <2> QED BY <2>6, <2>7
<1>5. Spec => [][Newer]_vars BY <1>1, <1>2, <1>3, PTL DEF Spec
<1>6. Spec => [][True]_vars BY <1>1, <1>2, <1>4, PTL DEF Spec
<1> QED BY <1>5, <1>6 DEF ReadsAreRight, RepairIsNewer, UndisturbedReadIsTrue

-----------------------------------------------------------------------------
(***************************************************************************)
(* Which commands the store offers, for any devices and definitions and any *)
(* number of inventories, builds and loads (CommandCatalog).                *)
(***************************************************************************)
USE CatalogAssumption

(* What a build has got of a definition is what it holds, or that it could  *)
(* not be had; and it has it, waits for its load, or has it to do.          *)
Honest(b) ==
  /\ b \in Catalog!Build
  /\ \A c \in Catalog!Cap :
       /\ b.got[c] \in {None, "unavailable", Content[c]}
       /\ b.waits[c] # None => loads[b.waits[c]] = c
  /\ \A d \in Devices : \A c \in b.of[d] : c \in b.todo \/ b.waits[c] # None \/ b.got[c] # None

(* The newest build is of the latest inventory, without the devices whose   *)
(* identifiers this session has not seen.                                   *)
Current(b) ==
  \A d \in Devices :
    IF inventory[d] # {} /\ d \notin aliased THEN d \in b.unresolved /\ b.of[d] = {}
    ELSE d \notin b.unresolved /\ b.of[d] = inventory[d]

CatalogTypes ==
  /\ inventory \in [Devices -> SUBSET Catalog!Cap] /\ aliased \subseteq Devices
  /\ catalogued \in [Devices -> SUBSET Catalog!Cap]
  /\ newest \in Nat
  /\ cache \in [Catalog!Cap -> Catalog!Load \cup {None}]
  /\ loads \in [Catalog!Load -> Catalog!Cap \cup {None}] /\ loaded \subseteq Catalog!Load

BuildsInv ==
  /\ \A b \in builds : Honest(b) /\ b.n <= newest /\ (b.n = newest => Current(b))
  /\ \A a, b \in builds : a.n = b.n => a = b
LoadsInv == Catalog!NoFailureKept /\ \A l \in loaded : loads[l] = None
CatalogInv == CatalogTypes /\ BuildsInv /\ LoadsInv /\ Catalog!NothingStale

-----------------------------------------------------------------------------
LEMMA CatalogInit == Catalog!Init => CatalogInv
  <1> SUFFICES ASSUME Catalog!Init PROVE CatalogInv
    OBVIOUS
  <1>1. CatalogTypes
    BY DEF Catalog!Init, CatalogTypes
  <1>2. BuildsInv /\ LoadsInv /\ Catalog!NothingStale
    BY DEF Catalog!Init, BuildsInv, LoadsInv, Catalog!NoFailureKept, Catalog!NothingStale
  <1> QED BY <1>1, <1>2 DEF CatalogInv

\* A build begins.
LEMMA SyncStep ==
  ASSUME CatalogInv, NEW devices \in [Devices -> SUBSET Catalog!Cap],
         NEW known \in SUBSET Devices, Catalog!Sync(devices, known)
  PROVE  CatalogInv' /\ catalogued' = catalogued
  <1> DEFINE missing == {d \in Devices : devices[d] # {} /\ d \notin known}
             of == [d \in Devices |-> IF d \in missing THEN {} ELSE devices[d]]
  <1>1. PICK new : new = Catalog!Start(devices, known)
    OBVIOUS
  <1>2. /\ newest' = newest + 1 /\ inventory' = devices /\ aliased' = known /\ newest < MaxSyncs
        /\ builds' = builds \cup {new} /\ UNCHANGED <<catalogued, cache, order, loads, loaded,
                kept>>
    BY <1>1 DEF Catalog!Sync
  <1>3. newest \in Nat
    BY DEF CatalogInv, CatalogTypes
  <1>4. new = [n |-> newest + 1, of |-> of, unresolved |-> missing,
               todo |-> UNION {of[d] : d \in Devices},
               waits |-> [c \in Catalog!Cap |-> None], got |-> [c \in Catalog!Cap |-> None]]
    BY <1>1 DEF Catalog!Start
  <1>5. of \in [Devices -> SUBSET Catalog!Cap] /\ missing \subseteq Devices
        /\ UNION {of[d] : d \in Devices} \subseteq Catalog!Cap
        /\ \A d \in Devices : of[d] = IF devices[d] # {} /\ d \notin known THEN {} ELSE devices[d]
    OBVIOUS
  <1>6. \A d \in Devices : d \in missing <=> (devices[d] # {} /\ d \notin known)
    OBVIOUS
  <1> HIDE DEF of, missing
  <1>7. newest + 1 \in 1..MaxSyncs
    BY <1>2, <1>3
  <1>8. new \in Catalog!Build
    BY <1>4, <1>5, <1>7 DEF Catalog!Build
  <1>9. new.n = newest + 1 /\ new.of = of /\ new.unresolved = missing
        /\ new.todo = UNION {of[d] : d \in Devices}
        /\ (\A c \in Catalog!Cap : new.waits[c] = None /\ new.got[c] = None)
    BY <1>4
  <1>10. Honest(new)'
    <2>1. \A d \in Devices : \A c \in new.of[d] : c \in new.todo
      BY <1>9
    <2> QED BY <1>8, <1>9, <2>1 DEF Honest
  <1>11. Current(new)'
    BY <1>2, <1>5, <1>6, <1>9 DEF Current
  <1>12. \A b \in builds : b.n \in Nat /\ b.n < newest' /\ Honest(b)'
    BY <1>2, <1>3 DEF CatalogInv, BuildsInv, Honest, Catalog!Build
  <1>13. BuildsInv'
    <2>1. \A b \in builds' : Honest(b)' /\ b.n <= newest' /\ (b.n = newest' => Current(b)')
      BY <1>2, <1>3, <1>9, <1>10, <1>11, <1>12
    <2>2. \A a, b \in builds' : a.n = b.n => a = b
      BY <1>2, <1>3, <1>9, <1>12 DEF CatalogInv, BuildsInv
    <2> QED BY <2>1, <2>2 DEF BuildsInv
  <1>14. CatalogTypes' /\ LoadsInv'
    BY <1>2, <1>3 DEF CatalogInv, CatalogTypes, LoadsInv, Catalog!NoFailureKept
  <1>15. Catalog!NothingStale'
    BY <1>2, <1>9 DEF Catalog!NothingStale
  <1> QED BY <1>2, <1>13, <1>14, <1>15 DEF CatalogInv

\* A worker takes the next capability.
LEMMA TakeStep ==
  ASSUME CatalogInv, NEW b \in builds, NEW c \in Catalog!Cap,
          NEW l \in Catalog!Load,
         Catalog!Take(b, c, l)
  PROVE  CatalogInv' /\ catalogued' = catalogued
  <1>1. PICK new : new = IF l \in loaded THEN [b EXCEPT !.todo = @ \ {c}, !.got[c] = Content[c]]
                         ELSE [b EXCEPT !.todo = @ \ {c}, !.waits[c] = l]
    OBVIOUS
  <1>2. /\ builds' = (builds \ {b}) \cup {new} /\ Catalog!Get(b, c, l) /\ c \in b.todo
        /\ UNCHANGED <<inventory, aliased, catalogued, newest, loaded, kept>>
    BY <1>1 DEF Catalog!Take
  <1>3. Honest(b) /\ b \in Catalog!Build /\ b.n <= newest /\ (b.n = newest => Current(b))
    BY DEF CatalogInv, BuildsInv, Honest
  <1>4. /\ cache \in [Catalog!Cap -> Catalog!Load \cup {None}]
          /\ loads \in [Catalog!Load -> Catalog!Cap \cup {None}]
        /\ None \notin Catalog!Cap /\ None \notin Catalog!Load /\ c \in Catalog!Cap
                /\ l \in Catalog!Load
    BY DEF CatalogInv, CatalogTypes, Catalog!Load
  <1>5. /\ cache' \in [Catalog!Cap -> Catalog!Load \cup {None}]
          /\ loads' \in [Catalog!Load -> Catalog!Cap \cup {None}]
        /\ \A k \in Catalog!Load : loads[k] # None => loads'[k] = loads[k]
        /\ l \in loaded \/ loads'[l] = c
        /\ \A k \in Catalog!Cap : cache'[k] # None =>
             cache'[k] = cache[k] \/ (k = c /\ cache'[k] = l)
        /\ \A k \in loaded : loads'[k] = None
    <2>1. CASE cache[c] # None
      <3>1. l = cache[c] /\ UNCHANGED <<cache, order, loads>>
        BY <1>2, <2>1 DEF Catalog!Get
      <3> QED BY <1>4, <2>1, <3>1 DEF CatalogInv, LoadsInv, Catalog!NoFailureKept
    <2>2. CASE cache[c] = None
      <3>1. loads[l] = None /\ l \notin loaded /\ loads' = [loads EXCEPT ![l] = c]
        BY <1>2, <2>2 DEF Catalog!Get
      <3>2. \E dropped \in BOOLEAN : \E head :
              cache' = [k \in Catalog!Cap |-> IF dropped /\ k = head THEN None
                                         ELSE IF k = c THEN l ELSE cache[k]]
        <4>1. (Len(Append(order, c)) > MaxEntries) \in BOOLEAN
          OBVIOUS
        <4> QED BY <1>2, <2>2, <4>1 DEF Catalog!Get
      <3>3. \A k \in loaded : k # l /\ loads[k] = None /\ k \in Catalog!Load
        BY <3>1 DEF CatalogInv, LoadsInv, CatalogTypes
      <3> QED BY <1>4, <2>2, <3>1, <3>2, <3>3
    <2> QED BY <2>1, <2>2
  <1>6. new \in Catalog!Build /\ new.n = b.n /\ new.of = b.of /\ new.unresolved = b.unresolved
        /\ new.todo = b.todo \ {c}
        /\ new.got = (IF l \in loaded THEN [b.got EXCEPT ![c] = Content[c]] ELSE b.got)
        /\ new.waits = (IF l \in loaded THEN b.waits ELSE [b.waits EXCEPT ![c] = l])
    <2>1. Content[c] \in Catalog!Contents
      BY <1>4
    <2> QED BY <1>1, <1>3, <1>4, <2>1 DEF Catalog!Build
  <1>7. b.got \in [Catalog!Cap -> Catalog!Contents \cup {"unavailable", None}]
        /\ b.waits \in [Catalog!Cap -> Catalog!Load \cup {None}]
    BY <1>3 DEF Catalog!Build
  <1>8. Honest(new)'
    <2>1. ASSUME NEW k \in Catalog!Cap
          PROVE  /\ new.got[k] \in {None, "unavailable", Content[k]}
                 /\ new.waits[k] # None => loads'[new.waits[k]] = k
      BY <1>3, <1>4, <1>5, <1>6, <1>7 DEF Honest
    <2>2. Content[c] # None
      BY <1>4
    <2>3. ASSUME NEW d \in Devices, NEW k \in new.of[d]
          PROVE  k \in new.todo \/ new.waits[k] # None \/ new.got[k] # None
      <3>1. k \in Catalog!Cap
        BY <1>3, <1>6 DEF Catalog!Build
      <3>2. k \in b.todo \/ b.waits[k] # None \/ b.got[k] # None
        BY <1>3, <1>6 DEF Honest
      <3> QED BY <1>4, <1>6, <1>7, <2>2, <3>1, <3>2
    <2> QED BY <1>6, <2>1, <2>3 DEF Honest
  <1>9. \A a \in builds : Honest(a)'
    <2>1. ASSUME NEW a \in builds PROVE Honest(a)'
      <3>1. Honest(a)
        BY DEF CatalogInv, BuildsInv
      <3>2. \A k \in Catalog!Cap : a.waits[k] \in Catalog!Load \cup {None}
        BY <3>1 DEF Honest, Catalog!Build
      <3> QED BY <1>4, <1>5, <3>1, <3>2 DEF Honest
    <2> QED BY <2>1
  <1>10. BuildsInv'
    <2>1. \A a \in builds' : Honest(a)' /\ a.n <= newest' /\ (a.n = newest' => Current(a)')
      BY <1>2, <1>3, <1>6, <1>8, <1>9 DEF CatalogInv, BuildsInv, Current
    <2>2. \A a1, a2 \in builds' : a1.n = a2.n => a1 = a2
      BY <1>2, <1>6 DEF CatalogInv, BuildsInv
    <2> QED BY <2>1, <2>2 DEF BuildsInv
  <1>11. CatalogTypes' /\ LoadsInv'
    <2>1. Catalog!NoFailureKept'
      BY <1>2, <1>4, <1>5 DEF CatalogInv, LoadsInv, Catalog!NoFailureKept
    <2> QED BY <1>2, <1>5, <2>1 DEF CatalogInv, CatalogTypes, LoadsInv
  <1>12. Catalog!NothingStale'
    <2>1. (\A a \in builds' : a.n # newest') => \A a \in builds : a.n # newest
      BY <1>2, <1>6
    <2> QED BY <1>2, <2>1 DEF CatalogInv, Catalog!NothingStale
  <1> QED BY <1>2, <1>10, <1>11, <1>12 DEF CatalogInv

\* A load has ended, with a result that its capability's definition may give.
LEMMA TellStep ==
  ASSUME CatalogInv, NEW l \in Catalog!Load, loads[l] # None,
         NEW result, result \in {"unavailable", Content[loads[l]]},
         loads' = [loads EXCEPT ![l] = None], builds' = Catalog!Tell(l, result),
         UNCHANGED <<inventory, aliased, newest>>
  PROVE  BuildsInv'
  <1>1. /\ loads \in [Catalog!Load -> Catalog!Cap \cup {None}] /\ None \notin Catalog!Load
          /\ loads[l] \in Catalog!Cap
        /\ Content[loads[l]] \in Catalog!Contents
    BY DEF CatalogInv, CatalogTypes, Catalog!Load
  <1>2. ASSUME NEW b \in builds, NEW new,
               new = [b EXCEPT !.waits = [c \in Catalog!Cap |-> IF b.waits[c] = l THEN None
                       ELSE b.waits[c]],
                               !.got = [c \in Catalog!Cap |-> IF b.waits[c] = l THEN result
                                       ELSE b.got[c]]]
        PROVE  Honest(new)' /\ new.n = b.n /\ new.of = b.of /\ new.unresolved = b.unresolved
    <2>1. Honest(b) /\ b \in Catalog!Build
      BY DEF CatalogInv, BuildsInv, Honest
    <2>2. b.got \in [Catalog!Cap -> Catalog!Contents \cup {"unavailable", None}]
          /\ b.waits \in [Catalog!Cap -> Catalog!Load \cup {None}]
                  /\ b.of \in [Devices -> SUBSET Catalog!Cap]
      BY <2>1 DEF Catalog!Build
    <2> DEFINE waits == [c \in Catalog!Cap |-> IF b.waits[c] = l THEN None ELSE b.waits[c]]
               got == [c \in Catalog!Cap |-> IF b.waits[c] = l THEN result ELSE b.got[c]]
    <2>3. waits \in [Catalog!Cap -> Catalog!Load \cup {None}]
          /\ got \in [Catalog!Cap -> Catalog!Contents \cup {"unavailable", None}]
      BY <1>1, <2>2
    <2>4. \A c \in Catalog!Cap : waits[c] = (IF b.waits[c] = l THEN None ELSE b.waits[c])
                           /\ got[c] = (IF b.waits[c] = l THEN result ELSE b.got[c])
      OBVIOUS
    <2>5. new = [b EXCEPT !.waits = waits, !.got = got]
      BY <1>2
    <2> HIDE DEF waits, got
    <2>6. new \in Catalog!Build /\ new.n = b.n /\ new.of = b.of /\ new.unresolved = b.unresolved
          /\ new.todo = b.todo /\ new.waits = waits /\ new.got = got
      BY <2>1, <2>3, <2>5 DEF Catalog!Build
    <2>7. ASSUME NEW c \in Catalog!Cap
          PROVE  /\ new.got[c] \in {None, "unavailable", Content[c]}
                 /\ new.waits[c] # None => loads'[new.waits[c]] = c
      <3>1. /\ b.got[c] \in {None, "unavailable", Content[c]}
            /\ b.waits[c] # None => loads[b.waits[c]] = c
        BY <2>1 DEF Honest
      <3> QED BY <1>1, <2>2, <2>4, <2>6, <3>1
    <2>8. ASSUME NEW d \in Devices, NEW c \in new.of[d]
          PROVE  c \in new.todo \/ new.waits[c] # None \/ new.got[c] # None
      <3>1. c \in b.todo \/ b.waits[c] # None \/ b.got[c] # None
        BY <2>1, <2>6 DEF Honest
      <3>2. c \in Catalog!Cap /\ result # None
        BY <1>1, <2>2, <2>6
      <3> QED BY <2>4, <2>6, <3>1, <3>2
    <2> QED BY <2>6, <2>7, <2>8 DEF Honest
  <1>3. \A a \in builds' : \E b \in builds :
          /\ Honest(a)' /\ a.n = b.n /\ a.of = b.of /\ a.unresolved = b.unresolved
          /\ a = [b EXCEPT !.waits = [c \in Catalog!Cap |-> IF b.waits[c] = l THEN None
                  ELSE b.waits[c]],
                           !.got = [c \in Catalog!Cap |-> IF b.waits[c] = l THEN result
                                   ELSE b.got[c]]]
    BY <1>2 DEF Catalog!Tell
  <1>4. \A a \in builds' : Honest(a)' /\ a.n <= newest' /\ (a.n = newest' => Current(a)')
    <2> SUFFICES ASSUME NEW a \in builds'
                 PROVE  Honest(a)' /\ a.n <= newest' /\ (a.n = newest' => Current(a)')
      OBVIOUS
    <2>1. PICK b \in builds :
            Honest(a)' /\ a.n = b.n /\ a.of = b.of /\ a.unresolved = b.unresolved
      BY <1>3
    <2>2. b.n <= newest /\ (b.n = newest => Current(b))
      BY DEF CatalogInv, BuildsInv
    <2> QED BY <2>1, <2>2 DEF Current
  <1>5. \A a1, a2 \in builds' : a1.n = a2.n => a1 = a2
    <2> SUFFICES ASSUME NEW a1 \in builds', NEW a2 \in builds', a1.n = a2.n PROVE a1 = a2
      OBVIOUS
    <2>1. PICK b1 \in builds :
            /\ a1.n = b1.n
            /\ a1 = [b1 EXCEPT !.waits = [c \in Catalog!Cap |-> IF b1.waits[c] = l THEN None
                    ELSE b1.waits[c]],
                               !.got = [c \in Catalog!Cap |-> IF b1.waits[c] = l THEN result
                                       ELSE b1.got[c]]]
      BY <1>3
    <2>2. PICK b2 \in builds :
            /\ a2.n = b2.n
            /\ a2 = [b2 EXCEPT !.waits = [c \in Catalog!Cap |-> IF b2.waits[c] = l THEN None
                    ELSE b2.waits[c]],
                               !.got = [c \in Catalog!Cap |-> IF b2.waits[c] = l THEN result
                                       ELSE b2.got[c]]]
      BY <1>3
    <2>3. b1 = b2
      BY <2>1, <2>2 DEF CatalogInv, BuildsInv
    <2> QED BY <2>1, <2>2, <2>3
  <1> QED BY <1>4, <1>5 DEF BuildsInv

LEMMA ToldBuilds ==
  ASSUME CatalogInv, NEW l, NEW result, builds' = Catalog!Tell(l, result), newest' = newest,
         UNCHANGED <<inventory, catalogued, kept>>
  PROVE  Catalog!NothingStale'
  <1>1. \A b \in builds : \E a \in builds' : a.n = b.n
    <2> SUFFICES ASSUME NEW b \in builds PROVE \E a \in builds' : a.n = b.n
      OBVIOUS
    <2> DEFINE a == [b EXCEPT !.waits = [c \in Catalog!Cap |-> IF b.waits[c] = l THEN None
            ELSE b.waits[c]],
                              !.got = [c \in Catalog!Cap |-> IF b.waits[c] = l THEN result
                                      ELSE b.got[c]]]
    <2>1. a \in builds'
      BY DEF Catalog!Tell
    <2>2. b \in Catalog!Build
      BY DEF CatalogInv, BuildsInv, Honest
    <2>3. a.n = b.n
      BY <2>2 DEF Catalog!Build
    <2> QED BY <2>1, <2>3
  <1>2. (\A a \in builds' : a.n # newest') => \A b \in builds : b.n # newest
    BY <1>1
  <1> QED BY <1>2 DEF CatalogInv, Catalog!NothingStale

LEMMA LoadStep ==
  ASSUME CatalogInv, NEW l \in Catalog!Load, Catalog!LoadEnds(l)
          \/ Catalog!LoadFails(l)
  PROVE  CatalogInv' /\ catalogued' = catalogued
  <1>1. /\ loads[l] # None /\ loads' = [loads EXCEPT ![l] = None]
        /\ UNCHANGED <<inventory, aliased, catalogued, newest, kept>>
    BY DEF Catalog!LoadEnds, Catalog!LoadFails
  <1>2. PICK result \in {"unavailable", Content[loads[l]]} : builds' = Catalog!Tell(l, result)
    BY DEF Catalog!LoadEnds, Catalog!LoadFails
  <1>3. BuildsInv'
    BY <1>1, <1>2, TellStep
  <1>4. Catalog!NothingStale'
    BY <1>1, <1>2, ToldBuilds
  <1>5. /\ cache \in [Catalog!Cap -> Catalog!Load \cup {None}]
          /\ loads \in [Catalog!Load -> Catalog!Cap \cup {None}]
        /\ None \notin Catalog!Cap /\ None \notin Catalog!Load /\ loaded \subseteq Catalog!Load
    BY DEF CatalogInv, CatalogTypes, Catalog!Load
  <1>6. loads' \in [Catalog!Load -> Catalog!Cap \cup {None}] /\ loads'[l] = None
        /\ \A k \in Catalog!Load : k # l => loads'[k] = loads[k]
    BY <1>1, <1>5
  <1>7. CASE Catalog!LoadEnds(l)
    <2>1. loaded' = loaded \cup {l} /\ UNCHANGED cache
      BY <1>7 DEF Catalog!LoadEnds
    <2>2. Catalog!NoFailureKept' /\ \A k \in loaded' : loads'[k] = None
      BY <1>5, <1>6, <2>1 DEF CatalogInv, LoadsInv, Catalog!NoFailureKept
    <2> QED BY <1>1, <1>3, <1>4, <1>5, <1>6, <2>1, <2>2 DEF CatalogInv, CatalogTypes, LoadsInv
  <1>8. CASE Catalog!LoadFails(l)
    <2>1. loaded' = loaded /\ Catalog!ForgetFailure(l)
      BY <1>8 DEF Catalog!LoadFails
    <2>2. l \notin loaded
      BY <1>1 DEF CatalogInv, LoadsInv
    <2>3. cache' \in [Catalog!Cap -> Catalog!Load \cup {None}]
          /\ \A k \in Catalog!Cap : cache'[k] # None => cache'[k] = cache[k]
                                                  /\ (k = loads[l] => cache[k] # l)
      BY <1>1, <1>5, <2>1 DEF Catalog!ForgetFailure
    <2>4. Catalog!NoFailureKept' /\ \A k \in loaded' : loads'[k] = None
      <3>1. ASSUME NEW k \in Catalog!Cap, cache'[k] # None
            PROVE  loads'[cache'[k]] = k \/ cache'[k] \in loaded'
        <4>1. cache'[k] = cache[k] /\ cache[k] \in Catalog!Load
          BY <1>5, <2>3, <3>1
        <4>2. loads[cache[k]] = k \/ cache[k] \in loaded
          BY <3>1, <4>1 DEF CatalogInv, LoadsInv, Catalog!NoFailureKept
        <4>3. cache[k] = l => k = loads[l]
          BY <2>2, <4>2
        <4>4. cache[k] # l
          BY <2>3, <3>1, <4>3
        <4> QED BY <1>6, <2>1, <4>1, <4>2, <4>4
      <3> QED BY <1>5, <1>6, <2>1, <2>2, <3>1 DEF CatalogInv, LoadsInv, Catalog!NoFailureKept
    <2> QED BY <1>1, <1>3, <1>4, <1>6, <2>1, <2>3, <2>4 DEF CatalogInv, CatalogTypes, LoadsInv
  <1> QED BY <1>1, <1>7, <1>8

\* A build ends: what it makes of the commands if it is the newest one.
LEMMA NewestEnds ==
  ASSUME CatalogInv, NEW b \in builds, Catalog!Finish(b), b.n = newest,
          NEW d \in Devices
  PROVE  /\ d \notin kept' => catalogued'[d] \subseteq {c \in inventory[d] : Content[c] = "usable"}
         /\ catalogued[d] # {} /\ catalogued'[d] = {} =>
              /\ d \in aliased \/ inventory[d] = {}
              /\ \A c \in inventory[d] : Content[c] = "unsafe"
         /\ catalogued'[d] \subseteq Catalog!Cap
  <1>1. Honest(b) /\ Current(b) /\ b \in Catalog!Build
    BY DEF CatalogInv, BuildsInv, Honest
  <1>2. d \in kept' <=> Catalog!Preserved(b, d)
    BY DEF Catalog!Finish, Catalog!Observe
  <1>3. catalogued'[d] = IF Catalog!Preserved(b, d) THEN catalogued[d] ELSE Catalog!Usable(b, d)
    BY DEF Catalog!Finish, Catalog!Observe
  <1>4. catalogued[d] \subseteq Catalog!Cap /\ b.of[d] \subseteq Catalog!Cap
    BY <1>1 DEF CatalogInv, CatalogTypes, Catalog!Build
  <1>5. "usable" # None /\ "usable" # "unavailable"
    BY DEF Catalog!Contents
  <1>6. Catalog!Usable(b, d) \subseteq {c \in b.of[d] : Content[c] = "usable"}
    BY <1>1, <1>4, <1>5 DEF Catalog!Usable, Honest
  <1>7. d \notin kept' => b.of[d] = inventory[d] /\ (d \in aliased \/ inventory[d] = {})
    BY <1>1, <1>2 DEF Catalog!Preserved, Current
  <1>8. ASSUME d \notin kept', catalogued[d] # {}, Catalog!Usable(b, d) = {}, NEW c \in b.of[d]
        PROVE  Content[c] = "unsafe"
    <2>1. b.got[c] \notin {"unavailable", "malformed"} /\ b.got[c] # "usable"
      BY <1>2, <1>8 DEF Catalog!Preserved, Catalog!Usable
    <2>2. c \in Catalog!Cap /\ c \notin b.todo /\ b.waits[c] = None
      BY <1>4 DEF Catalog!Finish, Catalog!Ends, Catalog!Done
    <2>3. b.got[c] # None /\ b.got[c] \in {None, "unavailable", Content[c]}
      BY <1>1, <2>2 DEF Honest
    <2>4. Content[c] \in Catalog!Contents
      BY <2>2
    <2> QED BY <2>1, <2>3, <2>4 DEF Catalog!Contents
  <1>9. d \in kept' => catalogued'[d] = catalogued[d]
    BY <1>2, <1>3
  <1>10. d \notin kept' => catalogued'[d] = Catalog!Usable(b, d)
    BY <1>2, <1>3
  <1>11. catalogued'[d] \subseteq Catalog!Cap
    BY <1>4, <1>6, <1>9, <1>10
  <1> QED BY <1>6, <1>7, <1>8, <1>9, <1>10, <1>11

LEMMA FinishStep ==
  ASSUME CatalogInv, NEW b \in builds, Catalog!Finish(b)
  PROVE  CatalogInv'
  <1>1. builds' = builds \ {b} /\ UNCHANGED <<inventory, aliased, newest, cache, loads, loaded>>
    BY DEF Catalog!Finish, Catalog!Ends
  <1>2. BuildsInv' /\ LoadsInv'
    BY <1>1 DEF CatalogInv, BuildsInv, LoadsInv, Honest, Current, Catalog!NoFailureKept
  <1>3. CASE b.n = newest
    <2>1. catalogued' = [d \in Devices |-> IF Catalog!Preserved(b, d) THEN catalogued[d]
            ELSE Catalog!Usable(b, d)]
      BY <1>3 DEF Catalog!Finish, Catalog!Observe
    <2>2. catalogued' \in [Devices -> SUBSET Catalog!Cap]
      <3>1. \A d \in Devices : catalogued'[d] \subseteq Catalog!Cap
        BY <1>3, NewestEnds
      <3> QED BY <2>1, <3>1
    <2>3. Catalog!NothingStale'
      BY <1>1, <1>3, NewestEnds DEF Catalog!NothingStale
    <2> QED BY <1>1, <1>2, <2>2, <2>3 DEF CatalogInv, CatalogTypes
  <1>4. CASE b.n # newest
    <2>1. UNCHANGED <<catalogued, kept>>
      BY <1>4 DEF Catalog!Finish
    <2>2. Catalog!NothingStale'
      BY <1>1, <1>4, <2>1 DEF CatalogInv, Catalog!NothingStale
    <2> QED BY <1>1, <1>2, <2>1, <2>2 DEF CatalogInv, CatalogTypes
  <1> QED BY <1>3, <1>4

LEMMA CatalogStep == CatalogInv /\ [Catalog!Next]_Catalog!vars => CatalogInv'
  <1> SUFFICES ASSUME CatalogInv, [Catalog!Next]_Catalog!vars PROVE CatalogInv'
    OBVIOUS
  <1>1. CASE UNCHANGED Catalog!vars
    BY <1>1 DEF Catalog!vars, CatalogInv, CatalogTypes, BuildsInv, LoadsInv, Honest, Current,
                Catalog!NoFailureKept, Catalog!NothingStale
  <1>2. CASE Catalog!Next
    BY <1>2, SyncStep, TakeStep, LoadStep, FinishStep DEF Catalog!Next
  <1> QED BY <1>1, <1>2

-----------------------------------------------------------------------------
(* What the store offers belongs to the latest inventory as soon as its     *)
(* build has ended, a definition that failed to load is loaded again, and no*)
(* device loses all its commands because definitions could not be had       *)
(* (buildAdvancedCommandCatalog and CapabilityDefinitionCache).             *)
THEOREM CatalogKeepsItsWord == Catalog!Spec => CatalogIsSound
<1> DEFINE Keeps == \A d \in Devices : catalogued[d] # {} /\ catalogued'[d] = {} =>
                      /\ d \in aliased \/ inventory[d] = {}
                      /\ \A c \in inventory[d] : Content[c] = "unsafe"
           Sound == Catalog!NothingStale' /\ Catalog!NoFailureKept'
<1>1. CatalogInv /\ [Catalog!Next]_Catalog!vars => Keeps
  <2> SUFFICES ASSUME CatalogInv, [Catalog!Next]_Catalog!vars PROVE Keeps
    OBVIOUS
  <2>1. CASE catalogued' = catalogued
    BY <2>1
  <2>2. ASSUME NEW b \in builds, Catalog!Finish(b) PROVE Keeps
    <3>1. CASE b.n = newest
      BY <2>2, <3>1, NewestEnds
    <3>2. CASE b.n # newest
      BY <2>2, <3>2 DEF Catalog!Finish
    <3> QED BY <3>1, <3>2
  <2>3. catalogued' = catalogued \/ \E b \in builds : Catalog!Finish(b)
    BY DEF Catalog!Next, Catalog!Sync, Catalog!Take, Catalog!LoadEnds, Catalog!LoadFails,
            Catalog!vars
  <2> QED BY <2>1, <2>2, <2>3
<1>2. CatalogInv /\ [Catalog!Next]_Catalog!vars => Sound
  BY CatalogStep DEF CatalogInv, LoadsInv
<1>3. Catalog!Spec => [][Keeps]_Catalog!vars /\ [][Sound]_Catalog!vars
  BY <1>1, <1>2, CatalogInit, CatalogStep, PTL DEF Catalog!Spec
<1> QED BY <1>3 DEF CatalogIsSound, Catalog!CatalogIsSound, Catalog!FailureForgetsNothing
=============================================================================
