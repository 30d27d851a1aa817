----------------------------- MODULE DeviceState -----------------------------
(* Which report about a device wins in the bridge's DeviceStore.             *)
(*                                                                           *)
(* One device with one switch attribute is watched over four channels: the   *)
(* pushed state and health events of the web application's sockets, the      *)
(* snapshots the application or the advanced API asks for, and the status    *)
(* reads a command makes.  Answers and events overtake one another, events   *)
(* get lost, drivers keep an old timestamp although the value changed, or    *)
(* send none, and commands begin at any time.  The store orders what it      *)
(* hears by timestamp; a status read may overrule that order once, when two  *)
(* reads agree and nothing happened in between.                              *)
(*                                                                           *)
(* Not modelled here: the device's name, room, controls and other metadata,  *)
(* its location, the momentary button attribute, and the removal of devices. *)
EXTENDS Integers, FiniteSets

CONSTANTS
  Value,         \* values of the switch
  Reader,        \* status reads of commands, each made once
  LightReader,   \* those that asked for a light: only these publish deltas
  MaxChanges,    \* bound: changes of the device's value and health
  MaxSnapshots,  \* bound: snapshots in flight at once
  None

ASSUME ReaderAssumption == LightReader \subseteq Reader
ASSUME BoundsAssumption == MaxChanges \in Nat /\ MaxSnapshots \in Nat

VARIABLES
  clock,      \* the time: every change of the device and every arrival ticks
  device,     \* the device as SmartThings knows it
  pushes,     \* events on their way to the page; a lost one never arrives
  snapshots,  \* answers to snapshot queries on their way; a query that fails
              \* is one never made
  reader,     \* the reads of readLightCommandStatus
  current,    \* readers whose captured revision is still the device's
  store,      \* the device in DeviceStore
  told,       \* what the listeners of the store learnt of it
  evidence    \* TRUE once a read was taken for a sign of life

vars == <<clock, device, pushes, snapshots, reader, current, store, told, evidence>>

Undated == 0
Time == Nat \ {Undated}
Stamp == Nat

-----------------------------------------------------------------------------
(* Types.  `ver` counts the changes of the value: it is not part of any      *)
(* message of the code and only says which of the device's values a report   *)
(* carries.                                                                  *)

(* What the server knows: at is the timestamp its status API reports for the *)
(* switch, onlineAt the one of the last health change.                       *)
Device == [value: Value, at: Time, ver: Nat, online: BOOLEAN, onlineAt: Time,
           changes: 0..MaxChanges]

StateEvent == [type: {"state"}, value: Value, at: Time, ver: Nat]
HealthEvent == [type: {"health"}, online: BOOLEAN, at: Time]

Query == {"status", "health", "advanced"}
Reported == [value: Value, at: Stamp, ver: Nat]
Health == [online: BOOLEAN, at: Stamp]

(* The answer to a status read; healthAt is not in it: it is the time of the *)
(* device's last health change when the server answered.                     *)
Answer == [value: Value, at: Stamp, ver: Nat, healthAt: Time]

ASSUME NoneAssumption == None \notin Value \cup Reported \cup Health \cup Answer

Phase == {"waiting", "first", "second", "done"}

TypeOK ==
  /\ clock \in Time
  /\ device \in Device
  /\ pushes \subseteq StateEvent \cup HealthEvent
  /\ snapshots \subseteq [query: Query, state: Reported \cup {None}, health: Health \cup {None}]
  /\ reader \in [Reader ->
       [phase: Phase, answer: Answer \cup {None}, first: Answer \cup {None}]]
  /\ current \subseteq Reader
  /\ store \in [value: Value, at: Stamp, ver: Nat, online: BOOLEAN, healthAt: Stamp]
  /\ told \in [value: Value, online: BOOLEAN]
  /\ evidence \in BOOLEAN

-----------------------------------------------------------------------------
(* The decisions of the store.                                               *)

(* Mutant of IsOlderOrUndated: a report without a timestamp is new. *)
IsOlder(candidate, known) ==
  /\ known # Undated
  /\ candidate # Undated /\ candidate <= known

IsOlderOrUndated(candidate, known) ==
  /\ known # Undated
  /\ candidate = Undated \/ candidate <= known

(* #setState: the store after a reported state. *)
Stored(s, r) ==
  IF IsOlderOrUndated(r.at, s.at) THEN s
  ELSE [value |-> r.value, at |-> r.at, ver |-> r.ver, online |-> s.online,
        healthAt |-> s.healthAt]

(* Accepted at all, be it only with a newer timestamp: the revision moves on. *)
Accepts(s, r) ==
  /\ ~IsOlderOrUndated(r.at, s.at)
  /\ s.value # r.value \/ s.at # r.at

(* #setDeviceHealth. *)
WithHealth(s, online, at) ==
  IF IsOlderOrUndated(at, s.healthAt) THEN s
  ELSE [value |-> s.value, at |-> s.at, ver |-> s.ver, online |-> online, healthAt |-> at]

(* Mutant of Repairable: the driver has to repeat its timestamp. *)
RepairableDated(r, s) ==
  /\ s.at # Undated
  /\ r.value # s.value
  /\ r.at = s.at

(* repairableLightStatus: a different value under no newer timestamp, and    *)
(* under no older one either.                                                *)
Repairable(r, s) ==
  /\ s.at # Undated
  /\ r.value # s.value
  /\ r.at = Undated \/ r.at = s.at

(* Mutant of Snapshot: the health is left out. *)
SnapshotOfState(s) == [value |-> s.value]

(* Listeners that get an inventory event fetch the device. *)
Snapshot(s) == [value |-> s.value, online |-> s.online]

-----------------------------------------------------------------------------
Init ==
  \E v \in Value, at \in {Undated, 1}, healthAt \in {Undated, 1} :
    /\ clock = 1
    /\ device = [value |-> v, at |-> 1, ver |-> 0, online |-> TRUE, onlineAt |-> 1,
                 changes |-> 0]
    /\ pushes = {}
    /\ snapshots = {}
    /\ reader = [r \in Reader |-> [phase |-> "waiting", answer |-> None, first |-> None]]
    /\ current = {}
    /\ store = [value |-> v, at |-> at, ver |-> 0, online |-> TRUE, healthAt |-> healthAt]
    /\ told = [value |-> v, online |-> TRUE]
    /\ evidence = FALSE

(* SmartThings (external): the device's value and health change, each change *)
(* is pushed once, and the status API knows a value under its own timestamp  *)
(* (stamped) or still under the previous one.                                *)

ReportValue(v, stamped) ==
  /\ device.changes < MaxChanges
  /\ device.online
  /\ v # device.value
  /\ clock' = clock + 1
  /\ device' = [value |-> v, ver |-> device.ver + 1, changes |-> device.changes + 1,
                at |-> IF stamped THEN clock + 1 ELSE device.at,
                online |-> device.online, onlineAt |-> device.onlineAt]
  /\ pushes' = pushes \cup
       {[type |-> "state", value |-> v, at |-> clock + 1, ver |-> device.ver + 1]}
  /\ UNCHANGED <<snapshots, reader, current, store, told, evidence>>

ChangeHealth ==
  /\ device.changes < MaxChanges
  /\ clock' = clock + 1
  /\ device' = [value |-> device.value, ver |-> device.ver, changes |-> device.changes + 1,
                at |-> device.at, online |-> ~device.online, onlineAt |-> clock + 1]
  /\ pushes' = pushes \cup {[type |-> "health", online |-> ~device.online, at |-> clock + 1]}
  /\ UNCHANGED <<snapshots, reader, current, store, told, evidence>>

(* What the server knows now, with its timestamp or without. *)
States == [value: {device.value}, at: {device.at, Undated}, ver: {device.ver}]
Healths == [online: {device.online}, at: {device.onlineAt, Undated}]

-----------------------------------------------------------------------------
(* Pushed events. *)

(* #applyDeviceEvent: an accepted state is also a sign of life at its time.  *)
DeliverState(m) ==
  LET new == WithHealth(Stored(store, m), TRUE, m.at)
      value == IF m.value # store.value THEN m.value ELSE told.value
      online == IF store.online THEN told.online ELSE new.online
  IN /\ m.type = "state"
     /\ pushes' = pushes \ {m}
     /\ IF Accepts(store, m)
        THEN /\ store' = new
             /\ current' = {}
             /\ told' = [value |-> value, online |-> online]
        ELSE UNCHANGED <<store, current, told>>
     /\ UNCHANGED <<clock, device, snapshots, reader, evidence>>

(* #applyDeviceHealthEvent. *)
DeliverHealth(m) ==
  /\ m.type = "health"
  /\ pushes' = pushes \ {m}
  /\ store' = WithHealth(store, m.online, m.at)
  /\ told' = IF store'.online # store.online
             THEN [value |-> told.value, online |-> m.online] ELSE told
  /\ UNCHANGED <<clock, device, snapshots, reader, current, evidence>>

-----------------------------------------------------------------------------
(* Snapshots of the web application and of the advanced API. *)

AskSnapshot(q) ==
  /\ Cardinality(snapshots) < MaxSnapshots
  /\ \E state \in IF q = "health" THEN {None} ELSE States,
        health \in IF q = "status" THEN {None} ELSE Healths :
       snapshots' = snapshots \cup {[query |-> q, state |-> state, health |-> health]}
  /\ UNCHANGED <<clock, device, pushes, reader, current, store, told, evidence>>

(* The answer is merged into the store; health is dropped unless taken. *)
Merge(s, takesHealth) ==
  LET healthy == IF takesHealth THEN WithHealth(store, s.health.online, s.health.at) ELSE store
      new == IF s.state # None THEN Stored(healthy, s.state) ELSE healthy
  IN /\ snapshots' = snapshots \ {s}
     /\ store' = new
     /\ current' = IF s.state # None /\ Accepts(healthy, s.state) THEN {} ELSE current
     /\ told' = IF Snapshot(new) # Snapshot(store) THEN Snapshot(new) ELSE told
     /\ UNCHANGED <<clock, device, pushes, reader, evidence>>

(* #applySnapshot. *)
ApplySnapshot(s) ==
  /\ s.query \in {"status", "health"}
  /\ Merge(s, s.health # None)

(* #applyAdvancedDeviceSnapshot takes no offline report without a timestamp. *)
ApplyAdvancedDeviceSnapshot(s) ==
  /\ s.query = "advanced"
  /\ Merge(s, s.health.online \/ s.health.at # Undated)

-----------------------------------------------------------------------------
(* Status reads of commands. *)

(* beginDeviceCommand: a newer command spoils the reads under way. *)
BeginCommand ==
  /\ current # {}
  /\ current' = {}
  /\ UNCHANGED <<clock, device, pushes, snapshots, reader, store, told, evidence>>

(* The captured revision of an offline device is undefined and never valid.  *)
StartRead(r) ==
  /\ reader[r].phase = "waiting"
  /\ reader' = [reader EXCEPT ![r] = [phase |-> "first", answer |-> None, first |-> None]]
  /\ current' = IF store.online THEN current \cup {r} ELSE current
  /\ UNCHANGED <<clock, device, pushes, snapshots, store, told, evidence>>

(* The server answers; the answer is still on its way. *)
ServerAnswers(r) ==
  /\ reader[r].phase \in {"first", "second"}
  /\ reader[r].answer = None
  /\ \E state \in States :
       reader' = [reader EXCEPT ![r] =
                    [phase |-> reader[r].phase, first |-> reader[r].first,
                     answer |-> [value |-> state.value, at |-> state.at, ver |-> state.ver,
                                 healthAt |-> device.onlineAt]]]
  /\ UNCHANGED <<clock, device, pushes, snapshots, current, store, told, evidence>>

(* An answer that arrives is taken as a sign of life of this moment. *)
Arrives(r) ==
  /\ reader[r].answer # None
  /\ clock' = clock + 1
  /\ evidence' = TRUE

Alive == WithHealth(store, TRUE, clock + 1)
ToldAlive == IF store.online THEN told ELSE Snapshot(Alive)

Ends(r) ==
  reader' = [reader EXCEPT ![r] = [phase |-> "done", answer |-> None, first |-> None]]

(* The store s with the value of answer a, under a's timestamp or its own.   *)
Repaired(s, a) ==
  [value |-> a.value, at |-> IF a.at = Undated THEN s.at ELSE a.at, ver |-> a.ver,
   online |-> s.online, healthAt |-> s.healthAt]

(* Mutant of Observe: only what the merge changed is published. *)
ObserveSilently(r, a, s, t, proved) ==
  LET merged == Stored(s, a)
      repaired == proved /\ Repairable(a, merged)
      new == IF repaired THEN Repaired(merged, a) ELSE merged
  IN /\ store' = new
     /\ current' = IF repaired \/ Accepts(s, a) THEN {} ELSE current \ {r}
     /\ told' = IF merged.value = s.value THEN t ELSE Snapshot(new)

(* observeCommandDeviceStatus of answer a, the store being s before it and   *)
(* its listeners knowing t: merge, repair if the proof holds, publish.       *)
Observe(r, a, s, t, proved) ==
  LET merged == Stored(s, a)
      repaired == proved /\ Repairable(a, merged)
      new == IF repaired THEN Repaired(merged, a) ELSE merged
  IN /\ store' = new
     /\ current' = IF repaired \/ Accepts(s, a) THEN {} ELSE current \ {r}
     /\ told' = IF new.value = s.value THEN t
                ELSE IF r \in LightReader THEN [value |-> new.value, online |-> t.online]
                ELSE Snapshot(new)

(* The first answer either needs no corroboration or is kept as one half of  *)
(* it.                                                                       *)
FirstArrives(r) ==
  /\ reader[r].phase = "first"
  /\ Arrives(r)
  /\ IF Repairable(reader[r].answer, Alive)
     THEN /\ reader' = [reader EXCEPT ![r] =
               [phase |-> "second", answer |-> None, first |-> reader[r].answer]]
          /\ store' = Alive
          /\ told' = ToldAlive
          /\ UNCHANGED current
     ELSE /\ Ends(r)
          /\ Observe(r, reader[r].answer, Alive, ToldAlive, FALSE)
  /\ UNCHANGED <<device, pushes, snapshots>>

(* Mutant of Proved: two reads that agree are enough. *)
ProvedByValue(r) ==
  /\ Alive.online
  /\ reader[r].first.value = reader[r].answer.value
  /\ reader[r].first.at = reader[r].answer.at

(* Both reads must say the same, and the device's revision must not have     *)
(* moved since before the first.                                             *)
Proved(r) ==
  /\ r \in current
  /\ Alive.online
  /\ reader[r].first.value = reader[r].answer.value
  /\ reader[r].first.at = reader[r].answer.at

SecondArrives(r) ==
  /\ reader[r].phase = "second"
  /\ Arrives(r)
  /\ Ends(r)
  /\ Observe(r, reader[r].answer, Alive, ToldAlive, Proved(r))
  /\ UNCHANGED <<device, pushes, snapshots>>

(* A first read that fails ends the attempt; without a second one the first  *)
(* is merged like any other report.                                          *)
FirstFails(r) ==
  /\ reader[r].phase = "first"
  /\ Ends(r)
  /\ current' = current \ {r}
  /\ UNCHANGED <<clock, device, pushes, snapshots, store, told, evidence>>

SecondFails(r) ==
  /\ reader[r].phase = "second"
  /\ Ends(r)
  /\ Observe(r, reader[r].first, store, told, FALSE)
  /\ UNCHANGED <<clock, device, pushes, snapshots, evidence>>

-----------------------------------------------------------------------------
Next ==
  \/ \E v \in Value, stamped \in BOOLEAN : ReportValue(v, stamped)
  \/ ChangeHealth
  \/ \E m \in pushes : DeliverState(m) \/ DeliverHealth(m)
  \/ \E q \in Query : AskSnapshot(q)
  \/ \E s \in snapshots : ApplySnapshot(s) \/ ApplyAdvancedDeviceSnapshot(s)
  \/ BeginCommand
  \/ \E r \in Reader : \/ StartRead(r) \/ ServerAnswers(r)
                       \/ FirstArrives(r) \/ SecondArrives(r)
                       \/ FirstFails(r) \/ SecondFails(r)

Spec == Init /\ [][Next]_vars

-----------------------------------------------------------------------------
(* Properties. *)

(* A repair never puts back a value the device had before the one the store  *)
(* holds: whatever the store learns between the two reads, from events,      *)
(* snapshots or other reads, spoils the proof.                               *)
Repairs(r) ==
  /\ SecondArrives(r)
  /\ store.at # Undated
  /\ store'.at = store.at
  /\ store'.value # store.value

RepairIsNewer == [][\A r \in Reader : Repairs(r) => store'.ver > store.ver]_vars

(* When a light status is read, the device does not change between the first *)
(* read and the end, and the bridge hears nothing else and begins no command *)
(* meanwhile, then the store ends with the device's value - unless the       *)
(* driver's timestamp is older than what the store already holds.            *)
Undisturbed(r) ==
  /\ r \in current
  /\ reader[r].answer # None
  /\ reader[r].answer.ver = device.ver
  /\ reader[r].phase = "second" => reader[r].first.ver = device.ver
  /\ reader[r].phase = "second" => reader[r].first.at = reader[r].answer.at
  /\ reader[r].answer.at = Undated \/ reader[r].answer.at >= store.at

UndisturbedReadIsTrue ==
  [][\A r \in Reader :
       Undisturbed(r) /\ (FirstArrives(r) \/ SecondArrives(r)) /\ reader'[r].phase = "done"
         => store'.value = device.value]_vars

(* When every event has arrived, the store has the device's value whatever   *)
(* order they came in and whatever snapshots and reads came between; so it   *)
(* has its health, if no read posed as a sign of life.                       *)
DeliveredIsCurrent ==
  pushes = {} =>
    /\ store.value = device.value
    /\ ~evidence => store.online = device.online

(* What the listeners were told is what the store holds: no path changes the *)
(* value or the health of a device silently.                                 *)
ToldIsStored == told = Snapshot(store)

(* A device that is known to be offline since after the server answered a    *)
(* read is not brought back online by that read.                             *)
OfflineIsAuthoritative ==
  [][\A r \in Reader :
       /\ FirstArrives(r) \/ SecondArrives(r)
       /\ ~store.online
       /\ reader[r].answer.healthAt < store.healthAt
       => ~store'.online]_vars

(* What the store holds and its listeners were told is the device's, once    *)
(* every event has arrived.                                                  *)
StoreIsTrue == TypeOK /\ DeliveredIsCurrent /\ ToldIsStored

(* What a status read changes in the store is newer, and true if nothing     *)
(* disturbed it.                                                             *)
ReadsAreRight == RepairIsNewer /\ UndisturbedReadIsTrue
=============================================================================
