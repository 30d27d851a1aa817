-------------------------- MODULE EntityRegistry --------------------------
(***************************************************************************)
(* The integration's entities (custom_components/smartthings_web): what each *)
(* platform discovers from the inventory, and _migrate_entity_registry, which *)
(* removes from Home Assistant's registry the rows of earlier builds and of   *)
(* earlier evidence.  Evidence about a device arrives over time, in any       *)
(* order, while both run.                                                    *)
(*                                                                         *)
(* One device of the entry's location is modelled.  A row is known by its      *)
(* domain and unique ID; entity IDs, names and restore hints, which the         *)
(* migration also repairs, are left out: no row comes or goes by them.         *)
(***************************************************************************)
EXTENDS Naturals, FiniteSets

CONSTANTS
  Evidence,    \* what the Bridge may tell of the device
  Legacy,      \* the sets of rows that earlier builds may have left
  MaxChanges,  \* bound: changes of the inventory
  None

\* A device's states (an attribute each), those with a value, whether that of the
\* level is a number, its controls, its catalog commands, and its type.
Attributes == {"switch", "level", "colorTemperature", "volume", "mute", "playbackStatus", "fanMode",
               "mode", "occupancy", "button", "firmware", "image", "thermostatMode",
               "coolingSetpoint", "battery", "contact"}
Controls == {"toggle", "slider", "bounded slider", "options", "refresh"}
Shape == [states : SUBSET Attributes, valued : SUBSET Attributes, numeric : BOOLEAN,
           controls : SUBSET Controls, commands : SUBSET {"setLevel", "other"},
           type : {"plain", "tv", "fan", "washer"}]
WellFormed(d) == d \in Shape /\ d.valued \subseteq d.states

Row(domain, uid) == [domain |-> domain, uid |-> uid]

VARIABLES
  device,     \* the inventory's device, None when the Bridge has deleted it
  ready,      \* the inventory is complete and current
  location,   \* the inventory has the entry's location
  loaded,     \* the entry is set up
  rows,       \* the registry's rows of the entry
  named,      \* those the user has named
  live,       \* the entities that run
  known,      \* the unique IDs a platform has discovered since the entry was set up
  notified,   \* the listeners are to run: their delay of 50 ms is on
  topology,   \* last_topology
  scheduled,  \* run_migration is queued in the loop
  settling,   \* the retry after 15 s is on
  unseen,     \* history: since the last topology something changed of which no listener is told
              \* (a value went away by a push, the level became or ceased to be a number), or
              \* the migration ran on an inventory which no listener had been told of yet
  changes

inventory == <<device, ready, location>>
vars == <<inventory, loaded, rows, named, live, known, notified, topology, scheduled, settling,
          unseen, changes>>

-----------------------------------------------------------------------------
\* What the device is (models.py).

\* is_media_device, is_fan_device, is_image_device, is_climate_device.
IsMedia(d) == {"volume", "mute"} \subseteq d.states /\ (d.type = "tv" \/ "playbackStatus" \in d.states)
IsFan(d) == "fanMode" \in d.states \/ ("level" \in d.states /\ d.type = "fan")
IsImage(d) == "image" \in d.states
IsClimate(d) == {"thermostatMode", "coolingSetpoint"} \subseteq d.states

\* is_readonly_appliance_switch.
ReadOnly(d) == d.type = "washer"

\* light_scalar_control: the level can be set.
Dimmable(d) == "level" \in d.states /\ ("setLevel" \in d.commands \/ "slider" \in d.controls)

\* control_kind of the switch state.
ControlKind(d) ==
  IF "switch" \notin d.states \/ "toggle" \notin d.controls \/ IsMedia(d) \/ IsFan(d) \/ ReadOnly(d)
  THEN "none"
  ELSE IF "colorTemperature" \in d.states \/ Dimmable(d) THEN "light" ELSE "switch"

\* number_controls: a slider for the level, with bounds or with a number to show, that
\* is not the light's.
HasNumber(d) ==
  /\ "slider" \in d.controls
  /\ "bounded slider" \in d.controls \/ ("level" \in d.states /\ d.numeric)
  /\ ControlKind(d) # "light"

HasFirmware(d) == "firmware" \in d.valued

\* sensor_state_owned_by_primary_domain.
Owned(d, a) ==
  \/ IsMedia(d) /\ a \in {"volume", "mute", "playbackStatus"}
  \/ IsFan(d) /\ a \in {"fanMode", "level"}
  \/ IsClimate(d) /\ a \in {"thermostatMode", "coolingSetpoint"}
  \/ HasNumber(d) /\ a = "level"
  \/ "options" \in d.controls /\ a = "mode"
  \/ ControlKind(d) = "light" /\ a \in {"level", "colorTemperature"}

\* sensor_state_allowed, whoever owns the state.
Binary == {"contact", "occupancy", "switch"}
Allowed(d, a) == a \notin Binary \cup {"button", "image", "firmware"}

-----------------------------------------------------------------------------
\* What the platforms discover.

\* sensor.py
Sensors(d) == {Row("sensor", a) : a \in {b \in d.valued : Allowed(d, b) /\ ~Owned(d, b)}}

If(condition, domain, uid) == IF condition THEN {Row(domain, uid)} ELSE {}

\* binary_sensor.py: the power of an appliance that cannot be switched is a sensor; who is
\* there has an entity of its own, whose unique ID is not the state's.
BinarySensors(d) ==
  If("contact" \in d.states, "binary_sensor", "contact")
    \cup If("occupancy" \in d.states, "binary_sensor", "occupancy source")
    \cup If(ReadOnly(d) /\ "switch" \in d.states, "binary_sensor", "switch")

\* select.py, number.py, button.py: observed controls, and catalog commands.
Selects(d) == If("options" \in d.controls, "select", "select options")
Numbers(d) ==
  If(HasNumber(d), "number", IF "level" \in d.states THEN "level" ELSE "number slider")
Buttons(d) ==
  If("refresh" \in d.controls, "button", "button refresh")
    \cup If("other" \in d.commands, "button", "command")

\* switch.py, light.py, fan.py, media_player.py, image.py, update.py, climate.py, event.py.
Discovered(d) ==
  Sensors(d) \cup BinarySensors(d) \cup Selects(d) \cup Numbers(d) \cup Buttons(d)
    \cup If(ControlKind(d) = "switch", "switch", "switch")
    \cup If(ControlKind(d) = "light", "light", "switch")
    \cup If(IsFan(d), "fan", "fan")
    \cup If(IsMedia(d), "media_player", "media_player")
    \cup If(IsImage(d), "image", "image")
    \cup If(HasFirmware(d), "update", "firmware_update")
    \cup If(IsClimate(d), "climate", "climate")
    \cup If("button" \in d.states, "event", "button")

-----------------------------------------------------------------------------
\* What the migration removes and renames.

ExpectedControls(d) ==
  (IF "refresh" \in d.controls THEN {"button refresh"} ELSE {})
    \cup (IF HasNumber(d) THEN {"number slider"} ELSE {})

ExpectedDevices(d) ==
  (IF IsFan(d) THEN {"fan"} ELSE {}) \cup (IF IsMedia(d) THEN {"media_player"} ELSE {})
    \cup (IF IsImage(d) THEN {"image"} ELSE {})
    \cup (IF HasFirmware(d) THEN {"firmware_update"} ELSE {})

\* Expected that leaves the observed controls out.
ExpectedWithoutControls(d) == d.states \cup {"refresh"} \cup ExpectedDevices(d)

\* The unique IDs "the current inventory can produce" (expected_uids).
Expected(d) == d.states \cup {"refresh"} \cup ExpectedControls(d) \cup ExpectedDevices(d)

\* old_to_new: the ID of a switch that repeated its attribute, and that of a slider which
\* mirrors a state.
OldToNew(d) ==
  [u \in (IF "switch" \in d.states THEN {"old switch"} ELSE {})
         \cup (IF HasNumber(d) /\ "level" \in d.states THEN {"number slider"} ELSE {})
     |-> IF u = "old switch" THEN "switch" ELSE "level"]

Exempt == {"fan", "media_player", "image", "firmware_update", "refresh", "climate", "number slider"}

\* stale_duplicate_rows.
Duplicates(d, rs) ==
  {r \in rs \ named : r.uid \notin Expected(d) \cup DOMAIN OldToNew(d) \cup Exempt}

\* Sensors of a state that is not shown as one, that a richer entity shows, or that has no
\* value yet.
StaleSensors(d, rs) ==
  {r \in rs : /\ r.domain = "sensor" /\ r.uid \in d.states
              /\ \/ r.uid \in {"firmware", "button"} \/ Owned(d, r.uid)
                 \/ r.uid \notin d.valued /\ Allowed(d, r.uid)}

StaleSwitches(d, rs) ==
  {r \in rs : /\ r.domain = "switch" /\ "switch" \in d.states
              /\ \/ r.uid = "switch" /\ ControlKind(d) = "none"
                 \/ r.uid \in {"switch", "old switch"} /\ (IsMedia(d) \/ IsFan(d))}

StaleNumbers(d, rs) ==
  {r \in rs : /\ r.domain = "number" /\ r.uid \notin DOMAIN OldToNew(d)
              /\ r \notin Numbers(d)}

\* Rows of a class the device is not, or no longer.
StaleClasses(d, rs) ==
  {r \in rs : \/ r.domain = "update" /\ "firmware" \in d.states /\ ~HasFirmware(d)
              \/ r.domain = "button" /\ r.uid = "refresh"
              \/ r.domain = "binary_sensor" /\ "switch" \in d.states
                   /\ r.uid \in {"switch", "old switch"}
              \/ r.domain = "fan" /\ ~IsFan(d)
              \/ r.domain = "media_player" /\ ~IsMedia(d)
              \/ r.domain \in {"image", "sensor"} /\ r.uid = "image" /\ ~IsImage(d)}


Stale(d, rs) ==
  StaleSensors(d, rs) \cup StaleSwitches(d, rs) \cup StaleNumbers(d, rs) \cup StaleClasses(d, rs)

\* A row whose ID is an old one takes the new one, unless another has it already.
Renamed(d, rs) ==
  {IF r.uid \in DOMAIN OldToNew(d) /\ Row(r.domain, OldToNew(d)[r.uid]) \notin rs
   THEN Row(r.domain, OldToNew(d)[r.uid]) ELSE r : r \in rs}

\* A slider's row beside that of the state it mirrors.
Doubled(d, rs) ==
  {r \in rs : /\ r.domain = "number" /\ r.uid \in DOMAIN OldToNew(d)
              /\ Row("number", OldToNew(d)[r.uid]) \in rs}

\* remove_registry_entity whatever the inventory is.
MayRemoveAlways == TRUE

\* remove_registry_entity.
MayRemove == ready

\* _migrate_entity_registry of the rows rs.  A device the Bridge has deleted loses its
\* card and its rows, unless the Bridge has lost the whole location.
Migrated(rs) ==
  IF device = None THEN (IF ready /\ location THEN {} ELSE rs)
  ELSE IF ~MayRemove THEN Renamed(device, rs)
  ELSE LET kept == (rs \ Duplicates(device, rs)) IN
       LET left == kept \ (Stale(device, kept) \cup Doubled(device, kept)) IN
       Renamed(device, left)

-----------------------------------------------------------------------------
Seen(field, none) == IF device = None THEN none ELSE device[field]

\* Topology that says nothing of readiness.
TopologyOnly ==
  <<device = None, Seen("states", {}), Seen("valued", {}), Seen("controls", {}), Seen("type", "")>>

\* _entity_registry_topology_fingerprint; its rooms, names and labels are left out.
Topology ==
  <<ready, device = None, Seen("states", {}), Seen("valued", {}), Seen("controls", {}),
    Seen("type", "")>>

\* _inventory_discovery_payload: the catalog commands too.
Payload == <<Topology, location, Seen("commands", {})>>

TypeOK ==
  /\ device = None \/ (device \in Evidence /\ WellFormed(device))
  /\ ready \in BOOLEAN /\ location \in BOOLEAN
  /\ loaded \in BOOLEAN /\ named \subseteq rows /\ live \subseteq rows
  /\ notified \in BOOLEAN /\ scheduled \in BOOLEAN /\ settling \in BOOLEAN
  /\ unseen \in BOOLEAN /\ changes \in 0..MaxChanges

Init ==
  /\ device \in Evidence /\ ready \in BOOLEAN /\ location = TRUE /\ loaded = FALSE
  /\ rows \in Legacy /\ named = {} /\ live = {} /\ known = {}
  /\ notified = FALSE /\ topology = None /\ scheduled = FALSE /\ settling = FALSE
  /\ unseen = FALSE /\ changes = 0

\* schedule_settled_migrations: a new topology is migrated at once, and once more after
\* 15 s; the retry of an earlier one is cancelled.
ScheduleSettled ==
  IF Topology = topology THEN UNCHANGED <<topology, scheduled, settling, unseen>>
  ELSE topology' = Topology /\ scheduled' = TRUE /\ settling' = TRUE /\ unseen' = FALSE

\* Every platform's discover, with what it knows; async_add_entities takes the row that is
\* there, or makes one.
Discover(rs, alive, known0) ==
  LET new == IF device = None THEN {} ELSE Discovered(device) \ known0 IN
  /\ rows' = rs \cup new /\ live' = alive \cup new /\ known' = known0 \cup new

\* Rows go with their entities; a renamed row keeps its name and its entity.
Follow(rs, set) ==
  {r \in rs : r \in set \/ \E s \in set : /\ device # None /\ s \notin rs /\ s.domain = r.domain
                                          /\ s.uid \in DOMAIN OldToNew(device)
                                          /\ OldToNew(device)[s.uid] = r.uid}

\* async_setup_entry.
SetUp ==
  /\ ~loaded /\ location /\ (ready \/ device # None)
  /\ loaded' = TRUE
  /\ Discover(Migrated(rows), {}, {})
  /\ named' = Follow(Migrated(rows), named)
  /\ topology' = Topology /\ scheduled' = TRUE /\ settling' = TRUE /\ unseen' = FALSE
  /\ notified' = FALSE
  /\ UNCHANGED <<inventory, changes>>

\* run_migration.
Migrate ==
  /\ loaded /\ scheduled /\ scheduled' = FALSE
  /\ rows' = Migrated(rows)
  /\ named' = Follow(rows', named) /\ live' = Follow(rows', live)
  /\ unseen' = (unseen \/ Topology # topology)
  /\ UNCHANGED <<inventory, loaded, known, notified, topology, settling, changes>>

\* The retry after 15 s, which run_migration, queued for the next turn of the loop, does
\* not outlast.
Settle ==
  /\ loaded /\ settling /\ ~scheduled /\ settling' = FALSE /\ scheduled' = TRUE
  /\ UNCHANGED <<inventory, loaded, rows, named, live, known, notified, topology, unseen, changes>>

\* _flush_pending_listeners: register_devices, the platforms and the migration's own.  Those
\* of a button's event are told at once, even while run_migration is queued.
Flush ==
  /\ loaded /\ notified /\ notified' = FALSE
  /\ Discover(rows, live, known)
  /\ ScheduleSettled
  /\ UNCHANGED <<inventory, loaded, named, changes>>

\* _notify_listeners, those of the whole inventory.
NotifyListeners(notify_global) == notified' = (notified \/ (loaded /\ notify_global))

\* Changes are numbered (bound: MaxChanges).
Changed == changes < MaxChanges /\ changes' = changes + 1

\* apply_inventory: an inventory that says no more of devices than the one before tells nobody.
Notify == Changed /\ NotifyListeners(Payload' # Payload)

\* number_controls looks at whether the level's value is a number, which no listener is told.
NumberSilently(d) == d # None /\ device # None /\ d.numeric # device.numeric

\* An inventory tells something else of the device, deletes it, or has it again.  What kind of
\* appliance it is may become known later.
DeviceChanges(d) ==
  /\ d # device /\ location
  /\ d # None /\ device # None => device.type \in {"plain", d.type}
  /\ device' = d /\ UNCHANGED <<ready, location>>
  /\ unseen' = (unseen \/ NumberSilently(d))
  /\ Notify
  /\ UNCHANGED <<loaded, rows, named, live, known, topology, scheduled, settling>>

\* d is what the device is after a push of its state a.
DiffersIn(a, d) ==
  /\ d.states = device.states \cup {a} /\ d.valued \ {a} = device.valued \ {a}
  /\ d.numeric # device.numeric => a = "level"
  /\ <<d.controls, d.commands, d.type>> = <<device.controls, device.commands, device.type>>

\* DEVICE_REGISTRY_ATTRIBUTES: one of the two states that "firmware" stands for, and none of
\* the others.
RegistryAttribute(a) == IF a = "firmware" THEN BOOLEAN ELSE {FALSE}

\* NotifyGlobal that tells of new states only.
NewStatesOnly(a, d, registry) == a \notin device.states \/ registry

\* apply_state's notify_global: a state that is new, a value that became available, or an
\* attribute of the device registry.  A value that went away is none of them.
NotifyGlobal(a, d, registry) ==
  a \notin device.states \/ (a \notin device.valued /\ a \in d.valued) \/ registry

\* apply_state: the Bridge pushes one state of the device.
StatePushed(a, d) ==
  /\ device # None /\ d # device /\ DiffersIn(a, d)
  /\ device' = d /\ UNCHANGED <<ready, location>>
  /\ \E registry \in RegistryAttribute(a) :
       /\ NotifyListeners(NotifyGlobal(a, d, registry))
       /\ unseen' = (unseen \/ NumberSilently(d)
                        \/ (a \in device.valued /\ a \notin d.valued /\ ~registry))
  /\ Changed
  /\ UNCHANGED <<loaded, rows, named, live, known, topology, scheduled, settling>>

ReadyChanges ==
  /\ ready' = ~ready /\ UNCHANGED <<device, location>> /\ Notify
  /\ UNCHANGED <<loaded, rows, named, live, known, topology, scheduled, settling, unseen>>

\* The Bridge has been reset, or signed in to another account, and later back.
LocationGoes ==
  /\ location /\ location' = FALSE /\ device' = None /\ UNCHANGED ready /\ Notify
  /\ UNCHANGED <<loaded, rows, named, live, known, topology, scheduled, settling, unseen>>

LocationReturns(d) ==
  /\ ~location /\ location' = TRUE /\ device' = d /\ UNCHANGED ready /\ Notify
  /\ UNCHANGED <<loaded, rows, named, live, known, topology, scheduled, settling, unseen>>

\* The user names an entity (bound: one).
UserNames(r) ==
  /\ named = {} /\ r \in live /\ named' = named \cup {r}
  /\ UNCHANGED <<inventory, loaded, rows, live, known, notified, topology, scheduled, settling,
                 unseen, changes>>

\* async_unload_entry, or Home Assistant stops.
Unload ==
  /\ loaded /\ loaded' = FALSE /\ live' = {} /\ known' = {}
  /\ notified' = FALSE /\ scheduled' = FALSE /\ settling' = FALSE /\ topology' = None
  /\ UNCHANGED <<inventory, rows, named, unseen, changes>>

Next ==
  \/ SetUp \/ Migrate \/ Settle \/ Flush
  \/ \E d \in Evidence \cup {None} : DeviceChanges(d)
  \/ \E a \in Attributes, d \in Evidence : StatePushed(a, d)
  \/ ReadyChanges \/ LocationGoes
  \/ \E d \in Evidence : LocationReturns(d)
  \/ \E r \in live : UserNames(r)
  \/ Unload

Spec == Init /\ [][Next]_vars

-----------------------------------------------------------------------------
Settled == loaded /\ ready /\ ~notified /\ ~scheduled /\ ~settling /\ ~unseen

\* When nothing is left to run, another migration would change nothing, and every entity the
\* inventory calls for has been discovered by its platform: whatever the order
\* in which evidence, discovery, readiness and the migration came, no change of the
\* inventory that the listeners are told of has been missed (apply_inventory, apply_state,
\* schedule_settled_migrations).
NothingMissed ==
  Settled => Migrated(rows) = rows /\ (device # None => Discovered(device) \subseteq known)

\* The same of every change, told or not: the sensor of a value that a push took away keeps its
\* row until something else changes the topology.
NothingMissedEver ==
  loaded /\ ready /\ ~notified /\ ~scheduled /\ ~settling => Migrated(rows) = rows

\* Then one state has one entity, apart from a switch that was found to be a light (the
\* comment at __init__.py:657, "a single device keeps a single card").
OneEntityPerState ==
  Settled /\ device # None => \A r, s \in rows : r.uid = s.uid => r = s \/ {r.domain, s.domain} = {"switch", "light"}

\* The same of a switch that was found to be a light.
OneEntityPerStateEver == Settled /\ device # None => \A r, s \in rows : r.uid = s.uid => r = s

\* What the platforms make and the migration removes all the same: rows whose unique ID it does
\* not expect, and the power of an appliance that cannot be switched, which goes as one of the
\* "binary switch artifacts" of earlier builds (switch_ids) although its ID is expected.
Forgotten == {Row("select", "select options"), Row("binary_sensor", "occupancy source"),
              Row("button", "command"), Row("binary_sensor", "switch")}

\* At rest every entity that the inventory calls for runs, but those: a platform's known never
\* forgets, so what the migration removed while its evidence was gone is not made again when the
\* evidence is back, before the entry is set up again.
EntitiesComeBack == Settled /\ device # None => Discovered(device) \ Forgotten \subseteq live

\* A row goes only while the inventory is complete and current and has the entry's location,
\* so that a Bridge that was reset, or still shows what it has cached, costs nobody an entity
\* (remove_registry_entity, _remove_orphan_bridge_device_cards); and an entity that runs does
\* not go while the inventory shows what it was made from.
RemovalsAreDue ==
  [][/\ Cardinality(rows') < Cardinality(rows) => ready /\ location
     /\ loaded /\ loaded' /\ device # None =>
          (live \ live') \cap Discovered(device) \subseteq Forgotten]_vars

\* No entity that runs goes as a stale duplicate while the inventory shows what it was made
\* from: of what the inventory produces, only rows whose unique ID the migration expects may
\* go, by the rules that name them ("Every unique_id the current inventory can produce for its
\* devices; rows that no longer match ... are stale and are removed", __init__.py:655).
EntitiesStay ==
  [][loaded /\ loaded' /\ device # None =>
       \A r \in (live \ live') \cap Discovered(device) : r.uid \in Expected(device)]_vars

\* At rest the registry is what the inventory calls for.
RegistryIsRight == TypeOK /\ NothingMissed /\ OneEntityPerState
=============================================================================
