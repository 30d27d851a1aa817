--------------------------- MODULE MCInventory ------------------------------
(* What there is, and whether the bridge may believe it: which devices, and  *)
(* where (DevicePresence), which entities Home Assistant makes of a device   *)
(* (EntityRegistry), whether SmartThings speaks the protocol the bridge was  *)
(* built for (ProtocolGuard), and what a person's probe shows of its events  *)
(* (ActionProbe).  None of them waits for another: what one asks of another  *)
(* is free in both.  A behaviour follows one of them while the others rest   *)
(* in an initial state; the disk (InventoryPersistence) has a run of its own.*)
EXTENDS Inventory, Sequences

CONSTANTS l1, l2, r1

VARIABLES
  part,  \* which of them is followed
  device, ready, location, loaded, rows, named, live, known, notified, topology, scheduled,
  settling, unseen, changes,
  file, diag, process, build, mem, asking, counted, observed, guard, status, asked, real, truth,
  mishaps,
  ticks, window, journal, runtime, first, gone, heard, spoilt, troubles

registryVars == <<device, ready, location, loaded, rows, named, live, known, notified,
                  topology, scheduled, settling, unseen, changes>>
guardVars == <<file, diag, process, build, mem, asking, counted, observed, guard, status,
               asked, real, truth, mishaps>>
probing == <<ticks, window, journal, runtime, first, gone, heard, spoilt, troubles>>

-----------------------------------------------------------------------------
\* Two devices on two pages, two locations, one of them with a room.  The first device stays
\* where it was; the second was added, moved, removed or left alone while the bridge was down.
MCLocation == {l1, l2}
MCRoomIn == [r \in {r1} |-> l1]

InRoom == [location |-> l1, room |-> r1]
Elsewhere == [location |-> l2, room |-> None]

MCAccounts == {<<InRoom>>, <<InRoom, Elsewhere>>}
MCSaves == {<<InRoom>>, <<InRoom, InRoom>>, <<>>}

-----------------------------------------------------------------------------
\* A device whose evidence grows and changes: a plain sensor that turns out to be a switch,
\* then a light; a slider; a television; a fan; an appliance; one with options and people.
D(has, valued, numeric, shown, catalogued, type) ==
  [states |-> has, valued |-> valued, numeric |-> numeric, controls |-> shown,
   commands |-> catalogued, type |-> type]

MCEvidence ==
  {D({"switch", "battery"}, {"switch"}, FALSE, {"toggle"}, {}, "plain"),
   D({"switch", "level", "battery"}, {"switch", "level", "battery"}, TRUE, {"toggle"},
           {"setLevel"}, "plain"),
   D({"switch", "level", "battery"}, {"switch", "level"}, TRUE, {"toggle"}, {"setLevel"}, "plain"),
   D({"level", "button", "firmware"}, {"level", "firmware"}, FALSE, {"slider", "refresh"}, {},
           "plain"),
   D({"level", "button", "firmware"}, {"level"}, FALSE, {"slider", "refresh"}, {}, "plain"),
   D({"level", "button", "firmware"}, {"level"}, TRUE, {"slider", "refresh", "bounded slider"},
           {}, "plain"),
   D({"switch", "volume", "mute", "playbackStatus"}, {"switch", "volume"}, FALSE, {"toggle"}, {},
           "plain"),
   D({"switch", "fanMode", "image"}, {"switch", "fanMode"}, FALSE, {"toggle"}, {}, "plain"),
   D({"switch", "contact"}, {"switch"}, FALSE, {}, {}, "washer"),
   D({"mode", "occupancy"}, {"mode"}, FALSE, {"options"}, {"other"}, "plain")}

Row(domain, uid) == [domain |-> domain, uid |-> uid]

\* None, and all four.
Switches == {Row("binary_sensor", "switch"), Row("switch", "old switch")}
Others == {Row("number", "number slider"), Row("sensor", "gone")}

MCLegacy == {{}, Switches \cup Others}

Registry == INSTANCE EntityRegistry WITH
  Evidence <- MCEvidence, Legacy <- MCLegacy, MaxChanges <- 2

\* The registry's rows are removed only when that is due.
RemovalsAreDue == Registry!RemovalsAreDue

-----------------------------------------------------------------------------
\* A build for each of two contracts; the detector holds one of the two requests that are
\* unanswered, and one thing goes wrong after what an older release has left.
Guard == INSTANCE ProtocolGuard WITH
  Category <- {"device_cards", "rooms"}, Connection <- {"socket"},
  Release <- {[version |-> 6, fingerprint |-> "six"],
              [version |-> 7, fingerprint |-> "seven"]},
  MaxPending <- 1, MaxSent <- 2, MaxMishaps <- 1, pending <- asking

\* Two of three events fill the window, and the deduplicator forgets after two ticks.
Probe == INSTANCE ActionProbe WITH
  Event <- {"open1", "open2", "open3"},
  Matching <- [contact_open |-> {"open1", "open2", "open3"}, contact_close |-> {}],
  MaxWindow <- 1, MaxCandidates <- 2, Ttl <- 2, MaxEntries <- 2, MaxTime <- 3,
  MaxMishaps <- 1, clock <- ticks, mishaps <- troubles

\* The bridge serves exactly the protocol it has been shown, and lifts a block only for the
\* reason there is for it.
ProtocolIsGuarded ==
  /\ Guard!LiftedRightly
  /\ [](part = "guard" => Guard!GuardIsSound)

\* A probe tells what its window brought, and its verdict stands.
ProbeIsHonest ==
  /\ Probe!VerdictStands
  /\ [](part = "probe" => Probe!ProbeTypeOK /\ Probe!VerdictIsTrue)

\* What is reported of the protocol, and of a person's action, is so.
ReportsAreEarned == ProtocolIsGuarded /\ ProbeIsHonest

-----------------------------------------------------------------------------
WorldInit ==
  /\ part \in {"presence", "registry", "guard", "probe"}
  /\ Init
  /\ Presence!Init
  /\ part = "presence" \/ (account = <<InRoom>> /\ DOMAIN store = {})
  /\ \/ part = "registry"
     \/ part # "registry" /\ device = (CHOOSE d \in MCEvidence : TRUE) /\ ready = FALSE
                          /\ rows = {}
  /\ Registry!Init
  /\ \/ part = "guard" /\ Guard!Init
     \/ /\ part # "guard"
        /\ file = None /\ diag = None /\ process = None /\ build = None /\ mem = None
        /\ asking = None /\ counted = None /\ observed = None /\ guard = None
        /\ status = None /\ asked = None /\ real = None /\ truth = None /\ mishaps = None
  /\ Probe!ProbeInit

WorldNext ==
  /\ \/ part = "presence" /\ Presence!Next /\ UNCHANGED <<registryVars, guardVars, probing>>
     \/ part = "registry" /\ Registry!Next /\ UNCHANGED <<presenceVars, guardVars, probing>>
     \/ part = "guard" /\ Guard!Next /\ UNCHANGED <<presenceVars, registryVars, probing>>
     \/ part = "probe" /\ Probe!ProbeNext /\ UNCHANGED <<presenceVars, registryVars, guardVars>>
  /\ UNCHANGED <<part, vars>>

WorldSpec ==
  WorldInit /\ [][WorldNext]_<<part, vars, presenceVars, registryVars, guardVars, probing>>

-----------------------------------------------------------------------------
=============================================================================
