------------------------------- MODULE Arming -------------------------------
(* The two ways in which a location is armed: by the service's own requests  *)
(* (LocationSecurity), and in the browser by the Home Monitor page           *)
(* (HomeMonitor).  One location security command is executed at a time       *)
(* (CommandLanes) and takes one way, so a behaviour follows one of the two   *)
(* while the other rests in an initial state.                                *)
EXTENDS LocationSecurity

CONSTANTS
  Armed,     \* the armed modes of the page
  DISARMED

(* From one armed mode to another the page goes through DISARMED.            *)
ASSUME ArmingAssumption == DISARMED \notin Armed

VARIABLES
  part,  \* which of them is followed
  modes, events, known, shown, flight, wanted, stage, card, expected, wait,
  transition, clicks, unsure, since, from, stale, told

monitorVars == <<modes, events, known, shown, flight, wanted, stage, card, expected, wait,
                 transition, clicks, unsure, since, from, stale, told>>

Home == INSTANCE HomeMonitor WITH
  history <- modes, mail <- events, store <- known, desired <- wanted, page <- card,
  late <- stale, outcome <- told

-----------------------------------------------------------------------------
WorldInit ==
  /\ part \in {"requests", "page"}
  /\ \/ part = "requests"
     \/ part = "page" /\ history \in [1..1 -> Mode]
  /\ Init
  /\ part = "requests" \/ store.at = 0
  /\ \/ part = "page"
     \/ part = "requests" /\ modes = <<DISARMED>> /\ wanted = DISARMED
  /\ Home!Init

WorldNext ==
  \/ part = "requests" /\ Next /\ UNCHANGED <<part, monitorVars>>
  \/ part = "page" /\ Home!Next /\ UNCHANGED <<part, vars>>

WorldSpec == WorldInit /\ [][WorldNext]_<<part, vars, monitorVars>>

-----------------------------------------------------------------------------
\* On the Home Monitor page, too, one click does it, a partial change is told, and what is
\* confirmed is real (HomeMonitor).
MonitorIsSafe == Home!MonitorIsSafe
=============================================================================
