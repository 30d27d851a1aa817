------------------------------ MODULE Operation ------------------------------
(***************************************************************************)
(* What goes on for days: the bridge keeps its SmartThings session in a tab *)
(* (KeeperPages) of a browser that is restarted when it breaks              *)
(* (BrowserRecovery), a soak of the bridge is observed (SoakRun), and a      *)
(* candidate of the add-on is deployed and taken back (CandidateDeployment). *)
(*                                                                         *)
(* The tools are programs of their own.  The tabs are those of one browser;  *)
(* a browser that died leaves none, and its successor begins like the first. *)
(* So the four share no state, and a behaviour follows one of them while the *)
(* others rest in an initial state.                                          *)
(***************************************************************************)
EXTENDS KeeperPages

CONSTANTS
  Ctx, MaxRestarts, MaxFaults, MaxChanges,
  Collector, Duration, Interval, Tolerance, MaxInterval, OldAge, MaxTime, MaxTroubles,
  MaxRuns, MaxDeployMishaps

VARIABLES
  part,  \* which of them is followed
  open, current, adopted, restart, retry, state, authed, maint, recon, watch, rt, socket,
  cloud, known, faults,
  signedIn, occupied,  \* session and busy, as BrowserRecovery sees them
  now, bridge, restarts, troubles, lock, proc, run, log, torn, summary,
  at, options, result, leave, gate, tree, uploads, staged, backup, source, store, image,
  byHand, healthy, touched, late, runs, deployMishaps

Recovery == INSTANCE BrowserRecovery WITH session <- signedIn, busy <- occupied

\* Collectors are started one at a time.
Soak == INSTANCE SoakRun WITH Alone <- TRUE

Deploy == INSTANCE CandidateDeployment WITH
  MaxMishaps <- MaxDeployMishaps, mishaps <- deployMishaps

ASSUME RecoveryAssumption ==
  /\ IsFiniteSet(Ctx) /\ None \notin Ctx
  /\ {MaxRestarts, MaxFaults, MaxChanges} \subseteq Nat

ASSUME SoakAssumption ==
  /\ {Duration, Interval, Tolerance, OldAge, MaxTime, MaxTroubles} \subseteq Nat
  /\ None \notin Soak!Observation

ASSUME DeploymentAssumption ==
  /\ {MaxRuns, MaxDeployMishaps} \subseteq Nat
  /\ None \notin Deploy!Facts \cup Deploy!Content

-----------------------------------------------------------------------------
\* The tabs that a bridge finds when it is not they that are followed.
TabsRest == session /\ url = [p \in Page |-> "closed"]
BrowserRests == signedIn
HostRests == gate /\ tree /\ source = "pinned"

WorldInit ==
  /\ part \in {"keeper", "recovery", "soak", "deployment"}
  /\ Init /\ (part = "keeper" \/ TabsRest)
  /\ Recovery!Init /\ (part = "recovery" \/ BrowserRests)
  /\ Soak!Init
  /\ Deploy!Init /\ (part = "deployment" \/ HostRests)

browserVars == <<open, current, adopted, restart, retry, state, authed, maint, recon, watch,
                 rt, socket, cloud, known, faults, signedIn, occupied>>
soakVars == <<now, bridge, restarts, troubles, lock, proc, run, log, torn, summary>>
deployVars == <<at, options, result, leave, gate, tree, uploads, staged, backup, source,
                store, image, byHand, healthy, touched, late, runs, deployMishaps>>
worldVars == <<part, vars, browserVars, soakVars, deployVars>>

WorldNext ==
  \/ part = "keeper" /\ Next /\ UNCHANGED <<part, browserVars, soakVars, deployVars>>
  \/ part = "recovery" /\ Recovery!Next /\ UNCHANGED <<part, vars, soakVars, deployVars>>
  \/ part = "soak" /\ Soak!Next /\ UNCHANGED <<part, vars, browserVars, deployVars>>
  \/ part = "deployment" /\ Deploy!Next /\ UNCHANGED <<part, vars, browserVars, soakVars>>

WorldSpec == WorldInit /\ [][WorldNext]_worldVars

\* The browser alone, with what it is sure to do; and the others alone.
BrowserInit == WorldInit /\ part = "recovery"
BrowserSpec == BrowserInit /\ [][WorldNext]_worldVars /\ Recovery!Fairness

OtherInit == WorldInit /\ part # "recovery"
OtherSpec == OtherInit /\ [][WorldNext]_worldVars

-----------------------------------------------------------------------------
\* Nothing is left behind that nobody answers for: no tab is lost, no soak passes the gate
\* that was not watched, no add-on is replaced without its way back.
NothingAstray ==
  /\ NoStrayProbe
  /\ Soak!EligibleIsEarned
  /\ Deploy!TypeOK /\ Deploy!RollbackAtHand

\* A sealed summary is never replaced by another one; a deployment does what the operator
\* asked for and reports what happened.
ToolsAreSound == Soak!SealedForGood /\ Deploy!DeploymentIsSound

\* docs/SESSION_CONTINUITY_1.8.30.md:18: two Chromiums never run at once on the profile
\* (BrowserSupervisor, restartBrowser).
OneChromium == Recovery!OneChromium

\* An inventory that was read in one context never reaches the store after another one, or
\* none, took its place (#loadInventory).
LoadsAreCurrent == Recovery!LoadsAreCurrent

\* A browser that broke, or lost its socket, serves again in the end, and the store learns
\* what changed meanwhile.
BrowserIsMadeGood == Recovery!BrowserIsMadeGood
=============================================================================
