----------------------------- MODULE Commands -------------------------------
(***************************************************************************)
(* How a command is executed: for a group of switches together             *)
(* (ComponentTransaction), for a light (LightDispatch), and for a single   *)
(* switch (DeviceCommand).  No two of them work for one target at once     *)
(* (CommandLanes), so a behaviour follows one of the three while the others *)
(* rest in an initial state.                                               *)
(***************************************************************************)
EXTENDS ComponentTransaction, Sequences

CONSTANTS
  Plans, Start, Others, Batches,            \* of LightDispatch
  ProofAge, PreviewTime, Backoff, MaxJobs, Touched, MaxLampTurns,
  Kinds, Legacy, MaxCommands, MaxTurns, MaxMoves  \* of DeviceCommand

VARIABLES
  part,  \* which of them is followed
  batch, lamp, lampStore, entry, lightJob, lightReads, won, lightLeft, lost, lightTurns,
  switch, store, whereabouts, news, legacy, job, back, orders, turns, moves, holding, left,
  outcome

lightVars == <<batch, lamp, lampStore, entry, lightJob, lightReads, won, lightLeft, lost,
               lightTurns>>
deviceVars == <<switch, store, whereabouts, news, legacy, job, back, orders, turns, moves,
                holding, left, outcome>>

Light == INSTANCE LightDispatch WITH
  MaxTurns <- MaxLampTurns, store <- lampStore, job <- lightJob, reads <- lightReads,
  left <- lightLeft, turns <- lightTurns

\* A light plan is carried out as it was asked: nothing needed is left out, nothing leaves
\* twice, out of order or after a newer command, nothing is confirmed that was not sent.
PlanIsCarriedOut == Light!PlanIsCarriedOut

-----------------------------------------------------------------------------
Device == INSTANCE DeviceCommand WITH held <- holding, place <- whereabouts

ASSUME CommandsAssumption ==
  /\ Kinds \subseteq Device!Kind /\ Legacy \subseteq Device!WebRoutes
  /\ {MaxCommands, MaxTurns, MaxMoves} \subseteq Nat
  /\ None \notin Device!Outcomes \cup Device!Observation \cup Kinds

\* No single command leaves the bridge twice, or after it was answered without leaving.
OnceAtMost == part = "device" => Device!TypeOK /\ Device!OnceAtMost

\* A power command answered with "already" was so, and an older command's reads stop when a
\* newer one or a report comes.
ReadsAreHonest == Device!ReadsAreHonest

-----------------------------------------------------------------------------
WorldInit ==
  /\ part \in {"switches", "light", "device"}
  /\ \/ part = "switches"
     \/ part # "switches" /\ web = TRUE /\ device = [c \in Switch |-> "off"]
  /\ Init
  /\ \/ part = "light"
     \/ part # "light" /\ batch = (CHOOSE b \in Batches : TRUE)
                       /\ lamp = (CHOOSE l \in Start : TRUE)
  /\ Light!Init
  /\ \/ part = "device"
     \/ part # "device" /\ switch = [value |-> "on", stamp |-> 0]
                        /\ legacy = CHOOSE l \in Legacy : TRUE
  /\ Device!Init

WorldNext ==
  \/ part = "switches" /\ Next /\ UNCHANGED <<part, lightVars, deviceVars>>
  \/ part = "light" /\ Light!Next /\ UNCHANGED <<part, vars, deviceVars>>
  \/ part = "device" /\ Device!Next /\ UNCHANGED <<part, vars, lightVars>>

WorldSpec == WorldInit /\ [][WorldNext]_<<part, vars, lightVars, deviceVars>>
=============================================================================
