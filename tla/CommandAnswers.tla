--------------------------- MODULE CommandAnswers ---------------------------
(* That every caller of a command has an answer in the end: for the lanes    *)
(* that order the commands of a target (CommandLanes), and for the queue in  *)
(* which commands and inspections share the browser (CommandPage).  The page *)
(* takes one command of a lane at a time, so a behaviour follows one of the  *)
(* two while the other rests in an initial state, in which no action that is *)
(* to be taken in the end can be taken.                                      *)
EXTENDS CommandLanes

CONSTANTS
  DeviceOps, SceneOps, SecurityOps, Background,  \* of CommandPage
  Devices, DeviceOf, KeepsWarm, MaxCommands, MaxLost

VARIABLES
  part,  \* which of them is followed
  queue, stage, tab, how, open, shows, warm, routes, inspected, preempted, answered, sent,
  blind, missed, lost

pageVars == <<queue, stage, tab, how, open, shows, warm, routes, inspected, preempted,
              answered, sent, blind, missed, lost>>

-----------------------------------------------------------------------------
Page == INSTANCE CommandPage

(* Finitely many jobs, each of one kind; a device command and an inspection  *)
(* name their device.                                                        *)
ASSUME CommandAnswersAssumption ==
  /\ IsFiniteSet(Page!Job)
  /\ DeviceOps \cap SceneOps = {} /\ DeviceOps \cap SecurityOps = {}
  /\ SceneOps \cap SecurityOps = {} /\ Page!Foreground \cap Background = {}
  /\ \A j \in DeviceOps \cup Background : DeviceOf[j] \in Devices
  /\ KeepsWarm \in BOOLEAN /\ MaxCommands \in Nat /\ MaxLost \in Nat
  /\ None \notin Page!Tab \cup [tab: Page!Tab, device: Devices, expired: BOOLEAN]

\* A command leaves once, but for clicks whose answer was lost, for the right device, and
\* leaves no tab behind.
TabsAndClicksAreKept == part = "page" => Page!TabsAndClicksAreKept

\* A command's tab is its own, nothing of it leaves after its answer, and an inspection that
\* hangs does not keep it from the queue.
CommandsHaveTheirTurn == Page!CommandsHaveTheirTurn

-----------------------------------------------------------------------------
WorldInit == part \in {"lanes", "page"} /\ Init /\ Page!Init

WorldNext ==
  \/ part = "lanes" /\ Next /\ UNCHANGED <<part, pageVars>>
  \/ part = "page" /\ Page!Next /\ UNCHANGED <<part, vars>>

WorldSpec ==
  /\ WorldInit
  /\ [][WorldNext]_<<part, vars, pageVars>>
  /\ LoopFairness /\ Page!Fairness
=============================================================================
