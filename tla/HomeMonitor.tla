----------------------------- MODULE HomeMonitor -----------------------------
(***************************************************************************)
(* A security command that is carried out by clicking: #executeLocation of *)
(* command-service.ts over #executeLocationAction of command-page.ts and   *)
(* the home-monitor-*.ts modules.  One command, from its turn in the queue *)
(* of the tabs to its answer (LocationSecurity models the way through a    *)
(* request, and many commands).                                            *)
(*                                                                         *)
(* A page offers ways to the wanted mode, which are tried in a fixed       *)
(* order: the native card, a dashboard card, a dialog, text, controls with *)
(* a role, and the popups that open the last three.  A click that throws   *)
(* may have landed; one that landed may do nothing.  From one armed mode   *)
(* to another the native card leads only through DISARMED, and that takes  *)
(* two clicks with a confirmation between them.                            *)
(***************************************************************************)
EXTENDS Naturals, Sequences, FiniteSets

CONSTANTS
  Armed,       \* the armed modes
  DISARMED,
  MaxVersion   \* bound: changes of the location's mode

ArmState == Armed \cup {DISARMED}
Version == 1..MaxVersion

VARIABLES
  history,    \* the modes the location had, the last one is the present one
  mail,       \* versions whose event has not arrived
  store,      \* DeviceStore's entry of the location
  shown,      \* the version the pages show
  flight,     \* the clicks whose effect may still come
  desired,    \* the mode the command wants
  stage,      \* where the command is
  page,       \* the page it works in
  expected,   \* the mode the native card showed when its click was decided
  wait,       \* the confirmation: the mode, the entry when it was made, evidence
  transition, \* transitionUsed and transitionDisarmed
  clicks,     \* history: the modes clicked
  unsure,     \* history: a click inside the page was lost with its page
  since,      \* history: the version when the confirmation began
  from,       \* history: the version the page showed when the transition began
  late,       \* history: older news was still under way then
  outcome

world == <<history, mail, store, shown>>
hand == <<clicks, flight>>
ghosts == <<since, from, late>>
vars == <<world, hand, desired, stage, page, expected, wait, transition, unsure,
          ghosts, outcome>>

Entries == [mode: ArmState, at: Version]

CardStages == {"keeperCard", "card"}
TextStages == {"modal", "text", "popupText", "titleText", "monitorText"}
RoleStages == {"role", "control", "popupControl", "titleControl", "dialogControl"}
Stages == CardStages \cup TextStages \cup RoleStages \cup
          {"turn", "open", "native", "click", "disarming", "byText", "selector",
           "title", "monitor", "confirm", "end"}

TypeOK ==
  /\ history \in Seq(ArmState) /\ Len(history) \in Version
  /\ mail \subseteq 1..Len(history) /\ shown \in 1..Len(history)
  /\ store \in Entries
  /\ desired \in ArmState /\ stage \in Stages /\ page \in {"keeper", "tab"}
  /\ expected \in ArmState
  /\ wait \in [mode: ArmState, before: Entries, started: BOOLEAN, evidence: BOOLEAN]
  /\ transition \in {"no", "used", "disarmed"}
  /\ clicks \in Seq(ArmState) /\ flight \subseteq 1..Len(clicks)
  /\ unsure \in BOOLEAN /\ since \in Version /\ from \in Version /\ late \in BOOLEAN
  /\ outcome \in {"none", "confirmed", "failed", "disarm_failed", "rearm_failed"}

Present == Len(history)

Expects(m) == [mode |-> m, before |-> store, started |-> FALSE, evidence |-> FALSE]

\* The location may have changed before; the store and the pages may lag.
\* Command: a cached match has been looked at (LocationSecurity), and
\* the confirmation listens.
Init ==
  /\ history \in [1..1 -> ArmState] \cup {h \in [1..2 -> ArmState] : h[1] # h[2]}
  /\ mail = 2..Present
  /\ store = [mode |-> history[1], at |-> 1]
  /\ shown \in 1..Present
  /\ desired \in ArmState
  /\ stage = "turn" /\ page = "keeper" /\ expected = desired
  /\ wait = Expects(desired) /\ transition = "no"
  /\ clicks = <<>> /\ flight = {} /\ unsure = FALSE
  /\ since = Present /\ from = shown /\ late = (\E v \in mail : history[v] = desired)
  /\ outcome = "none"

-----------------------------------------------------------------------------
(* The location, the pages and the store. *)

Becomes(m) ==
  IF m = history[Present] THEN UNCHANGED <<history, mail>>
  ELSE /\ Present < MaxVersion
       /\ history' = Append(history, m) /\ mail' = mail \cup {Present + 1}

command == <<desired, stage, page, expected, transition, unsure, ghosts, outcome>>

SomebodyChanges ==
  /\ stage # "end"
  /\ \E m \in ArmState \ {history[Present]} : Becomes(m)
  /\ UNCHANGED <<store, shown, hand, wait, command>>

\* A click has its effect.
Obeyed(i) ==
  /\ i \in flight /\ flight' = flight \ {i}
  /\ Becomes(clicks[i])
  /\ UNCHANGED <<store, shown, clicks, wait, command>>

\* The pages follow the location, at their own pace.
Renders ==
  /\ shown < Present
  /\ shown' \in shown + 1..Present
  /\ UNCHANGED <<history, mail, store, hand, wait, command>>

\* What the confirmation makes of an inventory event: a mismatch takes its
\* evidence away, a changed and matching entry is evidence.
Heard(entry) == entry.mode = wait.mode /\ (entry # wait.before \/ wait.evidence)

\* Events have a time: an older one is dropped.
Push(v) ==
  /\ v \in mail /\ mail' = mail \ {v}
  /\ IF v > store.at
     THEN /\ store' = [mode |-> history[v], at |-> v]
          /\ wait' = [wait EXCEPT !.evidence = Heard(store')]
     ELSE UNCHANGED <<store, wait>>
  /\ UNCHANGED <<history, shown, hand, command>>

\* A status read: the rechecks of the confirmation, or anybody's.  What the
\* confirmation's own rechecks find is evidence even if nothing changed.
Read ==
  /\ stage # "end"
  /\ store' = [mode |-> history[Present], at |-> Present]
  /\ wait' = [wait EXCEPT !.evidence = IF wait.started THEN store'.mode = wait.mode
                                       ELSE IF store' = store THEN @ ELSE Heard(store')]
  /\ UNCHANGED <<history, mail, shown, hand, command>>

-----------------------------------------------------------------------------
(* The ends. *)

Go(s) ==
  /\ stage' = s
  /\ UNCHANGED <<world, desired, page, expected, wait, transition, ghosts, outcome>>

\* Mutant of Failure: an error is passed on as it is.
FailureAsItIs == "failed"

\* The error of the command, with what it left behind.
Failure ==
  CASE transition = "disarmed" -> "rearm_failed"
    [] transition = "used" -> "disarm_failed"
    [] OTHER -> "failed"

Fail ==
  /\ stage' = "end" /\ outcome' = Failure
  /\ UNCHANGED <<world, desired, page, expected, wait, transition, ghosts>>

Untouched == UNCHANGED <<hand, unsure>>

\* A click on mode m that lands, or one of which nobody knows.
Lands(m) == clicks' = Append(clicks, m) /\ flight' = flight \cup {Len(clicks) + 1}
MayLand(m) == Lands(m) \/ UNCHANGED hand

\* waitForConfirmation starts the timeout, and what was heard counts.
Confirm ==
  /\ stage' = "confirm" /\ wait' = [wait EXCEPT !.started = TRUE]
  /\ UNCHANGED <<world, desired, page, expected, transition, ghosts, outcome>>

Confirmed ==
  /\ stage = "confirm" /\ wait.evidence
  /\ stage' = "end" /\ outcome' = "confirmed"
  /\ UNCHANGED <<world, desired, page, expected, wait, transition, ghosts>> /\ Untouched

TimesOut == stage = "confirm" /\ ~wait.evidence /\ Fail /\ Untouched

-----------------------------------------------------------------------------
(* The turn, and the pages. *)

\* isDesiredStateCurrent: somebody else has done it meanwhile.
DesiredStateCurrent ==
  /\ stage = "turn" /\ store.mode = desired /\ store # wait.before
  /\ Confirm /\ Untouched

\* The keeper page is used when it shows this location.
Turn ==
  /\ stage = "turn" /\ ~(store.mode = desired /\ store # wait.before)
  /\ (Go("native") \/ Go("open")) /\ Untouched

QueueTimeout == stage = "turn" /\ Fail /\ Untouched

OpenLocationPage ==
  /\ stage = "open"
  /\ stage' = "native" /\ page' = "tab"
  /\ UNCHANGED <<world, desired, expected, wait, transition, ghosts, outcome>> /\ Untouched

LocationUnreached == stage = "open" /\ Fail /\ Untouched

-----------------------------------------------------------------------------
(* The native card. *)

\* The modes probeNativeSecurityCard finds buttons for.
Offers(m) == IF m = DISARMED THEN Armed ELSE {DISARMED}

\* The results of a probe of a page that shows mode m.
Probe(m, requested) ==
  {[kind |-> k, state |-> m, target |-> FALSE] :
     k \in {"absent", "pending", "ambiguous", "blocked"}}
  \cup {[kind |-> "ready", state |-> m, target |-> requested \in Offers(m)]}

NativeCardAbsent ==
  /\ stage = "native" /\ \E p \in Probe(history[shown], desired) : p.kind = "absent"
  /\ Go(IF page = "keeper" THEN "keeperCard" ELSE "card") /\ Untouched

\* It stays pending, or is ambiguous or blocked, or the page moves on.
NativeCardUnusable ==
  /\ stage \in {"native", "click"}
  /\ \E p \in Probe(history[shown], desired) : p.kind \in {"pending", "ambiguous", "blocked"}
  /\ Fail /\ Untouched

\* The page shows the mode already: the confirmation decides.
NativeCurrentMode ==
  /\ stage = "native" /\ history[shown] = desired
  /\ Confirm /\ Untouched

\* One click leads there, or it takes disarmForTransition: the first
\* confirmation is dropped for one of DISARMED.
NativeObserved ==
  /\ stage = "native" /\ history[shown] # desired
  /\ stage' = "click" /\ expected' = history[shown]
  /\ IF {desired, history[shown]} \subseteq Armed
     THEN /\ transition' = "used" /\ wait' = Expects(DISARMED)
          /\ since' = Present /\ from' = shown
          /\ late' = \E v \in mail : history[v] \in {desired, DISARMED}
     ELSE UNCHANGED <<transition, wait, ghosts>>
  /\ UNCHANGED <<world, desired, page, outcome>> /\ Untouched

Requested == IF transition = "used" THEN DISARMED ELSE desired

\* Mutant of NativeClick: the page is not looked at again before the click.
NativeClickBlindly ==
  /\ stage = "click"
  /\ Lands(Requested)
  /\ IF transition = "used"
     THEN /\ stage' = "disarming" /\ wait' = [wait EXCEPT !.started = TRUE]
          /\ UNCHANGED <<world, desired, page, expected, transition, ghosts, outcome>>
     ELSE Confirm
  /\ UNCHANGED unsure

\* The button is found, tried without effect, and probed again: it is clicked
\* only if the page still shows the mode the click was decided for.
NativeClick ==
  /\ stage = "click" /\ history[shown] = expected
  /\ \E p \in Probe(history[shown], Requested) : p.target
  /\ Lands(Requested)
  /\ IF transition = "used"
     THEN /\ stage' = "disarming" /\ wait' = [wait EXCEPT !.started = TRUE]
          /\ UNCHANGED <<world, desired, page, expected, transition, ghosts, outcome>>
     ELSE Confirm
  /\ UNCHANGED unsure

\* A click that throws is never repeated, wherever it went.
NativeClickFails ==
  /\ stage = "click" /\ history[shown] = expected
  /\ MayLand(Requested) /\ Fail /\ UNCHANGED unsure

\* Mutant of Disarmed: the confirmation of the command is not made anew.
DisarmedGoesOn ==
  /\ stage = "disarming" /\ wait.evidence /\ store.mode = DISARMED
  /\ stage' = "click" /\ expected' = DISARMED
  /\ transition' = "disarmed"
  /\ wait' = [Expects(desired) EXCEPT !.evidence = TRUE]
  /\ UNCHANGED <<world, desired, page, ghosts, outcome>> /\ Untouched

\* The intermediate confirmation ends and the store agrees.  Evidence from
\* before this does not count for the command's own confirmation.
Disarmed ==
  /\ stage = "disarming" /\ wait.evidence /\ store.mode = DISARMED
  /\ stage' = "click" /\ expected' = DISARMED
  /\ transition' = "disarmed" /\ wait' = Expects(desired)
  /\ UNCHANGED <<world, desired, page, ghosts, outcome>> /\ Untouched

DisarmTimesOut ==
  /\ stage = "disarming" /\ ~(wait.evidence /\ store.mode = DISARMED)
  /\ Fail /\ Untouched

-----------------------------------------------------------------------------
(* The dashboard card: clickHomeMonitorCardAction. *)

CardMissing ==
  /\ stage \in CardStages
  /\ Go(IF stage = "keeperCard" THEN "open" ELSE "role") /\ Untouched

CardUnusable == stage \in CardStages /\ Fail /\ Untouched

CardClick == stage \in CardStages /\ Lands(desired) /\ Confirm /\ UNCHANGED unsure

\* Mutant of CardClickFails: the card is taken for missing.
CardClickFailsSoftly ==
  /\ stage \in CardStages
  /\ MayLand(desired) /\ UNCHANGED unsure
  /\ Go(IF stage = "keeperCard" THEN "open" ELSE "role")

\* "blocked": no second target after a pointer that may have reached the page.
CardClickFails ==
  /\ stage \in CardStages
  /\ MayLand(desired) /\ Fail /\ UNCHANGED unsure

\* An open dialog: the keeper is left alone, in the tab the dialog is used.
CardBehindDialog ==
  /\ stage \in CardStages
  /\ Go(IF stage = "keeperCard" THEN "open" ELSE "modal") /\ Untouched

SelectorAvailable == stage = "card" /\ Go("selector") /\ Untouched

-----------------------------------------------------------------------------
(* Dialogs and text: clickRequestedText. *)

\* A dialog that is not understood ends the command: nothing behind it is tried.
DialogUnusable == stage \in TextStages /\ Fail /\ Untouched

\* The mode is chosen in the dialog, and applied if it has a button for that.
DialogClick == stage \in TextStages /\ Lands(desired) /\ Confirm /\ UNCHANGED unsure

\* Mutant of DialogClickFails: it falls back to the text behind the dialog.
DialogClickFailsSoftly ==
  /\ stage \in TextStages \ {"modal"}
  /\ MayLand(desired) /\ UNCHANGED unsure /\ Go(stage)

DialogClickFails ==
  /\ stage \in TextStages
  /\ MayLand(desired) /\ Fail /\ UNCHANGED unsure

\* What is tried when neither a dialog nor a text is found.
AfterText ==
  [modal |-> "none", text |-> "byText", popupText |-> "popupControl",
   titleText |-> "titleControl", monitorText |-> "dialogControl"]

TextMissing ==
  /\ stage \in TextStages
  /\ IF stage = "modal" THEN Fail ELSE Go(AfterText[stage])
  /\ Untouched

\* The text is clicked inside the page.
TextClick == stage \in TextStages /\ Lands(desired) /\ Confirm /\ UNCHANGED unsure

\* The page goes while the evaluation runs: it counts as nothing found.
TextClickLost ==
  /\ stage \in TextStages
  /\ Lands(desired) /\ unsure' = TRUE
  /\ IF stage = "modal" THEN Fail ELSE Go(AfterText[stage])

-----------------------------------------------------------------------------
(* Controls with a role, and the card's text. *)

AfterRole ==
  [role |-> "text", control |-> "selector", popupControl |-> "none",
   titleControl |-> "dialogControl", dialogControl |-> "none"]

RoleMissing ==
  /\ stage \in RoleStages
  /\ IF AfterRole[stage] = "none" THEN Fail ELSE Go(AfterRole[stage])
  /\ Untouched

RoleAmbiguous == stage \in RoleStages /\ Fail /\ Untouched

RoleClick == stage \in RoleStages /\ Lands(desired) /\ Confirm /\ UNCHANGED unsure

\* Mutant of RoleClickFails: the next way is tried.
RoleClickFailsSoftly ==
  /\ stage \in RoleStages /\ AfterRole[stage] # "none"
  /\ MayLand(desired) /\ UNCHANGED unsure /\ Go(AfterRole[stage])

RoleClickFails ==
  /\ stage \in RoleStages
  /\ MayLand(desired) /\ Fail /\ UNCHANGED unsure

\* clickHomeMonitorCardActionByText.
ByTextMissing == stage = "byText" /\ Go("control") /\ Untouched
ByTextClick == stage = "byText" /\ Lands(desired) /\ Confirm /\ UNCHANGED unsure
ByTextClickLost ==
  /\ stage = "byText"
  /\ Lands(desired) /\ unsure' = TRUE /\ Go("control")

-----------------------------------------------------------------------------
(* Opening the popup, by the mode shown, the title, or the control. *)

PopupOpens ==
  /\ stage \in {"selector", "title", "monitor"}
  /\ Go(CASE stage = "selector" -> "popupText"
          [] stage = "title" -> "titleText"
          [] OTHER -> "monitorText")
  /\ Untouched

PopupMissing ==
  /\ stage \in {"selector", "title", "monitor"}
  /\ CASE stage = "selector" -> Go("title")
       [] stage = "title" -> Go("monitor")
       [] OTHER -> Fail
  /\ Untouched

\* Ambiguous, blocked, or the click on the opener throws.
PopupUnusable == stage \in {"selector", "title", "monitor"} /\ Fail /\ Untouched

-----------------------------------------------------------------------------
Environment ==
  \/ SomebodyChanges \/ Renders \/ Read
  \/ \E i \in 1..Len(clicks) : Obeyed(i)
  \/ \E v \in Version : Push(v)

Pages == DesiredStateCurrent \/ Turn \/ QueueTimeout \/ OpenLocationPage \/ LocationUnreached
Native ==
  \/ NativeCardAbsent \/ NativeCardUnusable \/ NativeCurrentMode \/ NativeObserved
  \/ NativeClick \/ NativeClickFails \/ Disarmed \/ DisarmTimesOut
Card ==
  \/ CardMissing \/ CardUnusable \/ CardClick \/ CardClickFails \/ CardBehindDialog
  \/ SelectorAvailable
Text ==
  \/ DialogUnusable \/ DialogClick \/ DialogClickFails
  \/ TextMissing \/ TextClick \/ TextClickLost
Role ==
  \/ RoleMissing \/ RoleAmbiguous \/ RoleClick \/ RoleClickFails
  \/ ByTextMissing \/ ByTextClick \/ ByTextClickLost
Popup == PopupOpens \/ PopupMissing \/ PopupUnusable

Next == Environment \/ Pages \/ Native \/ Card \/ Text \/ Role \/ Popup
        \/ Confirmed \/ TimesOut

Spec == Init /\ [][Next]_vars

-----------------------------------------------------------------------------
(* Properties. *)

Clicked(m) == Cardinality({i \in DOMAIN clicks : clicks[i] = m})

\* "Never replay an uncertain pointer dispatch or click a second candidate"
\* (home-monitor-native.ts:177): however the ways follow each other, the mode
\* that is wanted is clicked once, unless a click inside the page was lost
\* with the page; DISARMED is clicked besides only once, and before it.
OneClick ==
  /\ ~unsure => Clicked(desired) <= 1
  /\ \A m \in ArmState \ {desired} : Clicked(m) > 0 =>
       m = DISARMED /\ transition # "no" /\ clicks[1] = m /\ Clicked(m) = 1

\* What is said above without the exception.
NeverReplayed == Clicked(desired) <= 1

\* A command that clicked DISARMED on the way to another mode, and did not
\* get there, says so: its caller knows that the house may be disarmed.
PartialIsTold ==
  outcome # "none" /\ desired # DISARMED /\ Clicked(DISARMED) > 0 =>
    outcome = "confirmed" \/ outcome = (IF transition = "disarmed" THEN "rearm_failed"
                                        ELSE "disarm_failed")

\* The second click of a transition comes only when the location really was
\* disarmed after it had the mode the page showed first, whatever late events
\* say.
RearmsDisarmed ==
  transition # "no" /\ Clicked(desired) > 0 =>
    \E v \in from + 1..Present : history[v] = DISARMED

\* A confirmed command is true: the location had the mode after the command
\* began, and after a transition, had it after having been disarmed; unless
\* older news of these modes was still under way.
ConfirmedIsReal ==
  outcome = "confirmed" /\ ~late =>
    IF transition = "no" THEN \E v \in since..Present : history[v] = desired
    ELSE \E v \in since..Present :
           history[v] = DISARMED /\ \E w \in v + 1..Present : history[w] = desired

\* The caller of a Home Monitor command can rely on what happened and on what
\* it is told.
MonitorIsSafe == TypeOK /\ OneClick /\ PartialIsTold /\ RearmsDisarmed /\ ConfirmedIsReal
=============================================================================
