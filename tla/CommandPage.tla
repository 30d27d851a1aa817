----------------------------- MODULE CommandPage -----------------------------
(***************************************************************************)
(* The tabs with which commands are carried out when no request can be     *)
(* sent: SmartThingsWebUiCommandExecutor of command-page.ts.               *)
(*                                                                         *)
(* Commands that need a tab are served one at a time (#uiQueue).  A device *)
(* command first tries a request in a page that happens to be there, then  *)
(* the tab kept warm, then a remembered address, then the way through the  *)
(* rooms.  An inspection of a device is background work: it waits its turn *)
(* in the same queue, but whoever needs the queue must not wait for it.    *)
(*                                                                         *)
(* What a tab shows is a device, or Elsewhere; a tab can be lost at any    *)
(* time.  The keeper page has a model of its own (KeeperPages).            *)
(***************************************************************************)
EXTENDS Naturals, Sequences, FiniteSets

CONSTANTS
  DeviceOps,    \* device commands
  SceneOps,     \* scenes
  SecurityOps,  \* location security commands
  Background,   \* inspections
  Devices,      \* device names
  DeviceOf,     \* the device of each device command and inspection
  KeepsWarm,    \* warmPageTtlMs > 0
  MaxCommands,  \* bound: commands that come
  MaxLost,      \* bound: tabs lost or led away by the page itself
  None

Foreground == DeviceOps \cup SceneOps \cup SecurityOps
Job == Foreground \cup Background

\* A job has one tab at a time; there is one more for the warm one.
Tab == 1..Cardinality(Job) + 1
Elsewhere == "elsewhere"

\* The attempts of one security command that click inside an evaluation of the page.
TextWays == 3

VARIABLES
  queue,     \* #uiQueue: the jobs in it, the first one running
  stage,     \* where each job is
  tab,       \* the tab each job works with
  how,       \* how it came by it
  open,      \* the tabs that are open
  shows,     \* what each of them shows
  warm,      \* #warmDevicePage
  routes,    \* #verifiedDetailRoutes
  inspected, \* #backgroundInspectionPage
  preempted, \* the inspections that were asked to stop
  answered,  \* the jobs whose caller has an answer
  sent,      \* history: what left for each command
  blind,     \* history: of these, the clicks whose answer was lost with the evaluation
             \* they were made in, and which therefore count as not made
  missed,    \* history: requests that left on a tab that did not show the device
  lost       \* history: tabs lost or led away

vars == <<queue, stage, tab, how, open, shows, warm, routes, inspected,
          preempted, answered, sent, blind, missed, lost>>

Stage == {"new", "native", "patching", "queued", "warm", "route", "fresh", "again",
          "opening", "arrive", "control", "click", "scene", "automations",
          "security", "confirm", "detail", "settle", "end"}

TypeOK ==
  /\ queue \in Seq(Job) /\ stage \in [Job -> Stage]
  /\ tab \in [Job -> Tab \cup {None}]
  /\ how \in [Job -> {"none", "warm", "route", "fresh", "again", "opening"}]
  /\ open \subseteq Tab /\ shows \in [Tab -> Devices \cup {Elsewhere}]
  /\ warm = None \/ warm \in [tab: Tab, device: Devices, expired: BOOLEAN]
  /\ routes \subseteq Devices
  /\ inspected \in Tab \cup {None} /\ preempted \subseteq Background
  /\ answered \subseteq Job /\ sent \in [Foreground -> 0..9]
  /\ blind \in [Foreground -> 0..TextWays]
  /\ missed \in 0..9 /\ lost \in 0..MaxLost

Init ==
  /\ queue = <<>> /\ stage = [j \in Job |-> "new"]
  /\ tab = [j \in Job |-> None] /\ how = [j \in Job |-> "none"]
  /\ open = {} /\ shows = [t \in Tab |-> Elsewhere]
  /\ warm = None /\ routes = {}
  /\ inspected = None /\ preempted = {} /\ answered = {}
  /\ sent = [j \in Foreground |-> 0] /\ blind = [j \in Foreground |-> 0]
  /\ missed = 0 /\ lost = 0

\* Whose turn it is: the first job of the queue.
Turn(j) == queue # <<>> /\ Head(queue) = j

\* hasForegroundOperation: commands in the queue or elsewhere in the bridge.
HasForegroundOperation ==
  \E j \in Foreground : stage[j] \notin {"new", "end"}

\* Tabs a job or the executor still refers to, open or not.
Referred == {tab[j] : j \in Job} \cup {inspected}
            \cup (IF warm = None THEN {} ELSE {warm.tab})

UnusedTab == CHOOSE t \in Tab \ open : t \notin Referred

Step(j, s) == stage' = [stage EXCEPT ![j] = s]
Ends(j) == Step(j, "end") /\ answered' = answered \cup {j}

\* The running job ends: its caller has its answer and the next one may start.
Leaves(j) == queue' = IF Turn(j) THEN Tail(queue) ELSE queue

\* The job gives its tab up; the tab is closed unless kept.
Close(t) == open' = open \ {t}
Release(j) == tab' = [tab EXCEPT ![j] = None] /\ how' = [how EXCEPT ![j] = "none"]

-----------------------------------------------------------------------------
\* Pages.

\* A tab crashes, or Chromium goes.
TabLost(t) ==
  /\ lost < MaxLost /\ t \in open
  /\ lost' = lost + 1 /\ Close(t)
  /\ UNCHANGED <<queue, stage, tab, how, shows, warm, routes, inspected, preempted,
                 answered, sent, blind, missed>>

\* The page closes its dialog or shows another device's.
Wanders(t, d) ==
  /\ lost < MaxLost /\ t \in open /\ shows[t] # d
  /\ lost' = lost + 1 /\ shows' = [shows EXCEPT ![t] = d]
  /\ UNCHANGED <<queue, stage, tab, how, open, warm, routes, inspected, preempted,
                 answered, sent, blind, missed>>

\* Mutant of HasWarmCommandPage: asked while a command may be using the tab.
HasWarmCommandPageAnyTime ==
  /\ warm # None /\ (warm.expired \/ warm.tab \notin open)
  /\ warm' = None /\ Close(warm.tab)
  /\ UNCHANGED <<queue, stage, tab, how, shows, routes, inspected, preempted, answered,
                 sent, blind, missed, lost>>

\* hasWarmCommandPage forgets and closes a tab that is closed or too old.  Who
\* asks has seen that no command is in work.
HasWarmCommandPage ==
  /\ ~HasForegroundOperation
  /\ warm # None /\ (warm.expired \/ warm.tab \notin open)
  /\ warm' = None /\ Close(warm.tab)
  /\ UNCHANGED <<queue, stage, tab, how, shows, routes, inspected, preempted, answered,
                 sent, blind, missed, lost>>

WarmExpires ==
  /\ warm # None /\ ~warm.expired
  /\ warm' = [warm EXCEPT !.expired = TRUE]
  /\ UNCHANGED <<queue, stage, tab, how, open, shows, routes, inspected, preempted,
                 answered, sent, blind, missed, lost>>

RouteExpires(d) ==
  /\ d \in routes
  /\ routes' = routes \ {d}
  /\ UNCHANGED <<queue, stage, tab, how, open, shows, warm, inspected, preempted,
                 answered, sent, blind, missed, lost>>

-----------------------------------------------------------------------------
\* Entering the queue.

\* #preemptBackground: the inspection is asked to stop and its tab is closed.
Preempt ==
  /\ preempted' = preempted \cup {b \in Background : stage[b] \notin {"new", "end"}}
  /\ open' = open \ {inspected}

\* Mutant of RunForeground: the command waits for the inspection.
RunForegroundPatiently(j) ==
  /\ queue' = Append(queue, j) /\ Step(j, "queued")
  /\ UNCHANGED <<preempted, open>>

\* #runForeground with the queue free or not.
RunForeground(j) ==
  /\ queue' = Append(queue, j) /\ Step(j, "queued")
  /\ Preempt

\* executeScene and executeLocationAction enter the queue at once, a device
\* command tries a request first; its lane tells the executor that it came
\* (setExternalCommandsPending).
Requested(j) ==
  /\ stage[j] = "new"
  /\ Cardinality({k \in Foreground : stage[k] # "new"}) < MaxCommands
  /\ IF j \in DeviceOps
     THEN Step(j, "native") /\ Preempt /\ UNCHANGED queue
     ELSE RunForeground(j)
  /\ UNCHANGED <<tab, how, shows, warm, routes, inspected, answered, sent, blind,
                 missed, lost>>

\* No page with the application, an identifier nobody saw, or no service in the
\* page: nothing was sent.
NativeUnavailable(j) ==
  /\ stage[j] = "native"
  /\ RunForeground(j)
  /\ UNCHANGED <<tab, how, shows, warm, routes, inspected, answered, sent, blind,
                 missed, lost>>

\* The request is patched in the warm tab, whatever it shows, or in the keeper
\* page; the executor has the outcome later.
NativePatch(j) ==
  /\ stage[j] = "native"
  /\ sent' = [sent EXCEPT ![j] = @ + 1]
  /\ stage' = [stage EXCEPT ![j] = "patching"]
  /\ tab' = [tab EXCEPT ![j] = IF warm # None /\ ~warm.expired /\ warm.tab \in open
                               THEN warm.tab ELSE None]
  /\ UNCHANGED <<queue, how, open, shows, warm, routes, inspected, preempted, answered,
                 blind, missed, lost>>

\* "sent" or "failed", or the evaluation was lost with the page: no other way is
\* tried.  The warm tab is young again if it is still the one.
NativeOver(j) ==
  /\ stage[j] = "patching"
  /\ Ends(j) /\ Release(j)
  /\ \E ok \in BOOLEAN :
       warm' = IF ok /\ warm # None /\ tab[j] = warm.tab
               THEN [warm EXCEPT !.expired = FALSE] ELSE warm
  /\ UNCHANGED <<queue, open, shows, routes, inspected, preempted, sent, blind, missed,
                 lost>>

\* The first error before anything was sent: no page to evaluate in.
NativeFails(j) ==
  /\ stage[j] = "native" /\ Ends(j)
  /\ UNCHANGED <<queue, tab, how, open, shows, warm, routes, inspected, preempted,
                 sent, blind, missed, lost>>

\* Mutant of QueueExpires: the work is not told that nobody waits for it.
QueueExpiresAlone(j) ==
  /\ j \in SecurityOps /\ stage[j] = "queued" /\ j \notin answered
  /\ answered' = answered \cup {j}
  /\ UNCHANGED stage

\* enqueueWithDeadline: after ten seconds in the queue the caller has its error
\* and the work, when its turn comes, does nothing.
QueueExpires(j) ==
  /\ j \in SecurityOps /\ stage[j] = "queued" /\ ~Turn(j)
  /\ Ends(j)

QueueTimeout(j) ==
  /\ QueueExpires(j)
  /\ UNCHANGED <<queue, tab, how, open, shows, warm, routes, inspected, preempted,
                 sent, blind, missed, lost>>

SkipsExpired(j) ==
  /\ Turn(j) /\ stage[j] = "end"
  /\ Leaves(j)
  /\ UNCHANGED <<stage, tab, how, open, shows, warm, routes, inspected, preempted,
                 answered, sent, blind, missed, lost>>

-----------------------------------------------------------------------------
\* A device command in its turn: #executeDeviceActionFallback.

\* Mutant of Invalidate: the tab is forgotten and not closed.
InvalidateLeavesOpen == warm' = None /\ UNCHANGED open

\* #invalidateWarmPage.
Invalidate == warm' = None /\ open' = open \ (IF warm = None THEN {} ELSE {warm.tab})

Finish(j) == Ends(j) /\ Leaves(j) /\ Release(j)

\* #rememberSuccessfulDevicePage.
Remember(t, d) ==
  /\ routes' = routes \cup {d}
  /\ warm' = IF KeepsWarm THEN [tab |-> t, device |-> d, expired |-> FALSE] ELSE warm

StartsDevice(j) ==
  /\ Turn(j) /\ stage[j] = "queued" /\ j \in DeviceOps
  /\ Step(j, "warm")
  /\ UNCHANGED <<queue, tab, how, open, shows, warm, routes, inspected, preempted,
                 answered, sent, blind, missed, lost>>

Uses(j, t, way) == tab' = [tab EXCEPT ![j] = t] /\ how' = [how EXCEPT ![j] = way]

\* The warm tab is this device's, young enough and open.
IsWarmFor(d) ==
  warm # None /\ warm.device = d /\ ~warm.expired /\ warm.tab \in open

\* #warmPageFor: a tab of another device, too old or closed is given up.
WarmPageFor(j) ==
  /\ stage[j] = "warm"
  /\ \/ /\ ~IsWarmFor(DeviceOf[j])
        /\ Invalidate /\ Step(j, "route")
        /\ UNCHANGED <<tab, how>>
     \/ /\ IsWarmFor(DeviceOf[j]) /\ shows[warm.tab] = DeviceOf[j]
        /\ Uses(j, warm.tab, "warm") /\ Step(j, "control")
        /\ UNCHANGED <<open, warm>>
  /\ UNCHANGED <<queue, shows, routes, inspected, preempted, answered, sent, blind,
                 missed, lost>>

\* #recoverWarmPage: the tab of this device does not show it any more; its card
\* is looked for on the page, then in the rooms.
RecoverWarmPage(j) ==
  /\ stage[j] = "warm"
  /\ IsWarmFor(DeviceOf[j]) /\ shows[warm.tab] # DeviceOf[j]
  /\ \/ /\ shows' = [shows EXCEPT ![warm.tab] = DeviceOf[j]]
        /\ Remember(warm.tab, DeviceOf[j])
        /\ Uses(j, warm.tab, "warm") /\ Step(j, "control")
        /\ UNCHANGED open
     \/ /\ Invalidate /\ Step(j, "route")
        /\ UNCHANGED <<shows, routes, tab, how>>
  /\ UNCHANGED <<queue, inspected, preempted, answered, sent, blind, missed, lost>>

\* #openVerifiedDetailPage without an address to open.
NoVerifiedRoute(j) ==
  /\ stage[j] = "route" /\ DeviceOf[j] \notin routes
  /\ Step(j, "fresh")
  /\ UNCHANGED <<queue, tab, how, open, shows, warm, routes, inspected, preempted,
                 answered, sent, blind, missed, lost>>

\* manager.openCommandPage.
OpenCommandPage(j) ==
  /\ \/ stage[j] = "route" /\ DeviceOf[j] \in routes
     \/ stage[j] \in {"fresh", "again", "opening"}
  /\ open' = open \cup {UnusedTab}
  /\ shows' = [shows EXCEPT ![UnusedTab] = Elsewhere]
  /\ Uses(j, UnusedTab, stage[j]) /\ Step(j, "arrive")
  /\ UNCHANGED <<queue, warm, routes, inspected, preempted, answered, sent, blind,
                 missed, lost>>

\* No browser, or no page to be had of it.
OpenFails(j) ==
  /\ stage[j] \in {"route", "fresh", "again", "opening"}
  /\ stage[j] = "route" => DeviceOf[j] \in routes
  /\ Finish(j)
  /\ UNCHANGED <<open, shows, warm, routes, inspected, preempted, sent, blind, missed,
                 lost>>

\* The tab shows the device's dialog.
Arrives(j) ==
  /\ stage[j] = "arrive" /\ tab[j] \in open
  /\ shows' = [shows EXCEPT ![tab[j]] = DeviceOf[j]]
  /\ Step(j, "control")
  /\ UNCHANGED <<queue, tab, how, open, warm, routes, inspected, preempted, answered,
                 sent, blind, missed, lost>>

\* The remembered address leads to it, or is forgotten and the long way taken.
RouteLeadsThere(j) == how[j] = "route" /\ Arrives(j)

RouteInvalid(j) ==
  /\ stage[j] = "arrive" /\ how[j] = "route"
  /\ routes' = routes \ {DeviceOf[j]}
  /\ Close(tab[j]) /\ Release(j) /\ Step(j, "fresh")
  /\ UNCHANGED <<queue, answered, shows, warm, inspected, preempted, sent, blind,
                 missed, lost>>

\* findDeviceInRooms leads to it; a room that is not there yet is looked for once
\* more, in another tab; anything else ends the command.
RoomsLeadThere(j) == how[j] \in {"fresh", "again"} /\ Arrives(j)

RoomNotFound(j) ==
  /\ stage[j] = "arrive" /\ how[j] = "fresh"
  /\ Close(tab[j]) /\ Release(j) /\ Step(j, "again")
  /\ UNCHANGED <<queue, answered, routes, shows, warm, inspected, preempted, sent,
                 blind, missed, lost>>

TargetNotFound(j) ==
  /\ stage[j] = "arrive" /\ how[j] \in {"fresh", "again"}
  /\ Close(tab[j]) /\ Finish(j)
  /\ UNCHANGED <<routes, shows, warm, inspected, preempted, sent, blind, missed, lost>>

\* executeDeviceControl takes the dialog with the device's name for its scope.
FindsDialog(j) ==
  /\ stage[j] = "control"
  /\ tab[j] \in open /\ shows[tab[j]] = DeviceOf[j]
  /\ Step(j, "click")
  /\ UNCHANGED <<queue, tab, how, open, shows, warm, routes, inspected, preempted,
                 answered, sent, blind, missed, lost>>

\* What is left of the tab after an attempt that failed.
GivesUpTab(j) ==
  /\ open' = open \ ({tab[j]} \cup (IF how[j] = "warm" /\ warm # None THEN {warm.tab} ELSE {}))
  /\ warm' = IF how[j] = "warm" THEN None ELSE warm
  /\ routes' = IF how[j] = "route" THEN routes \ {DeviceOf[j]} ELSE routes
  /\ Release(j)

\* Mutant of AfterControlError: any failure leads to the next way.
NextWayAlways(j) ==
  CASE how[j] = "warm" -> "route" [] how[j] = "route" -> "fresh" [] OTHER -> "end"

\* Where command_control_not_found leads: to the next way, if there is one.
AfterControlMissing(j) ==
  CASE how[j] = "warm" -> "route" [] how[j] = "route" -> "fresh" [] OTHER -> "end"

\* Where any other failure leads: nowhere, for the click may have been made.
AfterControlError(j) == "end"

Continues(j, next) ==
  IF next = "end" THEN Ends(j) /\ Leaves(j)
  ELSE Step(j, next) /\ UNCHANGED <<answered, queue>>

\* The dialog shows no control of that name, or more than one of them.
ControlMissing(j) ==
  /\ stage[j] = "click" /\ GivesUpTab(j)
  /\ Continues(j, AfterControlMissing(j))
  /\ UNCHANGED <<shows, inspected, preempted, sent, blind, missed, lost>>

\* The dialog is gone, or the control is ambiguous or will not be clicked.
ControlError(j) ==
  /\ stage[j] \in {"control", "click"} /\ GivesUpTab(j)
  /\ Continues(j, AfterControlError(j))
  /\ UNCHANGED <<shows, inspected, preempted, sent, blind, missed, lost>>

\* Mutant of Scope: the control is looked for on the whole page.
ScopeIsThePage(j) == tab[j] \in open

\* dialogControlSurface: what is clicked is inside that dialog, as it is then.
Scope(j) == tab[j] \in open /\ shows[tab[j]] = DeviceOf[j]

\* The click, and whether Playwright says so.
Clicks(j) ==
  /\ stage[j] = "click" /\ Scope(j)
  /\ sent' = [sent EXCEPT ![j] = @ + 1]
  /\ missed' = missed + (IF shows[tab[j]] = DeviceOf[j] THEN 0 ELSE 1)
  /\ \/ /\ Finish(j)
        /\ IF how[j] = "warm"
           THEN /\ warm' = IF warm = None THEN None ELSE [warm EXCEPT !.expired = FALSE]
                /\ UNCHANGED <<routes, open>>
           ELSE /\ Remember(tab[j], DeviceOf[j])
                /\ IF KeepsWarm THEN UNCHANGED open ELSE Close(tab[j])
     \/ GivesUpTab(j) /\ Continues(j, AfterControlError(j))
  /\ UNCHANGED <<shows, inspected, preempted, blind, lost>>

-----------------------------------------------------------------------------
\* Scenes and location security, each in a tab of its own.

\* executeScene gives the warm tab up.
StartsScene(j) ==
  /\ Turn(j) /\ stage[j] = "queued" /\ j \in SceneOps
  /\ Invalidate /\ Step(j, "opening")
  /\ UNCHANGED <<queue, tab, how, shows, routes, inspected, preempted, answered, sent,
                 blind, missed, lost>>

\* executeLocationAction: the location may be in the mode already, or the keeper
\* page show the very location and be clicked in; else the warm tab is given up.
StartsSecurity(j) ==
  /\ Turn(j) /\ stage[j] = "queued" /\ j \in SecurityOps
  /\ \/ Step(j, "confirm") /\ UNCHANGED <<open, warm, sent>>
     \/ /\ Step(j, "confirm") /\ UNCHANGED <<open, warm>>
        /\ sent' = [sent EXCEPT ![j] = @ + 1]
     \/ Invalidate /\ Step(j, "opening") /\ UNCHANGED sent
  /\ UNCHANGED <<queue, tab, how, shows, routes, inspected, preempted, answered, blind,
                 missed, lost>>

\* The keeper page is ambiguous or behind a dialog, or the click in it failed.
KeeperRefuses(j) ==
  /\ Turn(j) /\ stage[j] = "queued" /\ j \in SecurityOps
  /\ Finish(j)
  /\ \E n \in {0, 1} : sent' = [sent EXCEPT ![j] = @ + n]
  /\ UNCHANGED <<open, shows, warm, routes, inspected, preempted, blind, missed, lost>>

\* openLocationPage: the tab is, or is brought, to the location.
ArrivesAtLocation(j) ==
  /\ stage[j] = "arrive" /\ how[j] = "opening" /\ tab[j] \in open
  /\ j \in Foreground
  /\ Step(j, IF j \in SceneOps THEN "scene" ELSE "security")
  /\ UNCHANGED <<queue, tab, how, open, shows, warm, routes, inspected, preempted,
                 answered, sent, blind, missed, lost>>

\* A login page, an unknown location, a picker without it: the tab is closed.
LocationUnreached(j) ==
  /\ stage[j] = "arrive" /\ how[j] = "opening"
  /\ Close(tab[j]) /\ Finish(j)
  /\ UNCHANGED <<shows, warm, routes, inspected, preempted, sent, blind, missed, lost>>

\* Nothing by that name on the page of the location, or the tab went before the
\* card was looked for: the page of the automations is looked at too.
SceneNotHere(j) ==
  /\ stage[j] = "scene" /\ Step(j, "automations")
  /\ UNCHANGED <<queue, tab, how, open, shows, warm, routes, inspected, preempted,
                 answered, sent, blind, missed, lost>>

\* The scene's one control is clicked, on either page, and the click has an answer:
\* made, or failed in Playwright's own words.  This ends the scene.
ClicksScene(j) ==
  /\ stage[j] \in {"scene", "automations"} /\ tab[j] \in open
  /\ sent' = [sent EXCEPT ![j] = @ + 1]
  /\ Close(tab[j]) /\ Finish(j)
  /\ UNCHANGED <<shows, warm, routes, inspected, preempted, blind, missed, lost>>

\* A click made inside an evaluation that is then lost, as when the click itself
\* leads the tab to another page: clickExactSceneCard, clickTextOnlyHomeMonitorAction
\* and clickHomeMonitorCardActionByText take it for a control that was not found,
\* and the next surface or the next way of the command is tried.
ClickUnseen(j) ==
  /\ stage[j] \in {"scene", "automations", "security"} /\ tab[j] \in open
  /\ blind[j] < TextWays
  /\ sent' = [sent EXCEPT ![j] = @ + 1] /\ blind' = [blind EXCEPT ![j] = @ + 1]
  /\ \/ /\ stage[j] = "scene" /\ Step(j, "automations")
        /\ UNCHANGED <<queue, tab, how, open, answered>>
     \/ stage[j] = "automations" /\ Close(tab[j]) /\ Finish(j)
     \/ stage[j] = "security" /\ UNCHANGED <<queue, stage, tab, how, open, answered>>
  /\ UNCHANGED <<shows, warm, routes, inspected, preempted, missed, lost>>

\* It is ambiguous, not found anywhere, or the tab is lost.
SceneFails(j) ==
  /\ stage[j] \in {"scene", "automations"}
  /\ Close(tab[j]) /\ Finish(j)
  /\ UNCHANGED <<shows, warm, routes, inspected, preempted, sent, blind, missed, lost>>

\* The mode is chosen in the tab, which stays with the queue until confirmed.  What a
\* transition clicks on the way (DISARMED first) is a step of HomeMonitor.
ClicksSecurity(j) ==
  /\ stage[j] = "security" /\ tab[j] \in open
  /\ Step(j, "confirm")
  /\ sent' = [sent EXCEPT ![j] = @ + 1]
  /\ UNCHANGED <<queue, tab, how, open, shows, warm, routes, inspected, preempted,
                 answered, blind, missed, lost>>

\* runLocationCommandSession: confirmed or not, or the mode could not be chosen,
\* or the click had no outcome.
SecurityOver(j) ==
  /\ stage[j] \in {"security", "confirm"} /\ j \in SecurityOps
  /\ \E n \in IF stage[j] = "security" /\ tab[j] \in open THEN {0, 1} ELSE {0} :
       sent' = [sent EXCEPT ![j] = @ + n]
  /\ open' = open \ {tab[j]} /\ Finish(j)
  /\ UNCHANGED <<shows, warm, routes, inspected, preempted, blind, missed, lost>>

-----------------------------------------------------------------------------
\* Inspections.

\* DeviceDetailDiscovery.runOne: one at a time, and none while commands are in
\* work or a tab is kept warm.  It enters the queue.
Inspect(b) ==
  /\ stage[b] = "new"
  /\ \A other \in Background : stage[other] = "new" \/ other \in answered
  /\ ~HasForegroundOperation /\ warm = None
  /\ queue' = Append(queue, b) /\ Step(b, "queued")
  /\ UNCHANGED <<tab, how, open, shows, warm, routes, inspected, preempted, answered,
                 sent, blind, missed, lost>>

StopsInspecting(b) == HasForegroundOperation \/ b \in preempted

StartsInspection(b) ==
  /\ Turn(b) /\ stage[b] = "queued" /\ b \in Background
  /\ IF StopsInspecting(b)
     THEN Finish(b)
     ELSE Step(b, "opening") /\ UNCHANGED <<queue, tab, how, answered>>
  /\ UNCHANGED <<open, shows, warm, routes, inspected, preempted, sent, blind, missed,
                 lost>>

\* The race with the preemption: the caller is answered and the queue goes on,
\* while the inspection finds out at its own next step.
Preempted(b) ==
  /\ Turn(b) /\ b \in preempted
  /\ stage[b] \in {"opening", "arrive", "detail", "settle"}
  /\ Leaves(b) /\ answered' = answered \cup {b}
  /\ UNCHANGED <<stage, tab, how, open, shows, warm, routes, inspected, preempted,
                 sent, blind, missed, lost>>

EndsInspection(b) ==
  /\ Close(tab[b]) /\ Finish(b)
  /\ inspected' = IF inspected = tab[b] THEN None ELSE inspected

\* The inspection's tab is there.  Asked to stop meanwhile, it closes it at once.
InspectionArrives(b) ==
  /\ stage[b] = "arrive" /\ b \in Background /\ tab[b] \in open
  /\ IF StopsInspecting(b)
     THEN Close(tab[b]) /\ Finish(b) /\ inspected' = None
     ELSE /\ Step(b, "detail") /\ inspected' = tab[b]
          /\ UNCHANGED <<queue, tab, how, open, answered>>
  /\ UNCHANGED <<shows, warm, routes, preempted, sent, blind, missed, lost>>

\* The device is opened for its data to be asked for, then left open a while.
Inspects(b) ==
  /\ stage[b] = "detail" /\ ~StopsInspecting(b) /\ tab[b] \in open
  /\ Step(b, "settle")
  /\ shows' = [shows EXCEPT ![tab[b]] = DeviceOf[b]]
  /\ UNCHANGED <<queue, tab, how, open, warm, routes, inspected, preempted, answered,
                 sent, blind, missed, lost>>

\* Done, or not to be done any more, or failed.
InspectionOver(b) ==
  /\ stage[b] \in {"detail", "settle"}
  /\ EndsInspection(b)
  /\ UNCHANGED <<shows, warm, routes, preempted, sent, blind, missed, lost>>

-----------------------------------------------------------------------------
ForegroundStep(j) ==
  \/ NativeUnavailable(j) \/ NativePatch(j) \/ NativeOver(j) \/ NativeFails(j)
  \/ SkipsExpired(j)
  \/ StartsDevice(j) \/ WarmPageFor(j) \/ RecoverWarmPage(j) \/ NoVerifiedRoute(j)
  \/ OpenCommandPage(j) \/ OpenFails(j) 
  \/ RouteLeadsThere(j) \/ RouteInvalid(j)
  \/ RoomsLeadThere(j) \/ RoomNotFound(j) \/ TargetNotFound(j)
  \/ FindsDialog(j) \/ ControlMissing(j) \/ ControlError(j) \/ Clicks(j)
  \/ StartsScene(j) \/ StartsSecurity(j) \/ KeeperRefuses(j)
  \/ ArrivesAtLocation(j) \/ LocationUnreached(j)
  \/ SceneNotHere(j) \/ ClicksScene(j) \/ ClickUnseen(j) \/ SceneFails(j)
  \/ ClicksSecurity(j) \/ SecurityOver(j)

BackgroundStep(b) ==
  \/ Inspect(b) \/ StartsInspection(b) \/ Preempted(b)
  \/ OpenCommandPage(b) \/ OpenFails(b) \/ InspectionArrives(b) \/ LocationUnreached(b)
  \/ Inspects(b) \/ InspectionOver(b)

Environment ==
  \/ \E t \in Tab : TabLost(t) \/ \E d \in Devices \cup {Elsewhere} : Wanders(t, d)
  \/ HasWarmCommandPage \/ WarmExpires \/ \E d \in Devices : RouteExpires(d)

Next ==
  \/ \E j \in Foreground : Requested(j) \/ QueueTimeout(j) \/ ForegroundStep(j)
  \/ \E b \in Background : BackgroundStep(b)
  \/ Environment

\* A foreground job goes on by timeouts of its own.  An inspection may hang at
\* any step; that it was asked to stop needs no answer of the browser.
Fairness ==
  /\ \A j \in Foreground : WF_vars(ForegroundStep(j))
  /\ \A b \in Background : WF_vars(Preempted(b) \/ StartsInspection(b))

Spec == Init /\ [][Next]_vars /\ Fairness

-----------------------------------------------------------------------------
\* Properties.

\* Whatever ways are tried, a device command leaves once at most, and only where the
\* device it is for was showing.  A scene or a security command leaves a second time
\* only after a click whose answer was lost, once for each of these.
OnceAndThere ==
  /\ \A j \in Foreground : sent[j] <= 1 + blind[j]
  /\ \A j \in DeviceOps : blind[j] = 0
  /\ missed = 0

\* That no command leaves twice whatever happens, which the comment of
\* home-monitor-native.ts:177 asks ("Never replay an uncertain pointer dispatch or
\* click a second candidate"), does not hold: ClickUnseen.
NeverReplayed == \A j \in Foreground : sent[j] <= 1

\* No tab is left behind: what is open is kept warm or some job's.
NothingLeftOpen ==
  open \subseteq {tab[j] : j \in Job} \cup (IF warm = None THEN {} ELSE {warm.tab})

\* Of a command whose caller has an answer nothing leaves any more.
NothingAfterAnswer ==
  [][\A j \in Foreground : sent'[j] # sent[j] => j \notin answered]_vars

\* A tab in use is taken away by nobody else: while a command works with it, only
\* its loss or the command's own step closes it.
TabIsItsOwn ==
  [][\A j \in DeviceOps :
       /\ stage[j] \in {"arrive", "control", "click"} /\ stage'[j] = stage[j]
       /\ tab[j] \in open /\ lost' = lost
       => tab[j] \in open']_vars

\* Whoever waits for the queue behind an inspection gets it, though the
\* inspection should hang.
ForegroundServed ==
  \A j \in Foreground : stage[j] = "queued" ~> stage[j] # "queued"

\* A command leaves once, but for clicks whose answer was lost, for the right device,
\* and leaves no tab behind.
TabsAndClicksAreKept == TypeOK /\ OnceAndThere /\ NothingLeftOpen

\* A command's tab is its own, nothing of it leaves after its answer, and an
\* inspection that hangs does not keep it from the queue.
CommandsHaveTheirTurn == NothingAfterAnswer /\ TabIsItsOwn /\ ForegroundServed
=============================================================================
