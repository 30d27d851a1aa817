--------------------------- MODULE BrowserRecovery ---------------------------
(***************************************************************************)
(* How the bridge keeps a browser, a push socket and a complete inventory. *)
(*                                                                         *)
(* Four parts of runtime.ts act on the same context: restartBrowser with   *)
(* its BrowserSupervisor, the maintenance round of the keeper interval, the*)
(* LocationRealtimeAdapter that recovers the socket, and the               *)
(* StateReconciliationCoordinator, which loads inventories for the start,  *)
(* for a recovered socket, for callers and for the StateSyncWatchdog.  Each*)
(* holds a context over its awaits; the context can die in any of them.    *)
(*                                                                         *)
(* Changes in the cloud are numbered; `known` are those the store has seen.*)
(* The shutdown is in InventoryPersistence, the tabs are in KeeperPages.   *)
(***************************************************************************)
EXTENDS FiniteSets, Naturals

CONSTANTS Ctx,         \* bound: browser contexts that are remembered at a time
          None,
          MaxRestarts, \* browserMaxRestarts
          MaxFaults,   \* bound: disturbances
          MaxChanges   \* bound: changes in the cloud

VARIABLES
  open,      \* contexts whose Chromium runs
  current, adopted,   \* currentContext; the context with a live close handler
  restart,   \* restartBrowser: where it waits, its context, failed launches
  retry,     \* nextBrowserRetryAtMs
  state, authed,      \* of the status store
  maint,     \* the maintenance round: running?, the context it began with
  recon,     \* the load in flight: its context, what it has read
  watch,     \* the watchdog: is a sync due?, its own request
  rt,        \* the adapter: its context, awaiting a frame, recover(), timers
  socket,    \* of the keeper's page: connecting, up, silent or down
  session, busy, cloud, known, faults

chromium == <<open, current, adopted, restart, retry>>
health == <<state, authed>>
loads == <<recon, watch>>
data == <<cloud, known>>
world == <<session, busy, faults>>
vars == <<chromium, health, maint, loads, rt, socket, data, world>>

Restarts == {"idle", "launch", "pause", "attach", "sync", "keeper"}
States == {"STARTING", "FAILED", "RECONNECTING", "LOGIN", "ONLINE"}

TypeOK ==
  /\ open \subseteq Ctx /\ {current, adopted} \subseteq Ctx \cup {None}
  /\ restart \in [pc : Restarts, ctx : Ctx \cup {None}, failed : 0..(MaxRestarts + 1)]
  /\ retry \in {"never", "later", "due"} /\ state \in States /\ authed \in BOOLEAN
  /\ maint \in [running : BOOLEAN, ctx : Ctx \cup {None}]
  /\ recon \in [pc : {"idle", "loading", "read"}, ctx : Ctx \cup {None}, upto : 0..MaxChanges]
  /\ watch \in [due : BOOLEAN, pc : {"idle", "waits", "backoff"}]
  /\ rt \in [ctx : Ctx \cup {None}, awaiting : BOOLEAN, recover : {"no", "going", "landed"},
             retry : BOOLEAN, frame : BOOLEAN]
  /\ socket \in {"new", "up", "silent", "down"} /\ session \in BOOLEAN /\ busy \in BOOLEAN
  /\ cloud \in 0..MaxChanges /\ known \subseteq 1..cloud /\ faults \in 0..MaxFaults

NoLoad == [pc |-> "idle", ctx |-> None, upto |-> 0]
NoRecovery(c) == [ctx |-> c, awaiting |-> FALSE, recover |-> "no", retry |-> FALSE, frame |-> FALSE]
NotRestarting == [pc |-> "idle", ctx |-> None, failed |-> 0]

Alive(c) == c # None /\ c \in open
Fault == faults < MaxFaults /\ faults' = faults + 1

(* statusForManagedKeeper, for a keeper whose page shows what the session  *)
(* permits.                                                                *)
Reported == authed' = session /\ state' = IF session THEN "ONLINE" ELSE "LOGIN"

Init ==
  /\ open = {} /\ current = None /\ adopted = None
  /\ restart = [pc |-> "launch", ctx |-> None, failed |-> 0] /\ retry = "never"
  /\ state = "STARTING" /\ authed = FALSE
  /\ maint = [running |-> FALSE, ctx |-> None] /\ recon = NoLoad
  /\ watch = [due |-> FALSE, pc |-> "idle"]
  /\ rt = NoRecovery(None) /\ socket = "down"
  /\ session \in BOOLEAN /\ busy = FALSE /\ cloud = 0 /\ known = {} /\ faults = 0

-----------------------------------------------------------------------------
(* BrowserSupervisor.start within restartBrowser.                          *)
Unused == {c \in Ctx \ open : c \notin {current, adopted, maint.ctx, recon.ctx, rt.ctx}}

StartsRestart ==
  /\ restart' = [pc |-> "launch", ctx |-> None, failed |-> 0]
  /\ state' = "STARTING"

(* A launch that failed: another one after the delay, or the retry timer.  *)
LaunchFails ==
  LET n == restart.failed + 1 IN
  IF n > MaxRestarts
  THEN restart' = NotRestarting /\ state' = "FAILED" /\ retry' = "later"
  ELSE /\ restart' = [pc |-> "pause", ctx |-> None, failed |-> n]
       /\ state' = "STARTING" /\ UNCHANGED retry

Launch ==
  /\ restart.pc = "launch"
  /\ \/ Fault /\ LaunchFails /\ UNCHANGED <<open, rt, socket>>
     \/ LET c == CHOOSE x \in Unused : TRUE IN
        /\ Unused # {} /\ open' = open \cup {c} /\ restart' = [restart EXCEPT !.pc = "attach", !.ctx = c]
        /\ rt' = NoRecovery(c) /\ socket' = "down"
        /\ UNCHANGED <<retry, state, faults>>
  /\ UNCHANGED <<current, adopted, authed, maint, loads, data, session, busy>>

PauseEnds ==
  /\ restart.pc = "pause" /\ restart' = [restart EXCEPT !.pc = "launch"]
  /\ UNCHANGED <<open, current, adopted, retry, health, maint, loads, rt, socket, data, world>>

(* StateReconciliationCoordinator.request: joins the load in flight.       *)
Request(c) ==
  recon' = IF recon.pc = "idle" THEN [pc |-> "loading", ctx |-> c, upto |-> 0] ELSE recon

(* launch closes the context that it could not attach.                     *)
LeftOpen == {}
ClosedOnFailure == {restart.ctx}

(* attachContext and what launch does after it: the keeper is opened, the  *)
(* context becomes the current one and the start inventory is asked for.   *)
Attach ==
  /\ restart.pc = "attach"
  /\ \/ /\ Alive(restart.ctx)
        /\ Reported /\ socket' = IF session THEN "new" ELSE "down"
        /\ current' = restart.ctx /\ restart' = [restart EXCEPT !.pc = "sync"]
        /\ Request(restart.ctx) /\ UNCHANGED <<open, retry, faults>>
     \/ /\ \/ ~Alive(restart.ctx) /\ UNCHANGED faults
           \/ Fault
        /\ LaunchFails /\ open' = open \ ClosedOnFailure /\ socket' = "down"
        /\ UNCHANGED <<current, authed, recon>>
  /\ UNCHANGED <<adopted, maint, watch, rt, data, session, busy>>

(* When the load ends launch returns; the close handler is put on.         *)
Adopts ==
  IF restart.pc = "sync"
  THEN /\ restart' = [restart EXCEPT !.pc = "keeper"]
       /\ adopted' = restart.ctx /\ retry' = "never"
  ELSE UNCHANGED <<restart, adopted, retry>>

(* reconcileActiveKeeper, the last thing restartBrowser waits for.         *)
KeeperReconciled ==
  /\ restart.pc = "keeper" /\ restart' = NotRestarting
  /\ IF current = restart.ctx /\ Alive(current) THEN Reported ELSE UNCHANGED health
  /\ UNCHANGED <<open, current, adopted, retry, maint, loads, rt, socket, data, world>>

(* The context closes, with the adapter that belongs to it.  Only a context*)
(* that has its handler is cleared and replaced.                           *)
HandlerActs(c) == c = adopted /\ c = current

ContextCloses ==
  /\ Fault
  /\ \E c \in open :
       /\ open' = open \ {c}
       /\ rt' = IF rt.ctx = c THEN NoRecovery(None) ELSE rt
       /\ socket' = IF c \in {current, restart.ctx} THEN "down" ELSE socket
       /\ IF HandlerActs(c)
          THEN /\ current' = None /\ authed' = FALSE
               /\ IF restart.pc = "idle" THEN StartsRestart
                  ELSE state' = "RECONNECTING" /\ UNCHANGED restart
          ELSE UNCHANGED <<current, health, restart>>
  /\ UNCHANGED <<adopted, retry, maint, loads, data, session, busy>>

RetryDue ==
  /\ retry = "later" /\ retry' = "due"
  /\ UNCHANGED <<open, current, adopted, restart, health, maint, loads, rt, socket, data, world>>

-----------------------------------------------------------------------------
(* LocationRealtimeAdapter.  What canRecover asks of the runtime:          *)
CanRecover ==
  /\ current = rt.ctx /\ ~busy /\ recon.pc = "idle" /\ ~maint.running
  /\ authed /\ session

RequestRecovery ==
  IF rt.ctx = None \/ rt.recover # "no" \/ rt.retry \/ rt.frame
  THEN UNCHANGED <<rt, state>>
  ELSE IF CanRecover
  THEN rt' = [rt EXCEPT !.awaiting = TRUE, !.recover = "going"] /\ state' = "RECONNECTING"
  ELSE rt' = [rt EXCEPT !.retry = TRUE] /\ UNCHANGED state

(* recoverKeeper() goes to the location again: a new document, a new socket.*)
Navigate ==
  /\ rt.recover = "going" /\ Alive(rt.ctx) /\ ~busy /\ recon.pc = "idle"
  /\ rt' = [rt EXCEPT !.recover = "landed"]
  /\ socket' = IF session THEN "new" ELSE "down"
  /\ UNCHANGED <<chromium, health, maint, loads, data, world>>

Connects ==
  /\ socket = "new" /\ Alive(rt.ctx)
  /\ \/ socket' = "up" /\ UNCHANGED faults
     \/ Fault /\ socket' = "silent"
  /\ UNCHANGED <<chromium, health, maint, loads, rt, data, session, busy>>

(* Its result: wait for a frame, or try again later.  It is deferred while *)
(* a command works, an inventory loads or the session is not accepted.     *)
RecoverEnds ==
  /\ rt.recover # "no"
  /\ \/ /\ rt.recover = "landed" /\ Reported /\ UNCHANGED faults
        /\ rt' = [rt EXCEPT !.recover = "no", !.frame = rt.awaiting]
     \/ /\ \/ /\ rt.recover = "going" /\ (busy \/ ~session \/ recon.pc # "idle")
              /\ UNCHANGED faults
           \/ Fault
        /\ rt' = [rt EXCEPT !.recover = "no", !.retry = rt.awaiting]
        /\ UNCHANGED health
  /\ UNCHANGED <<chromium, maint, loads, socket, data, session, busy>>

FrameTimeout ==
  /\ rt.frame /\ rt' = [rt EXCEPT !.frame = FALSE, !.retry = TRUE]
  /\ UNCHANGED <<chromium, health, maint, loads, socket, data, world>>

RetryFires ==
  /\ rt.retry
  /\ IF CanRecover
     THEN /\ rt' = [rt EXCEPT !.retry = FALSE, !.awaiting = TRUE, !.recover = "going"]
          /\ state' = "RECONNECTING"
     ELSE UNCHANGED <<rt, state>>
  /\ UNCHANGED <<chromium, authed, maint, loads, socket, data, world>>

(* A frame of the keeper's socket: the subscription is back, and whatever  *)
(* was missed meanwhile is asked for.                                      *)
Observed ==
  IF rt.awaiting
  THEN /\ rt' = [rt EXCEPT !.awaiting = FALSE, !.retry = FALSE, !.frame = FALSE]
       /\ Request(current)
  ELSE UNCHANGED <<rt, recon>>

Listening == socket = "up" /\ Alive(rt.ctx) /\ rt.ctx = current

Frame ==
  /\ Listening /\ rt.awaiting /\ Observed
  /\ UNCHANGED <<chromium, health, maint, watch, socket, data, world>>

CloudChanges ==
  /\ cloud < MaxChanges /\ cloud' = cloud + 1
  /\ IF Listening THEN known' = known \cup {cloud'} /\ Observed
                  ELSE UNCHANGED <<known, rt, recon>>
  /\ UNCHANGED <<chromium, health, maint, watch, socket, world>>

SocketCloses ==
  /\ Fault /\ Listening /\ socket' = "down" /\ RequestRecovery
  /\ UNCHANGED <<chromium, authed, maint, loads, data, session, busy>>

(* A socket that stays open and delivers nothing.                          *)
SocketSilent ==
  /\ Fault /\ Listening /\ socket' = "silent"
  /\ UNCHANGED <<chromium, health, maint, loads, rt, data, session, busy>>

(* The application reconnects, or the user's sign-in leads to it.          *)
PageReconnects ==
  /\ socket \in {"silent", "down"} /\ Alive(rt.ctx) /\ rt.ctx = current /\ session /\ socket' = "up"
  /\ UNCHANGED <<chromium, health, maint, loads, rt, data, world>>

-----------------------------------------------------------------------------
(* The load in flight.  It fails when its context is no longer the current *)
(* one; whoever joined it gets its result.                                 *)
ReadInventory ==
  /\ recon.pc = "loading" /\ Alive(recon.ctx) /\ session
  /\ recon' = [recon EXCEPT !.pc = "read", !.upto = cloud]
  /\ UNCHANGED <<chromium, health, maint, watch, rt, socket, data, world>>

SameContextUnchecked == TRUE
SameContext == recon.ctx = current

Watched(ok) ==
  watch' = [due |-> watch.due /\ ~ok,
            pc |-> IF watch.pc = "waits" THEN IF ok THEN "idle" ELSE "backoff" ELSE watch.pc]

Loaded ==
  /\ recon.pc = "read" /\ SameContext
  /\ known' = known \cup 1..recon.upto
  /\ recon' = NoLoad /\ Watched(TRUE) /\ Adopts
  /\ UNCHANGED <<open, current, health, maint, rt, socket, cloud, world>>

LoadFails ==
  /\ recon.pc # "idle"
  /\ \/ (~Alive(recon.ctx) \/ ~session \/ ~SameContext) /\ UNCHANGED faults
     \/ Fault
  /\ recon' = NoLoad /\ Watched(FALSE) /\ Adopts
  /\ UNCHANGED <<open, current, health, maint, rt, socket, data, session, busy>>

(* Callers: a reload, or a command that wants a complete inventory.        *)
CallerRequests ==
  /\ Fault /\ recon.pc = "idle" /\ Request(current)
  /\ UNCHANGED <<chromium, health, maint, watch, rt, socket, data, session, busy>>

(* StateSyncWatchdog: after a quiet time, or after the interval.           *)
WatchDue ==
  /\ \/ ~watch.due /\ watch.pc = "idle" /\ watch' = [watch EXCEPT !.due = TRUE]
     \/ watch.pc = "backoff" /\ watch' = [watch EXCEPT !.pc = "idle"]
  /\ UNCHANGED <<chromium, health, maint, recon, rt, socket, data, world>>

CanSyncPushed == socket = "up" /\ current # None /\ authed /\ ~busy /\ ~maint.running
CanSync == current # None /\ authed /\ session /\ state # "FAILED" /\ ~busy /\ ~maint.running

WatchTick ==
  /\ watch.due /\ watch.pc = "idle" /\ CanSync
  /\ watch' = [watch EXCEPT !.pc = "waits"] /\ Request(current)
  /\ UNCHANGED <<chromium, health, maint, rt, socket, data, world>>

-----------------------------------------------------------------------------
(* The keeper interval: a stale socket, the retry of a failed start, else a*)
(* maintenance round, which looks at the keeper's page.                    *)
StaleWhenClosed == current # None /\ authed /\ state \in {"ONLINE", "RECONNECTING"} /\ socket = "down"
Stale == current # None /\ authed /\ state \in {"ONLINE", "RECONNECTING"} /\ socket \notin {"new", "up"}

RecoverStale ==
  /\ ~maint.running /\ Stale /\ RequestRecovery
  /\ UNCHANGED <<chromium, authed, maint, loads, socket, data, world>>

RetryDueIgnored == FALSE
RetryStart == state = "FAILED" /\ retry = "due"

RetryRestart ==
  /\ ~maint.running /\ RetryStart /\ restart.pc = "idle" /\ StartsRestart
  /\ UNCHANGED <<open, current, adopted, retry, authed, maint, loads, rt, socket, data, world>>

MaintStarts ==
  /\ ~maint.running /\ ~RetryStart /\ current # None
  /\ maint' = [running |-> TRUE, ctx |-> current]
  /\ UNCHANGED <<chromium, health, loads, rt, socket, data, world>>

MaintEnds ==
  /\ maint.running /\ maint' = [running |-> FALSE, ctx |-> None]
  /\ IF maint.ctx = current /\ Alive(current) THEN Reported ELSE UNCHANGED health
  /\ UNCHANGED <<chromium, loads, rt, socket, data, world>>

-----------------------------------------------------------------------------
SessionEnds ==
  /\ Fault /\ session /\ session' = FALSE /\ socket' = "down"
  /\ UNCHANGED <<chromium, health, maint, loads, rt, data, busy>>
UserSignsIn ==
  /\ ~session /\ session' = TRUE
  /\ UNCHANGED <<chromium, health, maint, loads, rt, socket, data, busy, faults>>
CommandStarts ==
  /\ Fault /\ ~busy /\ busy' = TRUE
  /\ UNCHANGED <<chromium, health, maint, loads, rt, socket, data, session>>
CommandEnds ==
  /\ busy /\ busy' = FALSE
  /\ UNCHANGED <<chromium, health, maint, loads, rt, socket, data, session, faults>>

Restarting == Launch \/ PauseEnds \/ Attach \/ KeeperReconciled \/ RetryDue
Recovering == Navigate \/ Connects \/ RecoverEnds \/ FrameTimeout \/ RetryFires \/ Frame \/ RecoverStale
Loading == ReadInventory \/ Loaded \/ LoadFails \/ WatchDue \/ WatchTick
Keeping == RetryRestart \/ MaintStarts \/ MaintEnds
Disturbing == ContextCloses \/ SocketCloses \/ SocketSilent \/ PageReconnects \/ CallerRequests
              \/ SessionEnds \/ UserSignsIn \/ CommandStarts \/ CommandEnds \/ CloudChanges

Next == Restarting \/ Recovering \/ Loading \/ Keeping \/ Disturbing

(* Calls to the browser and the site come back, timers run out and the     *)
(* intervals tick.  A round of maintenance and a load are short against    *)
(* what lies between two of them, so that not every timer and not every    *)
(* navigation falls into one.                                              *)
Fairness ==
  /\ WF_vars(Launch) /\ WF_vars(PauseEnds) /\ WF_vars(Attach) /\ WF_vars(KeeperReconciled)
  /\ WF_vars(RetryDue) /\ SF_vars(RetryRestart)
  /\ SF_vars(Navigate) /\ WF_vars(Connects) /\ WF_vars(RecoverEnds) /\ WF_vars(FrameTimeout)
  /\ SF_vars(RetryFires) /\ WF_vars(Frame) /\ SF_vars(RecoverStale)
  /\ WF_vars(ReadInventory) /\ WF_vars(Loaded \/ LoadFails)
  /\ WF_vars(WatchDue) /\ SF_vars(WatchTick)
  /\ WF_vars(MaintStarts) /\ WF_vars(MaintEnds) /\ WF_vars(CommandEnds)

Spec == Init /\ [][Next]_vars /\ Fairness

-----------------------------------------------------------------------------
(* docs/SESSION_CONTINUITY_1.8.30.md:18: two Chromiums never run at once on*)
(* the profile; and the runtime's current context is the one that runs,    *)
(* unless the death of one went unnoticed.                                 *)
OneChromium == TypeOK /\ Cardinality(open) <= 1

(* An inventory that was read in one context never reaches the store after *)
(* another one, or none, took its place: a load that outlived its browser  *)
(* is dropped.                                                             *)
LoadsAreCurrent ==
  [][known' # known /\ cloud' = cloud => recon.ctx = current /\ recon.ctx = current']_vars

(* While a browser serves for good, the store learns of every change, also *)
(* of those that no frame announced because the socket was down, silent or *)
(* new, or whose reconciliation joined an older load.                      *)
Serving == Alive(current) /\ authed /\ session
CatchesUp == <>[]Serving => <>[](known = 1..cloud)

(* And its push socket comes back, whatever made it stop.                  *)
SocketReturns == <>[]Serving => []<>(socket = "up")

(* docs/architecture.md:9: after the first recovered frame one complete    *)
(* reconciliation runs: one that reads after the socket came back.         *)
GapReconciled ==
  [][rt.awaiting /\ rt'.ctx = rt.ctx /\ ~rt'.awaiting => recon'.pc = "loading"]_vars

(* CHANGELOG.md:354: when the immediate attempts to start the browser are  *)
(* used up, the bridge goes on trying.                                     *)
FailedStartIsRetried == state = "FAILED" ~> state # "FAILED"

(* bridge/tests/runtime.test.ts:3110, "recovers after context close":      *)
(* there is always a browser again.                                        *)
BrowserComesBack == []<>Alive(current)

(* A browser that broke, or lost its socket, serves again in the end.       *)
BrowserIsMadeGood == CatchesUp /\ SocketReturns /\ FailedStartIsRetried
=============================================================================
