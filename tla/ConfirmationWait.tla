-------------------------- MODULE ConfirmationWait --------------------------
(***************************************************************************)
(* One command waiting for its confirmation: waitForPredicate of           *)
(* command-service.ts with the predicates of its callers, the recheck      *)
(* schedules of light-state-rechecks.ts and location-rechecks.ts, and the  *)
(* way #executeDevice, #executeLight, #executeScene and #executeLocation   *)
(* create the wait, send the command, and start the timeout or cancel.     *)
(*                                                                         *)
(* The target's state is one value that is wanted or not, with the time of *)
(* its last change; a vector, light plan or scene is wanted as a whole.    *)
(* Once the wait has settled nothing it still does has an effect.          *)
(***************************************************************************)
EXTENDS Naturals, FiniteSets

CONSTANTS
  Kinds,      \* the kinds of wait to consider, a subset of AllKinds
  MaxTime,    \* bound: changes of the device and the send
  MaxReads,   \* bound: rechecks of one wait (eight offsets in the code)
  MaxEvents,  \* bound: other devices' changes come while seq is below it
  NoEvidence

AllKinds == {"state", "light", "location", "vector", "scene", "sceneAgain",
             "any", "refresh"}

Values == {"want", "other"}
CommandIds == {"own", "foreign", "none"}
Flights == {"recheck", "final"}

VARIABLES
  kind, stable, early, \* the options of the wait: predicates, stabilityMs > 0
                       \* and resyncAfterMs given
  device,      \* the device itself: its value and when it took it
  now,         \* the time of the latest change or send
  mail,        \* push events under way to the bridge
  cache,       \* what DeviceStore holds for the target
  seq,         \* the store's sequence
  before,      \* the cached state when the wait was created
  sending,     \* the executor has been called and has not answered
  sentAt,      \* when the command left, 0 before
  receipt,     \* what the executor's answer gave: minimum event time, command id
  wait,        \* settled, interactionComplete, pendingEvidence, stabilityTimer
  timer,       \* the timeout: "off", "armed" or "fired"
  flights,     \* reads under way: stage, state at the start, minimumSequence
  reads,       \* rechecks started
  lastResync,  \* lastResyncStartedAfterSequence
  held,        \* history: the device had the wanted value at or after the send
  broken       \* history: the cache held another value since the stability
               \* window opened

options == <<kind, stable, early>>
storeVars == <<cache, seq>>
sendVars == <<sending, sentAt, receipt>>
readVars == <<flights, reads, lastResync>>
vars == <<kind, stable, early, device, now, mail, cache, seq, before, sending,
          sentAt, receipt, wait, timer, flights, reads, lastResync, held, broken>>

Dated == [value : Values, at : 0..MaxTime]
Events == [value : Values, at : 0..MaxTime, id : CommandIds]
(* source is "inventory_snapshot" for inventory events and reads. *)
Evidence == [source : {"event", "inventory_snapshot"}, at : 0..MaxTime,
             id : CommandIds, by : {"push", "read", "snapshot"}]
ASSUME ConfirmationWaitAssumption ==
  /\ Kinds \subseteq AllKinds
  /\ {MaxTime, MaxReads} \subseteq Nat \ {0} /\ MaxEvents \in Nat
  /\ NoEvidence \notin Evidence

Outcomes == {"waiting", "confirmed", "timeout", "cancelled"}
NoFlight == [stage |-> "idle", from |-> [value |-> "other", at |-> 0],
            current |-> TRUE, min |-> 0]
Ended(stage, min) == [stage |-> stage, from |-> NoFlight.from, current |-> TRUE, min |-> min]
Done == Ended("done", 0)

TypeOK ==
  /\ kind \in Kinds /\ stable \in BOOLEAN /\ early \in BOOLEAN
  /\ device \in Dated /\ now \in 0..MaxTime
  /\ mail \subseteq Events
  /\ cache \in Dated /\ before \in Dated /\ seq \in Nat
  /\ sending \in BOOLEAN /\ sentAt \in 0..MaxTime
  /\ receipt \in [minimum : 0..MaxTime, id : {"own", "unknown"}]
  /\ wait \in [outcome : Outcomes, complete : BOOLEAN,
               pending : Evidence \cup {NoEvidence}, stabilizing : BOOLEAN,
               proof : Evidence \cup {NoEvidence}]
  /\ timer \in {"off", "armed", "fired"}
  /\ flights \in [Flights -> [stage : {"idle", "reading", "steadying", "done"},
                              from : Dated, current : BOOLEAN, min : Nat]]
  /\ reads \in 0..MaxReads /\ lastResync \in Nat
  /\ held \in BOOLEAN /\ broken \in BOOLEAN

-----------------------------------------------------------------------------
(* The predicates the callers of waitForPredicate give it; c is the cache. *)

Bounded(k) == k \in {"state", "light", "location"}
ForceFinal(k) == k = "vector"
Plain(k) == ~Bounded(k) /\ ~ForceFinal(k)

Updated(c) == c.value # before.value \/ c.at > before.at

(* type is "state" for a device event, "inventory" otherwise. *)
Matches(type, value, c) ==
  \/ kind = "state" /\ IF type = "state" THEN value = "want"
                       ELSE Updated(c) /\ c.value = "want"
  \/ kind = "light" /\ Updated(c) /\ c.value = "want"
  \/ kind = "location" /\ type = "inventory" /\ c # before /\ c.value = "want"
  \/ kind = "scene" /\ IF type = "state" THEN value = "want" ELSE c.value = "want"
  \/ kind = "sceneAgain" /\ type = "state" /\ value = "want"
  \/ kind \in {"any", "refresh"} /\ type = "state"

Invalidates(type, value, c) ==
  \/ kind \in {"state", "scene"} /\ IF type = "state" THEN value # "want" ELSE c.value # "want"
  \/ kind = "light" /\ c.value # "want"
  \/ kind = "location" /\ type = "inventory" /\ c.value # "want"
  \/ kind = "sceneAgain" /\ type = "state" /\ value # "want"

MatchesSnapshot(c) ==
  c.value = "want" /\ (kind = "scene" \/ (kind \in {"state", "light"} /\ Updated(c)))

(* current: the read began no earlier than minResyncStartedAtMs. *)
AcceptsResync(current, observed, c) ==
  /\ current /\ kind \notin {"scene", "any"}
  /\ kind # "refresh" => c.value = "want"
  /\ kind \in {"state", "light", "location"} => observed.value = "want"

(* Mutant of AcceptsEvidence: the time of the event is not compared. *)
AcceptsOldEvidence(e, r) ==
  kind = "state" /\ e.source = "event" /\ r.id = "own" => e.id # "foreign"

(* acceptsEvidence: only waitForState judges the time and the command id. *)
AcceptsEvidence(e, r) ==
  kind = "state" /\ e.source = "event" =>
    /\ e.at > r.minimum
    /\ r.id = "own" => e.id # "foreign"

-----------------------------------------------------------------------------
(* The functions of waitForPredicate, on the record wait. *)

Settle(w, outcome, proof) ==
  [outcome |-> outcome, complete |-> w.complete, pending |-> w.pending, stabilizing |-> FALSE,
   proof |-> proof]

ResolvePending(w, r) ==
  IF w.outcome # "waiting" \/ ~w.complete \/ w.pending = NoEvidence THEN w
  ELSE IF ~AcceptsEvidence(w.pending, r) THEN [w EXCEPT !.pending = NoEvidence]
  ELSE IF stable THEN [w EXCEPT !.stabilizing = TRUE]
  ELSE Settle(w, "confirmed", w.pending)

(* Mutants of Observe: a contradiction leaves what was pending, or only the *)
(* stability timer, as it is.                                               *)
ObserveKeepsPending(w, type, event, c) ==
  IF w.outcome # "waiting" \/ ~Matches(type, event.value, c) THEN w
  ELSE ResolvePending(
         [w EXCEPT !.pending =
            [source |-> IF type = "state" THEN "event" ELSE "inventory_snapshot",
             at |-> event.at, id |-> event.id, by |-> "push"]], receipt)

ObserveKeepsTimer(w, type, event, c) ==
  IF w.outcome = "waiting" /\ Invalidates(type, event.value, c)
  THEN [w EXCEPT !.pending = NoEvidence]
  ELSE ObserveKeepsPending(w, type, event, c)

(* The subscriber. *)
Observe(w, type, event, c) ==
  IF w.outcome # "waiting" THEN w
  ELSE IF Invalidates(type, event.value, c)
  THEN [outcome |-> w.outcome, complete |-> w.complete, pending |-> NoEvidence,
        stabilizing |-> FALSE, proof |-> w.proof]
  ELSE IF ~Matches(type, event.value, c) THEN w
  ELSE ResolvePending(
         [w EXCEPT !.pending =
            [source |-> IF type = "state" THEN "event" ELSE "inventory_snapshot",
             at |-> event.at, id |-> event.id, by |-> "push"]], receipt)

ReadProof(c) == [source |-> "inventory_snapshot", at |-> c.at, id |-> "none",
                 by |-> "read"]
SnapshotProof(c) == [source |-> "inventory_snapshot", at |-> c.at, id |-> "none",
                     by |-> "snapshot"]

(* The second half of settleFromSnapshot. *)
SettleFromSnapshot(w, c, s, min) ==
  IF w.outcome = "waiting" /\ MatchesSnapshot(c) /\ s > min
  THEN Settle(w, "confirmed", SnapshotProof(c))
  ELSE w

(* The store takes a dated state only when it is newer. *)
Merge(c, d) == IF d.at > c.at THEN [value |-> d.value, at |-> d.at] ELSE c

(* The push events that can still tell the store something. *)
Newer(c) == {event \in mail : event.at > c.at}

(* Which type of event the store publishes for a push about the target. *)
PushType == IF kind = "location" THEN "inventory" ELSE "state"

-----------------------------------------------------------------------------

Init ==
  /\ kind \in Kinds
  /\ stable \in IF kind \in {"state", "light"} THEN BOOLEAN ELSE {FALSE}
  /\ early \in BOOLEAN
  /\ device \in [value : Values, at : {1}]
  /\ cache \in [value : Values, at : {0}] \cup {device}
  /\ kind = "scene" => cache.value # "want"
  /\ kind = "sceneAgain" => cache.value = "want"
  /\ now = 1
  /\ mail = IF cache = device THEN {}
            ELSE {[value |-> device.value, at |-> device.at, id |-> "none"]}
  /\ seq = 0
  /\ before = cache
  /\ sending = FALSE /\ sentAt = 0
  /\ receipt = [minimum |-> cache.at, id |-> "unknown"]
  /\ wait = [outcome |-> "waiting", complete |-> FALSE, pending |-> NoEvidence,
             stabilizing |-> FALSE, proof |-> NoEvidence]
  /\ timer = "off"
  /\ flights = [f \in Flights |-> NoFlight]
  /\ reads = 0 /\ lastResync = 0
  /\ held = FALSE
  /\ broken = FALSE

Waiting == wait.outcome = "waiting"

(* History: a window that opens starts unbroken; another value breaks it.   *)
Watch(w, c) ==
  broken' = IF w.stabilizing /\ ~wait.stabilizing THEN FALSE
            ELSE broken \/ (stable /\ wait.stabilizing /\ c.value # "want")

(* The device changes by itself, by another client, or by our command; the  *)
(* command id of an event is looked at only where it could confirm.         *)
DeviceChange ==
  /\ Waiting /\ now < MaxTime
  /\ \E v \in Values, id \in CommandIds :
       /\ id # "none" => kind = "state" /\ v = "want"
       /\ id = "own" => sentAt > 0
       /\ device' = [value |-> v, at |-> now + 1]
       /\ mail' = mail \cup {[value |-> v, at |-> now + 1, id |-> id]}
  /\ now' = now + 1
  /\ held' = (held \/ (sentAt > 0 /\ device'.value = "want"))
  /\ UNCHANGED <<options, storeVars, before, sendVars, wait, timer, readVars, broken>>

(* A push event arrives, late or out of order; a lost one never does.  An   *)
(* event without a semantic change is published to the confirmation         *)
(* listeners only, one sequence ahead; the store drops an older one.        *)
DeliverPush ==
  /\ Waiting
  /\ \E event \in mail :
       /\ event.at > cache.at
       /\ cache' = Merge(cache, event)
       /\ seq' = IF kind = "location" \/ event.value # cache.value \/ event.id # "none"
                 THEN seq + 1 ELSE seq
       /\ wait' = Observe(wait, PushType, event, cache')
  /\ mail' = Newer(cache')
  /\ Watch(wait', cache')
  /\ UNCHANGED <<options, device, now, before, sendVars, timer, readVars, held>>

(* A snapshot from elsewhere (a watchdog read, another client's frame): the *)
(* device as it is or was, or another device's change.                      *)
Inventory ==
  /\ Waiting
  /\ \E d \in {device, cache} \cup {[value |-> e.value, at |-> e.at] : e \in mail} :
       /\ d = cache => seq < MaxEvents
       /\ d # cache => d.at > cache.at
       /\ cache' = d
  /\ seq' = seq + 1
  /\ wait' = Observe(wait, "inventory",
                     [value |-> cache'.value, at |-> cache'.at, id |-> "none"], cache')
  /\ mail' = Newer(cache')
  /\ Watch(wait', cache')
  /\ UNCHANGED <<options, device, now, before, sendVars, timer, readVars, held>>

(* The executor is called. *)
Send ==
  /\ Waiting /\ ~sending /\ ~wait.complete /\ now < MaxTime
  /\ sending' = TRUE
  /\ sentAt' = now + 1 /\ now' = now + 1
  /\ held' = (device.value = "want")
  /\ UNCHANGED <<options, device, mail, storeVars, before, receipt, wait, timer,
                 readVars, broken>>

(* An Advanced receipt has a send time and perhaps a command id, a DOM or   *)
(* native execution has neither.  Only waitForState looks at it.            *)
Receipts == {receipt} \cup
  (IF kind = "state" THEN [minimum : {sentAt}, id : {"own", "unknown"}] ELSE {})

(* Mutant of Receive: evidence that is already there is not looked at. *)
ReceiveOnly ==
  /\ Waiting /\ sending
  /\ sending' = FALSE
  /\ receipt' \in Receipts
  /\ wait' = [wait EXCEPT !.complete = TRUE]
  /\ timer' = "armed"
  /\ UNCHANGED <<options, device, now, mail, storeVars, before, sentAt, readVars,
                 held, broken>>

(* It answers; startTimeout follows at once. *)
Receive ==
  /\ Waiting /\ sending
  /\ sending' = FALSE
  /\ receipt' \in Receipts
  /\ wait' = ResolvePending([wait EXCEPT !.complete = TRUE], receipt')
  /\ timer' = "armed"
  /\ Watch(wait', cache)
  /\ UNCHANGED <<options, device, now, mail, storeVars, before, sentAt, readVars, held>>

(* It throws; the caller's signal is aborted (light plans only); or a read  *)
(* shows the wanted switch state with an older date than the state in the   *)
(* cache, and the command ends as accepted but unconfirmed.                 *)
Cancel ==
  /\ Waiting
  /\ \/ sending
     \/ kind = "light" /\ sentAt > 0
     \/ kind = "state" /\ flights["recheck"].stage = "reading" /\ cache.value # "want"
  /\ wait' = Settle(wait, "cancelled", NoEvidence)
  /\ UNCHANGED <<options, device, now, mail, storeVars, before, sendVars, timer,
                 readVars, held, broken>>

-----------------------------------------------------------------------------
(* Reads.  None starts before the executor has answered, and a bounded      *)
(* schedule never has two of them.                                          *)

StartRead(f) ==
  /\ flights[f].stage \in {"idle", "done"}
  /\ \E current \in BOOLEAN :
       flights' = [flights EXCEPT ![f] = [stage |-> "reading", from |-> device,
                                          current |-> current, min |-> 0]]
  /\ lastResync' = seq

(* Mutant of MayRead: one recheck more than there are offsets. *)
MayReadOnceMore(f) ==
  Bounded(kind) /\ f = "recheck" /\ reads <= (IF early THEN MaxReads ELSE 1)

(* The schedules: early offsets and a last one; vectors read early and      *)
(* last, without waiting for each other; the others read early only.        *)
MayRead(f) ==
  \/ Bounded(kind) /\ f = "recheck" /\ reads < (IF early THEN MaxReads ELSE 1)
  \/ ForceFinal(kind) /\ f = "recheck" /\ early /\ reads = 0
  \/ ForceFinal(kind) /\ f = "final" /\ flights[f].stage = "idle"
  \/ Plain(kind) /\ f = "recheck" /\ early /\ reads = 0

Recheck(f) ==
  /\ Waiting /\ timer = "armed"
  /\ MayRead(f)
  /\ StartRead(f)
  /\ reads' = IF f = "recheck" THEN reads + 1 ELSE reads
  /\ UNCHANGED <<options, device, now, mail, storeVars, before, sendVars, wait,
                 timer, held, broken>>

(* What the read saw: the target at some moment since the read began.  A    *)
(* read that joined one already under way may have seen it earlier.         *)
Seen(f) == {flights[f].from, device} \cup (IF flights[f].current THEN {} ELSE {before})

(* Mutant of LastCheck: the timeout's own read ends nothing. *)
NoLastCheck(w, c, s) == w

(* A plain wait that already timed out ends with its last check. *)
LastCheck(w, c, s) ==
  IF Plain(kind) /\ timer = "fired" /\ w.outcome = "waiting"
  THEN LET v == SettleFromSnapshot(w, c, s, lastResync)
       IN  IF v.outcome = "waiting" THEN Settle(v, "timeout", NoEvidence) ELSE v
  ELSE w

(* resync failed: only the snapshot is looked at.  Otherwise the store has  *)
(* merged what was read (and told its listeners) before the evidence is     *)
(* judged, then the snapshot.                                               *)
ReadDone(f, ok, seen) ==
  LET c == IF ok THEN Merge(cache, seen) ELSE cache
      s == IF c # cache THEN seq + 1 ELSE seq
      merged == IF c # cache
                THEN Observe(wait, "inventory",
                             [value |-> c.value, at |-> c.at, id |-> "none"], c)
                ELSE wait
      accepted == /\ ok /\ merged.outcome = "waiting"
                  /\ AcceptsResync(flights[f].current, seen, c)
      steadies == /\ ~accepted /\ merged.outcome = "waiting"
                  /\ MatchesSnapshot(c) /\ stable
      judged == IF accepted
                THEN ResolvePending([merged EXCEPT !.pending = ReadProof(c)], receipt)
                ELSE IF steadies THEN merged
                ELSE SettleFromSnapshot(merged, c, s, lastResync)
  IN  /\ Waiting /\ flights[f].stage = "reading"
      /\ cache' = c /\ seq' = s /\ mail' = Newer(c)
      /\ wait' = LastCheck(judged, c, s)
      /\ flights' = [flights EXCEPT ![f] =
                       IF steadies THEN Ended("steadying", lastResync) ELSE Done]
      /\ Watch(wait', c)
      /\ UNCHANGED <<options, device, now, before, sendVars, timer, reads,
                     lastResync, held>>

(* settleFromSnapshot has slept for stabilityMs and looks again. *)
SteadyDone(f) ==
  /\ Waiting /\ flights[f].stage = "steadying"
  /\ wait' = SettleFromSnapshot(wait, cache, seq, flights[f].min)
  /\ flights' = [flights EXCEPT ![f] = Done]
  /\ UNCHANGED <<options, device, now, mail, storeVars, before, sendVars, timer,
                 reads, lastResync, held, broken>>

(* The stability timer. *)
StabilityElapsed ==
  /\ Waiting /\ wait.stabilizing
  /\ wait' = IF wait.pending = NoEvidence THEN [wait EXCEPT !.stabilizing = FALSE]
             ELSE Settle(wait, "confirmed", wait.pending)
  /\ UNCHANGED <<options, device, now, mail, storeVars, before, sendVars, timer,
                 readVars, held, broken>>

(* The timeout.  A plain wait without an early read starts its only read    *)
(* now and ends when that read does.                                        *)
Timeout ==
  /\ Waiting /\ timer = "armed"
  /\ timer' = "fired"
  /\ IF Plain(kind) /\ ~early
     THEN /\ StartRead("recheck")
          /\ UNCHANGED <<wait, reads>>
     ELSE /\ LET w == IF Plain(kind)
                      THEN SettleFromSnapshot(wait, cache, seq, lastResync) ELSE wait
             IN  wait' = IF w.outcome = "waiting"
                         THEN Settle(w, "timeout", NoEvidence) ELSE w
          /\ UNCHANGED readVars
  /\ UNCHANGED <<options, device, now, mail, storeVars, before, sendVars, held, broken>>

EndRead(f) ==
  \/ ReadDone(f, FALSE, cache)
  \/ \E seen \in Seen(f) : ReadDone(f, TRUE, seen)

Next ==
  \/ DeviceChange \/ DeliverPush \/ Inventory
  \/ Send \/ Receive \/ Cancel
  \/ \E f \in Flights : Recheck(f) \/ EndRead(f) \/ SteadyDone(f)
  \/ StabilityElapsed \/ Timeout

(* The timeout fires.  Only a plain wait depends on its reads coming back.  *)
Fairness ==
  /\ WF_vars(Timeout)
  /\ WF_vars(Plain(kind) /\ EndRead("recheck"))

Spec == Init /\ [][Next]_vars /\ Fairness

-----------------------------------------------------------------------------
(* Properties. *)

Confirmed == wait.outcome = "confirmed"

(* When success is reported the executor has answered and the bridge's own  *)
(* state of the target is the wanted one: whatever contradicted it was      *)
(* heard.  (Any-event and refresh waits ask for no value, and a scene that  *)
(* was already satisfied does not listen to inventory events.)              *)
ConfirmedHolds ==
  Confirmed /\ kind \notin {"any", "refresh", "sceneAgain"} =>
    wait.complete /\ cache.value = "want"

(* Success on the word of a read, or of a device event after an Advanced    *)
(* receipt, means that the device really had the wanted value once the      *)
(* command had left, however late, lost or out of order events were.        *)
ConfirmedIsReal ==
  /\ Confirmed /\ wait.proof.by = "read" /\ kind \notin {"refresh"} => held
  /\ Confirmed /\ kind = "state" /\ wait.proof.source = "event"
       /\ receipt.minimum = sentAt => held

(* With a stability window, an event or a read confirms only if the value   *)
(* was never seen to change back since the window opened.                   *)
StableConfirmation ==
  Confirmed /\ stable /\ wait.proof.by # "snapshot" => ~broken

(* Evidence that came before the executor's answer is not forgotten: from   *)
(* then on evidence is either used up or running through its window.        *)
NoLostEvidence ==
  wait.complete /\ wait.outcome = "waiting" /\ wait.pending # NoEvidence
    => wait.stabilizing

(* Once the timeout is started the caller gets an answer, also when reads   *)
(* hang (bounded and vector waits) and whatever the device does.            *)
WaitEnds == wait.complete ~> wait.outcome # "waiting"

(* A command is confirmed only by a device that has the wanted state: on    *)
(* the bridge's own word, on that of the device, and throughout a window.   *)
ConfirmationIsSound ==
  TypeOK /\ ConfirmedHolds /\ ConfirmedIsReal /\ StableConfirmation
=============================================================================
