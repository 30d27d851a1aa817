---------------------------- MODULE CommandLanes ----------------------------
(***************************************************************************)
(* SafeCommandService.execute and #enqueue with the two queue helpers      *)
(* enqueueLightIntent and enqueueWithDeadline: how the calls the Home      *)
(* Assistant integration posts become operations, and how the operations   *)
(* of one target wait for each other.                                      *)
(*                                                                         *)
(* An operation is named by the call that created it.  The work of an      *)
(* operation (what #execute does once its health check has passed) is one  *)
(* step, Finish; ConfirmationWait and LocationSecurity open it up.          *)
(***************************************************************************)
EXTENDS Naturals, FiniteSets, Sequences

CONSTANTS
  Call,         \* the HTTP posts, each one input of execute
  Id,           \* clientRequestId values
  Target,       \* device, location and scene identifiers
  Slot,         \* `${targetId}\0${component}`, the keys of #lightIntents
  IdOf,         \* call -> its clientRequestId
  FingerprintOf,\* call -> JSON.stringify of its validated request
  TargetOf,     \* call -> the target it addresses
  KindOf,       \* call -> "light" (replacePending), "deadline" or "scene"
  SlotOf,       \* call -> the intent key a light call uses
  DedupeLimit,  \* dedupeLimit (1000 in the code)
  None

Kinds == {"light", "deadline", "scene"}

ASSUME CommandLanesAssumption ==
  /\ IdOf \in [Call -> Id]
  /\ DOMAIN FingerprintOf = Call
  /\ TargetOf \in [Call -> Target]
  /\ KindOf \in [Call -> Kinds]
  /\ SlotOf \in [Call -> Slot]
  /\ None \notin Call
  /\ IsFiniteSet(Target)
  /\ DedupeLimit \in Nat \ {0}
  /\ \A c, d \in Call : SlotOf[c] = SlotOf[d] => TargetOf[c] = TargetOf[d]
  /\ \A c, d \in Call : FingerprintOf[c] = FingerprintOf[d] =>
       /\ IdOf[c] = IdOf[d]
       /\ TargetOf[c] = TargetOf[d]

VARIABLES
  dedupe,        \* #dedupe: the operations whose ids are remembered, oldest first
  queues,        \* #queues: target -> the operation whose completion is the tail
  lightIntents,  \* #lightIntents: slot -> the operation that owns the controller
  pendingCount,  \* the last value given to onPendingCountChange
  opOf,          \* call -> the operation whose result promise it was given
  refused,       \* calls for which execute threw at once
  phase,         \* operation -> where it is
  result,        \* operation -> what its result promise holds
  prev,          \* operation -> the operation its lane was chained on
  aborted,       \* operations whose AbortSignal has fired
  connected,     \* the bridge is CONNECTED and its health report is ready
  controllable,  \* targets present, online and with a light plan
  admissions,    \* history: how many operations were admitted
  order,         \* history: operation -> its place in the order of admission
  begun          \* history: operations whose work was started

serviceVars == <<dedupe, queues, lightIntents, pendingCount>>
envVars == <<connected, controllable>>
orderVars == <<admissions, order>>
vars == <<dedupe, queues, lightIntents, pendingCount, opOf, refused, phase,
          result, prev, aborted, connected, controllable, admissions, order,
          begun>>

Phases == {"absent", "queued", "running", "settled", "retired"}
Results == {"pending", "done", "failed", "bridge_not_connected",
            "command_superseded", "command_queue_timeout"}

TypeOK ==
  /\ dedupe \in Seq(Call)
  /\ queues \in [Target -> Call \cup {None}]
  /\ lightIntents \in [Slot -> Call \cup {None}]
  /\ pendingCount \in Nat
  /\ opOf \in [Call -> Call \cup {None}]
  /\ refused \in SUBSET Call
  /\ phase \in [Call -> Phases]
  /\ result \in [Call -> Results]
  /\ prev \in [Call -> Call \cup {None}]
  /\ aborted \in SUBSET Call
  /\ connected \in BOOLEAN
  /\ controllable \in SUBSET Target
  /\ admissions \in Nat
  /\ order \in [Call -> Nat]
  /\ begun \in SUBSET Call

Init ==
  /\ dedupe = <<>>
  /\ queues = [t \in Target |-> None]
  /\ lightIntents = [s \in Slot |-> None]
  /\ pendingCount = 0
  /\ opOf = [c \in Call |-> None]
  /\ refused = {}
  /\ phase = [c \in Call |-> "absent"]
  /\ result = [c \in Call |-> "pending"]
  /\ prev = [c \in Call |-> None]
  /\ aborted = {}
  /\ connected = TRUE
  /\ controllable = Target
  /\ admissions = 0
  /\ order = [c \in Call |-> 0]
  /\ begun = {}

-----------------------------------------------------------------------------
(* The operations. *)

Admitted == {c \in Call : phase[c] # "absent"}
Busy(c) == phase[c] \in {"queued", "running"}
Remembered(c) == {i \in DOMAIN dedupe : IdOf[dedupe[i]] = IdOf[c]}
New(c) == opOf[c] = None /\ c \notin refused

(* Mutant of QueueSize: the operation itself is not counted. *)
QueueSizeOfOthers(q) == Cardinality({t \in Target : q[t] # None}) - 1

(* The number of keys in #queues, given its contents. *)
QueueSize(q) == Cardinality({t \in Target : q[t] # None})

(* Mutant of Evict: the limit is applied one entry too early. *)
EvictEarly(entries) ==
  IF Len(entries) >= DedupeLimit
  THEN SubSeq(entries, Len(entries) - DedupeLimit + 2, Len(entries))
  ELSE entries

(* The oldest entries are dropped until at most DedupeLimit are left. *)
Evict(entries) ==
  IF Len(entries) > DedupeLimit
  THEN SubSeq(entries, Len(entries) - DedupeLimit + 1, Len(entries))
  ELSE entries

(* A replacePending call is checked before it may cancel anything. *)
MayAdmit(c) ==
  KindOf[c] = "light" => connected /\ TargetOf[c] \in controllable

(* Rejecting a promise that is already settled does nothing. *)
Reject(res, ops, code) ==
  [c \in Call |-> IF c \in ops /\ res[c] = "pending" THEN code ELSE res[c]]

(* execute: the id is known and the request is the same. *)
Join(c) ==
  /\ New(c)
  /\ \E i \in Remembered(c) :
       /\ FingerprintOf[dedupe[i]] = FingerprintOf[c]
       /\ opOf' = [opOf EXCEPT ![c] = dedupe[i]]
  /\ UNCHANGED <<serviceVars, refused, phase, result, prev, aborted, envVars,
                 orderVars, begun>>

(* execute throws: client_request_conflict, or a light call that fails the *)
(* checks of #enqueue.  Nothing is remembered.                             *)
Refuse(c) ==
  /\ New(c)
  /\ \/ \E i \in Remembered(c) : FingerprintOf[dedupe[i]] # FingerprintOf[c]
     \/ Remembered(c) = {} /\ ~MayAdmit(c)
  /\ refused' = refused \cup {c}
  /\ UNCHANGED <<serviceVars, opOf, phase, result, prev, aborted, envVars,
                 orderVars, begun>>

(* Mutant of TakeSlot: an intent already at work is left alone. *)
TakeSlotFromWaiting(c) ==
  IF KindOf[c] = "light"
  THEN LET prior == {lightIntents[SlotOf[c]]} \cap {d \in Call : phase[d] = "queued"} IN
       /\ lightIntents' = [lightIntents EXCEPT ![SlotOf[c]] = c]
       /\ aborted' = aborted \cup prior
       /\ result' = Reject(result, prior, "command_superseded")
  ELSE UNCHANGED <<lightIntents, aborted, result>>

(* A light call takes its slot and aborts the controller it finds there. *)
TakeSlot(c) ==
  IF KindOf[c] = "light"
  THEN LET prior == {lightIntents[SlotOf[c]]} \ {None} IN
       /\ lightIntents' = [lightIntents EXCEPT ![SlotOf[c]] = c]
       /\ aborted' = aborted \cup prior
       /\ result' = Reject(result, prior, "command_superseded")
  ELSE UNCHANGED <<lightIntents, aborted, result>>

Admit(c) ==
  /\ New(c)
  /\ Remembered(c) = {}
  /\ MayAdmit(c)
  /\ TakeSlot(c)
  /\ prev' = [prev EXCEPT ![c] = queues[TargetOf[c]]]
  /\ queues' = [queues EXCEPT ![TargetOf[c]] = c]
  /\ pendingCount' = QueueSize(queues')
  /\ dedupe' = Evict(Append(dedupe, c))
  /\ opOf' = [opOf EXCEPT ![c] = c]
  /\ phase' = [phase EXCEPT ![c] = "queued"]
  /\ order' = [order EXCEPT ![c] = admissions + 1]
  /\ admissions' = admissions + 1
  /\ UNCHANGED <<refused, envVars, begun>>

(* The predecessor's completion has settled and its finally has run. *)
HasTurn(c) ==
  /\ phase[c] = "queued"
  /\ prev[c] \in {None} \cup {d \in Call : phase[d] = "retired"}

(* Mutant of Expired: the turn does not look at the expired flag. *)
ExpiredUnseen(c) == FALSE

Expired(c) == result[c] = "command_queue_timeout"

(* Mutant of Expire: only light intents have a queue deadline. *)
ExpireLights(c) ==
  /\ phase[c] = "queued" /\ KindOf[c] = "light" /\ c \notin aborted
  /\ prev[c] \in {d \in Call : Busy(d)}
  /\ result' = Reject(result, {c}, "command_queue_timeout")
  /\ UNCHANGED <<serviceVars, opOf, refused, phase, prev, aborted, envVars,
                 orderVars, begun>>

(* The 10 s timer of a waiting operation.  It is a macrotask: once the     *)
(* predecessor has completed, the turn comes first.  Scenes have no timer, *)
(* and an abort clears it.                                                 *)
Expire(c) ==
  /\ phase[c] = "queued"
  /\ KindOf[c] # "scene"
  /\ c \notin aborted
  /\ prev[c] \in {d \in Call : Busy(d)}
  /\ ~Expired(c)
  /\ result' = Reject(result, {c}, "command_queue_timeout")
  /\ UNCHANGED <<serviceVars, opOf, refused, phase, prev, aborted, envVars,
                 orderVars, begun>>

(* At its turn an expired or superseded operation completes without work. *)
Skip(c) ==
  /\ HasTurn(c)
  /\ Expired(c) \/ c \in aborted
  /\ phase' = [phase EXCEPT ![c] = "settled"]
  /\ UNCHANGED <<serviceVars, opOf, refused, result, prev, aborted, envVars,
                 orderVars, begun>>

(* #execute checks health again, and a light call its device: admission    *)
(* state is never reused across the wait.                                  *)
RefuseAtTurn(c) ==
  /\ HasTurn(c)
  /\ ~Expired(c) /\ c \notin aborted
  /\ \/ ~connected
     \/ KindOf[c] = "light" /\ TargetOf[c] \notin controllable
  /\ phase' = [phase EXCEPT ![c] = "settled"]
  /\ result' = Reject(result, {c}, IF connected THEN "failed"
                                   ELSE "bridge_not_connected")
  /\ UNCHANGED <<serviceVars, opOf, refused, prev, aborted, envVars, orderVars,
                 begun>>

(* Mutant of Begin: no look at the abort signal. *)
BeginAborted(c) ==
  /\ HasTurn(c) /\ ~Expired(c) /\ connected
  /\ KindOf[c] = "light" => TargetOf[c] \in controllable
  /\ phase' = [phase EXCEPT ![c] = "running"]
  /\ begun' = begun \cup {c}
  /\ UNCHANGED <<serviceVars, opOf, refused, result, prev, aborted, envVars,
                 orderVars>>

Begin(c) ==
  /\ HasTurn(c)
  /\ ~Expired(c) /\ c \notin aborted
  /\ connected
  /\ KindOf[c] = "light" => TargetOf[c] \in controllable
  /\ phase' = [phase EXCEPT ![c] = "running"]
  /\ begun' = begun \cup {c}
  /\ UNCHANGED <<serviceVars, opOf, refused, result, prev, aborted, envVars,
                 orderVars>>

(* Mutant of Finish: a failure never reaches the caller. *)
FinishSilently(c) ==
  /\ phase[c] = "running"
  /\ phase' = [phase EXCEPT ![c] = "settled"]
  /\ \E outcome \in {"done", "pending"} : result' = Reject(result, {c}, outcome)
  /\ UNCHANGED <<serviceVars, opOf, refused, prev, aborted, envVars, orderVars,
                 begun>>

(* The work ends; a caller that was told command_superseded stays told. *)
Finish(c) ==
  /\ phase[c] = "running"
  /\ phase' = [phase EXCEPT ![c] = "settled"]
  /\ \E outcome \in {"done", "failed"} : result' = Reject(result, {c}, outcome)
  /\ UNCHANGED <<serviceVars, opOf, refused, prev, aborted, envVars, orderVars,
                 begun>>

(* Mutant of Retire: the lane is dropped whoever is its tail. *)
RetireLane(c) ==
  /\ phase[c] = "settled"
  /\ phase' = [phase EXCEPT ![c] = "retired"]
  /\ lightIntents' =
       [s \in Slot |-> IF KindOf[c] = "light" /\ s = SlotOf[c] /\ lightIntents[s] = c
                       THEN None ELSE lightIntents[s]]
  /\ queues' = [queues EXCEPT ![TargetOf[c]] = None]
  /\ pendingCount' = QueueSize(queues')
  /\ UNCHANGED <<dedupe, opOf, refused, result, prev, aborted, envVars, orderVars,
                 begun>>

(* queueTail.finally: drop the slot and the lane, if they are still ours. *)
Retire(c) ==
  /\ phase[c] = "settled"
  /\ phase' = [phase EXCEPT ![c] = "retired"]
  /\ lightIntents' =
       [s \in Slot |-> IF KindOf[c] = "light" /\ s = SlotOf[c] /\ lightIntents[s] = c
                       THEN None ELSE lightIntents[s]]
  /\ queues' = [t \in Target |-> IF t = TargetOf[c] /\ queues[t] = c
                                 THEN None ELSE queues[t]]
  /\ pendingCount' = IF queues' # queues THEN QueueSize(queues') ELSE pendingCount
  /\ UNCHANGED <<dedupe, opOf, refused, result, prev, aborted, envVars, orderVars,
                 begun>>

(* The environment: the session comes and goes, so do devices. *)
HealthChange ==
  /\ connected' = ~connected
  /\ UNCHANGED <<serviceVars, opOf, refused, phase, result, prev, aborted,
                 controllable, orderVars, begun>>

DeviceChange(t) ==
  /\ controllable' = IF t \in controllable THEN controllable \ {t}
                     ELSE controllable \cup {t}
  /\ UNCHANGED <<serviceVars, opOf, refused, phase, result, prev, aborted,
                 connected, orderVars, begun>>

Execute(c) == Join(c) \/ Refuse(c) \/ Admit(c)
Turn(c) == Skip(c) \/ RefuseAtTurn(c) \/ Begin(c)

Next ==
  \/ \E c \in Call :
       Execute(c) \/ Expire(c) \/ Turn(c) \/ Finish(c) \/ Retire(c)
  \/ HealthChange
  \/ \E t \in Target : DeviceChange(t)

Spec == Init /\ [][Next]_vars

(* The event loop runs queued microtasks and due timers. *)
LoopFairness ==
  \A c \in Call : WF_vars(Expire(c)) /\ WF_vars(Turn(c)) /\ WF_vars(Retire(c))

(* Every wait inside an operation's work is bounded, so it ends. *)
WorkFairness == \A c \in Call : WF_vars(Finish(c))

LoopSpec == Spec /\ LoopFairness
-----------------------------------------------------------------------------
(* Properties. *)

SameLane(c, d) == TargetOf[c] = TargetOf[d]
SameSlot(c, d) ==
  /\ KindOf[c] = "light" /\ KindOf[d] = "light"
  /\ SlotOf[c] = SlotOf[d]
Before(c, d) == order[c] < order[d]

(* An operation has its turn only after every operation admitted earlier   *)
(* for the same target has completed and left the lane: two commands for   *)
(* one target never overlap or overtake, whatever expired, was superseded  *)
(* or failed in between (the promise chain built by #enqueue).             *)
InOrder ==
  \A c, d \in Admitted :
    SameLane(c, d) /\ Before(c, d) /\ phase[d] # "queued"
      => phase[c] = "retired"

(* Work starts only for a caller that is still waiting: a command whose    *)
(* caller was told it had timed out or been superseded while it was queued *)
(* is never sent later ("Never perform a stale security request minutes    *)
(* later").                                                                *)
NoWorkAfterAnswer ==
  [][\A c \in Call : c \in begun' \ begun => result[c] = "pending"]_vars

(* Of the replaceable light intents of one component only the newest stays *)
(* alive, and the newest one is never the one that is aborted, however     *)
(* completions and new intents interleave (#lightIntents and its cleanup). *)
NewestIntentWins ==
  /\ \A c, d \in Admitted :
       SameSlot(c, d) /\ Before(c, d) /\ Busy(c) => c \in aborted
  /\ \A c \in aborted :
       \E d \in Admitted : SameSlot(c, d) /\ Before(c, d)

(* A repeated clientRequestId becomes a second operation only when at      *)
(* least DedupeLimit other operations were admitted in between, however    *)
(* the first one ended.                                                    *)
OncePerRequestId ==
  \A c, d \in Admitted :
    IdOf[c] = IdOf[d] /\ Before(c, d) => order[d] > order[c] + DedupeLimit

(* The caller of a queued device or location command hears something or    *)
(* sees its work begin, even if the work in front of it never ends.        *)
WaiterAnswered ==
  \A c \in Call :
    phase[c] = "queued" /\ KindOf[c] # "scene"
      ~> phase[c] = "running" \/ result[c] # "pending"

(* When work ends, every admitted operation answers its caller: also the   *)
(* ones that expired, were superseded or lost their session while waiting.  *)
EveryoneAnswered ==
  WorkFairness => \A c \in Call : phase[c] = "queued" ~> result[c] # "pending"

(* No caller is left without an answer.                                    *)
AnswersCome == WaiterAnswered /\ EveryoneAnswered

(* The refinement mapping: a queued operation waits in line with its place *)
(* in the order of admission as its ticket, a running one is at work.      *)
Lines == [t \in Target |-> {c \in Call : phase[c] = "queued" /\ TargetOf[c] = t}]
AtWork(t) == {c \in Call : phase[c] = "running" /\ TargetOf[c] = t}
Workers == [t \in Target |-> IF AtWork(t) = {} THEN None ELSE CHOOSE c \in AtWork(t) : TRUE]

Lanes == INSTANCE SerialLanes WITH
  Answers <- Results \ {"pending"},
  line <- Lines, ticket <- order, drawn <- admissions, active <- Workers, answer <- result

(* The chained promises, timers and controllers of #enqueue implement      *)
(* serial lanes: one command at work per target, in order of acceptance,   *)
(* one answer per caller.                                                  *)
ServesSerialLanes == Lanes!Spec
=============================================================================
