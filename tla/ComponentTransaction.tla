------------------------ MODULE ComponentTransaction ------------------------
(***************************************************************************)
(* One command for a device with several switches: the bridge switches     *)
(* them one after the other, confirms all of them by status reads, and     *)
(* otherwise restores what they were.                                      *)
(*   - #executeComponentPlan and #executeDeviceActionTransaction of        *)
(*     command-service.ts, ComponentCommandExecutor: dispatch, undoing,    *)
(*     confirming, restoring;                                              *)
(*   - AuthenticatedSmartThingsSession.request: the routes one POST may    *)
(*     take;                                                               *)
(*   - SmartThings, which takes orders, refuses them or says nothing, and  *)
(*     carries them out late, in any order, or never.                      *)
(*                                                                         *)
(* The switches are numbered in plan order; the plan turns them "on"       *)
(* ("off" is the same).  A transaction goes through the location page,     *)
(* where every switch is a child device, or through the Advanced API as    *)
(* components of one device.  The parent's copy of a child's state, which  *)
(* must also match, is left out: fewer vectors are confirmed in the code.  *)
(***************************************************************************)
EXTENDS Naturals, FiniteSetsExt

CONSTANTS
  N,        \* the number of switches
  Flight,   \* the reads of one wait: an early and a final one
  MaxTouch, \* bound: changes by anyone else
  None

ASSUME ComponentTransactionAssumption ==
  /\ N \in Nat \ {0} /\ MaxTouch \in Nat
  /\ None \notin {"on", "off", "confirmed", "failed", "partial_failure",
                  "rollback_failed", "confirmation_timeout"}

Switch == 1..N
Value == {"on", "off"}

VARIABLES
  web,       \* the plan is a webTransaction
  original,  \* what the store held for each switch when the plan was made
  device,    \* the switches themselves
  cache,     \* what the store holds for them
  touches,   \* changes by others so far
  cloud,     \* orders that left and may still be carried out
  stage,     \* "dispatch", "confirming", "verifying" or "done"
  run,       \* the plan at work: phase, its current switch, undoing,
             \* rollbackFailed
  post,      \* the current POST: its route, flying, how often it left
  reads,     \* the status reads of the wait: asked, the switches still to
             \* come, none has failed
  answer,    \* what the caller got, None before
  held,      \* history: the values each switch had since the latest mark
  accepted   \* history: the latest order SmartThings accepted for each switch

transactionVars == <<stage, run, post, answer>>
vars == <<web, original, device, cache, touches, cloud, stage, run, post, reads,
          answer, held, accepted>>

Answers == {"confirmed", "failed", "partial_failure", "rollback_failed",
            "confirmation_timeout"}
Idle == [asked |-> FALSE, todo |-> {}, ok |-> TRUE]

(* Where one POST is tried, in this order: by the application's client in   *)
(* the keeper page, by the keeper page, by an Advanced page opened for it.  *)
(* A child device is only ever commanded in the location page.              *)
Routes == IF web THEN 1 ELSE 3

TypeOK ==
  /\ web \in BOOLEAN /\ original \in [Switch -> Value]
  /\ device \in [Switch -> Value] /\ cache \in [Switch -> Value]
  /\ touches \in 0..MaxTouch
  /\ cloud \subseteq [switch : Switch, value : Value, phase : {"forward", "restore"},
                      undo : BOOLEAN]
  /\ stage \in {"dispatch", "confirming", "verifying", "done"}
  /\ run \in [phase : {"forward", "restore"}, at : Switch, undoing : BOOLEAN,
              failed : BOOLEAN]
  /\ post \in [route : 1..Routes, flying : BOOLEAN, left : Nat]
  /\ reads \in [Flight -> [asked : BOOLEAN, todo : SUBSET Switch, ok : BOOLEAN]]
  /\ answer \in Answers \cup {None} /\ (answer = None) = (stage # "done")
  /\ held \in [Switch -> SUBSET Value]
  /\ accepted \in [Switch -> Value \cup {None}]

-----------------------------------------------------------------------------
(* The plan of buildComponentSwitchPlan. *)

(* Forward only the switches that are to change, back all of them. *)
Plan(phase) == IF phase = "restore" THEN Switch
               ELSE {c \in Switch : original[c] # "on"}

(* What the current action of the plan orders. *)
Wanted(r) == IF r.undoing \/ r.phase = "restore" THEN original[r.at] ELSE "on"

After(r) == {c \in Plan(r.phase) : c > r.at}
Before(r) == {c \in Plan(r.phase) : c < r.at}

Begin(phase) == [phase |-> phase, at |-> Min(Plan(phase)), undoing |-> FALSE,
                 failed |-> FALSE]
NewPost == [route |-> 1, flying |-> FALSE, left |-> 0]

Order == [switch |-> run.at, value |-> Wanted(run), phase |-> run.phase,
          undo |-> run.undoing]

Now == [c \in Switch |-> {device[c]}]

Answer(a) == stage' = "done" /\ answer' = a

-----------------------------------------------------------------------------
(* If all switches were on in the store there would be nothing to do.       *)
Init ==
  /\ web \in BOOLEAN
  /\ device \in [Switch -> Value] /\ cache = device /\ original = cache
  /\ \E c \in Switch : original[c] # "on"
  /\ touches = 0 /\ cloud = {}
  /\ stage = "dispatch" /\ run = Begin("forward") /\ post = NewPost
  /\ reads = [f \in Flight |-> Idle]
  /\ answer = None
  /\ held = Now /\ accepted = [c \in Switch |-> None]

-----------------------------------------------------------------------------
(* The devices and what the store hears of them. *)

SetTo(c, v) ==
  /\ device' = [device EXCEPT ![c] = v]
  /\ held' = [held EXCEPT ![c] = @ \cup {v}]

CarryOut ==
  /\ stage # "done"
  /\ \E o \in cloud : SetTo(o.switch, o.value) /\ cloud' = cloud \ {o}
  /\ UNCHANGED <<web, original, cache, touches, transactionVars, reads, accepted>>

Touch ==
  /\ stage # "done" /\ touches < MaxTouch
  /\ \E c \in Switch, v \in Value : v # device[c] /\ SetTo(c, v)
  /\ touches' = touches + 1
  /\ UNCHANGED <<web, original, cache, cloud, transactionVars, reads, accepted>>

(* An older event than the stored state is dropped, so an event that comes  *)
(* late is one that might as well have come early.                          *)
Push ==
  /\ stage # "done"
  /\ \E c \in Switch : cache[c] # device[c] /\ cache' = [cache EXCEPT ![c] = device[c]]
  /\ UNCHANGED <<web, original, device, touches, cloud, transactionVars, reads,
                 held, accepted>>

-----------------------------------------------------------------------------
(* The executor. *)

(* Every action has its receipt: the wait starts its timeout, or the caller *)
(* gets the error of a plan that was undone.                                *)
Confirm ==
  /\ stage' = IF run.phase = "forward" THEN "confirming" ELSE "verifying"
  /\ reads' = [f \in Flight |-> Idle]
  /\ held' = Now
  /\ UNCHANGED <<run, answer>>

GiveBack(failed) ==
  /\ Answer(IF run.phase = "restore" \/ failed THEN "rollback_failed"
            ELSE "partial_failure")
  /\ UNCHANGED <<run, reads, held>>

(* Mutant of UndoNext: only the latest action is undone. *)
UndoNoMore(failed) == GiveBack(failed)

(* After an undo, whether it succeeded or not, the next older one. *)
UndoNext(failed) ==
  IF Before(run) = {} THEN GiveBack(failed)
  ELSE /\ run' = [run EXCEPT !.at = Max(Before(run)), !.failed = failed]
       /\ UNCHANGED <<stage, answer, reads, held>>

(* The action of the plan failed.  The actions before it are undone in      *)
(* reverse order; it is not itself undone.                                  *)
Fails ==
  /\ post' = NewPost
  /\ IF run.undoing THEN UndoNext(TRUE)
     ELSE IF Before(run) = {}
     THEN /\ Answer(IF run.phase = "restore" THEN "rollback_failed"
                    ELSE IF web THEN "failed" ELSE "partial_failure")
          /\ UNCHANGED <<run, reads, held>>
     ELSE /\ run' = [run EXCEPT !.at = Max(Before(run)), !.undoing = TRUE]
          /\ held' = Now
          /\ UNCHANGED <<stage, answer, reads>>

(* Mutant of Unavailable: one route more is tried. *)
UnavailableOnceMore ==
  /\ stage = "dispatch" /\ ~post.flying
  /\ IF post.route <= Routes
     THEN /\ post' = [post EXCEPT !.route = @ + 1]
          /\ UNCHANGED <<stage, run, answer, reads, held>>
     ELSE Fails
  /\ UNCHANGED <<web, original, device, cache, touches, cloud, accepted>>

(* The page or its session is not there: nothing was sent. *)
Unavailable ==
  /\ stage = "dispatch" /\ ~post.flying
  /\ IF post.route < Routes
     THEN /\ post' = [post EXCEPT !.route = @ + 1]
          /\ UNCHANGED <<stage, run, answer, reads, held>>
     ELSE Fails
  /\ UNCHANGED <<web, original, device, cache, touches, cloud, accepted>>

Leave ==
  /\ stage = "dispatch" /\ ~post.flying
  /\ post' = [route |-> post.route, flying |-> TRUE, left |-> post.left + 1]
  /\ cloud' = cloud \cup {Order}
  /\ UNCHANGED <<web, original, device, cache, touches, stage, run, answer, reads,
                 held, accepted>>

(* ACCEPTED is a receipt; the order may be carried out later. *)
Accept ==
  /\ stage = "dispatch" /\ post.flying
  /\ accepted' = [accepted EXCEPT ![run.at] = Wanted(run)]
  /\ post' = NewPost
  /\ IF run.undoing THEN UndoNext(run.failed)
     ELSE IF After(run) = {} THEN Confirm
     ELSE /\ run' = [run EXCEPT !.at = Min(After(run))]
          /\ UNCHANGED <<stage, answer, reads, held>>
  /\ UNCHANGED <<web, original, device, cache, touches, cloud>>

(* Mutant of NoReceipt: the next route is tried. *)
NoReceiptRetried ==
  /\ stage = "dispatch" /\ post.flying
  /\ IF post.route < Routes
     THEN /\ post' = [post EXCEPT !.route = @ + 1, !.flying = FALSE]
          /\ UNCHANGED <<stage, run, answer, reads, held>>
     ELSE Fails
  /\ UNCHANGED <<web, original, device, cache, touches, cloud, accepted>>

(* A timeout, a network error, a lost page or an unreadable answer: the     *)
(* order may still be carried out, so it is terminal.                       *)
NoReceipt ==
  /\ stage = "dispatch" /\ post.flying
  /\ Fails
  /\ UNCHANGED <<web, original, device, cache, touches, cloud, accepted>>

(* SmartThings refuses it. *)
Refuse ==
  /\ stage = "dispatch" /\ post.flying
  /\ Order \in cloud /\ cloud' = cloud \ {Order}
  /\ Fails
  /\ UNCHANGED <<web, original, device, cache, touches, accepted>>

-----------------------------------------------------------------------------
(* The waits: waitForComponentVector.  Only reads can confirm. *)

Waiting == stage \in {"confirming", "verifying"}

Expected == IF stage = "confirming" THEN [c \in Switch |-> "on"] ELSE original

(* The wait has its proof. *)
Settle ==
  Answer(IF stage = "confirming" THEN "confirmed" ELSE "confirmation_timeout")

VectorMatches(store) == \A c \in Switch : store[c] = Expected[c]

(* What one status request covers. *)
DeviceOf(c) == IF web THEN {c} ELSE Switch

(* resync: all devices of the plan are asked at once. *)
Ask(f) ==
  /\ Waiting /\ ~reads[f].asked
  /\ reads' = [reads EXCEPT ![f] = [asked |-> TRUE, todo |-> Switch, ok |-> TRUE]]
  /\ UNCHANGED <<web, original, device, cache, touches, cloud, transactionVars,
                 held, accepted>>

(* All answers are in: acceptsResyncEvidence judges the store. *)
Judge(f) ==
  IF reads'[f].ok /\ reads'[f].todo = {} /\ VectorMatches(cache')
  THEN Settle ELSE UNCHANGED <<stage, answer>>

(* One answer.  The time it travels does not matter: what the store hears   *)
(* meanwhile is newer, and the store keeps the newer.                       *)
Read(f) ==
  /\ Waiting
  /\ \E c \in reads[f].todo :
       /\ cache' = [d \in Switch |-> IF d \in DeviceOf(c) THEN device[d] ELSE cache[d]]
       /\ reads' = [reads EXCEPT ![f].todo = @ \ DeviceOf(c)]
  /\ Judge(f)
  /\ UNCHANGED <<web, original, device, touches, cloud, run, post, held, accepted>>

ReadFails(f) ==
  /\ Waiting
  /\ \E c \in reads[f].todo :
       reads' = [reads EXCEPT
                   ![f] = [asked |-> TRUE, todo |-> @.todo \ DeviceOf(c), ok |-> FALSE]]
  /\ UNCHANGED <<web, original, device, cache, touches, cloud, transactionVars,
                 held, accepted>>

Timeout ==
  /\ Waiting
  /\ IF stage = "confirming"
     THEN /\ run' = Begin("restore") /\ stage' = "dispatch" /\ UNCHANGED answer
          /\ reads' = [f \in Flight |-> Idle]
     ELSE Answer("rollback_failed") /\ UNCHANGED <<run, reads>>
  /\ UNCHANGED <<web, original, device, cache, touches, cloud, post, held, accepted>>

Next ==
  \/ CarryOut \/ Touch \/ Push
  \/ Unavailable \/ Leave \/ Accept \/ NoReceipt \/ Refuse
  \/ \E f \in Flight : Ask(f) \/ Read(f) \/ ReadFails(f)
  \/ Timeout

Spec == Init /\ [][Next]_vars

-----------------------------------------------------------------------------
(* Properties. *)

(* An action that may have reached SmartThings is not sent again by any     *)
(* other route.                                                             *)
NeverReplayed == post.left <= 1

(* Success means that every switch was on, and a timeout that every switch  *)
(* was what it had been, at some moment after the last receipt, whatever    *)
(* older orders and other clients did meanwhile.                            *)
AnswersAreReal ==
  /\ answer = "confirmed" => \A c \in Switch : "on" \in held[c]
  /\ answer = "confirmation_timeout" => \A c \in Switch : original[c] \in held[c]

(* The orders SmartThings accepted agree with what the caller was told.     *)
OrdersMatchAnswer ==
  /\ answer = "confirmed" => \A c \in Plan("forward") : accepted[c] = "on"
  /\ answer = "confirmation_timeout" => \A c \in Switch : accepted[c] = original[c]
  /\ answer = "partial_failure" => \A c \in Switch : accepted[c] \in {None, original[c]}
  /\ answer = "failed" => \A c \in Switch : accepted[c] = None

(* No caller is told something that is not so. *)
AnswersAreTrue == AnswersAreReal /\ OrdersMatchAnswer

(* A partial failure is rolled back and the rollback is confirmed: every    *)
(* switch was what it had been at some moment since the failure.            *)
RollbackIsConfirmed ==
  answer = "partial_failure" => \A c \in Switch : original[c] \in held[c]
=============================================================================
