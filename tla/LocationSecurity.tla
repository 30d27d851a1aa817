-------------------------- MODULE LocationSecurity --------------------------
(***************************************************************************)
(* The security mode of one location: #executeLocation of                  *)
(* command-service.ts with waitForLocationArmState, the direct executor of *)
(* location-security-command.ts, the status read of runtime.ts             *)
(* (location-read-proof.ts, browser/location-status.ts) and what           *)
(* device-store.ts makes of events, snapshots and reads.                   *)
(*                                                                         *)
(* The lane of the location (CommandLanes) runs one command after the      *)
(* other, but reads, and requests the page has sent, outlive the command   *)
(* that started them.  A version of the mode is also the time it was set.  *)
(***************************************************************************)
EXTENDS Naturals, Sequences

CONSTANTS
  Mode,         \* the arm states
  Slot,         \* bound: status reads under way at a time
  MaxVersion,   \* bound: changes of the location's mode
  MaxCommands   \* bound: commands

(* A location may have changed its mode before the start already.           *)
ASSUME LocationSecurityAssumption ==
  MaxVersion \in Nat /\ MaxVersion >= 2 /\ MaxCommands \in Nat

Command == 1..MaxCommands
Version == 1..MaxVersion
Page == {"keeper", "own"}

VARIABLES
  history,   \* the modes the location had, the last one is the present one
  mail,      \* versions whose push event has not arrived, and may never
  store,     \* DeviceStore's entry: mode and updatedAt, 0 for none
  command,   \* the number of the latest command
  phase,     \* where that command is
  desired,   \* the mode it wants
  before,    \* the entry when its confirmation was created
  pending,   \* its confirmation has evidence
  page,      \* the page its request goes to
  outcome,   \* what its caller was told
  patch,     \* the request of each command: how far it came, how often sent
  marker,    \* security_pending: the unsettled request of each page, or 0
  read,      \* the status reads under way
  held,      \* history: since when the location had the desired mode
  late       \* history: when the command was about to be sent, something
             \* older that says the desired mode was still under way

commandVars == <<command, phase, desired, before, pending, page, outcome>>
requestVars == <<patch, marker>>
ghosts == <<held, late>>
vars == <<history, mail, store, commandVars, requestVars, read, ghosts>>

Phases == {"idle", "precheck", "dispatching", "bootstrapping", "patching",
           "waiting", "doubting"}
Outcomes == {"none", "already", "confirmed", "timeout", "uncertain", "busy",
             "unavailable", "refused"}
Entries == [mode : Mode, at : 0..MaxVersion]
Reads == [stage : {"idle", "first", "second", "read"}, by : 0..MaxCommands,
          for : {"precheck", "wait"}, before : Entries, seen : Version,
          dated : BOOLEAN]

TypeOK ==
  /\ history \in Seq(Mode) /\ Len(history) \in Version
  /\ mail \subseteq Version
  /\ store \in Entries /\ before \in Entries
  /\ command \in 0..MaxCommands /\ phase \in Phases
  /\ desired \in Mode /\ pending \in BOOLEAN
  /\ page \in Page /\ outcome \in Outcomes
  /\ patch \in [Command -> [state : {"unsent", "sent", "applied", "refused"},
                            mode : Mode, sends : Nat]]
  /\ marker \in [Page -> 0..MaxCommands]
  /\ read \in [Slot -> Reads]
  /\ held \in {"never", "begun", "sent"} /\ late \in BOOLEAN

Present == Len(history)

Init ==
  /\ history \in [1..1 -> Mode] \cup [1..2 -> Mode]
  /\ Present = 2 => history[1] # history[2]
  /\ mail = IF Present = 2 THEN {2} ELSE {}
  /\ \E at \in 0..1 : store = [mode |-> history[1], at |-> at]
  /\ command = 0 /\ phase = "idle" /\ outcome = "none"
  /\ desired = history[1] /\ before = store /\ pending = FALSE /\ page = "keeper"
  /\ patch = [c \in Command |-> [state |-> "unsent", mode |-> history[1], sends |-> 0]]
  /\ marker = [p \in Page |-> 0]
  /\ read = [r \in Slot |-> [stage |-> "idle", by |-> 0, for |-> "wait",
                             before |-> store, seen |-> 1, dated |-> FALSE]]
  /\ held = "never" /\ late = FALSE

-----------------------------------------------------------------------------
(* The confirmation listens from before the request is sent until the end.  *)

Waits == phase \in {"waiting", "doubting"}
Listens == Waits \/ phase \in {"dispatching", "bootstrapping", "patching"}

End(result) ==
  /\ phase' = "idle" /\ outcome' = result
  /\ UNCHANGED <<command, desired, before, page>>

Proceed(next) ==
  /\ phase' = next
  /\ UNCHANGED <<command, desired, before, pending, page, outcome>>

(* resolvePending: evidence counts once the timeout has been started. *)
Resolve(evidence) ==
  /\ pending' = evidence
  /\ IF evidence /\ Waits THEN End("confirmed")
     ELSE UNCHANGED <<command, phase, desired, before, page, outcome>>

(* Mutant of Heard: the entry need not have changed since the command.     *)
HeardUnchanged(entry) == entry.mode = desired

(* The subscriber of inventory events. *)
Heard(entry) == entry.mode = desired /\ (entry # before \/ pending)

(* A changed entry is published. *)
Observe(entry) ==
  /\ store' = entry
  /\ IF Listens THEN Resolve(Heard(entry)) ELSE UNCHANGED commandVars

-----------------------------------------------------------------------------
(* The location itself. *)

(* The mode becomes m: a mode that is set again changes nothing. *)
Becomes(m) ==
  IF m = history[Present] THEN UNCHANGED <<history, mail, held>>
  ELSE /\ Present < MaxVersion
       /\ history' = Append(history, m)
       /\ mail' = mail \cup {Present + 1}
       /\ held' = IF m = desired /\ Listens THEN "sent"
                  ELSE IF m = desired /\ phase = "precheck" THEN "begun" ELSE held

SomebodyChanges ==
  /\ \E m \in Mode \ {history[Present]} : Becomes(m)
  /\ UNCHANGED <<store, commandVars, requestVars, read, late>>

(* The server carries out a request, whether or not anybody still waits. *)
Apply(c) ==
  /\ patch[c].state = "sent"
  /\ patch' = [patch EXCEPT ![c].state = "applied"]
  /\ Becomes(patch[c].mode)
  /\ UNCHANGED <<store, commandVars, marker, read, late>>

-----------------------------------------------------------------------------
(* DeviceStore. *)

(* Something else in the inventory changes, and is published as well. *)
OtherInventory ==
  /\ Listens
  /\ Resolve(Heard(store))
  /\ UNCHANGED <<history, mail, store, requestVars, read, ghosts>>

(* Mutant of Push: an event is stored with the time it arrives at.          *)
PushNow(v) ==
  /\ v \in mail /\ mail' = mail \ {v}
  /\ IF v > store.at
     THEN Observe([mode |-> history[v], at |-> Present + 1])
     ELSE UNCHANGED <<store, commandVars>>
  /\ UNCHANGED <<history, requestVars, read, ghosts>>

(* #applySecurityArmStateEvent: events have a time, an older one is dropped.*)
Push(v) ==
  /\ v \in mail /\ mail' = mail \ {v}
  /\ IF v > store.at
     THEN Observe([mode |-> history[v], at |-> v])
     ELSE UNCHANGED <<store, commandVars>>
  /\ UNCHANGED <<history, requestVars, read, ghosts>>

(* #applySnapshot for api/location: a row, perhaps of a moment ago.  Without*)
(* a time it counts only for an entry that has none either.                 *)
Snapshot(v, dated) ==
  /\ v \in mail \cup {Present}
  /\ IF dated THEN v > store.at ELSE store.at = 0
  /\ LET entry == [mode |-> history[v], at |-> IF dated THEN v ELSE 0]
     IN  entry # store /\ Observe(entry)
  /\ UNCHANGED <<history, mail, requestVars, read, ghosts>>

-----------------------------------------------------------------------------
(* The status read: verifyLocationRead over readLocationSecurityStatus, and *)
(* observeLocationStatusSnapshot with its proof.                            *)

Idle == [stage |-> "idle", by |-> 0, for |-> "wait",
         before |-> [mode |-> history[1], at |-> 0],
         seen |-> 1, dated |-> FALSE]

Reading(c, purpose) ==
  [stage |-> "first", by |-> c, for |-> purpose, before |-> store,
   seen |-> 1, dated |-> FALSE]

(* The server answers with the present mode, with or without its time.  An  *)
(* answer without a time that contradicts a dated entry is asked for again, *)
(* and has to come out the same.                                            *)
Answer(r, dated) ==
  LET x == read[r]
      again == ~dated /\ x.before.at > 0 /\ history[Present] # x.before.mode
      got(stage) == [stage |-> stage, by |-> x.by, for |-> x.for, before |-> x.before,
                     seen |-> Present, dated |-> dated]
  IN  /\ \/ /\ x.stage = "first"
            /\ read' = [read EXCEPT ![r] = got(IF again THEN "second" ELSE "read")]
         \/ /\ x.stage = "second"
            /\ read' = [read EXCEPT ![r] = IF history[Present] = history[x.seen]
                                           THEN got("read") ELSE Idle]
      /\ UNCHANGED <<history, mail, store, commandVars, requestVars, ghosts>>

(* A read that fails, times out or finds no page is no evidence. *)
ReadFails(r) ==
  /\ read[r].stage # "idle"
  /\ read' = [read EXCEPT ![r] = Idle]
  /\ UNCHANGED <<history, mail, store, commandVars, requestVars, ghosts>>

(* Mutant of Overtaken: the entry of before is not compared. *)
NeverOvertaken(x) == FALSE

(* Another observation came between the beginning of the read and its end.  *)
Overtaken(x) == x.before # store

(* Not newer than what the store has a time for. *)
Old(x) == x.dated /\ store.at > 0 /\ x.seen <= store.at

Accepted(x) == ~Overtaken(x) /\ (Old(x) => store.mode = history[x.seen])

(* The entry an accepted read leaves: without a time of its own it keeps    *)
(* the entry's, as the mark below which events are replays.                 *)
Entry(x) ==
  IF Old(x) \/ (~x.dated /\ store.at > 0 /\ store.mode = history[x.seen])
  THEN store
  ELSE [mode |-> history[x.seen], at |-> IF x.dated THEN x.seen ELSE store.at]

-----------------------------------------------------------------------------
(* A command. *)

StillUnderWay(m) ==
  \/ \E v \in mail : history[v] = m
  \/ \E r \in Slot : read[r].stage \in {"second", "read"} /\ history[read[r].seen] = m

(* createConfirmation, then the executor.  An event that is under way now   *)
(* was caused before the request.                                           *)
Dispatch(entry, m, sofar) ==
  /\ phase' = "dispatching" /\ before' = entry /\ pending' = FALSE
  /\ page' = "keeper" /\ outcome' = "none"
  /\ late' = StillUnderWay(m)
  /\ held' = IF history[Present] = m THEN "sent" ELSE sofar

(* Mutant of Start: a cached mode is believed. *)
StartFromCache(m) ==
  /\ phase = "idle" /\ command < MaxCommands
  /\ command' = command + 1 /\ desired' = m
  /\ IF store.mode = m
     THEN /\ phase' = "idle" /\ outcome' = "already"
          /\ held' = IF history[Present] = m THEN "begun" ELSE "never"
          /\ UNCHANGED <<before, pending, page, late>>
     ELSE Dispatch(store, m, "never")
  /\ UNCHANGED <<history, mail, store, requestVars, read>>

(* A cached mode that is already the desired one is looked at first. *)
Start(m) ==
  /\ phase = "idle" /\ command < MaxCommands
  /\ command' = command + 1 /\ desired' = m
  /\ IF store.mode = m
     THEN /\ phase' = "precheck" /\ outcome' = "none"
          /\ \/ \E r \in Slot : /\ read[r].stage = "idle"
                                /\ read' = [read EXCEPT ![r] = Reading(command + 1, "precheck")]
             \/ UNCHANGED read /\ \A r \in Slot : read[r].stage # "idle"
          /\ held' = IF history[Present] = m THEN "begun" ELSE "never"
          /\ UNCHANGED <<before, pending, page, late>>
     ELSE Dispatch(store, m, "never") /\ UNCHANGED read
  /\ UNCHANGED <<history, mail, store, requestVars>>

(* boundedLocationRead: the read failed or takes too long. *)
PrecheckEnds ==
  /\ phase = "precheck"
  /\ Dispatch(store, desired, held)
  /\ UNCHANGED <<history, mail, store, command, desired, requestVars, read>>

(* A read ends.  The store and its listeners come first, then whoever asked:*)
(* the precheck takes a desired mode for the answer, or goes on; the        *)
(* confirmation takes its own command's rechecks as evidence.               *)
ReadEnds(r) ==
  LET x == read[r]
      entry == IF Accepted(x) THEN Entry(x) ELSE store
      proof == Accepted(x) /\ x.by = command /\ history[x.seen] = desired
  IN  /\ x.stage = "read"
      /\ read' = [read EXCEPT ![r] = Idle]
      /\ store' = entry
      /\ \/ /\ phase = "precheck" /\ x.by = command
            /\ IF proof
               THEN End("already") /\ UNCHANGED <<pending, late, held>>
               ELSE /\ Dispatch(entry, desired, held) /\ UNCHANGED <<command, desired>>
         \/ /\ Listens
            /\ Resolve((IF entry = store THEN pending ELSE Heard(entry))
                       \/ (proof /\ x.for = "wait"))
            /\ UNCHANGED ghosts
         \/ /\ ~Listens /\ ~(phase = "precheck" /\ x.by = command)
            /\ UNCHANGED <<commandVars, ghosts>>
      /\ UNCHANGED <<history, mail, requestVars>>

-----------------------------------------------------------------------------
(* The executor. *)

(* No page, a page elsewhere, or no captured client: nothing was sent.  Only*)
(* then another page is opened; when that has none either, or cannot be     *)
(* opened, the command is unavailable.                                      *)
Unavailable ==
  /\ \/ phase = "dispatching" /\ page = "keeper" /\ Proceed("bootstrapping")
     \/ /\ phase = "bootstrapping" \/ (phase = "dispatching" /\ page = "own")
        /\ End("unavailable") /\ pending' = FALSE
  /\ UNCHANGED <<history, mail, store, requestVars, read, ghosts>>

(* openCommandPage: a new window, with no requests of its own. *)
OpenPage ==
  /\ phase = "bootstrapping"
  /\ phase' = "dispatching" /\ page' = "own"
  /\ marker' = [marker EXCEPT !["own"] = 0]
  /\ UNCHANGED <<history, mail, store, command, desired, before, pending, outcome,
                 patch, read, ghosts>>

(* sendLocationSecurityRequest. *)
Send ==
  /\ phase = "dispatching"
  /\ IF marker[page] # 0
     THEN End("busy") /\ pending' = FALSE /\ UNCHANGED requestVars
     ELSE /\ Proceed("patching")
          /\ marker' = [marker EXCEPT ![page] = command]
          /\ patch' = [patch EXCEPT ![command] = [state |-> "sent", mode |-> desired,
                                                  sends |-> @.sends + 1]]
  /\ UNCHANGED <<history, mail, store, read, ghosts>>

Pending(p) == phase = "patching" /\ page = p /\ marker[p] = command

(* startTimeout: what was heard while the request was under way counts now. *)
AwaitConfirmation(next) ==
  /\ IF pending THEN phase' = "idle" /\ outcome' = "confirmed"
     ELSE phase' = next /\ outcome' = outcome
  /\ UNCHANGED <<command, desired, before, pending, page>>

(* The patch settles: it was carried out, refused, or nothing is known.     *)
Reply(p, answer) ==
  LET c == marker[p] IN
  /\ c # 0
  /\ marker' = [marker EXCEPT ![p] = 0]
  /\ \/ answer = "accepted" /\ patch[c].state = "applied" /\ UNCHANGED patch
     \/ /\ answer = "refused" /\ patch[c].state = "sent"
        /\ patch' = [patch EXCEPT ![c].state = "refused"]
     \/ answer = "unclear" /\ UNCHANGED patch
  /\ \/ ~Pending(p) /\ UNCHANGED commandVars
     \/ Pending(p) /\ answer = "accepted" /\ AwaitConfirmation("waiting")
     \/ Pending(p) /\ answer = "refused" /\ End("refused") /\ pending' = FALSE
     \/ Pending(p) /\ answer = "unclear" /\ AwaitConfirmation("doubting")
  /\ UNCHANGED <<history, mail, store, read, ghosts>>

(* Mutant of GiveUp: an unanswered request is sent again through another page.*)
GiveUpAndRetry ==
  /\ phase = "patching" /\ page = "keeper"
  /\ Proceed("bootstrapping")
  /\ UNCHANGED <<history, mail, store, requestVars, read, ghosts>>

(* The request's deadline.  Its marker stays. *)
GiveUp ==
  /\ phase = "patching"
  /\ AwaitConfirmation("doubting")
  /\ UNCHANGED <<history, mail, store, requestVars, read, ghosts>>

(* Mutant of LoseContext: a lost page is taken for one that never sent. *)
LoseContextSurely(p) ==
  /\ marker[p] # 0
  /\ marker' = [marker EXCEPT ![p] = 0]
  /\ IF Pending(p) THEN End("unavailable") /\ pending' = FALSE
     ELSE UNCHANGED commandVars
  /\ UNCHANGED <<history, mail, store, patch, read, ghosts>>

(* The page is reloaded or closed: the request may have been received.      *)
LoseContext(p) ==
  /\ marker[p] # 0
  /\ marker' = [marker EXCEPT ![p] = 0]
  /\ IF Pending(p) THEN AwaitConfirmation("doubting") ELSE UNCHANGED commandVars
  /\ UNCHANGED <<history, mail, store, patch, read, ghosts>>

(* scheduleLocationRechecks: one after the other. *)
Recheck(r) ==
  /\ Waits /\ read[r].stage = "idle"
  /\ \A s \in Slot : ~(read[s].stage # "idle" /\ read[s].by = command /\ read[s].for = "wait")
  /\ UNCHANGED <<history, mail, store, commandVars, requestVars, ghosts>>
  /\ read' = [read EXCEPT ![r] = Reading(command, "wait")]

Timeout ==
  /\ Waits
  /\ End(IF phase = "doubting" THEN "uncertain" ELSE "timeout") /\ pending' = FALSE
  /\ UNCHANGED <<history, mail, store, requestVars, read, ghosts>>

Cloud == SomebodyChanges \/ \E c \in Command : Apply(c)
Store == OtherInventory \/ \E v \in Version : Push(v) \/ \E dated \in BOOLEAN : Snapshot(v, dated)
ReadSteps == \E r \in Slot : \/ \E dated \in BOOLEAN : Answer(r, dated)
                             \/ ReadFails(r) \/ ReadEnds(r) \/ Recheck(r)
Executor ==
  \/ Unavailable \/ OpenPage \/ Send \/ GiveUp
  \/ \E p \in Page : LoseContext(p) \/ \E answer \in {"accepted", "refused", "unclear"} :
                                          Reply(p, answer)

Next ==
  \/ Cloud \/ Store \/ ReadSteps \/ Executor
  \/ \E m \in Mode : Start(m)
  \/ PrecheckEnds \/ Timeout

Spec == Init /\ [][Next]_vars

-----------------------------------------------------------------------------
(* Properties. *)

(* "Never issue a second mutation": whatever happens to pages, replies and  *)
(* deadlines, the request of a command leaves at most once.                 *)
AtMostOneRequest == \A c \in Command : patch[c].sends <= 1

(* A failure that is reported as certain is: the request of that command    *)
(* was not carried out and will not be.                                     *)
CertainFailure ==
  outcome \in {"busy", "unavailable", "refused"} =>
    patch[command].state \notin {"sent", "applied"}

(* A command that is answered without a request was not needed: the         *)
(* location had the mode after the command began, whatever the cache said.  *)
AlreadyIsReal == outcome = "already" => held # "never"

(* A confirmed command was carried out, or at least its mode was in force   *)
(* after the command was about to be sent, provided that no older news of   *)
(* the same mode was still under way then.                                  *)
ConfirmedIsReal == outcome = "confirmed" /\ ~late => held = "sent"

(* HOME_MONITOR_1.8.11.md: each stage subscribes before its dispatch and    *)
(* only accepts fresh evidence.                                             *)
FreshEvidence == outcome = "confirmed" => held = "sent"

(* When every event has arrived, the store has the location's mode, however *)
(* events, snapshots and reads overtook each other, and whatever reads are  *)
(* still under way.                                                         *)
Converged == mail = {} => store.mode = history[Present]

(* A location is never asked twice, nor told of a failure that may yet be   *)
(* none: the two sides of "never issue a second mutation".                  *)
RequestsAreCertain == TypeOK /\ AtMostOneRequest /\ CertainFailure

(* What a caller is told the location did, it did.                          *)
AnswersAreReal == AlreadyIsReal /\ ConfirmedIsReal
=============================================================================
