------------------------ MODULE InventoryPersistence ------------------------
(***************************************************************************)
(* How DeviceStore keeps its inventory on disk: #schedulePersist,          *)
(* #armPersistTimer, #flushPersistAsync, #flushPersist, close and the      *)
(* constructor of device-store.ts with ThreadedInventoryWriter and its     *)
(* worker thread (inventory-writer.ts, inventory-writer-thread.ts).        *)
(*                                                                         *)
(* An inventory is the number of the change that made it, 0 when empty.    *)
(* "worker" is a start with backgroundPersistence, "legacy" one of a       *)
(* release before it, which knows only the main database.                  *)
(***************************************************************************)
EXTENDS Naturals, FiniteSets

CONSTANTS
  Worker,      \* worker threads that may exist at once
  MaxChanges,  \* bound: inventory changes and restarts with changes
  MaxDefer,    \* bound: rechecks of a busy bridge (30 s / 250 ms in the code)
  MaxResets,   \* bound: how often the main database is removed
  None

Outcomes == {"persisted", "unchanged", "failed"}

ASSUME InventoryPersistenceAssumption ==
  /\ {MaxChanges, MaxDefer, MaxResets} \subseteq Nat
  /\ None \notin Worker \cup Nat \cup Outcomes

VARIABLES
  mode,       \* "down", "worker" or "legacy"
  inventory,  \* what the store holds
  clock,      \* the latest change anywhere, and the time of a commit
  pending,    \* #persistPending
  timer,      \* #persistTimer is set
  deferrals,  \* rechecks since #persistDeferredAtMs was set
  inFlight,   \* #persistInFlight: a flush awaits its write
  closing,    \* "open", "waiting", "flushing", "draining" or "closed"
  submitted,  \* #pending of the writer: the inventory to be written, or None
  posted,     \* it has been posted to the worker
  active,     \* #worker: the thread the writer listens to, or None
  retiring,   \* threads that were told to terminate and have not exited
  job,        \* thread -> the inventory it has to write, or None
  wrote,      \* thread -> previousJson
  reply,      \* thread -> the outcome it has posted, or None
  cache,      \* the sidecar database: stamp, commit time, identity
  legacy,     \* the main database: stamp, commit time
  identity,   \* the identity in the main database
  acked,      \* history: the latest inventory reported as saved
  closedAt    \* history: the inventory when close was called

storeVars == <<inventory, clock, pending, timer, deferrals, inFlight, closing>>
writerVars == <<submitted, posted, active, retiring>>
threadVars == <<job, wrote, reply>>
diskVars == <<cache, legacy, identity>>
vars == <<mode, inventory, clock, pending, timer, deferrals, inFlight, closing,
          submitted, posted, active, retiring, job, wrote, reply, cache, legacy,
          identity, acked, closedAt>>

Stamps == 0..MaxChanges

TypeOK ==
  /\ mode \in {"down", "worker", "legacy"}
  /\ {inventory, clock, acked, closedAt} \subseteq Stamps
  /\ {pending, timer, inFlight, posted} \subseteq BOOLEAN
  /\ deferrals \in 0..MaxDefer
  /\ closing \in {"open", "waiting", "flushing", "draining", "closed"}
  /\ submitted \in Stamps \cup {None}
  /\ active \in Worker \cup {None} /\ retiring \in SUBSET Worker
  /\ job \in [Worker -> Stamps \cup {None}]
  /\ wrote \in [Worker -> Stamps \cup {None}]
  /\ reply \in [Worker -> Outcomes \cup {None}]
  /\ cache \in [stamp : Stamps, at : Stamps, identity : 0..MaxResets]
  /\ legacy \in [stamp : Stamps, at : Stamps]
  /\ identity \in 0..MaxResets

Running == mode # "down"
Nothing == [w \in Worker |-> None]

Init ==
  /\ mode = "down"
  /\ inventory = 0 /\ clock = 0
  /\ pending = FALSE /\ timer = FALSE /\ deferrals = 0 /\ inFlight = FALSE
  /\ closing = "closed"
  /\ submitted = None /\ posted = FALSE /\ active = None /\ retiring = {}
  /\ job = Nothing /\ wrote = Nothing /\ reply = Nothing
  /\ cache = [stamp |-> 0, at |-> 0, identity |-> 0]
  /\ legacy = [stamp |-> 0, at |-> 0]
  /\ identity = 0
  /\ acked = 0 /\ closedAt = 0

-----------------------------------------------------------------------------
(* The store. *)

(* #schedulePersist and #armPersistTimer: nothing after close, no second    *)
(* timer, and none while a flush is under way.                              *)
SchedulePersist ==
  IF closing # "open" THEN UNCHANGED <<pending, timer>>
  ELSE /\ pending' = TRUE
       /\ timer' = (timer \/ ~inFlight)

Change ==
  /\ Running /\ clock < MaxChanges
  /\ inventory' = clock + 1 /\ clock' = clock + 1
  /\ SchedulePersist
  /\ UNCHANGED <<mode, deferrals, inFlight, closing, writerVars, threadVars,
                 diskVars, acked, closedAt>>

(* Mutant of Defer: the quiet window is one recheck longer. *)
DeferOnceMore ==
  /\ timer /\ pending /\ deferrals <= MaxDefer
  /\ deferrals' = deferrals + 1
  /\ UNCHANGED <<mode, inventory, clock, pending, timer, inFlight, closing,
                 writerVars, threadVars, diskVars, acked, closedAt>>

(* The timer fires while a command is being handled: look again soon, until *)
(* the quiet window is used up.                                             *)
Defer ==
  /\ timer /\ pending /\ deferrals < MaxDefer
  /\ deferrals' = deferrals + 1
  /\ UNCHANGED <<mode, inventory, clock, pending, timer, inFlight, closing,
                 writerVars, threadVars, diskVars, acked, closedAt>>

(* #flushPersistAsync up to its await: the flag is cleared before, not      *)
(* after, the write.                                                        *)
BeginFlush ==
  /\ pending' = FALSE /\ deferrals' = 0
  /\ submitted' = inventory /\ posted' = FALSE

Flush ==
  /\ mode = "worker" /\ timer
  /\ timer' = FALSE /\ inFlight' = TRUE
  /\ BeginFlush
  /\ UNCHANGED <<mode, inventory, clock, closing, active, retiring, threadVars,
                 diskVars, acked, closedAt>>

(* #flushPersist: the main database, synchronously. *)
SaveLegacy ==
  \/ /\ pending' = FALSE
     /\ legacy' = IF inventory = legacy.stamp THEN legacy
                  ELSE [stamp |-> inventory, at |-> clock]
     /\ acked' = inventory
  \/ UNCHANGED <<pending, legacy, acked>>

FlushLegacy ==
  /\ mode = "legacy" /\ timer
  /\ SaveLegacy
  /\ timer' = pending'
  /\ deferrals' = 0
  /\ UNCHANGED <<mode, inventory, clock, inFlight, closing, writerVars, threadVars,
                 cache, identity, closedAt>>

(* Mutants of AfterFlush: what changed during the flush is forgotten; a     *)
(* failure is not followed by another flush; close flushes again and again. *)
AfterFlushForgets(failed) ==
  /\ inFlight' = FALSE /\ submitted' = None /\ posted' = FALSE
  /\ IF closing = "open"
     THEN pending' = failed /\ timer' = failed /\ UNCHANGED <<deferrals, closing>>
     ELSE pending' = failed /\ closing' = "draining" /\ UNCHANGED <<timer, deferrals>>

AfterFlushGivesUp(failed) ==
  /\ inFlight' = FALSE /\ submitted' = None /\ posted' = FALSE
  /\ IF closing = "open"
     THEN timer' = pending /\ UNCHANGED <<pending, deferrals, closing>>
     ELSE closing' = "draining" /\ UNCHANGED <<pending, timer, deferrals>>

AfterFlushInsists(failed) ==
  LET left == pending \/ failed IN
  IF closing = "open"
  THEN /\ pending' = left /\ timer' = left /\ inFlight' = FALSE
       /\ submitted' = None /\ posted' = FALSE
       /\ UNCHANGED <<deferrals, closing>>
  ELSE IF left
  THEN closing' = "flushing" /\ inFlight' = FALSE /\ BeginFlush /\ UNCHANGED timer
  ELSE /\ inFlight' = FALSE /\ closing' = "draining"
       /\ submitted' = None /\ posted' = FALSE
       /\ UNCHANGED <<pending, timer, deferrals>>

(* What follows the flush: an armed retry, or the next stage of close. *)
AfterFlush(failed) ==
  LET left == pending \/ failed IN
  IF closing = "open"
  THEN /\ pending' = left /\ timer' = left /\ inFlight' = FALSE
       /\ submitted' = None /\ posted' = FALSE
       /\ UNCHANGED <<deferrals, closing>>
  ELSE IF closing = "waiting" /\ left
  THEN /\ closing' = "flushing" /\ inFlight' = FALSE /\ BeginFlush
       /\ UNCHANGED timer
  ELSE /\ pending' = left /\ inFlight' = FALSE /\ closing' = "draining"
       /\ submitted' = None /\ posted' = FALSE
       /\ UNCHANGED <<timer, deferrals>>

Close ==
  /\ Running /\ closing = "open"
  /\ timer' = FALSE
  /\ closedAt' = inventory
  /\ IF mode = "legacy"
     THEN /\ SaveLegacy
          /\ mode' = "down" /\ closing' = "closed"
          /\ UNCHANGED <<deferrals, submitted, posted>>
     ELSE /\ IF inFlight
             THEN closing' = "waiting" /\ UNCHANGED <<pending, deferrals, submitted, posted>>
             ELSE IF pending
             THEN closing' = "flushing" /\ BeginFlush
             ELSE closing' = "draining" /\ UNCHANGED <<pending, deferrals, submitted, posted>>
          /\ UNCHANGED <<mode, legacy, acked>>
  /\ UNCHANGED <<inventory, clock, inFlight, active, retiring, threadVars, cache,
                 identity>>

-----------------------------------------------------------------------------
(* The writer. *)

(* Mutant of Post: no wait for the exit of a terminated thread. *)
PostAtOnce ==
  /\ submitted # None /\ ~posted
  /\ active' \in IF active = None THEN Worker \ retiring ELSE {active}
  /\ job' = [job EXCEPT ![active'] = submitted]
  /\ posted' = TRUE
  /\ UNCHANGED <<mode, storeVars, submitted, retiring, wrote, reply, diskVars, acked,
                 closedAt>>

(* The request is posted once every thread that was terminated has exited;  *)
(* a thread is started when there is none.                                  *)
Post ==
  /\ submitted # None /\ ~posted
  /\ retiring = {}
  /\ active' \in IF active = None THEN Worker ELSE {active}
  /\ job' = [job EXCEPT ![active'] = submitted]
  /\ posted' = TRUE
  /\ UNCHANGED <<mode, storeVars, submitted, retiring, wrote, reply, diskVars, acked,
                 closedAt>>

(* A reply of the thread the writer listens to. *)
Reply ==
  /\ active # None /\ reply[active] # None
  /\ AfterFlush(reply[active] = "failed")
  /\ acked' = IF reply[active] = "failed" THEN acked ELSE submitted
  /\ reply' = [reply EXCEPT ![active] = None]
  /\ UNCHANGED <<mode, inventory, clock, active, retiring, job, wrote, diskVars,
                 closedAt>>

(* #fail: 15 s without a reply, or the thread reports a failed start, an    *)
(* error or its exit, with or without a request.  Its exit is waited for.   *)
Fail ==
  /\ submitted # None \/ active # None
  /\ closing # "draining"
  /\ retiring' = IF active = None THEN retiring ELSE retiring \cup {active}
  /\ active' = None
  /\ IF submitted = None THEN UNCHANGED <<pending, timer, deferrals, inFlight, closing,
                                          submitted, posted>>
     ELSE AfterFlush(TRUE)
  /\ UNCHANGED <<mode, inventory, clock, threadVars, diskVars, acked, closedAt>>

(* #drainAndClose: the thread closes its database, or is terminated. *)
Drain ==
  /\ closing = "draining" /\ retiring = {}
  /\ closing' = "closed" /\ mode' = "down"
  /\ active' = None
  /\ UNCHANGED <<retiring, submitted, posted>>
  /\ job' = Nothing /\ wrote' = Nothing /\ reply' = Nothing
  /\ UNCHANGED <<inventory, clock, pending, timer, deferrals, inFlight, diskVars,
                 acked, closedAt>>

-----------------------------------------------------------------------------
(* The thread. *)

(* One transaction holds the inventory and the identity of the main         *)
(* database.  A thread that is terminated may still complete it.            *)
Commit(w) ==
  /\ job[w] # None /\ job[w] # wrote[w]
  /\ cache' = [stamp |-> job[w], at |-> clock, identity |-> identity]
  /\ wrote' = [wrote EXCEPT ![w] = job[w]]
  /\ reply' = [reply EXCEPT ![w] = "persisted"]
  /\ job' = [job EXCEPT ![w] = None]
  /\ UNCHANGED <<mode, storeVars, writerVars, legacy, identity, acked, closedAt>>

NoCommit(w) ==
  /\ job[w] # None
  /\ reply' = [reply EXCEPT ![w] = IF job[w] = wrote[w] THEN "unchanged" ELSE "failed"]
  /\ job' = [job EXCEPT ![w] = None]
  /\ UNCHANGED <<mode, storeVars, writerVars, wrote, diskVars, acked, closedAt>>

Exit(w) ==
  /\ w \in retiring
  /\ retiring' = retiring \ {w}
  /\ job' = [job EXCEPT ![w] = None]
  /\ wrote' = [wrote EXCEPT ![w] = None]
  /\ reply' = [reply EXCEPT ![w] = None]
  /\ UNCHANGED <<mode, storeVars, submitted, posted, active, diskVars, acked, closedAt>>

-----------------------------------------------------------------------------
(* The process. *)

Crash ==
  /\ Running
  /\ mode' = "down" /\ closing' = "closed"
  /\ pending' = FALSE /\ timer' = FALSE /\ deferrals' = 0 /\ inFlight' = FALSE
  /\ submitted' = None /\ posted' = FALSE /\ active' = None /\ retiring' = {}
  /\ job' = Nothing /\ wrote' = Nothing /\ reply' = Nothing
  /\ UNCHANGED <<inventory, clock, diskVars, acked, closedAt>>

(* Mutant of Cached: the commit times are not compared. *)
CachedAnyTime == cache.stamp > 0 /\ cache.identity = identity

(* readInventoryCache and the choice between the two databases. *)
Cached ==
  /\ cache.stamp > 0 /\ cache.identity = identity
  /\ cache.at >= legacy.at

Restored(m) == IF m = "worker" /\ Cached THEN cache.stamp ELSE legacy.stamp

(* The constructor.  Restoring may itself change the inventory: a device    *)
(* that was offline against its own evidence becomes online.                *)
Start(m) ==
  /\ mode = "down"
  /\ mode' = m /\ closing' = "open"
  /\ \/ /\ Restored(m) > 0 /\ clock < MaxChanges
        /\ inventory' = clock + 1 /\ clock' = clock + 1 /\ pending' = TRUE
     \/ /\ inventory' = Restored(m) /\ clock' = clock
        /\ pending' = (m = "worker" /\ ~Cached /\ Restored(m) > 0)
  /\ timer' = pending'
  /\ UNCHANGED <<deferrals, inFlight, writerVars, threadVars, diskVars, acked, closedAt>>

(* The main database is removed while the sidecar stays. *)
Reset ==
  /\ mode = "down" /\ identity < MaxResets
  /\ identity' = identity + 1
  /\ legacy' = [stamp |-> 0, at |-> 0]
  /\ acked' = 0
  /\ UNCHANGED <<mode, storeVars, writerVars, threadVars, cache, closedAt>>

Next ==
  \/ Change \/ Defer \/ Flush \/ FlushLegacy \/ Close
  \/ Post \/ Reply \/ Fail \/ Drain
  \/ \E w \in Worker : Commit(w) \/ NoCommit(w) \/ Exit(w)
  \/ Crash \/ Reset
  \/ \E m \in {"worker", "legacy"} : Start(m)

Spec == Init /\ [][Next]_vars

(* Timers fire and threads that are told to stop do. *)
LoopFairness ==
  /\ WF_vars(Flush) /\ WF_vars(FlushLegacy) /\ WF_vars(Reply)
  /\ WF_vars(submitted # None /\ Fail) /\ WF_vars(Drain)
  /\ \A w \in Worker : WF_vars(Exit(w))

(* A disk that is asked again and again saves in the end, and not every     *)
(* request times out before the threads in front of it are gone.            *)
DiskFairness ==
  /\ SF_vars(Post)
  /\ SF_vars(FlushLegacy /\ ~pending')
  /\ \A w \in Worker : SF_vars(Commit(w))

FairSpec == Spec /\ LoopFairness /\ DiskFairness
-----------------------------------------------------------------------------
(* Properties. *)

Saved == IF mode = "legacy" THEN legacy.stamp
         ELSE IF cache.identity = identity THEN cache.stamp ELSE 0

(* While the bridge runs, an inventory that is not on disk always has a     *)
(* save ahead of it: a change during a save, a failed save, a lost thread   *)
(* and a restart from the older database are all followed by another one.   *)
NothingForgotten ==
  Running /\ closing = "open" /\ ~(pending /\ timer) /\ ~inFlight => Saved = inventory

(* The sidecar never goes back to an older inventory of the same process,   *)
(* however late a thread that was given up commits.                         *)
DiskMovesOn ==
  [][Running /\ cache'.identity = cache.identity => cache'.stamp >= cache.stamp]_vars

(* What was once reported as saved, by this release or by an older one that *)
(* was installed in between, is what the next start restores, or newer; and *)
(* it never restores the inventory of another alias database.               *)
SavedIsRestored ==
  [][mode = "down" /\ mode' = "worker" =>
       /\ inventory' >= acked
       /\ legacy.stamp = 0 /\ cache.identity # identity => inventory' = 0]_vars

(* A shutdown that ends without a failed save has saved everything the      *)
(* store held when close was called, also what changed during a save.       *)
ShutdownSaves ==
  [][closing # "closed" /\ closing' = "closed" /\ (Drain \/ Close) /\ ~pending'
       => closedAt' <= IF mode = "legacy" THEN legacy'.stamp ELSE cache'.stamp]_vars

(* close always ends, with threads that hang or were given up.              *)
ShutdownEnds == closing \notin {"open", "closed"} ~> closing = "closed"

(* However busy the bridge is, what changed is on disk in the end, unless   *)
(* the process stops first.                                                 *)
EventuallySaved ==
  \A s \in 1..MaxChanges :
    Running /\ closing = "open" /\ inventory = s ~> Saved >= s \/ closing # "open"

(* A save is ahead of whatever is not saved.                                *)
SaveIsAhead == TypeOK /\ NothingForgotten

(* What is on disk is never replaced by something older, and is restored.   *)
DiskIsRestored == DiskMovesOn /\ SavedIsRestored

(* What changed is saved in the end, at the latest by a shutdown, and that  *)
(* ends.                                                                    *)
SavesAndEnds == ShutdownSaves /\ ShutdownEnds /\ EventuallySaved
=============================================================================
