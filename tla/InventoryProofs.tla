--------------------------- MODULE InventoryProofs ---------------------------
(***************************************************************************)
(* What InventoryPersistence promises about the disk, for any number of     *)
(* threads, changes and resets, and DevicePresence about the devices that   *)
(* are kept, for any of them.                                               *)
(***************************************************************************)
EXTENDS Inventory, FiniteSetTheorems, TLAPS

USE InventoryPersistenceAssumption DEF Outcomes

(* The flags of a save: a timer is set for what is pending unless a flush   *)
(* is under way, and what a flush hands to the writer is what is held,      *)
(* unless something changed since.                                          *)
FlushInv ==
  /\ mode = "down" <=> closing = "closed"
  /\ mode = "legacy" => closing = "open"
  /\ mode # "worker" => submitted = None /\ ~inFlight
  /\ closing # "open" => ~timer
  /\ closing = "open" => /\ inFlight <=> submitted # None
                         /\ timer <=> pending /\ ~inFlight
                         /\ submitted # None /\ ~pending => submitted = inventory
                         /\ ~pending /\ ~inFlight => \A w \in Worker : job[w] = None
  /\ closing = "waiting" => submitted # None
  /\ inFlight => closing \in {"open", "waiting"}
  /\ closing \in {"draining", "closed"} => submitted = None
  /\ NothingForgotten

(* One thread lives at a time; the one that is listened to works on the     *)
(* request that was posted to it.                                           *)
Lives(w) == w = active \/ w \in retiring
ThreadInv ==
  /\ mode # "worker" => active = None /\ retiring = {}
  /\ \A v, w \in Worker : Lives(v) /\ Lives(w) => v = w
  /\ active \notin retiring
  /\ \A w \in Worker : ~Lives(w) => job[w] = None /\ wrote[w] = None /\ reply[w] = None
  /\ posted => submitted # None
  /\ active # None =>
       /\ job[active] # None => posted /\ job[active] = submitted /\ reply[active] = None
       /\ reply[active] # None => posted
       /\ reply[active] \in {"persisted", "unchanged"} => wrote[active] = submitted

(* Nothing on disk is newer than what is held or about to be written, the   *)
(* later commit is the newer inventory, and a thread's last inventory is the*)
(* one in the sidecar.                                                      *)
Covers(stamp) == legacy.stamp <= stamp /\ (cache.identity = identity => cache.stamp <= stamp)
DiskInv ==
  /\ inventory <= clock /\ cache.stamp <= clock /\ cache.at <= clock
  /\ legacy.stamp <= clock /\ legacy.at <= clock
  /\ cache.at < legacy.at => cache.stamp <= legacy.stamp
  /\ cache.identity = identity /\ cache.at >= legacy.at => legacy.stamp <= cache.stamp
  /\ acked <= Restored("worker")
  /\ mode = "legacy" =>
       inventory = legacy.stamp
       \/ (inventory > cache.stamp /\ inventory > cache.at /\ inventory > legacy.stamp)
  /\ mode = "worker" => Covers(inventory)
  /\ submitted # None => Covers(submitted) /\ submitted <= inventory
  /\ \A w \in Worker :
       /\ job[w] # None => /\ Covers(job[w]) /\ job[w] <= inventory
                           /\ submitted # None => job[w] <= submitted
       /\ wrote[w] # None =>
            cache.stamp = wrote[w] /\ cache.identity = identity /\ cache.at >= legacy.at

Inv == TypeOK /\ FlushInv /\ ThreadInv /\ DiskInv

-----------------------------------------------------------------------------
(* Every step keeps the types. *)

NumberType ==
  /\ inventory \in Stamps /\ clock \in Stamps /\ acked \in Stamps /\ closedAt \in Stamps
  /\ deferrals \in 0..MaxDefer
FlagType ==
  /\ pending \in BOOLEAN /\ timer \in BOOLEAN /\ inFlight \in BOOLEAN /\ posted \in BOOLEAN
StageType ==
  /\ mode \in {"down", "worker", "legacy"}
  /\ closing \in {"open", "waiting", "flushing", "draining", "closed"}
  /\ submitted \in Stamps \cup {None}
ThreadType ==
  /\ active \in Worker \cup {None} /\ retiring \in SUBSET Worker
  /\ job \in [Worker -> Stamps \cup {None}]
  /\ wrote \in [Worker -> Stamps \cup {None}]
  /\ reply \in [Worker -> Outcomes \cup {None}]
DiskType ==
  /\ cache \in [stamp : Stamps, at : Stamps, identity : 0..MaxResets]
  /\ legacy \in [stamp : Stamps, at : Stamps]
  /\ identity \in 0..MaxResets

\* TypeOK is the conjunction of its parts.
LEMMA TypeParts == TypeOK <=> NumberType /\ FlagType /\ StageType /\ ThreadType /\ DiskType
BY DEF TypeOK, NumberType, FlagType, StageType, ThreadType, DiskType

\* Each action, part by part.
LEMMA TypeStep ==
  ASSUME TypeOK, ThreadInv, [Next]_vars
  PROVE  TypeOK'
<1> DEFINE Parts == NumberType /\ FlagType /\ StageType /\ ThreadType /\ DiskType
<1>0. Parts
  BY TypeParts
<1> SUFFICES Parts'
  BY TypeParts, PTL
<1> USE <1>0 DEF Stamps, storeVars, writerVars, threadVars, diskVars
<1>1. CASE Change
  <2>1. NumberType'
    BY <1>1 DEF Change, SchedulePersist, NumberType, StageType
  <2>2. FlagType'
    BY <1>1 DEF Change, SchedulePersist, FlagType, StageType
  <2>3. StageType'
    BY <1>1 DEF Change, SchedulePersist, StageType, StageType
  <2>4. ThreadType'
    BY <1>1 DEF Change, SchedulePersist, ThreadType, StageType
  <2>5. DiskType'
    BY <1>1 DEF Change, SchedulePersist, DiskType, StageType
  <2> QED BY <2>1, <2>2, <2>3, <2>4, <2>5
<1>2. CASE Defer
  <2>1. NumberType'
    BY <1>2 DEF Defer, NumberType, StageType
  <2>2. FlagType'
    BY <1>2 DEF Defer, FlagType, StageType
  <2>3. StageType'
    BY <1>2 DEF Defer, StageType, StageType
  <2>4. ThreadType'
    BY <1>2 DEF Defer, ThreadType, StageType
  <2>5. DiskType'
    BY <1>2 DEF Defer, DiskType, StageType
  <2> QED BY <2>1, <2>2, <2>3, <2>4, <2>5
<1>3. CASE Flush
  <2>1. NumberType'
    BY <1>3 DEF Flush, BeginFlush, NumberType, StageType
  <2>2. FlagType'
    BY <1>3 DEF Flush, BeginFlush, FlagType, StageType
  <2>3. StageType'
    BY <1>3 DEF Flush, BeginFlush, StageType, NumberType
  <2>4. ThreadType'
    BY <1>3 DEF Flush, BeginFlush, ThreadType, StageType
  <2>5. DiskType'
    BY <1>3 DEF Flush, BeginFlush, DiskType, StageType
  <2> QED BY <2>1, <2>2, <2>3, <2>4, <2>5
<1>4. CASE FlushLegacy
  <2>1. NumberType'
    BY <1>4 DEF FlushLegacy, SaveLegacy, NumberType, StageType
  <2>2. FlagType'
    BY <1>4 DEF FlushLegacy, SaveLegacy, FlagType, StageType
  <2>3. StageType'
    BY <1>4 DEF FlushLegacy, SaveLegacy, StageType, StageType
  <2>4. ThreadType'
    BY <1>4 DEF FlushLegacy, SaveLegacy, ThreadType, StageType
  <2>5. DiskType'
    <3>1. [stamp |-> inventory, at |-> clock] \in [stamp : Stamps, at : Stamps]
      BY DEF NumberType
    <3> QED BY <1>4, <3>1 DEF FlushLegacy, SaveLegacy, DiskType
  <2> QED BY <2>1, <2>2, <2>3, <2>4, <2>5
<1>5. CASE Close
  <2>1. NumberType'
    BY <1>5 DEF Close, SaveLegacy, BeginFlush, NumberType, StageType
  <2>2. FlagType'
    BY <1>5 DEF Close, SaveLegacy, BeginFlush, FlagType, StageType
  <2>3. StageType'
    BY <1>5 DEF Close, BeginFlush, StageType, NumberType
  <2>4. ThreadType'
    BY <1>5 DEF Close, SaveLegacy, BeginFlush, ThreadType, StageType
  <2>5. DiskType'
    <3>1. [stamp |-> inventory, at |-> clock] \in [stamp : Stamps, at : Stamps]
      BY DEF NumberType
    <3> QED BY <1>5, <3>1 DEF Close, SaveLegacy, DiskType
  <2> QED BY <2>1, <2>2, <2>3, <2>4, <2>5
<1>6. CASE Post
  <2>1. NumberType'
    BY <1>6 DEF Post, NumberType, StageType
  <2>2. FlagType'
    BY <1>6 DEF Post, FlagType, StageType
  <2>3. StageType'
    BY <1>6 DEF Post, StageType, StageType
  <2>4. ThreadType'
    BY <1>6 DEF Post, ThreadType, StageType
  <2>5. DiskType'
    BY <1>6 DEF Post, DiskType, StageType
  <2> QED BY <2>1, <2>2, <2>3, <2>4, <2>5
<1>7. CASE Reply
  <2>1. NumberType'
    <3>1. submitted \in Stamps BY <1>7 DEF Reply, ThreadInv, StageType
    <3> QED BY <1>7, <3>1 DEF Reply, AfterFlush, BeginFlush, NumberType
  <2>2. FlagType'
    BY <1>7 DEF Reply, AfterFlush, BeginFlush, FlagType, StageType
  <2>3. StageType'
    BY <1>7 DEF Reply, AfterFlush, BeginFlush, StageType, NumberType
  <2>4. ThreadType'
    BY <1>7 DEF Reply, AfterFlush, BeginFlush, ThreadType, StageType
  <2>5. DiskType'
    BY <1>7 DEF Reply, AfterFlush, BeginFlush, DiskType, StageType
  <2> QED BY <2>1, <2>2, <2>3, <2>4, <2>5
<1>8. CASE Fail
  <2>1. NumberType'
    BY <1>8 DEF Fail, AfterFlush, BeginFlush, NumberType, StageType
  <2>2. FlagType'
    BY <1>8 DEF Fail, AfterFlush, BeginFlush, FlagType, StageType
  <2>3. StageType'
    BY <1>8 DEF Fail, AfterFlush, BeginFlush, StageType, NumberType
  <2>4. ThreadType'
    BY <1>8 DEF Fail, AfterFlush, BeginFlush, ThreadType, StageType
  <2>5. DiskType'
    BY <1>8 DEF Fail, AfterFlush, BeginFlush, DiskType, StageType
  <2> QED BY <2>1, <2>2, <2>3, <2>4, <2>5
<1>9. CASE Drain
  <2>1. NumberType'
    BY <1>9 DEF Drain, Nothing, NumberType, StageType
  <2>2. FlagType'
    BY <1>9 DEF Drain, Nothing, FlagType, StageType
  <2>3. StageType'
    BY <1>9 DEF Drain, Nothing, StageType, StageType
  <2>4. ThreadType'
    BY <1>9 DEF Drain, Nothing, ThreadType, StageType
  <2>5. DiskType'
    BY <1>9 DEF Drain, Nothing, DiskType, StageType
  <2> QED BY <2>1, <2>2, <2>3, <2>4, <2>5
<1>10. ASSUME NEW w \in Worker, Commit(w) PROVE Parts'
  <2>1. NumberType'
    BY <1>10 DEF Commit, Outcomes, NumberType, StageType
  <2>2. FlagType'
    BY <1>10 DEF Commit, Outcomes, FlagType, StageType
  <2>3. StageType'
    BY <1>10 DEF Commit, Outcomes, StageType, StageType
  <2>4. ThreadType'
    BY <1>10 DEF Commit, Outcomes, ThreadType, StageType
  <2>5. DiskType'
    <3>1. [stamp |-> job[w], at |-> clock, identity |-> identity]
            \in [stamp : Stamps, at : Stamps, identity : 0..MaxResets]
      BY <1>10 DEF Commit, NumberType, ThreadType, DiskType
    <3> QED BY <1>10, <3>1 DEF Commit, DiskType
  <2> QED BY <2>1, <2>2, <2>3, <2>4, <2>5
<1>11. ASSUME NEW w \in Worker, NoCommit(w) PROVE Parts'
  <2>1. NumberType'
    BY <1>11 DEF NoCommit, Outcomes, NumberType, StageType
  <2>2. FlagType'
    BY <1>11 DEF NoCommit, Outcomes, FlagType, StageType
  <2>3. StageType'
    BY <1>11 DEF NoCommit, Outcomes, StageType, StageType
  <2>4. ThreadType'
    BY <1>11 DEF NoCommit, Outcomes, ThreadType, StageType
  <2>5. DiskType'
    BY <1>11 DEF NoCommit, Outcomes, DiskType, StageType
  <2> QED BY <2>1, <2>2, <2>3, <2>4, <2>5
<1>12. ASSUME NEW w \in Worker, Exit(w) PROVE Parts'
  <2>1. NumberType'
    BY <1>12 DEF Exit, NumberType, StageType
  <2>2. FlagType'
    BY <1>12 DEF Exit, FlagType, StageType
  <2>3. StageType'
    BY <1>12 DEF Exit, StageType, StageType
  <2>4. ThreadType'
    BY <1>12 DEF Exit, ThreadType, StageType
  <2>5. DiskType'
    BY <1>12 DEF Exit, DiskType, StageType
  <2> QED BY <2>1, <2>2, <2>3, <2>4, <2>5
<1>13. CASE Crash
  <2>1. NumberType'
    BY <1>13 DEF Crash, Nothing, NumberType, StageType
  <2>2. FlagType'
    BY <1>13 DEF Crash, Nothing, FlagType, StageType
  <2>3. StageType'
    BY <1>13 DEF Crash, Nothing, StageType, StageType
  <2>4. ThreadType'
    BY <1>13 DEF Crash, Nothing, ThreadType, StageType
  <2>5. DiskType'
    BY <1>13 DEF Crash, Nothing, DiskType, StageType
  <2> QED BY <2>1, <2>2, <2>3, <2>4, <2>5
<1>14. CASE Reset
  <2>1. NumberType'
    BY <1>14 DEF Reset, NumberType, StageType
  <2>2. FlagType'
    BY <1>14 DEF Reset, FlagType, StageType
  <2>3. StageType'
    BY <1>14 DEF Reset, StageType, StageType
  <2>4. ThreadType'
    BY <1>14 DEF Reset, ThreadType, StageType
  <2>5. DiskType'
    BY <1>14 DEF Reset, DiskType, StageType
  <2> QED BY <2>1, <2>2, <2>3, <2>4, <2>5
<1>15. ASSUME NEW m \in {"worker", "legacy"}, Start(m) PROVE Parts'
  <2>1. NumberType'
    <3>1. Restored(m) \in Stamps BY DEF Restored, DiskType
    <3>2. \/ inventory' = Restored(m) /\ clock' = clock
          \/ inventory' = clock + 1 /\ clock' = clock + 1 /\ clock < MaxChanges
      BY <1>15 DEF Start
    <3> QED BY <1>15, <3>1, <3>2 DEF Start, NumberType
  <2>2. FlagType'
    BY <1>15 DEF Start, Restored, FlagType, StageType
  <2>3. StageType'
    BY <1>15 DEF Start, Restored, StageType, StageType
  <2>4. ThreadType'
    BY <1>15 DEF Start, Restored, ThreadType, StageType
  <2>5. DiskType'
    BY <1>15 DEF Start, Restored, DiskType, StageType
  <2> QED BY <2>1, <2>2, <2>3, <2>4, <2>5
<1>16. CASE UNCHANGED vars
  <2>1. NumberType'
    BY <1>16 DEF vars, NumberType, StageType
  <2>2. FlagType'
    BY <1>16 DEF vars, FlagType, StageType
  <2>3. StageType'
    BY <1>16 DEF vars, StageType, StageType
  <2>4. ThreadType'
    BY <1>16 DEF vars, ThreadType, StageType
  <2>5. DiskType'
    BY <1>16 DEF vars, DiskType, StageType
  <2> QED BY <2>1, <2>2, <2>3, <2>4, <2>5
<1> QED BY <1>1, <1>2, <1>3, <1>4, <1>5, <1>6, <1>7, <1>8, <1>9, <1>10, <1>11, <1>12, <1>13,
           <1>14, <1>15, <1>16 DEF Next

-----------------------------------------------------------------------------
(* Every step keeps what is said of the threads. *)

\* A thread is started only when none lives, and given work only when it has none.
LEMMA ThreadStep ==
  ASSUME TypeOK, FlushInv, ThreadInv, [Next]_vars
  PROVE  ThreadInv'
<1>0. StageType /\ ThreadType /\ FlagType
  BY TypeParts
<1> USE <1>0 DEF StageType, ThreadType, FlagType, ThreadInv, Lives, storeVars, writerVars,
           threadVars, diskVars
<1>1. CASE Change
  BY <1>1 DEF Change
<1>2. CASE Defer
  BY <1>2 DEF Defer
<1>3. CASE Flush
  <2>1. submitted = None /\ ~posted
    BY <1>3 DEF Flush, FlushInv
  <2>2. UNCHANGED <<mode, active, retiring, job, wrote, reply>> /\ ~posted' /\ mode = "worker"
    BY <1>3 DEF Flush, BeginFlush
  <2>3. active # None => job[active] = None /\ reply[active] \notin Outcomes
    BY <2>1
  <2> QED BY <2>2, <2>3
<1>4. CASE FlushLegacy
  BY <1>4 DEF FlushLegacy, SaveLegacy
<1>5. CASE Close
  <2>1. CASE UNCHANGED <<submitted, posted>>
    BY <1>5, <2>1 DEF Close
  <2>2. CASE mode = "worker" /\ ~inFlight /\ BeginFlush
    <3>1. submitted = None /\ ~posted
      BY <1>5, <2>2 DEF Close, FlushInv
    <3>2. active # None => job[active] = None /\ reply[active] \notin Outcomes
      BY <3>1
    <3> QED BY <1>5, <2>2, <3>2 DEF Close, BeginFlush
  <2> QED BY <1>5, <2>1, <2>2 DEF Close, Running
<1>6. CASE Post
  <2>1. active' \in Worker /\ retiring' = {} /\ posted' /\ submitted' = submitted
        /\ submitted # None /\ UNCHANGED <<mode, wrote, reply>> /\ ~posted
    BY <1>6 DEF Post
  <2>2. reply[active'] = None
    BY <1>6 DEF Post
  <2>3. job' = [job EXCEPT ![active'] = submitted]
    BY <1>6 DEF Post
  <2>4. job'[active'] = submitted /\ \A w \in Worker \ {active'} : job'[w] = job[w]
    BY <2>1, <2>3
  <2>5. mode = "worker"
    BY <2>1 DEF FlushInv
  <2>6. \A w \in Worker : ~Lives(w)' => ~Lives(w)
    BY <1>6 DEF Post
  <2> QED BY <2>1, <2>2, <2>4, <2>5, <2>6
<1>7. CASE Reply
  <2>1. active \in Worker /\ job[active] = None /\ submitted # None /\ mode = "worker"
    BY <1>7 DEF Reply
  <2>2. reply'[active] = None /\ \A w \in Worker \ {active} : reply'[w] = reply[w]
    BY <1>7, <2>1 DEF Reply
  <2>3. UNCHANGED <<mode, active, retiring, job, wrote>> /\ ~posted'
    BY <1>7 DEF Reply, AfterFlush, BeginFlush
  <2> QED BY <2>1, <2>2, <2>3
<1>8. CASE Fail
  BY <1>8 DEF Fail, AfterFlush, BeginFlush
<1>9. CASE Drain
  BY <1>9 DEF Drain, Nothing
<1>10. ASSUME NEW w \in Worker, Commit(w) PROVE ThreadInv'
  BY <1>10 DEF Commit
<1>11. ASSUME NEW w \in Worker, NoCommit(w) PROVE ThreadInv'
  BY <1>11 DEF NoCommit
<1>12. ASSUME NEW w \in Worker, Exit(w) PROVE ThreadInv'
  <2>1. /\ w \in retiring /\ retiring' = retiring \ {w} /\ active = None
        /\ UNCHANGED <<mode, active, posted, submitted>>
    BY <1>12 DEF Exit
  <2>2. \A v \in Worker : job'[v] = IF v = w THEN None ELSE job[v]
    BY <1>12 DEF Exit
  <2>3. \A v \in Worker : wrote'[v] = IF v = w THEN None ELSE wrote[v]
    BY <1>12 DEF Exit
  <2>4. \A v \in Worker : reply'[v] = IF v = w THEN None ELSE reply[v]
    BY <1>12 DEF Exit
  <2> QED BY <2>1, <2>2, <2>3, <2>4
<1>13. CASE Crash
  BY <1>13 DEF Crash, Nothing
<1>14. CASE Reset
  BY <1>14 DEF Reset
<1>15. ASSUME NEW m \in {"worker", "legacy"}, Start(m) PROVE ThreadInv'
  BY <1>15 DEF Start
<1>16. CASE UNCHANGED vars
  BY <1>16 DEF vars
<1> QED BY <1>1, <1>2, <1>3, <1>4, <1>5, <1>6, <1>7, <1>8, <1>9, <1>10, <1>11, <1>12, <1>13,
           <1>14, <1>15, <1>16 DEF Next


-----------------------------------------------------------------------------
(* Every step keeps what is said of the flags. *)

\* What is not saved is pending, handed over, or with a thread whose failure makes it pending.
LEMMA FlushStep ==
  ASSUME TypeOK, FlushInv, ThreadInv, DiskInv, [Next]_vars
  PROVE  FlushInv'
<1>0. StageType /\ ThreadType /\ FlagType /\ NumberType /\ DiskType
  BY TypeParts
<1> USE <1>0 DEF StageType, FlagType, FlushInv, NothingForgotten, Running, Saved, storeVars,
           writerVars, threadVars, diskVars
<1>1. CASE Change
  BY <1>1 DEF Change, SchedulePersist, NumberType, Stamps
<1>2. CASE Defer
  BY <1>2 DEF Defer
<1>3. CASE Flush
  BY <1>3 DEF Flush, BeginFlush, NumberType, Stamps
<1>4. CASE FlushLegacy
  <2>1. UNCHANGED <<mode, inventory, inFlight, closing, submitted, job>> /\ (timer' <=> pending')
        /\ mode = "legacy"
    BY <1>4 DEF FlushLegacy
  <2>2. ~pending' => legacy'.stamp = inventory
    <3>1. pending BY <1>4 DEF FlushLegacy
    <3>2. [stamp |-> inventory, at |-> clock].stamp = inventory OBVIOUS
    <3> QED BY <1>4, <3>1, <3>2 DEF FlushLegacy, SaveLegacy
  <2>3. \A w \in Worker : job[w] = None
    BY <2>1 DEF ThreadType, ThreadInv, Lives
  <2> QED BY <2>1, <2>2, <2>3
<1>5. CASE Close
  BY <1>5 DEF Close, SaveLegacy, BeginFlush, NumberType, Stamps
<1>6. CASE Post
  BY <1>6 DEF Post
<1>7. CASE Reply
  <2>1. /\ active # None /\ reply[active] # None /\ job[active] = None /\ submitted # None
        /\ mode = "worker" /\ UNCHANGED <<mode, inventory, job, cache, identity>>
    BY <1>7 DEF Reply, ThreadInv
  <2>2. \A w \in Worker : job'[w] = None
    BY <2>1 DEF ThreadType, ThreadInv, Lives
  <2>3. reply[active] # "failed" => cache.identity = identity /\ cache.stamp = submitted
    BY <2>1 DEF ThreadType, ThreadInv, DiskInv
  <2>4. AfterFlush(reply[active] = "failed")
    BY <1>7 DEF Reply
  <2>5. CASE closing = "open"
    BY <2>1, <2>2, <2>3, <2>4, <2>5 DEF AfterFlush
  <2>6. CASE closing # "open"
    BY <2>1, <2>4, <2>6 DEF AfterFlush, BeginFlush, NumberType, Stamps
  <2> QED BY <2>5, <2>6
<1>8. CASE Fail
  BY <1>8 DEF Fail, AfterFlush, BeginFlush, ThreadInv
<1>9. CASE Drain
  <2>1. closing = "draining" /\ closing' = "closed" /\ mode' = "down" /\ submitted' = None
        /\ UNCHANGED <<timer, inFlight, pending>>
    BY <1>9 DEF Drain
  <2> QED BY <2>1
<1>10. ASSUME NEW w \in Worker, Commit(w) PROVE FlushInv'
  BY <1>10 DEF Commit, ThreadInv, Lives
<1>11. ASSUME NEW w \in Worker, NoCommit(w) PROVE FlushInv'
  BY <1>11 DEF NoCommit
<1>12. ASSUME NEW w \in Worker, Exit(w) PROVE FlushInv'
  BY <1>12 DEF Exit
<1>13. CASE Crash
  BY <1>13 DEF Crash, Nothing
<1>14. CASE Reset
  BY <1>14 DEF Reset
<1>15. ASSUME NEW m \in {"worker", "legacy"}, Start(m) PROVE FlushInv'
  <2>1. /\ mode = "down" /\ mode' = m /\ closing' = "open" /\ (timer' <=> pending')
        /\ UNCHANGED <<inFlight, submitted, job, cache, legacy, identity>>
    BY <1>15 DEF Start
  <2>2. submitted = None /\ ~inFlight /\ \A w \in Worker : job[w] = None
    BY <2>1 DEF ThreadInv, Lives
  <2>3. ~pending' => inventory' = Restored(m) /\ (m = "worker" /\ ~Cached => Restored(m) = 0)
    <3>1. Restored(m) \in Nat BY DEF Restored, DiskType, Stamps
    <3>2. CASE pending' = TRUE BY <3>2
    <3>3. CASE /\ inventory' = Restored(m)
               /\ pending' = (m = "worker" /\ ~Cached /\ Restored(m) > 0)
      <4>1. ~pending' /\ m = "worker" /\ ~Cached => ~(Restored(m) > 0) BY <3>3, Zenon
      <4> QED BY <3>1, <3>3, <4>1
    <3> QED BY <1>15, <3>2, <3>3 DEF Start
  <2>4. ~pending' => Saved' = inventory'
    <3>1. CASE m = "legacy" BY <2>1, <2>3, <3>1 DEF Restored
    <3>2. CASE m = "worker"
      BY <2>1, <2>3, <3>2 DEF Restored, Cached, DiskInv, DiskType, Stamps
    <3> QED BY <3>1, <3>2
  <2> QED BY <2>1, <2>2, <2>4
<1>16. CASE UNCHANGED vars
  BY <1>16 DEF vars
<1> QED BY <1>1, <1>2, <1>3, <1>4, <1>5, <1>6, <1>7, <1>8, <1>9, <1>10, <1>11, <1>12, <1>13,
           <1>14, <1>15, <1>16 DEF Next

-----------------------------------------------------------------------------
(* Every step keeps what is said of the disk. *)

(* A save to the main database is of what was restored from it, and changes *)
(* nothing, or of what changed since, which is newer than the sidecar.      *)
LEMMA LegacySaved ==
  ASSUME TypeOK, FlushInv, ThreadInv, DiskInv, mode = "legacy", SaveLegacy,
         UNCHANGED <<inventory, clock, cache, identity, submitted, job, wrote>>,
         mode' \in {"legacy", "down"}
  PROVE  DiskInv'
<1>0. /\ inventory \in Nat /\ clock \in Nat /\ cache.stamp \in Nat /\ cache.at \in Nat
      /\ legacy.stamp \in Nat /\ legacy.at \in Nat /\ acked \in Nat
  BY TypeParts DEF NumberType, DiskType, Stamps
<1>1. submitted = None /\ \A w \in Worker : job[w] = None /\ wrote[w] = None
  BY TypeParts DEF FlushInv, ThreadInv, Lives, ThreadType
<1>2. CASE legacy' = legacy /\ acked' \in {acked, legacy.stamp}
  BY <1>0, <1>1, <1>2 DEF DiskInv, Restored, Cached
<1>3. CASE inventory # legacy.stamp /\ legacy' = [stamp |-> inventory, at |-> clock]
           /\ acked' = inventory
  <2>1. legacy'.stamp = inventory /\ legacy'.at = clock
    BY <1>3
  <2>2. inventory > cache.stamp /\ inventory > cache.at /\ inventory <= clock
    BY <1>3 DEF DiskInv
  <2>3. cache.at < legacy'.at /\ Restored("worker")' = inventory
    BY <1>0, <2>1, <2>2 DEF Restored, Cached
  <2> QED BY <1>0, <1>1, <1>3, <2>1, <2>2, <2>3 DEF DiskInv
<1> QED BY <1>2, <1>3 DEF SaveLegacy

\* Commits, saves of an older release, resets and starts keep the order of what is stored.
LEMMA DiskStep ==
  ASSUME TypeOK, FlushInv, ThreadInv, DiskInv, [Next]_vars
  PROVE  DiskInv'
<1>0. /\ StageType /\ ThreadType /\ FlagType
      /\ inventory \in Nat /\ clock \in Nat /\ acked \in Nat
      /\ cache.stamp \in Nat /\ cache.at \in Nat /\ cache.identity \in Nat
      /\ legacy.stamp \in Nat /\ legacy.at \in Nat /\ identity \in Nat
      /\ \A w \in Worker : job[w] \in Nat \cup {None} /\ wrote[w] \in Nat \cup {None}
      /\ submitted \in Nat \cup {None}
  BY TypeParts DEF NumberType, DiskType, ThreadType, StageType, Stamps
<1> USE <1>0 DEF DiskInv, Covers, Restored, Cached, storeVars, writerVars, threadVars, diskVars
<1>1. CASE Change
  BY <1>1 DEF Change
<1>2. CASE Defer
  BY <1>2 DEF Defer
<1>3. CASE Flush
  BY <1>3 DEF Flush, BeginFlush
<1>4. CASE FlushLegacy
  <2>1. mode' \in {"legacy", "down"} /\ mode = "legacy"
    BY <1>4 DEF FlushLegacy
  <2>2. SaveLegacy /\ UNCHANGED <<inventory, clock, cache, identity, submitted, job, wrote>>
    BY <1>4 DEF FlushLegacy
  <2> QED BY <2>1, <2>2, LegacySaved
<1>5. CASE Close
  <2>1. CASE mode = "legacy"
    <3>1. mode' = "down" /\ SaveLegacy
          /\ UNCHANGED <<inventory, clock, cache, identity, submitted, job, wrote>>
      BY <1>5, <2>1 DEF Close
    <3> QED BY <2>1, <3>1, LegacySaved
  <2>2. CASE mode # "legacy"
    <3>1. mode = "worker"
          /\ UNCHANGED <<mode, inventory, clock, job, wrote, cache, legacy, identity, acked>>
      BY <1>5, <2>2 DEF Close, Running, StageType
    <3>2. submitted' \in {submitted, inventory}
      BY <1>5, <2>2 DEF Close, BeginFlush
    <3> QED BY <3>1, <3>2
  <2> QED BY <2>1, <2>2
<1>6. CASE Post
  BY <1>6 DEF Post
<1>7. CASE Reply
  <2>1. /\ active \in Worker /\ reply[active] # None /\ submitted # None /\ mode = "worker"
        /\ UNCHANGED <<mode, inventory, clock, job, wrote, cache, legacy, identity>>
    BY <1>7 DEF Reply, ThreadInv, ThreadType
  <2>2. submitted' \in {None, inventory}
    BY <1>7 DEF Reply, AfterFlush, BeginFlush
  <2>3. acked' <= Restored("worker")
    <3>1. CASE reply[active] = "failed" BY <1>7, <3>1 DEF Reply
    <3>2. CASE reply[active] # "failed"
      <4>1. wrote[active] = submitted BY <2>1, <3>2 DEF ThreadType, ThreadInv
      <4>2. cache.stamp = submitted /\ cache.identity = identity /\ cache.at >= legacy.at
        BY <2>1, <4>1
      <4>3. acked' = submitted BY <1>7, <3>2 DEF Reply
      <4> QED BY <4>2, <4>3
    <3> QED BY <3>1, <3>2
  <2> QED BY <2>1, <2>2, <2>3
<1>8. CASE Fail
  BY <1>8 DEF Fail, AfterFlush, BeginFlush
<1>9. CASE Drain
  BY <1>9 DEF Drain, Nothing
<1>10. ASSUME NEW w \in Worker, Commit(w) PROVE DiskInv'
  <2>1. /\ job[w] \in Nat /\ Covers(job[w]) /\ job[w] <= inventory
        /\ submitted # None => job[w] <= submitted
        /\ UNCHANGED <<mode, inventory, clock, submitted, legacy, identity, acked>>
    BY <1>10 DEF Commit
  <2>2. cache'.stamp = job[w] /\ cache'.at = clock /\ cache'.identity = identity
    BY <1>10 DEF Commit
  <2>3. mode = "worker" /\ \A v \in Worker \ {w} : job[v] = None /\ wrote[v] = None
    BY <2>1 DEF ThreadType, ThreadInv, Lives
  <2>4. /\ \A v \in Worker : job'[v] = None
        /\ \A v \in Worker : wrote'[v] = IF v = w THEN job[w] ELSE None
    BY <1>10, <2>3 DEF Commit, ThreadType
  <2>5. Restored("worker") <= job[w]
    BY <2>1
  <2>6. Restored("worker")' = job[w]
    BY <2>1, <2>2
  <2> QED BY <2>1, <2>2, <2>3, <2>4, <2>5, <2>6
<1>11. ASSUME NEW w \in Worker, NoCommit(w) PROVE DiskInv'
  BY <1>11 DEF NoCommit
<1>12. ASSUME NEW w \in Worker, Exit(w) PROVE DiskInv'
  BY <1>12 DEF Exit
<1>13. CASE Crash
  BY <1>13 DEF Crash, Nothing
<1>14. CASE Reset
  <2>1. mode = "down" /\ legacy'.stamp = 0 /\ legacy'.at = 0 /\ acked' = 0
        /\ UNCHANGED <<mode, inventory, clock, submitted, job, wrote, cache>>
    BY <1>14 DEF Reset
  <2>2. submitted = None /\ \A w \in Worker : job[w] = None /\ wrote[w] = None
    BY <2>1 DEF FlushInv, ThreadInv, Lives, ThreadType
  <2> QED BY <2>1, <2>2
<1>15. ASSUME NEW m \in {"worker", "legacy"}, Start(m) PROVE DiskInv'
  <2>1. /\ mode = "down" /\ mode' = m
        /\ UNCHANGED <<submitted, job, wrote, cache, legacy, identity, acked>>
    BY <1>15 DEF Start
  <2>2. submitted = None /\ \A w \in Worker : job[w] = None /\ wrote[w] = None
    BY <2>1 DEF FlushInv, ThreadInv, Lives, ThreadType
  <2>3. \/ inventory' = Restored(m) /\ clock' = clock
        \/ inventory' = clock + 1 /\ clock' = clock + 1
    BY <1>15 DEF Start
  <2>4. m = "worker" => Covers(inventory')
    BY <2>3
  <2> QED BY <2>1, <2>2, <2>3, <2>4
<1>16. CASE UNCHANGED vars
  BY <1>16 DEF vars
<1> QED BY <1>1, <1>2, <1>3, <1>4, <1>5, <1>6, <1>7, <1>8, <1>9, <1>10, <1>11, <1>12, <1>13,
           <1>14, <1>15, <1>16 DEF Next

-----------------------------------------------------------------------------
(* The theorems. *)

\* At the start nothing was ever saved.
LEMMA InvInit == Init => Inv
<1> SUFFICES ASSUME Init PROVE Inv
  OBVIOUS
<1>1. TypeOK
  <2>1. NumberType
    BY DEF Init, NumberType, Stamps
  <2>2. FlagType
    BY DEF Init, FlagType
  <2>3. StageType
    BY DEF Init, StageType
  <2>4. ThreadType
    BY DEF Init, ThreadType, Nothing
  <2>5. DiskType
    BY DEF Init, DiskType, Stamps
  <2> QED BY <2>1, <2>2, <2>3, <2>4, <2>5, TypeParts
<1>2. FlushInv
  BY DEF Init, FlushInv, NothingForgotten, Running
<1>3. ThreadInv
  BY DEF Init, ThreadInv, Lives, Nothing
<1>4. DiskInv
  BY DEF Init, DiskInv, Restored, Cached, Nothing
<1> QED BY <1>1, <1>2, <1>3, <1>4 DEF Inv

\* The inductive invariant.
LEMMA Invariance == Spec => []Inv
<1>1. Inv /\ [Next]_vars => Inv'
  BY TypeStep, FlushStep, ThreadStep, DiskStep DEF Inv
<1> QED BY InvInit, <1>1, PTL DEF Spec

(* While the bridge runs, an inventory that is not on disk has a save ahead *)
(* of it: #schedulePersist, #flushPersistAsync and the constructor.         *)
THEOREM EverySaveIsAhead == Spec => []SaveIsAhead
<1>1. Inv => SaveIsAhead
  BY DEF Inv, FlushInv, SaveIsAhead
<1> QED BY Invariance, <1>1, PTL

(* A commit writes what is at least as new as what it replaces, also that of*)
(* a thread that was given up, and a start restores what was last reported  *)
(* as saved, or newer: ThreadedInventoryWriter and readInventoryCache.      *)
THEOREM TheDiskIsRestored == Spec => DiskIsRestored
<1> DEFINE MovesOn == Running /\ cache'.identity = cache.identity => cache'.stamp >= cache.stamp
           Restores == mode = "down" /\ mode' = "worker" =>
                         /\ inventory' >= acked
                         /\ legacy.stamp = 0 /\ cache.identity # identity => inventory' = 0
<1>1. Inv /\ [Next]_vars => MovesOn
  <2> SUFFICES ASSUME Inv, [Next]_vars, cache'.identity = cache.identity
               PROVE  cache'.stamp >= cache.stamp
    OBVIOUS
  <2>1. cache.stamp \in Nat
    BY TypeParts DEF Inv, DiskType, Stamps
  <2>2. ASSUME NEW w \in Worker, Commit(w) PROVE cache'.stamp >= cache.stamp
    <3>1. job[w] # None /\ cache'.stamp = job[w] /\ cache'.identity = identity
      BY <2>2 DEF Commit
    <3>2. Covers(job[w]) /\ job[w] \in Nat
      BY <3>1, TypeParts DEF Inv, DiskInv, ThreadType, Stamps
    <3> QED BY <2>1, <3>1, <3>2 DEF Covers
  <2>3. cache' = cache \/ \E w \in Worker : Commit(w)
    BY DEF Next, Change, Defer, Flush, FlushLegacy, Close, Post, Reply, Fail, Drain, NoCommit,
           Exit, Crash, Reset, Start, vars, diskVars
  <2> QED BY <2>1, <2>2, <2>3
<1>2. Inv /\ [Next]_vars => Restores
  <2> SUFFICES ASSUME Inv, [Next]_vars, mode = "down", mode' = "worker" PROVE Restores
    OBVIOUS
  <2>1. Start("worker")
    BY DEF Next, Change, Defer, Flush, FlushLegacy, Close, Post, Reply, Fail, Drain, Commit,
           NoCommit, Exit, Crash, Reset, Start, vars
  <2>2. /\ clock \in Nat /\ acked \in Nat /\ Restored("worker") \in Nat
        /\ acked <= Restored("worker") /\ Restored("worker") <= clock
    BY TypeParts DEF Inv, DiskInv, Restored, NumberType, DiskType, Stamps
  <2>3. \/ inventory' = Restored("worker")
        \/ Restored("worker") > 0 /\ inventory' = clock + 1
    BY <2>1 DEF Start
  <2>4. legacy.stamp = 0 /\ cache.identity # identity => Restored("worker") = 0
    BY DEF Restored, Cached
  <2> QED BY <2>2, <2>3, <2>4
<1>3. Spec => [][MovesOn]_vars /\ [][Restores]_vars
  BY Invariance, <1>1, <1>2, PTL DEF Spec
<1> QED BY <1>3 DEF DiskIsRestored, DiskMovesOn, SavedIsRestored

-----------------------------------------------------------------------------
(***************************************************************************)
(* Which devices the store holds, for any devices, locations and rooms, any *)
(* size of the advanced API's pages and any number of changes, events and   *)
(* sessions, if the pages of one load are of one listing of the account.    *)
(***************************************************************************)
USE PresenceAssumption

(* How many devices a listing has before d, and those on its first k pages. *)
Rank(listing, d) == Cardinality({x \in DOMAIN listing : x < d})
FirstPages(listing, k) == {d \in DOMAIN listing : Rank(listing, d) \div PageSize < k}

(* A device that was in the account ever since the start is in every listing*)
(* of it; the load in flight has the pages it has read and no others.       *)
LoadIsListed ==
  /\ Device \ absent \subseteq DOMAIN account
  /\ load # None => /\ Device \ absent \subseteq DOMAIN load.listing
                    /\ DOMAIN load.spots = FirstPages(load.listing, load.page)

(* Once the whole account was read in this session nobody is unconfirmed who*)
(* was there all the time, and a session that is over waits for nobody.     *)
WaitsForAbsent(s) ==
  /\ s \in Presence!Session
  /\ s.wholeSeen => s.pending \subseteq absent
  /\ ~s.open => s.pending = {}

(* A store with devices in their places, and rooms of their locations.      *)
Furnished(st) ==
  /\ st \in Presence!SomeFunctions(Presence!Place)
  /\ \A d \in DOMAIN st : st[d].room # None => RoomIn[st[d].room] = st[d].location

PresenceInv == Presence!TypeOK /\ Furnished(store) /\ LoadIsListed /\ WaitsForAbsent(session)

-----------------------------------------------------------------------------
LEMMA PartialFunctions ==
  ASSUME NEW T
  PROVE  /\ \A f \in Presence!SomeFunctions(T) : /\ DOMAIN f \subseteq Device
                                          /\ \A d \in DOMAIN f : f[d] \in T
                                          /\ f \in [DOMAIN f -> T]
         /\ \A S : \A f : S \subseteq Device /\ f \in [S -> T] => f \in Presence!SomeFunctions(T)
  BY DEF Presence!SomeFunctions

\* What is left of a function, and two of them merged.
LEMMA PartsAndMergers ==
  ASSUME NEW T, NEW f \in Presence!SomeFunctions(T), NEW g \in Presence!SomeFunctions(T)
  PROVE  /\ \A S : Presence!Only(f, S) \in Presence!SomeFunctions(T)
         /\ Presence!Merged(f, g) \in Presence!SomeFunctions(T)
  <1>1. DOMAIN f \subseteq Device /\ DOMAIN g \subseteq Device
        /\ (\A d \in DOMAIN f : f[d] \in T) /\ (\A d \in DOMAIN g : g[d] \in T)
    BY PartialFunctions
  <1>2. ASSUME NEW S PROVE Presence!Only(f, S) \in Presence!SomeFunctions(T)
    <2>1. Presence!Only(f, S) \in [DOMAIN f \cap S -> T]
      BY <1>1 DEF Presence!Only
    <2> QED BY <1>1, <2>1, PartialFunctions
  <1>3. Presence!Merged(f, g) \in [DOMAIN f \cup DOMAIN g -> T]
    BY <1>1 DEF Presence!Merged
  <1>4. DOMAIN f \cup DOMAIN g \subseteq Device
    BY <1>1
  <1> QED BY <1>2, <1>3, <1>4, PartialFunctions

-----------------------------------------------------------------------------
(* The pages of a listing.                                                  *)
LEMMA RankType ==
  ASSUME NEW f, DOMAIN f \subseteq Device, NEW d \in DOMAIN f
  PROVE  /\ Rank(f, d) \in Nat /\ Rank(f, d) < Cardinality(DOMAIN f)
         /\ Cardinality(DOMAIN f) \in Nat /\ Rank(f, d) \div PageSize \in Nat
  <1> DEFINE before == {x \in DOMAIN f : x < d}
  <1>1. IsFiniteSet(DOMAIN f)
    BY FS_Subset
  <1>2. before \subseteq DOMAIN f /\ d \notin before
    <2>1. d \in Nat
      OBVIOUS
    <2> QED BY <2>1
  <1>3. IsFiniteSet(before) /\ Cardinality(before) <= Cardinality(DOMAIN f)
        /\ Cardinality(before) # Cardinality(DOMAIN f)
    BY <1>1, <1>2, FS_Subset
  <1>4. Cardinality(before) \in Nat /\ Cardinality(DOMAIN f) \in Nat
    BY <1>1, <1>3, FS_CardinalityType
  <1>5. PageSize \in Nat /\ PageSize > 0
    OBVIOUS
  <1>6. Rank(f, d) = Cardinality(before)
    BY DEF Rank
  <1>7. \A r, p \in Nat : p > 0 => r \div p \in Nat
    OBVIOUS
  <1> QED BY <1>3, <1>4, <1>5, <1>6, <1>7

LEMMA SameCardinality == \A S : Presence!Cardinality(S) = Cardinality(S)
  BY DEF Presence!Cardinality, Cardinality, Presence!IsFiniteSet, IsFiniteSet

LEMMA PageAfterPage ==
  ASSUME NEW f, DOMAIN f \subseteq Device, NEW k \in Nat
  PROVE  /\ FirstPages(f, k) \cup DOMAIN Presence!Page(f, k) = FirstPages(f, k + 1)
         /\ FirstPages(f, 0) = {}
         /\ Cardinality(DOMAIN f) <= (k + 1) * PageSize => FirstPages(f, k + 1) = DOMAIN f
  <1>1. DOMAIN Presence!Page(f, k) = {d \in DOMAIN f : Rank(f, d) \div PageSize = k}
    BY SameCardinality DEF Presence!Page, Presence!Only, Rank
  <1>2. \A d \in DOMAIN f : Rank(f, d) \div PageSize \in Nat
    BY RankType
  <1>3. FirstPages(f, k) \cup DOMAIN Presence!Page(f, k) = FirstPages(f, k + 1)
    BY <1>1, <1>2 DEF FirstPages
  <1>4. FirstPages(f, 0) = {}
    BY <1>2 DEF FirstPages
  <1>5. ASSUME Cardinality(DOMAIN f) <= (k + 1) * PageSize, NEW d \in DOMAIN f
        PROVE  Rank(f, d) \div PageSize < k + 1
    <2> DEFINE r == Rank(f, d)
               q == r \div PageSize
    <2>1. r \in Nat /\ q \in Nat /\ PageSize \in Nat /\ PageSize > 0
      BY RankType
    <2>2. (k + 1) * PageSize \in Nat
      BY <2>1
    <2>3. r < (k + 1) * PageSize
      BY <1>5, <2>1, <2>2, RankType
    <2>4. q * PageSize <= r
      <3>1. \A n, p \in Nat : p > 0 => (n \div p) * p <= n
        BY Z3
      <3> HIDE DEF r
      <3> QED BY <2>1, <3>1
    <2>5. q >= k + 1 => (k + 1) * PageSize <= q * PageSize
      <3>1. \A m, n, p \in Nat : m <= n => m * p <= n * p
        BY Z3
      <3> HIDE DEF q
      <3> QED BY <2>1, <3>1
    <2>6. q * PageSize \in Nat
      <3> HIDE DEF q
      <3> QED BY <2>1
    <2>7. q < k + 1
      <3> HIDE DEF q, r
      <3> QED BY <2>1, <2>2, <2>3, <2>4, <2>5, <2>6
    <2> QED BY <2>7
  <1> QED BY <1>3, <1>4, <1>5 DEF FirstPages

-----------------------------------------------------------------------------
(* The store.                                                               *)
LEMMA EachInPlace ==
  ASSUME NEW S, S \subseteq Device, NEW st \in [S -> Presence!Place],
         \A d \in S : st[d].room # None => RoomIn[st[d].room] = st[d].location
  PROVE  Furnished(st)
  <1>1. st \in Presence!SomeFunctions(Presence!Place)
    BY PartialFunctions
  <1> QED BY <1>1 DEF Furnished

LEMMA CardsFurnish ==
  ASSUME Furnished(store), NEW answer \in Presence!Answer
  PROVE  Furnished(Presence!WithCards(store, answer))
  <1> DEFINE st == Presence!WithCards(store, answer)
  <1>1. /\ DOMAIN store \subseteq Device /\ \A d \in DOMAIN store : store[d] \in Presence!Place
        /\ DOMAIN answer.spots \subseteq Device
        /\ \A d \in DOMAIN answer.spots : answer.spots[d] \in Presence!Spot
        /\ answer.rooms \in BOOLEAN
    BY PartialFunctions DEF Furnished, Presence!Answer
  <1>2. None \notin Room
    OBVIOUS
  <1>3. ASSUME NEW d \in DOMAIN answer.spots, NEW place,
               place = Presence!ByCard(store, d, answer.spots[d], answer.rooms)
        PROVE  /\ place \in Presence!Place
               /\ place.room # None => RoomIn[place.room] = place.location
    <2>1. answer.spots[d] \in Presence!Spot
      BY <1>1
    <2>2. d \in DOMAIN store =>
            /\ store[d] \in Presence!Place
            /\ store[d].room # None => RoomIn[store[d].room] = store[d].location
      BY <1>1 DEF Furnished
    <2> DEFINE now == Presence!Ensured(store, d, answer.spots[d].location)
    <2>3. now \in Presence!Place /\ (now.room # None => RoomIn[now.room] = now.location)
          /\ now.location = answer.spots[d].location
      BY <2>1, <2>2 DEF Presence!Ensured, Presence!Place, Presence!Spot
    <2>4. [now EXCEPT !.room = answer.spots[d].room] \in Presence!Place
      BY <2>1, <2>3 DEF Presence!Place, Presence!Spot
    <2> HIDE DEF now
    <2>5. LET new == [now EXCEPT !.room = answer.spots[d].room]
          IN new.room # None => RoomIn[new.room] = new.location
      BY <2>1, <2>3 DEF Presence!Place, Presence!Spot
    <2>6. place = IF d \in DOMAIN store /\ store[d].advanced THEN store[d]
                  ELSE IF answer.rooms THEN [now EXCEPT !.room = answer.spots[d].room] ELSE now
      BY <1>3 DEF Presence!ByCard, now
    <2> QED BY <2>2, <2>3, <2>4, <2>5, <2>6
  <1>4. \A d \in DOMAIN st : st[d] \in Presence!Place
          /\ (st[d].room # None => RoomIn[st[d].room] = st[d].location)
    BY <1>1, <1>3 DEF Presence!WithCards, Furnished
  <1>5. DOMAIN st \subseteq Device /\ st \in [DOMAIN st -> Presence!Place]
    BY <1>1, <1>4 DEF Presence!WithCards
  <1> HIDE DEF st
  <1>6. Furnished(st)
    BY <1>4, <1>5, EachInPlace
  <1> QED BY <1>6 DEF st

LEMMA RowsFurnish ==
  ASSUME Furnished(store), NEW spots \in Presence!SomeFunctions(Presence!Spot)
  PROVE  Furnished(Presence!WithRows(store, spots))
  <1> DEFINE st == Presence!WithRows(store, spots)
  <1>1. /\ DOMAIN store \subseteq Device /\ \A d \in DOMAIN store : store[d] \in Presence!Place
        /\ DOMAIN spots \subseteq Device /\ \A d \in DOMAIN spots : spots[d] \in Presence!Spot
    BY PartialFunctions DEF Furnished
  <1>2. \A d \in DOMAIN st :
          st[d] = IF d \in DOMAIN spots THEN Presence!ByRow(store, d, spots[d]) ELSE store[d]
    BY DEF Presence!WithRows
  <1>3. ASSUME NEW d \in DOMAIN spots, NEW place, place = Presence!ByRow(store, d, spots[d])
        PROVE  /\ place \in Presence!Place
               /\ place.room # None => RoomIn[place.room] = place.location
    <2>1. spots[d] \in Presence!Spot
      BY <1>1
    <2> QED BY <1>3, <2>1 DEF Presence!ByRow, Presence!Place, Presence!Spot
  <1>4. \A d \in DOMAIN st : st[d] \in Presence!Place
          /\ (st[d].room # None => RoomIn[st[d].room] = st[d].location)
    BY <1>1, <1>2, <1>3 DEF Presence!WithRows, Furnished
  <1>5. DOMAIN st \subseteq Device /\ st \in [DOMAIN st -> Presence!Place]
    BY <1>1, <1>4 DEF Presence!WithRows
  <1> HIDE DEF st
  <1>6. Furnished(st)
    BY <1>4, <1>5, EachInPlace
  <1> QED BY <1>6 DEF st

\* A pushed event: the device is in its location, without a room if it is new there.
LEMMA EventsFurnish ==
  ASSUME Furnished(store), NEW d \in Device, NEW l \in Location,
         store' = [x \in DOMAIN store \cup {d} |->
                     IF x = d THEN Presence!Ensured(store, d, l) ELSE store[x]]
  PROVE  Furnished(store)'
  <1>1. DOMAIN store \subseteq Device /\ \A x \in DOMAIN store : store[x] \in Presence!Place
    BY PartialFunctions DEF Furnished
  <1>2. Presence!Ensured(store, d, l) \in Presence!Place
    BY <1>1 DEF Presence!Ensured, Presence!Place
  <1>3. LET now == Presence!Ensured(store, d, l)
        IN now.room # None => RoomIn[now.room] = now.location
    BY <1>1 DEF Presence!Ensured, Furnished, Presence!Place
  <1>4. \A x \in DOMAIN store' :
          store'[x] = IF x = d THEN Presence!Ensured(store, d, l) ELSE store[x]
    OBVIOUS
  <1>5. DOMAIN store' = DOMAIN store \cup {d}
    OBVIOUS
  <1>6. \A x \in DOMAIN store' :
          /\ store'[x] \in Presence!Place
          /\ store'[x].room # None => RoomIn[store'[x].room] = store'[x].location
    BY <1>1, <1>2, <1>3, <1>4, <1>5 DEF Furnished
  <1>7. DOMAIN store' \subseteq Device /\ store' \in [DOMAIN store' -> Presence!Place]
    BY <1>1, <1>2, <1>5, <1>6
  <1> QED BY <1>6, <1>7, EachInPlace DEF Furnished

(* A prune removes only who was away, and leaves the others where they are. *)
LEMMA PruneRemovesTheAbsent ==
  ASSUME NEW st, Furnished(st), NEW s, WaitsForAbsent(s), Presence!Prune(st, s),
         absent' = absent
  PROVE  /\ Furnished(store') /\ WaitsForAbsent(session')
         /\ DOMAIN store' \subseteq DOMAIN st /\ DOMAIN st \ DOMAIN store' \subseteq absent
         /\ \A d \in DOMAIN store' : store'[d] = st[d]
  <1>1. CASE ~Presence!Ready(s)
    BY <1>1 DEF Presence!Prune
  <1>2. CASE Presence!Ready(s)
    <2> DEFINE gone == s.pending \ Presence!Preserved(st, s)
    <2>1. store' = Presence!Only(st, DOMAIN st \ gone)
      BY <1>2 DEF Presence!Prune
    <2>2. s.pending \subseteq absent /\ s \in Presence!Session /\ s.open
      BY <1>2 DEF WaitsForAbsent, Presence!Ready
    <2>3. Presence!Only(st, DOMAIN st \ gone) \in Presence!SomeFunctions(Presence!Place)
      BY PartsAndMergers DEF Furnished
    <2>4. DOMAIN store' = DOMAIN st \ gone /\ \A d \in DOMAIN store' : store'[d] = st[d]
      BY <2>1 DEF Presence!Only
    <2>5. Furnished(store')
      BY <2>1, <2>3, <2>4 DEF Furnished
    <2>6. Presence!Preserved(st, s) \subseteq s.pending
      BY DEF Presence!Preserved
    <2>7. \/ session' = Presence!Closed(s)
          \/ session' = [s EXCEPT !.pending = Presence!Preserved(st, s)]
      BY <1>2 DEF Presence!Prune
    <2>8. Presence!Closed(s) \in Presence!Session /\ Presence!Closed(s).pending = {}
      BY <2>2 DEF Presence!Closed, Presence!Session
    <2>9. LET r == [s EXCEPT !.pending = Presence!Preserved(st, s)] IN
          r \in Presence!Session /\ r.pending \subseteq absent /\ r.open
      BY <2>2, <2>6 DEF Presence!Session
    <2>10. WaitsForAbsent(session')
      BY <2>7, <2>8, <2>9 DEF WaitsForAbsent
    <2> QED BY <2>2, <2>4, <2>5, <2>10
  <1> QED BY <1>1, <1>2

(* What answers make of the session.                                        *)
LEMMA ConfirmingWaits ==
  ASSUME NEW s, WaitsForAbsent(s), NEW spots \in Presence!SomeFunctions(Presence!Spot),
         NEW source \in {"consumer", "advanced"}
  PROVE  /\ WaitsForAbsent(Presence!Confirmed(s, spots, source))
         /\ Presence!Confirmed(s, spots, source).pending =
              IF s.open THEN s.pending \ DOMAIN spots ELSE s.pending
         /\ Presence!Confirmed(s, spots, source).open = s.open
  <1>1. Presence!Locations(spots) \subseteq Location
    <2>1. \A d \in DOMAIN spots : spots[d].location \in Location
      BY PartialFunctions DEF Presence!Spot
    <2> QED BY <2>1 DEF Presence!Locations
  <1> QED BY <1>1 DEF Presence!Confirmed, WaitsForAbsent, Presence!Session

-----------------------------------------------------------------------------
LEMMA PresenceInit == Presence!Init => PresenceInv
  <1> SUFFICES ASSUME Presence!Init PROVE PresenceInv
    OBVIOUS
  <1>1. account \in Presence!SomeFunctions(Presence!Spot)
    BY DEF Presence!Init
  <1>2. PICK saved \in Saves :
          /\ store = [d \in DOMAIN saved |->
                        [location |-> saved[d].location, room |-> saved[d].room,
                                advanced |-> FALSE]]
          /\ session = [pending |-> DOMAIN saved, open |-> TRUE, consumer |-> {}, advanced |-> {},
                        cardsSeen |-> FALSE, wholeSeen |-> FALSE]
    BY DEF Presence!Init
  <1>3. DOMAIN saved \subseteq Device /\ \A d \in DOMAIN saved : saved[d] \in Presence!Spot
    BY PartialFunctions
  <1>4. \A d \in DOMAIN saved :
          LET place == [location |-> saved[d].location, room |-> saved[d].room, advanced |-> FALSE]
          IN place \in Presence!Place /\ (place.room # None => RoomIn[place.room] = place.location)
    BY <1>3 DEF Presence!Place, Presence!Spot
  <1>5. store \in [DOMAIN saved -> Presence!Place]
        /\ \A d \in DOMAIN saved : store[d].room # None => RoomIn[store[d].room] = store[d].location
    BY <1>2, <1>4
  <1>6. Furnished(store)
    BY <1>3, <1>5, EachInPlace
  <1>7. WaitsForAbsent(session)
    BY <1>2, <1>3 DEF WaitsForAbsent, Presence!Session
  <1>8. LoadIsListed
    BY DEF Presence!Init, LoadIsListed
  <1>9. Presence!TypeOK
    <2>1. absent \subseteq Device /\ pushes = {} /\ cards = {} /\ load = None
      BY DEF Presence!Init
    <2>2. spent \in [changes: 0..MaxMoves, pushes: 0..MaxPushes, resets: 0..MaxSessions]
      BY DEF Presence!Init
    <2> QED BY <1>1, <1>6, <1>7, <2>1, <2>2 DEF Presence!TypeOK, Furnished, WaitsForAbsent
  <1> QED BY <1>6, <1>7, <1>8, <1>9 DEF PresenceInv

\* What a step must keep of the rest, if the store and the session are as they should be.
LEMMA AccountMoves ==
  ASSUME PresenceInv, NEW d \in Device, Presence!AddOrMove(d)
          \/ Presence!Remove(d)
  PROVE  PresenceInv'
  <1>1. account \in Presence!SomeFunctions(Presence!Spot) /\ DOMAIN account \subseteq Device
        /\ (\A x \in DOMAIN account : account[x] \in Presence!Spot) /\ absent \subseteq Device
    <2>1. account \in Presence!SomeFunctions(Presence!Spot) /\ absent \subseteq Device
      BY DEF PresenceInv, Presence!TypeOK
    <2>2. DOMAIN account \subseteq Device
            /\ (\A x \in DOMAIN account : account[x] \in Presence!Spot)
      BY <2>1, PartialFunctions
    <2> QED BY <2>1, <2>2
  <1>2. /\ spent' \in [changes: 0..MaxMoves, pushes: 0..MaxPushes, resets: 0..MaxSessions]
        /\ UNCHANGED <<pushes, cards, load, store, session>>
    BY DEF PresenceInv, Presence!TypeOK, Presence!AddOrMove, Presence!Remove
  <1>3. /\ account' \in Presence!SomeFunctions(Presence!Spot) /\ absent \subseteq absent'
          /\ absent' \subseteq Device
        /\ Device \ absent' \subseteq DOMAIN account'
    <2>1. CASE Presence!AddOrMove(d)
      <3>1. PICK spot \in Presence!Spot :
              account' = [x \in DOMAIN account \cup {d} |-> IF x = d THEN spot ELSE account[x]]
        BY <2>1 DEF Presence!AddOrMove
      <3>2. account' \in [DOMAIN account \cup {d} -> Presence!Spot]
              /\ DOMAIN account \cup {d} \subseteq Device
            /\ DOMAIN account' = DOMAIN account \cup {d}
        BY <1>1, <3>1
      <3>3. absent' = absent
        BY <2>1 DEF Presence!AddOrMove
      <3>4. account' \in Presence!SomeFunctions(Presence!Spot)
        BY <3>2, PartialFunctions
      <3> QED BY <1>1, <3>2, <3>3, <3>4 DEF PresenceInv, LoadIsListed
    <2>2. CASE Presence!Remove(d)
      <3>1. account' = Presence!Only(account, Device \ {d}) /\ absent' = absent \cup {d}
        BY <2>2 DEF Presence!Remove
      <3>2. account' \in Presence!SomeFunctions(Presence!Spot)
        BY <1>1, <3>1, PartsAndMergers
      <3>3. DOMAIN account' = DOMAIN account \cap (Device \ {d})
        BY <3>1 DEF Presence!Only
      <3> QED BY <1>1, <3>1, <3>2, <3>3 DEF PresenceInv, LoadIsListed
    <2> QED BY <2>1, <2>2
  <1>4. Presence!TypeOK' /\ Furnished(store)' /\ WaitsForAbsent(session)'
    BY <1>2, <1>3 DEF PresenceInv, Presence!TypeOK, Furnished, WaitsForAbsent
  <1>5. LoadIsListed'
    BY <1>2, <1>3 DEF PresenceInv, LoadIsListed, FirstPages, Rank
  <1> QED BY <1>4, <1>5 DEF PresenceInv

\* Answers and events are under way.
LEMMA NewsMove ==
  ASSUME PresenceInv,
         \/ \E d \in Device : Presence!Report(d)
         \/ \E scope \in SUBSET Location, lost \in {{}} \cup {{d} : d \in DOMAIN account} :
              Presence!AnswerCards(scope, lost)
         \/ \E answer \in cards : Presence!LoseCards(answer)
         \/ \E e \in pushes : Presence!ApplyDeviceEvent(e)
  PROVE  PresenceInv'
  <1>1. UNCHANGED <<account, load, session, absent>>
    BY DEF Presence!Report, Presence!AnswerCards, Presence!LoseCards, Presence!ApplyDeviceEvent
  <1>2. LoadIsListed' /\ WaitsForAbsent(session)'
    BY <1>1 DEF PresenceInv, LoadIsListed, WaitsForAbsent, FirstPages, Rank
  <1>3. account \in Presence!SomeFunctions(Presence!Spot)
          /\ \A d \in DOMAIN account : account[d] \in Presence!Spot
    BY PartialFunctions DEF PresenceInv, Presence!TypeOK
  <1>4. ASSUME NEW d \in Device, Presence!Report(d) PROVE PresenceInv'
    <2>1. account[d].location \in Location
      BY <1>3, <1>4 DEF Presence!Report, Presence!Spot
    <2>2. pushes' \subseteq [device : Device, location : Location]
      BY <1>4, <2>1 DEF Presence!Report, PresenceInv, Presence!TypeOK
    <2>3. spent' \in [changes: 0..MaxMoves, pushes: 0..MaxPushes, resets: 0..MaxSessions]
      BY <1>4 DEF Presence!Report, PresenceInv, Presence!TypeOK
    <2>4. UNCHANGED <<cards, store>>
      BY <1>4 DEF Presence!Report
    <2>5. Presence!TypeOK' /\ Furnished(store)'
      BY <1>1, <2>2, <2>3, <2>4 DEF PresenceInv, Presence!TypeOK, Furnished
    <2> QED BY <1>2, <2>5 DEF PresenceInv
  <1>5. ASSUME NEW scope \in SUBSET Location, NEW lost, Presence!AnswerCards(scope, lost)
        PROVE  PresenceInv'
    <2> DEFINE spots == Presence!Only(account,
            {d \in DOMAIN account \ lost : account[d].location \in scope})
    <2>1. PICK rooms \in BOOLEAN :
            cards' = cards \cup {[spots |-> spots, complete |-> lost = {}, rooms |-> rooms]}
      BY <1>5 DEF Presence!AnswerCards
    <2>2. spots \in Presence!SomeFunctions(Presence!Spot)
      BY <1>3, PartsAndMergers
    <2> HIDE DEF spots
    <2>3. cards' \subseteq Presence!Answer
      <3>1. [spots |-> spots, complete |-> lost = {}, rooms |-> rooms] \in Presence!Answer
        BY <2>2 DEF Presence!Answer
      <3> QED BY <2>1, <3>1 DEF PresenceInv, Presence!TypeOK
    <2>4. UNCHANGED <<pushes, store, spent>>
      BY <1>5 DEF Presence!AnswerCards
    <2>5. Presence!TypeOK' /\ Furnished(store)'
      BY <1>1, <2>3, <2>4 DEF PresenceInv, Presence!TypeOK, Furnished
    <2> QED BY <1>2, <2>5 DEF PresenceInv
  <1>6. ASSUME NEW answer \in cards, Presence!LoseCards(answer) PROVE PresenceInv'
    <2>1. cards' \subseteq cards /\ UNCHANGED <<pushes, store, spent>>
      BY <1>6 DEF Presence!LoseCards
    <2>2. Presence!TypeOK' /\ Furnished(store)'
      BY <1>1, <2>1 DEF PresenceInv, Presence!TypeOK, Furnished
    <2> QED BY <1>2, <2>2 DEF PresenceInv
  <1>7. ASSUME NEW e \in pushes, Presence!ApplyDeviceEvent(e) PROVE PresenceInv'
    <2>1. e.device \in Device /\ e.location \in Location
      BY DEF PresenceInv, Presence!TypeOK
    <2>2. pushes' \subseteq pushes /\ UNCHANGED <<cards, spent>>
          /\ store' = [x \in DOMAIN store \cup {e.device} |->
                         IF x = e.device THEN Presence!Ensured(store, e.device, e.location)
                        ELSE store[x]]
      BY <1>7 DEF Presence!ApplyDeviceEvent
    <2>3. Furnished(store)'
      BY <2>1, <2>2, EventsFurnish DEF PresenceInv
    <2>4. Presence!TypeOK'
      BY <1>1, <2>2, <2>3 DEF PresenceInv, Presence!TypeOK, Furnished
    <2> QED BY <1>2, <2>3, <2>4 DEF PresenceInv
  <1> QED BY <1>4, <1>5, <1>6, <1>7

\* The load that is under way.
LEMMA LoadMoves ==
  ASSUME ~Live, PresenceInv, Presence!StartLoad \/ Presence!ReadPage
          \/ Presence!FailLoad
  PROVE  PresenceInv'
  <1>1. UNCHANGED <<account, pushes, cards, store, session, absent, spent>>
    BY DEF Presence!StartLoad, Presence!ReadPage, Presence!FailLoad
  <1>2. account \in Presence!SomeFunctions(Presence!Spot)
    BY DEF PresenceInv, Presence!TypeOK
  <1>3. CASE Presence!StartLoad
    <2>1. load' = [page |-> 0, spots |-> <<>>, listing |-> account]
      BY <1>3 DEF Presence!StartLoad
    <2>2. DOMAIN <<>> = {} /\ <<>> \in [{} -> Presence!Spot]
      OBVIOUS
    <2>3. <<>> \in Presence!SomeFunctions(Presence!Spot)
      BY <2>2, PartialFunctions
    <2>4. load' \in [page : Nat, spots : Presence!SomeFunctions(Presence!Spot),
            listing : Presence!SomeFunctions(Presence!Spot)]
      BY <1>2, <2>1, <2>3
    <2>5. FirstPages(account, 0) = {}
      BY <1>2, PageAfterPage, PartialFunctions
    <2>6. LoadIsListed'
      BY <1>1, <2>1, <2>2, <2>5 DEF PresenceInv, LoadIsListed
    <2> QED BY <1>1, <2>4, <2>6 DEF PresenceInv, Presence!TypeOK, Furnished, WaitsForAbsent
  <1>4. CASE Presence!ReadPage
    <2> DEFINE page == Presence!Page(load.listing, load.page)
    <2>1. load # None
          /\ load' = [load EXCEPT !.page = @ + 1, !.spots = Presence!Merged(@, page)]
      BY <1>4 DEF Presence!ReadPage, Presence!Listed
    <2>2. load \in [page : Nat, spots : Presence!SomeFunctions(Presence!Spot),
            listing : Presence!SomeFunctions(Presence!Spot)]
      BY <2>1 DEF PresenceInv, Presence!TypeOK
    <2>3. page \in Presence!SomeFunctions(Presence!Spot)
      BY <2>2, PartsAndMergers DEF Presence!Page
    <2>4. Presence!Merged(load.spots, page) \in Presence!SomeFunctions(Presence!Spot)
      BY <2>2, <2>3, PartsAndMergers
    <2>5. DOMAIN Presence!Merged(load.spots, page) = DOMAIN load.spots \cup DOMAIN page
      BY DEF Presence!Merged
    <2>6. FirstPages(load.listing, load.page) \cup DOMAIN page
            = FirstPages(load.listing, load.page + 1)
      BY <2>2, PageAfterPage, PartialFunctions
    <2> HIDE DEF page
    <2>7. load' \in [page : Nat, spots : Presence!SomeFunctions(Presence!Spot),
            listing : Presence!SomeFunctions(Presence!Spot)]
          /\ load'.page = load.page + 1 /\ load'.spots = Presence!Merged(load.spots, page)
          /\ load'.listing = load.listing
      <3> DEFINE merged == Presence!Merged(load.spots, page)
      <3>1. load' = [load EXCEPT !.page = load.page + 1, !.spots = merged]
            /\ merged \in Presence!SomeFunctions(Presence!Spot)
        BY <2>1, <2>4
      <3> HIDE DEF merged
      <3>2. load' \in [page : Nat, spots : Presence!SomeFunctions(Presence!Spot),
              listing : Presence!SomeFunctions(Presence!Spot)]
            /\ load'.page = load.page + 1 /\ load'.spots = merged /\ load'.listing = load.listing
        <4> DEFINE S == Presence!SomeFunctions(Presence!Spot)
        <4>1. load \in [page : Nat, spots : S, listing : S] /\ merged \in S
          BY <2>2, <3>1
        <4> HIDE DEF S
        <4>2. load' \in [page : Nat, spots : S, listing : S]
              /\ load'.page = load.page + 1 /\ load'.spots = merged /\ load'.listing = load.listing
          <5>1. load = [page |-> load.page, spots |-> load.spots, listing |-> load.listing]
                /\ load.page \in Nat /\ load.listing \in S
            BY <4>1
          <5>2. load' = [page |-> load.page + 1, spots |-> merged, listing |-> load.listing]
            BY <3>1, <5>1
          <5> QED BY <4>1, <5>1, <5>2
        <4> QED BY <4>2 DEF S
      <3> QED BY <3>2 DEF merged
    <2>8. LoadIsListed'
      BY <1>1, <2>1, <2>5, <2>6, <2>7 DEF PresenceInv, LoadIsListed
    <2> QED BY <1>1, <2>7, <2>8 DEF PresenceInv, Presence!TypeOK, Furnished, WaitsForAbsent
  <1>5. CASE Presence!FailLoad
    <2>1. load' = None
      BY <1>5 DEF Presence!FailLoad
    <2> QED BY <1>1, <2>1 DEF PresenceInv, Presence!TypeOK, Furnished, WaitsForAbsent, LoadIsListed
  <1> QED BY <1>3, <1>4, <1>5

\* What an answer leaves of the store, and whom it removes.
Sorted ==
  /\ Furnished(store') /\ WaitsForAbsent(session')
  /\ DOMAIN store \ DOMAIN store' \subseteq absent

LEMMA CardsAreApplied ==
  ASSUME PresenceInv, NEW answer \in cards, Presence!ApplyCards(answer)
  PROVE  /\ Sorted
         /\ \A d \in DOMAIN store \cap DOMAIN store' : store[d].advanced => store'[d] = store[d]
  <1> DEFINE st == Presence!WithCards(store, answer)
             seen == [session EXCEPT !.cardsSeen = TRUE]
             s == IF answer.complete THEN Presence!Confirmed(seen, answer.spots, "consumer")
                     ELSE session
  <1>1. answer \in Presence!Answer /\ answer.spots \in Presence!SomeFunctions(Presence!Spot)
          /\ Furnished(store)
        /\ WaitsForAbsent(session)
    BY DEF PresenceInv, Presence!TypeOK, Presence!Answer
  <1>2. Furnished(st)
    BY <1>1, CardsFurnish
  <1>3. WaitsForAbsent(seen)
    BY <1>1 DEF WaitsForAbsent, Presence!Session
  <1>4. WaitsForAbsent(s)
    BY <1>1, <1>3, ConfirmingWaits
  <1>5. Presence!Prune(st, s) /\ absent' = absent
    BY DEF Presence!ApplyCards
  <1>6. DOMAIN st = DOMAIN store \cup DOMAIN answer.spots
        /\ \A d \in DOMAIN store : store[d].advanced => st[d] = store[d]
    BY DEF Presence!WithCards, Presence!ByCard
  <1> HIDE DEF st, s
  <1>7. /\ Furnished(store') /\ WaitsForAbsent(session')
        /\ DOMAIN store' \subseteq DOMAIN st /\ DOMAIN st \ DOMAIN store' \subseteq absent
        /\ \A d \in DOMAIN store' : store'[d] = st[d]
    BY <1>2, <1>4, <1>5, PruneRemovesTheAbsent
  <1> QED BY <1>6, <1>7 DEF Sorted

LEMMA RowsAreApplied ==
  ASSUME ~Live, PresenceInv, Presence!FinishLoad \/ Presence!ObservePage
  PROVE  Sorted
  <1>1. Furnished(store) /\ WaitsForAbsent(session) /\ absent' = absent
    BY DEF PresenceInv, Presence!FinishLoad, Presence!ObservePage
  <1>2. ASSUME NEW spots \in Presence!SomeFunctions(Presence!Spot), NEW s, WaitsForAbsent(s),
               Presence!Prune(Presence!WithRows(store, spots), s)
        PROVE  Sorted
    <2> DEFINE st == Presence!WithRows(store, spots)
    <2>1. Furnished(st)
      BY <1>1, RowsFurnish
    <2>2. DOMAIN st = DOMAIN store \cup DOMAIN spots
      BY DEF Presence!WithRows
    <2>3. Presence!Prune(st, s)
      BY <1>2
    <2> HIDE DEF st
    <2>4. /\ Furnished(store') /\ WaitsForAbsent(session')
          /\ DOMAIN st \ DOMAIN store' \subseteq absent
      BY <1>1, <1>2, <2>1, <2>3, PruneRemovesTheAbsent
    <2> QED BY <2>2, <2>4 DEF Sorted
  <1>3. CASE Presence!ObservePage
    <2>1. PICK k : Presence!Prune(Presence!WithRows(store, Presence!Page(account, k)), session)
      BY <1>3 DEF Presence!ObservePage
    <2>2. Presence!Page(account, k) \in Presence!SomeFunctions(Presence!Spot)
      BY PartsAndMergers DEF Presence!Page, PresenceInv, Presence!TypeOK
    <2> QED BY <1>1, <1>2, <2>1, <2>2
  <1>4. CASE Presence!FinishLoad
    <2> DEFINE page == Presence!Page(load.listing, load.page)
               spots == Presence!Merged(load.spots, page)
               read == Presence!Confirmed(session, spots, "advanced")
               s == [read EXCEPT !.wholeSeen = TRUE]
    <2>1. load # None /\ Cardinality(DOMAIN load.listing) <= (load.page + 1) * PageSize
          /\ Presence!Prune(Presence!WithRows(store, spots), s)
      BY <1>4, SameCardinality 
         DEF Presence!FinishLoad, Presence!LastPage, Presence!Listed
    <2>2. load \in [page : Nat, spots : Presence!SomeFunctions(Presence!Spot),
            listing : Presence!SomeFunctions(Presence!Spot)]
      BY <2>1 DEF PresenceInv, Presence!TypeOK
    <2>3. page \in Presence!SomeFunctions(Presence!Spot)
      BY <2>2, PartsAndMergers DEF Presence!Page
    <2>4. spots \in Presence!SomeFunctions(Presence!Spot)
      BY <2>2, <2>3, PartsAndMergers
    <2>5. FirstPages(load.listing, load.page) \cup DOMAIN page = DOMAIN load.listing
      BY <2>1, <2>2, PageAfterPage, PartialFunctions
    <2>6. Device \ absent \subseteq DOMAIN load.listing
          /\ DOMAIN load.spots = FirstPages(load.listing, load.page)
      BY <2>1 DEF PresenceInv, LoadIsListed
    <2>7. DOMAIN spots = DOMAIN load.spots \cup DOMAIN page
      BY DEF Presence!Merged
    <2>8. Device \ absent \subseteq DOMAIN spots
      BY <2>5, <2>6, <2>7
    <2> HIDE DEF page, spots
    <2>9. /\ WaitsForAbsent(read)
          /\ read.pending = IF session.open THEN session.pending \ DOMAIN spots ELSE session.pending
          /\ read.open = session.open
      BY <1>1, <2>4, ConfirmingWaits
    <2>10. read.pending \subseteq absent
      BY <1>1, <2>8, <2>9 DEF WaitsForAbsent, Presence!Session
    <2> HIDE DEF read
    <2>11. WaitsForAbsent(s)
      BY <2>9, <2>10 DEF WaitsForAbsent, Presence!Session
    <2> HIDE DEF s
    <2> QED BY <1>2, <2>1, <2>4, <2>11
  <1> QED BY <1>3, <1>4

LEMMA AnswersAreApplied ==
  ASSUME ~Live, PresenceInv,
         (\E answer \in cards : Presence!ApplyCards(answer)) \/ Presence!FinishLoad
                 \/ Presence!ObservePage
  PROVE  PresenceInv'
  <1>1. Sorted
    BY CardsAreApplied, RowsAreApplied
  <1>2. /\ UNCHANGED <<account, pushes, absent, spent>> /\ cards' \subseteq cards
        /\ load' = load \/ load' = None
    BY DEF Presence!ApplyCards, Presence!FinishLoad, Presence!ObservePage
  <1>3. Presence!TypeOK' /\ Furnished(store)' /\ WaitsForAbsent(session)'
    BY <1>1, <1>2 DEF PresenceInv, Presence!TypeOK, Sorted, Furnished, WaitsForAbsent
  <1>4. LoadIsListed'
    BY <1>2 DEF PresenceInv, LoadIsListed, FirstPages, Rank
  <1> QED BY <1>3, <1>4 DEF PresenceInv

LEMMA SessionsBegin ==
  ASSUME PresenceInv, Presence!ResetSnapshotSession
  PROVE  PresenceInv' /\ DOMAIN store' = DOMAIN store
  <1>1. UNCHANGED <<account, pushes, cards, load, absent>>
        /\ store' = [d \in DOMAIN store |-> [store[d] EXCEPT !.advanced = FALSE]]
    BY DEF Presence!ResetSnapshotSession
  <1>2. spent' \in [changes: 0..MaxMoves, pushes: 0..MaxPushes, resets: 0..MaxSessions]
    BY DEF Presence!ResetSnapshotSession, PresenceInv, Presence!TypeOK
  <1>3. DOMAIN store \subseteq Device /\ \A d \in DOMAIN store : store[d] \in Presence!Place
    BY PartialFunctions DEF PresenceInv, Furnished
  <1>4. \A d \in DOMAIN store :
          LET place == [store[d] EXCEPT !.advanced = FALSE]
          IN place \in Presence!Place /\ (place.room # None => RoomIn[place.room] = place.location)
    BY <1>3 DEF PresenceInv, Furnished, Presence!Place
  <1>5. store' \in [DOMAIN store -> Presence!Place]
        /\ \A d \in DOMAIN store :
             store'[d].room # None => RoomIn[store'[d].room] = store'[d].location
    BY <1>1, <1>4
  <1>6. Furnished(store')
    BY <1>3, <1>5, EachInPlace
  <1>7. WaitsForAbsent(session')
    BY DEF Presence!ResetSnapshotSession, PresenceInv, WaitsForAbsent, Presence!Session
  <1>8. Presence!TypeOK' /\ Furnished(store)' /\ WaitsForAbsent(session)' /\ LoadIsListed'
    BY <1>1, <1>2, <1>6, <1>7
       DEF PresenceInv, Presence!TypeOK, Furnished, WaitsForAbsent, LoadIsListed, FirstPages, Rank
  <1> QED BY <1>1, <1>8 DEF PresenceInv

LEMMA PresenceStep ==
  ~Live /\ PresenceInv /\ [Presence!Next]_Presence!vars => PresenceInv'
  <1> SUFFICES ASSUME ~Live, PresenceInv, [Presence!Next]_Presence!vars
          PROVE PresenceInv'
    OBVIOUS
  <1>1. CASE UNCHANGED Presence!vars
    BY <1>1 DEF Presence!vars, PresenceInv, Presence!TypeOK, Furnished, WaitsForAbsent,
            LoadIsListed,
                FirstPages, Rank
  <1>2. CASE Presence!Next
    BY <1>2, AccountMoves, NewsMove, LoadMoves, AnswersAreApplied, SessionsBegin DEF Presence!Next
  <1> QED BY <1>1, <1>2

-----------------------------------------------------------------------------
(* A device is never shown in a room of another location, whatever order    *)
(* moves, events, cards and rows come in (#ensureDevice).                   *)
THEOREM RoomsBelong == ~Live => (Presence!Spec => []Presence!RoomBelongs)
<1> SUFFICES ASSUME ~Live PROVE Presence!Spec => []Presence!RoomBelongs
  OBVIOUS
<1>1. PresenceInv => Presence!RoomBelongs
  BY DEF PresenceInv, Furnished, Presence!RoomBelongs
<1> QED BY <1>1, PresenceInit, PresenceStep, PTL DEF Presence!Spec

(* A device goes only when it was away since the start                      *)
(* (#pruneUnrefreshedDevicesIfReady), and a card does not undo what the     *)
(* advanced API said of a place.                                            *)
THEOREM OnlyTheAbsentGo == ~Live => (Presence!Spec => PresenceIsTrue)
<1> SUFFICES ASSUME ~Live PROVE Presence!Spec => PresenceIsTrue
  OBVIOUS
<1> DEFINE Goes == \A d \in DOMAIN store \ DOMAIN store' : d \in absent
           Stays == \A d \in DOMAIN store \cap DOMAIN store' :
                      (store[d].advanced /\ cards' # cards /\ load' = load) => store'[d] = store[d]
<1>1. PresenceInv /\ [Presence!Next]_Presence!vars => Goes /\ Stays
  <2> SUFFICES ASSUME PresenceInv, [Presence!Next]_Presence!vars PROVE Goes /\ Stays
    OBVIOUS
  <2>1. CASE \E answer \in cards : Presence!ApplyCards(answer)
    BY <2>1, CardsAreApplied DEF Sorted
  <2>2. CASE Presence!FinishLoad \/ Presence!ObservePage
    <3>1. cards' = cards
      BY <2>2 DEF Presence!FinishLoad, Presence!ObservePage
    <3> QED BY <2>2, <3>1, RowsAreApplied DEF Sorted
  <2>3. CASE Presence!ResetSnapshotSession
    BY <2>3, SessionsBegin DEF Presence!ResetSnapshotSession
  <2>4. CASE \E e \in pushes : Presence!ApplyDeviceEvent(e)
    BY <2>4 DEF Presence!ApplyDeviceEvent
  <2>5. CASE store' = store
    BY <2>5
  <2>6. store' = store \/ (\E e \in pushes : Presence!ApplyDeviceEvent(e))
        \/ (\E answer \in cards : Presence!ApplyCards(answer)) \/ Presence!FinishLoad
                \/ Presence!ObservePage
        \/ Presence!ResetSnapshotSession
    BY DEF Presence!Next, Presence!AddOrMove, Presence!Remove, Presence!Report,
            Presence!AnswerCards, Presence!LoseCards, Presence!StartLoad,
           Presence!ReadPage, Presence!FailLoad, Presence!vars
  <2> QED BY <2>1, <2>2, <2>3, <2>4, <2>5, <2>6
<1>2. Presence!Spec => [][Goes]_Presence!vars /\ [][Stays]_Presence!vars
  BY <1>1, PresenceInit, PresenceStep, PTL DEF Presence!Spec
<1> QED BY <1>2 DEF PresenceIsTrue, Presence!PresenceIsTrue, Presence!PrunedWasAbsent, Presence!VouchedPlaceStays
=============================================================================
