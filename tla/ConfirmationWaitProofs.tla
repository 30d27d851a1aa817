----------------------- MODULE ConfirmationWaitProofs -----------------------
(* What ConfirmationWait promises of success, for any set of kinds of wait   *)
(* and any number of changes and reads.                                      *)
EXTENDS ConfirmationWait, TLAPS

USE ConfirmationWaitAssumption

-----------------------------------------------------------------------------
(* The inductive invariant. *)

(* The parts of TypeOK. *)
Waits == [outcome : Outcomes, complete : BOOLEAN, pending : Evidence \cup {NoEvidence},
          stabilizing : BOOLEAN, proof : Evidence \cup {NoEvidence}]
Reads == [stage : {"idle", "reading", "steadying", "done"},
          from : Dated, current : BOOLEAN, min : Nat]
OptionType == kind \in Kinds /\ stable \in BOOLEAN /\ early \in BOOLEAN
DeviceType == device \in Dated /\ now \in 0..MaxTime /\ mail \subseteq Events
StoreType == cache \in Dated /\ before \in Dated /\ seq \in Nat
SendType ==
  /\ sending \in BOOLEAN /\ sentAt \in 0..MaxTime
  /\ receipt \in [minimum : 0..MaxTime, id : {"own", "unknown"}]
WaitType == wait \in Waits /\ timer \in {"off", "armed", "fired"}
ReadType == flights \in [Flights -> Reads] /\ reads \in 0..MaxReads /\ lastResync \in Nat
HistoryType == held \in BOOLEAN /\ broken \in BOOLEAN
Types == /\ OptionType /\ DeviceType /\ StoreType /\ SendType /\ WaitType /\ ReadType
         /\ HistoryType

(* Which part of the program has been reached: nothing is read, and no time *)
(* runs, before the executor has answered.                                  *)
StageInv ==
  /\ sending => sentAt > 0 /\ ~wait.complete
  /\ wait.complete => sentAt > 0
  /\ timer # "off" => wait.complete
  /\ \A f \in Flights : flights[f].stage \in {"reading", "steadying"} => wait.complete
  /\ stable => kind \in {"state", "light"}

(* The states of the device that are known somewhere, and what they say: no *)
(* two of one time differ, none is newer than the device, and one newer than*)
(* the send with the wanted value shows that the device had it.             *)
Reading(f) == flights[f].stage = "reading"
Known == {device, cache} \cup {[value |-> e.value, at |-> e.at] : e \in mail}
         \cup {flights[f].from : f \in {g \in Flights : Reading(g)}}
Sent(x) == 0 < sentAt /\ sentAt < x.at
KnownInv ==
  /\ device.at <= now /\ sentAt <= now /\ before.at <= cache.at
  /\ sentAt > 0 /\ device.value = "want" => held
  /\ \A x, y \in Known : x.at = y.at => x.value = y.value
  /\ \A x \in Known : x.at <= device.at /\ (Sent(x) /\ x.value = "want" => held)

(* What is newer than the start of a read came after the send.              *)
ReadInv ==
  \A f \in Flights : Reading(f) =>
    /\ flights[f].from.value = "want" => held
    /\ \A x \in Known : flights[f].from.at < x.at => Sent(x)

(* Evidence that waits for the answer or the end of its window still holds, *)
(* and a wait that was confirmed was confirmed soundly: for a wait w and the*)
(* cache c, which a read may look at before both are in place.              *)
Unvalued == {"any", "refresh", "sceneAgain"}
PendingOK(w, c) ==
  /\ w.stabilizing => stable /\ w.complete /\ c.value = "want"
  /\ w.outcome = "waiting" /\ w.pending # NoEvidence =>
       /\ kind # "vector" /\ (kind \notin Unvalued => c.value = "want")
       /\ w.complete => w.stabilizing /\ AcceptsEvidence(w.pending, receipt)
       /\ w.pending.at <= now
       /\ w.pending.by # "snapshot"
       /\ w.pending.by = "read" => w.complete /\ (kind # "refresh" => held)
       /\ kind = "state" /\ w.pending.source = "event" /\ Sent(w.pending) => held
SoundOK(w, c) ==
  w.outcome = "confirmed" =>
    /\ kind \notin Unvalued => w.complete /\ c.value = "want"
    /\ w.proof.by = "read" /\ kind # "refresh" => held
    /\ kind = "state" /\ w.proof.source = "event" /\ receipt.minimum = sentAt => held
WaitInv ==
  /\ PendingOK(wait, cache) /\ SoundOK(wait, cache)
  /\ wait.stabilizing => ~broken
  /\ StableConfirmation

Inv == Types /\ StageInv /\ KnownInv /\ ReadInv /\ WaitInv

-----------------------------------------------------------------------------
(* The functions of waitForPredicate. *)

\* Evidence is kept, rejected, begins its window or confirms.
Resolved(v, w, r) ==
  /\ v \in Waits /\ v.complete = w.complete
  /\ \/ v = w /\ (~w.complete \/ w.pending = NoEvidence)
     \/ /\ w.complete /\ v.outcome = "waiting" /\ v.pending = NoEvidence
        /\ v.stabilizing = w.stabilizing
     \/ /\ w.complete /\ w.pending # NoEvidence /\ AcceptsEvidence(w.pending, r) /\ stable
        /\ v.outcome = "waiting" /\ v.pending = w.pending /\ v.stabilizing = TRUE
     \/ /\ w.complete /\ w.pending # NoEvidence /\ AcceptsEvidence(w.pending, r) /\ ~stable
        /\ v.outcome = "confirmed" /\ v.proof = w.pending /\ v.stabilizing = FALSE
LEMMA ResolveCases ==
  ASSUME NEW w \in Waits, NEW r, w.outcome = "waiting", NEW v, v = ResolvePending(w, r)
  PROVE  Resolved(v, w, r)
<1> USE DEF Resolved
<1>1. CASE ~w.complete \/ w.pending = NoEvidence
  BY <1>1 DEF ResolvePending
<1>2. CASE w.complete /\ w.pending # NoEvidence /\ ~AcceptsEvidence(w.pending, r)
  <2>1. v = [w EXCEPT !.pending = NoEvidence] BY <1>2 DEF ResolvePending
  <2> QED BY <1>2, <2>1 DEF Waits
<1>3. CASE w.complete /\ w.pending # NoEvidence /\ AcceptsEvidence(w.pending, r) /\ stable
  <2>1. v = [w EXCEPT !.stabilizing = TRUE] BY <1>3 DEF ResolvePending
  <2> QED BY <1>3, <2>1 DEF Waits
<1>4. CASE w.complete /\ w.pending # NoEvidence /\ AcceptsEvidence(w.pending, r) /\ ~stable
  <2>1. v = Settle(w, "confirmed", w.pending) BY <1>4 DEF ResolvePending
  <2>2. w.pending \in Evidence \cup {NoEvidence} /\ "confirmed" \in Outcomes BY DEF Waits, Outcomes
  <2>3. v.outcome = "confirmed" /\ v.proof = w.pending /\ v.stabilizing = FALSE
        /\ v \in Waits /\ v.complete = w.complete
    BY <2>1, <2>2 DEF Settle, Waits
  <2> QED BY <1>4, <2>3
<1> QED BY <1>1, <1>2, <1>3, <1>4

\* The wait v that w has become, when the cache is c.
Became(v, w, c) ==
  /\ v \in Waits /\ v.complete = w.complete /\ v.outcome \in {"waiting", "confirmed"}
  /\ PendingOK(v, c) /\ SoundOK(v, c)

\* A wait as it is with new evidence.
WithEvidence(w, e) == ResolvePending([w EXCEPT !.pending = e], receipt)
LEMMA EvidenceOK ==
  ASSUME OptionType, SendType, NEW w \in Waits, w.outcome = "waiting", NEW c, NEW e \in Evidence,
         stable => kind \in {"state", "light"},
         w.complete => sentAt > 0,
         w.stabilizing => stable /\ w.complete,
         kind # "vector" \/ (w.complete /\ ~stable),
         w.stabilizing \/ kind \notin Unvalued => c.value = "want",
         e.at <= now, e.by # "snapshot",
         e.by = "read" => w.complete /\ (kind # "refresh" => held),
         kind = "state" /\ e.source = "event" /\ Sent(e) => held,
         NEW v, v = WithEvidence(w, e)
  PROVE  /\ Became(v, w, c)
         /\ v.outcome = "confirmed" => ~stable
<1> DEFINE x == [w EXCEPT !.pending = e]
<1>1. /\ x \in Waits /\ x.pending = e /\ x.complete = w.complete /\ x.outcome = "waiting"
      /\ x.stabilizing = w.stabilizing
  BY DEF Waits
<1>2. v = ResolvePending(x, receipt) BY DEF WithEvidence
<1>3. e # NoEvidence OBVIOUS
<1> HIDE DEF x
<1>4. /\ v \in Waits /\ v.complete = x.complete
      /\ \/ v = x /\ (~x.complete \/ x.pending = NoEvidence)
         \/ /\ x.complete /\ v.outcome = "waiting" /\ v.pending = NoEvidence
            /\ v.stabilizing = x.stabilizing
         \/ /\ x.complete /\ AcceptsEvidence(x.pending, receipt) /\ stable
            /\ v.outcome = "waiting" /\ v.pending = x.pending /\ v.stabilizing = TRUE
         \/ /\ x.complete /\ x.pending # NoEvidence /\ AcceptsEvidence(x.pending, receipt)
            /\ ~stable /\ v.outcome = "confirmed" /\ v.proof = x.pending /\ v.stabilizing = FALSE
  <2>1. Resolved(v, x, receipt) BY <1>1, <1>2, ResolveCases
  <2> QED BY <2>1 DEF Resolved
<1>5. CASE v = x /\ ~x.complete
  BY <1>1, <1>3, <1>5 DEF PendingOK, SoundOK, Became
<1>6. CASE /\ x.complete /\ v.outcome = "waiting" /\ v.pending = NoEvidence
           /\ v.stabilizing = x.stabilizing
  BY <1>1, <1>4, <1>6 DEF PendingOK, SoundOK, Became
<1>7. CASE /\ x.complete /\ AcceptsEvidence(x.pending, receipt) /\ stable
           /\ v.outcome = "waiting" /\ v.pending = x.pending /\ v.stabilizing = TRUE
  BY <1>1, <1>4, <1>7 DEF PendingOK, SoundOK, Unvalued, Became
<1>8. CASE /\ x.complete /\ AcceptsEvidence(x.pending, receipt) /\ ~stable
           /\ v.outcome = "confirmed" /\ v.proof = x.pending /\ v.stabilizing = FALSE
  <2>1. kind = "state" /\ e.source = "event" => receipt.minimum < e.at
    BY <1>1, <1>8 DEF AcceptsEvidence, Evidence, SendType
  <2> QED BY <1>1, <1>4, <1>8, <2>1 DEF PendingOK, SoundOK, Sent, SendType, Evidence, Became
<1> QED BY <1>1, <1>3, <1>4, <1>5, <1>6, <1>7, <1>8

\* What the subscriber makes of an event that the store has taken.
LEMMA ObserveOK ==
  ASSUME OptionType, SendType, NEW w \in Waits, w.outcome = "waiting",
         NEW type \in {"state", "inventory"}, NEW event \in Events, NEW old, NEW c,
         stable => kind \in {"state", "light"},
         w.complete => sentAt > 0,
         PendingOK(w, old),
         c.value = event.value, event.at <= now,
         kind = "location" => type = "inventory",
         Sent(event) /\ event.value = "want" => held,
         NEW v, v = Observe(w, type, event, c)
  PROVE  /\ Became(v, w, c)
         /\ v.outcome = "confirmed" => ~stable
<1>1. CASE Invalidates(type, event.value, c)
  <2>1. v = [outcome |-> w.outcome, complete |-> w.complete, pending |-> NoEvidence,
             stabilizing |-> FALSE, proof |-> w.proof]
    BY <1>1 DEF Observe
  <2>2. v \in Waits BY <2>1 DEF Waits
  <2> QED BY <2>1, <2>2 DEF PendingOK, SoundOK, Became
<1>2. CASE ~Invalidates(type, event.value, c) /\ ~Matches(type, event.value, c)
  <2>1. v = w BY <1>2 DEF Observe
  <2>2. c.value # "want" => kind \in {"any", "refresh", "sceneAgain", "vector"}
    BY <1>2 DEF Invalidates, OptionType, AllKinds
  <2> QED BY <2>1, <2>2 DEF PendingOK, SoundOK, Unvalued, Became
<1>3. CASE ~Invalidates(type, event.value, c) /\ Matches(type, event.value, c)
  <2> DEFINE e == [source |-> IF type = "state" THEN "event" ELSE "inventory_snapshot",
                   at |-> event.at, id |-> event.id, by |-> "push"]
  <2>1. e \in Evidence BY DEF Evidence, Events
  <2>2. v = WithEvidence(w, e) BY <1>3 DEF Observe, WithEvidence
  <2>3. e.at <= now /\ e.by # "snapshot" /\ e.by # "read" /\ e.at = event.at
    OBVIOUS
  <2>4. c.value # "want" => kind \in Unvalued
    BY <1>3 DEF Matches, Unvalued, OptionType, AllKinds
  <2>5. kind # "vector" BY <1>3 DEF Matches
  <2>6. kind = "state" => event.value = "want"
    BY <1>3 DEF Matches
  <2>7. w.stabilizing => stable /\ w.complete
    BY DEF PendingOK
  <2>8. kind = "state" /\ Sent(e) => held
    BY <2>3, <2>6 DEF Sent
  <2>9. w.stabilizing => kind \notin Unvalued
    BY <2>7 DEF Unvalued
  <2> HIDE DEF e
  <2> QED BY <2>1, <2>2, <2>3, <2>4, <2>5, <2>7, <2>8, <2>9, EvidenceOK
<1> QED BY <1>1, <1>2, <1>3

\* The second half of settleFromSnapshot.
LEMMA SnapshotOK ==
  ASSUME OptionType, SendType, NEW w \in Waits, w.outcome = "waiting", w.complete,
         NEW c \in Dated, NEW s, NEW m, PendingOK(w, c),
         NEW v, v = SettleFromSnapshot(w, c, s, m)
  PROVE  /\ Became(v, w, c)
         /\ v.outcome = "confirmed" => v.proof.by = "snapshot"
         /\ v.outcome = "waiting" => v = w
<1>1. CASE MatchesSnapshot(c) /\ s > m
  <2>1. v = Settle(w, "confirmed", SnapshotProof(c)) BY <1>1 DEF SettleFromSnapshot
  <2>2. SnapshotProof(c) \in Evidence BY DEF SnapshotProof, Evidence, Dated, CommandIds
  <2>3. /\ v \in Waits /\ v.outcome = "confirmed" /\ v.complete = w.complete
        /\ v.stabilizing = FALSE /\ v.proof = SnapshotProof(c)
    <3>1. "confirmed" \in Outcomes BY DEF Outcomes
    <3> QED BY <2>1, <2>2, <3>1 DEF Settle, Waits
  <2>4. v.proof.by = "snapshot" /\ v.proof.source # "event" BY <2>3 DEF SnapshotProof
  <2>5. c.value = "want" BY <1>1 DEF MatchesSnapshot
  <2> QED BY <2>3, <2>4, <2>5 DEF PendingOK, SoundOK, Became
<1>2. CASE ~(MatchesSnapshot(c) /\ s > m)
  <2>1. v = w BY <1>2 DEF SettleFromSnapshot
  <2> QED BY <2>1 DEF SoundOK, Became
<1> QED BY <1>1, <1>2

\* A wait that ends without a confirmation.
LEMMA EndOK ==
  ASSUME NEW w \in Waits, NEW o \in {"timeout", "cancelled"}, NEW c,
         NEW v, v = Settle(w, o, NoEvidence)
  PROVE  /\ v \in Waits /\ v.complete = w.complete /\ v.outcome = o
         /\ PendingOK(v, c) /\ SoundOK(v, c)
<1>1. /\ v \in Waits /\ v.outcome = o /\ v.complete = w.complete /\ v.stabilizing = FALSE
  <2>1. o \in Outcomes BY DEF Outcomes
  <2> QED BY <2>1 DEF Settle, Waits
<1> QED BY <1>1 DEF PendingOK, SoundOK

-----------------------------------------------------------------------------
(* What the steps have in common. *)

LEMMA TypeParts == TypeOK <=> Types
BY DEF TypeOK, Types, OptionType, DeviceType, StoreType, SendType, WaitType, ReadType, HistoryType,
   Waits, Reads

\* Nothing new is learnt of the device.
LEMMA KnownKept ==
  ASSUME StoreType, KnownInv, ReadInv, UNCHANGED <<device, now, sentAt, before, held>>,
         cache' \in Dated, cache.at <= cache'.at, Known' \subseteq Known,
         \A f \in Flights : Reading(f)' => Reading(f) /\ flights'[f].from = flights[f].from
  PROVE  KnownInv' /\ ReadInv'
<1>1. KnownInv'
  <2>1. before.at <= cache'.at BY DEF StoreType, KnownInv, Dated
  <2> QED BY <2>1 DEF KnownInv, Sent
<1>2. ReadInv' BY DEF ReadInv, Sent
<1> QED BY <1>1, <1>2

\* The wait after a step that leaves its conditions alone.
LEMMA WaitPrime ==
  ASSUME UNCHANGED <<kind, stable, receipt, now, held, sentAt>>,
         PendingOK(wait', cache'), SoundOK(wait', cache')
  PROVE  PendingOK(wait, cache)' /\ SoundOK(wait, cache)'
BY DEF PendingOK, SoundOK, AcceptsEvidence, Sent

\* The window, where the step watches it.
LEMMA WatchOK ==
  ASSUME WaitInv, UNCHANGED stable, Watch(wait', cache'), PendingOK(wait, cache)',
         wait'.outcome = "confirmed" => ~stable \/ wait'.proof.by = "snapshot"
  PROVE  (wait'.stabilizing => ~broken') /\ StableConfirmation'
<1>1. wait'.stabilizing => cache'.value = "want" BY DEF PendingOK
<1>2. wait'.stabilizing => ~broken' BY <1>1 DEF Watch, WaitInv
<1> QED BY <1>2 DEF StableConfirmation, Confirmed

\* Truth values.
LEMMA WatchType ==
  ASSUME HistoryType, NEW w, NEW c, Watch(w, c)
  PROVE  broken' \in BOOLEAN
BY DEF Watch, HistoryType

\* A push or an inventory reaches the store and the wait.
LEMMA TakenStep ==
  ASSUME Types, StageInv, WaitInv, Waiting, NEW type \in {"state", "inventory"},
         NEW event \in Events, cache' \in Dated, cache'.value = event.value, event.at <= now,
         kind = "location" => type = "inventory",
         Sent(event) /\ event.value = "want" => held,
         wait' = Observe(wait, type, event, cache'), Watch(wait', cache'),
         UNCHANGED <<options, device, now, before, sendVars, timer, readVars, held>>
  PROVE  WaitType' /\ StageInv' /\ WaitInv'
<1>0. OptionType /\ SendType /\ wait \in Waits BY DEF Types, WaitType
<1>1. Became(wait', wait, cache') /\ (wait'.outcome = "confirmed" => ~stable)
  <2>1. /\ wait.outcome = "waiting" /\ (wait.complete => sentAt > 0) /\ PendingOK(wait, cache)
        /\ (stable => kind \in {"state", "light"})
    BY DEF Waiting, StageInv, WaitInv
  <2> QED BY <1>0, <2>1, ObserveOK
<1>2. PendingOK(wait, cache)' /\ SoundOK(wait, cache)'
  BY <1>1, WaitPrime DEF options, sendVars, Became
<1>3. WaitInv' BY <1>1, <1>2, WatchOK DEF WaitInv, options
<1>4. StageInv' BY <1>1 DEF Became, StageInv, options, sendVars, readVars
<1>5. WaitType' BY <1>1 DEF Became, WaitType, Types
<1> QED BY <1>3, <1>4, <1>5

\* A wait that is left alone, while the time and the history may go on.
LEMMA WaitKept ==
  ASSUME Types, WaitInv, UNCHANGED <<wait, cache, kind, stable, receipt, sentAt, broken>>,
         now <= now', now' \in Nat, held => held'
  PROVE  WaitInv'
<1>1. wait.pending # NoEvidence => wait.pending.at \in Nat
  BY DEF Types, WaitType, Waits, Evidence
<1>2. now \in Nat BY DEF Types, DeviceType
<1>3. PendingOK(wait, cache)'
  BY <1>1, <1>2 DEF WaitInv, PendingOK, AcceptsEvidence, Sent
<1>4. SoundOK(wait, cache)' BY DEF WaitInv, SoundOK
<1> QED BY <1>3, <1>4 DEF WaitInv, StableConfirmation, Confirmed

\* A wait that ends, or goes on, at a step that changes nothing else.
LEMMA WaitEnded ==
  ASSUME Types, StageInv, WaitInv,
         UNCHANGED <<options, device, now, mail, storeVars, before, sendVars, held, broken>>,
         wait' \in Waits, wait'.complete = wait.complete,
         PendingOK(wait', cache'), SoundOK(wait', cache'),
         wait'.stabilizing => wait.stabilizing,
         wait'.outcome = "confirmed" =>
           ~stable \/ wait'.proof.by = "snapshot" \/ wait.stabilizing
  PROVE  WaitInv'
<1>1. PendingOK(wait, cache)' /\ SoundOK(wait, cache)'
  BY WaitPrime DEF options, sendVars
<1>2. (wait'.stabilizing => ~broken') /\ StableConfirmation'
  BY DEF WaitInv, StableConfirmation, Confirmed, options
<1> QED BY <1>1, <1>2 DEF WaitInv

\* A read starts from what the device has now.
LEMMA ReadStarts ==
  ASSUME Types, StageInv, KnownInv, ReadInv, wait.complete, NEW f \in Flights, StartRead(f),
         wait'.complete = wait.complete, timer' \in {"armed", "fired"},
         UNCHANGED <<options, device, now, mail, storeVars, before, sendVars, held>>
  PROVE  /\ flights' \in [Flights -> Reads] /\ lastResync' \in Nat
         /\ StageInv' /\ KnownInv' /\ ReadInv'
<1>1. PICK current \in BOOLEAN :
        flights' = [flights EXCEPT ![f] = [stage |-> "reading", from |-> device,
                                           current |-> current, min |-> 0]]
  BY DEF StartRead
<1>2. flights \in [Flights -> Reads] BY DEF Types, ReadType
<1>3. /\ Reading(f)' /\ flights'[f].from = device /\ flights'[f].stage = "reading"
      /\ \A g \in Flights : g # f => flights'[g] = flights[g]
  BY <1>1, <1>2 DEF Reading
<1>4. \A g \in Flights : g # f /\ Reading(g)' => Reading(g) /\ flights'[g].from = flights[g].from
  BY <1>3 DEF Reading
<1>5. flights' \in [Flights -> Reads]
  <2>1. [stage |-> "reading", from |-> device, current |-> current, min |-> 0] \in Reads
    BY DEF Reads, Types, DeviceType
  <2> QED BY <1>1, <1>2, <2>1
<1>6. StageInv' BY <1>3 DEF StageInv, options, sendVars
<1>7. Known' \subseteq Known
  BY <1>3, <1>4 DEF Known, storeVars
<1>8. KnownInv' BY <1>7 DEF KnownInv, Sent, storeVars, sendVars
<1>9. ReadInv'
  <2>1. device.value = "want" => held BY DEF StageInv, KnownInv
  <2>2. \A x \in Known : ~(device.at < x.at)
    <3> SUFFICES ASSUME NEW x \in Known PROVE ~(device.at < x.at) OBVIOUS
    <3>1. x.at <= device.at BY DEF KnownInv
    <3>2. x.at \in Nat /\ device.at \in Nat
      BY <1>2 DEF Known, Types, DeviceType, StoreType, Dated, Events, Reads
    <3> QED BY <3>1, <3>2
  <2> SUFFICES ASSUME NEW g \in Flights, Reading(g)'
               PROVE  /\ flights'[g].from.value = "want" => held'
                      /\ \A x \in Known' : flights'[g].from.at < x.at => Sent(x)'
    BY DEF ReadInv
  <2>3. CASE g = f BY <1>3, <1>7, <2>1, <2>2, <2>3
  <2>4. CASE g # f BY <1>4, <1>7, <2>4 DEF ReadInv, Sent, sendVars
  <2> QED BY <2>3, <2>4
<1>10. lastResync' \in Nat BY DEF StartRead, Types, StoreType
<1> QED BY <1>5, <1>6, <1>8, <1>9, <1>10

-----------------------------------------------------------------------------
(* One step for each action. *)

LEMMA DeviceChangeStep == ASSUME Inv, DeviceChange PROVE Inv'
<1>1. PICK v \in Values, id \in CommandIds :
        /\ device' = [value |-> v, at |-> now + 1]
        /\ mail' = mail \cup {[value |-> v, at |-> now + 1, id |-> id]}
  BY DEF DeviceChange
<1> DEFINE d == [value |-> v, at |-> now + 1]
<1>2. now \in 0..MaxTime /\ now < MaxTime /\ now' = now + 1
  BY DEF DeviceChange, Inv, Types, DeviceType
<1>3. held' = (held \/ (sentAt > 0 /\ v = "want")) BY <1>1 DEF DeviceChange
<1>4. UNCHANGED <<options, storeVars, before, sendVars, wait, timer, readVars, broken>>
  BY DEF DeviceChange
<1>5. Types'
  <2>1. DeviceType' BY <1>1, <1>2 DEF Inv, Types, DeviceType, Dated, Events
  <2>2. held' \in BOOLEAN BY <1>3 DEF Inv, Types, HistoryType
  <2> QED BY <2>1, <2>2, <1>4 DEF Inv, Types, OptionType, StoreType, SendType, WaitType, ReadType,
        HistoryType, options, storeVars, sendVars, readVars
<1>6. StageInv' BY <1>4 DEF Inv, StageInv, options, sendVars, readVars
<1>7. Known' \subseteq Known \cup {d}
  BY <1>1, <1>4 DEF Known, Reading, storeVars, readVars
<1>8. \A x \in Known : x.at \in Nat /\ x.at <= now
  <2> SUFFICES ASSUME NEW x \in Known PROVE x.at \in Nat /\ x.at <= now OBVIOUS
  <2>1. x.at \in Nat /\ device.at \in Nat /\ now \in Nat
    BY DEF Known, Inv, Types, DeviceType, StoreType, ReadType, Reads, Dated, Events
  <2>2. x.at <= device.at /\ device.at <= now BY DEF Inv, KnownInv
  <2> QED BY <2>1, <2>2
<1>9. KnownInv'
  <2>1. device'.at <= now' /\ sentAt' <= now' /\ before'.at <= cache'.at
    BY <1>1, <1>2, <1>4 DEF Inv, KnownInv, Types, SendType, storeVars, sendVars
  <2>2. sentAt' > 0 /\ device'.value = "want" => held'
    BY <1>1, <1>3, <1>4 DEF sendVars
  <2>3. \A x, y \in Known' : x.at = y.at => x.value = y.value
    BY <1>2, <1>7, <1>8 DEF Inv, KnownInv
  <2>4. ASSUME NEW x \in Known'
        PROVE  x.at <= device'.at /\ (Sent(x)' /\ x.value = "want" => held')
    <3>1. CASE x = d
      <4>1. x.at = now + 1 /\ x.value = v /\ device'.at = now + 1 BY <1>1, <3>1
      <4>2. sentAt' = sentAt /\ sentAt \in Nat BY <1>4 DEF sendVars, Inv, Types, SendType
      <4>3. x.at <= device'.at BY <1>2, <4>1
      <4>4. Sent(x)' => sentAt > 0 BY <4>2 DEF Sent
      <4>5. sentAt > 0 /\ v = "want" => held' BY <1>3
      <4> QED BY <4>1, <4>3, <4>4, <4>5
    <3>2. CASE x \in Known
      <4>1. x.at <= device'.at BY <1>1, <1>2, <1>8, <3>2
      <4>2. Sent(x)' <=> Sent(x) BY <1>4 DEF Sent, sendVars
      <4> QED BY <1>3, <3>2, <4>1, <4>2 DEF Inv, KnownInv
    <3> QED BY <1>7, <3>1, <3>2
  <2> QED BY <2>1, <2>2, <2>3, <2>4 DEF KnownInv
<1>10. ReadInv'
  <2> SUFFICES ASSUME NEW f \in Flights, Reading(f)
               PROVE  /\ flights[f].from.value = "want" => held'
                      /\ \A x \in Known' : flights[f].from.at < x.at => Sent(x)'
    BY <1>4 DEF ReadInv, Reading, readVars
  <2>1. 0 < sentAt /\ sentAt <= now
    BY DEF Inv, StageInv, Reading, KnownInv
  <2>2. \A x \in {d} : Sent(x)' BY <1>2, <1>4, <2>1 DEF Sent, sendVars, Inv, Types, SendType
  <2>3. flights[f].from.value = "want" => held' BY <1>3 DEF Inv, ReadInv
  <2>4. \A x \in Known : flights[f].from.at < x.at => Sent(x) BY DEF Inv, ReadInv
  <2>5. \A x : Sent(x)' <=> Sent(x) BY <1>4 DEF Sent, sendVars
  <2> HIDE DEF d
  <2> QED BY <1>7, <2>2, <2>3, <2>4, <2>5
<1>11. WaitInv'
  <2>1. held => held' BY <1>3
  <2>2. now <= now' /\ now' \in Nat BY <1>2
  <2> QED BY <1>4, <2>1, <2>2, WaitKept DEF Inv, options, storeVars, sendVars
<1> QED BY <1>5, <1>6, <1>9, <1>10, <1>11 DEF Inv

\* The value of a state that the bridge has just taken from somewhere.
LEMMA TakenStore ==
  ASSUME Inv, Waiting, NEW type \in {"state", "inventory"}, NEW event \in Events,
         cache' \in Dated, cache' \in Known, cache.at <= cache'.at,
         cache'.value = event.value, cache'.at = event.at,
         mail' = Newer(cache'), seq' \in Nat,
         kind = "location" => type = "inventory",
         wait' = Observe(wait, type, event, cache'), Watch(wait', cache'),
         UNCHANGED <<options, device, now, before, sendVars, timer, readVars, held>>
  PROVE  Inv'
<1>1. mail' \subseteq mail BY DEF Newer
<1>2. Known' \subseteq Known BY <1>1 DEF Known, Reading, readVars
<1>3. KnownInv' /\ ReadInv'
  BY <1>2, KnownKept DEF Inv, Types, sendVars, readVars, Reading
<1>4. event.at <= now /\ (Sent(event) /\ event.value = "want" => held)
  BY DEF Inv, KnownInv, Sent, Types, DeviceType, Dated
<1>5. WaitType' /\ StageInv' /\ WaitInv' BY <1>4, TakenStep DEF Inv
<1>6. HistoryType' BY WatchType DEF Inv, Types, HistoryType
<1>7. Types'
  BY <1>1, <1>5, <1>6 DEF Inv, Types, OptionType, DeviceType, StoreType, SendType, ReadType,
     options, sendVars, readVars
<1> QED BY <1>3, <1>5, <1>7 DEF Inv

LEMMA DeliverPushStep == ASSUME Inv, DeliverPush PROVE Inv'
<1>1. PICK event \in mail :
        /\ event.at > cache.at /\ cache' = Merge(cache, event)
        /\ seq' = IF kind = "location" \/ event.value # cache.value \/ event.id # "none"
                  THEN seq + 1 ELSE seq
        /\ wait' = Observe(wait, PushType, event, cache')
  BY DEF DeliverPush
<1>2. event \in Events BY DEF Inv, Types, DeviceType
<1>3. cache' = [value |-> event.value, at |-> event.at] BY <1>1 DEF Merge
<1>4. cache' \in Dated BY <1>2, <1>3 DEF Dated, Events
<1>5. cache' \in Known BY <1>3 DEF Known
<1>6. cache.at <= cache'.at BY <1>1, <1>2, <1>3 DEF Events, Inv, Types, StoreType, Dated
<1>7. seq' \in Nat BY <1>1 DEF Inv, Types, StoreType
<1>8. PushType \in {"state", "inventory"} /\ (kind = "location" => PushType = "inventory")
  BY DEF PushType
<1>9. /\ Waiting /\ mail' = Newer(cache') /\ Watch(wait', cache')
      /\ UNCHANGED <<options, device, now, before, sendVars, timer, readVars, held>>
  BY DEF DeliverPush
<1> QED BY <1>1, <1>2, <1>3, <1>4, <1>5, <1>6, <1>7, <1>8, <1>9, TakenStore

LEMMA InventoryStep == ASSUME Inv, Inventory PROVE Inv'
<1>1. PICK d \in {device, cache} \cup {[value |-> e.value, at |-> e.at] : e \in mail} :
        cache' = d /\ (d # cache => d.at > cache.at)
  BY DEF Inventory
<1>2. d \in Dated
  BY DEF Inv, Types, DeviceType, StoreType, Dated, Events
<1> DEFINE event == [value |-> cache'.value, at |-> cache'.at, id |-> "none"]
<1>3. event \in Events BY <1>1, <1>2 DEF Dated, Events, CommandIds
<1>4. cache' \in Known BY <1>1 DEF Known
<1>5. cache.at <= cache'.at BY <1>1, <1>2 DEF Inv, Types, StoreType, Dated
<1>6. seq' \in Nat BY DEF Inventory, Inv, Types, StoreType
<1>7. /\ Waiting /\ mail' = Newer(cache') /\ Watch(wait', cache')
      /\ wait' = Observe(wait, "inventory", event, cache')
      /\ UNCHANGED <<options, device, now, before, sendVars, timer, readVars, held>>
  BY DEF Inventory
<1>8. cache'.value = event.value /\ cache'.at = event.at OBVIOUS
<1> HIDE DEF event
<1> QED BY <1>1, <1>2, <1>3, <1>4, <1>5, <1>6, <1>7, <1>8, TakenStore

LEMMA SendStep == ASSUME Inv, Send PROVE Inv'
<1>1. /\ now < MaxTime /\ now' = now + 1 /\ sentAt' = now + 1 /\ sending' = TRUE
      /\ held' = (device.value = "want") /\ ~wait.complete /\ wait.outcome = "waiting"
      /\ UNCHANGED <<options, device, mail, storeVars, before, receipt, wait, timer,
                     readVars, broken>>
  BY DEF Send, Waiting
<1>2. now \in 0..MaxTime BY DEF Inv, Types, DeviceType
<1>3. Types'
  BY <1>1, <1>2 DEF Inv, Types, OptionType, DeviceType, StoreType, SendType, WaitType, ReadType,
     HistoryType, options, storeVars, readVars
<1>4. StageInv' BY <1>1, <1>2 DEF Inv, StageInv, options, readVars
<1>5. \A f \in Flights : ~Reading(f) /\ ~Reading(f)'
  BY <1>1 DEF Inv, StageInv, Reading, readVars
<1>6. Known' = Known BY <1>1 DEF Known, Reading, storeVars, readVars
<1>7. \A x \in Known : ~Sent(x)'
  <2> SUFFICES ASSUME NEW x \in Known PROVE ~Sent(x)' OBVIOUS
  <2>1. x.at <= device.at /\ device.at <= now BY DEF Inv, KnownInv
  <2>2. x.at \in Nat /\ device.at \in Nat
    BY <1>5 DEF Known, Inv, Types, DeviceType, StoreType, Dated, Events
  <2> QED BY <1>1, <1>2, <2>1, <2>2 DEF Sent
<1>8. KnownInv'
  <2>1. device.at <= now + 1
    BY <1>2 DEF Inv, KnownInv, Types, DeviceType, Dated
  <2>2. \A x \in Known : x.at <= device.at BY DEF Inv, KnownInv
  <2>3. \A x, y \in Known : x.at = y.at => x.value = y.value BY DEF Inv, KnownInv
  <2>4. before.at <= cache.at BY DEF Inv, KnownInv
  <2>5. now' = now + 1 /\ device'.at <= now' /\ sentAt' <= now' BY <1>1, <1>2, <2>1
  <2>6. cache' = cache /\ before' = before /\ device' = device BY <1>1 DEF storeVars
  <2>7. device'.value = "want" => held' BY <1>1
  <2> QED BY <1>6, <1>7, <2>2, <2>3, <2>4, <2>5, <2>6, <2>7 DEF KnownInv
<1>9. ReadInv' BY <1>5 DEF ReadInv
<1>10. WaitInv'
  <2>1. PendingOK(wait, cache) /\ wait.stabilizing = FALSE
    BY <1>1 DEF Inv, WaitInv, PendingOK, Types, WaitType, Waits
  <2>2. wait.pending # NoEvidence => wait.pending.at \in Nat /\ wait.pending.at <= now
    BY <1>1, <2>1 DEF PendingOK, Inv, Types, WaitType, Waits, Evidence
  <2>3. wait.pending # NoEvidence => ~Sent(wait.pending)'
    BY <1>1, <1>2, <2>2 DEF Sent
  <2>4. PendingOK(wait, cache)'
    BY <1>1, <1>2, <2>1, <2>2, <2>3 DEF PendingOK, options, storeVars
  <2>5. SoundOK(wait, cache)' BY <1>1 DEF SoundOK
  <2> QED BY <1>1, <2>1, <2>4, <2>5 DEF WaitInv, StableConfirmation, Confirmed
<1> QED BY <1>3, <1>4, <1>8, <1>9, <1>10 DEF Inv

\* A step that may only end reads leaves what is known of the device alone.
LEMMA NothingLearnt ==
  ASSUME Inv, UNCHANGED <<device, now, mail, cache, before, sentAt, held>>,
         \A f \in Flights : Reading(f)' => Reading(f) /\ flights'[f].from = flights[f].from
  PROVE  KnownInv' /\ ReadInv'
<1>1. Known' \subseteq Known BY DEF Known
<1>2. cache' \in Dated /\ cache.at <= cache'.at BY DEF Inv, Types, StoreType, Dated
<1> QED BY <1>1, <1>2, KnownKept DEF Inv, Types

LEMMA ReceiveStep == ASSUME Inv, Receive PROVE Inv'
<1> DEFINE x == [wait EXCEPT !.complete = TRUE]
<1>1. /\ wait.outcome = "waiting" /\ sending /\ sending' = FALSE /\ receipt' \in Receipts
      /\ wait' = ResolvePending(x, receipt') /\ timer' = "armed" /\ Watch(wait', cache)
      /\ UNCHANGED <<options, device, now, mail, storeVars, before, sentAt, readVars, held>>
  BY DEF Receive, Waiting
<1>2. /\ x \in Waits /\ x.complete = TRUE /\ x.outcome = "waiting" /\ x.pending = wait.pending
      /\ x.stabilizing = FALSE
  BY <1>1 DEF Inv, Types, WaitType, Waits, StageInv, WaitInv, PendingOK
<1>3. receipt' \in [minimum : 0..MaxTime, id : {"own", "unknown"}]
  BY <1>1 DEF Receipts, Inv, Types, SendType
<1>4. sentAt > 0 /\ ~wait.complete /\ sentAt \in 0..MaxTime
  BY <1>1 DEF Inv, StageInv, Types, SendType
<1> HIDE DEF x
<1>5. /\ wait' \in Waits /\ wait'.complete = TRUE
      /\ \/ wait' = x /\ x.pending = NoEvidence
         \/ /\ wait'.outcome = "waiting" /\ wait'.pending = NoEvidence
            /\ wait'.stabilizing = FALSE
         \/ /\ x.pending # NoEvidence /\ AcceptsEvidence(x.pending, receipt') /\ stable
            /\ wait'.outcome = "waiting" /\ wait'.pending = x.pending /\ wait'.stabilizing = TRUE
         \/ /\ x.pending # NoEvidence /\ AcceptsEvidence(x.pending, receipt') /\ ~stable
            /\ wait'.outcome = "confirmed" /\ wait'.proof = x.pending /\ wait'.stabilizing = FALSE
  <2>1. Resolved(wait', x, receipt') BY <1>1, <1>2, ResolveCases
  <2> QED BY <1>2, <2>1 DEF Resolved
<1>6. wait.pending # NoEvidence =>
        /\ kind # "vector" /\ (kind \notin Unvalued => cache.value = "want")
        /\ wait.pending.at <= now /\ wait.pending.by # "snapshot" /\ wait.pending.by # "read"
        /\ kind = "state" /\ wait.pending.source = "event" /\ Sent(wait.pending) => held
  BY <1>1, <1>4 DEF Inv, WaitInv, PendingOK
<1>7. PendingOK(wait, cache)' /\ SoundOK(wait, cache)' /\ (wait'.outcome = "confirmed" => ~stable)
  <2>1. CASE wait' = x /\ x.pending = NoEvidence
    BY <1>2, <2>1 DEF PendingOK, SoundOK
  <2>2. CASE wait'.outcome = "waiting" /\ wait'.pending = NoEvidence /\ wait'.stabilizing = FALSE
    BY <2>2 DEF PendingOK, SoundOK
  <2>3. CASE /\ x.pending # NoEvidence /\ AcceptsEvidence(x.pending, receipt') /\ stable
             /\ wait'.outcome = "waiting" /\ wait'.pending = x.pending /\ wait'.stabilizing = TRUE
    <3>1. kind \notin Unvalued /\ kind' = kind
      BY <1>1, <2>3 DEF Inv, StageInv, Unvalued, options
    <3>2. stable' /\ cache' = cache /\ now' = now /\ (held' <=> held) /\ sentAt' = sentAt
      BY <1>1, <2>3 DEF options, storeVars
    <3>3. AcceptsEvidence(wait.pending, receipt)'
      BY <1>2, <2>3, <3>1 DEF AcceptsEvidence
    <3>4. SoundOK(wait, cache)' BY <2>3 DEF SoundOK
    <3>5. wait'.pending = wait.pending /\ wait.pending # NoEvidence BY <1>2, <2>3
    <3>6. PendingOK(wait, cache)'
      BY <1>5, <1>6, <2>3, <3>1, <3>2, <3>3, <3>5 DEF PendingOK, Sent
    <3> QED BY <2>3, <3>4, <3>6
  <2>4. CASE /\ x.pending # NoEvidence /\ AcceptsEvidence(x.pending, receipt') /\ ~stable
             /\ wait'.outcome = "confirmed" /\ wait'.proof = x.pending /\ wait'.stabilizing = FALSE
    <3>1. kind' = kind /\ cache' = cache /\ now' = now /\ (held' <=> held) /\ sentAt' = sentAt
      BY <1>1 DEF options, storeVars
    <3>2. kind = "state" /\ wait.pending.source = "event" /\ receipt'.minimum = sentAt
            => Sent(wait.pending)
      BY <1>2, <1>4, <2>4 DEF AcceptsEvidence, Sent
    <3>3. SoundOK(wait, cache)' BY <1>2, <1>5, <1>6, <2>4, <3>1, <3>2 DEF SoundOK
    <3>4. PendingOK(wait, cache)' BY <2>4 DEF PendingOK
    <3> QED BY <2>4, <3>3, <3>4
  <2> QED BY <1>5, <2>1, <2>2, <2>3, <2>4
<1>8. WaitInv'
  <2>1. UNCHANGED stable /\ Watch(wait', cache') BY <1>1 DEF options, storeVars
  <2> QED BY <1>7, <2>1, WatchOK DEF Inv, WaitInv
<1>9. StageInv' BY <1>1, <1>4, <1>5 DEF Inv, StageInv, options, readVars
<1>10. KnownInv' /\ ReadInv'
  <2>1. \A f \in Flights : Reading(f)' => Reading(f) /\ flights'[f].from = flights[f].from
    BY <1>1 DEF Reading, readVars
  <2> QED BY <1>1, <2>1, NothingLearnt DEF storeVars
<1>11. Types'
  <2>1. broken' \in BOOLEAN BY <1>1, WatchType DEF Inv, Types
  <2> QED BY <1>1, <1>3, <1>5, <2>1 DEF Inv, Types, OptionType, DeviceType, StoreType, SendType,
        WaitType, ReadType, HistoryType, options, storeVars, readVars
<1> QED BY <1>8, <1>9, <1>10, <1>11 DEF Inv

LEMMA CancelStep == ASSUME Inv, Cancel PROVE Inv'
<1>1. /\ wait' = Settle(wait, "cancelled", NoEvidence)
      /\ UNCHANGED <<options, device, now, mail, storeVars, before, sendVars, timer,
                     readVars, held, broken>>
  BY DEF Cancel
<1>2. /\ wait' \in Waits /\ wait'.complete = wait.complete /\ wait'.outcome = "cancelled"
      /\ PendingOK(wait', cache') /\ SoundOK(wait', cache')
  <2>1. wait \in Waits BY DEF Inv, Types, WaitType
  <2> QED BY <1>1, <2>1, EndOK
<1>3. wait'.stabilizing = FALSE BY <1>1 DEF Settle
<1>4. WaitInv' BY <1>1, <1>2, <1>3, WaitEnded DEF Inv
<1>5. StageInv' BY <1>1, <1>2 DEF Inv, StageInv, options, sendVars, readVars
<1>6. KnownInv' /\ ReadInv'
  <2>1. \A f \in Flights : Reading(f)' => Reading(f) /\ flights'[f].from = flights[f].from
    BY <1>1 DEF Reading, readVars
  <2> QED BY <1>1, <2>1, NothingLearnt DEF storeVars, sendVars
<1>7. Types'
  BY <1>1, <1>2 DEF Inv, Types, OptionType, DeviceType, StoreType, SendType, WaitType, ReadType,
     HistoryType, options, storeVars, sendVars, readVars
<1> QED BY <1>4, <1>5, <1>6, <1>7 DEF Inv

LEMMA RecheckStep == ASSUME Inv, NEW f \in Flights, Recheck(f) PROVE Inv'
<1>1. /\ timer = "armed" /\ MayRead(f) /\ StartRead(f)
      /\ reads' = (IF f = "recheck" THEN reads + 1 ELSE reads)
      /\ UNCHANGED <<options, device, now, mail, storeVars, before, sendVars, wait,
                     timer, held, broken>>
  BY DEF Recheck
<1>2. wait.complete BY <1>1 DEF Inv, StageInv
<1>3. /\ flights' \in [Flights -> Reads] /\ lastResync' \in Nat
      /\ StageInv' /\ KnownInv' /\ ReadInv'
  BY <1>1, <1>2, ReadStarts DEF Inv
<1>4. reads' \in 0..MaxReads
  <2>1. reads \in 0..MaxReads BY DEF Inv, Types, ReadType
  <2>2. f = "recheck" => reads < MaxReads \/ reads < 1
    BY <1>1 DEF MayRead
  <2> QED BY <1>1, <2>1, <2>2
<1>5. WaitInv'
  <2>1. now \in Nat BY DEF Inv, Types, DeviceType
  <2>2. now <= now' /\ now' \in Nat /\ (held => held') BY <1>1, <2>1
  <2> QED BY <1>1, <2>2, WaitKept DEF Inv, options, storeVars, sendVars
<1>6. Types'
  BY <1>1, <1>3, <1>4 DEF Inv, Types, OptionType, DeviceType, StoreType, SendType, WaitType,
     ReadType, HistoryType, options, storeVars, sendVars
<1> QED BY <1>3, <1>5, <1>6 DEF Inv

\* A read ends for good or goes on after its window.
LEMMA ReadEnds ==
  ASSUME Inv, NEW f \in Flights, NEW m \in Nat, wait.complete,
         flights' \in {[flights EXCEPT ![f] = Done], [flights EXCEPT ![f] = Ended("steadying", m)]}
  PROVE  /\ flights' \in [Flights -> Reads]
         /\ \A g \in Flights : Reading(g)' => Reading(g) /\ flights'[g].from = flights[g].from
<1>1. /\ Done \in Reads /\ Ended("steadying", m) \in Reads
      /\ Done.stage # "reading" /\ Ended("steadying", m).stage # "reading"
  BY DEF Done, Ended, Reads, NoFlight, Dated, Values
<1>2. flights \in [Flights -> Reads] BY DEF Inv, Types, ReadType
<1> QED BY <1>1, <1>2 DEF Reading

LEMMA SteadyDoneStep == ASSUME Inv, NEW f \in Flights, SteadyDone(f) PROVE Inv'
<1>1. /\ wait.outcome = "waiting" /\ flights[f].stage = "steadying"
      /\ wait' = SettleFromSnapshot(wait, cache, seq, flights[f].min)
      /\ flights' = [flights EXCEPT ![f] = Done]
      /\ UNCHANGED <<options, device, now, mail, storeVars, before, sendVars, timer,
                     reads, lastResync, held, broken>>
  BY DEF SteadyDone, Waiting
<1>2. wait.complete BY <1>1 DEF Inv, StageInv
<1>3. /\ Became(wait', wait, cache)
      /\ wait'.outcome = "confirmed" => wait'.proof.by = "snapshot"
      /\ wait'.outcome = "waiting" => wait' = wait
  BY <1>1, <1>2, SnapshotOK DEF Inv, Types, WaitType, WaitInv, StoreType
<1>4. /\ flights' \in [Flights -> Reads]
      /\ \A g \in Flights : Reading(g)' => Reading(g) /\ flights'[g].from = flights[g].from
  BY <1>1, <1>2, ReadEnds, 0 \in Nat
<1>5. KnownInv' /\ ReadInv' BY <1>1, <1>4, NothingLearnt DEF storeVars, sendVars
<1>6. StageInv' BY <1>1, <1>2, <1>3 DEF Became, Inv, StageInv, options, sendVars
<1>7. WaitInv'
  <2>1. PendingOK(wait, cache)' /\ SoundOK(wait, cache)'
    BY <1>1, <1>3, WaitPrime DEF Became, options, storeVars, sendVars
  <2>2. wait'.stabilizing => wait.stabilizing
    BY <1>1, <1>3 DEF SettleFromSnapshot, Settle
  <2>3. (wait'.stabilizing => ~broken') /\ StableConfirmation'
    BY <1>1, <1>3, <2>2 DEF Inv, WaitInv, StableConfirmation, Confirmed, options
  <2> QED BY <2>1, <2>3 DEF WaitInv
<1>8. Types'
  BY <1>1, <1>3, <1>4 DEF Became, Inv, Types, OptionType, DeviceType, StoreType, SendType, WaitType,
     ReadType, HistoryType, options, storeVars, sendVars
<1> QED BY <1>5, <1>6, <1>7, <1>8 DEF Inv

LEMMA StabilityElapsedStep == ASSUME Inv, StabilityElapsed PROVE Inv'
<1>1. /\ wait.outcome = "waiting" /\ wait.stabilizing
      /\ wait' = IF wait.pending = NoEvidence THEN [wait EXCEPT !.stabilizing = FALSE]
                 ELSE Settle(wait, "confirmed", wait.pending)
      /\ UNCHANGED <<options, device, now, mail, storeVars, before, sendVars, timer,
                     readVars, held, broken>>
  BY DEF StabilityElapsed, Waiting
<1>2. wait \in Waits /\ stable /\ wait.complete /\ cache.value = "want" /\ PendingOK(wait, cache)
  BY <1>1 DEF Inv, Types, WaitType, WaitInv, PendingOK
<1>3. /\ wait' \in Waits /\ wait'.complete = wait.complete /\ wait'.stabilizing = FALSE
      /\ PendingOK(wait', cache) /\ SoundOK(wait', cache)
  <2>1. CASE wait.pending = NoEvidence
    <3>1. /\ wait' \in Waits /\ wait'.complete = wait.complete /\ wait'.stabilizing = FALSE
          /\ wait'.outcome = "waiting" /\ wait'.pending = NoEvidence
      BY <1>1, <1>2, <2>1 DEF Waits
    <3> QED BY <3>1 DEF PendingOK, SoundOK
  <2>2. CASE wait.pending # NoEvidence
    <3>1. wait' = Settle(wait, "confirmed", wait.pending) BY <1>1, <2>2
    <3>2. "confirmed" \in Outcomes BY DEF Outcomes
    <3>3. /\ wait' \in Waits /\ wait'.complete = wait.complete /\ wait'.stabilizing = FALSE
          /\ wait'.outcome = "confirmed" /\ wait'.proof = wait.pending
      BY <1>2, <3>1, <3>2 DEF Settle, Waits
    <3>4. wait.pending \in Evidence /\ sentAt > 0 /\ SendType
      BY <1>2, <2>2 DEF Waits, Inv, StageInv, Types
    <3>5. kind = "state" /\ wait.pending.source = "event" /\ receipt.minimum = sentAt => held
      BY <1>1, <1>2, <2>2, <3>4 DEF PendingOK, AcceptsEvidence, Sent, SendType, Evidence
    <3>6. SoundOK(wait', cache)
      BY <1>1, <1>2, <2>2, <3>3, <3>5 DEF SoundOK, PendingOK
    <3> QED BY <3>3, <3>6 DEF PendingOK
  <2> QED BY <2>1, <2>2
<1>4. WaitInv'
  <2>1. PendingOK(wait', cache') /\ SoundOK(wait', cache') BY <1>1, <1>3 DEF storeVars
  <2> QED BY <1>1, <1>3, <2>1, WaitEnded DEF Inv
<1>5. StageInv' BY <1>1, <1>3 DEF Inv, StageInv, options, sendVars, readVars
<1>6. KnownInv' /\ ReadInv'
  <2>1. \A f \in Flights : Reading(f)' => Reading(f) /\ flights'[f].from = flights[f].from
    BY <1>1 DEF Reading, readVars
  <2> QED BY <1>1, <2>1, NothingLearnt DEF storeVars, sendVars
<1>7. Types'
  BY <1>1, <1>3 DEF Inv, Types, OptionType, DeviceType, StoreType, SendType, WaitType, ReadType,
     HistoryType, options, storeVars, sendVars, readVars
<1> QED BY <1>4, <1>5, <1>6, <1>7 DEF Inv

\* A wait that is looked at once more and, if it still waits, is given up.
LEMMA LastLook ==
  ASSUME OptionType, SendType, NEW w \in Waits, w.outcome = "waiting", w.complete,
         NEW c \in Dated, NEW s, NEW m, PendingOK(w, c),
         NEW u, u = SettleFromSnapshot(w, c, s, m) \/ u = w,
         NEW v, v = IF u.outcome = "waiting" THEN Settle(u, "timeout", NoEvidence) ELSE u
  PROVE  /\ v \in Waits /\ v.complete /\ PendingOK(v, c) /\ SoundOK(v, c)
         /\ v.outcome = "confirmed" => v.proof.by = "snapshot"
         /\ v.stabilizing => w.stabilizing
<1>1. /\ u \in Waits /\ u.complete /\ u.outcome \in {"waiting", "confirmed"}
      /\ PendingOK(u, c) /\ SoundOK(u, c)
      /\ u.outcome = "confirmed" => u.proof.by = "snapshot"
      /\ u.outcome = "waiting" => u = w
  <2>1. CASE u = w BY <2>1 DEF SoundOK
  <2>2. CASE u = SettleFromSnapshot(w, c, s, m)
    <3>1. /\ Became(u, w, c)
          /\ u.outcome = "confirmed" => u.proof.by = "snapshot"
          /\ u.outcome = "waiting" => u = w
      BY <2>2, SnapshotOK
    <3> QED BY <3>1 DEF Became
  <2> QED BY <2>1, <2>2
<1>2. CASE u.outcome = "waiting"
  <2>1. v = Settle(u, "timeout", NoEvidence) BY <1>2
  <2>2. /\ v \in Waits /\ v.complete = u.complete /\ v.outcome = "timeout"
        /\ PendingOK(v, c) /\ SoundOK(v, c)
    BY <1>1, <2>1, EndOK
  <2>3. v.stabilizing = FALSE BY <2>1 DEF Settle
  <2> QED BY <1>1, <2>2, <2>3
<1>3. CASE u.outcome # "waiting"
  <2>1. v = u BY <1>3
  <2>2. u.stabilizing => w.stabilizing
    BY <1>3 DEF SettleFromSnapshot, Settle
  <2> QED BY <1>1, <2>1, <2>2
<1> QED BY <1>2, <1>3

LEMMA TimeoutStep == ASSUME Inv, Timeout PROVE Inv'
<1>1. /\ wait.outcome = "waiting" /\ timer = "armed" /\ timer' = "fired"
      /\ UNCHANGED <<options, device, now, mail, storeVars, before, sendVars, held, broken>>
  BY DEF Timeout, Waiting
<1>2. wait.complete /\ wait \in Waits /\ PendingOK(wait, cache)
  BY <1>1 DEF Inv, StageInv, Types, WaitType, WaitInv
<1>3. CASE StartRead("recheck") /\ UNCHANGED <<wait, reads>>
  <2>0. "recheck" \in Flights BY DEF Flights
  <2>1. /\ flights' \in [Flights -> Reads] /\ lastResync' \in Nat
        /\ StageInv' /\ KnownInv' /\ ReadInv'
    BY <1>1, <1>2, <1>3, <2>0, ReadStarts DEF Inv
  <2>2. WaitInv'
    <3>1. now \in Nat BY DEF Inv, Types, DeviceType
    <3>2. now <= now' /\ now' \in Nat /\ (held => held') BY <1>1, <3>1
    <3> QED BY <1>1, <1>3, <3>2, WaitKept DEF Inv, options, storeVars, sendVars
  <2>3. Types'
    BY <1>1, <1>3, <2>1 DEF Inv, Types, OptionType, DeviceType, StoreType, SendType, WaitType,
       ReadType, HistoryType, options, storeVars, sendVars
  <2> QED BY <2>1, <2>2, <2>3 DEF Inv
<1>4. ASSUME NEW u, u = SettleFromSnapshot(wait, cache, seq, lastResync) \/ u = wait,
             wait' = (IF u.outcome = "waiting" THEN Settle(u, "timeout", NoEvidence) ELSE u),
             UNCHANGED readVars
      PROVE  Inv'
  <2>1. /\ wait' \in Waits /\ wait'.complete /\ PendingOK(wait', cache) /\ SoundOK(wait', cache)
        /\ wait'.outcome = "confirmed" => wait'.proof.by = "snapshot"
        /\ wait'.stabilizing => wait.stabilizing
    <3>1. OptionType /\ SendType /\ cache \in Dated BY DEF Inv, Types, StoreType
    <3> QED BY <1>1, <1>2, <1>4, <3>1, LastLook
  <2>2. WaitInv'
    <3>1. PendingOK(wait, cache)' /\ SoundOK(wait, cache)'
      BY <1>1, <2>1, WaitPrime DEF options, storeVars, sendVars
    <3>2. (wait'.stabilizing => ~broken') /\ StableConfirmation'
      BY <1>1, <2>1 DEF Inv, WaitInv, StableConfirmation, Confirmed
    <3> QED BY <3>1, <3>2 DEF WaitInv
  <2>3. StageInv' BY <1>1, <1>2, <1>4, <2>1 DEF Inv, StageInv, options, sendVars, readVars
  <2>4. KnownInv' /\ ReadInv'
    <3>1. \A f \in Flights : Reading(f)' => Reading(f) /\ flights'[f].from = flights[f].from
      BY <1>4 DEF Reading, readVars
    <3> QED BY <1>1, <3>1, NothingLearnt DEF storeVars, sendVars
  <2>5. Types'
    BY <1>1, <1>4, <2>1 DEF Inv, Types, OptionType, DeviceType, StoreType, SendType, WaitType,
       ReadType, HistoryType, options, storeVars, sendVars, readVars
  <2> QED BY <2>2, <2>3, <2>4, <2>5 DEF Inv
<1>5. CASE Plain(kind) /\ ~early BY <1>3, <1>5 DEF Timeout
<1>6. CASE ~(Plain(kind) /\ ~early)
  <2> DEFINE u == IF Plain(kind) THEN SettleFromSnapshot(wait, cache, seq, lastResync) ELSE wait
  <2>1. /\ wait' = (IF u.outcome = "waiting" THEN Settle(u, "timeout", NoEvidence) ELSE u)
        /\ UNCHANGED readVars
    BY <1>6 DEF Timeout
  <2>2. u = SettleFromSnapshot(wait, cache, seq, lastResync) \/ u = wait OBVIOUS
  <2> HIDE DEF u
  <2> QED BY <1>4, <2>1, <2>2
<1> QED BY <1>5, <1>6

\* What a read saw was known, or is older than what the bridge has.
LEMMA ReadTakes ==
  ASSUME Inv, NEW f \in Flights, Reading(f), NEW ok \in BOOLEAN, NEW seen,
         ok => seen \in Seen(f),
         NEW c, c = IF ok THEN Merge(cache, seen) ELSE cache
  PROVE  /\ c \in Dated /\ c \in Known /\ cache.at <= c.at /\ c.at <= now
         /\ ok => seen \in Dated /\ seen.at <= c.at
         /\ ok /\ flights[f].current => seen \in {flights[f].from, device}
         /\ c = cache \/ (ok /\ c = seen)
         /\ Sent(c) /\ c.value = "want" => held
<1>1. cache \in Dated /\ device \in Dated /\ before \in Dated /\ flights[f].from \in Dated
      /\ now \in Nat
  BY DEF Inv, Types, StoreType, DeviceType, ReadType, Reads
<1>2. ok => seen \in {flights[f].from, device, before}
  BY DEF Seen
<1>3. ok => seen \in Dated BY <1>1, <1>2
<1>4. ok => IF seen.at > cache.at THEN c = seen ELSE c = cache
  BY <1>3 DEF Merge, Dated
<1>5. c \in Dated /\ cache.at <= c.at /\ (c = cache \/ (ok /\ c = seen))
  BY <1>1, <1>3, <1>4 DEF Dated
<1>6. ok => seen.at <= c.at BY <1>1, <1>3, <1>4 DEF Dated
<1>7. c \in Known
  <2>1. cache \in Known /\ device \in Known /\ flights[f].from \in Known BY DEF Known
  <2>2. before.at <= cache.at BY DEF Inv, KnownInv
  <2>3. ok /\ seen = before => c = cache BY <1>1, <1>4, <2>2 DEF Dated
  <2> QED BY <1>2, <1>5, <2>1, <2>3
<1>8. c.at <= now /\ (Sent(c) /\ c.value = "want" => held)
  <2>1. c.at <= device.at /\ device.at <= now /\ (Sent(c) /\ c.value = "want" => held)
    BY <1>7 DEF Inv, KnownInv
  <2> QED BY <1>1, <1>5, <2>1 DEF Dated
<1>9. ok /\ flights[f].current => seen \in {flights[f].from, device} BY DEF Seen
<1> QED BY <1>3, <1>5, <1>6, <1>7, <1>8, <1>9

\* A read is only taken as an answer when the device had what was asked for.
LEMMA ReadHolds ==
  ASSUME Inv, NEW f \in Flights, Reading(f), NEW seen, seen \in Seen(f),
         NEW c, c = Merge(cache, seen), AcceptsResync(flights[f].current, seen, c),
         kind # "refresh"
  PROVE  held
<1>1. /\ c \in Dated /\ c \in Known /\ seen \in Dated /\ seen.at <= c.at
      /\ seen \in {flights[f].from, device} /\ c.value = "want"
      /\ Sent(c) => held
  BY ReadTakes DEF AcceptsResync
<1>2. /\ flights[f].from \in Known /\ device \in Known
  BY DEF Known
<1>3. 0 < sentAt BY DEF Inv, StageInv, Reading
<1>4. flights[f].from.value = "want" \/ device.value = "want" \/ Sent(c) => held
  BY <1>1, <1>3 DEF Inv, KnownInv, ReadInv
<1>5. CASE seen.at = c.at
  <2>1. seen.value = "want" BY <1>1, <1>2, <1>5 DEF Inv, KnownInv
  <2> QED BY <1>1, <1>4, <2>1
<1>6. CASE seen.at < c.at
  <2>1. c.at <= device.at BY <1>1 DEF Inv, KnownInv
  <2>2. device.at \in Nat BY DEF Inv, Types, DeviceType, Dated
  <2>3. seen # device BY <1>1, <1>6, <2>1, <2>2 DEF Dated
  <2>4. seen = flights[f].from BY <1>1, <2>3
  <2>5. Sent(c) BY <1>1, <1>6, <2>4 DEF Inv, ReadInv
  <2> QED BY <1>4, <2>5
<1> QED BY <1>1, <1>5, <1>6 DEF Dated

\* The wait once the store has merged what was read.
LEMMA ReadMerges ==
  ASSUME Inv, Waiting, wait.complete, NEW c \in Dated, c.at <= now,
         Sent(c) /\ c.value = "want" => held,
         NEW v, v = IF c # cache
                    THEN Observe(wait, "inventory",
                                 [value |-> c.value, at |-> c.at, id |-> "none"], c)
                    ELSE wait
  PROVE  /\ Became(v, wait, c)
         /\ v.outcome = "confirmed" => ~stable
<1>1. /\ OptionType /\ SendType /\ wait \in Waits /\ wait.outcome = "waiting"
      /\ PendingOK(wait, cache) /\ sentAt > 0 /\ (stable => kind \in {"state", "light"})
  BY DEF Inv, Types, WaitType, Waiting, WaitInv, StageInv
<1>2. CASE c = cache
  BY <1>1, <1>2 DEF Became, SoundOK
<1>3. CASE c # cache
  <2> DEFINE event == [value |-> c.value, at |-> c.at, id |-> "none"]
  <2>1. event \in Events BY DEF Dated, Events, CommandIds
  <2>2. v = Observe(wait, "inventory", event, c) BY <1>3
  <2>3. event.at = c.at /\ event.value = c.value OBVIOUS
  <2> HIDE DEF event
  <2>4. Sent(event) /\ event.value = "want" => held BY <2>3 DEF Sent
  <2>5. event.at <= now BY <2>3
  <2> QED BY <1>1, <2>1, <2>2, <2>3, <2>4, <2>5, ObserveOK
<1> QED BY <1>2, <1>3

\* The judgement of what was read, on top of what listeners made of it.
LEMMA ReadJudged ==
  ASSUME Inv, wait.complete, NEW c \in Dated, c.at <= now, NEW s, NEW m, NEW merged,
         Became(merged, wait, c), merged.outcome = "confirmed" => ~stable,
         NEW accepted \in BOOLEAN, NEW steadies \in BOOLEAN,
         accepted => merged.outcome = "waiting" /\ (kind # "refresh" => held /\ c.value = "want"),
         NEW v,
         v = IF accepted THEN ResolvePending([merged EXCEPT !.pending = ReadProof(c)], receipt)
             ELSE IF steadies THEN merged
             ELSE SettleFromSnapshot(merged, c, s, m)
  PROVE  /\ Became(v, wait, c)
         /\ v.outcome = "confirmed" => ~stable \/ v.proof.by = "snapshot"
<1>1. /\ OptionType /\ SendType /\ sentAt > 0 /\ (stable => kind \in {"state", "light"})
      /\ merged \in Waits /\ merged.complete
  BY DEF Inv, Types, StageInv, Became
<1>2. CASE accepted
  <2>1. v = WithEvidence(merged, ReadProof(c)) BY <1>2 DEF WithEvidence
  <2>2. /\ ReadProof(c) \in Evidence /\ ReadProof(c).by = "read" /\ ReadProof(c).at = c.at
        /\ ReadProof(c).source = "inventory_snapshot"
    BY DEF ReadProof, Evidence, Dated, CommandIds
  <2>3. merged.stabilizing => stable /\ merged.complete /\ c.value = "want"
    BY DEF Became, PendingOK
  <2>4. kind # "vector" \/ (merged.complete /\ ~stable) BY <1>1
  <2>5. merged.stabilizing \/ kind \notin Unvalued => c.value = "want"
    BY <1>2, <2>3 DEF Unvalued
  <2>6. ReadProof(c).at <= now /\ ReadProof(c).by # "snapshot" /\ ReadProof(c).source # "event"
    BY <2>2
  <2>7. Became(v, merged, c) /\ (v.outcome = "confirmed" => ~stable)
    BY <1>1, <1>2, <2>1, <2>2, <2>3, <2>4, <2>5, <2>6, EvidenceOK
  <2> QED BY <2>7 DEF Became
<1>3. CASE ~accepted /\ (steadies \/ merged.outcome # "waiting")
  <2>1. v = merged BY <1>3 DEF SettleFromSnapshot
  <2> QED BY <2>1
<1>4. CASE ~accepted /\ ~steadies /\ merged.outcome = "waiting"
  <2>1. v = SettleFromSnapshot(merged, c, s, m) BY <1>4
  <2>2. PendingOK(merged, c) BY DEF Became
  <2>3. /\ Became(v, merged, c)
        /\ v.outcome = "confirmed" => v.proof.by = "snapshot"
    BY <1>1, <1>4, <2>1, <2>2, SnapshotOK
  <2> QED BY <2>3 DEF Became
<1> QED BY <1>2, <1>3, <1>4

LEMMA ReadDoneStep ==
  ASSUME Inv, NEW f \in Flights, NEW ok \in BOOLEAN, NEW seen, ok => seen \in Seen(f),
         ReadDone(f, ok, seen)
  PROVE  Inv'
<1> DEFINE c == IF ok THEN Merge(cache, seen) ELSE cache
           s == IF c # cache THEN seq + 1 ELSE seq
           merged == IF c # cache
                     THEN Observe(wait, "inventory",
                                  [value |-> c.value, at |-> c.at, id |-> "none"], c)
                     ELSE wait
           accepted == /\ ok /\ merged.outcome = "waiting"
                       /\ AcceptsResync(flights[f].current, seen, c)
           steadies == /\ ~accepted /\ merged.outcome = "waiting"
                       /\ MatchesSnapshot(c) /\ stable
           judged == IF accepted
                     THEN ResolvePending([merged EXCEPT !.pending = ReadProof(c)], receipt)
                     ELSE IF steadies THEN merged
                     ELSE SettleFromSnapshot(merged, c, s, lastResync)
<1>1. /\ wait.outcome = "waiting" /\ Waiting /\ Reading(f)
      /\ cache' = c /\ seq' = s /\ mail' = Newer(c)
      /\ wait' = LastCheck(judged, c, s)
      /\ flights' = [flights EXCEPT ![f] =
                       IF steadies THEN Ended("steadying", lastResync) ELSE Done]
      /\ Watch(wait', c)
      /\ UNCHANGED <<options, device, now, before, sendVars, timer, reads,
                     lastResync, held>>
  BY DEF ReadDone, Waiting, Reading
<1>2. wait.complete BY <1>1 DEF Inv, StageInv, Reading
<1>3. /\ c \in Dated /\ c \in Known /\ cache.at <= c.at /\ c.at <= now
      /\ Sent(c) /\ c.value = "want" => held
  <2> HIDE DEF c
  <2>1. c = IF ok THEN Merge(cache, seen) ELSE cache BY DEF c
  <2> QED BY <1>1, <2>1, ReadTakes
<1>4. ok => c = Merge(cache, seen) OBVIOUS
<1>5. s \in Nat BY DEF Inv, Types, StoreType
<1> HIDE DEF c, s
<1>6. Became(merged, wait, c) /\ (merged.outcome = "confirmed" => ~stable)
  BY <1>1, <1>2, <1>3, ReadMerges
<1> HIDE DEF merged
<1>7. accepted \in BOOLEAN /\ steadies \in BOOLEAN OBVIOUS
<1>8. accepted => merged.outcome = "waiting" /\ (kind # "refresh" => held /\ c.value = "want")
  <2> SUFFICES ASSUME accepted, kind # "refresh" PROVE held /\ c.value = "want" OBVIOUS
  <2>1. AcceptsResync(flights[f].current, seen, c) /\ c = Merge(cache, seen) /\ seen \in Seen(f)
    BY <1>4
  <2> HIDE DEF accepted
  <2> QED BY <1>1, <2>1, ReadHolds DEF AcceptsResync
<1> HIDE DEF accepted, steadies
<1>9. /\ Became(judged, wait, c)
      /\ judged.outcome = "confirmed" => ~stable \/ judged.proof.by = "snapshot"
  BY <1>2, <1>3, <1>6, <1>7, <1>8, ReadJudged
<1> HIDE DEF judged
<1>10. /\ wait' \in Waits /\ wait'.complete /\ PendingOK(wait', c) /\ SoundOK(wait', c)
       /\ wait'.outcome = "confirmed" => ~stable \/ wait'.proof.by = "snapshot"
  <2>1. OptionType /\ SendType /\ judged \in Waits /\ judged.complete /\ PendingOK(judged, c)
        /\ SoundOK(judged, c)
    BY <1>2, <1>9 DEF Inv, Types, Became
  <2>2. CASE Plain(kind) /\ timer = "fired" /\ judged.outcome = "waiting"
    <3> DEFINE u == SettleFromSnapshot(judged, c, s, lastResync)
    <3>1. wait' = IF u.outcome = "waiting" THEN Settle(u, "timeout", NoEvidence) ELSE u
      BY <1>1, <2>2 DEF LastCheck
    <3>2. u = SettleFromSnapshot(judged, c, s, lastResync) OBVIOUS
    <3> HIDE DEF u
    <3> QED BY <1>3, <2>1, <2>2, <3>1, <3>2, LastLook
  <2>3. CASE ~(Plain(kind) /\ timer = "fired" /\ judged.outcome = "waiting")
    <3>1. wait' = judged BY <1>1, <2>3 DEF LastCheck
    <3> QED BY <1>9, <2>1, <3>1
  <2> QED BY <2>2, <2>3
<1>11. WaitInv'
  <2>1. PendingOK(wait, cache)' /\ SoundOK(wait, cache)'
    BY <1>1, <1>10, WaitPrime DEF options, sendVars
  <2>2. UNCHANGED stable /\ Watch(wait', cache') BY <1>1 DEF options
  <2>3. (wait'.stabilizing => ~broken') /\ StableConfirmation'
    BY <1>10, <2>1, <2>2, WatchOK DEF Inv
  <2> QED BY <2>1, <2>3 DEF WaitInv
<1>12. /\ flights' \in [Flights -> Reads]
       /\ \A g \in Flights : Reading(g)' => Reading(g) /\ flights'[g].from = flights[g].from
  <2>1. lastResync \in Nat BY DEF Inv, Types, ReadType
  <2>2. flights' \in {[flights EXCEPT ![f] = Done],
                      [flights EXCEPT ![f] = Ended("steadying", lastResync)]}
    BY <1>1
  <2> QED BY <1>2, <2>1, <2>2, ReadEnds
<1>13. mail' \subseteq mail BY <1>1 DEF Newer
<1>14. KnownInv' /\ ReadInv'
  <2>1. Known' \subseteq Known BY <1>1, <1>3, <1>12, <1>13 DEF Known
  <2>2. cache' \in Dated /\ cache.at <= cache'.at BY <1>1, <1>3
  <2> QED BY <1>1, <1>12, <2>1, <2>2, KnownKept DEF Inv, Types, sendVars
<1>15. StageInv' BY <1>1, <1>2, <1>10 DEF Inv, StageInv, options, sendVars
<1>16. Types'
  <2>1. HistoryType' BY <1>1, WatchType DEF Inv, Types, HistoryType
  <2> QED BY <1>1, <1>3, <1>5, <1>10, <1>12, <1>13, <2>1 DEF Inv, Types, OptionType, DeviceType,
        StoreType, SendType, WaitType, ReadType, options, sendVars
<1> QED BY <1>11, <1>14, <1>15, <1>16 DEF Inv

-----------------------------------------------------------------------------
(* The theorems. *)

LEMMA InvInit == Init => Inv
<1> SUFFICES ASSUME Init PROVE Inv OBVIOUS
<1>0. 0 \in 0..MaxTime /\ 1 \in 0..MaxTime OBVIOUS
<1>1. wait = [outcome |-> "waiting", complete |-> FALSE, pending |-> NoEvidence,
              stabilizing |-> FALSE, proof |-> NoEvidence]
  BY DEF Init
<1>2. device \in Dated /\ device.at = 1 BY <1>0 DEF Init, Dated
<1>3. cache \in Dated /\ before = cache /\ (cache = device \/ cache.at = 0)
  BY <1>0, <1>2 DEF Init, Dated
<1>4. /\ mail \subseteq {[value |-> device.value, at |-> device.at, id |-> "none"]}
      /\ mail \subseteq Events
  BY <1>2 DEF Init, Dated, Events, CommandIds
<1>5. \A f \in Flights : flights[f] = NoFlight BY DEF Init
<1>6. NoFlight \in Reads BY <1>0 DEF NoFlight, Reads, Dated, Values
<1>7. Types
  <2>1. WaitType BY <1>1 DEF WaitType, Waits, Outcomes, Init
  <2>2. ReadType BY <1>6 DEF ReadType, Init
  <2>3. SendType BY <1>0, <1>3 DEF SendType, Init, Dated
  <2>4. OptionType BY DEF OptionType, Init
  <2> QED BY <1>0, <1>2, <1>3, <1>4, <2>1, <2>2, <2>3, <2>4
        DEF Types, DeviceType, StoreType, HistoryType, Init
<1>8. StageInv
  <2>1. stable => kind \in {"state", "light"} BY DEF Init
  <2>2. ~sending /\ ~wait.complete /\ timer = "off" BY <1>1 DEF Init
  <2>3. \A f \in Flights : flights[f].stage = "idle" BY <1>5 DEF NoFlight
  <2> QED BY <2>1, <2>2, <2>3 DEF StageInv
<1>9. \A f \in Flights : ~Reading(f) BY <1>5 DEF Reading, NoFlight
<1>10. \A x \in Known : x = cache \/ (x.at = device.at /\ x.value = device.value)
  BY <1>4, <1>9 DEF Known
<1>11. KnownInv
  <2>1. sentAt = 0 /\ now = 1 BY DEF Init
  <2>2. \A x \in Known : ~Sent(x) BY <2>1 DEF Sent
  <2>3. device.at <= now /\ sentAt <= now /\ before.at <= cache.at
    BY <1>2, <1>3, <2>1 DEF Dated
  <2>4. \A x, y \in Known : x.at = y.at => x.value = y.value BY <1>2, <1>3, <1>10
  <2>5. \A x \in Known : x.at <= device.at BY <1>2, <1>3, <1>10
  <2> QED BY <2>1, <2>2, <2>3, <2>4, <2>5 DEF KnownInv
<1>12. ReadInv BY <1>9 DEF ReadInv
<1>13. WaitInv
  BY <1>1 DEF WaitInv, PendingOK, SoundOK, StableConfirmation, Confirmed
<1> QED BY <1>7, <1>8, <1>11, <1>12, <1>13 DEF Inv

LEMMA InvNext == Inv /\ [Next]_vars => Inv'
<1> SUFFICES ASSUME Inv, [Next]_vars PROVE Inv' OBVIOUS
<1>1. ASSUME NEW f \in Flights, Recheck(f) \/ EndRead(f) \/ SteadyDone(f) PROVE Inv'
  <2>1. CASE EndRead(f)
    <3>1. CASE ReadDone(f, FALSE, cache) BY <3>1, ReadDoneStep
    <3>2. ASSUME NEW seen \in Seen(f), ReadDone(f, TRUE, seen) PROVE Inv'
      BY <3>2, ReadDoneStep
    <3> QED BY <2>1, <3>1, <3>2 DEF EndRead
  <2> QED BY <1>1, <2>1, RecheckStep, SteadyDoneStep
<1>2. CASE UNCHANGED vars
  BY <1>2 DEF Inv, Types, OptionType, DeviceType, StoreType, SendType, WaitType, ReadType,
     HistoryType, StageInv, KnownInv, ReadInv, WaitInv, PendingOK, SoundOK, StableConfirmation,
     Confirmed, Known, Reading, Sent, AcceptsEvidence, vars
<1> QED BY <1>1, <1>2, DeviceChangeStep, DeliverPushStep, InventoryStep, SendStep, ReceiveStep,
      CancelStep, StabilityElapsedStep, TimeoutStep DEF Next

\* Success is sound: when waitForPredicate confirms a command, the bridge's own
\* state of the target is the wanted one, a read or a dated event that is taken as
\* proof shows that the device had that state once the command had left, and
\* nothing contradicted it within the stability window.
THEOREM SuccessIsSound == Spec => []ConfirmationIsSound
<1>1. Inv => ConfirmationIsSound
  <2> SUFFICES ASSUME Inv PROVE ConfirmationIsSound OBVIOUS
  <2>1. TypeOK BY TypeParts DEF Inv
  <2>2. SoundOK(wait, cache) BY DEF Inv, WaitInv
  <2>3. ConfirmedHolds BY <2>2 DEF SoundOK, ConfirmedHolds, Confirmed, Unvalued
  <2>4. ConfirmedIsReal BY <2>2 DEF SoundOK, ConfirmedIsReal, Confirmed
  <2>5. StableConfirmation BY DEF Inv, WaitInv
  <2> QED BY <2>1, <2>3, <2>4, <2>5 DEF ConfirmationIsSound
<1> QED BY <1>1, InvInit, InvNext, PTL DEF Spec

\* Evidence that came before the executor's answer is not forgotten: from the
\* answer on, what waits in pendingEvidence runs through its stability window.
THEOREM NoEvidenceIsLost == Spec => []NoLostEvidence
<1>1. Inv => NoLostEvidence BY DEF Inv, WaitInv, PendingOK, NoLostEvidence
<1> QED BY <1>1, InvInit, InvNext, PTL DEF Spec
=============================================================================
