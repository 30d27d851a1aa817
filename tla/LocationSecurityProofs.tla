----------------------- MODULE LocationSecurityProofs -----------------------
(* What LocationSecurity promises, for any modes, reads and bounds.         *)
EXTENDS Arming, SequenceTheorems, FiniteSetTheorems, TLAPS

USE LocationSecurityAssumption

-----------------------------------------------------------------------------
(* Type correctness, by the parts of the state the actions share. *)

LocationType ==
  /\ history \in Seq(Mode) /\ Len(history) \in Version
  /\ mail \subseteq Version
CommandType ==
  /\ before \in Entries
  /\ command \in 0..MaxCommands /\ phase \in Phases
  /\ desired \in Mode /\ pending \in BOOLEAN
  /\ page \in Page /\ outcome \in Outcomes
RequestType ==
  /\ patch \in [Command -> [state : {"unsent", "sent", "applied", "refused"},
                            mode : Mode, sends : Nat]]
  /\ marker \in [Page -> 0..MaxCommands]
GhostType == held \in {"never", "begun", "sent"} /\ late \in BOOLEAN

(* What is under way is of the past: events, and what reads have seen, are  *)
(* of versions the location had, and a read was begun by a command.         *)
SeenInv ==
  /\ \A v \in mail : v <= Present
  /\ \A r \in Slot : read[r].seen <= Present /\ read[r].by <= command

\* TypeOK is the conjunction of its parts.
LEMMA TypeParts ==
  TypeOK <=> /\ LocationType /\ store \in Entries /\ CommandType /\ RequestType
             /\ read \in [Slot -> Reads] /\ GhostType
BY DEF TypeOK, LocationType, CommandType, RequestType, GhostType

\* The modes of the location are modes.
LEMMA HistoryModes ==
  ASSUME LocationType
  PROVE  /\ Present \in 1..MaxVersion /\ Present \in Nat
         /\ \A v \in 1..Present : history[v] \in Mode
         /\ history[1] \in Mode /\ history[Present] \in Mode
BY ElementOfSeq, LenProperties DEF LocationType, Version, Present

\* A change appends the mode, and its event is under way.
LEMMA BecomesAppends ==
  ASSUME LocationType, NEW m \in Mode, Becomes(m)
  PROVE  /\ Present \in Nat /\ Present' \in Nat /\ Present <= Present'
         /\ \A v \in 1..Present : history'[v] = history[v]
         /\ \/ history' = history /\ mail' = mail /\ held' = held
            \/ /\ Present' = Present + 1 /\ Present' \in Version
               /\ history'[Present'] = m /\ mail' = mail \cup {Present'}
<1>1. CASE m = history[Present]
  BY <1>1, HistoryModes DEF Becomes, Present
<1>2. CASE m # history[Present]
  <2>1. history' = Append(history, m) /\ Present \in 1..MaxVersion /\ Present < MaxVersion
        /\ mail' = mail \cup {Present + 1}
    BY <1>2, HistoryModes DEF Becomes
  <2>2. Present' = Present + 1 /\ history'[Present'] = m
        /\ \A v \in 1..Present : history'[v] = history[v]
    BY <2>1, AppendProperties DEF LocationType, Present
  <2>3. Present \in Nat /\ Present' \in Version /\ Present' \in Nat /\ Present <= Present'
    BY <2>1, <2>2 DEF Version
  <2>4. mail' = mail \cup {Present'}
    BY <2>1, <2>2
  <2> QED BY <2>2, <2>3, <2>4, Zenon
<1> QED BY <1>1, <1>2

\* It is noted when the change brings the mode a command wants, and nothing noted is lost.
LEMMA BecomesNoted ==
  ASSUME LocationType, NEW m \in Mode, Becomes(m), m # history[Present]
  PROVE  /\ m = desired /\ Listens => held' = "sent"
         /\ m = desired /\ phase = "precheck" => held' # "never"
         /\ held = "sent" /\ phase # "precheck" => held' = "sent"
         /\ held # "never" => held' # "never"
BY DEF Becomes, Listens, Waits

\* A change keeps the location's part of the types.
LEMMA BecomesTypes ==
  ASSUME LocationType, GhostType, NEW m \in Mode, Becomes(m)
  PROVE  LocationType' /\ held' \in {"never", "begun", "sent"}
<1>1. history' \in Seq(Mode)
  BY AppendProperties DEF Becomes, LocationType
<1>2. Len(history') \in Version /\ mail' \subseteq Version
  BY BecomesAppends DEF LocationType, Present
<1>3. held' \in {"never", "begun", "sent"}
  BY DEF Becomes, GhostType
<1> QED BY <1>1, <1>2, <1>3 DEF LocationType

\* Evidence that is heard ends the command or is remembered.
LEMMA ResolveTypes ==
  ASSUME CommandType, NEW evidence \in BOOLEAN, Resolve(evidence)
  PROVE  CommandType'
BY DEF CommandType, Resolve, End, Waits, Phases, Outcomes

\* What the subscriber makes of an entry is a truth value.
LEMMA HeardBoolean ==
  ASSUME CommandType, NEW entry
  PROVE  Heard(entry) \in BOOLEAN
BY DEF Heard, CommandType

\* A published entry.
LEMMA ObserveTypes ==
  ASSUME CommandType, NEW entry \in Entries, Observe(entry)
  PROVE  CommandType' /\ store' \in Entries
<1>1. CASE Listens
  <2>1. Resolve(Heard(entry)) BY <1>1 DEF Observe
  <2> QED BY <2>1, HeardBoolean, ResolveTypes DEF Observe
<1>2. CASE ~Listens
  BY <1>2 DEF Observe, commandVars, CommandType
<1> QED BY <1>1, <1>2

\* A dispatch begins.
LEMMA DispatchTypes ==
  ASSUME CommandType, NEW entry \in Entries, NEW m \in Mode,
         NEW sofar \in {"never", "begun", "sent"}, Dispatch(entry, m, sofar),
         command' \in 0..MaxCommands, desired' \in Mode
  PROVE  CommandType' /\ GhostType'
<1>1. late' \in BOOLEAN BY DEF Dispatch, StillUnderWay
<1>2. held' \in {"never", "begun", "sent"} BY DEF Dispatch
<1>3. CommandType' BY DEF Dispatch, CommandType, Phases, Page, Outcomes
<1> QED BY <1>1, <1>2, <1>3 DEF GhostType

\* A read that is idle, and one that begins.
LEMMA ReadTypes ==
  ASSUME TypeOK
  PROVE  /\ Idle \in Reads
         /\ \A c \in 0..MaxCommands : \A purpose \in {"precheck", "wait"} :
              Reading(c, purpose) \in Reads
<1>1. Idle \in Reads
  BY TypeParts, HistoryModes DEF Idle, Reads, Entries, Version
<1>2. ASSUME NEW c \in 0..MaxCommands, NEW purpose \in {"precheck", "wait"}
      PROVE  Reading(c, purpose) \in Reads
  BY TypeParts DEF Reading, Reads, Version
<1> QED BY <1>1, <1>2

\* A read that ends, as the three cases of who asked for it.
LEMMA ReadEndsTypes ==
  ASSUME TypeOK, SeenInv, NEW r \in Slot, ReadEnds(r)
  PROVE  TypeOK'
<1> DEFINE x == read[r]
           entry == IF Accepted(x) THEN Entry(x) ELSE store
           proof == Accepted(x) /\ x.by = command /\ history[x.seen] = desired
<1>1. LocationType /\ store \in Entries /\ CommandType /\ RequestType /\ GhostType
      /\ read \in [Slot -> Reads]
  BY TypeParts
<1> HIDE DEF entry, proof
<1>2. /\ x.stage = "read" /\ read' = [read EXCEPT ![r] = Idle] /\ store' = entry
      /\ \/ /\ phase = "precheck" /\ x.by = command
            /\ IF proof
               THEN End("already") /\ UNCHANGED <<pending, late, held>>
               ELSE /\ Dispatch(entry, desired, held) /\ UNCHANGED <<command, desired>>
         \/ /\ Listens
            /\ Resolve((IF entry = store THEN pending ELSE Heard(entry))
                       \/ (proof /\ x.for = "wait"))
            /\ UNCHANGED ghosts
         \/ /\ ~Listens /\ ~(phase = "precheck" /\ x.by = command)
            /\ UNCHANGED <<commandVars, ghosts>>
      /\ UNCHANGED <<history, mail, requestVars>>
  BY DEF ReadEnds, entry, proof
<1>3. read' \in [Slot -> Reads]
  BY <1>1, <1>2, ReadTypes
<1>4. LocationType' /\ RequestType'
  BY <1>1, <1>2 DEF LocationType, requestVars, RequestType
<1>5. entry \in Entries
  <2>1. x.seen \in 0..MaxVersion /\ history[x.seen] \in Mode
    <3>1. x \in Reads BY <1>1
    <3>2. x.seen \in Version BY <3>1 DEF Reads
    <3>3. x.seen <= Present BY DEF SeenInv
    <3> QED BY <1>1, <3>2, <3>3, HistoryModes DEF Version
  <2>2. [mode |-> history[x.seen], at |-> IF x.dated THEN x.seen ELSE store.at] \in Entries
    BY <1>1, <2>1 DEF Entries
  <2>3. Entry(x) \in Entries
    BY <1>1, <2>2 DEF Entry
  <2> QED BY <1>1, <2>3 DEF entry
<1>6. CommandType' /\ GhostType'
  <2>1. CASE phase = "precheck" /\ x.by = command /\ proof /\ End("already")
             /\ UNCHANGED <<pending, late, held>>
    BY <1>1, <2>1 DEF End, CommandType, Phases, Outcomes, GhostType
  <2>2. CASE Dispatch(entry, desired, held) /\ UNCHANGED <<command, desired>>
    <3>1. desired \in Mode /\ held \in {"never", "begun", "sent"}
          /\ command' \in 0..MaxCommands /\ desired' \in Mode
      BY <1>1, <2>2 DEF CommandType, GhostType
    <3> QED BY <1>1, <1>5, <2>2, <3>1, DispatchTypes
  <2>3. CASE /\ Resolve((IF entry = store THEN pending ELSE Heard(entry))
                         \/ (proof /\ x.for = "wait"))
             /\ UNCHANGED ghosts
    <3>1. ((IF entry = store THEN pending ELSE Heard(entry)) \/ (proof /\ x.for = "wait"))
            \in BOOLEAN
      OBVIOUS
    <3> QED BY <1>1, <2>3, <3>1, ResolveTypes DEF ghosts, GhostType
  <2>4. CASE UNCHANGED <<commandVars, ghosts>>
    BY <1>1, <2>4 DEF commandVars, CommandType, ghosts, GhostType
  <2> QED BY <1>2, <2>1, <2>2, <2>3, <2>4
<1> QED BY <1>2, <1>3, <1>4, <1>5, <1>6
        DEF TypeOK, LocationType, CommandType, RequestType, GhostType

\* Every step keeps the types.
LEMMA TypeStep ==
  ASSUME TypeOK, SeenInv, [Next]_vars
  PROVE  TypeOK'
<1> DEFINE Parts == /\ LocationType /\ store \in Entries /\ CommandType /\ RequestType
                    /\ read \in [Slot -> Reads] /\ GhostType
<1>0. Parts
  BY TypeParts
<1> SUFFICES Parts'
  BY TypeParts, PTL
<1>1. CASE SomebodyChanges
  <2>1. PICK m \in Mode : Becomes(m) BY <1>1 DEF SomebodyChanges
  <2>2. LocationType' /\ held' \in {"never", "begun", "sent"} BY <1>0, <2>1, BecomesTypes
  <2> QED BY <1>0, <1>1, <2>2
          DEF SomebodyChanges, commandVars, requestVars, CommandType, RequestType, GhostType
<1>2. ASSUME NEW c \in Command, Apply(c) PROVE Parts'
  <2>1. Becomes(patch[c].mode) /\ patch[c].mode \in Mode BY <1>0, <1>2 DEF Apply, RequestType
  <2>2. LocationType' /\ held' \in {"never", "begun", "sent"} BY <1>0, <2>1, BecomesTypes
  <2>3. RequestType' BY <1>0, <1>2 DEF Apply, RequestType
  <2> QED BY <1>0, <1>2, <2>2, <2>3 DEF Apply, commandVars, CommandType, GhostType
<1>3. CASE OtherInventory
  <2>1. CommandType' BY <1>0, <1>3, HeardBoolean, ResolveTypes DEF OtherInventory
  <2> QED BY <1>0, <1>3, <2>1
          DEF OtherInventory, LocationType, requestVars, RequestType, ghosts, GhostType
<1>4. ASSUME NEW v \in Version, Push(v) PROVE Parts'
  <2>1. history[v] \in Mode /\ v \in 0..MaxVersion
    BY <1>0, <1>4, HistoryModes DEF Push, SeenInv, Version
  <2>2. CommandType' /\ store' \in Entries
    BY <1>0, <1>4, <2>1, ObserveTypes DEF Push, Entries, commandVars, CommandType
  <2> QED BY <1>0, <1>4, <2>2
          DEF Push, LocationType, requestVars, RequestType, ghosts, GhostType
<1>5. ASSUME NEW dated \in BOOLEAN, NEW v \in Version, Snapshot(v, dated) PROVE Parts'
  <2>1. v \in mail \cup {Present} /\ v <= Present
    BY <1>0, <1>5, HistoryModes DEF Snapshot, SeenInv
  <2>2. history[v] \in Mode /\ v \in 0..MaxVersion
    BY <1>0, <2>1, HistoryModes DEF Version
  <2>3. CommandType' /\ store' \in Entries
    BY <1>0, <1>5, <2>2, ObserveTypes DEF Snapshot, Entries
  <2> QED BY <1>0, <1>5, <2>3
          DEF Snapshot, LocationType, requestVars, RequestType, ghosts, GhostType
<1>6. ASSUME NEW r \in Slot, NEW dated \in BOOLEAN, Answer(r, dated) PROVE Parts'
  <2> DEFINE x == read[r]
             got(next) == [stage |-> next, by |-> x.by, for |-> x.for,
                            before |-> x.before, seen |-> Present, dated |-> dated]
  <2>1. got("second") \in Reads /\ got("read") \in Reads
    BY <1>0, HistoryModes DEF Reads, Version
  <2>2. Idle \in Reads BY ReadTypes
  <2>3. read' \in [Slot -> Reads]
    BY <1>0, <1>6, <2>1, <2>2 DEF Answer
  <2> QED BY <1>0, <1>6, <2>3
          DEF Answer, LocationType, commandVars, CommandType, requestVars, RequestType,
              ghosts, GhostType
<1>7. ASSUME NEW r \in Slot, ReadFails(r) PROVE Parts'
  BY <1>0, <1>7, ReadTypes DEF ReadFails, LocationType, commandVars, CommandType,
     requestVars, RequestType, ghosts, GhostType
<1>8. ASSUME NEW r \in Slot, ReadEnds(r) PROVE Parts'
  BY <1>8, ReadEndsTypes, TypeParts, PTL
<1>9. ASSUME NEW r \in Slot, Recheck(r) PROVE Parts'
  BY <1>0, <1>9, ReadTypes DEF Recheck, LocationType, commandVars, CommandType,
     requestVars, RequestType, ghosts, GhostType
<1>10. CASE Unavailable
  BY <1>0, <1>10 DEF Unavailable, Proceed, End, LocationType, CommandType, Phases, Outcomes,
     requestVars, RequestType, ghosts, GhostType
<1>11. CASE OpenPage
  BY <1>0, <1>11 DEF OpenPage, LocationType, CommandType, Phases, Page, RequestType,
     ghosts, GhostType
<1>12. CASE Send
  <2>1. CASE marker[page] # 0
    BY <1>0, <1>12, <2>1 DEF Send, End, LocationType, CommandType, Phases, Outcomes,
       requestVars, RequestType, ghosts, GhostType
  <2>2. CASE marker[page] = 0
    <3>1. marker' \in [Page -> 0..MaxCommands]
      BY <1>0, <1>12, <2>2 DEF Send, CommandType, RequestType
    <3>2. patch' \in [Command -> [state : {"unsent", "sent", "applied", "refused"},
                                  mode : Mode, sends : Nat]]
      <4> DEFINE asked == [state |-> "sent", mode |-> desired, sends |-> patch[command].sends + 1]
      <4>1. patch' = [patch EXCEPT ![command] = asked] BY <1>12, <2>2 DEF Send
      <4>2. command \in Command => asked \in [state : {"unsent", "sent", "applied", "refused"},
                                             mode : Mode, sends : Nat]
        BY <1>0 DEF RequestType, CommandType
      <4> HIDE DEF asked
      <4> QED BY <1>0, <4>1, <4>2 DEF RequestType
    <3> QED BY <1>0, <1>12, <2>2, <3>1, <3>2 DEF Send, Proceed, LocationType, CommandType,
               Phases, RequestType, ghosts, GhostType
  <2> QED BY <2>1, <2>2, <1>0, <1>12 DEF RequestType
<1>13. CASE GiveUp
  BY <1>0, <1>13 DEF GiveUp, AwaitConfirmation, LocationType, CommandType, Phases, Outcomes,
     requestVars, RequestType, ghosts, GhostType
<1>14. ASSUME NEW p \in Page, LoseContext(p) PROVE Parts'
  <2>1. marker' \in [Page -> 0..MaxCommands] BY <1>0, <1>14 DEF LoseContext, RequestType
  <2>2. CommandType'
    BY <1>0, <1>14 DEF LoseContext, AwaitConfirmation, commandVars, CommandType, Phases,
       Outcomes
  <2> QED BY <1>0, <1>14, <2>1, <2>2
          DEF LoseContext, LocationType, RequestType, ghosts, GhostType
<1>15. ASSUME NEW p \in Page, NEW answer \in {"accepted", "refused", "unclear"},
              Reply(p, answer)
       PROVE  Parts'
  <2>1. marker' \in [Page -> 0..MaxCommands] BY <1>0, <1>15 DEF Reply, RequestType
  <2>2. patch' \in [Command -> [state : {"unsent", "sent", "applied", "refused"},
                                mode : Mode, sends : Nat]]
    BY <1>0, <1>15 DEF Reply, RequestType
  <2>3. CommandType'
    BY <1>0, <1>15 DEF Reply, AwaitConfirmation, End, commandVars, CommandType, Phases,
       Outcomes
  <2> QED BY <1>0, <1>15, <2>1, <2>2, <2>3
          DEF Reply, LocationType, RequestType, ghosts, GhostType
<1>16. ASSUME NEW m \in Mode, Start(m) PROVE Parts'
  <2>1. LocationType' /\ store' \in Entries /\ RequestType'
    BY <1>0, <1>16 DEF Start, LocationType, requestVars, RequestType
  <2>2. command' \in 0..MaxCommands /\ desired' \in Mode
    BY <1>0, <1>16 DEF Start, CommandType
  <2>3. read' \in [Slot -> Reads]
    BY <1>0, <1>16, <2>2, ReadTypes DEF Start
  <2>4. CommandType' /\ GhostType'
    <3>1. CASE store.mode = m
      BY <1>0, <1>16, <2>2, <3>1 DEF Start, CommandType, Phases, Outcomes, GhostType
    <3>2. CASE store.mode # m
      BY <1>0, <1>16, <2>2, <3>2, DispatchTypes DEF Start
    <3> QED BY <3>1, <3>2
  <2> QED BY <2>1, <2>3, <2>4
<1>17. CASE PrecheckEnds
  <2>1. CommandType' /\ GhostType'
    BY <1>0, <1>17, DispatchTypes DEF PrecheckEnds, CommandType, GhostType
  <2> QED BY <1>0, <1>17, <2>1
          DEF PrecheckEnds, LocationType, requestVars, RequestType
<1>18. CASE Timeout
  BY <1>0, <1>18 DEF Timeout, End, LocationType, CommandType, Phases, Outcomes,
     requestVars, RequestType, ghosts, GhostType
<1>19. CASE UNCHANGED vars
  BY <1>0, <1>19 DEF vars, LocationType, commandVars, CommandType, requestVars, RequestType,
     ghosts, GhostType
<1> QED BY <1>1, <1>2, <1>3, <1>4, <1>5, <1>6, <1>7, <1>8, <1>9, <1>10, <1>11, <1>12,
           <1>13, <1>14, <1>15, <1>16, <1>17, <1>18, <1>19
        DEF Next, Cloud, Store, ReadSteps, Executor

-----------------------------------------------------------------------------
(* What is under way is of the past. *)

\* Reads that go on see nothing of the future, and time does not run backwards.
LEMMA SeenKept ==
  ASSUME SeenInv, Present' >= Present, command' >= command,
         Present \in Nat, Present' \in Nat, command \in Nat, command' \in Nat,
         \A r \in Slot : read[r].seen \in Nat /\ read[r].by \in Nat,
         \A v \in mail : v \in Nat,
         \A v \in mail' : v \in mail \/ v = Present',
         \A r \in Slot : \/ read'[r] = read[r]
                         \/ read'[r].seen <= Present' /\ read'[r].by <= command'
  PROVE  SeenInv'
<1>1. \A v \in mail' : v <= Present'
  BY DEF SeenInv
<1>2. ASSUME NEW r \in Slot PROVE read'[r].seen <= Present' /\ read'[r].by <= command'
  BY DEF SeenInv
<1> QED BY <1>1, <1>2 DEF SeenInv

\* Every step leaves it so.
LEMMA SeenStep ==
  ASSUME TypeOK, SeenInv, [Next]_vars
  PROVE  SeenInv'
<1>0. /\ LocationType /\ store \in Entries /\ CommandType /\ RequestType
      /\ read \in [Slot -> Reads] /\ GhostType
  BY TypeParts
<1>1. /\ Present \in Nat /\ Present >= 1 /\ command \in Nat
      /\ \A r \in Slot : read[r].seen \in Nat /\ read[r].by \in Nat
      /\ \A v \in mail : v \in Nat
  <2>1. ASSUME NEW r \in Slot PROVE read[r].seen \in Nat /\ read[r].by \in Nat
    <3>1. read[r] \in Reads BY <1>0
    <3> QED BY <3>1 DEF Reads, Version
  <2> QED BY <1>0, <2>1, HistoryModes DEF LocationType, CommandType, Version
<1>2. /\ Idle.seen <= Present /\ Idle.by <= command
      /\ \A c \in Nat, purpose \in {"precheck", "wait"} :
           Reading(c, purpose).seen <= Present /\ Reading(c, purpose).by = c
  BY <1>1 DEF Idle, Reading
<1>3. CASE /\ UNCHANGED <<history, command>> /\ mail' \subseteq mail
           /\ \A r \in Slot : \/ read'[r] = read[r]
                              \/ read'[r].seen <= Present /\ read'[r].by <= command
  <2>1. Present' = Present BY <1>3 DEF Present
  <2> QED BY <1>1, <1>3, <2>1, SeenKept
<1>4. ASSUME NEW m \in Mode, Becomes(m), UNCHANGED <<command, read>> PROVE SeenInv'
  <2>1. Present' \in Nat /\ Present' >= Present /\ \A v \in mail' : v \in mail \/ v = Present'
    BY <1>0, <1>4, BecomesAppends
  <2> QED BY <1>1, <1>4, <2>1, SeenKept
<1>5. CASE SomebodyChanges
  BY <1>4, <1>5 DEF SomebodyChanges, commandVars
<1>6. ASSUME NEW c \in Command, Apply(c) PROVE SeenInv'
  <2>1. patch[c].mode \in Mode BY <1>0 DEF RequestType
  <2> QED BY <1>4, <1>6, <2>1 DEF Apply, commandVars
<1>7. CASE OtherInventory
  BY <1>3, <1>7 DEF OtherInventory, Resolve, End
<1>8. ASSUME NEW entry, Observe(entry) PROVE UNCHANGED command
  BY <1>8 DEF Observe, Resolve, End, commandVars
<1>9. ASSUME NEW v \in Version, Push(v) PROVE SeenInv'
  <2>1. UNCHANGED command BY <1>8, <1>9 DEF Push, commandVars
  <2> QED BY <1>3, <1>9, <2>1 DEF Push
<1>10. ASSUME NEW dated \in BOOLEAN, NEW v \in Version, Snapshot(v, dated) PROVE SeenInv'
  BY <1>3, <1>8, <1>10 DEF Snapshot
<1>11. ASSUME NEW r \in Slot, NEW dated \in BOOLEAN, Answer(r, dated) PROVE SeenInv'
  <2> DEFINE x == read[r]
             got(next) == [stage |-> next, by |-> x.by, for |-> x.for,
                            before |-> x.before, seen |-> Present, dated |-> dated]
  <2>1. \A next : got(next).seen <= Present /\ got(next).by <= command
    BY <1>1 DEF SeenInv
  <2>2. \E new \in {got("second"), got("read"), Idle} : read' = [read EXCEPT ![r] = new]
    BY <1>11 DEF Answer
  <2>3. \A s \in Slot : read'[s] = read[s] \/ (read'[s].seen <= Present /\ read'[s].by <= command)
    BY <1>0, <1>2, <2>1, <2>2
  <2> QED BY <1>3, <1>11, <2>3 DEF Answer, commandVars
<1>12. ASSUME NEW r \in Slot, ReadFails(r) PROVE SeenInv'
  BY <1>0, <1>2, <1>3, <1>12 DEF ReadFails, commandVars
<1>13. ASSUME NEW r \in Slot, ReadEnds(r) PROVE SeenInv'
  <2>1. UNCHANGED <<history, mail, command>> /\ read' = [read EXCEPT ![r] = Idle]
    BY <1>13 DEF ReadEnds, End, Resolve, Dispatch, commandVars
  <2> QED BY <1>0, <1>2, <1>3, <2>1
<1>14. ASSUME NEW r \in Slot, Recheck(r) PROVE SeenInv'
  BY <1>0, <1>1, <1>2, <1>3, <1>14 DEF Recheck, commandVars
<1>15. CASE Unavailable \/ OpenPage \/ Send \/ GiveUp \/ PrecheckEnds \/ Timeout \/ UNCHANGED vars
            \/ \E p \in Page : LoseContext(p) \/ \E answer \in {"accepted", "refused", "unclear"} :
                                                   Reply(p, answer)
  BY <1>3, <1>15 DEF Unavailable, OpenPage, Send, GiveUp, PrecheckEnds, Timeout, LoseContext,
     Reply, Proceed, End, AwaitConfirmation, Dispatch, commandVars, vars
<1>16. ASSUME NEW m \in Mode, Start(m) PROVE SeenInv'
  <2>1. command' = command + 1 /\ Present' = Present /\ mail' = mail
    BY <1>16 DEF Start, Present
  <2>2. \/ read' = read
        \/ \E r \in Slot : read' = [read EXCEPT ![r] = Reading(command + 1, "precheck")]
    BY <1>16 DEF Start
  <2>3. \A s \in Slot : read'[s] = read[s] \/ (read'[s].seen <= Present' /\ read'[s].by <= command')
    BY <1>0, <1>1, <1>2, <2>1, <2>2
  <2> QED BY <1>1, <2>1, <2>3, SeenKept
<1> QED BY <1>5, <1>6, <1>7, <1>9, <1>10, <1>11, <1>12, <1>13, <1>14, <1>15, <1>16
        DEF Next, Cloud, Store, ReadSteps, Executor

-----------------------------------------------------------------------------
(* What the store holds. *)

(* The store is not ahead of the location, and what it dates by the last    *)
(* change is that change; before the first change there is one mode only.   *)
(* The event of the last change is under way, or the store knows of it.  A  *)
(* read has seen no less than the entry it will be compared with.           *)
Faithful(entry) ==
  /\ entry.at <= Present
  /\ entry.at = Present \/ Present = 1 => entry.mode = history[Present]
Past(x) ==
  /\ x.before.at <= Present
  /\ x.stage \in {"second", "read"} => x.before.at <= x.seen
StoreInv ==
  /\ Faithful(store)
  /\ Present \in mail \/ store.at = Present \/ Present = 1
  /\ \A r \in Slot : Past(read[r])

\* Reads begin and go on while the location and the store rest.
LEMMA StoreKept ==
  ASSUME StoreInv, UNCHANGED <<history, mail, store>>,
         \A r \in Slot : read'[r] = read[r] \/ Past(read'[r])
  PROVE  StoreInv'
<1>1. Present' = Present BY DEF Present
<1>2. Faithful(store)' BY <1>1 DEF StoreInv, Faithful
<1>3. \A r \in Slot : Past(read[r])' BY <1>1 DEF StoreInv, Past
<1> QED BY <1>1, <1>2, <1>3 DEF StoreInv

\* The store takes a faithful entry, not dated earlier, and the event of the last change is
\* only gone when the entry is dated by it.
LEMMA StoreTakes ==
  ASSUME StoreInv, store \in Entries, Present \in Nat, history' = history,
         NEW entry \in Entries, Faithful(entry), store' = entry, entry.at >= store.at,
         Present \in mail => Present \in mail' \/ entry.at = Present,
         \A r \in Slot : read'[r] = read[r] \/ Past(read'[r])
  PROVE  StoreInv'
<1>1. Present' = Present BY DEF Present
<1>2. Faithful(store)' BY <1>1 DEF Faithful
<1>3. \A r \in Slot : Past(read[r])' BY <1>1 DEF StoreInv, Past
<1>4. Present \in mail' \/ entry.at = Present \/ Present = 1
  BY DEF StoreInv, Faithful, Entries
<1> QED BY <1>1, <1>2, <1>3, <1>4 DEF StoreInv

\* The location changes its mode.
LEMMA StoreBecomes ==
  ASSUME TypeOK, StoreInv, NEW m \in Mode, Becomes(m), UNCHANGED <<store, read>>
  PROVE  StoreInv'
<1>1. LocationType /\ store \in Entries /\ read \in [Slot -> Reads] BY TypeParts
<1>2. /\ Present \in Nat /\ Present' \in Nat /\ Present >= 1
      /\ \/ history' = history /\ mail' = mail /\ held' = held
         \/ Present' = Present + 1 /\ mail' = mail \cup {Present'}
  BY <1>1, BecomesAppends, HistoryModes
<1>3. CASE history' = history /\ mail' = mail
  BY <1>3, StoreKept
<1>4. CASE Present' = Present + 1 /\ mail' = mail \cup {Present'}
  <2>1. store.at \in Nat /\ \A r \in Slot : read[r].before.at \in Nat
    BY <1>1 DEF Entries, Reads
  <2>2. Faithful(store)' BY <1>2, <1>4, <2>1 DEF StoreInv, Faithful
  <2>3. \A r \in Slot : Past(read[r])' BY <1>2, <1>4, <2>1 DEF StoreInv, Past
  <2> QED BY <1>4, <2>2, <2>3 DEF StoreInv
<1> QED BY <1>2, <1>3, <1>4

\* An accepted read leaves a faithful entry.
LEMMA EntryFaithful ==
  ASSUME TypeOK, SeenInv, StoreInv, NEW r \in Slot, read[r].stage = "read", Accepted(read[r])
  PROVE  LET entry == Entry(read[r])
         IN  entry \in Entries /\ Faithful(entry) /\ entry.at >= store.at
<1> DEFINE x == read[r]
<1>1. LocationType /\ store \in Entries /\ x \in Reads BY TypeParts
<1>2. /\ Present \in 1..MaxVersion /\ store.at \in Nat /\ store.at <= Present
      /\ x.seen \in Version /\ x.seen <= Present /\ x.dated \in BOOLEAN
  BY <1>1, HistoryModes DEF Entries, Reads, SeenInv, StoreInv, Faithful
<1>3. x.before = store /\ store.at <= x.seen
  BY DEF Accepted, Overtaken, StoreInv, Past
<1>4. history[x.seen] \in Mode BY <1>1, <1>2, HistoryModes DEF Version
<1>5. CASE Entry(x) = store BY <1>1, <1>2, <1>5 DEF StoreInv
<1>6. CASE Entry(x) = [mode |-> history[x.seen], at |-> IF x.dated THEN x.seen ELSE store.at]
  <2>1. Entry(x) \in Entries BY <1>1, <1>2, <1>4, <1>6 DEF Entries, Version
  <2>2. Entry(x).at >= store.at /\ Entry(x).at <= Present BY <1>2, <1>3, <1>6
  <2>3. Entry(x).at = Present \/ Present = 1 => x.seen = Present
    BY <1>2, <1>3, <1>6 DEF Version
  <2> QED BY <1>6, <2>1, <2>2, <2>3 DEF Faithful
<1> QED BY <1>5, <1>6 DEF Entry

\* Every step leaves it so.
LEMMA StoreStep ==
  ASSUME TypeOK, SeenInv, StoreInv, [Next]_vars
  PROVE  StoreInv'
<1>0. LocationType /\ store \in Entries /\ RequestType /\ read \in [Slot -> Reads]
  BY TypeParts
<1>1. Present \in 1..MaxVersion /\ store.at \in Nat /\ store.at <= Present
  BY <1>0, HistoryModes DEF Entries, StoreInv, Faithful
<1>2. Past(Idle) /\ \A c, purpose : Past(Reading(c, purpose))
  BY <1>1 DEF Past, Idle, Reading
<1>3. CASE UNCHANGED <<history, mail, store, read>>
  BY <1>3, StoreKept
<1>4. CASE SomebodyChanges
  BY <1>4, StoreBecomes DEF SomebodyChanges
<1>5. ASSUME NEW c \in Command, Apply(c) PROVE StoreInv'
  <2>1. patch[c].mode \in Mode BY <1>0 DEF RequestType
  <2> QED BY <1>5, <2>1, StoreBecomes DEF Apply
<1>6. ASSUME NEW v \in Version, Push(v) PROVE StoreInv'
  <2>1. v \in mail /\ mail' = mail \ {v} /\ v <= Present /\ history' = history /\ read' = read
    BY <1>6 DEF Push, SeenInv
  <2>2. CASE v > store.at
    <3> DEFINE entry == [mode |-> history[v], at |-> v]
    <3>1. store' = entry BY <1>6, <2>2 DEF Push, Observe
    <3>2. entry \in Entries
      BY <1>0, <1>1, <2>1, HistoryModes DEF Entries, Version
    <3>3. Faithful(entry) BY <1>1, <2>1 DEF Faithful, Version
    <3>4. entry.at >= store.at BY <1>1, <2>2 DEF Version
    <3>5. Present \in mail => Present \in mail' \/ entry.at = Present BY <2>1
    <3>6. Present \in Nat BY <1>1
    <3> HIDE DEF entry
    <3> QED BY <1>0, <2>1, <3>1, <3>2, <3>3, <3>4, <3>5, <3>6, StoreTakes
  <2>3. CASE ~(v > store.at)
    <3>1. store' = store BY <1>6, <2>3 DEF Push
    <3>2. Present \in mail => Present \in mail' \/ store.at = Present
      BY <1>1, <2>1, <2>3 DEF Version
    <3>3. Faithful(store) /\ store.at >= store.at /\ Present \in Nat BY <1>1 DEF StoreInv
    <3> QED BY <1>0, <2>1, <3>1, <3>2, <3>3, StoreTakes
  <2> QED BY <2>2, <2>3
<1>7. ASSUME NEW dated \in BOOLEAN, NEW v \in Version, Snapshot(v, dated) PROVE StoreInv'
  <2> DEFINE entry == [mode |-> history[v], at |-> IF dated THEN v ELSE 0]
  <2>1. /\ v \in mail \cup {Present} /\ (IF dated THEN v > store.at ELSE store.at = 0)
        /\ store' = entry /\ UNCHANGED <<history, mail, read>>
    BY <1>7 DEF Snapshot, Observe
  <2>2. v <= Present BY <1>1, <2>1 DEF SeenInv
  <2>3. entry \in Entries /\ entry.at >= store.at
    BY <1>0, <1>1, <2>1, <2>2, HistoryModes DEF Entries, Version
  <2>4. Faithful(entry) BY <1>1, <2>1, <2>2 DEF Faithful, Version
  <2>5. Present \in Nat BY <1>1
  <2> HIDE DEF entry
  <2> QED BY <1>0, <2>1, <2>3, <2>4, <2>5, StoreTakes
<1>8. ASSUME NEW r \in Slot, NEW dated \in BOOLEAN, Answer(r, dated) PROVE StoreInv'
  <2> DEFINE x == read[r]
             got(next) == [stage |-> next, by |-> x.by, for |-> x.for,
                            before |-> x.before, seen |-> Present, dated |-> dated]
  <2>1. Past(got("second")) /\ Past(got("read")) BY DEF StoreInv, Past
  <2>2. \E new \in {got("second"), got("read"), Idle} : read' = [read EXCEPT ![r] = new]
    BY <1>8 DEF Answer
  <2>3. \A s \in Slot : read'[s] = read[s] \/ Past(read'[s])
    BY <1>0, <1>2, <2>1, <2>2
  <2> QED BY <1>8, <2>3, StoreKept DEF Answer
<1>9. ASSUME NEW r \in Slot, ReadFails(r) \/ Recheck(r) PROVE StoreInv'
  <2>1. \E new : Past(new) /\ read' = [read EXCEPT ![r] = new]
    BY <1>2, <1>9 DEF ReadFails, Recheck
  <2>2. \A s \in Slot : read'[s] = read[s] \/ Past(read'[s]) BY <1>0, <2>1
  <2> QED BY <1>9, <2>2, StoreKept DEF ReadFails, Recheck
<1>10. ASSUME NEW m \in Mode, Start(m) PROVE StoreInv'
  <2>1. read' = read \/ \E r \in Slot : read' = [read EXCEPT ![r] = Reading(command + 1, "precheck")]
    BY <1>10 DEF Start
  <2>2. \A s \in Slot : read'[s] = read[s] \/ Past(read'[s]) BY <1>0, <1>2, <2>1
  <2> QED BY <1>10, <2>2, StoreKept DEF Start
<1>11. ASSUME NEW r \in Slot, ReadEnds(r) PROVE StoreInv'
  <2>1. /\ read[r].stage = "read" /\ read' = [read EXCEPT ![r] = Idle]
        /\ store' = IF Accepted(read[r]) THEN Entry(read[r]) ELSE store
        /\ UNCHANGED <<history, mail>>
    BY <1>11 DEF ReadEnds
  <2>2. \A s \in Slot : read'[s] = read[s] \/ Past(read'[s]) BY <1>0, <1>2, <2>1
  <2>3. CASE Accepted(read[r])
    <3>1. Present \in Nat /\ (Present \in mail => Present \in mail') BY <1>1, <2>1
    <3> QED BY <1>0, <2>1, <2>2, <2>3, <3>1, EntryFaithful, StoreTakes
  <2>4. CASE ~Accepted(read[r]) BY <2>1, <2>2, <2>4, StoreKept
  <2> QED BY <2>3, <2>4
<1>12. CASE \/ OtherInventory \/ Executor \/ PrecheckEnds \/ Timeout \/ UNCHANGED vars
  BY <1>3, <1>12 DEF OtherInventory, Executor, PrecheckEnds, Timeout, vars, Unavailable,
     OpenPage, Send, GiveUp, LoseContext, Reply
<1> QED BY <1>4, <1>5, <1>6, <1>7, <1>8, <1>9, <1>10, <1>11, <1>12
        DEF Next, Cloud, Store, ReadSteps

-----------------------------------------------------------------------------
(* Requests. *)

(* A request is sent in one phase, which is not entered again, and while    *)
(* the command is before that phase its request is unsent.                  *)
Early == {"precheck", "dispatching", "bootstrapping"}
Failures == {"busy", "unavailable", "refused"}
RequestInv ==
  /\ phase # "idle" => command > 0 /\ outcome = "none"
  /\ outcome # "none" => command > 0
  /\ \A c \in Command :
       /\ patch[c].sends = IF patch[c].state = "unsent" THEN 0 ELSE 1
       /\ c > command => patch[c].state = "unsent"
       /\ c = command /\ phase \in Early => patch[c].state = "unsent"
       /\ c = command /\ outcome \in Failures => patch[c].state \notin {"sent", "applied"}

\* A command that goes on without its request, or ends as far as anybody knows.
LEMMA RequestKept ==
  ASSUME RequestInv, UNCHANGED <<command, patch>>,
         \/ UNCHANGED <<phase, outcome>>
         \/ /\ phase # "idle" /\ phase' # "idle" /\ outcome' = outcome
            /\ phase' \in Early => phase \in Early
         \/ phase # "idle" /\ phase' = "idle" /\ outcome' \notin Failures
         \/ phase \in Early /\ phase' = "idle"
  PROVE  RequestInv'
BY DEF RequestInv, Early, Failures

\* Every step leaves it so.
LEMMA RequestStep ==
  ASSUME TypeOK, RequestInv, [Next]_vars
  PROVE  RequestInv'
<1>0. LocationType /\ CommandType /\ RequestType
  BY TypeParts
<1>1. ASSUME NEW evidence, Resolve(evidence), UNCHANGED patch PROVE RequestInv'
  BY <1>1, RequestKept DEF Resolve, Waits, End, Failures
<1>2. ASSUME NEW entry, Observe(entry), UNCHANGED patch PROVE RequestInv'
  BY <1>1, <1>2, RequestKept DEF Observe, commandVars
<1>3. CASE UNCHANGED <<commandVars, patch>>
  BY <1>3, RequestKept DEF commandVars
<1>4. ASSUME NEW next \in {"waiting", "doubting"}, phase = "patching", AwaitConfirmation(next),
             UNCHANGED patch
      PROVE  RequestInv'
  BY <1>4, RequestKept DEF AwaitConfirmation, Early, Failures
<1>5. CASE SomebodyChanges \/ \E r \in Slot : \/ \E dated \in BOOLEAN : Answer(r, dated)
                                              \/ ReadFails(r) \/ Recheck(r)
  BY <1>3, <1>5 DEF SomebodyChanges, Answer, ReadFails, Recheck, requestVars
<1>6. ASSUME NEW c \in Command, Apply(c) PROVE RequestInv'
  <2>1. patch' = [patch EXCEPT ![c].state = "applied"] /\ patch[c].state = "sent"
        /\ UNCHANGED <<command, phase, outcome>>
    BY <1>6 DEF Apply, commandVars
  <2>2. \A d \in Command : patch'[d].sends = patch[d].sends
                           /\ (d # c => patch'[d].state = patch[d].state)
                           /\ (d = c => patch'[d].state = "applied")
    BY <1>0, <2>1 DEF RequestType
  <2> QED BY <2>1, <2>2 DEF RequestInv
<1>7. CASE OtherInventory \/ \E v \in Version : Push(v)
                          \/ \E dated \in BOOLEAN : Snapshot(v, dated)
  BY <1>1, <1>2, <1>3, <1>7 DEF OtherInventory, Push, Snapshot, requestVars
<1>8. ASSUME NEW r \in Slot, ReadEnds(r) PROVE RequestInv'
  <2>1. UNCHANGED patch BY <1>8 DEF ReadEnds, requestVars
  <2>2. CASE phase = "precheck" /\ End("already")
    BY <2>1, <2>2, RequestKept DEF End, Failures
  <2>3. CASE /\ phase = "precheck" /\ UNCHANGED <<command, desired>>
             /\ \E entry, m, sofar : Dispatch(entry, m, sofar)
    BY <2>1, <2>3, RequestKept DEF Dispatch, Early, RequestInv
  <2>4. \/ phase = "precheck" /\ End("already")
        \/ /\ phase = "precheck" /\ UNCHANGED <<command, desired>>
           /\ \E entry, m, sofar : Dispatch(entry, m, sofar)
        \/ \E evidence : Resolve(evidence)
        \/ UNCHANGED commandVars
    BY <1>8, Zenon DEF ReadEnds
  <2> QED BY <1>1, <1>3, <2>1, <2>2, <2>3, <2>4
<1>9. CASE Unavailable
  BY <1>9, RequestKept DEF Unavailable, Proceed, End, Early, requestVars
<1>10. CASE OpenPage
  BY <1>10, RequestKept DEF OpenPage, Early
<1>11. CASE Send
  <2>1. CASE marker[page] # 0
    BY <1>11, <2>1, RequestKept DEF Send, End, Early, requestVars
  <2>2. CASE marker[page] = 0
    <3> DEFINE asked == [state |-> "sent", mode |-> desired, sends |-> patch[command].sends + 1]
    <3>1. /\ phase = "dispatching" /\ phase' = "patching" /\ UNCHANGED <<command, outcome>>
          /\ patch' = [patch EXCEPT ![command] = asked]
      BY <1>11, <2>2 DEF Send, Proceed
    <3>2. command > 0 /\ command \in Command /\ patch[command].state = "unsent"
          /\ patch[command].sends = 0 /\ outcome = "none"
      BY <1>0, <3>1 DEF RequestInv, Early, CommandType, Command
    <3>3. asked.state = "sent" /\ asked.sends = 1
      BY <3>2
    <3> HIDE DEF asked
    <3>4. \A d \in Command : patch'[d] = IF d = command THEN asked ELSE patch[d]
      BY <1>0, <3>1, <3>2 DEF RequestType
    <3>5. ASSUME NEW d \in Command
          PROVE  /\ patch'[d].sends = IF patch'[d].state = "unsent" THEN 0 ELSE 1
                 /\ d > command => patch'[d].state = "unsent"
      <4>1. CASE d = command BY <1>0, <3>2, <3>3, <3>4, <4>1 DEF CommandType
      <4>2. CASE d # command BY <3>4, <4>2 DEF RequestInv
      <4> QED BY <4>1, <4>2
    <3>6. command' = command /\ phase' = "patching" /\ outcome' = "none" /\ command > 0
      BY <3>1, <3>2
    <3> QED BY <3>5, <3>6 DEF RequestInv, Early, Failures
  <2> QED BY <2>1, <2>2
<1>12. CASE GiveUp
  BY <1>4, <1>12 DEF GiveUp, requestVars
<1>13. ASSUME NEW p \in Page, LoseContext(p) PROVE RequestInv'
  BY <1>3, <1>4, <1>13 DEF LoseContext, Pending
<1>14. ASSUME NEW p \in Page, NEW answer \in {"accepted", "refused", "unclear"},
              Reply(p, answer)
       PROVE  RequestInv'
  <2> DEFINE c == marker[p]
  <2>1. c \in Command BY <1>0, <1>14 DEF Reply, RequestType, Command
  <2>2. CASE UNCHANGED patch /\ answer # "refused"
    BY <1>3, <1>4, <1>14, <2>2 DEF Reply, Pending
  <2>3. CASE answer = "refused"
    <3>1. /\ patch[c].state = "sent" /\ patch' = [patch EXCEPT ![c].state = "refused"]
          /\ \/ UNCHANGED commandVars
             \/ phase = "patching" /\ c = command /\ End("refused")
      BY <1>14, <2>3 DEF Reply, Pending
    <3>2. \A d \in Command : patch'[d].sends = patch[d].sends
                             /\ (d # c => patch'[d].state = patch[d].state)
                             /\ (d = c => patch'[d].state = "refused")
      BY <1>0, <3>1 DEF RequestType
    <3>3. CASE UNCHANGED commandVars
      BY <3>1, <3>2, <3>3 DEF RequestInv, commandVars
    <3>4. CASE phase = "patching" /\ c = command /\ End("refused")
      BY <3>1, <3>2, <3>4 DEF RequestInv, End, Early, Failures
    <3> QED BY <3>1, <3>3, <3>4
  <2> QED BY <1>14, <2>2, <2>3 DEF Reply
<1>15. ASSUME NEW m \in Mode, Start(m) PROVE RequestInv'
  <2>1. /\ phase = "idle" /\ command' = command + 1 /\ UNCHANGED patch
        /\ phase' \in {"precheck", "dispatching"} /\ outcome' = "none"
    BY <1>15 DEF Start, Dispatch, requestVars
  <2> QED BY <1>0, <2>1 DEF RequestInv, CommandType, Command, Early, Failures
<1>16. CASE PrecheckEnds
  BY <1>16, RequestKept DEF PrecheckEnds, Dispatch, Early, RequestInv, requestVars
<1>17. CASE Timeout
  BY <1>17, RequestKept DEF Timeout, Waits, End, Failures, requestVars
<1>18. CASE UNCHANGED vars
  BY <1>3, <1>18 DEF vars, requestVars
<1> QED BY <1>5, <1>6, <1>7, <1>8, <1>9, <1>10, <1>11, <1>12, <1>13, <1>14, <1>15, <1>16,
           <1>17, <1>18
        DEF Next, Cloud, Store, ReadSteps, Executor

-----------------------------------------------------------------------------
(* Answers. *)

(* Nothing yet says that the location has the desired mode: no evidence,    *)
(* no such entry since the confirmation was created, no such news.          *)
Seen(r) == read[r].stage \in {"second", "read"} /\ history[read[r].seen] = desired
NoNews == /\ ~pending
          /\ store # before => store.mode # desired
          /\ \A v \in mail : history[v] # desired
          /\ \A r \in Slot : ~Seen(r)

(* Whatever says it while the command looks or waits is about this command's*)
(* time, unless such news was under way already when it was to be sent.     *)
AnswerInv ==
  /\ phase = "precheck" =>
       /\ history[Present] = desired => held # "never"
       /\ \A r \in Slot : read[r].by = command /\ Seen(r) => held # "never"
  /\ Listens => /\ history[Present] = desired => held = "sent"
                /\ ~late /\ held # "sent" => NoNews
  /\ AlreadyIsReal /\ ConfirmedIsReal

\* Nothing new is learned: the command goes on, ends with what it has, or with a failure.
LEMMA AnswerKept ==
  ASSUME AnswerInv, UNCHANGED <<history, store, before, desired, command, held, late>>,
         mail' \subseteq mail,
         \A r \in Slot : read'[r] = read[r] \/ read'[r].stage \notin {"second", "read"},
         \/ UNCHANGED <<phase, outcome, pending>>
         \/ Listens /\ Listens' /\ UNCHANGED <<outcome, pending>>
         \/ phase' = "idle" /\ outcome' \notin {"already", "confirmed"}
         \/ Listens /\ pending /\ phase' = "idle" /\ outcome' = "confirmed"
  PROVE  AnswerInv'
<1>1. \A r \in Slot : Seen(r)' => Seen(r) /\ read'[r] = read[r]
  BY DEF Seen
<1>2. Present' = Present BY DEF Present
<1>3. NoNews /\ UNCHANGED pending => NoNews'
  BY <1>1 DEF NoNews
<1>4. CASE UNCHANGED <<phase, outcome, pending>>
  BY <1>1, <1>2, <1>3, <1>4 DEF AnswerInv, AlreadyIsReal, ConfirmedIsReal, Listens, Waits
<1>5. CASE Listens /\ Listens' /\ UNCHANGED <<outcome, pending>>
  BY <1>2, <1>3, <1>5 DEF AnswerInv, AlreadyIsReal, ConfirmedIsReal, Listens, Waits
<1>6. CASE phase' = "idle" /\ outcome' \notin {"already", "confirmed"}
  BY <1>6 DEF AnswerInv, AlreadyIsReal, ConfirmedIsReal, Listens, Waits
<1>7. CASE Listens /\ pending /\ phase' = "idle" /\ outcome' = "confirmed"
  BY <1>7 DEF AnswerInv, NoNews, AlreadyIsReal, ConfirmedIsReal, Listens, Waits
<1> QED BY <1>4, <1>5, <1>6, <1>7

\* Something is heard: it may be taken for evidence when it is.
LEMMA AnswerHeard ==
  ASSUME AnswerInv, UNCHANGED <<history, held, late>>, Listens,
         mail' \subseteq mail,
         \A r \in Slot : read'[r] = read[r] \/ read'[r].stage \notin {"second", "read"},
         NEW evidence \in BOOLEAN, Resolve(evidence),
         ~late /\ held # "sent" => ~evidence /\ (store' # before => store'.mode # desired)
  PROVE  AnswerInv'
<1>1. \A r \in Slot : Seen(r)' /\ desired' = desired => Seen(r)
  BY DEF Seen
<1>2. Present' = Present BY DEF Present
<1>3. CASE evidence /\ Waits
  BY <1>3 DEF AnswerInv, AlreadyIsReal, ConfirmedIsReal, Listens, Waits, Resolve, End
<1>4. CASE ~(evidence /\ Waits)
  <2>1. pending' = evidence /\ UNCHANGED <<command, phase, desired, before, page, outcome>>
    BY <1>4 DEF Resolve
  <2>2. ~late /\ held # "sent" => NoNews'
    BY <1>1, <2>1 DEF AnswerInv, NoNews
  <2> QED BY <1>2, <2>1, <2>2 DEF AnswerInv, AlreadyIsReal, ConfirmedIsReal, Listens, Waits
<1> QED BY <1>3, <1>4

\* An entry is published: its mode was seen in the command's time.
LEMMA AnswerObserved ==
  ASSUME AnswerInv, UNCHANGED <<history, read, held, late>>, mail' \subseteq mail,
         CommandType, NEW entry \in Entries, Observe(entry),
         Listens /\ ~late /\ held # "sent" => entry.mode # desired
  PROVE  AnswerInv'
<1>1. CASE Listens
  <2>1. Heard(entry) \in BOOLEAN /\ (entry.mode # desired => ~Heard(entry))
    BY HeardBoolean DEF Heard
  <2>2. Resolve(Heard(entry)) /\ store' = entry BY <1>1 DEF Observe
  <2> QED BY <1>1, <2>1, <2>2, AnswerHeard
<1>2. CASE ~Listens
  <2>1. UNCHANGED commandVars BY <1>2 DEF Observe
  <2>2. Present' = Present BY DEF Present
  <2> QED BY <1>2, <2>1, <2>2 DEF commandVars, AnswerInv, Seen, AlreadyIsReal, ConfirmedIsReal,
             Listens, Waits
<1> QED BY <1>1, <1>2

\* The mode changes: while a command looks or waits, that is in its time.
LEMMA AnswerChanges ==
  ASSUME TypeOK, SeenInv, RequestInv, AnswerInv, NEW m \in Mode, Becomes(m),
         UNCHANGED <<store, commandVars, read, late>>
  PROVE  AnswerInv'
<1>0. LocationType BY TypeParts
<1>1. CASE m = history[Present]
  <2>1. UNCHANGED <<history, mail, held>> BY <1>1 DEF Becomes
  <2> QED BY <2>1, AnswerKept DEF commandVars
<1>2. CASE m # history[Present]
  <2>1. /\ Present' = Present + 1 /\ history'[Present'] = m /\ mail' = mail \cup {Present'}
        /\ \A v \in 1..Present : history'[v] = history[v]
    BY <1>0, <1>2, BecomesAppends, HistoryModes DEF Becomes, Present
  <2>2. \A r \in Slot : Seen(r)' => Seen(r)
    <3> SUFFICES ASSUME NEW r \in Slot, Seen(r)' PROVE Seen(r)
      OBVIOUS
    <3>1. read[r].seen \in 1..Present
      <4>1. read[r] \in Reads BY DEF TypeOK
      <4>2. read[r].seen \in Version /\ read[r].seen <= Present /\ Present \in Nat
        BY <1>0, <4>1, HistoryModes DEF Reads, SeenInv
      <4> QED BY <4>2 DEF Version
    <3> QED BY <2>1, <3>1 DEF Seen, commandVars
  <2>3. /\ m = desired /\ Listens => held' = "sent"
        /\ m = desired /\ phase = "precheck" => held' # "never"
        /\ held = "sent" /\ phase # "precheck" => held' = "sent"
        /\ held # "never" => held' # "never"
    BY <1>0, <1>2, BecomesNoted
  <2>4. Listens /\ ~late /\ held' # "sent" => NoNews'
    <3> SUFFICES ASSUME Listens, ~late, held' # "sent" PROVE NoNews'
      OBVIOUS
    <3>1. NoNews /\ m # desired
      BY <2>3 DEF AnswerInv, Listens, Waits
    <3>2. ASSUME NEW v \in mail' PROVE history'[v] # desired
      <4>1. CASE v = Present' BY <2>1, <3>1, <4>1
      <4>2. CASE v \in mail /\ v # Present'
        <5>1. v \in Version /\ v <= Present /\ Present \in Nat
          BY <1>0, <4>2, HistoryModes DEF LocationType, SeenInv
        <5>2. v \in 1..Present BY <5>1 DEF Version
        <5> QED BY <2>1, <3>1, <4>2, <5>2 DEF NoNews
      <4> QED BY <2>1, <4>1, <4>2
    <3> QED BY <2>2, <3>1, <3>2 DEF NoNews, commandVars
  <2>5. Listens' = Listens /\ UNCHANGED <<command, phase, desired, outcome>>
    BY DEF Listens, Waits, commandVars
  <2>6. phase = "precheck" => outcome = "none"
    BY DEF RequestInv
  <2>7. AlreadyIsReal' /\ ConfirmedIsReal'
    BY <2>3, <2>5, <2>6 DEF AnswerInv, AlreadyIsReal, ConfirmedIsReal
  <2>8. phase = "precheck" =>
          /\ m = desired => held' # "never"
          /\ \A r \in Slot : read'[r].by = command /\ Seen(r)' => held' # "never"
    BY <2>2, <2>3 DEF AnswerInv
  <2>9. Listens => (m = desired => held' = "sent")
    BY <2>3
  <2> QED BY <2>1, <2>4, <2>5, <2>7, <2>8, <2>9 DEF AnswerInv
<1> QED BY <1>1, <1>2

\* A confirmation begins: what was under way before it is known to be so.
LEMMA AnswerDispatched ==
  ASSUME AnswerInv, NEW entry, NEW sofar,
         Dispatch(entry, desired', sofar), store' = entry, UNCHANGED <<history, mail>>,
         \A r \in Slot : read'[r] = read[r] \/ read'[r].stage \notin {"second", "read"}
  PROVE  AnswerInv'
<1>1. Present' = Present BY DEF Present
<1>2. /\ phase' = "dispatching" /\ before' = entry /\ pending' = FALSE /\ outcome' = "none"
      /\ late' = StillUnderWay(desired')
      /\ history[Present] = desired' => held' = "sent"
  BY DEF Dispatch
<1>3. ~late' => NoNews'
  BY <1>2 DEF StillUnderWay, NoNews, Seen
<1> QED BY <1>1, <1>2, <1>3 DEF AnswerInv, AlreadyIsReal, ConfirmedIsReal, Listens, Waits

\* A read ends: what it has seen was seen in the time of whoever asked for it.
LEMMA AnswerRead ==
  ASSUME TypeOK, AnswerInv, NEW r \in Slot, ReadEnds(r)
  PROVE  AnswerInv'
<1> DEFINE x == read[r]
           entry == IF Accepted(x) THEN Entry(x) ELSE store
           proof == Accepted(x) /\ x.by = command /\ history[x.seen] = desired
           evidence == (IF entry = store THEN pending ELSE Heard(entry))
                       \/ (proof /\ x.for = "wait")
<1>0. CommandType /\ read \in [Slot -> Reads] BY TypeParts
<1>1. /\ x.stage = "read" /\ store' = entry /\ UNCHANGED <<history, mail>>
      /\ \A s \in Slot : read'[s] = read[s] \/ read'[s].stage \notin {"second", "read"}
  BY <1>0 DEF ReadEnds, Idle
<1>2. entry # store => entry.mode = history[x.seen]
  BY DEF Entry
<1>3. proof => Seen(r)
  BY <1>1 DEF Seen
<1>4. history[x.seen] = desired => Seen(r)
  BY <1>1 DEF Seen
<1>5. CASE phase = "precheck" /\ x.by = command /\ proof /\ End("already")
           /\ UNCHANGED <<pending, late, held>>
  BY <1>3, <1>5 DEF AnswerInv, AlreadyIsReal, ConfirmedIsReal, End, Listens, Waits
<1>6. CASE Dispatch(entry, desired, held) /\ UNCHANGED <<command, desired>>
  BY <1>1, <1>6, AnswerDispatched
<1>7. CASE Listens /\ Resolve(evidence) /\ UNCHANGED ghosts
  <2>1. evidence \in BOOLEAN
    OBVIOUS
  <2>2. ~late /\ held # "sent" => ~evidence /\ (entry # before => entry.mode # desired)
    BY <1>2, <1>3, <1>4, <1>7 DEF AnswerInv, NoNews, Heard
  <2> QED BY <1>1, <1>7, <2>1, <2>2, AnswerHeard DEF ghosts
<1>8. CASE ~Listens /\ ~(phase = "precheck" /\ x.by = command)
           /\ UNCHANGED <<commandVars, ghosts>>
  <2>1. Present' = Present BY <1>1 DEF Present
  <2>2. \A s \in Slot : Seen(s)' => Seen(s) /\ read'[s] = read[s]
    BY <1>1, <1>8 DEF Seen, commandVars
  <2> QED BY <1>1, <1>8, <2>1, <2>2 DEF commandVars, ghosts, AnswerInv, AlreadyIsReal,
             ConfirmedIsReal, Listens, Waits
<1>9. \/ phase = "precheck" /\ x.by = command /\ proof /\ End("already")
         /\ UNCHANGED <<pending, late, held>>
      \/ Dispatch(entry, desired, held) /\ UNCHANGED <<command, desired>>
      \/ Listens /\ Resolve(evidence) /\ UNCHANGED ghosts
      \/ ~Listens /\ ~(phase = "precheck" /\ x.by = command) /\ UNCHANGED <<commandVars, ghosts>>
  BY DEF ReadEnds
<1> QED BY <1>5, <1>6, <1>7, <1>8, <1>9

\* The server answers a read: it has the present mode.
LEMMA AnswerAnswered ==
  ASSUME TypeOK, AnswerInv, NEW r \in Slot, NEW dated \in BOOLEAN, Answer(r, dated)
  PROVE  AnswerInv'
<1> DEFINE x == read[r]
           got(next) == [stage |-> next, by |-> x.by, for |-> x.for, before |-> x.before,
                          seen |-> Present, dated |-> dated]
<1>1. /\ \E new \in {got("second"), got("read"), Idle} : read' = [read EXCEPT ![r] = new]
      /\ UNCHANGED <<history, mail, store, commandVars, ghosts>>
  BY DEF Answer
<1>2. Present' = Present /\ read \in [Slot -> Reads]
  BY <1>1 DEF Present, TypeOK
<1>3. ASSUME NEW s \in Slot, Seen(s)'
      PROVE  /\ read'[s].by = read[s].by
             /\ history[Present] = desired \/ Seen(s)
  BY <1>1, <1>2, <1>3 DEF Seen, Idle, commandVars
<1>4. Listens /\ ~late /\ held # "sent" => NoNews'
  BY <1>1, <1>3 DEF AnswerInv, NoNews, commandVars
<1> QED BY <1>1, <1>2, <1>3, <1>4 DEF commandVars, ghosts, AnswerInv, AlreadyIsReal,
           ConfirmedIsReal, Listens, Waits

\* Every step leaves it so.
LEMMA AnswerStep ==
  ASSUME TypeOK, SeenInv, RequestInv, AnswerInv, [Next]_vars
  PROVE  AnswerInv'
<1>0. /\ LocationType /\ store \in Entries /\ CommandType /\ RequestType
      /\ read \in [Slot -> Reads]
  BY TypeParts
<1>1. CASE SomebodyChanges
  BY <1>1, AnswerChanges DEF SomebodyChanges
<1>2. ASSUME NEW c \in Command, Apply(c) PROVE AnswerInv'
  <2>1. patch[c].mode \in Mode BY <1>0 DEF RequestType
  <2> QED BY <1>2, <2>1, AnswerChanges DEF Apply
<1>3. CASE OtherInventory
  <2>1. Heard(store) \in BOOLEAN BY <1>0, HeardBoolean
  <2>2. ~late /\ held # "sent" => ~Heard(store) /\ (store # before => store.mode # desired)
    BY <1>3 DEF OtherInventory, AnswerInv, NoNews, Heard
  <2> QED BY <1>3, <2>1, <2>2, AnswerHeard DEF OtherInventory, ghosts
<1>4. ASSUME NEW v \in Version, Push(v) PROVE AnswerInv'
  <2> DEFINE entry == [mode |-> history[v], at |-> v]
  <2>1. v \in mail /\ mail' \subseteq mail /\ UNCHANGED <<history, read, held, late>>
    BY <1>4 DEF Push, ghosts
  <2>2. entry \in Entries
    BY <1>0, <2>1, HistoryModes DEF Entries, SeenInv, Version
  <2>3. Listens /\ ~late /\ held # "sent" => entry.mode # desired
    BY <2>1 DEF AnswerInv, NoNews
  <2>4. CASE Observe(entry) BY <1>0, <2>1, <2>2, <2>3, <2>4, AnswerObserved
  <2>5. CASE UNCHANGED <<store, commandVars>>
    BY <2>1, <2>5, AnswerKept DEF commandVars
  <2> QED BY <1>4, <2>4, <2>5 DEF Push
<1>5. ASSUME NEW dated \in BOOLEAN, NEW v \in Version, Snapshot(v, dated) PROVE AnswerInv'
  <2> DEFINE entry == [mode |-> history[v], at |-> IF dated THEN v ELSE 0]
  <2>1. /\ v \in mail \cup {Present} /\ Observe(entry)
        /\ UNCHANGED <<history, mail, read, held, late>>
    BY <1>5 DEF Snapshot, ghosts
  <2>2. v <= Present BY <1>0, <2>1, HistoryModes DEF SeenInv
  <2>3. entry \in Entries
    BY <1>0, <2>2, HistoryModes DEF Entries, Version
  <2>4. Listens /\ ~late /\ held # "sent" => entry.mode # desired
    BY <2>1 DEF AnswerInv, NoNews
  <2> QED BY <1>0, <2>1, <2>3, <2>4, AnswerObserved
<1>6. ASSUME NEW r \in Slot, NEW dated \in BOOLEAN, Answer(r, dated) PROVE AnswerInv'
  BY <1>6, AnswerAnswered
<1>7. ASSUME NEW r \in Slot, ReadFails(r) \/ Recheck(r) PROVE AnswerInv'
  <2>1. \A s \in Slot : read'[s] = read[s] \/ read'[s].stage \notin {"second", "read"}
    BY <1>0, <1>7 DEF ReadFails, Recheck, Idle, Reading
  <2> QED BY <1>7, <2>1, AnswerKept DEF ReadFails, Recheck, commandVars, ghosts
<1>8. ASSUME NEW r \in Slot, ReadEnds(r) PROVE AnswerInv'
  BY <1>8, AnswerRead
<1>9. CASE Unavailable \/ OpenPage \/ Send
  BY <1>9, AnswerKept DEF Unavailable, OpenPage, Send, Proceed, End, Listens, Waits, ghosts
<1>10. CASE GiveUp
  BY <1>10, AnswerKept DEF GiveUp, AwaitConfirmation, Listens, Waits, ghosts
<1>11. ASSUME NEW p \in Page, LoseContext(p) PROVE AnswerInv'
  BY <1>11, AnswerKept
     DEF LoseContext, Pending, AwaitConfirmation, Listens, Waits, commandVars, ghosts
<1>12. ASSUME NEW p \in Page, NEW answer \in {"accepted", "refused", "unclear"},
              Reply(p, answer)
       PROVE  AnswerInv'
  BY <1>12, AnswerKept
     DEF Reply, Pending, AwaitConfirmation, End, Listens, Waits, commandVars, ghosts
<1>13. ASSUME NEW m \in Mode, Start(m) PROVE AnswerInv'
  <2>1. /\ UNCHANGED <<history, mail, store>> /\ Present' = Present
        /\ command' = command + 1 /\ desired' = m
        /\ \A s \in Slot : read'[s] = read[s] \/ read'[s].stage \notin {"second", "read"}
    BY <1>0, <1>13 DEF Start, Reading, Present
  <2>2. CASE store.mode = m
    <3>1. phase' = "precheck" /\ outcome' = "none"
          /\ held' = IF history[Present] = m THEN "begun" ELSE "never"
      BY <1>13, <2>2 DEF Start
    <3>2. \A s \in Slot : Seen(s)' => read'[s].by # command'
      <4> SUFFICES ASSUME NEW s \in Slot, Seen(s)' PROVE read'[s].by # command'
        OBVIOUS
      <4>1. read'[s] = read[s] BY <2>1 DEF Seen
      <4>2. read[s] \in Reads BY <1>0
      <4>3. read[s].by \in Nat /\ command \in Nat /\ read[s].by <= command
        BY <1>0, <4>2 DEF Reads, CommandType, SeenInv
      <4> QED BY <2>1, <4>1, <4>3
    <3> QED BY <2>1, <3>1, <3>2 DEF AnswerInv, AlreadyIsReal, ConfirmedIsReal, Listens, Waits
  <2>3. CASE store.mode # m
    <3>1. Dispatch(store, m, "never") BY <1>13, <2>3 DEF Start
    <3> QED BY <2>1, <3>1, AnswerDispatched
  <2> QED BY <2>2, <2>3
<1>14. CASE PrecheckEnds
  BY <1>14, AnswerDispatched DEF PrecheckEnds
<1>15. CASE Timeout
  BY <1>15, AnswerKept DEF Timeout, End, ghosts
<1>16. CASE UNCHANGED vars
  BY <1>16, AnswerKept DEF vars, commandVars, ghosts
<1> QED BY <1>1, <1>2, <1>3, <1>4, <1>5, <1>6, <1>7, <1>8, <1>9, <1>10, <1>11, <1>12, <1>13,
           <1>14, <1>15, <1>16
        DEF Next, Cloud, Store, ReadSteps, Executor

-----------------------------------------------------------------------------
(* The theorems. *)

Inv == TypeOK /\ SeenInv /\ StoreInv /\ RequestInv /\ AnswerInv

\* It holds at the start, when no command was given.
LEMMA InvInit == Init => Inv
<1> SUFFICES ASSUME Init PROVE Inv
  OBVIOUS
<1>1. /\ history \in Seq(Mode) /\ Present \in {1, 2} /\ \A i \in 1..Present : history[i] \in Mode
  <2>1. PICK n \in {1, 2} : history \in [1..n -> Mode]
    BY DEF Init
  <2>2. history \in Seq(Mode)
    BY <2>1, SeqDef
  <2>3. Len(history) \in Nat /\ DOMAIN history = 1..Len(history) /\ DOMAIN history = 1..n
    BY <2>1, <2>2, LenProperties
  <2>4. Len(history) = n
    BY <2>1, <2>3
  <2> QED BY <2>1, <2>2, <2>4 DEF Present
<1>2. history[1] \in Mode /\ mail \subseteq {2} /\ (mail # {} => Present = 2)
  BY <1>1 DEF Init
<1>3. store \in Entries
  BY <1>2 DEF Init, Entries
<1>4. [stage |-> "idle", by |-> 0, for |-> "wait", before |-> store, seen |-> 1, dated |-> FALSE]
        \in Reads
  BY <1>3 DEF Reads, Version
<1>5. TypeOK
  <2>1. patch \in [Command -> [state : {"unsent", "sent", "applied", "refused"},
                               mode : Mode, sends : Nat]]
    BY <1>2 DEF Init
  <2>2. marker \in [Page -> 0..MaxCommands] /\ read \in [Slot -> Reads]
    BY <1>4 DEF Init
  <2>3. Len(history) \in Version /\ mail \subseteq Version
    BY <1>1, <1>2 DEF Present, Version
  <2>4. before \in Entries /\ desired \in Mode /\ command \in 0..MaxCommands
    BY <1>2, <1>3 DEF Init
  <2>5. /\ phase \in Phases /\ pending \in BOOLEAN /\ page \in Page /\ outcome \in Outcomes
        /\ held \in {"never", "begun", "sent"} /\ late \in BOOLEAN
    BY DEF Init, Phases, Page, Outcomes
  <2> QED BY <1>1, <1>3, <2>1, <2>2, <2>3, <2>4, <2>5 DEF TypeOK
<1>6. SeenInv
  BY <1>1, <1>2 DEF Init, SeenInv
<1>7. RequestInv
  BY DEF Init, RequestInv, Early, Failures
<1>8. AnswerInv
  BY DEF Init, AnswerInv, Listens, Waits, AlreadyIsReal, ConfirmedIsReal
<1>9. StoreInv
  <2>1. /\ store.mode = history[1] /\ store.at \in 0..1
        /\ (Present = 2 => mail = {2})
    BY <1>1 DEF Init
  <2>2. Faithful(store) BY <1>1, <2>1 DEF Faithful
  <2>3. \A r \in Slot : Past(read[r]) BY <1>1, <2>1 DEF Init, Past
  <2> QED BY <1>1, <2>1, <2>2, <2>3 DEF StoreInv
<1> QED BY <1>5, <1>6, <1>7, <1>8, <1>9 DEF Inv

\* The inductive invariant.
LEMMA Invariance == Spec => []Inv
<1>1. Inv /\ [Next]_vars => Inv'
  BY TypeStep, SeenStep, StoreStep, RequestStep, AnswerStep DEF Inv
<1> QED BY InvInit, <1>1, PTL DEF Spec

(* Whatever pages, replies and deadlines do, the request of a command leaves*)
(* at most once, and a failure that is reported as certain (busy,           *)
(* unavailable, refused) is of a command that was not and will not be       *)
(* carried out: #executeLocation with its direct executor.                  *)
THEOREM LocationRequestsAreCertain == Spec => []RequestsAreCertain
<1>1. Inv => AtMostOneRequest
  BY DEF Inv, RequestInv, AtMostOneRequest
<1>2. Inv => CertainFailure
  <2> SUFFICES ASSUME Inv, outcome \in Failures
               PROVE  patch[command].state \notin {"sent", "applied"}
    BY DEF CertainFailure, Failures
  <2>1. command \in Command
    BY DEF Inv, RequestInv, Failures, TypeOK, Command
  <2> QED BY <2>1 DEF Inv, RequestInv
<1>3. Inv => RequestsAreCertain
  BY <1>1, <1>2 DEF Inv, RequestsAreCertain
<1> QED BY Invariance, <1>3, PTL

(* A command that is answered without a request was not needed, and a       *)
(* confirmed one was carried out or its mode was in force after it was about*)
(* to be sent, unless older news of the mode was still under way then:      *)
(* waitForLocationArmState and verifyLocationRead.                          *)
THEOREM LocationAnswersAreReal == Spec => []AnswersAreReal
<1>1. Inv => AnswersAreReal
  BY DEF Inv, AnswerInv, AnswersAreReal
<1> QED BY Invariance, <1>1, PTL

(* When every event of the location has arrived, DeviceStore has its mode,  *)
(* however events, snapshots and reads with or without a time overtook each *)
(* other: #applySecurityArmStateEvent, #applySnapshot and                   *)
(* observeLocationStatusSnapshot.                                           *)
THEOREM LocationConverges == Spec => []Converged
<1>1. Inv => Converged
  <2> SUFFICES ASSUME Inv, mail = {} PROVE store.mode = history[Present]
    BY DEF Converged
  <2> QED BY DEF Inv, StoreInv, Faithful
<1> QED BY Invariance, <1>1, PTL

-----------------------------------------------------------------------------
(* The Home Monitor page.                                                   *)

(* Which clicks were made: without a transition only the wanted one, and at *)
(* most once as far as anybody can know; with it, DISARMED comes first.     *)
EarlyStages == {"turn", "open", "native", "click", "keeperCard", "card"}
ClickInv ==
  /\ transition = "no" =>
       /\ \A i \in DOMAIN clicks : clicks[i] = wanted
       /\ stage # "disarming"
       /\ stage \in EarlyStages => ~unsure
       /\ ~unsure => Len(clicks) <= (IF stage \in {"confirm", "end"} THEN 1 ELSE 0)
  /\ transition # "no" =>
       /\ ~unsure /\ wanted \in Armed
       /\ Len(clicks) >= 1 => clicks[1] = DISARMED
       /\ Len(clicks) >= 2 => clicks[2] = wanted
  /\ transition = "used" =>
       /\ stage \in {"click", "disarming", "end"} /\ Len(clicks) <= 1
       /\ stage = "click" => Len(clicks) = 0
       /\ stage = "disarming" => Len(clicks) = 1
  /\ transition = "disarmed" =>
       /\ stage \in {"click", "confirm", "end"} /\ Len(clicks) <= 2
       /\ stage = "click" => Len(clicks) = 1

(* The answer comes at the end, and tells how far a transition came.        *)
ToldInv ==
  IF stage = "end" THEN told \in {"confirmed", Home!Failure} ELSE told = "none"

(* The transition begins on an armed mode, and its second click is decided  *)
(* on a page that shows DISARMED.                                           *)
RearmInv ==
  /\ transition # "no" => from <= shown /\ modes[from] \in Armed
  /\ transition = "disarmed" /\ stage = "click" => expected = DISARMED
  /\ transition # "no" /\ (\E i \in DOMAIN clicks : clicks[i] = wanted) =>
       \E v \in from + 1..Home!Present : modes[v] = DISARMED

(* The store has a version the location had, evidence is what the store has, *)
(* and it is no older than its confirmation unless older news of it was under *)
(* way then.                                                                *)
EvidenceInv ==
  /\ known.at <= Home!Present /\ known.mode = modes[known.at]
  /\ since <= Home!Present
  /\ wait.mode = IF transition = "used" THEN DISARMED ELSE wanted
  /\ wait.evidence => known.mode = wait.mode
  /\ ~stale =>
       /\ \A v \in events : modes[v] = wanted => v > since
       /\ transition # "no" => \A v \in events : modes[v] = DISARMED => v > since
       /\ wait.evidence => known.at >= since
       /\ transition = "disarmed" =>
            /\ wait.before.at \in since..known.at /\ modes[wait.before.at] = DISARMED
            /\ wait.evidence => known.at > wait.before.at

MonitorInv ==
  /\ Home!TypeOK /\ ClickInv /\ ToldInv /\ RearmInv /\ EvidenceInv /\ Home!ConfirmedIsReal

-----------------------------------------------------------------------------
(* Clicks and changes. *)

\* A click is noted after those before it.
LEMMA LandsAppends ==
  ASSUME Home!TypeOK, NEW m \in Home!ArmState, Home!Lands(m)
  PROVE  /\ clicks' \in Seq(Home!ArmState) /\ flight' \subseteq 1..Len(clicks')
         /\ Len(clicks') = Len(clicks) + 1 /\ Len(clicks) \in Nat
         /\ DOMAIN clicks = 1..Len(clicks) /\ DOMAIN clicks' = 1..(Len(clicks) + 1)
         /\ \A i \in 1..Len(clicks) : clicks'[i] = clicks[i]
         /\ clicks'[Len(clicks) + 1] = m
<1>1. clicks \in Seq(Home!ArmState) /\ flight \subseteq 1..Len(clicks) BY DEF Home!TypeOK
<1>2. clicks' = Append(clicks, m) /\ flight' = flight \cup {Len(clicks) + 1} BY DEF Home!Lands
<1>3. Len(clicks) \in Nat /\ DOMAIN clicks = 1..Len(clicks) BY <1>1, LenProperties
<1>4. /\ clicks' \in Seq(Home!ArmState) /\ Len(clicks') = Len(clicks) + 1
      /\ \A i \in 1..Len(clicks) : clicks'[i] = clicks[i]
      /\ clicks'[Len(clicks) + 1] = m
  BY <1>1, <1>2, AppendProperties
<1>5. DOMAIN clicks' = 1..(Len(clicks) + 1) BY <1>4, LenProperties
<1>6. \A i \in flight' : i \in flight \/ i = Len(clicks) + 1 BY <1>2
<1>7. \A i \in flight' : i \in 1..(Len(clicks) + 1)
  <2>1. \A i \in flight : i \in 1..Len(clicks) BY <1>1
  <2> QED BY <2>1, <1>6, <1>3
<1>8. flight' \subseteq 1..Len(clicks') BY <1>7, <1>4
<1> QED BY <1>3, <1>4, <1>5, <1>8

LEMMA ClicksDomain ==
  Home!TypeOK => Len(clicks) \in Nat /\ DOMAIN clicks = 1..Len(clicks)
BY LenProperties DEF Home!TypeOK

\* The counts of the two modules are one.
LEMMA SameCount ==
  ASSUME NEW S
  PROVE  Home!Cardinality(S) = Cardinality(S)
BY DEF Home!Cardinality, Cardinality

\* A mode was clicked when there is such a click.
LEMMA ClickedSome ==
  ASSUME Home!TypeOK, NEW m
  PROVE  /\ Home!Clicked(m) \in Nat
         /\ Home!Clicked(m) > 0 <=> \E i \in DOMAIN clicks : clicks[i] = m
         /\ Len(clicks) <= 1 => Home!Clicked(m) <= 1
<1> DEFINE C == {i \in DOMAIN clicks : clicks[i] = m}
<1>1. DOMAIN clicks = 1..Len(clicks) /\ Len(clicks) \in Nat BY ClicksDomain
<1>2. IsFiniteSet(1..Len(clicks)) /\ Cardinality(1..Len(clicks)) = Len(clicks)
  <2> DEFINE n == Len(clicks)
  <2>1. n \in Nat BY <1>1
  <2> HIDE DEF n
  <2>2. IsFiniteSet(1..n) /\ Cardinality(1..n) = n
    <3>1. /\ IsFiniteSet(1..n)
          /\ Cardinality(1..n) = IF 1 > n THEN 0 ELSE n - 1 + 1 BY <2>1, FS_Interval
    <3> QED BY <2>1, <3>1
  <2> QED BY <2>2 DEF n
<1>3. IsFiniteSet(C) /\ Cardinality(C) \in Nat /\ Cardinality(C) <= Len(clicks)
  BY <1>1, <1>2, FS_Subset, FS_CardinalityType
<1>4. Cardinality(C) = 0 <=> C = {} BY <1>3, FS_EmptySet
<1> HIDE DEF C
<1>5. Home!Clicked(m) = Cardinality(C) BY SameCount DEF C, Home!Clicked
<1>6. C = {} <=> ~\E i \in DOMAIN clicks : clicks[i] = m BY DEF C
<1> QED BY <1>1, <1>3, <1>4, <1>5, <1>6

\* A mode that is clicked only as a certain one is clicked at most once.
LEMMA ClickedOnce ==
  ASSUME Home!TypeOK, NEW m, NEW k \in Nat,
         \A i \in DOMAIN clicks : clicks[i] = m => i = k
  PROVE  Home!Clicked(m) <= 1
<1> DEFINE C == {i \in DOMAIN clicks : clicks[i] = m}
<1>1. C \subseteq {k} OBVIOUS
<1>2. IsFiniteSet({k}) /\ Cardinality({k}) = 1 BY FS_Singleton
<1>3. Cardinality(C) <= 1 BY <1>1, <1>2, FS_Subset
<1> QED BY <1>3, SameCount DEF Home!Clicked

\* The modes of the location.
LEMMA MonitorModes ==
  ASSUME Home!TypeOK
  PROVE  /\ Home!Present \in Home!Version /\ Home!Present \in Nat /\ Home!Present >= 1
         /\ \A v \in 1..Home!Present : modes[v] \in Home!ArmState
         /\ \A v \in Home!Version : v \in Nat /\ v >= 1 /\ v <= MaxVersion
BY ArmingAssumption, LocationSecurityAssumption, ElementOfSeq, LenProperties
   DEF Home!TypeOK, Home!Present, Home!Version

\* A change appends to them, and is told later.
LEMMA ModeAppends ==
  ASSUME Home!TypeOK, NEW m \in Home!ArmState, Home!Becomes(m)
  PROVE  /\ modes' \in Seq(Home!ArmState) /\ Home!Present' \in Home!Version
         /\ Home!Present <= Home!Present'
         /\ events' \subseteq 1..Home!Present'
         /\ \A v \in 1..Home!Present : modes'[v] = modes[v]
         /\ \A v \in events' : v \in events \/ v > Home!Present
<1>0. Home!Present \in Nat /\ Home!Present \in Home!Version BY MonitorModes
<1>1. CASE m = modes[Home!Present]
  <2>1. modes' = modes /\ events' = events BY <1>1 DEF Home!Becomes
  <2>2. modes \in Seq(Home!ArmState) /\ events \subseteq 1..Home!Present
    BY DEF Home!TypeOK, Home!Present
  <2>3. Home!Present' = Home!Present BY <2>1 DEF Home!Present
  <2> QED BY <1>0, <2>1, <2>2, <2>3
<1>2. CASE m # modes[Home!Present]
  <2>1. Home!Present < MaxVersion /\ modes' = Append(modes, m)
        /\ events' = events \cup {Home!Present + 1}
    BY <1>2 DEF Home!Becomes
  <2>2. modes \in Seq(Home!ArmState) /\ events \subseteq 1..Home!Present
    BY DEF Home!TypeOK, Home!Present
  <2>3. /\ modes' \in Seq(Home!ArmState) /\ Home!Present' = Home!Present + 1
        /\ \A v \in 1..Home!Present : modes'[v] = modes[v]
    BY <2>1, <2>2, AppendProperties DEF Home!Present
  <2>4. Home!Present' \in Home!Version
    BY <1>0, <2>1, <2>3, ArmingAssumption, LocationSecurityAssumption DEF Home!Version
  <2>5. events' \subseteq 1..Home!Present' BY <1>0, <2>1, <2>2, <2>3
  <2>6. \A v \in events' : v \in events \/ v > Home!Present BY <1>0, <2>1
  <2> QED BY <1>0, <2>3, <2>4, <2>5, <2>6
<1> QED BY <1>1, <1>2

-----------------------------------------------------------------------------
(* The forms a step of the command has. *)

Ways == Home!Stages \ {"click", "disarming", "confirm", "end"}
Rest == <<Home!world, wanted, expected, transition, Home!ghosts>>

\* On to another way, with nothing done, or with a click lost inside the page.
Onward ==
  /\ stage \in Ways /\ stage' \in Ways /\ card' \in {"keeper", "tab"}
  /\ UNCHANGED <<Rest, wait, told>>
  /\ \/ Home!Untouched /\ (stage' \in EarlyStages => stage \in EarlyStages)
     \/ Home!Lands(wanted) /\ unsure' = TRUE /\ stage' \notin EarlyStages

\* The end without success.
Given ==
  /\ stage # "end" /\ Home!Fail
  /\ \/ Home!Untouched
     \/ stage \in Ways /\ Home!Lands(wanted) /\ UNCHANGED unsure
     \/ stage = "modal" /\ Home!Lands(wanted) /\ unsure' = TRUE
     \/ stage = "click" /\ modes[shown] = expected /\ Home!Lands(Home!Requested)
        /\ UNCHANGED unsure

\* To the confirmation.
Done ==
  /\ Home!Confirm /\ UNCHANGED unsure
  /\ \/ stage \in Ways /\ (UNCHANGED Home!hand \/ Home!Lands(wanted))
     \/ /\ stage = "click" /\ transition # "used"
        /\ modes[shown] = expected /\ Home!Lands(wanted)

LEMMA Forms ==
  ASSUME Home!TypeOK, Home!Next, ~Home!Environment
  PROVE  \/ Onward \/ Given \/ Done
         \/ Home!NativeObserved \/ Home!NativeClick \/ Home!Disarmed \/ Home!Confirmed
<1> USE
    DEF Ways, Rest, Home!Stages, Home!CardStages, Home!TextStages, Home!RoleStages, EarlyStages,
        Home!Untouched, Home!hand, Home!ghosts
<1>g. ASSUME NEW s \in Ways, Home!Go(s), stage \in Ways, Home!Untouched,
             s \in EarlyStages => stage \in EarlyStages
      PROVE Onward
  BY <1>g DEF Home!Go, Onward, Home!TypeOK
<1>m. ASSUME NEW m \in Home!ArmState, Home!MayLand(m) PROVE Home!Lands(m) \/ UNCHANGED Home!hand
  BY <1>m DEF Home!MayLand
<1>r. Home!Requested \in Home!ArmState BY DEF Home!Requested, Home!ArmState, Home!TypeOK
<1>d. wanted \in Home!ArmState BY DEF Home!TypeOK
<1>1. CASE Home!Pages
  <2>1. CASE Home!DesiredStateCurrent BY <2>1 DEF Home!DesiredStateCurrent, Done
  <2>2. CASE Home!Turn BY <2>2, <1>g DEF Home!Turn
  <2>3. CASE Home!QueueTimeout \/ Home!LocationUnreached
    BY <2>3 DEF Home!QueueTimeout, Home!LocationUnreached, Given
  <2>4. CASE Home!OpenLocationPage BY <2>4 DEF Home!OpenLocationPage, Onward
  <2> QED BY <1>1, <2>1, <2>2, <2>3, <2>4 DEF Home!Pages
<1>2. CASE Home!Native
  <2>1. CASE Home!NativeCardAbsent BY <2>1, <1>g DEF Home!NativeCardAbsent
  <2>2. CASE Home!NativeCardUnusable \/ Home!DisarmTimesOut
    BY <2>2 DEF Home!NativeCardUnusable, Home!DisarmTimesOut, Given
  <2>3. CASE Home!NativeCurrentMode BY <2>3 DEF Home!NativeCurrentMode, Done
  <2>4. CASE Home!NativeClickFails BY <2>4, <1>m, <1>r DEF Home!NativeClickFails, Given
  <2> QED BY <1>2, <2>1, <2>2, <2>3, <2>4 DEF Home!Native
<1>3. CASE Home!Card
  <2>1. CASE Home!CardMissing BY <2>1, <1>g DEF Home!CardMissing
  <2>2. CASE Home!CardUnusable BY <2>2 DEF Home!CardUnusable, Given
  <2>3. CASE Home!CardClick BY <2>3 DEF Home!CardClick, Done
  <2>4. CASE Home!CardClickFails BY <2>4, <1>m, <1>d DEF Home!CardClickFails, Given
  <2>5. CASE Home!CardBehindDialog BY <2>5, <1>g DEF Home!CardBehindDialog
  <2>6. CASE Home!SelectorAvailable BY <2>6, <1>g DEF Home!SelectorAvailable
  <2> QED BY <1>3, <2>1, <2>2, <2>3, <2>4, <2>5, <2>6 DEF Home!Card
<1>4. CASE Home!Text
  <2>0. stage \in Home!TextStages \ {"modal"} => Home!AfterText[stage] \in Ways \ EarlyStages
    BY DEF Home!AfterText
  <2>1. CASE Home!DialogUnusable BY <2>1 DEF Home!DialogUnusable, Given
  <2>2. CASE Home!DialogClick BY <2>2 DEF Home!DialogClick, Done
  <2>3. CASE Home!DialogClickFails BY <2>3, <1>m, <1>d DEF Home!DialogClickFails, Given
  <2>4. CASE Home!TextMissing
    <3>1. CASE stage = "modal" BY <2>4, <3>1 DEF Home!TextMissing, Given
    <3>2. CASE stage # "modal" BY <2>0, <2>4, <3>2, <1>g DEF Home!TextMissing
    <3> QED BY <3>1, <3>2
  <2>5. CASE Home!TextClick BY <2>5 DEF Home!TextClick, Done
  <2>6. CASE Home!TextClickLost
    <3>1. CASE stage = "modal" BY <2>6, <3>1 DEF Home!TextClickLost, Given
    <3>2. CASE stage # "modal"
      BY <2>0, <2>6, <3>2 DEF Home!TextClickLost, Home!Go, Onward, Home!TypeOK
    <3> QED BY <3>1, <3>2
  <2> QED BY <1>4, <2>1, <2>2, <2>3, <2>4, <2>5, <2>6 DEF Home!Text
<1>5. CASE Home!Role
  <2>0. stage \in Home!RoleStages
        /\ Home!AfterRole[stage] # "none" => Home!AfterRole[stage] \in Ways \ EarlyStages
    BY DEF Home!AfterRole
  <2>1. CASE Home!RoleMissing
    <3>1. CASE Home!AfterRole[stage] = "none" BY <2>1, <3>1 DEF Home!RoleMissing, Given
    <3>2. CASE Home!AfterRole[stage] # "none" BY <2>0, <2>1, <3>2, <1>g DEF Home!RoleMissing
    <3> QED BY <3>1, <3>2
  <2>2. CASE Home!RoleAmbiguous BY <2>2 DEF Home!RoleAmbiguous, Given
  <2>3. CASE Home!RoleClick \/ Home!ByTextClick BY <2>3 DEF Home!RoleClick, Home!ByTextClick, Done
  <2>4. CASE Home!RoleClickFails BY <2>4, <1>m, <1>d DEF Home!RoleClickFails, Given
  <2>5. CASE Home!ByTextMissing BY <2>5, <1>g DEF Home!ByTextMissing
  <2>6. CASE Home!ByTextClickLost BY <2>6 DEF Home!ByTextClickLost, Home!Go, Onward, Home!TypeOK
  <2> QED BY <1>5, <2>1, <2>2, <2>3, <2>4, <2>5, <2>6 DEF Home!Role
<1>6. CASE Home!Popup
  <2>1. CASE Home!PopupOpens BY <2>1, <1>g DEF Home!PopupOpens
  <2>2. CASE Home!PopupMissing
    <3>1. CASE stage = "monitor" BY <2>2, <3>1 DEF Home!PopupMissing, Given
    <3>2. CASE stage # "monitor" BY <2>2, <3>2, <1>g DEF Home!PopupMissing
    <3> QED BY <3>1, <3>2
  <2>3. CASE Home!PopupUnusable BY <2>3 DEF Home!PopupUnusable, Given
  <2> QED BY <1>6, <2>1, <2>2, <2>3 DEF Home!Popup
<1>7. CASE Home!TimesOut BY <1>7 DEF Home!TimesOut, Given
<1> QED BY <1>1, <1>2, <1>3, <1>4, <1>5, <1>6, <1>7 DEF Home!Next, Home!Native

-----------------------------------------------------------------------------
(* The steps of the command. *)

\* Where no transition has begun.
LEMMA NoTransition ==
  ASSUME Home!TypeOK, ClickInv, stage \in Ways
  PROVE  transition = "no"
BY DEF Home!TypeOK, ClickInv, Ways

\* The second click of a transition is made on a page that shows DISARMED.
LEMMA SecondClick ==
  ASSUME Home!TypeOK, RearmInv, transition = "disarmed", stage = "click", modes[shown] = expected
  PROVE  \E v \in from + 1..Home!Present : modes[v] = DISARMED
<1>1. modes[shown] = DISARMED /\ from <= shown /\ modes[from] \in Armed BY DEF RearmInv
<1>2. from # shown BY <1>1, ArmingAssumption, LocationSecurityAssumption
<1>3. from \in Nat /\ shown \in Nat /\ shown <= Home!Present
  BY MonitorModes DEF Home!TypeOK, Home!Present
<1>4. shown \in from + 1..Home!Present BY <1>1, <1>2, <1>3, MonitorModes
<1> QED BY <1>1, <1>4

\* The command goes on.
LEMMA OnwardSafe ==
  ASSUME MonitorInv, Onward
  PROVE  MonitorInv'
<1> USE DEF MonitorInv
<1>1. transition = "no" /\ wanted \in Home!ArmState BY NoTransition DEF Onward, Home!TypeOK
<1>2. Len(clicks) \in Nat /\ DOMAIN clicks = 1..Len(clicks) BY ClicksDomain
<1>3. Home!TypeOK'
  <2>1. CASE Home!Untouched
    BY <2>1
       DEF Home!TypeOK, Onward, Home!Untouched, Rest, Home!world, Home!hand, Home!ghosts, Ways
  <2>2. CASE Home!Lands(wanted) /\ unsure' = TRUE
    <3>1. clicks' \in Seq(Home!ArmState) /\ flight' \subseteq 1..Len(clicks')
      BY <1>1, <2>2, LandsAppends
    <3> QED BY <2>2, <3>1 DEF Home!TypeOK, Onward, Rest, Home!world, Home!ghosts, Ways
  <2> QED BY <2>1, <2>2 DEF Onward
<1>4. ClickInv'
  <2>1. CASE Home!Untouched /\ (stage' \in EarlyStages => stage \in EarlyStages)
    <3>1. clicks' = clicks /\ unsure' = unsure /\ transition' = "no" /\ wanted' = wanted
          /\ stage' # "disarming" /\ stage' \notin {"confirm", "end"}
          /\ stage \notin {"confirm", "end"}
      BY <1>1, <2>1 DEF Home!Untouched, Home!hand, Onward, Rest, Ways
    <3> QED BY <1>1, <1>2, <2>1, <3>1 DEF ClickInv
  <2>2. CASE Home!Lands(wanted) /\ unsure' = TRUE /\ stage' \notin EarlyStages
    <3>1. DOMAIN clicks' = 1..(Len(clicks) + 1) /\ clicks'[Len(clicks) + 1] = wanted
          /\ \A i \in 1..Len(clicks) : clicks'[i] = clicks[i]
      BY <1>1, <2>2, LandsAppends
    <3>2. transition' = "no" /\ wanted' = wanted /\ stage' # "disarming"
      BY <1>1 DEF Onward, Rest, Ways
    <3>3. \A i \in DOMAIN clicks' : clicks'[i] = wanted
      BY <1>1, <1>2, <3>1 DEF ClickInv
    <3> QED BY <2>2, <3>2, <3>3 DEF ClickInv
  <2> QED BY <2>1, <2>2 DEF Onward
<1>5. ToldInv' BY DEF ToldInv, Onward, Ways
<1>6. RearmInv' BY <1>1 DEF RearmInv, Onward, Rest
<1>7. EvidenceInv' BY DEF EvidenceInv, Onward, Rest, Home!world, Home!ghosts, Home!Present
<1>8. Home!ConfirmedIsReal' BY DEF Home!ConfirmedIsReal, ToldInv, Onward, Ways
<1> QED BY <1>3, <1>4, <1>5, <1>6, <1>7, <1>8

\* What a click adds to those made, in the stages of the end.
LEMMA ClickSafe ==
  ASSUME MonitorInv, stage # "end", stage' \in {"confirm", "end"},
         UNCHANGED <<wanted, transition, from, shown, modes>>,
         \/ Home!Untouched
         \/ stage \in Ways /\ Home!Lands(wanted) /\ UNCHANGED unsure
         \/ stage \in Ways /\ Home!Lands(wanted) /\ unsure' = TRUE
         \/ /\ stage = "click" /\ modes[shown] = expected
            /\ Home!Lands(Home!Requested) /\ UNCHANGED unsure,
         stage' = "confirm" => transition # "used"
  PROVE  ClickInv' /\ RearmInv'
<1> USE DEF MonitorInv
<1>0. wanted' = wanted /\ transition' = transition /\ from' = from /\ shown' = shown
      /\ Home!Present' = Home!Present /\ modes' = modes
  BY DEF Home!Present
<1>1. Len(clicks) \in Nat /\ DOMAIN clicks = 1..Len(clicks) BY ClicksDomain
<1>2. wanted \in Home!ArmState /\ transition \in {"no", "used", "disarmed"} /\ unsure \in BOOLEAN
  BY DEF Home!TypeOK
<1>3. CASE Home!Untouched
  <2>1. clicks' = clicks /\ unsure' = unsure BY <1>3 DEF Home!Untouched, Home!hand
  <2>2. ClickInv' BY <1>0, <1>1, <1>2, <2>1 DEF ClickInv, EarlyStages
  <2>3. RearmInv' BY <1>0, <2>1 DEF RearmInv
  <2> QED BY <2>2, <2>3
<1>4. CASE transition = "no" /\ ~Home!Untouched
  <2>1. Home!Lands(wanted) /\ (stage \in Ways \/ (stage = "click" /\ unsure' = unsure))
        /\ (unsure' = unsure \/ unsure' = TRUE)
    <3>1. Home!Requested = wanted BY <1>4 DEF Home!Requested
    <3>2. CASE stage \in Ways /\ Home!Lands(wanted) /\ UNCHANGED unsure BY <3>2
    <3>3. CASE stage \in Ways /\ Home!Lands(wanted) /\ unsure' = TRUE BY <3>3
    <3>4. CASE stage = "click" /\ Home!Lands(Home!Requested) /\ UNCHANGED unsure
      <4>1. Home!Lands(wanted) BY <3>1, <3>4
      <4> QED BY <3>4, <4>1
    <3> QED BY <1>4, <3>2, <3>3, <3>4
  <2>2. DOMAIN clicks' = 1..(Len(clicks) + 1) /\ clicks'[Len(clicks) + 1] = wanted
        /\ Len(clicks') = Len(clicks) + 1 /\ \A i \in 1..Len(clicks) : clicks'[i] = clicks[i]
    BY <1>2, <2>1, LandsAppends
  <2>3. \A i \in DOMAIN clicks' : clicks'[i] = wanted
    BY <1>1, <1>4, <2>2 DEF ClickInv
  <2>4. ~unsure' => Len(clicks') <= 1
    <3>1. ~unsure' => Len(clicks) <= 0 BY <1>2, <1>4, <2>1 DEF ClickInv, Ways
    <3> QED BY <1>1, <2>2, <3>1
  <2>5. ClickInv' BY <1>0, <1>4, <2>3, <2>4 DEF ClickInv, EarlyStages
  <2>6. RearmInv' BY <1>0, <1>4 DEF RearmInv
  <2> QED BY <2>5, <2>6
<1>5. CASE transition # "no" /\ ~Home!Untouched
  <2>1. stage = "click" /\ modes[shown] = expected /\ Home!Lands(Home!Requested)
        /\ unsure' = unsure
    BY <1>5, NoTransition
  <2>2. wanted \in Armed /\ ~unsure BY <1>5 DEF ClickInv
  <2>3. Home!Requested \in Home!ArmState BY <1>2 DEF Home!Requested, Home!ArmState
  <2>4. DOMAIN clicks' = 1..(Len(clicks) + 1) /\ clicks'[Len(clicks) + 1] = Home!Requested
        /\ Len(clicks') = Len(clicks) + 1 /\ \A i \in 1..Len(clicks) : clicks'[i] = clicks[i]
    BY <2>1, <2>3, LandsAppends
  <2>5. CASE transition = "used"
    <3>1. Len(clicks) = 0 /\ Home!Requested = DISARMED BY <2>1, <2>5 DEF ClickInv, Home!Requested
    <3>2. stage' = "end" BY <2>5
    <3>3. Len(clicks') = 1 /\ clicks'[1] = DISARMED /\ DOMAIN clicks' = 1..1
      BY <2>4, <3>1
    <3>4. ClickInv' BY <1>0, <2>1, <2>2, <2>5, <3>2, <3>3 DEF ClickInv
    <3>5. wanted # DISARMED BY <2>2, ArmingAssumption, LocationSecurityAssumption
    <3>6. ~\E i \in DOMAIN clicks' : clicks'[i] = wanted BY <3>3, <3>5
    <3>7. RearmInv' BY <1>0, <2>5, <3>6 DEF RearmInv
    <3> QED BY <3>4, <3>7
  <2>6. CASE transition = "disarmed"
    <3>1. Len(clicks) = 1 /\ Home!Requested = wanted /\ clicks[1] = DISARMED
      BY <1>1, <2>1, <2>6 DEF ClickInv, Home!Requested
    <3>2. Len(clicks') = 2 /\ clicks'[1] = DISARMED /\ clicks'[2] = wanted
      BY <2>4, <3>1
    <3>3. ClickInv' BY <1>0, <2>1, <2>2, <2>6, <3>2 DEF ClickInv
    <3>4. \E v \in from + 1..Home!Present : modes[v] = DISARMED BY <2>1, <2>6, SecondClick
    <3>5. RearmInv' BY <1>0, <2>6, <3>4 DEF RearmInv
    <3> QED BY <3>3, <3>5
  <2> QED BY <1>2, <1>5, <2>5, <2>6
<1> QED BY <1>3, <1>4, <1>5

\* The hand stays well typed when something is clicked.
LEMMA HandType ==
  ASSUME Home!TypeOK, UNCHANGED Home!hand \/ Home!Lands(wanted) \/ Home!Lands(Home!Requested)
  PROVE  clicks' \in Seq(Home!ArmState) /\ flight' \subseteq 1..Len(clicks')
<1>1. CASE UNCHANGED Home!hand BY <1>1 DEF Home!TypeOK, Home!hand
<1>2. wanted \in Home!ArmState /\ Home!Requested \in Home!ArmState
  BY DEF Home!TypeOK, Home!Requested, Home!ArmState
<1>3. CASE Home!Lands(wanted) BY <1>2, <1>3, LandsAppends
<1>4. CASE Home!Lands(Home!Requested) BY <1>2, <1>4, LandsAppends
<1> QED BY <1>1, <1>3, <1>4

\* The command ends without success.
LEMMA GivenSafe ==
  ASSUME MonitorInv, Given
  PROVE  MonitorInv'
<1> USE DEF MonitorInv
<1>1. /\ stage # "end" /\ stage' = "end" /\ told' = Home!Failure
      /\ UNCHANGED <<Home!world, wanted, card, expected, wait, transition, Home!ghosts>>
  BY DEF Given, Home!Fail
<1>2. unsure' \in BOOLEAN /\ clicks' \in Seq(Home!ArmState) /\ flight' \subseteq 1..Len(clicks')
  <2>1. UNCHANGED Home!hand \/ Home!Lands(wanted) \/ Home!Lands(Home!Requested)
    BY DEF Given, Home!Untouched
  <2>2. unsure' \in BOOLEAN BY DEF Given, Home!Untouched, Home!TypeOK
  <2> QED BY <2>1, <2>2, HandType
<1>3. told' \in {"failed", "disarm_failed", "rearm_failed"} BY <1>1 DEF Home!Failure
<1>4. Home!TypeOK' BY <1>1, <1>2, <1>3 DEF Home!TypeOK, Home!world, Home!ghosts, Home!Stages
<1>5. ClickInv' /\ RearmInv'
  <2>1. UNCHANGED <<wanted, transition, from, shown, modes>> BY <1>1 DEF Home!world, Home!ghosts
  <2>2. \/ Home!Untouched
        \/ stage \in Ways /\ Home!Lands(wanted) /\ UNCHANGED unsure
        \/ stage \in Ways /\ Home!Lands(wanted) /\ unsure' = TRUE
        \/ /\ stage = "click" /\ modes[shown] = expected
           /\ Home!Lands(Home!Requested) /\ UNCHANGED unsure
    BY DEF Given, Ways, Home!Stages, Home!TextStages
  <2> QED BY <1>1, <2>1, <2>2, ClickSafe
<1>6. Home!Failure' = Home!Failure BY <1>1 DEF Home!Failure
<1>7. ToldInv' BY <1>1, <1>6 DEF ToldInv
<1>8. EvidenceInv' BY <1>1 DEF EvidenceInv, Home!world, Home!ghosts, Home!Present
<1>9. Home!ConfirmedIsReal' BY <1>3 DEF Home!ConfirmedIsReal
<1> QED BY <1>4, <1>5, <1>7, <1>8, <1>9

\* The command waits for its confirmation.
LEMMA DoneSafe ==
  ASSUME MonitorInv, Done
  PROVE  MonitorInv'
<1> USE DEF MonitorInv
<1>1. /\ stage' = "confirm" /\ wait' = [wait EXCEPT !.started = TRUE]
      /\ UNCHANGED <<Home!world, wanted, card, expected, transition, Home!ghosts, told>>
      /\ UNCHANGED unsure
  BY DEF Done, Home!Confirm
<1>2. stage # "end" /\ transition # "used"
  BY NoTransition DEF Done, Ways
<1>3. clicks' \in Seq(Home!ArmState) /\ flight' \subseteq 1..Len(clicks')
  BY HandType DEF Done
<1>4. /\ wait' \in [mode: Home!ArmState, before: Home!Entries, started: BOOLEAN,
         evidence: BOOLEAN]
      /\ wait'.mode = wait.mode /\ wait'.before = wait.before /\ wait'.evidence = wait.evidence
  BY <1>1 DEF Home!TypeOK
<1>5. Home!TypeOK' BY <1>1, <1>3, <1>4 DEF Home!TypeOK, Home!world, Home!ghosts, Home!Stages
<1>6. ClickInv' /\ RearmInv'
  <2>1. UNCHANGED <<wanted, transition, from, shown, modes>> BY <1>1 DEF Home!world, Home!ghosts
  <2>2. \/ Home!Untouched
        \/ stage \in Ways /\ Home!Lands(wanted) /\ UNCHANGED unsure
        \/ stage \in Ways /\ Home!Lands(wanted) /\ unsure' = TRUE
        \/ /\ stage = "click" /\ modes[shown] = expected
           /\ Home!Lands(Home!Requested) /\ UNCHANGED unsure
    BY DEF Done, Home!Untouched, Home!Requested
  <2> QED BY <1>1, <1>2, <2>1, <2>2, ClickSafe
<1>7. ToldInv' BY <1>1, <1>2 DEF ToldInv
<1>8. EvidenceInv' BY <1>1, <1>4 DEF EvidenceInv, Home!world, Home!ghosts, Home!Present
<1>9. Home!ConfirmedIsReal' BY <1>1, <1>2 DEF Home!ConfirmedIsReal, ToldInv
<1> QED BY <1>5, <1>6, <1>7, <1>8, <1>9

\* The transition begins.
LEMMA ObservedSafe ==
  ASSUME MonitorInv, Home!NativeObserved
  PROVE  MonitorInv'
<1> USE DEF MonitorInv
<1>1. /\ stage = "native" /\ modes[shown] # wanted
      /\ stage' = "click" /\ expected' = modes[shown]
      /\ UNCHANGED <<Home!world, Home!hand, wanted, card, told, unsure>>
  BY DEF Home!NativeObserved, Home!Untouched
<1>2. UNCHANGED <<modes, events, known, shown, clicks, flight, Home!Present>>
  BY <1>1 DEF Home!world, Home!hand, Home!Present
<1>3. transition = "no" BY <1>1, NoTransition DEF Ways, Home!Stages
<1>4. ~unsure /\ Len(clicks) = 0 /\ DOMAIN clicks = 1..0
  <2>1. ~unsure BY <1>1, <1>3 DEF ClickInv, EarlyStages
  <2>2. Len(clicks) <= 0 BY <2>1, <1>1, <1>3 DEF ClickInv
  <2> QED BY <2>1, <2>2, ClicksDomain
<1>5. modes[shown] \in Home!ArmState /\ shown \in Home!Version
  <2>1. shown \in 1..Home!Present BY DEF Home!TypeOK, Home!Present
  <2>2. Home!Present \in Nat /\ Home!Present <= MaxVersion BY MonitorModes
  <2> QED
    BY <2>1, <2>2, MonitorModes, ArmingAssumption, LocationSecurityAssumption DEF Home!Version
<1>6. ToldInv' /\ Home!ConfirmedIsReal'
  BY <1>1 DEF ToldInv, Home!ConfirmedIsReal
<1>7. CASE {wanted, modes[shown]} \subseteq Armed
  <2>1. /\ transition' = "used" /\ wait' = Home!Expects(DISARMED)
        /\ since' = Home!Present /\ from' = shown
        /\ stale' = \E v \in events : modes[v] \in {wanted, DISARMED}
    BY <1>1, <1>7 DEF Home!NativeObserved
  <2>2. wait' = [mode |-> DISARMED, before |-> known, started |-> FALSE, evidence |-> FALSE]
    BY <2>1 DEF Home!Expects
  <2>3. wait' \in [mode: Home!ArmState, before: Home!Entries, started: BOOLEAN, evidence: BOOLEAN]
    BY <2>2 DEF Home!TypeOK, Home!ArmState
  <2>4. Home!TypeOK' BY <1>1, <1>2, <1>5, <2>1, <2>3, MonitorModes DEF Home!TypeOK, Home!Stages
  <2>5. ClickInv' BY <1>1, <1>2, <1>4, <1>7, <2>1 DEF ClickInv
  <2>6. RearmInv' BY <1>1, <1>2, <1>4, <1>5, <1>7, <2>1 DEF RearmInv, Home!Version
  <2>7. EvidenceInv'
    <3>1. known.at <= Home!Present /\ known.mode = modes[known.at] BY DEF EvidenceInv
    <3>2. ~stale' => \A v \in events : modes[v] # wanted /\ modes[v] # DISARMED BY <2>1
    <3> QED BY <1>1, <1>2, <2>1, <2>2, <3>1, <3>2, MonitorModes DEF EvidenceInv
  <2> QED BY <1>6, <2>4, <2>5, <2>6, <2>7
<1>8. CASE ~({wanted, modes[shown]} \subseteq Armed)
  <2>1. UNCHANGED <<transition, wait, since, from, stale>>
    BY <1>1, <1>8 DEF Home!NativeObserved, Home!ghosts
  <2>2. Home!TypeOK' BY <1>1, <1>2, <1>5, <2>1 DEF Home!TypeOK, Home!Stages
  <2>3. ClickInv' BY <1>1, <1>2, <1>3, <1>4, <2>1 DEF ClickInv
  <2>4. RearmInv' BY <1>3, <2>1 DEF RearmInv
  <2>5. EvidenceInv' BY <1>1, <1>2, <2>1 DEF EvidenceInv
  <2> QED BY <1>6, <2>2, <2>3, <2>4, <2>5
<1> QED BY <1>7, <1>8

\* A button of the native card is clicked, for DISARMED or for the mode itself.
LEMMA NativeClickSafe ==
  ASSUME MonitorInv, Home!NativeClick
  PROVE  MonitorInv'
<1> USE DEF MonitorInv
<1>1. stage = "click" /\ modes[shown] = expected /\ Home!Lands(Home!Requested) /\ unsure' = unsure
  BY DEF Home!NativeClick
<1>2. CASE transition # "used"
  BY <1>1, <1>2, DoneSafe DEF Home!NativeClick, Done, Home!Requested
<1>3. CASE transition = "used"
  <2>1. /\ stage' = "disarming" /\ wait' = [wait EXCEPT !.started = TRUE]
        /\ UNCHANGED <<Home!world, wanted, card, expected, transition, Home!ghosts, told>>
    BY <1>3 DEF Home!NativeClick
  <2>2. Home!Requested = DISARMED /\ DISARMED \in Home!ArmState /\ Len(clicks) = 0
        /\ wanted \in Armed /\ ~unsure
    BY <1>1, <1>3 DEF Home!Requested, Home!ArmState, ClickInv
  <2>3. /\ clicks' \in Seq(Home!ArmState) /\ flight' \subseteq 1..Len(clicks')
        /\ Len(clicks') = 1 /\ DOMAIN clicks' = 1..1 /\ clicks'[1] = DISARMED
    BY <1>1, <2>2, LandsAppends
  <2>4. /\ wait' \in [mode: Home!ArmState, before: Home!Entries, started: BOOLEAN,
           evidence: BOOLEAN]
        /\ wait'.mode = wait.mode /\ wait'.before = wait.before /\ wait'.evidence = wait.evidence
    BY <2>1 DEF Home!TypeOK
  <2>5. Home!TypeOK'
    BY <1>1, <2>1, <2>3, <2>4 DEF Home!TypeOK, Home!world, Home!ghosts, Home!Stages
  <2>6. ClickInv' BY <1>1, <1>3, <2>1, <2>2, <2>3 DEF ClickInv
  <2>7. ~\E i \in DOMAIN clicks' : clicks'[i] = wanted
    BY <2>2, <2>3, ArmingAssumption, LocationSecurityAssumption
  <2>8. RearmInv' BY <1>1, <1>3, <2>1, <2>7 DEF RearmInv, Home!world, Home!ghosts
  <2>9. EvidenceInv' BY <2>1, <2>4 DEF EvidenceInv, Home!world, Home!ghosts, Home!Present
  <2>10. ToldInv' /\ Home!ConfirmedIsReal' BY <1>1, <2>1 DEF ToldInv, Home!ConfirmedIsReal
  <2> QED BY <2>5, <2>6, <2>8, <2>9, <2>10
<1> QED BY <1>2, <1>3

\* The location is disarmed, and the second click comes.
LEMMA DisarmedSafe ==
  ASSUME MonitorInv, Home!Disarmed
  PROVE  MonitorInv'
<1> USE DEF MonitorInv
<1>1. /\ stage = "disarming" /\ wait.evidence /\ known.mode = DISARMED
      /\ stage' = "click" /\ expected' = DISARMED
      /\ transition' = "disarmed" /\ wait' = Home!Expects(wanted)
      /\ UNCHANGED <<modes, events, known, shown, clicks, flight, Home!Present,
                     wanted, card, since, from, stale, told, unsure>>
  BY DEF Home!Disarmed, Home!Untouched, Home!world, Home!hand, Home!ghosts, Home!Present
<1>2. transition = "used" BY <1>1 DEF Home!TypeOK, ClickInv
<1>3. wait' = [mode |-> wanted, before |-> known, started |-> FALSE, evidence |-> FALSE]
  BY <1>1 DEF Home!Expects
<1>4. wait' \in [mode: Home!ArmState, before: Home!Entries, started: BOOLEAN, evidence: BOOLEAN]
  BY <1>3 DEF Home!TypeOK
<1>5. Home!TypeOK' BY <1>1, <1>4 DEF Home!TypeOK, Home!Stages, Home!ArmState
<1>6. ClickInv' BY <1>1, <1>2, ClicksDomain DEF ClickInv
<1>7. RearmInv' BY <1>1, <1>2 DEF RearmInv
<1>8. EvidenceInv'
  <2>1. known.at \in Nat /\ since \in Nat BY MonitorModes DEF Home!TypeOK, Home!Entries
  <2>2. known.at <= Home!Present /\ known.mode = modes[known.at] /\ since <= Home!Present
        /\ modes[known.at] = DISARMED
    BY <1>1 DEF EvidenceInv
  <2>3. ~stale =>
          /\ \A v \in events : modes[v] = wanted => v > since
          /\ \A v \in events : modes[v] = DISARMED => v > since
          /\ known.at >= since
    BY <1>1, <1>2 DEF EvidenceInv
  <2>4. ~stale => known.at \in since..known.at BY <2>1, <2>3
  <2>5. wait'.mode = wanted /\ wait'.before = known /\ wait'.evidence = FALSE BY <1>3
  <2> QED BY <1>1, <2>2, <2>3, <2>4, <2>5 DEF EvidenceInv
<1>9. ToldInv' /\ Home!ConfirmedIsReal'
  <2>1. told = "none" BY <1>1 DEF ToldInv
  <2> QED BY <1>1, <2>1 DEF ToldInv, Home!ConfirmedIsReal
<1> QED BY <1>5, <1>6, <1>7, <1>8, <1>9

\* The answer that the mode is set.
LEMMA ConfirmedSafe ==
  ASSUME MonitorInv, Home!Confirmed
  PROVE  MonitorInv'
<1> USE DEF MonitorInv
<1>1. /\ stage = "confirm" /\ wait.evidence
      /\ stage' = "end" /\ told' = "confirmed"
      /\ UNCHANGED <<modes, events, known, shown, clicks, flight, Home!Present, unsure,
                     wanted, card, expected, wait, transition, since, from, stale>>
  BY DEF Home!Confirmed, Home!Untouched, Home!world, Home!hand, Home!ghosts, Home!Present
<1>2. Home!TypeOK' BY <1>1 DEF Home!TypeOK, Home!Stages
<1>3. ClickInv' BY <1>1 DEF ClickInv, EarlyStages
<1>4. ToldInv' BY <1>1 DEF ToldInv
<1>5. RearmInv' BY <1>1 DEF RearmInv
<1>6. EvidenceInv' BY <1>1 DEF EvidenceInv
<1>7. Home!ConfirmedIsReal'
  <2>1. known.at \in Nat /\ since \in Nat /\ Home!Present \in Nat
    BY MonitorModes DEF Home!TypeOK, Home!Entries
  <2>2. /\ known.at <= Home!Present /\ known.mode = modes[known.at] /\ known.mode = wait.mode
        /\ wait.mode = IF transition = "used" THEN DISARMED ELSE wanted
    BY <1>1 DEF EvidenceInv
  <2>3. transition # "used" BY <1>1 DEF ClickInv
  <2>4. modes[known.at] = wanted BY <2>2, <2>3
  <2>5. ASSUME ~stale
        PROVE  IF transition = "no" THEN \E v \in since..Home!Present : modes[v] = wanted
               ELSE \E v \in since..Home!Present :
                      modes[v] = DISARMED /\ \E w \in v + 1..Home!Present : modes[w] = wanted
    <3>1. known.at \in since..Home!Present BY <1>1, <2>1, <2>2, <2>5 DEF EvidenceInv
    <3>2. CASE transition = "no" BY <2>4, <3>1, <3>2
    <3>3. CASE transition = "disarmed"
      <4>1. /\ wait.before.at \in since..known.at /\ modes[wait.before.at] = DISARMED
            /\ known.at > wait.before.at
        BY <1>1, <2>5, <3>3 DEF EvidenceInv
      <4>2. wait.before.at \in since..Home!Present
            /\ known.at \in wait.before.at + 1..Home!Present
        BY <2>1, <2>2, <4>1
      <4> QED BY <2>4, <3>3, <4>1, <4>2
    <3> QED BY <2>3, <3>2, <3>3 DEF Home!TypeOK
  <2> QED BY <1>1, <2>5 DEF Home!ConfirmedIsReal
<1> QED BY <1>2, <1>3, <1>4, <1>5, <1>6, <1>7

-----------------------------------------------------------------------------
(* The steps of the location, the pages and the store. *)

\* The location changes.
LEMMA ChangeSafe ==
  ASSUME MonitorInv, NEW m \in Home!ArmState, Home!Becomes(m),
         UNCHANGED <<known, shown, clicks, wait, Home!command>>, flight' \subseteq flight
  PROVE  MonitorInv'
<1> USE DEF MonitorInv
<1>1. UNCHANGED <<known, shown, clicks, wait, wanted, stage, card, expected, transition,
                  unsure, since, from, stale, told>>
  BY DEF Home!command, Home!ghosts
<1>2. /\ modes' \in Seq(Home!ArmState) /\ Home!Present' \in Home!Version
      /\ Home!Present <= Home!Present'
      /\ events' \subseteq 1..Home!Present'
      /\ \A v \in 1..Home!Present : modes'[v] = modes[v]
      /\ \A v \in events' : v \in events \/ v > Home!Present
  BY ModeAppends
<1>3. Home!Present \in Nat /\ Home!Present' \in Nat /\ since \in Nat /\ from \in Nat /\ from >= 1
      /\ since >= 1 /\ shown \in 1..Home!Present /\ events \subseteq 1..Home!Present
      /\ known.at \in Nat /\ known.at >= 1 /\ known.at <= Home!Present /\ since <= Home!Present
  BY <1>2, MonitorModes DEF Home!TypeOK, Home!Present, Home!Entries, EvidenceInv, Home!Version
<1>4. Home!TypeOK'
  <2>1. shown' \in 1..Home!Present' BY <1>1, <1>2, <1>3
  <2> QED BY <1>1, <1>2, <2>1 DEF Home!TypeOK, Home!Present
<1>5. ClickInv' BY <1>1 DEF ClickInv
<1>6. ToldInv' BY <1>1 DEF ToldInv, Home!Failure
<1>7. RearmInv'
  <2>1. \A v \in from + 1..Home!Present : v \in from + 1..Home!Present' /\ modes'[v] = modes[v]
    BY <1>2, <1>3
  <2>2. transition # "no" => modes'[from] = modes[from]
    BY <1>2, <1>3 DEF RearmInv
  <2> QED BY <1>1, <2>1, <2>2 DEF RearmInv
<1>8. EvidenceInv'
  <2>1. known.at <= Home!Present' /\ known.mode = modes'[known.at] /\ since <= Home!Present'
    BY <1>2, <1>3 DEF EvidenceInv
  <2>2. \A v \in events' : v > since \/ (v \in events /\ modes'[v] = modes[v])
    <3> TAKE v \in events'
    <3>1. CASE v \in events BY <1>2, <1>3, <3>1
    <3>2. CASE v > Home!Present
      <4>1. v \in 1..Home!Present' BY <1>2
      <4> QED BY <1>3, <3>2, <4>1
    <3> QED BY <1>2, <3>1, <3>2
  <2>3. ~stale /\ transition = "disarmed" => modes'[wait.before.at] = modes[wait.before.at]
    <3>1. ~stale /\ transition = "disarmed" =>
            wait.before.at \in 1..Home!Present
      BY <1>3 DEF EvidenceInv
    <3> QED BY <1>2, <3>1
  <2> QED BY <1>1, <2>1, <2>2, <2>3 DEF EvidenceInv
<1>9. Home!ConfirmedIsReal'
  <2>1. \A v \in since..Home!Present : v \in since..Home!Present' /\ modes'[v] = modes[v]
    BY <1>2, <1>3
  <2>2. \A v \in since..Home!Present : \A w \in v + 1..Home!Present :
          w \in v + 1..Home!Present' /\ modes'[w] = modes[w]
    BY <1>2, <1>3
  <2> QED BY <1>1, <2>1, <2>2 DEF Home!ConfirmedIsReal
<1> QED BY <1>4, <1>5, <1>6, <1>7, <1>8, <1>9

\* Somebody changes it, or a click has its effect.
LEMMA LocationSafe ==
  ASSUME MonitorInv, Home!SomebodyChanges \/ \E i \in 1..Len(clicks) : Home!Obeyed(i)
  PROVE  MonitorInv'
<1>1. CASE Home!SomebodyChanges BY <1>1, ChangeSafe DEF Home!SomebodyChanges, Home!hand
<1>2. CASE \E i \in 1..Len(clicks) : Home!Obeyed(i)
  <2>1. PICK i \in 1..Len(clicks) : Home!Obeyed(i) BY <1>2
  <2>2. clicks[i] \in Home!ArmState BY ElementOfSeq DEF MonitorInv, Home!TypeOK
  <2>3. Home!Becomes(clicks[i]) /\ flight' \subseteq flight
        /\ UNCHANGED <<known, shown, clicks, wait, Home!command>>
    BY <2>1 DEF Home!Obeyed
  <2> QED BY <2>2, <2>3, ChangeSafe
<1> QED BY <1>1, <1>2

\* The pages follow.
LEMMA RendersSafe ==
  ASSUME MonitorInv, Home!Renders
  PROVE  MonitorInv'
<1> USE DEF MonitorInv
<1>1. /\ shown' \in shown + 1..Home!Present
      /\ UNCHANGED <<modes, events, known, clicks, flight, wait, wanted, stage, card, expected,
                     transition, unsure, since, from, stale, told, Home!Present>>
  BY DEF Home!Renders, Home!hand, Home!command, Home!ghosts, Home!Present
<1>2. shown \in 1..Home!Present /\ Home!Present \in Nat /\ from \in Nat
  BY MonitorModes DEF Home!TypeOK, Home!Present
<1>3. shown' \in 1..Home!Present /\ shown' > shown /\ (from <= shown => from <= shown')
  BY <1>1, <1>2
<1>4. Home!TypeOK' BY <1>1, <1>3 DEF Home!TypeOK, Home!Present
<1>5. ClickInv' BY <1>1 DEF ClickInv
<1>6. ToldInv' BY <1>1 DEF ToldInv, Home!Failure
<1>7. RearmInv' BY <1>1, <1>3 DEF RearmInv
<1>8. EvidenceInv' BY <1>1 DEF EvidenceInv
<1>9. Home!ConfirmedIsReal' BY <1>1 DEF Home!ConfirmedIsReal
<1> QED BY <1>4, <1>5, <1>6, <1>7, <1>8, <1>9

\* The store takes a version of the location, and the confirmation hears of it.
LEMMA StoreSafe ==
  ASSUME MonitorInv, NEW v \in 1..Home!Present, NEW e \in BOOLEAN,
         UNCHANGED <<modes, shown, Home!hand, Home!command>>, events' \subseteq events,
         known' = [mode |-> modes[v], at |-> v],
         wait' = [wait EXCEPT !.evidence = e],
         e => modes[v] = wait.mode,
         v >= known.at, ~stale /\ e => v >= since,
         ~stale /\ e /\ transition = "disarmed" => v > wait.before.at
  PROVE  MonitorInv'
<1> USE DEF MonitorInv
<1>1. UNCHANGED <<modes, shown, clicks, flight, wanted, stage, card, expected,
                  transition, unsure, since, from, stale, told, Home!Present>>
  BY DEF Home!hand, Home!command, Home!ghosts, Home!Present
<1>2. /\ wait' \in [mode: Home!ArmState, before: Home!Entries, started: BOOLEAN,
         evidence: BOOLEAN]
      /\ wait'.mode = wait.mode /\ wait'.before = wait.before /\ wait'.evidence = e
  BY DEF Home!TypeOK
<1>3. /\ known' \in Home!Entries /\ known'.at = v /\ known'.mode = modes[v]
      /\ Home!Present \in Nat /\ v \in Nat /\ v <= Home!Present /\ since \in Nat
      /\ known.at \in Nat
  <2>1. Home!Present \in Home!Version /\ Home!Present \in Nat /\ modes[v] \in Home!ArmState
    BY MonitorModes
  <2>2. v \in Home!Version BY <2>1, ArmingAssumption, LocationSecurityAssumption DEF Home!Version
  <2> QED BY <2>1, <2>2, MonitorModes DEF Home!TypeOK, Home!Entries
<1>4. Home!TypeOK' BY <1>1, <1>2, <1>3 DEF Home!TypeOK, Home!Present
<1>5. ClickInv' BY <1>1 DEF ClickInv
<1>6. ToldInv' BY <1>1 DEF ToldInv, Home!Failure
<1>7. RearmInv' BY <1>1 DEF RearmInv
<1>8. EvidenceInv'
  <2>1. ASSUME ~stale, transition = "disarmed"
        PROVE  wait.before.at \in since..v /\ modes[wait.before.at] = DISARMED
    <3>1. wait.before.at \in since..known.at /\ modes[wait.before.at] = DISARMED
      BY <2>1 DEF EvidenceInv
    <3> QED BY <1>3, <3>1
  <2>2. since <= Home!Present /\ wait.mode = IF transition = "used" THEN DISARMED ELSE wanted
    BY DEF EvidenceInv
  <2>3. ~stale =>
          /\ \A w \in events' : modes[w] = wanted => w > since
          /\ transition # "no" => \A w \in events' : modes[w] = DISARMED => w > since
    BY DEF EvidenceInv
  <2> QED BY <1>1, <1>2, <1>3, <2>1, <2>2, <2>3 DEF EvidenceInv
<1>9. Home!ConfirmedIsReal' BY <1>1 DEF Home!ConfirmedIsReal
<1> QED BY <1>4, <1>5, <1>6, <1>7, <1>8, <1>9

\* What counts as evidence agrees with the entry.
LEMMA HeardAgrees ==
  ASSUME MonitorInv, NEW entry \in Home!Entries
  PROVE  Home!Heard(entry) \in BOOLEAN /\ (Home!Heard(entry) => entry.mode = wait.mode)
BY DEF MonitorInv, Home!TypeOK, Home!Heard

\* An event arrives.
LEMMA PushSafe ==
  ASSUME MonitorInv, NEW v \in Home!Version, Home!Push(v)
  PROVE  MonitorInv'
<1> USE DEF MonitorInv
<1>1. /\ v \in events /\ events' = events \ {v}
      /\ UNCHANGED <<modes, shown, Home!hand, Home!command>>
  BY DEF Home!Push
<1>2. v \in 1..Home!Present /\ Home!Present \in Nat
  BY <1>1, MonitorModes DEF Home!TypeOK, Home!Present
<1>3. CASE v > known.at
  <2> DEFINE entry == [mode |-> modes[v], at |-> v]
  <2>1. known' = entry /\ wait' = [wait EXCEPT !.evidence = Home!Heard(entry)]
    BY <1>3 DEF Home!Push
  <2>2. entry \in Home!Entries /\ entry.mode = modes[v] BY <1>2, MonitorModes DEF Home!Entries
  <2>3. Home!Heard(entry) \in BOOLEAN /\ (Home!Heard(entry) => modes[v] = wait.mode)
    BY <2>2, HeardAgrees
  <2>4. v \in Nat /\ known.at \in Nat /\ since \in Nat
    BY MonitorModes DEF Home!TypeOK, Home!Entries
  <2>5. ~stale /\ Home!Heard(entry) => v >= since
    <3>1. ~stale /\ modes[v] = wait.mode => v > since BY <1>1 DEF EvidenceInv
    <3> QED BY <2>3, <2>4, <3>1
  <2>6. ~stale /\ transition = "disarmed" => v > wait.before.at
    <3>1. ~stale /\ transition = "disarmed" => wait.before.at \in since..known.at
      BY DEF EvidenceInv
    <3> QED BY <1>3, <2>4, <3>1
  <2> HIDE DEF entry
  <2>7. known' = [mode |-> modes[v], at |-> v] BY <2>1 DEF entry
  <2> QED BY <1>1, <1>2, <1>3, <2>1, <2>3, <2>4, <2>5, <2>6, <2>7, StoreSafe
<1>4. CASE ~(v > known.at)
  <2>1. UNCHANGED <<modes, known, shown, wait, clicks, flight, wanted, stage, card, expected,
                    transition, unsure, since, from, stale, told, Home!Present>>
    BY <1>1, <1>4 DEF Home!Push, Home!hand, Home!command, Home!ghosts, Home!Present
  <2>2. events' \subseteq events BY <1>1
  <2>3. Home!TypeOK' BY <2>1, <2>2 DEF Home!TypeOK, Home!Present
  <2>4. ClickInv' BY <2>1 DEF ClickInv
  <2>5. ToldInv' BY <2>1 DEF ToldInv, Home!Failure
  <2>6. RearmInv' BY <2>1 DEF RearmInv
  <2>7. EvidenceInv' BY <2>1, <2>2 DEF EvidenceInv
  <2>8. Home!ConfirmedIsReal' BY <2>1 DEF Home!ConfirmedIsReal
  <2> QED BY <2>3, <2>4, <2>5, <2>6, <2>7, <2>8
<1> QED BY <1>3, <1>4

\* A status read.
LEMMA ReadSafe ==
  ASSUME MonitorInv, Home!Read
  PROVE  MonitorInv'
<1> USE DEF MonitorInv
<1> DEFINE entry == [mode |-> modes[Home!Present], at |-> Home!Present]
           e == IF wait.started THEN entry.mode = wait.mode
                ELSE IF entry = known THEN wait.evidence ELSE Home!Heard(entry)
<1>1. /\ known' = entry /\ UNCHANGED <<modes, events, shown, Home!hand, Home!command>>
  BY DEF Home!Read
<1>2. wait' = [wait EXCEPT !.evidence = e] BY DEF Home!Read, Home!TypeOK
<1>3. Home!Present \in 1..Home!Present /\ Home!Present \in Nat /\ entry \in Home!Entries
  BY MonitorModes DEF Home!Entries
<1>4. entry.mode = modes[Home!Present] OBVIOUS
<1>5. known.at \in Nat /\ known.at <= Home!Present /\ since <= Home!Present /\ since \in Nat
      /\ wait.mode = IF transition = "used" THEN DISARMED ELSE wanted
  BY MonitorModes DEF Home!TypeOK, Home!Entries, EvidenceInv
<1>6. wait.evidence \in BOOLEAN /\ (wait.evidence => known.mode = wait.mode)
  BY DEF Home!TypeOK, EvidenceInv
<1>7. Home!Heard(entry) \in BOOLEAN /\ (Home!Heard(entry) => entry.mode = wait.mode)
  BY <1>3, HeardAgrees
<1> HIDE DEF entry
<1>8. e \in BOOLEAN /\ (e => modes[Home!Present] = wait.mode)
  BY <1>4, <1>6, <1>7
<1>9. ASSUME ~stale, e, transition = "disarmed"
      PROVE  Home!Present > wait.before.at
  <2>1. wait.before.at \in since..known.at /\ modes[wait.before.at] = DISARMED
    BY <1>9 DEF EvidenceInv
  <2>2. wanted # DISARMED BY <1>9, ArmingAssumption, LocationSecurityAssumption DEF ClickInv
  <2>3. modes[Home!Present] = wanted BY <1>5, <1>8, <1>9
  <2>4. wait.before.at # Home!Present BY <2>1, <2>2, <2>3
  <2> QED BY <1>3, <1>5, <2>1, <2>4
<1> HIDE DEF e
<1>10. known' = [mode |-> modes[Home!Present], at |-> Home!Present] BY <1>1 DEF entry
<1>11. events' \subseteq events BY <1>1
<1> QED BY <1>1, <1>2, <1>3, <1>5, <1>8, <1>9, <1>10, <1>11, StoreSafe

-----------------------------------------------------------------------------
(* The invariant, and what follows from it. *)

\* The beginning of a command.
LEMMA MonitorBegins ==
  ASSUME Home!Init
  PROVE  MonitorInv
<1> USE DEF Home!Init
<1>1. modes \in Seq(Home!ArmState) /\ Len(modes) \in 1..2
  <2>1. PICK n \in {1, 2} : modes \in [1..n -> Home!ArmState] OBVIOUS
  <2>2. modes \in Seq(Home!ArmState) BY <2>1, SeqDef
  <2>3. Len(modes) \in Nat /\ DOMAIN modes = 1..Len(modes) /\ DOMAIN modes = 1..n
    BY <2>1, <2>2, LenProperties
  <2>4. Len(modes) = n BY <2>1, <2>3
  <2> QED BY <2>1, <2>2, <2>4
<1>2. Home!Present \in 1..2 /\ Home!Present \in Home!Version /\ 1 \in Home!Version
      /\ modes[1] \in Home!ArmState
  <2>1. Home!Present \in 1..2 BY <1>1 DEF Home!Present
  <2>2. modes[1] \in Home!ArmState BY <1>1, <2>1, ElementOfSeq DEF Home!Present
  <2> QED BY <2>1, <2>2, ArmingAssumption, LocationSecurityAssumption DEF Home!Version
<1>3. shown \in Home!Version
  BY <1>2, ArmingAssumption, LocationSecurityAssumption DEF Home!Version
<1>4. clicks = <<>> /\ clicks \in Seq(Home!ArmState) /\ Len(clicks) = 0 /\ DOMAIN clicks = 1..0
      /\ flight = {}
  BY EmptySeq, LenProperties
<1>5. wait = [mode |-> wanted, before |-> known, started |-> FALSE, evidence |-> FALSE]
      /\ known \in Home!Entries /\ known.at = 1 /\ known.mode = modes[1]
  BY <1>2 DEF Home!Expects, Home!Entries
<1>6. Home!TypeOK
  <2>1. events \subseteq 1..Len(modes) BY <1>2 DEF Home!Present
  <2>2. wait \in [mode: Home!ArmState, before: Home!Entries, started: BOOLEAN, evidence: BOOLEAN]
    BY <1>5
  <2> QED BY <1>1, <1>2, <1>3, <1>4, <1>5, <2>1, <2>2 DEF Home!TypeOK, Home!Stages, Home!Present
<1>7. ClickInv BY <1>4 DEF ClickInv
<1>8. ToldInv BY DEF ToldInv
<1>9. RearmInv BY DEF RearmInv
<1>10. EvidenceInv
  <2>1. ~stale => \A v \in events : modes[v] # wanted OBVIOUS
  <2>2. known.at <= Home!Present /\ since = Home!Present /\ wait.evidence = FALSE
        /\ wait.mode = wanted
    BY <1>2, <1>5
  <2> QED BY <1>2, <1>5, <2>1, <2>2 DEF EvidenceInv
<1>11. Home!ConfirmedIsReal BY DEF Home!ConfirmedIsReal
<1> QED BY <1>6, <1>7, <1>8, <1>9, <1>10, <1>11 DEF MonitorInv

\* Every step keeps it.
LEMMA MonitorSteps ==
  ASSUME MonitorInv, Home!Next
  PROVE  MonitorInv'
<1>1. Home!TypeOK BY DEF MonitorInv
<1>2. CASE Home!Environment
  BY <1>2, LocationSafe, RendersSafe, ReadSafe, PushSafe DEF Home!Environment
<1>3. CASE ~Home!Environment
  BY <1>1, <1>3, Forms, OnwardSafe, GivenSafe, DoneSafe, ObservedSafe, NativeClickSafe,
     DisarmedSafe, ConfirmedSafe
<1> QED BY <1>2, <1>3

\* Nothing happens.
LEMMA MonitorStutters ==
  ASSUME MonitorInv, UNCHANGED Home!vars
  PROVE  MonitorInv'
<1>1. UNCHANGED <<modes, events, known, shown, wait, clicks, flight, wanted, stage, card,
                  expected, transition, unsure, since, from, stale, told, Home!Present>>
  BY DEF Home!vars, Home!world, Home!hand, Home!ghosts, Home!Present
<1> USE DEF MonitorInv
<1>2. Home!TypeOK' BY <1>1 DEF Home!TypeOK, Home!Present
<1>3. ClickInv' BY <1>1 DEF ClickInv
<1>4. ToldInv' BY <1>1 DEF ToldInv, Home!Failure
<1>5. RearmInv' BY <1>1 DEF RearmInv
<1>6. EvidenceInv' BY <1>1 DEF EvidenceInv
<1>7. Home!ConfirmedIsReal' BY <1>1 DEF Home!ConfirmedIsReal
<1> QED BY <1>2, <1>3, <1>4, <1>5, <1>6, <1>7

\* The clicks a caller can rely on.
LEMMA MonitorImplies ==
  ASSUME MonitorInv
  PROVE  Home!MonitorIsSafe
<1> USE DEF MonitorInv
<1>1. Len(clicks) \in Nat /\ DOMAIN clicks = 1..Len(clicks) BY ClicksDomain
<1>2. wanted \in Home!ArmState /\ transition \in {"no", "used", "disarmed"} BY DEF Home!TypeOK
<1>3. transition # "no" => wanted # DISARMED /\ Len(clicks) <= 2 /\ ~unsure
  BY <1>1, <1>2, ArmingAssumption, LocationSecurityAssumption DEF ClickInv
<1>4. transition # "no" => \A i \in DOMAIN clicks :
         \/ i = 1 /\ clicks[i] = DISARMED
         \/ i = 2 /\ clicks[i] = wanted
  <2> SUFFICES ASSUME transition # "no", NEW i \in DOMAIN clicks
               PROVE  (i = 1 /\ clicks[i] = DISARMED) \/ (i = 2 /\ clicks[i] = wanted)
    OBVIOUS
  <2>1. i = 1 \/ i = 2 BY <1>1, <1>3
  <2> QED BY <1>1, <2>1 DEF ClickInv
<1>5. ASSUME NEW m, NEW k \in Nat, \A i \in DOMAIN clicks : clicks[i] = m => i = k
      PROVE  Home!Clicked(m) <= 1
  BY <1>5, ClickedOnce
<1>6. Home!OneClick
  <2>1. ~unsure => Home!Clicked(wanted) <= 1
    <3>1. CASE transition = "no"
      <4>1. ~unsure => Len(clicks) <= 1 BY <1>1, <3>1 DEF ClickInv
      <4> QED BY <4>1, ClickedSome
    <3>2. CASE transition # "no"
      <4>1. \A i \in DOMAIN clicks : clicks[i] = wanted => i = 2 BY <1>3, <1>4, <3>2
      <4> QED BY <4>1, <1>5
    <3> QED BY <3>1, <3>2
  <2>2. ASSUME NEW m \in Home!ArmState \ {wanted}, Home!Clicked(m) > 0
        PROVE  m = DISARMED /\ transition # "no" /\ clicks[1] = m /\ Home!Clicked(m) = 1
    <3>1. PICK i \in DOMAIN clicks : clicks[i] = m BY <2>2, ClickedSome
    <3>2. transition # "no" BY <2>2, <3>1 DEF ClickInv
    <3>3. i = 1 /\ m = DISARMED BY <1>4, <2>2, <3>1, <3>2
    <3>4. \A j \in DOMAIN clicks : clicks[j] = m => j = 1 BY <1>3, <1>4, <3>2, <3>3
    <3>5. Home!Clicked(m) <= 1 /\ Home!Clicked(m) \in Nat BY <1>5, <3>4, ClickedSome
    <3> QED BY <2>2, <3>1, <3>2, <3>3, <3>5
  <2> QED BY <2>1, <2>2 DEF Home!OneClick
<1>7. Home!PartialIsTold
  <2> SUFFICES ASSUME told # "none", wanted # DISARMED, Home!Clicked(DISARMED) > 0
               PROVE  told = "confirmed"
                      \/ told = (IF transition = "disarmed" THEN "rearm_failed"
                                    ELSE "disarm_failed")
    BY DEF Home!PartialIsTold
  <2>1. PICK i \in DOMAIN clicks : clicks[i] = DISARMED BY ClickedSome
  <2>2. transition # "no" BY <2>1 DEF ClickInv
  <2>3. told \in {"confirmed", Home!Failure} BY DEF ToldInv
  <2> QED BY <1>2, <2>2, <2>3 DEF Home!Failure
<1>8. Home!RearmsDisarmed
  <2> SUFFICES ASSUME transition # "no", Home!Clicked(wanted) > 0
               PROVE  \E v \in from + 1..Home!Present : modes[v] = DISARMED
    BY DEF Home!RearmsDisarmed
  <2>1. \E i \in DOMAIN clicks : clicks[i] = wanted BY ClickedSome
  <2> QED BY <2>1 DEF RearmInv
<1> QED BY <1>6, <1>7, <1>8 DEF Home!MonitorIsSafe

-----------------------------------------------------------------------------
(* The two together. *)

\* A behaviour of both is one of each: the way that is not taken rests.
LEMMA WorldParts == WorldSpec => Spec /\ Home!Spec
<1>1. WorldInit => Init /\ Home!Init
  BY DEF WorldInit
<1>2. [WorldNext]_<<part, vars, monitorVars>> => [Next]_vars /\ [Home!Next]_(Home!vars)
  BY DEF WorldNext, monitorVars, Home!vars, Home!world, Home!hand, Home!ghosts
<1> QED BY <1>1, <1>2, PTL DEF WorldSpec, Spec, Home!Spec

(* Of all ways to a mode's control one is clicked, unless a click was lost  *)
(* with its page; a transition through DISARMED clicks again only after the *)
(* location was disarmed and is told when it fails; and what is confirmed   *)
(* is so: #executeLocationAction and #executeLocation.                      *)
THEOREM HomeMonitorIsSafe == WorldSpec => []MonitorIsSafe
<1>1. Home!Init => MonitorInv BY MonitorBegins
<1>2. MonitorInv /\ [Home!Next]_(Home!vars) => MonitorInv' BY MonitorSteps, MonitorStutters
<1>3. MonitorInv => MonitorIsSafe BY MonitorImplies DEF MonitorIsSafe
<1> QED BY WorldParts, <1>1, <1>2, <1>3, PTL DEF Home!Spec

(* What is proved of requests holds of the composition that the run checks. *)
THEOREM ArmingIsSound ==
  WorldSpec => []RequestsAreCertain /\ []AnswersAreReal /\ []Converged
BY WorldParts, LocationRequestsAreCertain, LocationAnswersAreReal, LocationConverges, PTL
=============================================================================
