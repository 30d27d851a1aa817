------------------------- MODULE CommandLanesProofs -------------------------
(***************************************************************************)
(* Proofs about CommandLanes, for every set of calls, targets and slots,   *)
(* and about CommandPage, for every finite set of jobs.                    *)
(***************************************************************************)
EXTENDS CommandAnswers, SequenceTheorems, FiniteSetTheorems, TLAPS

(* What #enqueue, the turn and queueTail.finally keep true of the promise  *)
(* chains: a tail is the newest operation of its target, a missing tail    *)
(* means a drained lane, and an operation waits for the one just before.   *)
Chains ==
  /\ \A c \in Admitted : order[c] \in 1..admissions /\ opOf[c] = c
  /\ \A c, d \in Admitted : order[c] = order[d] => c = d
  /\ \A t \in Target : queues[t] # None =>
       queues[t] \in Admitted /\ TargetOf[queues[t]] = t
  /\ \A d \in Admitted : prev[d] # None =>
       prev[d] \in Admitted /\ SameLane(prev[d], d)

TailIsLast ==
  \A c \in Admitted :
    IF queues[TargetOf[c]] = None THEN phase[c] = "retired"
    ELSE order[c] <= order[queues[TargetOf[c]]]

PrevIsNext ==
  \A c, d \in Admitted : SameLane(c, d) /\ Before(c, d) =>
    IF prev[d] = None THEN phase[c] = "retired"
    ELSE order[c] <= order[prev[d]]

LaneInv == TypeOK /\ Chains /\ TailIsLast /\ PrevIsNext /\ InOrder

(* What the intent map keeps true: its entry is the newest intent of the   *)
(* slot, and any other intent that is still waiting or at work is aborted. *)
IntentInv ==
  /\ aborted \subseteq Admitted
  /\ \A s \in Slot : lightIntents[s] # None =>
       /\ lightIntents[s] \in Admitted
       /\ KindOf[lightIntents[s]] = "light" /\ SlotOf[lightIntents[s]] = s
       /\ \A c \in Admitted : SameSlot(c, lightIntents[s]) =>
            order[c] <= order[lightIntents[s]]
  /\ \A c \in Admitted :
       KindOf[c] = "light" /\ lightIntents[SlotOf[c]] # c /\ Busy(c)
         => c \in aborted

(* The remembered operations are the last ones admitted, in order. *)
MemoryInv ==
  /\ Len(dedupe) <= admissions /\ Len(dedupe) <= DedupeLimit
  /\ Len(dedupe) < admissions => Len(dedupe) = DedupeLimit
  /\ \A i \in DOMAIN dedupe :
       dedupe[i] \in Admitted /\ order[dedupe[i]] = admissions - Len(dedupe) + i
  /\ \A c \in Admitted : order[c] > admissions - Len(dedupe) =>
       \E i \in DOMAIN dedupe : dedupe[i] = c

(* A queued operation whose caller has an answer was expired or aborted. *)
AnswerInv ==
  \A c \in Call :
    /\ phase[c] = "absent" => result[c] = "pending"
    /\ phase[c] = "queued" /\ result[c] # "pending" =>
         Expired(c) \/ c \in aborted

-----------------------------------------------------------------------------
(* Evict returns a sequence of calls that is no longer than its argument.  *)
LEMMA EvictType ==
  ASSUME NEW s \in Seq(Call)
  PROVE  /\ Evict(s) \in Seq(Call)
         /\ Len(Evict(s)) = IF Len(s) > DedupeLimit THEN DedupeLimit ELSE Len(s)
         /\ \A i \in 1..Len(Evict(s)) :
              Evict(s)[i] = s[i + (Len(s) - Len(Evict(s)))]
  <1>1. CASE Len(s) > DedupeLimit
    <2> DEFINE m == Len(s) - DedupeLimit + 1
    <2>1. m \in 1..Len(s) /\ Len(s) \in Nat
      BY <1>1, CommandLanesAssumption
    <2>2. Evict(s) = SubSeq(s, m, Len(s))
      BY <1>1 DEF Evict
    <2>3. /\ SubSeq(s, m, Len(s)) \in Seq(Call)
          /\ Len(SubSeq(s, m, Len(s))) = Len(s) - m + 1
          /\ \A i \in 1..(Len(s) - m + 1) : SubSeq(s, m, Len(s))[i] = s[m + i - 1]
      BY <2>1
    <2> QED BY <1>1, <2>1, <2>2, <2>3, CommandLanesAssumption
  <1>2. CASE ~(Len(s) > DedupeLimit)
    BY <1>2 DEF Evict
  <1> QED BY <1>1, <1>2

(* The size of #queues is a natural number. *)
LEMMA QueueSizeType ==
  ASSUME NEW q PROVE QueueSize(q) \in Nat
  <1>1. IsFiniteSet({t \in Target : q[t] # None})
    BY CommandLanesAssumption, FS_Subset
  <1> QED BY <1>1, FS_CardinalityType DEF QueueSize

(* Rejecting keeps results results. *)
LEMMA RejectType ==
  ASSUME NEW res \in [Call -> Results], NEW ops, NEW code \in Results
  PROVE  Reject(res, ops, code) \in [Call -> Results]
  BY DEF Reject

(* Every step of the service keeps its state well formed. *)
LEMMA TypeStep == TypeOK /\ [Next]_vars => TypeOK'
  <1> SUFFICES ASSUME TypeOK, [Next]_vars PROVE TypeOK'
    OBVIOUS
  <1> USE CommandLanesAssumption
  <1>1. ASSUME NEW c \in Call, Join(c) PROVE TypeOK'
    BY <1>1 DEF TypeOK, Join, Remembered, serviceVars, envVars, orderVars
  <1>2. ASSUME NEW c \in Call, Refuse(c) PROVE TypeOK'
    BY <1>2 DEF TypeOK, Refuse, serviceVars, envVars, orderVars
  <1>3. ASSUME NEW c \in Call, Admit(c) PROVE TypeOK'
    <2>1. dedupe' \in Seq(Call)
      BY <1>3, EvictType, AppendProperties DEF TypeOK, Admit
    <2>2. lightIntents' \in [Slot -> Call \cup {None}] /\ aborted' \in SUBSET Call
      BY <1>3 DEF TypeOK, Admit, TakeSlot
    <2>3. result' \in [Call -> Results]
      <3>1. CASE KindOf[c] = "light"
        <4>1. PICK ops : result' = Reject(result, ops, "command_superseded")
          BY <1>3, <3>1 DEF Admit, TakeSlot
        <4> QED BY <4>1, RejectType DEF TypeOK, Results
      <3>2. CASE KindOf[c] # "light"
        BY <1>3, <3>2 DEF TypeOK, Admit, TakeSlot
      <3> QED BY <3>1, <3>2
    <2>4. pendingCount' \in Nat
      BY <1>3, QueueSizeType DEF Admit
    <2>5. phase' \in [Call -> Phases]
      BY <1>3 DEF TypeOK, Admit, Phases
    <2> QED
      BY <1>3, <2>1, <2>2, <2>3, <2>4, <2>5 DEF TypeOK, Admit, envVars
  <1>4. ASSUME NEW c \in Call, Expire(c) PROVE TypeOK'
    BY <1>4, RejectType
    DEF TypeOK, Expire, Results, serviceVars, envVars, orderVars
  <1>5. ASSUME NEW c \in Call, Skip(c) PROVE TypeOK'
    BY <1>5 DEF TypeOK, Skip, Phases, serviceVars, envVars, orderVars
  <1>6. ASSUME NEW c \in Call, RefuseAtTurn(c) PROVE TypeOK'
    BY <1>6, RejectType
    DEF TypeOK, RefuseAtTurn, Phases, Results, serviceVars, envVars, orderVars
  <1>7. ASSUME NEW c \in Call, Begin(c) PROVE TypeOK'
    BY <1>7 DEF TypeOK, Begin, Phases, serviceVars, envVars, orderVars
  <1>8. ASSUME NEW c \in Call, Finish(c) PROVE TypeOK'
    <2>1. PICK outcome \in {"done", "failed"} :
            result' = Reject(result, {c}, outcome)
      BY <1>8 DEF Finish
    <2>2. result' \in [Call -> Results]
      BY <2>1, RejectType DEF TypeOK, Results
    <2> QED
      BY <1>8, <2>2
      DEF TypeOK, Finish, Phases, serviceVars, envVars, orderVars
  <1>9. ASSUME NEW c \in Call, Retire(c) PROVE TypeOK'
    BY <1>9, QueueSizeType DEF TypeOK, Retire, Phases, envVars, orderVars
  <1>10. CASE HealthChange
    BY <1>10 DEF TypeOK, HealthChange, serviceVars, orderVars
  <1>11. ASSUME NEW t \in Target, DeviceChange(t) PROVE TypeOK'
    BY <1>11 DEF TypeOK, DeviceChange, serviceVars, orderVars
  <1>12. CASE UNCHANGED vars
    BY <1>12 DEF TypeOK, vars
  <1> QED
    BY <1>1, <1>2, <1>3, <1>4, <1>5, <1>6, <1>7, <1>8, <1>9, <1>10, <1>11,
       <1>12 DEF Next, Execute, Turn

(* The service starts well formed: no lane, nothing remembered. *)
LEMMA TypeInit == Init => TypeOK
  BY CommandLanesAssumption DEF Init, TypeOK, Phases, Results

(* Every reachable state of the command service is well formed. *)
THEOREM TypeCorrect == Spec => []TypeOK
  BY TypeInit, TypeStep, PTL DEF Spec
-----------------------------------------------------------------------------
(* The lanes. *)

(* A step that neither admits nor retires an operation. *)
Quiet ==
  /\ UNCHANGED <<queues, prev, admissions, order>>
  /\ Admitted' = Admitted
  /\ \A c \in Call : phase[c] = "retired" => phase'[c] = "retired"
  /\ \A c \in Admitted : opOf'[c] = opOf[c]

(* A quiet step leaves every chain, its tail and its links as they are. *)
LEMMA QuietKeepsChains ==
  ASSUME LaneInv, Quiet
  PROVE  Chains' /\ TailIsLast' /\ PrevIsNext'
  <1>1. Chains'
    BY DEF LaneInv, Chains, Quiet, SameLane
  <1>2. TailIsLast'
    <2> SUFFICES ASSUME NEW c \in Admitted
                 PROVE  (IF queues[TargetOf[c]] = None THEN phase[c] = "retired"
                         ELSE order[c] <= order[queues[TargetOf[c]]])'
      BY DEF Quiet, TailIsLast
    <2> QED BY DEF LaneInv, TailIsLast, Quiet, Admitted
  <1>3. PrevIsNext'
    <2> SUFFICES ASSUME NEW c \in Admitted, NEW d \in Admitted,
                        SameLane(c, d), Before(c, d)
                 PROVE  (IF prev[d] = None THEN phase[c] = "retired"
                         ELSE order[c] <= order[prev[d]])'
      BY DEF Quiet, PrevIsNext, SameLane, Before
    <2> QED BY DEF LaneInv, PrevIsNext, Quiet, Admitted
  <1> QED BY <1>1, <1>2, <1>3

(* An operation that has its turn finds every earlier operation retired. *)
LEMMA TurnIsOrdered ==
  ASSUME LaneInv, NEW d \in Call, HasTurn(d),
         NEW c \in Admitted, SameLane(c, d), Before(c, d)
  PROVE  phase[c] = "retired"
  <1>1. d \in Admitted
    BY DEF HasTurn, Admitted
  <1>2. CASE prev[d] = None
    BY <1>1, <1>2 DEF LaneInv, PrevIsNext
  <1>3. CASE prev[d] # None
    <2> DEFINE p == prev[d]
    <2>1. p \in Admitted /\ SameLane(p, d) /\ phase[p] = "retired"
      BY <1>1, <1>3 DEF LaneInv, Chains, HasTurn
    <2>2. order[c] <= order[p]
      BY <1>1, <1>3 DEF LaneInv, PrevIsNext
    <2>3. CASE order[c] = order[p]
      BY <2>1, <2>3 DEF LaneInv, Chains
    <2>4. CASE order[c] # order[p]
      <3>1. Before(c, p) /\ SameLane(c, p)
        BY <2>1, <2>2, <2>4 DEF LaneInv, TypeOK, Before, SameLane, Admitted
      <3> QED BY <2>1, <3>1 DEF LaneInv, InOrder
    <2> QED BY <2>3, <2>4
  <1> QED BY <1>2, <1>3

(* A turn, whatever it decides, keeps the lanes in order. *)
LEMMA TurnKeepsLanes ==
  ASSUME LaneInv, TypeOK', NEW d \in Call, HasTurn(d),
         NEW to \in {"running", "settled"},
         phase' = [phase EXCEPT ![d] = to],
         UNCHANGED <<queues, prev, admissions, order, opOf>>
  PROVE  LaneInv'
  <1>1. Quiet
    BY DEF LaneInv, TypeOK, Quiet, Admitted, HasTurn
  <1>2. InOrder'
    <2> SUFFICES ASSUME NEW a \in Admitted, NEW b \in Admitted,
                        SameLane(a, b), Before(a, b), phase'[b] # "queued"
                 PROVE  phase'[a] = "retired"
      BY <1>1 DEF Quiet, InOrder, SameLane, Before
    <2>1. phase[a] = "retired"
      BY TurnIsOrdered DEF LaneInv, InOrder, TypeOK
    <2> QED BY <1>1, <2>1 DEF Quiet, Admitted
  <1> QED BY <1>1, <1>2, QuietKeepsChains DEF LaneInv

(* A step that leaves the phases alone keeps the lanes in order. *)
LEMMA IdleKeepsLanes ==
  ASSUME LaneInv, TypeOK', UNCHANGED <<queues, prev, admissions, order, phase>>,
         \A c \in Admitted : opOf'[c] = opOf[c]
  PROVE  LaneInv'
  <1>1. Quiet
    BY DEF Quiet, Admitted
  <1>2. InOrder'
    BY DEF LaneInv, InOrder, Admitted, SameLane, Before
  <1> QED BY <1>1, <1>2, QuietKeepsChains DEF LaneInv

(* The end of an operation's work leaves it in its chain until it retires. *)
LEMMA FinishKeepsLanes ==
  ASSUME LaneInv, TypeOK', NEW d \in Call, Finish(d)
  PROVE  LaneInv'
  <1>1. Quiet
    BY DEF LaneInv, TypeOK, Quiet, Admitted, Finish, serviceVars, orderVars
  <1>2. InOrder'
    BY DEF LaneInv, TypeOK, InOrder, Admitted, Finish, SameLane, Before, orderVars
  <1> QED BY <1>1, <1>2, QuietKeepsChains DEF LaneInv

(* Admission appends the new operation to the chain of its target. *)
LEMMA AdmitKeepsLanes ==
  ASSUME LaneInv, TypeOK', NEW n \in Call, Admit(n)
  PROVE  LaneInv'
  <1> USE CommandLanesAssumption
  <1>1. phase[n] = "absent" /\ n \notin Admitted
    BY DEF LaneInv, Chains, Admit, New, Admitted
  <1>2. /\ Admitted' = Admitted \cup {n}
        /\ order'[n] = admissions + 1 /\ phase'[n] = "queued"
        /\ prev'[n] = queues[TargetOf[n]] /\ queues'[TargetOf[n]] = n
        /\ opOf'[n] = n
    BY DEF LaneInv, TypeOK, Admit, Admitted
  <1>3. \A c \in Admitted : /\ order'[c] = order[c] /\ phase'[c] = phase[c]
                            /\ prev'[c] = prev[c] /\ opOf'[c] = opOf[c]
    BY <1>1 DEF LaneInv, TypeOK, Admit, Admitted
  <1>4. \A c \in Admitted : order[c] < order'[n]
    BY <1>2 DEF LaneInv, TypeOK, Chains
  <1>5. \A t \in Target : t # TargetOf[n] => queues'[t] = queues[t]
    BY DEF LaneInv, TypeOK, Admit
  <1>6. admissions' = admissions + 1 /\ n # None
    BY DEF Admit
  <1>0. \A c \in Admitted : c \in Call /\ order[c] \in Nat
    BY DEF LaneInv, TypeOK, Admitted
  <1>7. Chains'
    <2>1. (\A c \in Admitted : order[c] \in 1..admissions /\ opOf[c] = c)'
      BY <1>2, <1>3, <1>6 DEF LaneInv, TypeOK, Chains
    <2>2. (\A c, d \in Admitted : order[c] = order[d] => c = d)'
      <3> SUFFICES ASSUME NEW c \in Admitted', NEW d \in Admitted',
                          order'[c] = order'[d]
                   PROVE  c = d
        OBVIOUS
      <3>1. \A e \in Admitted : order'[e] # order'[n]
        BY <1>0, <1>2, <1>3, <1>4 DEF LaneInv, TypeOK
      <3>2. CASE c \in Admitted /\ d \in Admitted
        BY <1>3, <3>2 DEF LaneInv, Chains
      <3> QED BY <1>2, <3>1, <3>2
    <2>3. (\A t \in Target : queues[t] # None =>
             queues[t] \in Admitted /\ TargetOf[queues[t]] = t)'
      <3> SUFFICES ASSUME NEW t \in Target, queues'[t] # None
                   PROVE  queues'[t] \in Admitted' /\ TargetOf[queues'[t]] = t
        OBVIOUS
      <3>1. CASE t = TargetOf[n]
        BY <1>2, <3>1
      <3>2. CASE t # TargetOf[n]
        BY <1>2, <1>5, <3>2 DEF LaneInv, Chains
      <3> QED BY <3>1, <3>2
    <2>4. (\A d \in Admitted : prev[d] # None =>
             prev[d] \in Admitted /\ SameLane(prev[d], d))'
      <3> SUFFICES ASSUME NEW d \in Admitted', prev'[d] # None
                   PROVE  prev'[d] \in Admitted' /\ SameLane(prev'[d], d)
        BY DEF SameLane
      <3>1. CASE d = n
        BY <1>2, <3>1 DEF LaneInv, Chains, SameLane
      <3>2. CASE d # n
        BY <1>2, <1>3, <3>2 DEF LaneInv, Chains
      <3> QED BY <3>1, <3>2
    <2> QED BY <2>1, <2>2, <2>3, <2>4 DEF Chains
  <1>8. TailIsLast'
    <2> SUFFICES ASSUME NEW c \in Admitted'
                 PROVE  (IF queues[TargetOf[c]] = None THEN phase[c] = "retired"
                         ELSE order[c] <= order[queues[TargetOf[c]]])'
      BY DEF TailIsLast
    <2>1. CASE TargetOf[c] = TargetOf[n]
      BY <1>0, <1>2, <1>3, <1>4, <1>6, <2>1 DEF LaneInv, TypeOK
    <2>2. CASE TargetOf[c] # TargetOf[n]
      <3>1. c \in Admitted /\ TargetOf[c] \in Target
        BY <1>2, <2>2 DEF Admitted
      <3>2. queues'[TargetOf[c]] = queues[TargetOf[c]]
        BY <1>5, <2>2, <3>1
      <3> QED BY <1>3, <3>1, <3>2 DEF LaneInv, TailIsLast, Chains
    <2> QED BY <2>1, <2>2
  <1>9. PrevIsNext'
    <2> SUFFICES ASSUME NEW c \in Admitted', NEW d \in Admitted',
                        SameLane(c, d), order'[c] < order'[d]
                 PROVE  (IF prev[d] = None THEN phase[c] = "retired"
                         ELSE order[c] <= order[prev[d]])'
      BY DEF PrevIsNext, SameLane, Before
    <2>1. c \in Admitted
      BY <1>0, <1>2, <1>3, <1>4 DEF LaneInv, TypeOK
    <2>2. CASE d = n
      <3>1. TargetOf[c] = TargetOf[n] /\ prev'[n] = queues[TargetOf[c]]
        BY <1>2, <2>2 DEF SameLane
      <3>2. queues[TargetOf[c]] # None => queues[TargetOf[c]] \in Admitted
        BY DEF LaneInv, Chains, Admitted
      <3> QED BY <1>3, <2>1, <2>2, <3>1, <3>2 DEF LaneInv, TailIsLast
    <2>3. CASE d # n
      <3>1. d \in Admitted /\ Before(c, d)
        BY <1>2, <1>3, <2>1, <2>3 DEF Before
      <3> QED BY <1>3, <2>1, <3>1 DEF LaneInv, Chains, PrevIsNext
    <2> QED BY <2>2, <2>3
  <1>10. InOrder'
    <2> SUFFICES ASSUME NEW c \in Admitted', NEW d \in Admitted',
                        SameLane(c, d), order'[c] < order'[d],
                        phase'[d] # "queued"
                 PROVE  phase'[c] = "retired"
      BY DEF InOrder, SameLane, Before
    <2>1. c \in Admitted /\ d \in Admitted
      BY <1>0, <1>2, <1>3, <1>4 DEF LaneInv, TypeOK
    <2> QED BY <1>3, <2>1 DEF LaneInv, InOrder, Before
  <1> QED BY <1>7, <1>8, <1>9, <1>10 DEF LaneInv

(* Completion empties the lane only when nothing is behind the operation. *)
LEMMA RetireKeepsLanes ==
  ASSUME LaneInv, TypeOK', NEW r \in Call, Retire(r)
  PROVE  LaneInv'
  <1> USE CommandLanesAssumption
  <1>1. /\ r \in Admitted /\ Admitted' = Admitted
        /\ phase'[r] = "retired"
        /\ \A c \in Admitted : c # r => phase'[c] = phase[c]
    BY DEF LaneInv, TypeOK, Retire, Admitted
  <1>2. UNCHANGED <<prev, admissions, order, opOf>>
    BY DEF Retire, orderVars
  <1>3. \A t \in Target :
          queues'[t] = IF t = TargetOf[r] /\ queues[t] = r THEN None ELSE queues[t]
    BY DEF Retire
  <1>4. Chains'
    BY <1>1, <1>2, <1>3 DEF LaneInv, Chains, SameLane
  <1>5. TailIsLast'
    <2> SUFFICES ASSUME NEW c \in Admitted
                 PROVE  (IF queues[TargetOf[c]] = None THEN phase[c] = "retired"
                         ELSE order[c] <= order[queues[TargetOf[c]]])'
      BY <1>1 DEF TailIsLast
    <2>0. c \in Call /\ TargetOf[c] \in Target /\ r # None
      BY DEF Admitted
    <2>1. CASE c = r
      BY <1>1, <1>2, <1>3, <2>0, <2>1 DEF LaneInv, TailIsLast
    <2>2. CASE c # r /\ queues[TargetOf[c]] = r
      <3>1. TargetOf[r] = TargetOf[c]
        BY <2>0, <2>2 DEF LaneInv, Chains
      <3>2. order[c] <= order[r] /\ order[c] # order[r]
        BY <1>1, <2>0, <2>2 DEF LaneInv, TailIsLast, Chains
      <3>3. Before(c, r) /\ SameLane(c, r)
        BY <3>1, <3>2, <2>0 DEF LaneInv, TypeOK, Before, SameLane
      <3>4. phase[c] = "retired"
        BY <1>1, <3>3 DEF LaneInv, InOrder, Retire
      <3> QED BY <1>1, <1>3, <2>0, <2>2, <3>1, <3>4
    <2>3. CASE c # r /\ queues[TargetOf[c]] # r
      BY <1>1, <1>2, <1>3, <2>0, <2>3 DEF LaneInv, TailIsLast
    <2> QED BY <2>1, <2>2, <2>3
  <1>6. PrevIsNext'
    BY <1>1, <1>2 DEF LaneInv, PrevIsNext, SameLane, Before
  <1>7. InOrder'
    BY <1>1, <1>2 DEF LaneInv, InOrder, SameLane, Before, Retire
  <1> QED BY <1>4, <1>5, <1>6, <1>7 DEF LaneInv

(* LaneInv is inductive: admission, turns, work and retirement keep it. *)
LEMMA LaneStep == LaneInv /\ [Next]_vars => LaneInv'
  <1> SUFFICES ASSUME LaneInv, [Next]_vars PROVE LaneInv'
    OBVIOUS
  <1>0. TypeOK'
    BY TypeStep DEF LaneInv
  <1>1. ASSUME NEW c \in Call, Join(c) PROVE LaneInv'
    <2>1. \A d \in Admitted : opOf'[d] = opOf[d]
      BY <1>1, CommandLanesAssumption
      DEF LaneInv, TypeOK, Chains, Join, New, Admitted
    <2> QED BY <1>0, <1>1, <2>1, IdleKeepsLanes DEF Join, serviceVars, orderVars
  <1>2. ASSUME NEW c \in Call, Refuse(c) PROVE LaneInv'
    BY <1>0, <1>2, IdleKeepsLanes DEF Refuse, serviceVars, orderVars
  <1>3. ASSUME NEW c \in Call, Admit(c) PROVE LaneInv'
    BY <1>0, <1>3, AdmitKeepsLanes
  <1>4. ASSUME NEW c \in Call, Expire(c) PROVE LaneInv'
    BY <1>0, <1>4, IdleKeepsLanes DEF Expire, serviceVars, orderVars
  <1>5. ASSUME NEW c \in Call, Turn(c) PROVE LaneInv'
    <2>1. HasTurn(c) /\ UNCHANGED <<queues, prev, admissions, order, opOf>>
      BY <1>5 DEF Turn, Skip, RefuseAtTurn, Begin, serviceVars, orderVars
    <2>2. \E to \in {"running", "settled"} : phase' = [phase EXCEPT ![c] = to]
      BY <1>5 DEF Turn, Skip, RefuseAtTurn, Begin
    <2> QED BY <1>0, <2>1, <2>2, TurnKeepsLanes
  <1>6. ASSUME NEW c \in Call, Finish(c) PROVE LaneInv'
    BY <1>0, <1>6, FinishKeepsLanes
  <1>7. ASSUME NEW c \in Call, Retire(c) PROVE LaneInv'
    BY <1>0, <1>7, RetireKeepsLanes
  <1>8. CASE HealthChange
    BY <1>0, <1>8, IdleKeepsLanes DEF HealthChange, serviceVars, orderVars
  <1>9. ASSUME NEW t \in Target, DeviceChange(t) PROVE LaneInv'
    BY <1>0, <1>9, IdleKeepsLanes DEF DeviceChange, serviceVars, orderVars
  <1>10. CASE UNCHANGED vars
    BY <1>0, <1>10, IdleKeepsLanes DEF vars
  <1> QED
    BY <1>1, <1>2, <1>3, <1>4, <1>5, <1>6, <1>7, <1>8, <1>9, <1>10
    DEF Next, Execute

(* With no lane and no operation every chain is in order. *)
LEMMA LaneInit == Init => LaneInv
  <1> SUFFICES ASSUME Init PROVE LaneInv
    OBVIOUS
  <1>1. Admitted = {}
    BY DEF Init, Admitted
  <1> QED
    BY <1>1, TypeInit DEF LaneInv, Chains, TailIsLast, PrevIsNext, InOrder, Init

(* Commands for one target never overlap and never overtake each other. *)
THEOREM LanesInOrder == Spec => []InOrder
  <1>1. Spec => []LaneInv
    BY LaneInit, LaneStep, PTL DEF Spec
  <1>2. LaneInv => InOrder
    BY DEF LaneInv
  <1> QED BY <1>1, <1>2, PTL
-----------------------------------------------------------------------------
(* The light intents.  Slots, kinds and orders are all these facts read,   *)
(* so every step but Admit and Retire leaves them as they are.             *)

IntentsInv == LaneInv /\ IntentInv /\ NewestIntentWins

(* Steps that move no operation and abort nothing keep the light intents. *)
LEMMA QuietKeepsIntents ==
  ASSUME IntentsInv, LaneInv', UNCHANGED <<lightIntents, order, aborted>>,
         Admitted' = Admitted, \A c \in Call : Busy(c)' => Busy(c)
  PROVE  IntentsInv'
  <1>1. IntentInv'
    BY DEF IntentsInv, IntentInv, SameSlot, Admitted
  <1>2. NewestIntentWins'
    BY DEF IntentsInv, NewestIntentWins, SameSlot, Before, Admitted
  <1> QED BY <1>1, <1>2 DEF IntentsInv

(* Admitting a light intent aborts exactly the older ones it supersedes. *)
LEMMA AdmitKeepsIntents ==
  ASSUME IntentsInv, LaneInv', NEW n \in Call, Admit(n)
  PROVE  IntentsInv'
  <1> USE CommandLanesAssumption
  <1>1. phase[n] = "absent" /\ n \notin Admitted
    BY DEF IntentsInv, LaneInv, Chains, Admit, New, Admitted
  <1>2. Admitted' = Admitted \cup {n} /\ order'[n] = admissions + 1
    BY DEF IntentsInv, LaneInv, TypeOK, Admit, Admitted
  <1>3. \A c \in Admitted : /\ c \in Call /\ order[c] \in Nat
                            /\ order'[c] = order[c] /\ order[c] < order'[n]
                            /\ Busy(c)' = Busy(c)
    BY <1>1, <1>2 DEF IntentsInv, LaneInv, TypeOK, Chains, Admit, Admitted, Busy
  <1>4. order'[n] \in Nat
    BY <1>2 DEF IntentsInv, LaneInv, TypeOK
  <1>5. CASE KindOf[n] # "light"
    <2>1. UNCHANGED <<lightIntents, aborted>>
      BY <1>5 DEF Admit, TakeSlot
    <2>2. IntentInv'
      <3>1. aborted' \subseteq Admitted'
        BY <1>2, <2>1 DEF IntentsInv, IntentInv
      <3>2. ASSUME NEW s \in Slot, lightIntents'[s] # None
            PROVE  /\ lightIntents'[s] \in Admitted'
                   /\ KindOf[lightIntents'[s]] = "light"
                   /\ SlotOf[lightIntents'[s]] = s
                   /\ \A c \in Admitted' : SameSlot(c, lightIntents'[s]) =>
                        order'[c] <= order'[lightIntents'[s]]
        BY <1>2, <1>3, <1>5, <2>1, <3>2 DEF IntentsInv, IntentInv, SameSlot
      <3>3. ASSUME NEW c \in Admitted', KindOf[c] = "light",
                   lightIntents'[SlotOf[c]] # c, Busy(c)'
            PROVE  c \in aborted'
        BY <1>2, <1>3, <1>5, <2>1, <3>3 DEF IntentsInv, IntentInv
      <3> QED BY <3>1, <3>2, <3>3 DEF IntentInv, SameSlot
    <2>3. NewestIntentWins'
      <3>1. ASSUME NEW c \in Admitted', NEW d \in Admitted', SameSlot(c, d),
                   order'[c] < order'[d], Busy(c)'
            PROVE  c \in aborted'
        <4>1. c \in Admitted /\ d \in Admitted
          BY <1>2, <1>5, <3>1 DEF SameSlot
        <4> QED BY <1>3, <2>1, <3>1, <4>1 DEF IntentsInv, NewestIntentWins, Before
      <3>2. ASSUME NEW c \in aborted'
            PROVE  \E d \in Admitted' : SameSlot(c, d) /\ order'[c] < order'[d]
        <4>1. PICK d \in Admitted : SameSlot(c, d) /\ Before(c, d)
          BY <2>1, <3>2 DEF IntentsInv, NewestIntentWins
        <4>2. c \in Admitted
          BY <2>1, <3>2 DEF IntentsInv, IntentInv
        <4> QED BY <1>2, <1>3, <4>1, <4>2 DEF Before
      <3> QED BY <3>1, <3>2 DEF NewestIntentWins, Before, SameSlot
    <2> QED BY <2>2, <2>3 DEF IntentsInv
  <1>6. CASE KindOf[n] = "light"
    <2> DEFINE prior == {lightIntents[SlotOf[n]]} \ {None}
    <2>1. /\ SlotOf[n] \in Slot /\ lightIntents'[SlotOf[n]] = n
          /\ \A s \in Slot : s # SlotOf[n] => lightIntents'[s] = lightIntents[s]
          /\ aborted' = aborted \cup prior
      <3>1. /\ lightIntents' = [lightIntents EXCEPT ![SlotOf[n]] = n]
            /\ aborted' = aborted \cup prior
        BY <1>6 DEF Admit, TakeSlot
      <3>2. SlotOf[n] \in Slot /\ lightIntents \in [Slot -> Call \cup {None}]
        BY DEF IntentsInv, LaneInv, TypeOK
      <3> QED BY <3>1, <3>2
    <2>2. \A p \in prior : p \in Admitted /\ SameSlot(p, n)
      BY <1>6, <2>1 DEF IntentsInv, IntentInv, SameSlot
    <2>3. IntentInv'
      <3>1. ASSUME NEW s \in Slot, lightIntents'[s] # None
            PROVE  /\ lightIntents'[s] \in Admitted'
                   /\ KindOf[lightIntents'[s]] = "light"
                   /\ SlotOf[lightIntents'[s]] = s
                   /\ \A c \in Admitted' : SameSlot(c, lightIntents'[s]) =>
                        order'[c] <= order'[lightIntents'[s]]
        <4>1. CASE s = SlotOf[n]
          BY <1>2, <1>3, <1>4, <1>6, <2>1, <4>1
        <4>2. CASE s # SlotOf[n]
          BY <1>2, <1>3, <2>1, <3>1, <4>2 DEF IntentsInv, IntentInv, SameSlot
        <4> QED BY <4>1, <4>2
      <3>2. ASSUME NEW c \in Admitted', KindOf[c] = "light",
                   lightIntents'[SlotOf[c]] # c, Busy(c)'
            PROVE  c \in aborted'
        <4>1. c \in Admitted /\ Busy(c) /\ SlotOf[c] \in Slot
          BY <1>2, <1>3, <2>1, <3>2
        <4>2. CASE lightIntents[SlotOf[c]] # c
          BY <2>1, <3>2, <4>1, <4>2 DEF IntentsInv, IntentInv
        <4>3. CASE lightIntents[SlotOf[c]] = c
          <5>1. SlotOf[c] = SlotOf[n] /\ c # None
            BY <1>3, <2>1, <3>2, <4>1, <4>3
          <5> QED BY <2>1, <4>3, <5>1
        <4> QED BY <4>2, <4>3
      <3>3. aborted' \subseteq Admitted'
        BY <1>2, <2>1, <2>2 DEF IntentsInv, IntentInv
      <3> QED BY <3>1, <3>2, <3>3 DEF IntentInv, SameSlot
    <2>4. NewestIntentWins'
      <3>1. ASSUME NEW c \in Admitted', NEW d \in Admitted', SameSlot(c, d),
                   order'[c] < order'[d], Busy(c)'
            PROVE  c \in aborted'
        <4>1. c \in Admitted /\ Busy(c)
          BY <1>2, <1>3, <1>4, <3>1
        <4>2. lightIntents'[SlotOf[c]] # c
          <5>1. CASE SlotOf[c] = SlotOf[n]
            BY <1>1, <2>1, <4>1, <5>1
          <5>2. CASE SlotOf[c] # SlotOf[n]
            <6>1. d \in Admitted /\ SlotOf[c] \in Slot
              BY <1>2, <1>3, <3>1, <4>1, <5>2 DEF SameSlot
            <6>2. order[c] < order[d]
              BY <1>3, <3>1, <4>1, <6>1
            <6>3. lightIntents[SlotOf[c]] # c
              BY <1>3, <3>1, <4>1, <6>1, <6>2 DEF IntentsInv, IntentInv, SameSlot
            <6> QED BY <2>1, <5>2, <6>1, <6>3
          <5> QED BY <5>1, <5>2
        <4> QED BY <2>3, <3>1, <4>2 DEF IntentInv, SameSlot
      <3>2. ASSUME NEW c \in aborted'
            PROVE  \E d \in Admitted' : SameSlot(c, d) /\ order'[c] < order'[d]
        <4>1. CASE c \in aborted
          <5>1. PICK d \in Admitted : SameSlot(c, d) /\ Before(c, d)
            BY <4>1 DEF IntentsInv, NewestIntentWins
          <5>2. c \in Admitted
            BY <4>1 DEF IntentsInv, IntentInv
          <5> QED BY <1>2, <1>3, <5>1, <5>2 DEF Before
        <4>2. CASE c \in prior
          BY <1>2, <1>3, <2>2, <4>2
        <4> QED BY <2>1, <3>2, <4>1, <4>2
      <3> QED BY <3>1, <3>2 DEF NewestIntentWins, Before, SameSlot
    <2> QED BY <2>3, <2>4 DEF IntentsInv
  <1> QED BY <1>5, <1>6

(* Retirement forgets an intent only when it is still the newest one. *)
LEMMA RetireKeepsIntents ==
  ASSUME IntentsInv, LaneInv', NEW r \in Call, Retire(r)
  PROVE  IntentsInv'
  <1>1. /\ Admitted' = Admitted
        /\ UNCHANGED <<order, aborted>>
        /\ \A s \in Slot : lightIntents'[s] \in {None, lightIntents[s]}
        /\ \A s \in Slot : lightIntents[s] # r => lightIntents'[s] = lightIntents[s]
        /\ \A c \in Call : Busy(c)' => Busy(c) /\ c # r
    BY DEF IntentsInv, LaneInv, TypeOK, Retire, Admitted, Busy, orderVars
  <1>2. IntentInv'
    <2>1. (\A s \in Slot : lightIntents[s] # None =>
            /\ lightIntents[s] \in Admitted
            /\ KindOf[lightIntents[s]] = "light" /\ SlotOf[lightIntents[s]] = s
            /\ \A c \in Admitted : SameSlot(c, lightIntents[s]) =>
                 order[c] <= order[lightIntents[s]])'
      BY <1>1 DEF IntentsInv, IntentInv, SameSlot
    <2>2. (\A c \in Admitted :
            KindOf[c] = "light" /\ lightIntents[SlotOf[c]] # c /\ Busy(c)
              => c \in aborted)'
      <3> SUFFICES ASSUME NEW c \in Admitted, KindOf[c] = "light",
                          lightIntents'[SlotOf[c]] # c, Busy(c)'
                   PROVE  c \in aborted
        BY <1>1
      <3>1. c \in Call /\ SlotOf[c] \in Slot
        BY CommandLanesAssumption DEF Admitted
      <3>2. lightIntents[SlotOf[c]] # c /\ Busy(c)
        BY <1>1, <3>1
      <3> QED BY <3>2 DEF IntentsInv, IntentInv
    <2> QED BY <1>1, <2>1, <2>2 DEF IntentsInv, IntentInv
  <1>3. NewestIntentWins'
    BY <1>1 DEF IntentsInv, NewestIntentWins, SameSlot, Before, Admitted
  <1> QED BY <1>2, <1>3 DEF IntentsInv

(* IntentsInv is inductive. *)
LEMMA IntentsStep == IntentsInv /\ [Next]_vars => IntentsInv'
  <1> SUFFICES ASSUME IntentsInv, [Next]_vars PROVE IntentsInv'
    OBVIOUS
  <1>0. LaneInv'
    BY LaneStep DEF IntentsInv
  <1>1. ASSUME NEW c \in Call, Admit(c) PROVE IntentsInv'
    BY <1>0, <1>1, AdmitKeepsIntents
  <1>2. ASSUME NEW c \in Call, Retire(c) PROVE IntentsInv'
    BY <1>0, <1>2, RetireKeepsIntents
  <1>3. ASSUME UNCHANGED <<lightIntents, order, aborted, phase>> PROVE IntentsInv'
    <2>1. Admitted' = Admitted /\ \A c \in Call : Busy(c)' => Busy(c)
      BY <1>3 DEF Admitted, Busy
    <2> QED BY <1>0, <1>3, <2>1, QuietKeepsIntents
  <1>4. ASSUME NEW c \in Call, Turn(c) \/ Finish(c) PROVE IntentsInv'
    <2>1. /\ UNCHANGED <<lightIntents, order, aborted>>
          /\ phase[c] \in {"queued", "running"}
          /\ \E to \in {"running", "settled"} : phase' = [phase EXCEPT ![c] = to]
      BY <1>4 DEF Turn, Skip, RefuseAtTurn, Begin, Finish, HasTurn, serviceVars,
                  orderVars
    <2>2. Admitted' = Admitted /\ \A d \in Call : Busy(d)' => Busy(d)
      BY <2>1 DEF IntentsInv, LaneInv, TypeOK, Admitted, Busy
    <2> QED BY <1>0, <2>1, <2>2, QuietKeepsIntents
  <1>5. ASSUME NEW c \in Call, Join(c) \/ Refuse(c) \/ Expire(c) PROVE IntentsInv'
    BY <1>3, <1>5 DEF Join, Refuse, Expire, serviceVars, orderVars
  <1>6. CASE HealthChange \/ \E t \in Target : DeviceChange(t)
    BY <1>3, <1>6 DEF HealthChange, DeviceChange, serviceVars, orderVars
  <1>7. CASE UNCHANGED vars
    BY <1>3, <1>7 DEF vars
  <1> QED BY <1>1, <1>2, <1>4, <1>5, <1>6, <1>7 DEF Next, Execute

(* Before the first light command nobody has an intent. *)
LEMMA IntentsInit == Init => IntentsInv
  <1> SUFFICES ASSUME Init PROVE IntentsInv
    OBVIOUS
  <1>1. Admitted = {}
    BY DEF Init, Admitted
  <1> QED
    BY <1>1, LaneInit DEF IntentsInv, IntentInv, NewestIntentWins, Init

(* The newest light intent of a component survives, all older ones are     *)
(* aborted.                                                                *)
THEOREM NewestIntentAlwaysWins == Spec => []NewestIntentWins
  <1>1. Spec => []IntentsInv
    BY IntentsInit, IntentsStep, PTL DEF Spec
  <1>2. IntentsInv => NewestIntentWins
    BY DEF IntentsInv
  <1> QED BY <1>1, <1>2, PTL

-----------------------------------------------------------------------------
(* Answers. *)

(* No answered operation is begun by any step. *)
LEMMA AnswerStep ==
  ASSUME IntentsInv, IntentsInv', AnswerInv, [Next]_vars
  PROVE  AnswerInv'
  <1> USE DEF IntentsInv, LaneInv
  <1>1. ASSUME UNCHANGED <<phase, result, aborted>> PROVE AnswerInv'
    BY <1>1 DEF AnswerInv, Expired
  <1>2. ASSUME NEW n \in Call, Admit(n) PROVE AnswerInv'
    <2>1. /\ phase[n] = "absent"
          /\ \A c \in Call : c # n => phase'[c] = phase[c]
          /\ phase'[n] = "queued"
      BY <1>2, CommandLanesAssumption DEF TypeOK, Chains, Admit, New, Admitted
    <2>2. CASE KindOf[n] # "light"
      BY <1>2, <2>1, <2>2 DEF AnswerInv, Admit, TakeSlot, Expired
    <2>3. CASE KindOf[n] = "light"
      <3> DEFINE prior == {lightIntents[SlotOf[n]]} \ {None}
      <3>1. /\ aborted' = aborted \cup prior
            /\ result' = Reject(result, prior, "command_superseded")
        BY <1>2, <2>3 DEF Admit, TakeSlot
      <3>2. SlotOf[n] \in Slot
        BY CommandLanesAssumption
      <3>3. \A c \in Call : phase[c] = "absent" => c \notin prior
        BY <3>2 DEF IntentInv, Admitted
      <3>4. \A c \in Call : result'[c] = result[c] \/ c \in prior
        BY <3>1 DEF Reject, TypeOK
      <3> HIDE DEF prior
      <3> QED BY <2>1, <3>1, <3>3, <3>4 DEF AnswerInv, Expired
    <2> QED BY <2>2, <2>3
  <1>3. ASSUME NEW c \in Call, Expire(c) PROVE AnswerInv'
    BY <1>3 DEF AnswerInv, Expire, Reject, Expired, TypeOK
  <1>4. ASSUME NEW c \in Call, Turn(c) \/ Finish(c) \/ Retire(c) PROVE AnswerInv'
    <2>1. /\ UNCHANGED aborted
          /\ phase[c] # "absent"
          /\ \E to \in {"running", "settled", "retired"} :
               phase' = [phase EXCEPT ![c] = to]
          /\ \A d \in Call : d # c => result'[d] = result[d]
      BY <1>4 DEF Turn, Skip, RefuseAtTurn, Begin, Finish, Retire, HasTurn,
                  Reject, TypeOK
    <2> QED BY <2>1 DEF AnswerInv, Expired, TypeOK
  <1>5. ASSUME NEW c \in Call, Join(c) \/ Refuse(c) PROVE AnswerInv'
    BY <1>1, <1>5 DEF Join, Refuse
  <1>6. CASE HealthChange \/ \E t \in Target : DeviceChange(t)
    BY <1>1, <1>6 DEF HealthChange, DeviceChange
  <1>7. CASE UNCHANGED vars
    BY <1>1, <1>7 DEF vars
  <1> QED
    BY <1>2, <1>3, <1>4, <1>5, <1>6, <1>7 DEF Next, Execute, Turn

(* The operation that Begin starts has not answered its caller yet. *)
LEMMA BeginsUnanswered ==
  ASSUME AnswerInv, [Next]_vars, NEW c \in Call, c \in begun' \ begun
  PROVE  result[c] = "pending"
  <1>1. Begin(c)
    BY DEF Next, vars, Execute, Turn, Join, Refuse, Admit, Expire, Skip,
           RefuseAtTurn, Begin, Finish, Retire, HealthChange, DeviceChange
  <1> QED BY <1>1 DEF AnswerInv, Begin, HasTurn

(* A command whose caller already has an answer is never put to work. *)
THEOREM AnsweredNeverBegun == Spec => NoWorkAfterAnswer
  <1>1. Init => AnswerInv
    BY DEF Init, AnswerInv
  <1>2. Spec => [](IntentsInv /\ AnswerInv)
    BY <1>1, IntentsInit, IntentsStep, AnswerStep, PTL DEF Spec
  <1>3. AnswerInv /\ [Next]_vars =>
          [\A c \in Call : c \in begun' \ begun => result[c] = "pending"]_vars
    BY BeginsUnanswered
  <1> QED BY <1>2, <1>3, PTL DEF Spec, NoWorkAfterAnswer
-----------------------------------------------------------------------------
(* Request ids. *)

RequestsInv == LaneInv /\ MemoryInv /\ OncePerRequestId

(* Steps that leave memory and chains alone keep the request ids. *)
LEMMA QuietKeepsRequests ==
  ASSUME RequestsInv, LaneInv', UNCHANGED <<dedupe, admissions, order>>,
         Admitted' = Admitted
  PROVE  RequestsInv'
  <1>1. MemoryInv'
    BY DEF RequestsInv, MemoryInv
  <1>2. OncePerRequestId'
    BY DEF RequestsInv, OncePerRequestId, Before
  <1> QED BY <1>1, <1>2 DEF RequestsInv

(* Admission remembers the new request id and evicts only what is oldest. *)
LEMMA AdmitKeepsRequests ==
  ASSUME RequestsInv, LaneInv', NEW n \in Call, Admit(n)
  PROVE  RequestsInv'
  <1> USE CommandLanesAssumption
  <1> DEFINE old == Len(dedupe)
             longer == Append(dedupe, n)
  <1>1. phase[n] = "absent" /\ n \notin Admitted
    BY DEF RequestsInv, LaneInv, Chains, Admit, New, Admitted
  <1>2. /\ Admitted' = Admitted \cup {n}
        /\ order'[n] = admissions + 1 /\ admissions' = admissions + 1
        /\ admissions \in Nat
    BY DEF RequestsInv, LaneInv, TypeOK, Admit, Admitted
  <1>3. \A c \in Admitted : /\ c \in Call /\ order'[c] = order[c]
                            /\ order[c] \in 1..admissions
    BY <1>1 DEF RequestsInv, LaneInv, TypeOK, Chains, Admit, Admitted
  <1>4. /\ dedupe \in Seq(Call) /\ old \in Nat
        /\ longer \in Seq(Call) /\ Len(longer) = old + 1
        /\ \A i \in 1..old : longer[i] = dedupe[i]
        /\ longer[old + 1] = n
        /\ dedupe' = Evict(longer)
    BY DEF RequestsInv, LaneInv, TypeOK, Admit
  <1> HIDE DEF longer
  <1>5. /\ dedupe' \in Seq(Call)
        /\ Len(dedupe') = IF old + 1 > DedupeLimit THEN DedupeLimit ELSE old + 1
        /\ \A i \in 1..Len(dedupe') :
             dedupe'[i] = longer[i + (Len(longer) - Len(dedupe'))]
    <2>1. /\ Evict(longer) \in Seq(Call)
          /\ Len(Evict(longer)) =
               IF Len(longer) > DedupeLimit THEN DedupeLimit ELSE Len(longer)
          /\ \A i \in 1..Len(Evict(longer)) :
               Evict(longer)[i] = longer[i + (Len(longer) - Len(Evict(longer)))]
      BY <1>4, EvictType
    <2>2. Evict(longer) = dedupe' /\ Len(longer) = old + 1
      BY <1>4
    <2>3. dedupe' \in Seq(Call)
      BY <2>1, <2>2
    <2>4. Len(dedupe') = IF old + 1 > DedupeLimit THEN DedupeLimit ELSE old + 1
      BY <2>1, <2>2
    <2>5. \A i \in 1..Len(dedupe') :
            dedupe'[i] = longer[i + (Len(longer) - Len(dedupe'))]
      BY <2>1, <2>2
    <2> QED BY <2>3, <2>4, <2>5
  <1> DEFINE kept == Len(dedupe')
             cut == old + 1 - kept
  <1>6. /\ DOMAIN dedupe' = 1..kept /\ DOMAIN dedupe = 1..old
        /\ old <= admissions /\ (old < admissions => old = DedupeLimit)
        /\ old <= DedupeLimit
        /\ \A i \in 1..old : /\ dedupe[i] \in Admitted
                             /\ order[dedupe[i]] = admissions - old + i
        /\ \A c \in Admitted : order[c] > admissions - old =>
             \E i \in 1..old : dedupe[i] = c
    <2>1. DOMAIN dedupe' = 1..kept /\ DOMAIN dedupe = 1..old
      BY <1>4, <1>5
    <2> QED BY <2>1 DEF RequestsInv, MemoryInv
  <1>c. cut = old + 1 - kept
    OBVIOUS
  <1>k. kept = IF old + 1 > DedupeLimit THEN DedupeLimit ELSE old + 1
    BY <1>5
  <1>e. \A i \in 1..kept : dedupe'[i] = longer[i + (Len(longer) - kept)]
    BY <1>5
  <1>m. MemoryInv' <=>
          /\ kept <= admissions' /\ kept <= DedupeLimit
          /\ kept < admissions' => kept = DedupeLimit
          /\ \A i \in 1..kept : /\ dedupe'[i] \in Admitted'
                                /\ order'[dedupe'[i]] = admissions' - kept + i
          /\ \A c \in Admitted' : order'[c] > admissions' - kept =>
               \E i \in 1..kept : dedupe'[i] = c
    BY <1>6 DEF MemoryInv
  <1> HIDE DEF old, kept, cut
  <1>7. /\ kept \in Nat /\ cut \in Nat /\ old \in Nat /\ kept >= 1
        /\ kept <= DedupeLimit
        /\ kept <= admissions' /\ (kept < admissions' => kept = DedupeLimit)
        /\ cut = 0 \/ cut = 1
    BY <1>2, <1>4, <1>6, <1>c, <1>k
  <1>8. \A i \in 1..kept :
          dedupe'[i] = IF i + cut = old + 1 THEN n ELSE dedupe[i + cut]
    <2> SUFFICES ASSUME NEW i \in 1..kept
                 PROVE  dedupe'[i] = IF i + cut = old + 1 THEN n ELSE dedupe[i + cut]
      OBVIOUS
    <2>1. dedupe'[i] = longer[i + cut]
      <3>1. Len(longer) - kept = cut
        BY <1>4, <1>7, <1>c
      <3> QED BY <1>e, <3>1
    <2>2. i + cut \in 1..(old + 1)
      BY <1>7, <1>c
    <2> QED BY <1>4, <1>7, <2>1, <2>2
  <1>9. MemoryInv'
    <2>1. ASSUME NEW i \in 1..kept
          PROVE  dedupe'[i] \in Admitted' /\ order'[dedupe'[i]] = admissions' - kept + i
      <3>1. CASE i + cut = old + 1
        BY <1>2, <1>7, <1>8, <1>c, <3>1
      <3>2. CASE i + cut # old + 1
        <4>1. i + cut \in 1..old /\ dedupe'[i] = dedupe[i + cut]
          BY <1>7, <1>8, <1>c, <3>2
        <4>2. /\ dedupe[i + cut] \in Admitted
              /\ order[dedupe[i + cut]] = admissions - old + (i + cut)
          BY <1>6, <4>1
        <4> QED BY <1>2, <1>3, <1>7, <1>c, <4>1, <4>2
      <3> QED BY <3>1, <3>2
    <2>2. ASSUME NEW c \in Admitted', order'[c] > admissions' - kept
          PROVE  \E i \in 1..kept : dedupe'[i] = c
      <3>1. CASE c = n
        <4>1. kept \in 1..kept /\ kept + cut = old + 1
          BY <1>7, <1>c
        <4> QED BY <1>8, <3>1, <4>1
      <3>2. CASE c # n
        <4>1. c \in Admitted /\ order[c] > admissions + 1 - kept
              /\ order[c] \in Nat
          BY <1>2, <1>3, <1>7, <2>2, <3>2
        <4>2. order[c] > admissions - old
          BY <1>2, <1>7, <1>c, <4>1
        <4>3. PICK i \in 1..old : dedupe[i] = c
          BY <1>6, <4>1, <4>2
        <4>4. order[c] = admissions - old + i
          BY <1>6, <4>3
        <4>5. i - cut \in 1..kept
          BY <1>2, <1>7, <1>c, <4>1, <4>4
        <4>6. dedupe'[i - cut] = dedupe[i]
          BY <1>7, <1>8, <1>c, <4>5
        <4> QED BY <4>3, <4>5, <4>6
      <3> QED BY <3>1, <3>2
    <2> QED BY <1>7, <1>m, <2>1, <2>2
  <1>10. OncePerRequestId'
    <2> SUFFICES ASSUME NEW c \in Admitted', NEW d \in Admitted',
                        IdOf[c] = IdOf[d], order'[c] < order'[d]
                 PROVE  order'[d] > order'[c] + DedupeLimit
      BY DEF OncePerRequestId, Before
    <2>1. c \in Admitted
      BY <1>2, <1>3
    <2>2. CASE d \in Admitted
      BY <1>3, <2>1, <2>2 DEF RequestsInv, OncePerRequestId, Before
    <2>3. CASE d = n
      <3>1. \A i \in DOMAIN dedupe : dedupe[i] # c
        BY <2>3 DEF Admit, Remembered
      <3>2. order[c] <= admissions - old
        <4>1. ~(order[c] > admissions - old)
          BY <1>6, <2>1, <3>1
        <4> QED BY <1>2, <1>3, <1>7, <2>1, <4>1
      <3>3. /\ order'[c] = order[c] /\ order[c] \in Nat /\ order[c] >= 1
            /\ order'[d] = admissions + 1 /\ DedupeLimit \in Nat
        BY <1>2, <1>3, <2>1, <2>3
      <3>4. old = DedupeLimit
        BY <1>2, <1>6, <1>7, <3>2, <3>3
      <3> QED BY <1>2, <3>2, <3>3, <3>4
    <2> QED BY <1>2, <2>2, <2>3
  <1> QED BY <1>9, <1>10 DEF RequestsInv

(* RequestsInv is inductive. *)
LEMMA RequestsStep == RequestsInv /\ [Next]_vars => RequestsInv'
  <1> SUFFICES ASSUME RequestsInv, [Next]_vars PROVE RequestsInv'
    OBVIOUS
  <1>0. LaneInv'
    BY LaneStep DEF RequestsInv
  <1>1. ASSUME NEW c \in Call, Admit(c) PROVE RequestsInv'
    BY <1>0, <1>1, AdmitKeepsRequests
  <1>2. ASSUME UNCHANGED <<dedupe, admissions, order, phase>> PROVE RequestsInv'
    <2>1. Admitted' = Admitted
      BY <1>2 DEF Admitted
    <2> QED BY <1>0, <1>2, <2>1, QuietKeepsRequests
  <1>3. ASSUME NEW c \in Call, Turn(c) \/ Finish(c) \/ Retire(c) PROVE RequestsInv'
    <2>1. /\ UNCHANGED <<dedupe, admissions, order>>
          /\ phase[c] \in {"queued", "running", "settled"}
          /\ \E to \in {"running", "settled", "retired"} :
               phase' = [phase EXCEPT ![c] = to]
      BY <1>3 DEF Turn, Skip, RefuseAtTurn, Begin, Finish, Retire, HasTurn,
                  serviceVars, orderVars
    <2>2. Admitted' = Admitted
      BY <2>1 DEF RequestsInv, LaneInv, TypeOK, Admitted
    <2> QED BY <1>0, <2>1, <2>2, QuietKeepsRequests
  <1>4. ASSUME NEW c \in Call, Join(c) \/ Refuse(c) \/ Expire(c)
        PROVE  RequestsInv'
    BY <1>2, <1>4 DEF Join, Refuse, Expire, serviceVars, orderVars
  <1>5. CASE HealthChange \/ \E t \in Target : DeviceChange(t)
    BY <1>2, <1>5 DEF HealthChange, DeviceChange, serviceVars, orderVars
  <1>6. CASE UNCHANGED vars
    BY <1>2, <1>6 DEF vars
  <1> QED BY <1>1, <1>3, <1>4, <1>5, <1>6 DEF Next, Execute

(* Before the first command no request id is remembered. *)
LEMMA RequestsInit == Init => RequestsInv
  <1> SUFFICES ASSUME Init PROVE RequestsInv
    OBVIOUS
  <1>1. Admitted = {} /\ dedupe = <<>> /\ admissions = 0
    BY DEF Init, Admitted
  <1> QED
    BY <1>1, LaneInit, CommandLanesAssumption
    DEF RequestsInv, MemoryInv, OncePerRequestId

(* A clientRequestId is run again only after DedupeLimit other operations. *)
THEOREM RequestIdsRunOnce == Spec => []OncePerRequestId
  <1>1. Spec => []RequestsInv
    BY RequestsInit, RequestsStep, PTL DEF Spec
  <1>2. RequestsInv => OncePerRequestId
    BY DEF RequestsInv
  <1> QED BY <1>1, <1>2, PTL
-----------------------------------------------------------------------------
(* The refinement.                                                         *)

(* What has left its lane, or was aborted, has answered its caller.        *)
ServedInv ==
  \A c \in Call :
    phase[c] \in {"settled", "retired"} \/ c \in aborted => result[c] # "pending"

RefinesInv == IntentsInv /\ AnswerInv /\ ServedInv

(* A rejected operation is answered, and an answer is never taken back.    *)
LEMMA RejectAnswers ==
  ASSUME TypeOK, NEW ops, NEW code \in Results \ {"pending"},
         result' = Reject(result, ops, code)
  PROVE  /\ \A c \in Call : result[c] # "pending" => result'[c] = result[c]
         /\ \A c \in Call : c \in ops => result'[c] # "pending"
         /\ \A c \in Call : c \notin ops => result'[c] = result[c]
  BY DEF Reject, TypeOK

(* No operation leaves its lane, or is aborted, without an answer.         *)
LEMMA ServedStep ==
  ASSUME RefinesInv, [Next]_vars
  PROVE  ServedInv'
  <1> USE DEF RefinesInv, IntentsInv, LaneInv
  <1>1. ASSUME UNCHANGED <<phase, result, aborted>> PROVE ServedInv'
    BY <1>1 DEF ServedInv
  <1>2. ASSUME NEW n \in Call, Admit(n) PROVE ServedInv'
    <2>1. \A c \in Call : phase'[c] \in {"settled", "retired"} => phase[c] = phase'[c]
      BY <1>2 DEF TypeOK, Admit
    <2>2. CASE KindOf[n] # "light"
      BY <1>2, <2>1, <2>2 DEF ServedInv, Admit, TakeSlot
    <2>3. CASE KindOf[n] = "light"
      <3>1. PICK prior : /\ aborted' = aborted \cup prior
                         /\ result' = Reject(result, prior, "command_superseded")
        BY <1>2, <2>3 DEF Admit, TakeSlot
      <3> QED BY <2>1, <3>1, RejectAnswers DEF ServedInv, Results
    <2> QED BY <2>2, <2>3
  <1>3. ASSUME NEW c \in Call, Expire(c) PROVE ServedInv'
    BY <1>3, RejectAnswers DEF ServedInv, Expire, Results
  <1>4. ASSUME NEW c \in Call, Skip(c) PROVE ServedInv'
    <2>1. result[c] # "pending"
      BY <1>4 DEF Skip, Expired, ServedInv
    <2> QED BY <1>4, <2>1 DEF ServedInv, Skip, TypeOK
  <1>5. ASSUME NEW c \in Call, RefuseAtTurn(c) \/ Finish(c) PROVE ServedInv'
    <2>1. PICK code \in Results \ {"pending"} : result' = Reject(result, {c}, code)
      BY <1>5 DEF RefuseAtTurn, Finish, Results
    <2>2. /\ UNCHANGED aborted
          /\ phase' = [phase EXCEPT ![c] = "settled"]
      BY <1>5 DEF RefuseAtTurn, Finish
    <2> QED BY <2>1, <2>2, RejectAnswers DEF ServedInv, TypeOK
  <1>6. ASSUME NEW c \in Call, Begin(c) PROVE ServedInv'
    BY <1>6 DEF ServedInv, Begin, TypeOK
  <1>7. ASSUME NEW c \in Call, Retire(c) PROVE ServedInv'
    BY <1>7 DEF ServedInv, Retire, TypeOK
  <1>8. ASSUME NEW c \in Call, Join(c) \/ Refuse(c) PROVE ServedInv'
    BY <1>1, <1>8 DEF Join, Refuse
  <1>9. CASE HealthChange \/ \E t \in Target : DeviceChange(t)
    BY <1>1, <1>9 DEF HealthChange, DeviceChange
  <1>10. CASE UNCHANGED vars
    BY <1>1, <1>10 DEF vars
  <1> QED
    BY <1>2, <1>3, <1>4, <1>5, <1>6, <1>7, <1>8, <1>9, <1>10 DEF Next, Execute, Turn

(* What the abstract state shows of a lane in order: the command at work   *)
(* is the one that runs, and there is at most one.                         *)
WorkersRun ==
  \A t \in Target :
    /\ \A c \in Call : TargetOf[c] = t => (Workers[t] = c <=> phase[c] = "running")
    /\ Workers[t] # None =>
         Workers[t] \in Call /\ TargetOf[Workers[t]] = t /\ phase[Workers[t]] = "running"

LEMMA OneAtWork == LaneInv => WorkersRun
  <1> SUFFICES ASSUME LaneInv, NEW t \in Target
               PROVE  /\ \A c \in Call : TargetOf[c] = t =>
                            (Workers[t] = c <=> phase[c] = "running")
                      /\ Workers[t] # None =>
                            /\ Workers[t] \in Call /\ TargetOf[Workers[t]] = t
                            /\ phase[Workers[t]] = "running"
    BY DEF WorkersRun
  <1>1. CASE AtWork(t) = {}
    <2>1. Workers[t] = None
      BY <1>1 DEF Workers
    <2> QED BY <1>1, <2>1, CommandLanesAssumption DEF AtWork
  <1>2. CASE AtWork(t) # {}
    <2>1. Workers[t] \in AtWork(t)
      <3>1. Workers[t] = CHOOSE c \in AtWork(t) : TRUE
        BY <1>2 DEF Workers
      <3>2. (CHOOSE c \in AtWork(t) : TRUE) \in AtWork(t)
        BY <1>2
      <3> QED BY <3>1, <3>2
    <2>2. ASSUME NEW c \in Call, NEW d \in Call, TargetOf[c] = t, TargetOf[d] = t,
                 phase[c] = "running", phase[d] = "running"
          PROVE  c = d
      <3>1. c \in Admitted /\ d \in Admitted /\ SameLane(c, d) /\ SameLane(d, c)
        BY <2>2 DEF Admitted, SameLane
      <3>2. ~Before(c, d) /\ ~Before(d, c)
        BY <2>2, <3>1 DEF LaneInv, InOrder
      <3>3. order[c] = order[d]
        BY <3>2 DEF LaneInv, TypeOK, Before
      <3> QED BY <3>1, <3>3 DEF LaneInv, Chains
    <2> QED BY <2>1, <2>2 DEF AtWork
  <1> QED BY <1>1, <1>2

(* Steps that start and end no work leave the workers as they are.         *)
LEMMA WorkersStay ==
  ASSUME LaneInv, LaneInv', \A c \in Call : phase'[c] = "running" <=> phase[c] = "running"
  PROVE  Workers' = Workers
  <1>1. WorkersRun
    BY OneAtWork
  <1>2. WorkersRun'
    BY OneAtWork, PTL
  <1>3. ASSUME NEW t \in Target PROVE Workers'[t] = Workers[t]
    BY <1>1, <1>2, CommandLanesAssumption DEF WorkersRun
  <1>4. /\ Workers = [t \in Target |-> Workers[t]]
        /\ Workers' = [t \in Target |-> Workers'[t]]
    BY DEF Workers
  <1> QED BY <1>3, <1>4

(* What moves nothing but bookkeeping is no step of the abstract lanes.    *)
LEMMA BookkeepingStutters ==
  ASSUME LaneInv, LaneInv', UNCHANGED <<order, admissions, result>>,
         \A c \in Call : /\ phase'[c] = "running" <=> phase[c] = "running"
                         /\ phase'[c] = "queued" <=> phase[c] = "queued"
  PROVE  UNCHANGED Lanes!vars
  <1>1. Workers' = Workers
    BY WorkersStay
  <1>2. Lines' = Lines
    BY DEF Lines
  <1> QED BY <1>1, <1>2 DEF Lanes!vars
(* Answering callers of one lane who wait or work is telling them.         *)
LEMMA RejectTells ==
  ASSUME RefinesInv, NEW t \in Target, NEW ops \in SUBSET Admitted,
         NEW code \in Results \ {"pending"},
         \A c \in ops : TargetOf[c] = t,
         result' = Reject(result, ops, code)
  PROVE  Lanes!Told(t, {c \in ops : result[c] = "pending"})
  <1> DEFINE who == {c \in ops : result[c] = "pending"}
  <1>1. ASSUME NEW c \in who PROVE c \in Lanes!Unanswered(t)
    <2>1. c \in Call /\ TargetOf[c] = t /\ result[c] = "pending"
      BY DEF Admitted
    <2>2. phase[c] \in {"queued", "running"}
      BY <2>1 DEF RefinesInv, ServedInv, IntentsInv, LaneInv, TypeOK, Phases, Admitted
    <2>3. phase[c] = "queued" => c \in Lines[t]
      BY <2>1 DEF Lines
    <2>4. phase[c] = "running" => Workers[t] = c
      BY <2>1, OneAtWork DEF WorkersRun, RefinesInv, IntentsInv
    <2> QED
      BY <2>1, <2>2, <2>3, <2>4 DEF Lanes!Unanswered, Lanes!InLine, Lanes!Working
  <1>2. result' \in [Call -> Results]
    BY RejectType DEF RefinesInv, IntentsInv, LaneInv, TypeOK
  <1>3. (Results \ {"pending"}) \cup {"pending"} = Results
    BY DEF Results
  <1>4. \A c \in Call : IF c \in who THEN result'[c] \in Results \ {"pending"}
                                     ELSE result'[c] = result[c]
    BY DEF Reject
  <1> QED BY <1>1, <1>2, <1>3, <1>4 DEF Lanes!Told

(* An operation that was admitted has its lane's line and number.          *)
LEMMA AdmitAccepts ==
  ASSUME RefinesInv, LaneInv', NEW n \in Call, Admit(n)
  PROVE  Lanes!Accept(n)
  <1> USE CommandLanesAssumption
  <1> DEFINE t == TargetOf[n]
  <1>1. t \in Target /\ phase[n] = "absent" /\ result[n] = "pending"
    BY DEF RefinesInv, IntentsInv, LaneInv, Chains, AnswerInv, Admit, New, Admitted
  <1>2. n \notin Lines[t]
    BY <1>1 DEF Lines
  <1>3. Workers[t] # n
    BY <1>1, OneAtWork DEF WorkersRun, RefinesInv, IntentsInv
  <1>4. phase' = [phase EXCEPT ![n] = "queued"]
    BY DEF Admit
  <1>5. Lines' = [Lines EXCEPT ![t] = @ \cup {n}]
    <2>1. \A c \in Call : phase'[c] = IF c = n THEN "queued" ELSE phase[c]
      BY <1>4 DEF RefinesInv, IntentsInv, LaneInv, TypeOK
    <2>2. Lines'[t] = Lines[t] \cup {n}
      BY <1>1, <2>1 DEF Lines
    <2>3. ASSUME NEW u \in Target \ {t} PROVE Lines'[u] = Lines[u]
      BY <2>1 DEF Lines
    <2>4. /\ Lines = [u \in Target |-> Lines[u]]
          /\ Lines' = [u \in Target |-> Lines'[u]]
      BY DEF Lines
    <2> QED BY <1>1, <2>2, <2>3, <2>4
  <1>6. Workers' = Workers
    BY <1>1, <1>4, WorkersStay DEF RefinesInv, IntentsInv, LaneInv, TypeOK
  <1>7. admissions' = admissions + 1 /\ order' = [order EXCEPT ![n] = admissions']
    BY DEF Admit
  <1>8. \E who \in SUBSET Lanes!Unanswered(t) : Lanes!Told(t, who)
    <2>1. CASE KindOf[n] # "light"
      <3>1. result' = result
        BY <2>1 DEF Admit, TakeSlot
      <3>2. Lanes!Told(t, {})
        BY <3>1 DEF Lanes!Told, RefinesInv, IntentsInv, LaneInv, TypeOK
      <3> QED BY <3>2
    <2>2. CASE KindOf[n] = "light"
      <3> DEFINE prior == {lightIntents[SlotOf[n]]} \ {None}
      <3>1. result' = Reject(result, prior, "command_superseded")
        BY <2>2 DEF Admit, TakeSlot
      <3>2. prior \in SUBSET Admitted /\ \A c \in prior : TargetOf[c] = t
        <4>1. SlotOf[n] \in Slot
          OBVIOUS
        <4>2. lightIntents[SlotOf[n]] # None =>
                /\ lightIntents[SlotOf[n]] \in Admitted
                /\ SlotOf[lightIntents[SlotOf[n]]] = SlotOf[n]
          BY <4>1 DEF RefinesInv, IntentsInv, IntentInv
        <4> QED BY <4>2 DEF Admitted
      <3>3. "command_superseded" \in Results \ {"pending"}
        BY DEF Results
      <3>4. Lanes!Told(t, {c \in prior : result[c] = "pending"})
        <4> HIDE DEF prior
        <4> QED BY <1>1, <3>1, <3>2, <3>3, RejectTells
      <3>5. {c \in prior : result[c] = "pending"} \subseteq Lanes!Unanswered(t)
        BY <3>4 DEF Lanes!Told
      <3> QED BY <3>4, <3>5
    <2> QED BY <2>1, <2>2
  <1> QED
    BY <1>1, <1>2, <1>3, <1>5, <1>6, <1>7, <1>8
    DEF Lanes!Accept, Lanes!InLine, Lanes!Working

(* The timer of a waiting operation is the abstract giving up.             *)
LEMMA ExpireGivesUp ==
  ASSUME RefinesInv, LaneInv', NEW c \in Call, Expire(c)
  PROVE  Lanes!GiveUp(c)
  <1> DEFINE t == TargetOf[c]
  <1>1. t \in Target /\ phase[c] = "queued" /\ c \in {c} /\ {c} \in SUBSET Admitted
    BY CommandLanesAssumption DEF Expire, Admitted
  <1>2. result[c] = "pending"
    BY <1>1 DEF RefinesInv, AnswerInv, Expire
  <1>3. UNCHANGED <<phase, order, admissions>> /\ result' = Reject(result, {c}, "command_queue_timeout")
    BY DEF Expire, orderVars
  <1>4. Workers' = Workers /\ Lines' = Lines
    BY <1>3, WorkersStay DEF Lines, RefinesInv, IntentsInv
  <1>5. Lanes!Told(t, {d \in {c} : result[d] = "pending"})
    BY <1>1, <1>3, RejectTells DEF Results
  <1>6. {d \in {c} : result[d] = "pending"} = {c}
    BY <1>2
  <1>7. c \in Lines[t]
    BY <1>1 DEF Lines
  <1> QED BY <1>3, <1>4, <1>5, <1>6, <1>7 DEF Lanes!GiveUp, Lanes!InLine

(* Who has its turn is the next one of its lane.                           *)
LEMMA TurnIsNext ==
  ASSUME RefinesInv, NEW c \in Call, HasTurn(c)
  PROVE  Lanes!IsNext(TargetOf[c], c)
  <1> DEFINE t == TargetOf[c]
  <1> USE DEF RefinesInv, IntentsInv
  <1>1. t \in Target /\ phase[c] = "queued" /\ c \in Admitted
    BY CommandLanesAssumption DEF HasTurn, Admitted
  <1>2. ASSUME NEW d \in Admitted, TargetOf[d] = t, phase[d] \in {"queued", "running"}
        PROVE  order[c] <= order[d]
    <2>1. ~Before(d, c)
      BY <1>2, TurnIsOrdered DEF SameLane
    <2> QED BY <2>1, <1>1 DEF Before, LaneInv, TypeOK, Admitted
  <1>3. \A d \in Lines[t] : order[c] <= order[d]
    BY <1>1, <1>2 DEF Lines, Admitted
  <1>4. Workers[t] = None
    <2> SUFFICES ASSUME Workers[t] # None PROVE FALSE
      OBVIOUS
    <2> DEFINE d == Workers[t]
    <2>1. d \in Admitted /\ TargetOf[d] = t /\ phase[d] = "running"
      BY <1>1, OneAtWork DEF WorkersRun, Admitted
    <2>2. order[c] <= order[d] /\ c # d
      BY <1>1, <1>2, <2>1
    <2>3. Before(c, d)
      BY <1>1, <2>1, <2>2 DEF LaneInv, Chains, TypeOK, Before, Admitted
    <2> QED BY <1>1, <2>1, <2>3 DEF LaneInv, InOrder, SameLane
  <1> QED BY <1>1, <1>3, <1>4 DEF Lanes!IsNext, Lines

(* A turn without work is the abstract leaving.                            *)
LEMMA TurnLeaves ==
  ASSUME RefinesInv, RefinesInv', NEW c \in Call, Skip(c) \/ RefuseAtTurn(c)
  PROVE  Lanes!Leave(TargetOf[c], c)
  <1> DEFINE t == TargetOf[c]
  <1> USE DEF RefinesInv, IntentsInv
  <1>1. /\ HasTurn(c) /\ phase[c] = "queued" /\ c \in Admitted /\ t \in Target
        /\ phase' = [phase EXCEPT ![c] = "settled"]
        /\ UNCHANGED <<order, admissions>>
    BY CommandLanesAssumption DEF Skip, RefuseAtTurn, HasTurn, Admitted, orderVars
  <1>2. Lines' = [Lines EXCEPT ![t] = @ \ {c}]
    BY <1>1 DEF Lines, LaneInv, TypeOK
  <1>3. Workers' = Workers
    BY <1>1, WorkersStay DEF LaneInv, TypeOK
  <1>4. result'[c] # "pending"
    BY <1>1 DEF ServedInv, LaneInv, TypeOK
  <1>5. \E who \in SUBSET {c} : Lanes!Told(t, who)
    <2>1. CASE Skip(c)
      <3>1. Lanes!Told(t, {})
        BY <2>1 DEF Lanes!Told, Skip, LaneInv, TypeOK
      <3> QED BY <3>1
    <2>2. CASE RefuseAtTurn(c)
      <3>1. PICK code \in Results \ {"pending"} : result' = Reject(result, {c}, code)
        BY <2>2 DEF RefuseAtTurn, Results
      <3>2. Lanes!Told(t, {d \in {c} : result[d] = "pending"})
        BY <1>1, <3>1, RejectTells
      <3> QED BY <3>2
    <2> QED BY <2>1, <2>2
  <1>6. Lanes!IsNext(t, c)
    BY <1>1, TurnIsNext
  <1> QED BY <1>1, <1>2, <1>3, <1>4, <1>5, <1>6 DEF Lanes!Leave

(* A turn that starts work is the abstract start.                          *)
LEMMA BeginStarts ==
  ASSUME RefinesInv, RefinesInv', NEW c \in Call, Begin(c)
  PROVE  Lanes!Start(TargetOf[c], c)
  <1> DEFINE t == TargetOf[c]
  <1> USE DEF RefinesInv, IntentsInv
  <1>1. /\ HasTurn(c) /\ phase[c] = "queued" /\ t \in Target
        /\ phase' = [phase EXCEPT ![c] = "running"]
        /\ UNCHANGED <<order, admissions, result>>
    BY CommandLanesAssumption DEF Begin, HasTurn, orderVars
  <1>2. result[c] = "pending"
    BY <1>1 DEF AnswerInv, Begin
  <1>3. Lines' = [Lines EXCEPT ![t] = @ \ {c}]
    BY <1>1 DEF Lines, LaneInv, TypeOK
  <1>4. Lanes!IsNext(t, c)
    BY <1>1, TurnIsNext
  <1>5. Workers' = [Workers EXCEPT ![t] = c]
    <2>1. WorkersRun /\ WorkersRun'
      BY OneAtWork, PTL
    <2>2. Workers'[t] = c
      BY <1>1, <2>1 DEF WorkersRun, LaneInv, TypeOK
    <2>3. ASSUME NEW u \in Target \ {t} PROVE Workers'[u] = Workers[u]
      <3>1. \A d \in Call : TargetOf[d] = u => phase'[d] = phase[d]
        BY <1>1 DEF LaneInv, TypeOK
      <3> QED BY <2>1, <3>1, CommandLanesAssumption DEF WorkersRun
    <2>4. /\ Workers = [u \in Target |-> Workers[u]]
          /\ Workers' = [u \in Target |-> Workers'[u]]
      BY DEF Workers
    <2> QED BY <1>1, <2>2, <2>3, <2>4
  <1> QED BY <1>1, <1>2, <1>3, <1>4, <1>5 DEF Lanes!Start

(* The end of the work is the abstract end.                                *)
LEMMA FinishEnds ==
  ASSUME RefinesInv, RefinesInv', NEW c \in Call, Finish(c)
  PROVE  Lanes!End(TargetOf[c])
  <1> DEFINE t == TargetOf[c]
  <1> USE DEF RefinesInv, IntentsInv
  <1>1. /\ phase[c] = "running" /\ c \in Admitted /\ t \in Target
        /\ phase' = [phase EXCEPT ![c] = "settled"]
        /\ UNCHANGED <<order, admissions>>
    BY CommandLanesAssumption DEF Finish, Admitted, orderVars
  <1>2. WorkersRun /\ WorkersRun'
    BY OneAtWork, PTL
  <1>3. Workers[t] = c /\ c # None
    BY <1>1, <1>2, CommandLanesAssumption DEF WorkersRun
  <1>4. Lines' = Lines
    BY <1>1 DEF Lines, LaneInv, TypeOK
  <1>5. result'[c] # "pending"
    BY <1>1 DEF ServedInv, LaneInv, TypeOK
  <1>6. \E who \in SUBSET {c} : Lanes!Told(t, who)
    <2>1. PICK code \in Results \ {"pending"} : result' = Reject(result, {c}, code)
      BY DEF Finish, Results
    <2>2. Lanes!Told(t, {d \in {c} : result[d] = "pending"})
      BY <1>1, <2>1, RejectTells
    <2> QED BY <2>2
  <1>7. Workers' = [Workers EXCEPT ![t] = None]
    <2>1. Workers'[t] = None
      <3>1. ASSUME Workers'[t] # None PROVE FALSE
        <4> DEFINE d == Workers'[t]
        <4>1. d \in Call /\ TargetOf[d] = t /\ phase'[d] = "running"
          BY <1>1, <1>2, <3>1 DEF WorkersRun
        <4>2. d # c /\ phase[d] = "running"
          BY <1>1, <4>1 DEF LaneInv, TypeOK
        <4> QED BY <1>1, <1>2, <1>3, <4>1, <4>2 DEF WorkersRun
      <3> QED BY <3>1
    <2>2. ASSUME NEW u \in Target \ {t} PROVE Workers'[u] = Workers[u]
      <3>1. \A d \in Call : TargetOf[d] = u => phase'[d] = phase[d]
        BY <1>1 DEF LaneInv, TypeOK
      <3> QED BY <1>2, <3>1, CommandLanesAssumption DEF WorkersRun
    <2>3. /\ Workers = [u \in Target |-> Workers[u]]
          /\ Workers' = [u \in Target |-> Workers'[u]]
      BY DEF Workers
    <2> QED BY <1>1, <2>1, <2>2, <2>3
  <1> QED BY <1>1, <1>3, <1>4, <1>5, <1>6, <1>7 DEF Lanes!End

(* Every step of the service is a step of the abstract lanes, or none.     *)
LEMMA StepsAreServed ==
  ASSUME RefinesInv, RefinesInv', [Next]_vars
  PROVE  [Lanes!Next]_(Lanes!vars)
  <1> USE DEF RefinesInv, IntentsInv
  <1>1. ASSUME UNCHANGED <<order, admissions, result, phase>> PROVE UNCHANGED Lanes!vars
    BY <1>1, BookkeepingStutters
  <1>2. ASSUME NEW c \in Call, Join(c) \/ Refuse(c) PROVE UNCHANGED Lanes!vars
    BY <1>1, <1>2 DEF Join, Refuse, orderVars
  <1>3. ASSUME NEW c \in Call, Admit(c) PROVE Lanes!Next
    BY <1>3, AdmitAccepts DEF Lanes!Next
  <1>4. ASSUME NEW c \in Call, Expire(c) PROVE Lanes!Next
    BY <1>4, ExpireGivesUp DEF Lanes!Next
  <1>5. ASSUME NEW c \in Call, Turn(c) PROVE Lanes!Next
    <2>1. TargetOf[c] \in Target
      BY CommandLanesAssumption
    <2> QED BY <1>5, <2>1, TurnLeaves, BeginStarts DEF Turn, Lanes!Next
  <1>6. ASSUME NEW c \in Call, Finish(c) PROVE Lanes!Next
    <2>1. TargetOf[c] \in Target
      BY CommandLanesAssumption
    <2> QED BY <1>6, <2>1, FinishEnds DEF Lanes!Next
  <1>7. ASSUME NEW c \in Call, Retire(c) PROVE UNCHANGED Lanes!vars
    BY <1>7, BookkeepingStutters DEF Retire, orderVars, LaneInv, TypeOK
  <1>8. CASE HealthChange \/ \E t \in Target : DeviceChange(t)
    BY <1>1, <1>8 DEF HealthChange, DeviceChange, orderVars
  <1>9. CASE UNCHANGED vars
    BY <1>1, <1>9 DEF vars
  <1> QED
    BY <1>2, <1>3, <1>4, <1>5, <1>6, <1>7, <1>8, <1>9 DEF Next, Execute

(* An empty service is an empty line.                                      *)
LEMMA ServiceStartsEmpty == Init => RefinesInv /\ Lanes!Init
  <1> SUFFICES ASSUME Init PROVE RefinesInv /\ Lanes!Init
    OBVIOUS
  <1>1. IntentsInv
    BY IntentsInit
  <1>2. AnswerInv /\ ServedInv
    BY DEF Init, AnswerInv, ServedInv
  <1>3. Lines = [t \in Target |-> {}]
    BY DEF Init, Lines
  <1>4. \A t \in Target : AtWork(t) = {}
    BY DEF Init, AtWork
  <1>5. Workers = [t \in Target |-> None]
    BY <1>4 DEF Workers
  <1> QED BY <1>1, <1>2, <1>3, <1>5 DEF RefinesInv, Init, Lanes!Init

(* The promises, timers and controllers of #enqueue implement serial lanes *)
(* with tickets, for every set of commands, targets and slots: nothing     *)
(* overtakes, nothing works beside another command of its target, nothing  *)
(* answers twice or begins after its answer.                               *)
THEOREM LanesAreServed == Spec => ServesSerialLanes
  <1>1. RefinesInv /\ [Next]_vars => RefinesInv'
    <2> SUFFICES ASSUME RefinesInv, [Next]_vars PROVE RefinesInv'
      OBVIOUS
    <2>1. IntentsInv'
      BY IntentsStep DEF RefinesInv
    <2>2. AnswerInv'
      BY <2>1, AnswerStep DEF RefinesInv
    <2> QED BY <2>1, <2>2, ServedStep DEF RefinesInv
  <1>2. RefinesInv /\ RefinesInv' /\ [Next]_vars => [Lanes!Next]_(Lanes!vars)
    BY StepsAreServed
  <1> QED BY <1>1, <1>2, ServiceStartsEmpty, PTL DEF Spec, ServesSerialLanes, Lanes!Spec

-----------------------------------------------------------------------------
(* What is always so of the tabs with which commands are carried out.      *)

(* The types of the variables. *)
Typed ==
  /\ queue \in Seq(Page!Job) /\ stage \in [Page!Job -> Page!Stage]
  /\ tab \in [Page!Job -> Page!Tab \cup {None}]
  /\ how \in [Page!Job -> {"none", "warm", "route", "fresh", "again", "opening"}]
  /\ open \subseteq Page!Tab /\ shows \in [Page!Tab -> Devices \cup {Page!Elsewhere}]
  /\ warm = None \/ warm \in [tab: Page!Tab, device: Devices, expired: BOOLEAN]
  /\ routes \subseteq Devices
  /\ inspected \in Page!Tab \cup {None} /\ preempted \subseteq Background
  /\ answered \subseteq Page!Job /\ lost \in 0..MaxLost

(* The stages in which a job has no tab yet, or has given it up.           *)
Tabless == {"new", "native", "queued", "warm", "route", "fresh", "again", "opening", "end"}

(* The stages of a foreground job that has its turn in the queue.          *)
Working == {"warm", "route", "fresh", "again", "opening", "arrive", "control", "click",
            "scene", "automations", "security", "confirm"}

(* Which job can be where, how it came there, and that it has a tab only   *)
(* where it works with one.                                                *)
Suits(j) ==
  /\ stage[j] \in {"native", "patching", "warm", "route", "fresh", "again", "control", "click"}
       => j \in DeviceOps
  /\ stage[j] \in {"scene", "automations"} => j \in SceneOps
  /\ stage[j] \in {"security", "confirm"} => j \in SecurityOps
  /\ stage[j] \in {"detail", "settle"} => j \in Background
  /\ stage[j] = "opening" => j \notin DeviceOps
  /\ stage[j] = "arrive" =>
       IF j \in DeviceOps THEN how[j] \in {"route", "fresh", "again"} ELSE how[j] = "opening"
  /\ stage[j] \in {"control", "click"} => how[j] \in {"warm", "route", "fresh", "again"}
  /\ stage[j] \in Tabless => tab[j] = None

Suited == \A j \in Page!Job : Suits(j)

(* A command leaves before it ends, and is answered last.  What it looks   *)
(* further after are clicks whose answer was lost, and these only scenes   *)
(* and security commands make.                                             *)
Ordered ==
  /\ sent \in [Page!Foreground -> Nat] /\ blind \in [Page!Foreground -> 0..Page!TextWays]
  /\ missed = 0
  /\ \A j \in Page!Foreground :
       /\ sent[j] <= 1 + blind[j]
       /\ sent[j] > blind[j] => stage[j] \in {"patching", "confirm", "end"}
       /\ j \in DeviceOps => blind[j] = 0
       /\ j \in answered => stage[j] = "end"

(* A command works in its turn, so at most one works. *)
Turns == \A j \in Page!Foreground : stage[j] \in Working => Page!Turn(j)

(* A request is patched in the warm tab, or in one that is closed since; a *)
(* command that took the warm tab over still has it; whoever looks further *)
(* has given the warm tab up.                                              *)
WarmFor(j) ==
  /\ stage[j] = "patching" /\ tab[j] \in open => warm # None /\ warm.tab = tab[j]
  /\ stage[j] \in {"control", "click"} /\ how[j] = "warm" => warm # None /\ warm.tab = tab[j]
  /\ \/ stage[j] \in {"route", "fresh", "again", "arrive"}
     \/ stage[j] \in {"control", "click"} /\ how[j] # "warm"
     => warm = None

WarmKept == \A j \in DeviceOps : WarmFor(j)

(* The tab of an inspection is nobody else's, nor the warm one. *)
OwnTabs ==
  \A b \in Background :
    tab[b] # None =>
      /\ \A k \in Page!Job \ {b} : tab[b] # tab[k]
      /\ warm # None => tab[b] # warm.tab

(* The tab to close when a command comes is the one of an inspection. *)
InspectedIs ==
  inspected # None =>
    \E b \in Background : stage[b] \in {"detail", "settle"} /\ tab[b] = inspected

PageInv ==
  /\ Typed /\ Suited /\ Ordered /\ Turns /\ WarmKept /\ OwnTabs /\ InspectedIs
  /\ Page!NothingLeftOpen

-----------------------------------------------------------------------------
(* The counts of the two modules are one. *)
LEMMA SameCount ==
  ASSUME NEW S
  PROVE  Page!Cardinality(S) = Cardinality(S)
BY DEF Page!Cardinality, Cardinality

(* There is one tab more than jobs, so one is free when a job without a tab *)
(* wants one.                                                              *)
LEMMA TabIsFree ==
  ASSUME PageInv, NEW j \in Page!Job, tab[j] = None
  PROVE  /\ Page!UnusedTab \in Page!Tab \ open /\ Page!UnusedTab \notin Page!Referred
         /\ Page!UnusedTab # None
<1> DEFINE Others == Page!Job \ {j}
           Held == {tab[k] : k \in Others}
           Kept == IF warm = None THEN {} ELSE {warm.tab}
<1>1. Cardinality(Page!Job) \in Nat /\ IsFiniteSet(Others)
        /\ Cardinality(Others) = Cardinality(Page!Job) - 1
  BY FS_CardinalityType, FS_RemoveElement, CommandAnswersAssumption
<1>2. IsFiniteSet(Held) /\ Cardinality(Held) <= Cardinality(Page!Job) - 1
  <2> DEFINE f == [k \in Others |-> tab[k]]
  <2>1. f \in Surjection(Others, Held)
    BY DEF Surjection
  <2> QED BY <1>1, <2>1, FS_Surjection
<1>3. IsFiniteSet(Kept) /\ Cardinality(Kept) <= 1
  <2>1. CASE warm = None
    <3>1. Kept = {}
      BY <2>1
    <3> HIDE DEF Kept
    <3> QED BY <3>1, FS_EmptySet
  <2>2. CASE warm # None
    <3>1. Kept = {warm.tab}
      BY <2>2
    <3>2. IsFiniteSet({warm.tab}) /\ Cardinality({warm.tab}) = 1
      BY FS_Singleton
    <3> HIDE DEF Kept
    <3> QED BY <3>1, <3>2
  <2> QED BY <2>1, <2>2
<1>4. IsFiniteSet(Held \cup Kept) /\ Cardinality(Held \cup Kept) <= Cardinality(Page!Job)
  <2> HIDE DEF Held, Kept
  <2>1. IsFiniteSet(Held \cap Kept) /\ Cardinality(Held \cap Kept) \in Nat
    BY <1>2, FS_Intersection, FS_CardinalityType
  <2>2. Cardinality(Held) \in Nat /\ Cardinality(Kept) \in Nat
    BY <1>2, <1>3, FS_CardinalityType
  <2>3. /\ IsFiniteSet(Held \cup Kept)
        /\ Cardinality(Held \cup Kept)
             = Cardinality(Held) + Cardinality(Kept) - Cardinality(Held \cap Kept)
    BY <1>2, <1>3, FS_Union
  <2> QED BY <1>1, <1>2, <1>3, <2>1, <2>2, <2>3
<1>5. IsFiniteSet(Page!Tab) /\ Cardinality(Page!Tab) = Cardinality(Page!Job) + 1
  <2>1. Cardinality(Page!Job) + 1 \in Int
    BY <1>1
  <2> QED BY <1>1, <2>1, FS_Interval, SameCount DEF Page!Tab
<1>6. \E t \in Page!Tab : t \notin Held \cup Kept
  <2> HIDE DEF Held, Kept
  <2> SUFFICES ASSUME Page!Tab \subseteq Held \cup Kept PROVE FALSE
    OBVIOUS
  <2>1. Cardinality(Page!Tab) <= Cardinality(Held \cup Kept)
    BY <1>4, FS_Subset
  <2> QED BY <1>1, <1>4, <1>5, <2>1, FS_CardinalityType
<1>7. Page!Referred \cup open \subseteq Held \cup Kept \cup {None}
  <2>1. {tab[k] : k \in Page!Job} \subseteq Held \cup {None}
    OBVIOUS
  <2>2. inspected \in Held \cup {None}
    BY CommandAnswersAssumption DEF PageInv, InspectedIs, Page!Job
  <2>3. open \subseteq Held \cup Kept \cup {None}
    BY <2>1 DEF PageInv, Page!NothingLeftOpen
  <2> QED BY <2>1, <2>2, <2>3 DEF Page!Referred
<1>8. \E t \in Page!Tab \ open : t \notin Page!Referred
  BY <1>6, <1>7, CommandAnswersAssumption
<1> QED BY <1>8, CommandAnswersAssumption DEF Page!UnusedTab

-----------------------------------------------------------------------------
(* What the steps of a job leave well formed. *)
LEMMA StepTyped ==
  ASSUME Typed, NEW j \in Page!Job, NEW s \in Page!Stage, Page!Step(j, s)
  PROVE  stage' \in [Page!Job -> Page!Stage]
BY DEF Typed, Page!Step

LEMMA EndsTyped ==
  ASSUME Typed, NEW j \in Page!Job, Page!Ends(j)
  PROVE  stage' \in [Page!Job -> Page!Stage] /\ answered' \subseteq Page!Job
BY DEF Typed, Page!Ends, Page!Step, Page!Stage

LEMMA LeavesTyped ==
  ASSUME Typed, NEW j \in Page!Job, Page!Leaves(j)
  PROVE  queue' \in Seq(Page!Job)
<1>1. CASE queue = <<>>
  BY <1>1 DEF Typed, Page!Leaves, Page!Turn
<1>2. CASE queue # <<>>
  BY <1>2, HeadTailProperties DEF Typed, Page!Leaves, Page!Turn
<1> QED BY <1>1, <1>2

LEMMA ReleaseTyped ==
  ASSUME Typed, NEW j \in Page!Job, Page!Release(j)
  PROVE  /\ tab' \in [Page!Job -> Page!Tab \cup {None}]
         /\ how' \in [Page!Job -> {"none", "warm", "route", "fresh", "again", "opening"}]
BY DEF Typed, Page!Release

LEMMA FinishTyped ==
  ASSUME Typed, NEW j \in Page!Job, Page!Finish(j)
  PROVE  /\ queue' \in Seq(Page!Job) /\ stage' \in [Page!Job -> Page!Stage]
              /\ answered' \subseteq Page!Job
         /\ tab' \in [Page!Job -> Page!Tab \cup {None}]
         /\ how' \in [Page!Job -> {"none", "warm", "route", "fresh", "again", "opening"}]
BY EndsTyped, LeavesTyped, ReleaseTyped DEF Page!Finish

LEMMA EntersTyped ==
  ASSUME Typed, NEW j \in Page!Job, Page!RunForeground(j)
  PROVE  /\ queue' \in Seq(Page!Job) /\ stage' \in [Page!Job -> Page!Stage]
         /\ preempted' \subseteq Background /\ open' \subseteq Page!Tab
<1>1. queue' \in Seq(Page!Job)
  BY AppendProperties DEF Typed, Page!RunForeground
<1> QED BY <1>1 DEF Typed, Page!RunForeground, Page!Step, Page!Stage, Page!Preempt

LEMMA RememberTyped ==
  ASSUME Typed, NEW t \in Page!Tab, NEW d \in Devices, Page!Remember(t, d)
  PROVE  /\ warm' = None \/ warm' \in [tab: Page!Tab, device: Devices, expired: BOOLEAN]
         /\ routes' \subseteq Devices
BY DEF Typed, Page!Remember

LEMMA RefreshTyped ==
  ASSUME Typed, warm # None
  PROVE  [warm EXCEPT !.expired = FALSE] \in [tab: Page!Tab, device: Devices, expired: BOOLEAN]
BY DEF Typed

LEMMA GivesUpTyped ==
  ASSUME Typed, NEW j \in Page!Job, Page!GivesUpTab(j)
  PROVE  /\ open' \subseteq Page!Tab /\ routes' \subseteq Devices
         /\ warm' = None \/ warm' \in [tab: Page!Tab, device: Devices, expired: BOOLEAN]
         /\ tab' \in [Page!Job -> Page!Tab \cup {None}]
         /\ how' \in [Page!Job -> {"none", "warm", "route", "fresh", "again", "opening"}]
<1>1. open' \subseteq Page!Tab /\ routes' \subseteq Devices
  BY DEF Typed, Page!GivesUpTab
<1>2. warm' = None \/ warm' \in [tab: Page!Tab, device: Devices, expired: BOOLEAN]
  BY DEF Typed, Page!GivesUpTab
<1>3. Page!Release(j)
  BY DEF Page!GivesUpTab
<1> QED BY <1>1, <1>2, <1>3, ReleaseTyped

(* Every step leaves the variables well formed. *)
LEMMA PageTypeStep == PageInv /\ [Page!Next]_(Page!vars) => Typed'
<1> SUFFICES ASSUME PageInv, [Page!Next]_(Page!vars) PROVE Typed'
  OBVIOUS
<1> USE CommandAnswersAssumption
<1>0. Typed /\ Page!Foreground \subseteq Page!Job /\ Background \subseteq Page!Job
  BY DEF PageInv, Page!Job
<1> USE DEF Typed, Page!Stage
<1>1. ASSUME NEW j \in Page!Foreground, Page!Requested(j) \/ Page!NativeUnavailable(j)
     PROVE Typed'
  BY <1>0, <1>1, EntersTyped
     DEF Page!Requested, Page!RunForeground, Page!Preempt, Page!Step, Page!NativeUnavailable
<1>2. ASSUME NEW j \in Page!Foreground, Page!NativePatch(j) PROVE Typed'
  BY <1>0, <1>2 DEF Page!NativePatch
<1>3. ASSUME NEW j \in Page!Foreground, Page!NativeOver(j) PROVE Typed'
  <2> DEFINE young == [warm EXCEPT !.expired = FALSE]
  <2>1. \E ok \in BOOLEAN :
          warm' = IF ok /\ warm # None /\ tab[j] = warm.tab THEN young ELSE warm
    BY <1>3 DEF Page!NativeOver
  <2>2. warm # None => young \in [tab: Page!Tab, device: Devices, expired: BOOLEAN]
    BY <1>0, RefreshTyped
  <2> HIDE DEF young
  <2>3. warm' = None \/ warm' \in [tab: Page!Tab, device: Devices, expired: BOOLEAN]
    BY <1>0, <2>1, <2>2 DEF Typed
  <2> QED BY <1>0, <1>3, <2>3, EndsTyped, ReleaseTyped DEF Page!NativeOver, Typed
<1>4. ASSUME NEW j \in Page!Foreground, Page!NativeFails(j) \/ Page!QueueTimeout(j) PROVE Typed'
  BY <1>0, <1>4, EndsTyped DEF Page!NativeFails, Page!Step, Page!QueueTimeout, Page!QueueExpires
<1>5. ASSUME NEW j \in Page!Foreground, Page!SkipsExpired(j) \/ Page!StartsDevice(j)
        \/ Page!NoVerifiedRoute(j)
     PROVE Typed'
  BY <1>0, <1>5, LeavesTyped
     DEF Page!SkipsExpired, Page!StartsDevice, Page!Step, Page!NoVerifiedRoute
<1>6. ASSUME NEW j \in Page!Foreground, Page!WarmPageFor(j) PROVE Typed'
  BY <1>0, <1>6 DEF Page!WarmPageFor, Page!IsWarmFor, Page!Invalidate, Page!Step, Page!Uses
<1>7. ASSUME NEW j \in Page!Foreground, Page!RecoverWarmPage(j) PROVE Typed'
  <2>1. CASE Page!Invalidate /\ Page!Step(j, "route") /\ UNCHANGED <<shows, routes, tab, how>>
    BY <1>0, <1>7, <2>1 DEF Page!RecoverWarmPage, Page!Invalidate, Page!Step, Typed, Page!Stage
  <2>2. CASE Page!Remember(warm.tab, DeviceOf[j])
    <3>1. warm.tab \in Page!Tab /\ DeviceOf[j] \in Devices
      BY <1>0, <1>7 DEF Page!RecoverWarmPage, Page!IsWarmFor, Typed, PageInv, Suited, Suits
    <3> QED BY <1>0, <1>7, <2>2, <3>1, RememberTyped
        DEF Page!RecoverWarmPage, Page!Invalidate, Page!Step, Page!Uses, Typed, Page!Stage
  <2> QED BY <1>7, <2>1, <2>2 DEF Page!RecoverWarmPage
<1>8. ASSUME NEW j \in Page!Foreground, Page!OpenCommandPage(j) PROVE Typed'
  BY <1>0, <1>8, TabIsFree
     DEF Page!OpenCommandPage, Page!Uses, Page!Step, PageInv, Suited, Suits, Tabless
<1>9. ASSUME NEW j \in Page!Foreground, Page!RouteLeadsThere(j) \/ Page!RoomsLeadThere(j)
     PROVE Typed'
  BY <1>0, <1>9
     DEF Page!RouteLeadsThere, Page!Arrives, Page!Step, PageInv, Suited, Suits, Tabless,
         Page!RoomsLeadThere
<1>10. ASSUME NEW j \in Page!Foreground, Page!FindsDialog(j) \/ Page!ArrivesAtLocation(j)
        \/ Page!SceneNotHere(j) \/ Page!ClicksSecurity(j)
     PROVE Typed'
  BY <1>0, <1>10
     DEF Page!FindsDialog, Page!Step, Page!ArrivesAtLocation, Page!SceneNotHere,
         Page!ClicksSecurity
<1>11. ASSUME NEW j \in Page!Foreground, Page!RouteInvalid(j) \/ Page!RoomNotFound(j)
     PROVE Typed'
  BY <1>0, <1>11, ReleaseTyped DEF Page!RouteInvalid, Page!Close, Page!Step, Page!RoomNotFound
<1>12. ASSUME NEW j \in Page!Foreground, Page!OpenFails(j) \/ Page!KeeperRefuses(j) PROVE Typed'
  BY <1>0, <1>12, FinishTyped DEF Page!OpenFails, Page!Step, Page!KeeperRefuses
<1>13. ASSUME NEW j \in Page!Foreground, Page!TargetNotFound(j) \/ Page!LocationUnreached(j)
        \/ Page!SceneFails(j)
     PROVE Typed'
  BY <1>0, <1>13, FinishTyped
     DEF Page!TargetNotFound, Page!Close, Page!Step, Page!LocationUnreached, Page!SceneFails
<1>14. ASSUME NEW j \in Page!Foreground, Page!ClicksScene(j) \/ Page!SecurityOver(j) PROVE Typed'
  BY <1>0, <1>14, FinishTyped DEF Page!ClicksScene, Page!Close, Page!Step, Page!SecurityOver
<1>14a. ASSUME NEW j \in Page!Foreground, Page!ClickUnseen(j) PROVE Typed'
  BY <1>0, <1>14a, FinishTyped DEF Page!ClickUnseen, Page!Close, Page!Step
<1>15. ASSUME NEW j \in Page!Foreground, Page!ControlMissing(j) \/ Page!ControlError(j)
     PROVE Typed'
  BY <1>0, <1>15, EndsTyped, LeavesTyped, GivesUpTyped
     DEF Page!ControlMissing, Page!Continues, Page!AfterControlMissing, Page!Step,
         Page!ControlError, Page!AfterControlError
<1>16. ASSUME NEW j \in Page!Foreground, Page!Clicks(j) PROVE Typed'
  <2>1. tab[j] \in Page!Tab /\ DeviceOf[j] \in Devices
    BY <1>0, <1>16 DEF Page!Clicks, Page!Scope, Typed, PageInv, Suited, Suits
  <2>2. CASE Page!GivesUpTab(j) /\ Page!Continues(j, Page!AfterControlError(j))
    BY <1>0, <1>16, <2>2, GivesUpTyped, EndsTyped, LeavesTyped
       DEF Page!Clicks, Page!Continues, Page!AfterControlError, Typed
  <2>3. CASE Page!Finish(j) /\ how[j] = "warm"
    <3> DEFINE young == [warm EXCEPT !.expired = FALSE]
    <3>1. Page!GivesUpTab(j) \/ warm' = IF warm = None THEN None ELSE young
      BY <1>16, <2>3 DEF Page!Clicks
    <3>2. warm # None => young \in [tab: Page!Tab, device: Devices, expired: BOOLEAN]
      BY <1>0, RefreshTyped
    <3> HIDE DEF young
    <3>3. warm' = None \/ warm' \in [tab: Page!Tab, device: Devices, expired: BOOLEAN]
      BY <2>3, <3>1, <3>2 DEF Page!GivesUpTab
    <3> QED BY <1>0, <1>16, <2>3, <3>3, FinishTyped DEF Page!Clicks, Page!GivesUpTab, Typed
  <2>4. CASE Page!Finish(j) /\ Page!Remember(tab[j], DeviceOf[j])
    BY <1>0, <1>16, <2>1, <2>4, FinishTyped, RememberTyped
       DEF Page!Clicks, Page!GivesUpTab, Page!Close, Typed
  <2> QED BY <1>16, <2>2, <2>3, <2>4 DEF Page!Clicks
<1>17. ASSUME NEW j \in Page!Foreground, Page!StartsScene(j) \/ Page!StartsSecurity(j)
     PROVE Typed'
  BY <1>0, <1>17 DEF Page!StartsScene, Page!Invalidate, Page!Step, Page!StartsSecurity
<1>18. ASSUME NEW b \in Background, Page!Preempted(b) PROVE Typed'
  BY <1>0, <1>18, LeavesTyped DEF Page!Preempted
<1>19. ASSUME NEW b \in Background, Page!Inspect(b) PROVE Typed'
  BY <1>0, <1>19 DEF Page!Inspect, Page!Step
<1>20. ASSUME NEW b \in Background, Page!StartsInspection(b) PROVE Typed'
  BY <1>0, <1>20, FinishTyped DEF Page!StartsInspection, Page!StopsInspecting, Page!Step
<1>21. ASSUME NEW b \in Background, Page!OpenCommandPage(b) PROVE Typed'
  BY <1>0, <1>21, TabIsFree
     DEF Page!OpenCommandPage, Page!Uses, Page!Step, PageInv, Suited, Suits, Tabless
<1>22. ASSUME NEW b \in Background, Page!OpenFails(b) \/ Page!LocationUnreached(b) PROVE Typed'
  BY <1>0, <1>22, FinishTyped DEF Page!OpenFails, Page!Step, Page!LocationUnreached, Page!Close
<1>23. ASSUME NEW b \in Background, Page!InspectionArrives(b) PROVE Typed'
  BY <1>0, <1>23, FinishTyped
     DEF Page!InspectionArrives, Page!StopsInspecting, Page!Close, Page!Step
<1>24. ASSUME NEW b \in Background, Page!Inspects(b) \/ Page!InspectionOver(b) PROVE Typed'
  BY <1>0, <1>24, FinishTyped
     DEF Page!Inspects, Page!Step, Page!InspectionOver, Page!EndsInspection, Page!Close
<1>25. ASSUME Page!HasWarmCommandPage PROVE Typed'
  BY <1>0, <1>25 DEF Page!HasWarmCommandPage, Page!Close
<1>26. ASSUME Page!WarmExpires PROVE Typed'
  BY <1>0, <1>26 DEF Page!WarmExpires
<1>27. ASSUME NEW t \in Page!Tab, Page!TabLost(t)
        \/ \E d \in Devices \cup {Page!Elsewhere} : Page!Wanders(t, d)
     PROVE Typed'
  BY <1>0, <1>27 DEF Page!TabLost, Page!Close, Page!Wanders
<1>28. ASSUME UNCHANGED Page!vars \/ \E d \in Devices : Page!RouteExpires(d) PROVE Typed'
  BY <1>0, <1>28 DEF Page!RouteExpires, Page!vars
<1> QED BY <1>1, <1>2, <1>3, <1>4, <1>5, <1>6, <1>7, <1>8, <1>9, <1>10, <1>11, <1>12, <1>13,
    <1>14, <1>14a, <1>15, <1>16, <1>17, <1>18, <1>19, <1>20, <1>21, <1>22, <1>23, <1>24, <1>25,
        <1>26, <1>27, <1>28
    DEF Page!Next, Page!ForegroundStep, Page!BackgroundStep, Page!Environment

(* A job gets where it belongs, and has a tab only where it works with one. *)
LEMMA SuitsStep == PageInv /\ [Page!Next]_(Page!vars) => Suited'
<1> SUFFICES ASSUME PageInv, [Page!Next]_(Page!vars) PROVE Suited'
  OBVIOUS
<1>0. /\ Typed /\ Suited
      /\ Page!Foreground \subseteq Page!Job /\ Background \subseteq Page!Job
      /\ DeviceOps \cap SceneOps = {} /\ DeviceOps \cap SecurityOps = {}
      /\ SceneOps \cap SecurityOps = {} /\ Page!Foreground \cap Background = {}
      /\ Page!Foreground = DeviceOps \cup SceneOps \cup SecurityOps
  BY CommandAnswersAssumption DEF PageInv, Page!Job, Page!Foreground
<1> USE DEF Typed, Suited, Suits, Tabless
<1>1. ASSUME NEW j \in Page!Foreground, Page!Requested(j) \/ Page!NativeUnavailable(j)
     PROVE Suited'
  BY <1>0, <1>1 DEF Page!Requested, Page!RunForeground, Page!Step, Page!NativeUnavailable
<1>2. ASSUME NEW j \in Page!Foreground, Page!NativePatch(j) PROVE Suited'
  BY <1>0, <1>2 DEF Page!NativePatch
<1>3. ASSUME NEW j \in Page!Foreground, Page!NativeOver(j) PROVE Suited'
  BY <1>0, <1>3 DEF Page!NativeOver, Page!Ends, Page!Step, Page!Release
<1>4. ASSUME NEW j \in Page!Foreground, Page!NativeFails(j) \/ Page!QueueTimeout(j) PROVE Suited'
  BY <1>0, <1>4 DEF Page!NativeFails, Page!Ends, Page!Step, Page!QueueTimeout, Page!QueueExpires
<1>5. ASSUME NEW j \in Page!Foreground, Page!SkipsExpired(j) \/ Page!StartsDevice(j)
        \/ Page!NoVerifiedRoute(j)
     PROVE Suited'
  BY <1>0, <1>5 DEF Page!SkipsExpired, Page!StartsDevice, Page!Step, Page!NoVerifiedRoute
<1>6. ASSUME NEW j \in Page!Foreground, Page!WarmPageFor(j) PROVE Suited'
  BY <1>0, <1>6 DEF Page!WarmPageFor, Page!Step, Page!Uses
<1>7. ASSUME NEW j \in Page!Foreground, Page!RecoverWarmPage(j) PROVE Suited'
  BY <1>0, <1>7 DEF Page!RecoverWarmPage, Page!Step, Page!Uses
<1>8. ASSUME NEW j \in Page!Foreground, Page!OpenCommandPage(j) PROVE Suited'
  BY <1>0, <1>8 DEF Page!OpenCommandPage, Page!Uses, Page!Step
<1>9. ASSUME NEW j \in Page!Foreground, Page!RouteLeadsThere(j) \/ Page!RoomsLeadThere(j)
     PROVE Suited'
  BY <1>0, <1>9 DEF Page!RouteLeadsThere, Page!Arrives, Page!Step, Page!RoomsLeadThere
<1>10. ASSUME NEW j \in Page!Foreground, Page!FindsDialog(j) \/ Page!ArrivesAtLocation(j)
        \/ Page!SceneNotHere(j) \/ Page!ClicksSecurity(j)
     PROVE Suited'
  BY <1>0, <1>10
     DEF Page!FindsDialog, Page!Step, Page!ArrivesAtLocation, Page!SceneNotHere,
         Page!ClicksSecurity
<1>11. ASSUME NEW j \in Page!Foreground, Page!RouteInvalid(j) \/ Page!RoomNotFound(j)
     PROVE Suited'
  BY <1>0, <1>11 DEF Page!RouteInvalid, Page!Release, Page!Step, Page!RoomNotFound
<1>12. ASSUME NEW j \in Page!Foreground, Page!OpenFails(j) \/ Page!KeeperRefuses(j) PROVE Suited'
  BY <1>0, <1>12
     DEF Page!OpenFails, Page!Finish, Page!Ends, Page!Release, Page!Step, Page!KeeperRefuses
<1>13. ASSUME NEW j \in Page!Foreground, Page!TargetNotFound(j) \/ Page!LocationUnreached(j)
        \/ Page!SceneFails(j)
     PROVE Suited'
  BY <1>0, <1>13
     DEF Page!TargetNotFound, Page!Finish, Page!Ends, Page!Release, Page!Step,
         Page!LocationUnreached, Page!SceneFails
<1>14. ASSUME NEW j \in Page!Foreground, Page!ClicksScene(j) \/ Page!SecurityOver(j)
     PROVE Suited'
  BY <1>0, <1>14
     DEF Page!ClicksScene, Page!Finish, Page!Ends, Page!Release, Page!Step, Page!SecurityOver
<1>14a. ASSUME NEW j \in Page!Foreground, Page!ClickUnseen(j)
     PROVE Suited'
  BY <1>0, <1>14a
     DEF Page!ClickUnseen, Page!Finish, Page!Ends, Page!Release, Page!Step, Page!Close
<1>15. ASSUME NEW j \in Page!Foreground, Page!ControlMissing(j) \/ Page!ControlError(j)
     PROVE Suited'
  BY <1>0, <1>15
     DEF Page!ControlMissing, Page!GivesUpTab, Page!Continues, Page!AfterControlMissing,
         Page!Release, Page!Ends, Page!Step, Page!ControlError, Page!AfterControlError
<1>16. ASSUME NEW j \in Page!Foreground, Page!Clicks(j) PROVE Suited'
  BY <1>0, <1>16
     DEF Page!Clicks, Page!GivesUpTab, Page!Continues, Page!AfterControlError, Page!Finish,
         Page!Release, Page!Ends, Page!Step
<1>17. ASSUME NEW j \in Page!Foreground, Page!StartsScene(j) \/ Page!StartsSecurity(j)
     PROVE Suited'
  BY <1>0, <1>17 DEF Page!StartsScene, Page!Step, Page!StartsSecurity
<1>18. ASSUME NEW b \in Background, Page!Inspect(b) \/ Page!Preempted(b) PROVE Suited'
  BY <1>0, <1>18 DEF Page!Inspect, Page!Step, Page!Preempted
<1>19. ASSUME NEW b \in Background, Page!StartsInspection(b) PROVE Suited'
  BY <1>0, <1>19 DEF Page!StartsInspection, Page!Finish, Page!Ends, Page!Release, Page!Step
<1>20. ASSUME NEW b \in Background, Page!OpenCommandPage(b) PROVE Suited'
  BY <1>0, <1>20 DEF Page!OpenCommandPage, Page!Uses, Page!Step
<1>21. ASSUME NEW b \in Background, Page!OpenFails(b) \/ Page!LocationUnreached(b) PROVE Suited'
  BY <1>0, <1>21
     DEF Page!OpenFails, Page!Finish, Page!Ends, Page!Release, Page!Step, Page!LocationUnreached
<1>22. ASSUME NEW b \in Background, Page!InspectionArrives(b) PROVE Suited'
  BY <1>0, <1>22 DEF Page!InspectionArrives, Page!Finish, Page!Ends, Page!Release, Page!Step
<1>23. ASSUME NEW b \in Background, Page!Inspects(b) \/ Page!InspectionOver(b) PROVE Suited'
  BY <1>0, <1>23
     DEF Page!Inspects, Page!Step, Page!InspectionOver, Page!EndsInspection, Page!Finish,
         Page!Ends, Page!Release
<1>24. ASSUME Page!HasWarmCommandPage PROVE Suited'
  BY <1>0, <1>24 DEF Page!HasWarmCommandPage
<1>25. ASSUME Page!WarmExpires PROVE Suited'
  BY <1>0, <1>25 DEF Page!WarmExpires
<1>26. ASSUME NEW t \in Page!Tab, Page!TabLost(t)
        \/ \E d \in Devices \cup {Page!Elsewhere} : Page!Wanders(t, d)
     PROVE Suited'
  BY <1>0, <1>26 DEF Page!TabLost, Page!Wanders
<1>27. ASSUME UNCHANGED Page!vars \/ \E d \in Devices : Page!RouteExpires(d) PROVE Suited'
  BY <1>0, <1>27 DEF Page!RouteExpires, Page!vars
<1> QED BY <1>1, <1>2, <1>3, <1>4, <1>5, <1>6, <1>7, <1>8, <1>9, <1>10, <1>11, <1>12, <1>13,
    <1>14, <1>14a, <1>15, <1>16, <1>17, <1>18, <1>19, <1>20, <1>21, <1>22, <1>23, <1>24, <1>25,
        <1>26, <1>27
    DEF Page!Next, Page!ForegroundStep, Page!BackgroundStep, Page!Environment

(* The order is kept when something leaves for j with an answer, or nothing leaves, and j    *)
(* goes to s.                                                                                *)
LEMMA LeavingKeepsOrder ==
  ASSUME Typed, Ordered, NEW j \in Page!Foreground, NEW s \in Page!Stage,
         stage[j] \notin {"patching", "confirm", "end"},
         \/ sent' = sent
         \/ sent' = [sent EXCEPT ![j] = sent[j] + 1] /\ s \in {"patching", "confirm", "end"},
         blind' = blind, missed' = missed,
         stage' = [stage EXCEPT ![j] = s],
         answered' = answered \/ (answered' = answered \cup {j} /\ s = "end")
  PROVE  Ordered'
<1>1. /\ sent \in [Page!Foreground -> Nat] /\ blind \in [Page!Foreground -> 0..Page!TextWays]
      /\ sent[j] \in Nat /\ blind[j] \in Nat /\ Page!TextWays = 3 /\ j \in Page!Job
      /\ stage \in [Page!Job -> Page!Stage] /\ Page!Foreground \subseteq Page!Job
  <2>1. sent \in [Page!Foreground -> Nat] /\ blind \in [Page!Foreground -> 0..3]
    BY DEF Ordered, Page!TextWays
  <2>2. stage \in [Page!Job -> Page!Stage] /\ Page!Foreground \subseteq Page!Job
    BY DEF Typed, Page!Job
  <2> QED BY <2>1, <2>2 DEF Page!TextWays
<1>2. /\ sent' \in [Page!Foreground -> Nat] /\ stage'[j] = s
      /\ \/ sent'[j] = sent[j]
         \/ sent'[j] = sent[j] + 1 /\ s \in {"patching", "confirm", "end"}
  BY <1>1
<1>3. sent[j] <= blind[j] /\ j \notin answered
  BY <1>1 DEF Ordered
<1>4. ASSUME NEW k \in Page!Foreground
      PROVE  /\ sent'[k] <= 1 + blind'[k]
             /\ sent'[k] > blind'[k] => stage'[k] \in {"patching", "confirm", "end"}
             /\ k \in DeviceOps => blind'[k] = 0
             /\ k \in answered' => stage'[k] = "end"
  <2>1. CASE k = j
    BY <1>1, <1>2, <1>3, <2>1 DEF Ordered
  <2>2. CASE k # j
    BY <1>1, <2>2 DEF Ordered
  <2> QED BY <2>1, <2>2
<1> QED BY <1>1, <1>2, <1>4 DEF Ordered

(* And when a click of a scene or a security command loses its answer.                       *)
LEMMA LosingKeepsOrder ==
  ASSUME Typed, Ordered, NEW j \in Page!Foreground, NEW s \in Page!Stage,
         stage[j] \notin {"patching", "confirm", "end"}, j \notin DeviceOps,
         sent' = [sent EXCEPT ![j] = sent[j] + 1],
         blind' = [blind EXCEPT ![j] = blind[j] + 1], blind[j] < Page!TextWays,
         missed' = missed, stage' = [stage EXCEPT ![j] = s],
         answered' = answered \/ (answered' = answered \cup {j} /\ s = "end")
  PROVE  Ordered'
<1>1. /\ sent \in [Page!Foreground -> Nat] /\ blind \in [Page!Foreground -> 0..Page!TextWays]
      /\ sent[j] \in Nat /\ blind[j] \in Nat /\ Page!TextWays = 3 /\ j \in Page!Job
      /\ stage \in [Page!Job -> Page!Stage] /\ Page!Foreground \subseteq Page!Job
  <2>1. sent \in [Page!Foreground -> Nat] /\ blind \in [Page!Foreground -> 0..3]
    BY DEF Ordered, Page!TextWays
  <2>2. stage \in [Page!Job -> Page!Stage] /\ Page!Foreground \subseteq Page!Job
    BY DEF Typed, Page!Job
  <2> QED BY <2>1, <2>2 DEF Page!TextWays
<1>2. /\ sent' \in [Page!Foreground -> Nat] /\ sent'[j] = sent[j] + 1 /\ stage'[j] = s
      /\ blind' \in [Page!Foreground -> 0..Page!TextWays] /\ blind'[j] = blind[j] + 1
  BY <1>1
<1>3. sent[j] <= blind[j] /\ j \notin answered
  BY <1>1 DEF Ordered
<1>4. ASSUME NEW k \in Page!Foreground
      PROVE  /\ sent'[k] <= 1 + blind'[k]
             /\ sent'[k] > blind'[k] => stage'[k] \in {"patching", "confirm", "end"}
             /\ k \in DeviceOps => blind'[k] = 0
             /\ k \in answered' => stage'[k] = "end"
  <2>1. CASE k = j
    BY <1>1, <1>2, <1>3, <2>1 DEF Ordered
  <2>2. CASE k # j
    BY <1>1, <2>2 DEF Ordered
  <2> QED BY <2>1, <2>2
<1> QED BY <1>2, <1>4 DEF Ordered

(* No step sends a command twice, or answers it before it is done. *)
LEMMA OrderStep == PageInv /\ [Page!Next]_(Page!vars) => Ordered'
<1> SUFFICES ASSUME PageInv, [Page!Next]_(Page!vars) PROVE Ordered'
  OBVIOUS
<1>0. /\ Typed /\ Suited /\ Ordered
      /\ Page!Foreground \subseteq Page!Job /\ Background \subseteq Page!Job
      /\ DeviceOps \cap SceneOps = {} /\ DeviceOps \cap SecurityOps = {}
      /\ SceneOps \cap SecurityOps = {} /\ Page!Foreground \cap Background = {}
      /\ Page!Foreground = DeviceOps \cup SceneOps \cup SecurityOps
  BY CommandAnswersAssumption DEF PageInv, Page!Job, Page!Foreground
<1> USE DEF Typed, Suited, Suits, Tabless, Ordered
<1>1. ASSUME NEW j \in Page!Foreground, Page!Requested(j) \/ Page!NativeUnavailable(j)
     PROVE Ordered'
  BY <1>0, <1>1 DEF Page!Requested, Page!RunForeground, Page!Step, Page!NativeUnavailable
<1>2. ASSUME NEW j \in Page!Foreground, Page!NativePatch(j) PROVE Ordered'
  BY <1>0, <1>2 DEF Page!NativePatch
<1>3. ASSUME NEW j \in Page!Foreground, Page!NativeOver(j) PROVE Ordered'
  BY <1>0, <1>3 DEF Page!NativeOver, Page!Ends, Page!Step
<1>4. ASSUME NEW j \in Page!Foreground, Page!NativeFails(j) \/ Page!QueueTimeout(j)
     PROVE Ordered'
  BY <1>0, <1>4 DEF Page!NativeFails, Page!Ends, Page!Step, Page!QueueTimeout, Page!QueueExpires
<1>5. ASSUME NEW j \in Page!Foreground, Page!SkipsExpired(j) \/ Page!StartsDevice(j)
        \/ Page!NoVerifiedRoute(j)
     PROVE Ordered'
  BY <1>0, <1>5 DEF Page!SkipsExpired, Page!StartsDevice, Page!Step, Page!NoVerifiedRoute
<1>6. ASSUME NEW j \in Page!Foreground, Page!WarmPageFor(j) PROVE Ordered'
  BY <1>0, <1>6 DEF Page!WarmPageFor, Page!Step, Page!Uses
<1>7. ASSUME NEW j \in Page!Foreground, Page!RecoverWarmPage(j) PROVE Ordered'
  BY <1>0, <1>7 DEF Page!RecoverWarmPage, Page!Step, Page!Uses
<1>8. ASSUME NEW j \in Page!Foreground, Page!OpenCommandPage(j) PROVE Ordered'
  BY <1>0, <1>8 DEF Page!OpenCommandPage, Page!Uses, Page!Step
<1>9. ASSUME NEW j \in Page!Foreground, Page!RouteLeadsThere(j) \/ Page!RoomsLeadThere(j)
     PROVE Ordered'
  BY <1>0, <1>9 DEF Page!RouteLeadsThere, Page!Arrives, Page!Step, Page!RoomsLeadThere
<1>10. ASSUME NEW j \in Page!Foreground, Page!FindsDialog(j) \/ Page!ArrivesAtLocation(j)
        \/ Page!SceneNotHere(j) \/ Page!ClicksSecurity(j)
     PROVE Ordered'
  <2>1. CASE Page!ClicksSecurity(j)
    <3>1. /\ sent' = [sent EXCEPT ![j] = sent[j] + 1] /\ stage' = [stage EXCEPT ![j] = "confirm"]
          /\ UNCHANGED <<blind, missed, answered>> /\ stage[j] = "security"
      BY <2>1 DEF Page!ClicksSecurity, Page!Step
    <3> HIDE DEF Typed, Suited, Suits, Tabless, Ordered
    <3>2. "confirm" \in Page!Stage
      BY DEF Page!Stage
    <3> QED BY <1>0, <3>1, <3>2, LeavingKeepsOrder
  <2>2. CASE ~Page!ClicksSecurity(j)
    BY <1>0, <1>10, <2>2
       DEF Page!FindsDialog, Page!Step, Page!ArrivesAtLocation, Page!SceneNotHere
  <2> QED BY <2>1, <2>2
<1>11. ASSUME NEW j \in Page!Foreground, Page!RouteInvalid(j) \/ Page!RoomNotFound(j)
     PROVE Ordered'
  BY <1>0, <1>11 DEF Page!RouteInvalid, Page!Step, Page!RoomNotFound
<1>12. ASSUME NEW j \in Page!Foreground, Page!OpenFails(j) \/ Page!KeeperRefuses(j)
     PROVE Ordered'
  <2>1. CASE Page!KeeperRefuses(j)
    <3>1. sent' = sent \/ sent' = [sent EXCEPT ![j] = sent[j] + 1]
      <4>1. PICK n \in {0, 1} : sent' = [sent EXCEPT ![j] = sent[j] + n]
        BY <2>1 DEF Page!KeeperRefuses
      <4>2. sent \in [Page!Foreground -> Nat] /\ sent[j] + 0 = sent[j]
        BY <1>0
      <4>3. CASE n = 0
        BY <4>1, <4>2, <4>3
      <4> QED BY <4>1, <4>3
    <3>2. /\ stage' = [stage EXCEPT ![j] = "end"] /\ answered' = answered \cup {j}
          /\ UNCHANGED <<blind, missed>> /\ stage[j] = "queued"
      BY <2>1 DEF Page!KeeperRefuses, Page!Finish, Page!Ends, Page!Step
    <3> HIDE DEF Typed, Suited, Suits, Tabless, Ordered
    <3>3. "end" \in Page!Stage
      BY DEF Page!Stage
    <3> QED BY <1>0, <3>1, <3>2, <3>3, LeavingKeepsOrder
  <2>2. CASE Page!OpenFails(j)
    BY <1>0, <2>2 DEF Page!OpenFails, Page!Finish, Page!Ends, Page!Step
  <2> QED BY <1>12, <2>1, <2>2
<1>13. ASSUME NEW j \in Page!Foreground, Page!TargetNotFound(j) \/ Page!LocationUnreached(j)
        \/ Page!SceneFails(j)
     PROVE Ordered'
  BY <1>0, <1>13
     DEF Page!TargetNotFound, Page!Finish, Page!Ends, Page!Step, Page!LocationUnreached,
         Page!SceneFails
<1>14. ASSUME NEW j \in Page!Foreground, Page!ClicksScene(j) \/ Page!SecurityOver(j)
     PROVE Ordered'
  <2>1. /\ stage' = [stage EXCEPT ![j] = "end"] /\ answered' = answered \cup {j}
        /\ UNCHANGED <<blind, missed>>
    BY <1>14 DEF Page!ClicksScene, Page!SecurityOver, Page!Finish, Page!Ends, Page!Step
  <2>2. CASE stage[j] # "confirm"
    <3>1. sent' = sent \/ sent' = [sent EXCEPT ![j] = sent[j] + 1]
      <4>1. PICK n \in {0, 1} : sent' = [sent EXCEPT ![j] = sent[j] + n]
        BY <1>14 DEF Page!ClicksScene, Page!SecurityOver
      <4>2. sent \in [Page!Foreground -> Nat] /\ sent[j] + 0 = sent[j]
        BY <1>0
      <4>3. CASE n = 0
        BY <4>1, <4>2, <4>3
      <4> QED BY <4>1, <4>3
    <3>2. stage[j] \notin {"patching", "confirm", "end"}
      BY <1>14, <2>2 DEF Page!ClicksScene, Page!SecurityOver
    <3> HIDE DEF Typed, Suited, Suits, Tabless, Ordered
    <3>3. "end" \in Page!Stage
      BY DEF Page!Stage
    <3> QED BY <1>0, <2>1, <3>1, <3>2, <3>3, LeavingKeepsOrder
  <2>3. CASE stage[j] = "confirm"
    <3>1. sent' = [sent EXCEPT ![j] = sent[j] + 0]
      BY <1>14, <2>3 DEF Page!ClicksScene, Page!SecurityOver
    <3>2. sent' = sent
      BY <1>0, <3>1
    <3> QED BY <1>0, <2>1, <3>2
  <2> QED BY <2>2, <2>3
<1>14a. ASSUME NEW j \in Page!Foreground, Page!ClickUnseen(j)
     PROVE Ordered'
  <2>1. /\ stage[j] \in {"scene", "automations", "security"} /\ missed' = missed
        /\ sent' = [sent EXCEPT ![j] = sent[j] + 1]
        /\ blind' = [blind EXCEPT ![j] = blind[j] + 1] /\ blind[j] < Page!TextWays
    BY <1>14a DEF Page!ClickUnseen
  <2>2. j \notin DeviceOps
    BY <1>0, <2>1
  <2>3. PICK s \in Page!Stage :
          /\ stage' = [stage EXCEPT ![j] = s]
          /\ answered' = answered \/ (answered' = answered \cup {j} /\ s = "end")
    <3>1. CASE stage[j] = "security"
      <4>1. stage' = [stage EXCEPT ![j] = stage[j]] /\ answered' = answered
        BY <1>0, <1>14a, <3>1 DEF Page!ClickUnseen
      <4>2. stage[j] \in Page!Stage
        BY <1>0
      <4> QED BY <4>1, <4>2
    <3>2. CASE stage' = [stage EXCEPT ![j] = "automations"] /\ answered' = answered
      <4>1. "automations" \in Page!Stage
        BY DEF Page!Stage
      <4> QED BY <3>2, <4>1
    <3>3. CASE Page!Ends(j)
      <4>1. "end" \in Page!Stage
        BY DEF Page!Stage
      <4> QED BY <3>3, <4>1 DEF Page!Ends, Page!Step
    <3> QED BY <1>14a, <3>1, <3>2, <3>3 DEF Page!ClickUnseen, Page!Finish, Page!Step
  <2> HIDE DEF Typed, Suited, Suits, Tabless, Ordered
  <2> QED BY <1>0, <2>1, <2>2, <2>3, LosingKeepsOrder
<1>15. ASSUME NEW j \in Page!Foreground, Page!ControlMissing(j) \/ Page!ControlError(j)
     PROVE Ordered'
  BY <1>0, <1>15
     DEF Page!ControlMissing, Page!GivesUpTab, Page!Continues, Page!AfterControlMissing,
         Page!Ends, Page!Step, Page!ControlError, Page!AfterControlError
<1>16. ASSUME NEW j \in Page!Foreground, Page!Clicks(j) PROVE Ordered'
  <2>1. /\ stage[j] = "click" /\ sent' = [sent EXCEPT ![j] = sent[j] + 1]
        /\ missed' = missed /\ blind' = blind
    BY <1>0, <1>16 DEF Page!Clicks, Page!Scope
  <2>2. stage' = [stage EXCEPT ![j] = "end"] /\ answered' = answered \cup {j}
    BY <1>16
       DEF Page!Clicks, Page!Finish, Page!Continues, Page!AfterControlError, Page!Ends, Page!Step
  <2> HIDE DEF Typed, Suited, Suits, Tabless, Ordered
  <2>3. "end" \in Page!Stage
    BY DEF Page!Stage
  <2> QED BY <1>0, <2>1, <2>2, <2>3, LeavingKeepsOrder
<1>17. ASSUME NEW j \in Page!Foreground, Page!StartsScene(j) \/ Page!StartsSecurity(j)
     PROVE Ordered'
  <2>1. CASE UNCHANGED sent
    BY <1>0, <1>17, <2>1 DEF Page!StartsScene, Page!Step, Page!StartsSecurity
  <2>2. CASE /\ stage' = [stage EXCEPT ![j] = "confirm"]
             /\ sent' = [sent EXCEPT ![j] = sent[j] + 1]
    <3>1. UNCHANGED <<blind, missed, answered>> /\ stage[j] = "queued"
      BY <1>17 DEF Page!StartsScene, Page!StartsSecurity
    <3> HIDE DEF Typed, Suited, Suits, Tabless, Ordered
    <3>2. "confirm" \in Page!Stage
      BY DEF Page!Stage
    <3> QED BY <1>0, <2>2, <3>1, <3>2, LeavingKeepsOrder
  <2> QED BY <1>17, <2>1, <2>2 DEF Page!StartsScene, Page!Step, Page!StartsSecurity
<1>18. ASSUME NEW b \in Background, Page!Inspect(b) \/ Page!Preempted(b) PROVE Ordered'
  BY <1>0, <1>18 DEF Page!Inspect, Page!Step, Page!Preempted
<1>19. ASSUME NEW b \in Background, Page!StartsInspection(b) PROVE Ordered'
  BY <1>0, <1>19 DEF Page!StartsInspection, Page!Finish, Page!Ends, Page!Step
<1>20. ASSUME NEW b \in Background, Page!OpenCommandPage(b) PROVE Ordered'
  BY <1>0, <1>20 DEF Page!OpenCommandPage, Page!Uses, Page!Step
<1>21. ASSUME NEW b \in Background, Page!OpenFails(b) \/ Page!LocationUnreached(b) PROVE Ordered'
  BY <1>0, <1>21 DEF Page!OpenFails, Page!Finish, Page!Ends, Page!Step, Page!LocationUnreached
<1>22. ASSUME NEW b \in Background, Page!InspectionArrives(b) PROVE Ordered'
  BY <1>0, <1>22 DEF Page!InspectionArrives, Page!Finish, Page!Ends, Page!Step
<1>23. ASSUME NEW b \in Background, Page!Inspects(b) \/ Page!InspectionOver(b) PROVE Ordered'
  BY <1>0, <1>23
     DEF Page!Inspects, Page!Step, Page!InspectionOver, Page!EndsInspection, Page!Finish,
         Page!Ends
<1>24. ASSUME Page!HasWarmCommandPage PROVE Ordered'
  BY <1>0, <1>24 DEF Page!HasWarmCommandPage
<1>25. ASSUME Page!WarmExpires PROVE Ordered'
  BY <1>0, <1>25 DEF Page!WarmExpires
<1>26. ASSUME NEW t \in Page!Tab, Page!TabLost(t)
        \/ \E d \in Devices \cup {Page!Elsewhere} : Page!Wanders(t, d)
     PROVE Ordered'
  BY <1>0, <1>26 DEF Page!TabLost, Page!Wanders
<1>27. ASSUME UNCHANGED Page!vars \/ \E d \in Devices : Page!RouteExpires(d) PROVE Ordered'
  BY <1>0, <1>27 DEF Page!RouteExpires, Page!vars
<1> QED BY <1>1, <1>2, <1>3, <1>4, <1>5, <1>6, <1>7, <1>8, <1>9, <1>10, <1>11, <1>12, <1>13,
    <1>14, <1>14a, <1>15, <1>16, <1>17, <1>18, <1>19, <1>20, <1>21, <1>22, <1>23, <1>24, <1>25,
        <1>26, <1>27
    DEF Page!Next, Page!ForegroundStep, Page!BackgroundStep, Page!Environment

(* Joining the queue and leaving it take nobody else's turn. *)
LEMMA TurnsStay ==
  ASSUME Typed, NEW j \in Page!Job, Page!Turn(j)
  PROVE  /\ \A k \in Page!Job : Page!RunForeground(k) \/ queue' = Append(queue, k)
              => Page!Turn(j)'
         /\ \A k \in Page!Job \ {j} : Page!Leaves(k) => Page!Turn(j)'
         /\ UNCHANGED queue => Page!Turn(j)'
<1>1. ASSUME NEW k \in Page!Job
     PROVE Append(queue, k) # <<>> /\ Head(Append(queue, k)) = Head(queue)
  BY AppendProperties, HeadTailProperties DEF Typed, Page!Turn
<1> QED BY <1>1 DEF Page!Turn, Page!Leaves, Page!RunForeground

(* No step lets a command work out of its turn. *)
LEMMA TurnStep == PageInv /\ [Page!Next]_(Page!vars) => Turns'
<1> SUFFICES ASSUME PageInv, [Page!Next]_(Page!vars) PROVE Turns'
  OBVIOUS
<1>0. /\ Typed /\ Suited /\ Turns
      /\ \A j \in Page!Job : Page!Turn(j) =>
           /\ \A k \in Page!Job : Page!RunForeground(k) \/ queue' = Append(queue, k)
                => Page!Turn(j)'
           /\ \A k \in Page!Job \ {j} : Page!Leaves(k) => Page!Turn(j)'
           /\ UNCHANGED queue => Page!Turn(j)'
      /\ Page!Foreground \subseteq Page!Job /\ Background \subseteq Page!Job
      /\ DeviceOps \cap SceneOps = {} /\ DeviceOps \cap SecurityOps = {}
      /\ SceneOps \cap SecurityOps = {} /\ Page!Foreground \cap Background = {}
      /\ Page!Foreground = DeviceOps \cup SceneOps \cup SecurityOps
  BY CommandAnswersAssumption, TurnsStay DEF PageInv, Page!Job, Page!Foreground
<1> USE DEF Typed, Suited, Suits, Tabless, Turns, Working
<1>1. ASSUME NEW j \in Page!Foreground, Page!Requested(j) \/ Page!NativeUnavailable(j)
     PROVE Turns'
  BY <1>0, <1>1 DEF Page!Requested, Page!RunForeground, Page!Step, Page!NativeUnavailable
<1>2. ASSUME NEW j \in Page!Foreground, Page!NativePatch(j) PROVE Turns'
  BY <1>0, <1>2 DEF Page!NativePatch
<1>3. ASSUME NEW j \in Page!Foreground, Page!NativeOver(j) PROVE Turns'
  BY <1>0, <1>3 DEF Page!NativeOver, Page!Ends, Page!Step
<1>4. ASSUME NEW j \in Page!Foreground, Page!NativeFails(j) \/ Page!QueueTimeout(j) PROVE Turns'
  BY <1>0, <1>4 DEF Page!NativeFails, Page!Ends, Page!Step, Page!QueueTimeout, Page!QueueExpires
<1>5. ASSUME NEW j \in Page!Foreground, Page!SkipsExpired(j) \/ Page!StartsDevice(j)
        \/ Page!NoVerifiedRoute(j)
     PROVE Turns'
  BY <1>0, <1>5 DEF Page!SkipsExpired, Page!StartsDevice, Page!Step, Page!NoVerifiedRoute
<1>6. ASSUME NEW j \in Page!Foreground, Page!WarmPageFor(j) PROVE Turns'
  BY <1>0, <1>6 DEF Page!WarmPageFor, Page!Step, Page!Uses
<1>7. ASSUME NEW j \in Page!Foreground, Page!RecoverWarmPage(j) PROVE Turns'
  BY <1>0, <1>7 DEF Page!RecoverWarmPage, Page!Step, Page!Uses
<1>8. ASSUME NEW j \in Page!Foreground, Page!OpenCommandPage(j) PROVE Turns'
  BY <1>0, <1>8 DEF Page!OpenCommandPage, Page!Uses, Page!Step
<1>9. ASSUME NEW j \in Page!Foreground, Page!RouteLeadsThere(j) \/ Page!RoomsLeadThere(j)
     PROVE Turns'
  BY <1>0, <1>9 DEF Page!RouteLeadsThere, Page!Arrives, Page!Step, Page!RoomsLeadThere
<1>10. ASSUME NEW j \in Page!Foreground, Page!FindsDialog(j) \/ Page!ArrivesAtLocation(j)
        \/ Page!SceneNotHere(j) \/ Page!ClicksSecurity(j)
     PROVE Turns'
  BY <1>0, <1>10
     DEF Page!FindsDialog, Page!Step, Page!ArrivesAtLocation, Page!SceneNotHere,
         Page!ClicksSecurity
<1>11. ASSUME NEW j \in Page!Foreground, Page!RouteInvalid(j) \/ Page!RoomNotFound(j)
     PROVE Turns'
  BY <1>0, <1>11 DEF Page!RouteInvalid, Page!Step, Page!RoomNotFound
<1>12. ASSUME NEW j \in Page!Foreground, Page!OpenFails(j) \/ Page!KeeperRefuses(j) PROVE Turns'
  BY <1>0, <1>12 DEF Page!OpenFails, Page!Finish, Page!Ends, Page!Step, Page!KeeperRefuses
<1>13. ASSUME NEW j \in Page!Foreground, Page!TargetNotFound(j) \/ Page!LocationUnreached(j)
        \/ Page!SceneFails(j)
     PROVE Turns'
  BY <1>0, <1>13
     DEF Page!TargetNotFound, Page!Finish, Page!Ends, Page!Step, Page!LocationUnreached,
         Page!SceneFails
<1>14. ASSUME NEW j \in Page!Foreground, Page!ClicksScene(j) \/ Page!SecurityOver(j) PROVE Turns'
  BY <1>0, <1>14 DEF Page!ClicksScene, Page!Finish, Page!Ends, Page!Step, Page!SecurityOver
<1>14a. ASSUME NEW j \in Page!Foreground, Page!ClickUnseen(j) PROVE Turns'
  BY <1>0, <1>14a DEF Page!ClickUnseen, Page!Finish, Page!Ends, Page!Step, Page!Close
<1>15. ASSUME NEW j \in Page!Foreground, Page!ControlMissing(j) \/ Page!ControlError(j)
     PROVE Turns'
  BY <1>0, <1>15
     DEF Page!ControlMissing, Page!GivesUpTab, Page!Continues, Page!AfterControlMissing,
         Page!Ends, Page!Step, Page!ControlError, Page!AfterControlError
<1>16. ASSUME NEW j \in Page!Foreground, Page!Clicks(j) PROVE Turns'
  BY <1>0, <1>16
     DEF Page!Clicks, Page!GivesUpTab, Page!Continues, Page!AfterControlError, Page!Finish,
         Page!Ends, Page!Step
<1>17. ASSUME NEW j \in Page!Foreground, Page!StartsScene(j) \/ Page!StartsSecurity(j)
     PROVE Turns'
  BY <1>0, <1>17 DEF Page!StartsScene, Page!Step, Page!StartsSecurity
<1>18. ASSUME NEW b \in Background, Page!Inspect(b) \/ Page!Preempted(b) PROVE Turns'
  BY <1>0, <1>18 DEF Page!Inspect, Page!Step, Page!Preempted
<1>19. ASSUME NEW b \in Background, Page!StartsInspection(b) PROVE Turns'
  BY <1>0, <1>19 DEF Page!StartsInspection, Page!Finish, Page!Ends, Page!Step
<1>20. ASSUME NEW b \in Background, Page!OpenCommandPage(b) PROVE Turns'
  BY <1>0, <1>20 DEF Page!OpenCommandPage, Page!Uses, Page!Step
<1>21. ASSUME NEW b \in Background, Page!OpenFails(b) \/ Page!LocationUnreached(b) PROVE Turns'
  BY <1>0, <1>21 DEF Page!OpenFails, Page!Finish, Page!Ends, Page!Step, Page!LocationUnreached
<1>22. ASSUME NEW b \in Background, Page!InspectionArrives(b) PROVE Turns'
  BY <1>0, <1>22 DEF Page!InspectionArrives, Page!Finish, Page!Ends, Page!Step
<1>23. ASSUME NEW b \in Background, Page!Inspects(b) \/ Page!InspectionOver(b) PROVE Turns'
  BY <1>0, <1>23
     DEF Page!Inspects, Page!Step, Page!InspectionOver, Page!EndsInspection, Page!Finish,
         Page!Ends
<1>24. ASSUME Page!HasWarmCommandPage PROVE Turns'
  BY <1>0, <1>24 DEF Page!HasWarmCommandPage
<1>25. ASSUME Page!WarmExpires PROVE Turns'
  BY <1>0, <1>25 DEF Page!WarmExpires
<1>26. ASSUME NEW t \in Page!Tab, Page!TabLost(t)
        \/ \E d \in Devices \cup {Page!Elsewhere} : Page!Wanders(t, d)
     PROVE Turns'
  BY <1>0, <1>26 DEF Page!TabLost, Page!Wanders
<1>27. ASSUME UNCHANGED Page!vars \/ \E d \in Devices : Page!RouteExpires(d) PROVE Turns'
  BY <1>0, <1>27 DEF Page!RouteExpires, Page!vars
<1> QED BY <1>1, <1>2, <1>3, <1>4, <1>5, <1>6, <1>7, <1>8, <1>9, <1>10, <1>11, <1>12, <1>13,
    <1>14, <1>14a, <1>15, <1>16, <1>17, <1>18, <1>19, <1>20, <1>21, <1>22, <1>23, <1>24, <1>25,
        <1>26, <1>27
    DEF Page!Next, Page!ForegroundStep, Page!BackgroundStep, Page!Environment

(* A warm tab that grows old or young again is the same tab, and a page that *)
(* is remembered becomes the warm one if the executor keeps any.            *)
SameWarm == (warm' = None <=> warm = None) /\ (warm # None => warm'.tab = warm.tab)

(* A warm tab whose age alone changes. *)
LEMMA WarmStays ==
  ASSUME Typed,
         \/ warm' = warm
         \/ warm # None /\ \E old \in BOOLEAN : warm' = [warm EXCEPT !.expired = old]
  PROVE  SameWarm
<1>1. CASE warm' = warm
  BY <1>1 DEF SameWarm
<1>2. ASSUME warm # None, NEW old \in BOOLEAN, warm' = [warm EXCEPT !.expired = old]
      PROVE SameWarm
  <2>1. warm \in [tab: Page!Tab, device: Devices, expired: BOOLEAN]
    BY <1>2 DEF Typed
  <2>2. /\ warm' \in [tab: Page!Tab, device: Devices, expired: BOOLEAN]
        /\ warm'.tab = warm.tab
    BY <1>2, <2>1
  <2> QED BY <1>2, <2>2, CommandAnswersAssumption DEF SameWarm
<1> QED BY <1>1, <1>2

(* A request that is over only makes the warm tab young again. *)
LEMMA NativeKeepsWarm ==
  ASSUME Typed, NEW j \in Page!Foreground, Page!NativeOver(j)
  PROVE  SameWarm
<1> DEFINE young == [warm EXCEPT !.expired = FALSE]
<1>1. \E ok \in BOOLEAN :
        warm' = IF ok /\ warm # None /\ tab[j] = warm.tab THEN young ELSE warm
  BY DEF Page!NativeOver
<1>2. warm # None /\ warm' = young => SameWarm
  BY WarmStays
<1>3. warm' = warm => SameWarm
  BY WarmStays
<1> HIDE DEF young
<1> QED BY <1>1, <1>2, <1>3

(* #rememberSuccessfulDevicePage. *)
LEMMA RememberedIsWarm ==
  ASSUME Typed, NEW t \in Page!Tab, NEW d \in Devices, Page!Remember(t, d)
  PROVE  IF KeepsWarm THEN warm' # None /\ warm'.tab = t ELSE warm' = warm
<1>1. CASE KeepsWarm
  <2>1. warm' = [tab |-> t, device |-> d, expired |-> FALSE]
    BY <1>1 DEF Page!Remember
  <2>2. warm' \in [tab: Page!Tab, device: Devices, expired: BOOLEAN] /\ warm'.tab = t
    BY <2>1
  <2> QED BY <1>1, <2>2, CommandAnswersAssumption
<1>2. CASE ~KeepsWarm
  BY <1>2 DEF Page!Remember
<1> QED BY <1>1, <1>2

(* What a click leaves of the warm tab. *)
LEMMA ClickKeepsWarm ==
  ASSUME Typed, Suited, WarmKept,
         NEW j \in Page!Foreground, Page!Clicks(j)
  PROVE  \/ Page!GivesUpTab(j) /\ Page!Ends(j)
         \/ Page!Finish(j) /\ how[j] = "warm" /\ SameWarm /\ UNCHANGED open
         \/ Page!Finish(j) /\ how[j] # "warm" /\ warm = None
              /\ IF KeepsWarm THEN warm' # None /\ warm'.tab = tab[j] /\ UNCHANGED open
                 ELSE warm' = None /\ Page!Close(tab[j])
<1>1. /\ j \in DeviceOps /\ j \in Page!Job /\ tab[j] \in Page!Tab /\ DeviceOf[j] \in Devices
      /\ how[j] = "warm" => warm # None
      /\ how[j] # "warm" => warm = None
  BY CommandAnswersAssumption
     DEF Page!Job, Page!Foreground, Page!Clicks, Page!Scope, Suited, Suits, WarmKept, WarmFor,
         Typed
<1>2. CASE Page!Finish(j) /\ how[j] = "warm" /\ ~Page!GivesUpTab(j)
  <2> DEFINE young == [warm EXCEPT !.expired = FALSE]
  <2>1. (warm' = IF warm = None THEN None ELSE young) /\ UNCHANGED open
    BY <1>2 DEF Page!Clicks
  <2>2. warm' = young => SameWarm
    BY <1>1, <1>2, WarmStays
  <2> HIDE DEF young
  <2>3. warm' = young
    BY <1>1, <1>2, <2>1
  <2>4. SameWarm
    BY <2>2, <2>3
  <2> QED BY <1>2, <2>1, <2>4
<1>3. CASE Page!Finish(j) /\ how[j] # "warm" /\ ~Page!GivesUpTab(j)
  <2>1. Page!Remember(tab[j], DeviceOf[j])
          /\ IF KeepsWarm THEN UNCHANGED open ELSE Page!Close(tab[j])
    BY <1>3 DEF Page!Clicks
  <2> QED BY <1>1, <1>3, <2>1, RememberedIsWarm
<1>4. Page!Finish(j) \/ (Page!GivesUpTab(j) /\ Page!Ends(j))
  BY DEF Page!Clicks, Page!Continues, Page!AfterControlError
<1>5. Page!Finish(j) => Page!Ends(j)
  BY DEF Page!Finish
<1> QED BY <1>2, <1>3, <1>4, <1>5

(* The warm tab stays what a device command takes it for. *)
LEMMA WarmStep == PageInv /\ [Page!Next]_(Page!vars) => WarmKept'
<1> SUFFICES ASSUME PageInv, [Page!Next]_(Page!vars) PROVE WarmKept'
  OBVIOUS
<1> USE CommandAnswersAssumption
<1>0. /\ Typed /\ Suited /\ WarmKept
      /\ \A j, k \in Page!Foreground : stage[j] \in Working \/ Page!Turn(j) =>
           (stage[k] \in Working => j = k)
      /\ None \notin Page!Tab
      /\ Page!Foreground \subseteq Page!Job /\ Background \subseteq Page!Job
      /\ DeviceOps \cap SceneOps = {} /\ DeviceOps \cap SecurityOps = {}
      /\ SceneOps \cap SecurityOps = {} /\ Page!Foreground \cap Background = {}
      /\ Page!Foreground = DeviceOps \cup SceneOps \cup SecurityOps
  BY DEF PageInv, Page!Job, Page!Foreground, Turns, Page!Turn
<1> USE DEF Typed, Suited, Suits, Tabless, Working, WarmKept, WarmFor
<1>1. ASSUME NEW j \in Page!Foreground, Page!Requested(j) \/ Page!NativeUnavailable(j)
     PROVE WarmKept'
  BY <1>0, <1>1
     DEF Page!Requested, Page!RunForeground, Page!Preempt, Page!Step, Page!NativeUnavailable
<1>2. ASSUME NEW j \in Page!Foreground, Page!NativePatch(j) PROVE WarmKept'
  BY <1>0, <1>2 DEF Page!NativePatch
<1>3. ASSUME NEW j \in Page!Foreground, Page!NativeOver(j) PROVE WarmKept'
  <2>1. SameWarm
    BY <1>0, <1>3, NativeKeepsWarm
  <2> QED BY <1>0, <1>3, <2>1 DEF Page!NativeOver, Page!Ends, Page!Step, Page!Release, SameWarm
<1>4. ASSUME NEW j \in Page!Foreground, Page!NativeFails(j) \/ Page!QueueTimeout(j)
     PROVE WarmKept'
  BY <1>0, <1>4 DEF Page!NativeFails, Page!Ends, Page!Step, Page!QueueTimeout, Page!QueueExpires
<1>5. ASSUME NEW j \in Page!Foreground, Page!SkipsExpired(j) \/ Page!StartsDevice(j)
        \/ Page!NoVerifiedRoute(j)
     PROVE WarmKept'
  BY <1>0, <1>5 DEF Page!SkipsExpired, Page!StartsDevice, Page!Step, Page!NoVerifiedRoute
<1>6. ASSUME NEW j \in Page!Foreground, Page!WarmPageFor(j) PROVE WarmKept'
  BY <1>0, <1>6 DEF Page!WarmPageFor, Page!IsWarmFor, Page!Invalidate, Page!Step, Page!Uses
<1>7. ASSUME NEW j \in Page!Foreground, Page!RecoverWarmPage(j) PROVE WarmKept'
  <2>1. CASE Page!Invalidate /\ Page!Step(j, "route") /\ UNCHANGED <<tab, how>>
    BY <1>0, <1>7, <2>1 DEF Page!RecoverWarmPage, Page!Invalidate, Page!Step
  <2>2. CASE Page!Remember(warm.tab, DeviceOf[j])
    <3>1. warm.tab \in Page!Tab /\ DeviceOf[j] \in Devices
      BY <1>0, <1>7, CommandAnswersAssumption DEF Page!RecoverWarmPage, Page!IsWarmFor
    <3>2. warm # None /\ warm' # None /\ warm'.tab = warm.tab
      BY <1>0, <1>7, <2>2, <3>1, RememberedIsWarm DEF Page!RecoverWarmPage, Page!IsWarmFor
    <3> QED BY <1>0, <1>7, <2>2, <3>2
        DEF Page!RecoverWarmPage, Page!Invalidate, Page!Step, Page!Uses
  <2> QED BY <1>7, <2>1, <2>2 DEF Page!RecoverWarmPage
<1>8. ASSUME NEW j \in Page!Foreground, Page!OpenCommandPage(j) PROVE WarmKept'
  BY <1>0, <1>8, TabIsFree DEF Page!OpenCommandPage, Page!Uses, Page!Step, Page!Referred
<1>9. ASSUME NEW j \in Page!Foreground, Page!RouteLeadsThere(j) \/ Page!RoomsLeadThere(j)
     PROVE WarmKept'
  BY <1>0, <1>9 DEF Page!RouteLeadsThere, Page!Arrives, Page!Step, Page!RoomsLeadThere
<1>10. ASSUME NEW j \in Page!Foreground, Page!FindsDialog(j) \/ Page!ArrivesAtLocation(j)
        \/ Page!SceneNotHere(j) \/ Page!ClicksSecurity(j)
     PROVE WarmKept'
  BY <1>0, <1>10
     DEF Page!FindsDialog, Page!Step, Page!ArrivesAtLocation, Page!SceneNotHere,
         Page!ClicksSecurity
<1>11. ASSUME NEW j \in Page!Foreground, Page!RouteInvalid(j) \/ Page!RoomNotFound(j)
     PROVE WarmKept'
  BY <1>0, <1>11 DEF Page!RouteInvalid, Page!Close, Page!Release, Page!Step, Page!RoomNotFound
<1>12. ASSUME NEW j \in Page!Foreground, Page!OpenFails(j) \/ Page!KeeperRefuses(j)
     PROVE WarmKept'
  BY <1>0, <1>12
     DEF Page!OpenFails, Page!Finish, Page!Ends, Page!Release, Page!Step, Page!KeeperRefuses
<1>13. ASSUME NEW j \in Page!Foreground, Page!TargetNotFound(j) \/ Page!LocationUnreached(j)
        \/ Page!SceneFails(j)
     PROVE WarmKept'
  BY <1>0, <1>13
     DEF Page!TargetNotFound, Page!Close, Page!Finish, Page!Ends, Page!Release, Page!Step,
         Page!LocationUnreached, Page!SceneFails
<1>14. ASSUME NEW j \in Page!Foreground, Page!ClicksScene(j) \/ Page!SecurityOver(j)
     PROVE WarmKept'
  BY <1>0, <1>14
     DEF Page!ClicksScene, Page!Close, Page!Finish, Page!Ends, Page!Release, Page!Step,
         Page!SecurityOver
<1>14a. ASSUME NEW j \in Page!Foreground, Page!ClickUnseen(j)
     PROVE WarmKept'
  BY <1>0, <1>14a
     DEF Page!ClickUnseen, Page!Close, Page!Finish, Page!Ends, Page!Release, Page!Step
<1>15. ASSUME NEW j \in Page!Foreground, Page!ControlMissing(j) \/ Page!ControlError(j)
     PROVE WarmKept'
  BY <1>0, <1>15
     DEF Page!ControlMissing, Page!GivesUpTab, Page!Continues, Page!AfterControlMissing,
         Page!Release, Page!Ends, Page!Step, Page!ControlError, Page!AfterControlError
<1>16. ASSUME NEW j \in Page!Foreground, Page!Clicks(j) PROVE WarmKept'
  <2>1. stage' = [stage EXCEPT ![j] = "end"] /\ tab' = [tab EXCEPT ![j] = None]
    BY <1>0, <1>16, ClickKeepsWarm
       DEF Page!GivesUpTab, Page!Finish, Page!Release, Page!Ends, Page!Step
  <2>2. open' \subseteq open /\ \A k \in DeviceOps \ {j} : how'[k] = how[k]
    BY <1>0, <1>16, ClickKeepsWarm DEF Page!GivesUpTab, Page!Finish, Page!Release, Page!Close
  <2>3. \A k \in DeviceOps \ {j} : stage[k] = "patching" /\ tab[k] \in open' =>
          warm' # None /\ warm'.tab = tab[k]
    BY <1>0, <1>16, <2>2, ClickKeepsWarm DEF Page!GivesUpTab, SameWarm, Page!Clicks, Page!Scope
  <2>4. \A k \in DeviceOps \ {j} : stage[k] \notin Working
    BY <1>0, <1>16 DEF Page!Clicks
  <2> QED BY <1>0, <2>1, <2>2, <2>3, <2>4
<1>17. ASSUME NEW j \in Page!Foreground, Page!StartsScene(j) \/ Page!StartsSecurity(j)
     PROVE WarmKept'
  BY <1>0, <1>17 DEF Page!StartsScene, Page!Invalidate, Page!Step, Page!Turn, Page!StartsSecurity
<1>18. ASSUME NEW b \in Background, Page!Inspect(b) \/ Page!Preempted(b) PROVE WarmKept'
  BY <1>0, <1>18 DEF Page!Inspect, Page!Step, Page!HasForegroundOperation, Page!Preempted
<1>19. ASSUME NEW b \in Background, Page!StartsInspection(b) PROVE WarmKept'
  BY <1>0, <1>19 DEF Page!StartsInspection, Page!Finish, Page!Ends, Page!Release, Page!Step
<1>20. ASSUME NEW b \in Background, Page!OpenCommandPage(b) PROVE WarmKept'
  BY <1>0, <1>20, TabIsFree DEF Page!OpenCommandPage, Page!Uses, Page!Step, Page!Referred
<1>21. ASSUME NEW b \in Background, Page!OpenFails(b) \/ Page!LocationUnreached(b)
     PROVE WarmKept'
  BY <1>0, <1>21
     DEF Page!OpenFails, Page!Finish, Page!Ends, Page!Release, Page!Step,
         Page!LocationUnreached, Page!Close
<1>22. ASSUME NEW b \in Background, Page!InspectionArrives(b) PROVE WarmKept'
  BY <1>0, <1>22
     DEF Page!InspectionArrives, Page!Close, Page!Finish, Page!Ends, Page!Release, Page!Step
<1>23. ASSUME NEW b \in Background, Page!Inspects(b) \/ Page!InspectionOver(b) PROVE WarmKept'
  BY <1>0, <1>23
     DEF Page!Inspects, Page!Step, Page!InspectionOver, Page!EndsInspection, Page!Close,
         Page!Finish, Page!Ends, Page!Release
<1>24. ASSUME Page!HasWarmCommandPage PROVE WarmKept'
  BY <1>0, <1>24 DEF Page!HasWarmCommandPage, Page!Close, Page!HasForegroundOperation
<1>25. ASSUME Page!WarmExpires PROVE WarmKept'
  <2>1. SameWarm
    BY <1>0, <1>25, WarmStays DEF Page!WarmExpires
  <2> QED BY <1>0, <1>25, <2>1 DEF Page!WarmExpires, SameWarm
<1>26. ASSUME NEW t \in Page!Tab, Page!TabLost(t)
        \/ \E d \in Devices \cup {Page!Elsewhere} : Page!Wanders(t, d)
     PROVE WarmKept'
  BY <1>0, <1>26 DEF Page!TabLost, Page!Close, Page!Wanders
<1>27. ASSUME UNCHANGED Page!vars \/ \E d \in Devices : Page!RouteExpires(d) PROVE WarmKept'
  BY <1>0, <1>27 DEF Page!RouteExpires, Page!vars
<1> QED BY <1>1, <1>2, <1>3, <1>4, <1>5, <1>6, <1>7, <1>8, <1>9, <1>10, <1>11, <1>12, <1>13,
    <1>14, <1>14a, <1>15, <1>16, <1>17, <1>18, <1>19, <1>20, <1>21, <1>22, <1>23, <1>24, <1>25,
        <1>26, <1>27
    DEF Page!Next, Page!ForegroundStep, Page!BackgroundStep, Page!Environment

(* No step gives an inspection's tab to another. *)
LEMMA OwnStep == PageInv /\ [Page!Next]_(Page!vars) => OwnTabs'
<1> SUFFICES ASSUME PageInv, [Page!Next]_(Page!vars) PROVE OwnTabs'
  OBVIOUS
<1>0. /\ Typed /\ Suited /\ WarmKept /\ OwnTabs
      /\ None \notin Page!Tab
      /\ Page!Foreground \subseteq Page!Job /\ Background \subseteq Page!Job
      /\ DeviceOps \cap SceneOps = {} /\ DeviceOps \cap SecurityOps = {}
      /\ SceneOps \cap SecurityOps = {} /\ Page!Foreground \cap Background = {}
      /\ Page!Foreground = DeviceOps \cup SceneOps \cup SecurityOps
  BY CommandAnswersAssumption DEF PageInv, Page!Job, Page!Foreground
<1> USE DEF Typed, Suited, Suits, Tabless, WarmKept, WarmFor, OwnTabs
<1>1. ASSUME NEW j \in Page!Foreground, Page!Requested(j) \/ Page!NativeUnavailable(j)
     PROVE OwnTabs'
  BY <1>0, <1>1 DEF Page!Requested, Page!RunForeground, Page!Preempt, Page!NativeUnavailable
<1>2. ASSUME NEW j \in Page!Foreground, Page!NativePatch(j) PROVE OwnTabs'
  BY <1>0, <1>2 DEF Page!NativePatch
<1>3. ASSUME NEW j \in Page!Foreground, Page!NativeOver(j) PROVE OwnTabs'
  BY <1>0, <1>3 DEF Page!NativeOver, Page!Release
<1>4. ASSUME NEW j \in Page!Foreground, Page!NativeFails(j) \/ Page!QueueTimeout(j)
     PROVE OwnTabs'
  BY <1>0, <1>4 DEF Page!NativeFails, Page!QueueTimeout, Page!QueueExpires
<1>5. ASSUME NEW j \in Page!Foreground, Page!SkipsExpired(j) \/ Page!StartsDevice(j)
        \/ Page!NoVerifiedRoute(j)
     PROVE OwnTabs'
  BY <1>0, <1>5 DEF Page!SkipsExpired, Page!StartsDevice, Page!NoVerifiedRoute
<1>6. ASSUME NEW j \in Page!Foreground, Page!WarmPageFor(j) PROVE OwnTabs'
  BY <1>0, <1>6 DEF Page!WarmPageFor, Page!IsWarmFor, Page!Invalidate, Page!Uses
<1>7. ASSUME NEW j \in Page!Foreground, Page!RecoverWarmPage(j) PROVE OwnTabs'
  BY <1>0, <1>7
     DEF Page!RecoverWarmPage, Page!IsWarmFor, Page!Invalidate, Page!Uses, Page!Remember
<1>8. ASSUME NEW j \in Page!Foreground, Page!OpenCommandPage(j) PROVE OwnTabs'
  BY <1>0, <1>8, TabIsFree DEF Page!OpenCommandPage, Page!Uses, Page!Referred
<1>9. ASSUME NEW j \in Page!Foreground, Page!RouteLeadsThere(j) \/ Page!RoomsLeadThere(j)
     PROVE OwnTabs'
  BY <1>0, <1>9 DEF Page!RouteLeadsThere, Page!Arrives, Page!RoomsLeadThere
<1>10. ASSUME NEW j \in Page!Foreground, Page!FindsDialog(j) \/ Page!ArrivesAtLocation(j)
        \/ Page!SceneNotHere(j) \/ Page!ClicksSecurity(j)
     PROVE OwnTabs'
  BY <1>0, <1>10
     DEF Page!FindsDialog, Page!ArrivesAtLocation, Page!SceneNotHere, Page!ClicksSecurity
<1>11. ASSUME NEW j \in Page!Foreground, Page!RouteInvalid(j) \/ Page!RoomNotFound(j)
     PROVE OwnTabs'
  BY <1>0, <1>11 DEF Page!RouteInvalid, Page!Close, Page!Release, Page!RoomNotFound
<1>12. ASSUME NEW j \in Page!Foreground, Page!OpenFails(j) \/ Page!KeeperRefuses(j)
     PROVE OwnTabs'
  BY <1>0, <1>12 DEF Page!OpenFails, Page!Finish, Page!Release, Page!KeeperRefuses
<1>13. ASSUME NEW j \in Page!Foreground, Page!TargetNotFound(j) \/ Page!LocationUnreached(j)
        \/ Page!SceneFails(j)
     PROVE OwnTabs'
  BY <1>0, <1>13
     DEF Page!TargetNotFound, Page!Close, Page!Finish, Page!Release, Page!LocationUnreached,
         Page!SceneFails
<1>14. ASSUME NEW j \in Page!Foreground, Page!ClicksScene(j) \/ Page!SecurityOver(j)
     PROVE OwnTabs'
  BY <1>0, <1>14 DEF Page!ClicksScene, Page!Close, Page!Finish, Page!Release, Page!SecurityOver
<1>14a. ASSUME NEW j \in Page!Foreground, Page!ClickUnseen(j)
     PROVE OwnTabs'
  BY <1>0, <1>14a DEF Page!ClickUnseen, Page!Close, Page!Finish, Page!Release, Page!Step
<1>15. ASSUME NEW j \in Page!Foreground, Page!ControlMissing(j) \/ Page!ControlError(j)
     PROVE OwnTabs'
  BY <1>0, <1>15
     DEF Page!ControlMissing, Page!GivesUpTab, Page!Continues, Page!AfterControlMissing,
         Page!Release, Page!ControlError, Page!AfterControlError
<1>16. ASSUME NEW j \in Page!Foreground, Page!Clicks(j) PROVE OwnTabs'
  BY <1>0, <1>16
     DEF Page!Clicks, Page!Scope, Page!GivesUpTab, Page!Continues, Page!AfterControlError,
         Page!Finish, Page!Release, Page!Remember, Page!Close
<1>17. ASSUME NEW j \in Page!Foreground, Page!StartsScene(j) \/ Page!StartsSecurity(j)
     PROVE OwnTabs'
  BY <1>0, <1>17 DEF Page!StartsScene, Page!Invalidate, Page!StartsSecurity
<1>18. ASSUME NEW b \in Background, Page!Inspect(b) \/ Page!Preempted(b) PROVE OwnTabs'
  BY <1>0, <1>18 DEF Page!Inspect, Page!Preempted
<1>19. ASSUME NEW b \in Background, Page!StartsInspection(b) PROVE OwnTabs'
  BY <1>0, <1>19 DEF Page!StartsInspection, Page!Finish, Page!Release
<1>20. ASSUME NEW b \in Background, Page!OpenCommandPage(b) PROVE OwnTabs'
  BY <1>0, <1>20, TabIsFree DEF Page!OpenCommandPage, Page!Uses, Page!Referred
<1>21. ASSUME NEW b \in Background, Page!OpenFails(b) \/ Page!LocationUnreached(b) PROVE OwnTabs'
  BY <1>0, <1>21
     DEF Page!OpenFails, Page!Finish, Page!Release, Page!LocationUnreached, Page!Close
<1>22. ASSUME NEW b \in Background, Page!InspectionArrives(b) PROVE OwnTabs'
  BY <1>0, <1>22 DEF Page!InspectionArrives, Page!Close, Page!Finish, Page!Release
<1>23. ASSUME NEW b \in Background, Page!Inspects(b) \/ Page!InspectionOver(b) PROVE OwnTabs'
  BY <1>0, <1>23
     DEF Page!Inspects, Page!InspectionOver, Page!EndsInspection, Page!Close, Page!Finish,
         Page!Release
<1>24. ASSUME Page!HasWarmCommandPage PROVE OwnTabs'
  BY <1>0, <1>24 DEF Page!HasWarmCommandPage, Page!Close
<1>25. ASSUME Page!WarmExpires PROVE OwnTabs'
  BY <1>0, <1>25 DEF Page!WarmExpires
<1>26. ASSUME NEW t \in Page!Tab, Page!TabLost(t)
        \/ \E d \in Devices \cup {Page!Elsewhere} : Page!Wanders(t, d)
     PROVE OwnTabs'
  BY <1>0, <1>26 DEF Page!TabLost, Page!Close, Page!Wanders
<1>27. ASSUME UNCHANGED Page!vars \/ \E d \in Devices : Page!RouteExpires(d) PROVE OwnTabs'
  BY <1>0, <1>27 DEF Page!RouteExpires, Page!vars
<1> QED BY <1>1, <1>2, <1>3, <1>4, <1>5, <1>6, <1>7, <1>8, <1>9, <1>10, <1>11, <1>12, <1>13,
    <1>14, <1>14a, <1>15, <1>16, <1>17, <1>18, <1>19, <1>20, <1>21, <1>22, <1>23, <1>24, <1>25,
        <1>26, <1>27
    DEF Page!Next, Page!ForegroundStep, Page!BackgroundStep, Page!Environment

(* The tab to be closed for a command is still an inspection's. *)
LEMMA InspectedStep == PageInv /\ [Page!Next]_(Page!vars) => InspectedIs'
<1> SUFFICES ASSUME PageInv, [Page!Next]_(Page!vars) PROVE InspectedIs'
  OBVIOUS
<1>0. /\ Typed /\ Suited /\ InspectedIs
      /\ None \notin Page!Tab
      /\ Page!Foreground \subseteq Page!Job /\ Background \subseteq Page!Job
      /\ DeviceOps \cap SceneOps = {} /\ DeviceOps \cap SecurityOps = {}
      /\ SceneOps \cap SecurityOps = {} /\ Page!Foreground \cap Background = {}
      /\ Page!Foreground = DeviceOps \cup SceneOps \cup SecurityOps
  BY CommandAnswersAssumption DEF PageInv, Page!Job, Page!Foreground
<1> USE DEF Typed, Suited, Suits, Tabless, InspectedIs
<1>1. ASSUME NEW j \in Page!Foreground, Page!Requested(j) \/ Page!NativeUnavailable(j)
     PROVE InspectedIs'
  BY <1>0, <1>1
     DEF Page!Requested, Page!RunForeground, Page!Preempt, Page!Step, Page!NativeUnavailable
<1>2. ASSUME NEW j \in Page!Foreground, Page!NativePatch(j) PROVE InspectedIs'
  BY <1>0, <1>2 DEF Page!NativePatch
<1>3. ASSUME NEW j \in Page!Foreground, Page!NativeOver(j) PROVE InspectedIs'
  BY <1>0, <1>3 DEF Page!NativeOver, Page!Ends, Page!Step, Page!Release
<1>4. ASSUME NEW j \in Page!Foreground, Page!NativeFails(j) \/ Page!QueueTimeout(j)
     PROVE InspectedIs'
  BY <1>0, <1>4 DEF Page!NativeFails, Page!Ends, Page!Step, Page!QueueTimeout, Page!QueueExpires
<1>5. ASSUME NEW j \in Page!Foreground, Page!SkipsExpired(j) \/ Page!StartsDevice(j)
        \/ Page!NoVerifiedRoute(j)
     PROVE InspectedIs'
  BY <1>0, <1>5 DEF Page!SkipsExpired, Page!StartsDevice, Page!Step, Page!NoVerifiedRoute
<1>6. ASSUME NEW j \in Page!Foreground, Page!WarmPageFor(j) PROVE InspectedIs'
  BY <1>0, <1>6 DEF Page!WarmPageFor, Page!IsWarmFor, Page!Invalidate, Page!Step, Page!Uses
<1>7. ASSUME NEW j \in Page!Foreground, Page!RecoverWarmPage(j) PROVE InspectedIs'
  BY <1>0, <1>7
     DEF Page!RecoverWarmPage, Page!IsWarmFor, Page!Invalidate, Page!Step, Page!Uses,
         Page!Remember
<1>8. ASSUME NEW j \in Page!Foreground, Page!OpenCommandPage(j) PROVE InspectedIs'
  BY <1>0, <1>8 DEF Page!OpenCommandPage, Page!Uses, Page!Step
<1>9. ASSUME NEW j \in Page!Foreground, Page!RouteLeadsThere(j) \/ Page!RoomsLeadThere(j)
     PROVE InspectedIs'
  BY <1>0, <1>9 DEF Page!RouteLeadsThere, Page!Arrives, Page!Step, Page!RoomsLeadThere
<1>10. ASSUME NEW j \in Page!Foreground, Page!FindsDialog(j) \/ Page!ArrivesAtLocation(j)
        \/ Page!SceneNotHere(j) \/ Page!ClicksSecurity(j)
     PROVE InspectedIs'
  BY <1>0, <1>10
     DEF Page!FindsDialog, Page!Step, Page!ArrivesAtLocation, Page!SceneNotHere,
         Page!ClicksSecurity
<1>11. ASSUME NEW j \in Page!Foreground, Page!RouteInvalid(j) \/ Page!RoomNotFound(j)
     PROVE InspectedIs'
  BY <1>0, <1>11 DEF Page!RouteInvalid, Page!Release, Page!Step, Page!RoomNotFound
<1>12. ASSUME NEW j \in Page!Foreground, Page!OpenFails(j) \/ Page!KeeperRefuses(j)
     PROVE InspectedIs'
  BY <1>0, <1>12
     DEF Page!OpenFails, Page!Finish, Page!Ends, Page!Release, Page!Step, Page!KeeperRefuses
<1>13. ASSUME NEW j \in Page!Foreground, Page!TargetNotFound(j) \/ Page!LocationUnreached(j)
        \/ Page!SceneFails(j)
     PROVE InspectedIs'
  BY <1>0, <1>13
     DEF Page!TargetNotFound, Page!Finish, Page!Ends, Page!Release, Page!Step,
         Page!LocationUnreached, Page!SceneFails
<1>14. ASSUME NEW j \in Page!Foreground, Page!ClicksScene(j) \/ Page!SecurityOver(j)
     PROVE InspectedIs'
  BY <1>0, <1>14
     DEF Page!ClicksScene, Page!Finish, Page!Ends, Page!Release, Page!Step, Page!SecurityOver
<1>14a. ASSUME NEW j \in Page!Foreground, Page!ClickUnseen(j)
     PROVE InspectedIs'
  BY <1>0, <1>14a
     DEF Page!ClickUnseen, Page!Finish, Page!Ends, Page!Release, Page!Step, Page!Close
<1>15. ASSUME NEW j \in Page!Foreground, Page!ControlMissing(j) \/ Page!ControlError(j)
     PROVE InspectedIs'
  BY <1>0, <1>15
     DEF Page!ControlMissing, Page!GivesUpTab, Page!Continues, Page!AfterControlMissing,
         Page!Release, Page!Ends, Page!Step, Page!ControlError, Page!AfterControlError
<1>16. ASSUME NEW j \in Page!Foreground, Page!Clicks(j) PROVE InspectedIs'
  BY <1>0, <1>16
     DEF Page!Clicks, Page!Scope, Page!GivesUpTab, Page!Continues, Page!AfterControlError,
         Page!Finish, Page!Release, Page!Ends, Page!Step, Page!Remember
<1>17. ASSUME NEW j \in Page!Foreground, Page!StartsScene(j) \/ Page!StartsSecurity(j)
     PROVE InspectedIs'
  BY <1>0, <1>17 DEF Page!StartsScene, Page!Invalidate, Page!Step, Page!StartsSecurity
<1>18. ASSUME NEW b \in Background, Page!Inspect(b) \/ Page!Preempted(b) PROVE InspectedIs'
  BY <1>0, <1>18 DEF Page!Inspect, Page!Step, Page!Preempted
<1>19. ASSUME NEW b \in Background, Page!StartsInspection(b) PROVE InspectedIs'
  BY <1>0, <1>19 DEF Page!StartsInspection, Page!Finish, Page!Ends, Page!Release, Page!Step
<1>20. ASSUME NEW b \in Background, Page!OpenCommandPage(b) PROVE InspectedIs'
  BY <1>0, <1>20 DEF Page!OpenCommandPage, Page!Uses, Page!Step
<1>21. ASSUME NEW b \in Background, Page!OpenFails(b) \/ Page!LocationUnreached(b)
     PROVE InspectedIs'
  BY <1>0, <1>21
     DEF Page!OpenFails, Page!Finish, Page!Ends, Page!Release, Page!Step, Page!LocationUnreached
<1>22. ASSUME NEW b \in Background, Page!InspectionArrives(b) PROVE InspectedIs'
  BY <1>0, <1>22 DEF Page!InspectionArrives, Page!Finish, Page!Ends, Page!Release, Page!Step
<1>23. ASSUME NEW b \in Background, Page!Inspects(b) \/ Page!InspectionOver(b) PROVE InspectedIs'
  BY <1>0, <1>23
     DEF Page!Inspects, Page!Step, Page!InspectionOver, Page!EndsInspection, Page!Finish,
         Page!Ends, Page!Release
<1>24. ASSUME Page!HasWarmCommandPage PROVE InspectedIs'
  BY <1>0, <1>24 DEF Page!HasWarmCommandPage
<1>25. ASSUME Page!WarmExpires PROVE InspectedIs'
  BY <1>0, <1>25 DEF Page!WarmExpires
<1>26. ASSUME NEW t \in Page!Tab, Page!TabLost(t)
        \/ \E d \in Devices \cup {Page!Elsewhere} : Page!Wanders(t, d)
     PROVE InspectedIs'
  BY <1>0, <1>26 DEF Page!TabLost, Page!Wanders
<1>27. ASSUME UNCHANGED Page!vars \/ \E d \in Devices : Page!RouteExpires(d) PROVE InspectedIs'
  BY <1>0, <1>27 DEF Page!RouteExpires, Page!vars
<1> QED BY <1>1, <1>2, <1>3, <1>4, <1>5, <1>6, <1>7, <1>8, <1>9, <1>10, <1>11, <1>12, <1>13,
    <1>14, <1>14a, <1>15, <1>16, <1>17, <1>18, <1>19, <1>20, <1>21, <1>22, <1>23, <1>24, <1>25,
        <1>26, <1>27
    DEF Page!Next, Page!ForegroundStep, Page!BackgroundStep, Page!Environment

(* No step leaves a tab open that nobody refers to. *)
LEMMA NothingOpenStep == PageInv /\ [Page!Next]_(Page!vars) => Page!NothingLeftOpen'
<1> SUFFICES ASSUME PageInv, [Page!Next]_(Page!vars) PROVE Page!NothingLeftOpen'
  OBVIOUS
<1> USE CommandAnswersAssumption
<1>0. /\ Typed /\ Suited /\ WarmKept /\ Page!NothingLeftOpen
      /\ None \notin Page!Tab
      /\ Page!Foreground \subseteq Page!Job /\ Background \subseteq Page!Job
      /\ DeviceOps \cap SceneOps = {} /\ DeviceOps \cap SecurityOps = {}
      /\ SceneOps \cap SecurityOps = {} /\ Page!Foreground \cap Background = {}
      /\ Page!Foreground = DeviceOps \cup SceneOps \cup SecurityOps
  BY DEF PageInv, Page!Job, Page!Foreground
<1> USE DEF Typed, Suited, Suits, Tabless, WarmKept, WarmFor, Page!NothingLeftOpen
<1>1. ASSUME NEW j \in Page!Foreground, Page!Requested(j) \/ Page!NativeUnavailable(j)
     PROVE Page!NothingLeftOpen'
  BY <1>0, <1>1 DEF Page!Requested, Page!RunForeground, Page!Preempt, Page!NativeUnavailable
<1>2. ASSUME NEW j \in Page!Foreground, Page!NativePatch(j) PROVE Page!NothingLeftOpen'
  BY <1>0, <1>2 DEF Page!NativePatch
<1>3. ASSUME NEW j \in Page!Foreground, Page!NativeOver(j) PROVE Page!NothingLeftOpen'
  <2>1. SameWarm
    BY <1>0, <1>3, NativeKeepsWarm
  <2> QED BY <1>0, <1>3, <2>1 DEF Page!NativeOver, Page!Release, SameWarm
<1>4. ASSUME NEW j \in Page!Foreground, Page!NativeFails(j) \/ Page!QueueTimeout(j)
     PROVE Page!NothingLeftOpen'
  BY <1>0, <1>4 DEF Page!NativeFails, Page!QueueTimeout, Page!QueueExpires
<1>5. ASSUME NEW j \in Page!Foreground, Page!SkipsExpired(j) \/ Page!StartsDevice(j)
        \/ Page!NoVerifiedRoute(j)
     PROVE Page!NothingLeftOpen'
  BY <1>0, <1>5 DEF Page!SkipsExpired, Page!StartsDevice, Page!NoVerifiedRoute
<1>6. ASSUME NEW j \in Page!Foreground, Page!WarmPageFor(j) PROVE Page!NothingLeftOpen'
  BY <1>0, <1>6 DEF Page!WarmPageFor, Page!IsWarmFor, Page!Invalidate, Page!Uses
<1>7. ASSUME NEW j \in Page!Foreground, Page!RecoverWarmPage(j) PROVE Page!NothingLeftOpen'
  BY <1>0, <1>7
     DEF Page!RecoverWarmPage, Page!IsWarmFor, Page!Invalidate, Page!Uses, Page!Remember
<1>8. ASSUME NEW j \in Page!Foreground, Page!OpenCommandPage(j) PROVE Page!NothingLeftOpen'
  BY <1>0, <1>8, TabIsFree DEF Page!OpenCommandPage, Page!Uses
<1>9. ASSUME NEW j \in Page!Foreground, Page!RouteLeadsThere(j) \/ Page!RoomsLeadThere(j)
     PROVE Page!NothingLeftOpen'
  BY <1>0, <1>9 DEF Page!RouteLeadsThere, Page!Arrives, Page!RoomsLeadThere
<1>10. ASSUME NEW j \in Page!Foreground, Page!FindsDialog(j) \/ Page!ArrivesAtLocation(j)
        \/ Page!SceneNotHere(j) \/ Page!ClicksSecurity(j)
     PROVE Page!NothingLeftOpen'
  BY <1>0, <1>10
     DEF Page!FindsDialog, Page!ArrivesAtLocation, Page!SceneNotHere, Page!ClicksSecurity
<1>11. ASSUME NEW j \in Page!Foreground, Page!RouteInvalid(j) \/ Page!RoomNotFound(j)
     PROVE Page!NothingLeftOpen'
  BY <1>0, <1>11 DEF Page!RouteInvalid, Page!Close, Page!Release, Page!RoomNotFound
<1>12. ASSUME NEW j \in Page!Foreground, Page!OpenFails(j) \/ Page!KeeperRefuses(j)
     PROVE Page!NothingLeftOpen'
  BY <1>0, <1>12 DEF Page!OpenFails, Page!Finish, Page!Release, Page!KeeperRefuses
<1>13. ASSUME NEW j \in Page!Foreground, Page!TargetNotFound(j) \/ Page!LocationUnreached(j)
        \/ Page!SceneFails(j)
     PROVE Page!NothingLeftOpen'
  BY <1>0, <1>13
     DEF Page!TargetNotFound, Page!Close, Page!Finish, Page!Release, Page!LocationUnreached,
         Page!SceneFails
<1>14. ASSUME NEW j \in Page!Foreground, Page!ClicksScene(j) \/ Page!SecurityOver(j)
     PROVE Page!NothingLeftOpen'
  BY <1>0, <1>14 DEF Page!ClicksScene, Page!Close, Page!Finish, Page!Release, Page!SecurityOver
<1>14a. ASSUME NEW j \in Page!Foreground, Page!ClickUnseen(j)
     PROVE Page!NothingLeftOpen'
  BY <1>0, <1>14a DEF Page!ClickUnseen, Page!Close, Page!Finish, Page!Release, Page!Step
<1>15. ASSUME NEW j \in Page!Foreground, Page!ControlMissing(j) \/ Page!ControlError(j)
     PROVE Page!NothingLeftOpen'
  BY <1>0, <1>15
     DEF Page!ControlMissing, Page!GivesUpTab, Page!Continues, Page!AfterControlMissing,
         Page!Release, Page!ControlError, Page!AfterControlError
<1>16. ASSUME NEW j \in Page!Foreground, Page!Clicks(j) PROVE Page!NothingLeftOpen'
  <2>1. tab' = [tab EXCEPT ![j] = None]
    BY <1>0, <1>16, ClickKeepsWarm DEF Page!GivesUpTab, Page!Finish, Page!Release
  <2>2. CASE Page!GivesUpTab(j)
    BY <1>0, <1>16, <2>1, <2>2 DEF Page!GivesUpTab, Page!Clicks
  <2>3. CASE Page!Finish(j) /\ how[j] = "warm" /\ SameWarm /\ UNCHANGED open
    BY <1>0, <1>16, <2>1, <2>3 DEF SameWarm, Page!Clicks
  <2>4. CASE /\ warm = None
             /\ IF KeepsWarm THEN warm' # None /\ warm'.tab = tab[j] /\ UNCHANGED open
                ELSE warm' = None /\ Page!Close(tab[j])
    BY <1>0, <1>16, <2>1, <2>4 DEF Page!Close
  <2> QED BY <1>0, <1>16, <2>2, <2>3, <2>4, ClickKeepsWarm
<1>17. ASSUME NEW j \in Page!Foreground, Page!StartsScene(j) \/ Page!StartsSecurity(j)
     PROVE Page!NothingLeftOpen'
  BY <1>0, <1>17 DEF Page!StartsScene, Page!Invalidate, Page!StartsSecurity
<1>18. ASSUME NEW b \in Background, Page!Inspect(b) \/ Page!Preempted(b)
     PROVE Page!NothingLeftOpen'
  BY <1>0, <1>18 DEF Page!Inspect, Page!Preempted
<1>19. ASSUME NEW b \in Background, Page!StartsInspection(b) PROVE Page!NothingLeftOpen'
  BY <1>0, <1>19 DEF Page!StartsInspection, Page!Finish, Page!Release
<1>20. ASSUME NEW b \in Background, Page!OpenCommandPage(b) PROVE Page!NothingLeftOpen'
  BY <1>0, <1>20, TabIsFree DEF Page!OpenCommandPage, Page!Uses
<1>21. ASSUME NEW b \in Background, Page!OpenFails(b) \/ Page!LocationUnreached(b)
     PROVE Page!NothingLeftOpen'
  BY <1>0, <1>21
     DEF Page!OpenFails, Page!Finish, Page!Release, Page!LocationUnreached, Page!Close
<1>22. ASSUME NEW b \in Background, Page!InspectionArrives(b) PROVE Page!NothingLeftOpen'
  BY <1>0, <1>22 DEF Page!InspectionArrives, Page!Close, Page!Finish, Page!Release
<1>23. ASSUME NEW b \in Background, Page!Inspects(b) \/ Page!InspectionOver(b)
     PROVE Page!NothingLeftOpen'
  BY <1>0, <1>23
     DEF Page!Inspects, Page!InspectionOver, Page!EndsInspection, Page!Close, Page!Finish,
         Page!Release
<1>24. ASSUME Page!HasWarmCommandPage PROVE Page!NothingLeftOpen'
  BY <1>0, <1>24 DEF Page!HasWarmCommandPage, Page!Close
<1>25. ASSUME Page!WarmExpires PROVE Page!NothingLeftOpen'
  <2>1. SameWarm
    BY <1>0, <1>25, WarmStays DEF Page!WarmExpires
  <2> QED BY <1>0, <1>25, <2>1 DEF Page!WarmExpires, SameWarm
<1>26. ASSUME NEW t \in Page!Tab, Page!TabLost(t)
        \/ \E d \in Devices \cup {Page!Elsewhere} : Page!Wanders(t, d)
     PROVE Page!NothingLeftOpen'
  BY <1>0, <1>26 DEF Page!TabLost, Page!Close, Page!Wanders
<1>27. ASSUME UNCHANGED Page!vars \/ \E d \in Devices : Page!RouteExpires(d)
     PROVE Page!NothingLeftOpen'
  BY <1>0, <1>27 DEF Page!RouteExpires, Page!vars
<1> QED BY <1>1, <1>2, <1>3, <1>4, <1>5, <1>6, <1>7, <1>8, <1>9, <1>10, <1>11, <1>12, <1>13,
    <1>14, <1>14a, <1>15, <1>16, <1>17, <1>18, <1>19, <1>20, <1>21, <1>22, <1>23, <1>24, <1>25,
        <1>26, <1>27
    DEF Page!Next, Page!ForegroundStep, Page!BackgroundStep, Page!Environment

-----------------------------------------------------------------------------
(* PageInv is inductive. *)
LEMMA PageStep == PageInv /\ [Page!Next]_(Page!vars) => PageInv'
<1> SUFFICES ASSUME PageInv, [Page!Next]_(Page!vars) PROVE PageInv'
  OBVIOUS
<1>1. Typed' /\ Suited' /\ Ordered' /\ Turns'
  BY PageTypeStep, SuitsStep, OrderStep, TurnStep
<1>2. WarmKept' /\ OwnTabs' /\ InspectedIs' /\ Page!NothingLeftOpen'
  BY WarmStep, OwnStep, InspectedStep, NothingOpenStep
<1> QED BY <1>1, <1>2 DEF PageInv

(* It holds in the beginning. *)
LEMMA PageInit == Page!Init => PageInv
<1> SUFFICES ASSUME Page!Init PROVE PageInv
  OBVIOUS
<1>1. Typed
  BY CommandAnswersAssumption DEF Page!Init, Typed, Page!Stage
<1> QED BY <1>1
    DEF Page!Init, PageInv, Suited, Suits, Tabless, Ordered, Turns, Working, WarmKept, WarmFor,
        OwnTabs, InspectedIs, Page!NothingLeftOpen, Page!Job, Page!Foreground, Page!TextWays

(* It implies what the run checks. *)
LEMMA PageIsSafe == PageInv => Page!TabsAndClicksAreKept
<1> SUFFICES ASSUME PageInv PROVE Page!TabsAndClicksAreKept
  OBVIOUS
<1>1. Page!OnceAndThere
  BY DEF PageInv, Ordered, Page!OnceAndThere, Page!Foreground
<1>2. sent \in [Page!Foreground -> 0..9]
  <2>1. sent \in [Page!Foreground -> Nat] /\ blind \in [Page!Foreground -> 0..3]
        /\ \A j \in Page!Foreground : sent[j] <= 1 + blind[j]
    BY DEF PageInv, Ordered, Page!TextWays
  <2>2. \A j \in Page!Foreground : sent[j] \in 0..9
    BY <2>1
  <2> QED BY <2>1, <2>2
<1> QED BY <1>1, <1>2 DEF PageInv, Typed, Ordered, Page!TabsAndClicksAreKept, Page!TypeOK


(* What leaves for a command leaves before its caller is answered. *)
LeftUnanswered == \A j \in Page!Foreground : sent'[j] # sent[j] => j \notin answered

LEMMA AnsweredStep == PageInv /\ [Page!Next]_(Page!vars) => LeftUnanswered
<1> SUFFICES ASSUME PageInv, [Page!Next]_(Page!vars) PROVE LeftUnanswered
  OBVIOUS
<1>0. /\ Typed /\ Suited /\ Ordered
      /\ Page!Foreground \subseteq Page!Job /\ Background \subseteq Page!Job
      /\ DeviceOps \cap SceneOps = {} /\ DeviceOps \cap SecurityOps = {}
      /\ SceneOps \cap SecurityOps = {} /\ Page!Foreground \cap Background = {}
      /\ Page!Foreground = DeviceOps \cup SceneOps \cup SecurityOps
  BY CommandAnswersAssumption DEF PageInv, Page!Job, Page!Foreground
<1> USE DEF Typed, Suited, Suits, Ordered, LeftUnanswered
<1>1. ASSUME NEW j \in Page!Foreground, Page!Requested(j) \/ Page!NativeUnavailable(j)
     PROVE LeftUnanswered
  BY <1>0, <1>1 DEF Page!Requested, Page!NativeUnavailable
<1>2. ASSUME NEW j \in Page!Foreground, Page!NativePatch(j) PROVE LeftUnanswered
  BY <1>0, <1>2 DEF Page!NativePatch
<1>3. ASSUME NEW j \in Page!Foreground, Page!NativeOver(j) PROVE LeftUnanswered
  BY <1>0, <1>3 DEF Page!NativeOver
<1>4. ASSUME NEW j \in Page!Foreground, Page!NativeFails(j) \/ Page!QueueTimeout(j)
     PROVE LeftUnanswered
  BY <1>0, <1>4 DEF Page!NativeFails, Page!QueueTimeout
<1>5. ASSUME NEW j \in Page!Foreground, Page!SkipsExpired(j) \/ Page!StartsDevice(j)
        \/ Page!NoVerifiedRoute(j)
     PROVE LeftUnanswered
  BY <1>0, <1>5 DEF Page!SkipsExpired, Page!StartsDevice, Page!NoVerifiedRoute
<1>6. ASSUME NEW j \in Page!Foreground, Page!WarmPageFor(j) PROVE LeftUnanswered
  BY <1>0, <1>6 DEF Page!WarmPageFor
<1>7. ASSUME NEW j \in Page!Foreground, Page!RecoverWarmPage(j) PROVE LeftUnanswered
  BY <1>0, <1>7 DEF Page!RecoverWarmPage
<1>8. ASSUME NEW j \in Page!Foreground, Page!OpenCommandPage(j) PROVE LeftUnanswered
  BY <1>0, <1>8 DEF Page!OpenCommandPage
<1>9. ASSUME NEW j \in Page!Foreground, Page!RouteLeadsThere(j) \/ Page!RoomsLeadThere(j)
     PROVE LeftUnanswered
  BY <1>0, <1>9 DEF Page!RouteLeadsThere, Page!Arrives, Page!RoomsLeadThere
<1>10. ASSUME NEW j \in Page!Foreground, Page!FindsDialog(j) \/ Page!ArrivesAtLocation(j)
        \/ Page!SceneNotHere(j) \/ Page!ClicksSecurity(j)
     PROVE LeftUnanswered
  BY <1>0, <1>10
     DEF Page!FindsDialog, Page!ArrivesAtLocation, Page!SceneNotHere, Page!ClicksSecurity
<1>11. ASSUME NEW j \in Page!Foreground, Page!RouteInvalid(j) \/ Page!RoomNotFound(j)
     PROVE LeftUnanswered
  BY <1>0, <1>11 DEF Page!RouteInvalid, Page!RoomNotFound
<1>12. ASSUME NEW j \in Page!Foreground, Page!OpenFails(j) \/ Page!KeeperRefuses(j)
     PROVE LeftUnanswered
  BY <1>0, <1>12 DEF Page!OpenFails, Page!KeeperRefuses
<1>13. ASSUME NEW j \in Page!Foreground, Page!TargetNotFound(j) \/ Page!LocationUnreached(j)
        \/ Page!SceneFails(j)
     PROVE LeftUnanswered
  BY <1>0, <1>13 DEF Page!TargetNotFound, Page!LocationUnreached, Page!SceneFails
<1>14. ASSUME NEW j \in Page!Foreground, Page!ClicksScene(j) \/ Page!SecurityOver(j)
     PROVE LeftUnanswered
  BY <1>0, <1>14 DEF Page!ClicksScene, Page!SecurityOver
<1>14a. ASSUME NEW j \in Page!Foreground, Page!ClickUnseen(j)
     PROVE LeftUnanswered
  BY <1>0, <1>14a DEF Page!ClickUnseen, Page!Step, Page!Close
<1>15. ASSUME NEW j \in Page!Foreground, Page!ControlMissing(j) \/ Page!ControlError(j)
     PROVE LeftUnanswered
  BY <1>0, <1>15 DEF Page!ControlMissing, Page!ControlError
<1>16. ASSUME NEW j \in Page!Foreground, Page!Clicks(j) PROVE LeftUnanswered
  BY <1>0, <1>16 DEF Page!Clicks
<1>17. ASSUME NEW j \in Page!Foreground, Page!StartsScene(j) \/ Page!StartsSecurity(j)
     PROVE LeftUnanswered
  BY <1>0, <1>17 DEF Page!StartsScene, Page!StartsSecurity
<1>18. ASSUME NEW b \in Background, Page!Inspect(b) \/ Page!Preempted(b) PROVE LeftUnanswered
  BY <1>0, <1>18 DEF Page!Inspect, Page!Preempted
<1>19. ASSUME NEW b \in Background, Page!StartsInspection(b) PROVE LeftUnanswered
  BY <1>0, <1>19 DEF Page!StartsInspection
<1>20. ASSUME NEW b \in Background, Page!OpenCommandPage(b) PROVE LeftUnanswered
  BY <1>0, <1>20 DEF Page!OpenCommandPage
<1>21. ASSUME NEW b \in Background, Page!OpenFails(b) \/ Page!LocationUnreached(b)
     PROVE LeftUnanswered
  BY <1>0, <1>21 DEF Page!OpenFails, Page!LocationUnreached
<1>22. ASSUME NEW b \in Background, Page!InspectionArrives(b) PROVE LeftUnanswered
  BY <1>0, <1>22 DEF Page!InspectionArrives
<1>23. ASSUME NEW b \in Background, Page!Inspects(b) \/ Page!InspectionOver(b)
     PROVE LeftUnanswered
  BY <1>0, <1>23 DEF Page!Inspects, Page!InspectionOver
<1>24. ASSUME Page!HasWarmCommandPage PROVE LeftUnanswered
  BY <1>0, <1>24 DEF Page!HasWarmCommandPage
<1>25. ASSUME Page!WarmExpires PROVE LeftUnanswered
  BY <1>0, <1>25 DEF Page!WarmExpires
<1>26. ASSUME NEW t \in Page!Tab, Page!TabLost(t)
        \/ \E d \in Devices \cup {Page!Elsewhere} : Page!Wanders(t, d)
     PROVE LeftUnanswered
  BY <1>0, <1>26 DEF Page!TabLost, Page!Wanders
<1>27. ASSUME UNCHANGED Page!vars \/ \E d \in Devices : Page!RouteExpires(d) PROVE LeftUnanswered
  BY <1>0, <1>27 DEF Page!RouteExpires, Page!vars
<1> QED BY <1>1, <1>2, <1>3, <1>4, <1>5, <1>6, <1>7, <1>8, <1>9, <1>10, <1>11, <1>12, <1>13,
    <1>14, <1>14a, <1>15, <1>16, <1>17, <1>18, <1>19, <1>20, <1>21, <1>22, <1>23, <1>24, <1>25,
        <1>26, <1>27
    DEF Page!Next, Page!ForegroundStep, Page!BackgroundStep, Page!Environment


(* Only its loss or its own step takes the tab from a device command. *)
TabsStay ==
  \A j \in DeviceOps :
    /\ stage[j] \in {"arrive", "control", "click"} /\ stage'[j] = stage[j]
    /\ tab[j] \in open /\ lost' = lost
    => tab[j] \in open'

LEMMA TabsStayStep == PageInv /\ [Page!Next]_(Page!vars) => TabsStay
<1> SUFFICES ASSUME PageInv, [Page!Next]_(Page!vars) PROVE TabsStay
  OBVIOUS
<1>0. /\ Typed /\ Suited /\ OwnTabs /\ InspectedIs
      /\ \A j, k \in Page!Foreground : stage[j] \in Working \/ Page!Turn(j) =>
           (stage[k] \in Working => j = k)
      /\ None \notin Page!Tab
      /\ Page!Foreground \subseteq Page!Job /\ Background \subseteq Page!Job
      /\ DeviceOps \cap SceneOps = {} /\ DeviceOps \cap SecurityOps = {}
      /\ SceneOps \cap SecurityOps = {} /\ Page!Foreground \cap Background = {}
      /\ Page!Foreground = DeviceOps \cup SceneOps \cup SecurityOps
  BY CommandAnswersAssumption DEF PageInv, Page!Job, Page!Foreground, Turns, Page!Turn
<1> USE DEF Typed, Suited, Suits, Tabless, Working, OwnTabs, InspectedIs, TabsStay
<1>1. ASSUME NEW j \in Page!Foreground, Page!Requested(j) \/ Page!NativeUnavailable(j)
     PROVE TabsStay
  BY <1>0, <1>1
     DEF Page!Requested, Page!RunForeground, Page!Preempt, Page!Step, Page!NativeUnavailable
<1>2. ASSUME NEW j \in Page!Foreground, Page!NativePatch(j) PROVE TabsStay
  BY <1>0, <1>2 DEF Page!NativePatch
<1>3. ASSUME NEW j \in Page!Foreground, Page!NativeOver(j) PROVE TabsStay
  BY <1>0, <1>3 DEF Page!NativeOver, Page!Ends, Page!Step
<1>4. ASSUME NEW j \in Page!Foreground, Page!NativeFails(j) \/ Page!QueueTimeout(j)
     PROVE TabsStay
  BY <1>0, <1>4 DEF Page!NativeFails, Page!Ends, Page!Step, Page!QueueTimeout, Page!QueueExpires
<1>5. ASSUME NEW j \in Page!Foreground, Page!SkipsExpired(j) \/ Page!StartsDevice(j)
        \/ Page!NoVerifiedRoute(j)
     PROVE TabsStay
  BY <1>0, <1>5 DEF Page!SkipsExpired, Page!StartsDevice, Page!Step, Page!NoVerifiedRoute
<1>6. ASSUME NEW j \in Page!Foreground, Page!WarmPageFor(j) PROVE TabsStay
  BY <1>0, <1>6 DEF Page!WarmPageFor, Page!IsWarmFor, Page!Invalidate, Page!Step
<1>7. ASSUME NEW j \in Page!Foreground, Page!RecoverWarmPage(j) PROVE TabsStay
  BY <1>0, <1>7 DEF Page!RecoverWarmPage, Page!IsWarmFor, Page!Invalidate, Page!Step
<1>8. ASSUME NEW j \in Page!Foreground, Page!OpenCommandPage(j) PROVE TabsStay
  BY <1>0, <1>8 DEF Page!OpenCommandPage, Page!Step
<1>9. ASSUME NEW j \in Page!Foreground, Page!RouteLeadsThere(j) \/ Page!RoomsLeadThere(j)
     PROVE TabsStay
  BY <1>0, <1>9 DEF Page!RouteLeadsThere, Page!Arrives, Page!Step, Page!RoomsLeadThere
<1>10. ASSUME NEW j \in Page!Foreground, Page!FindsDialog(j) \/ Page!ArrivesAtLocation(j)
        \/ Page!SceneNotHere(j) \/ Page!ClicksSecurity(j)
     PROVE TabsStay
  BY <1>0, <1>10
     DEF Page!FindsDialog, Page!Step, Page!ArrivesAtLocation, Page!SceneNotHere,
         Page!ClicksSecurity
<1>11. ASSUME NEW j \in Page!Foreground, Page!RouteInvalid(j) \/ Page!RoomNotFound(j)
     PROVE TabsStay
  BY <1>0, <1>11 DEF Page!RouteInvalid, Page!Close, Page!Step, Page!RoomNotFound
<1>12. ASSUME NEW j \in Page!Foreground, Page!OpenFails(j) \/ Page!KeeperRefuses(j)
     PROVE TabsStay
  BY <1>0, <1>12
     DEF Page!OpenFails, Page!Finish, Page!Ends, Page!Step, Page!KeeperRefuses, Page!Turn
<1>13. ASSUME NEW j \in Page!Foreground, Page!TargetNotFound(j) \/ Page!LocationUnreached(j)
        \/ Page!SceneFails(j)
     PROVE TabsStay
  BY <1>0, <1>13
     DEF Page!TargetNotFound, Page!Close, Page!Finish, Page!Ends, Page!Step,
         Page!LocationUnreached, Page!SceneFails
<1>14. ASSUME NEW j \in Page!Foreground, Page!ClicksScene(j) \/ Page!SecurityOver(j)
     PROVE TabsStay
  BY <1>0, <1>14
     DEF Page!ClicksScene, Page!Close, Page!Finish, Page!Ends, Page!Step, Page!SecurityOver
<1>14a. ASSUME NEW j \in Page!Foreground, Page!ClickUnseen(j)
     PROVE TabsStay
  BY <1>0, <1>14a
     DEF Page!ClickUnseen, Page!Close, Page!Finish, Page!Ends, Page!Step
<1>15. ASSUME NEW j \in Page!Foreground, Page!ControlMissing(j) \/ Page!ControlError(j)
     PROVE TabsStay
  BY <1>0, <1>15
     DEF Page!ControlMissing, Page!GivesUpTab, Page!Continues, Page!AfterControlMissing,
         Page!Ends, Page!Step, Page!ControlError, Page!AfterControlError
<1>16. ASSUME NEW j \in Page!Foreground, Page!Clicks(j) PROVE TabsStay
  BY <1>0, <1>16
     DEF Page!Clicks, Page!Scope, Page!GivesUpTab, Page!Continues, Page!AfterControlError,
         Page!Finish, Page!Ends, Page!Step, Page!Close
<1>17. ASSUME NEW j \in Page!Foreground, Page!StartsScene(j) \/ Page!StartsSecurity(j)
     PROVE TabsStay
  BY <1>0, <1>17 DEF Page!StartsScene, Page!Invalidate, Page!Step, Page!Turn, Page!StartsSecurity
<1>18. ASSUME NEW b \in Background, Page!Inspect(b) \/ Page!Preempted(b) PROVE TabsStay
  BY <1>0, <1>18 DEF Page!Inspect, Page!Step, Page!Preempted
<1>19. ASSUME NEW b \in Background, Page!StartsInspection(b) PROVE TabsStay
  BY <1>0, <1>19 DEF Page!StartsInspection, Page!Finish, Page!Ends, Page!Step
<1>20. ASSUME NEW b \in Background, Page!OpenCommandPage(b) PROVE TabsStay
  BY <1>0, <1>20 DEF Page!OpenCommandPage, Page!Step
<1>21. ASSUME NEW b \in Background, Page!OpenFails(b) \/ Page!LocationUnreached(b) PROVE TabsStay
  BY <1>0, <1>21
     DEF Page!OpenFails, Page!Finish, Page!Ends, Page!Step, Page!LocationUnreached, Page!Close
<1>22. ASSUME NEW b \in Background, Page!InspectionArrives(b) PROVE TabsStay
  BY <1>0, <1>22 DEF Page!InspectionArrives, Page!Close, Page!Finish, Page!Ends, Page!Step
<1>23. ASSUME NEW b \in Background, Page!Inspects(b) \/ Page!InspectionOver(b) PROVE TabsStay
  BY <1>0, <1>23
     DEF Page!Inspects, Page!Step, Page!InspectionOver, Page!EndsInspection, Page!Close,
         Page!Finish, Page!Ends
<1>24. ASSUME Page!HasWarmCommandPage PROVE TabsStay
  BY <1>0, <1>24 DEF Page!HasWarmCommandPage, Page!Close, Page!HasForegroundOperation
<1>25. ASSUME Page!WarmExpires PROVE TabsStay
  BY <1>0, <1>25 DEF Page!WarmExpires
<1>26. ASSUME NEW t \in Page!Tab, Page!TabLost(t)
        \/ \E d \in Devices \cup {Page!Elsewhere} : Page!Wanders(t, d)
     PROVE TabsStay
  BY <1>0, <1>26 DEF Page!TabLost, Page!Close, Page!Wanders
<1>27. ASSUME UNCHANGED Page!vars \/ \E d \in Devices : Page!RouteExpires(d) PROVE TabsStay
  BY <1>0, <1>27 DEF Page!RouteExpires, Page!vars
<1> QED BY <1>1, <1>2, <1>3, <1>4, <1>5, <1>6, <1>7, <1>8, <1>9, <1>10, <1>11, <1>12, <1>13,
    <1>14, <1>14a, <1>15, <1>16, <1>17, <1>18, <1>19, <1>20, <1>21, <1>22, <1>23, <1>24, <1>25,
        <1>26, <1>27
    DEF Page!Next, Page!ForegroundStep, Page!BackgroundStep, Page!Environment

-----------------------------------------------------------------------------
(* The two together. *)

(* A behaviour of both is one of each: the part that is not followed rests. *)
LEMMA WorldParts == WorldSpec => Spec /\ Page!Init /\ [][Page!Next]_(Page!vars)
<1>1. WorldInit => Init /\ Page!Init
  BY DEF WorldInit
<1>2. [WorldNext]_<<part, vars, pageVars>> => [Next]_vars /\ [Page!Next]_(Page!vars)
  BY DEF WorldNext, pageVars, Page!vars
<1> QED BY <1>1, <1>2, PTL DEF WorldSpec, Spec

(* It holds throughout the composition. *)
LEMMA PageInvHolds == WorldSpec => []PageInv
BY WorldParts, PageInit, PageStep, PTL

(* Whatever ways are tried, a command that is carried out in the browser     *)
(* leaves once at most and only where its device shows, and no tab is left   *)
(* open: SmartThingsWebUiCommandExecutor of command-page.ts.                 *)
THEOREM TabsAndClicksKept == WorldSpec => []TabsAndClicksAreKept
BY PageInvHolds, PageIsSafe, PTL DEF TabsAndClicksAreKept

(* Nothing of a command leaves after its caller was answered, and nobody     *)
(* else takes its tab away: the parts of CommandsHaveTheirTurn that say what *)
(* a step may not do (#uiQueue, enqueueWithDeadline, #preemptBackground).    *)
THEOREM TabsAreTheirOwn == WorldSpec => Page!NothingAfterAnswer /\ Page!TabIsItsOwn
<1>1. PageInv /\ [Page!Next]_(Page!vars) =>
        [LeftUnanswered]_(Page!vars) /\ [TabsStay]_(Page!vars)
  BY AnsweredStep, TabsStayStep
<1> QED BY <1>1, WorldParts, PageInvHolds, PTL
    DEF Page!NothingAfterAnswer, Page!TabIsItsOwn, LeftUnanswered, TabsStay

(* What is proved of the lanes holds where the browser's queue runs beside.  *)
THEOREM LanesAreKept ==
  WorldSpec => ServesSerialLanes /\ []InOrder /\ []NewestIntentWins /\ []OncePerRequestId
BY WorldParts, LanesAreServed, LanesInOrder, NewestIntentAlwaysWins, RequestIdsRunOnce, PTL
=============================================================================
