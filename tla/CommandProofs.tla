---------------------------- MODULE CommandProofs ----------------------------
(***************************************************************************)
(* Proofs about how commands are executed: about ComponentTransaction, for *)
(* any number of switches, of reads and of changes by others; and about    *)
(* DeviceCommand, for any kinds of request and executors and any number of *)
(* commands, turns and moves.                                              *)
(***************************************************************************)
EXTENDS Commands, FiniteSetTheorems, WellFoundedInduction, TLAPS

(* The loop over the plan stands on an action of it while it dispatches,   *)
(* and a POST that has not left was not counted.                           *)
LoopInv ==
  /\ \E c \in Switch : original[c] # "on"
  /\ stage = "dispatch" => run.at \in Plan(run.phase)
  /\ stage = "confirming" => run.phase = "forward"
  /\ post.left = IF post.flying THEN 1 ELSE 0

(* What the executor and the restore know of the orders so far: those      *)
(* before the current one were accepted, and, as long as no undo failed,   *)
(* those after the one being undone are undone or never were accepted.     *)
Ordered ==
  IF run.phase = "restore"
  THEN run.undoing \/ \A c \in Switch : c < run.at => accepted[c] = original[c]
  ELSE IF run.undoing
  THEN run.failed \/ \A c \in Switch :
         IF c \in Plan("forward") /\ c <= run.at THEN accepted[c] = "on"
         ELSE accepted[c] \in {None, original[c]}
  ELSE \A c \in Switch :
         accepted[c] = IF c \in Plan("forward") /\ c < run.at THEN "on" ELSE None

OrdersInv ==
  /\ stage = "dispatch" => Ordered
  /\ stage = "confirming" => \A c \in Plan("forward") : accepted[c] = "on"
  /\ stage = "verifying" => \A c \in Switch : accepted[c] = original[c]
  /\ OrdersMatchAnswer

(* What a read of this wait has brought is a value since the last receipt, *)
(* and whatever replaced it in the store is one too.                       *)
HeldInv ==
  /\ \A c \in Switch : device[c] \in held[c]
  /\ Waiting => \A f \in Flight : \A c \in Switch :
       reads[f].asked /\ reads[f].ok /\ c \notin reads[f].todo => cache[c] \in held[c]
  /\ \A f \in Flight : ~reads[f].asked => reads[f].todo = {}
  /\ AnswersAreReal

TransactionInv == TypeOK /\ LoopInv /\ OrdersInv /\ HeldInv

-----------------------------------------------------------------------------
(* Min and Max of a non-empty set of switches are members that bound it: a *)
(* minimal one among the sets {y : y <= x} (or >= x) ends at its bound.    *)
LEMMA FewestSwitches ==
  ASSUME NEW T, T \subseteq SUBSET Switch, T # {}
  PROVE  \E A \in T : \A B \in T : ~(B \subseteq A /\ B # A)
  <1>1. IsFiniteSet(Switch)
    BY ComponentTransactionAssumption, FS_Interval DEF Switch
  <1>2. T \subseteq FiniteSubsetsOf(Switch)
    BY <1>1, FS_Subset DEF FiniteSubsetsOf
  <1>3. PICK A \in T : \A B \in T : <<B, A>> \notin StrictSubsetOrdering(Switch)
    BY <1>1, <1>2, FS_StrictSubsetOrderingWellFounded, WFMin
  <1> QED BY <1>2, <1>3 DEF StrictSubsetOrdering

LEMMA MinOfSwitches ==
  ASSUME NEW S, S \subseteq Switch, S # {}
  PROVE  Min(S) \in S /\ \A y \in S : Min(S) <= y
  <1> DEFINE Part(x) == {y \in S : y <= x}
             T == {Part(x) : x \in S}
  <1>0. S \subseteq Int
    BY ComponentTransactionAssumption DEF Switch
  <1>1. PICK A \in T : \A B \in T : ~(B \subseteq A /\ B # A)
    <2>1. T \subseteq SUBSET Switch /\ T # {}
      OBVIOUS
    <2> HIDE DEF T
    <2> QED BY <2>1, FewestSwitches
  <1>2. PICK x \in S : A = Part(x)
    BY <1>1
  <1>3. ASSUME NEW z \in S, ~(x <= z) PROVE FALSE
    <2>1. x \in Int /\ z \in Int /\ \A y \in S : y \in Int
      BY <1>0
    <2>2. \A y \in S : y <= z => y <= x
      BY <1>3, <2>1
    <2>3. Part(z) \subseteq Part(x) /\ Part(z) # Part(x)
      <3>1. x \in Part(x) /\ x \notin Part(z)
        BY <1>3, <2>1
      <3> QED BY <2>2, <3>1
    <2> QED BY <1>1, <1>2, <2>3
  <1> QED BY <1>3 DEF Min

LEMMA MaxOfSwitches ==
  ASSUME NEW S, S \subseteq Switch, S # {}
  PROVE  Max(S) \in S /\ \A y \in S : Max(S) >= y
  <1> DEFINE Part(x) == {y \in S : y >= x}
             T == {Part(x) : x \in S}
  <1>0. S \subseteq Int
    BY ComponentTransactionAssumption DEF Switch
  <1>1. PICK A \in T : \A B \in T : ~(B \subseteq A /\ B # A)
    <2>1. T \subseteq SUBSET Switch /\ T # {}
      OBVIOUS
    <2> HIDE DEF T
    <2> QED BY <2>1, FewestSwitches
  <1>2. PICK x \in S : A = Part(x)
    BY <1>1
  <1>3. ASSUME NEW z \in S, ~(x >= z) PROVE FALSE
    <2>1. x \in Int /\ z \in Int /\ \A y \in S : y \in Int
      BY <1>0
    <2>2. \A y \in S : y >= z => y >= x
      BY <1>3, <2>1
    <2>3. Part(z) \subseteq Part(x) /\ Part(z) # Part(x)
      <3>1. x \in Part(x) /\ x \notin Part(z)
        BY <1>3, <2>1
      <3> QED BY <2>2, <3>1
    <2> QED BY <1>1, <1>2, <2>3
  <1> QED BY <1>3 DEF Max

-----------------------------------------------------------------------------
(* A plan lists switches, and there is always one to list. *)
LEMMA PlanType ==
  ASSUME \E c \in Switch : original[c] # "on", NEW phase
  PROVE  Plan(phase) \subseteq Switch /\ Plan(phase) # {}
  BY DEF Plan

(* A plan begins with its first action. *)
LEMMA BeginFacts ==
  ASSUME \E c \in Switch : original[c] # "on", NEW phase \in {"forward", "restore"}
  PROVE  /\ Begin(phase) \in [phase : {"forward", "restore"}, at : Switch,
                              undoing : BOOLEAN, failed : BOOLEAN]
         /\ Begin(phase).phase = phase /\ ~Begin(phase).undoing
         /\ Begin(phase).at \in Plan(phase)
         /\ \A c \in Plan(phase) : Begin(phase).at <= c
  BY PlanType, MinOfSwitches DEF Begin

(* The next action of a plan, and the next older one. *)
LEMMA NextFacts ==
  ASSUME LoopInv, NEW r, r.at \in Plan(r.phase)
  PROVE  /\ After(r) # {} =>
              /\ Min(After(r)) \in Plan(r.phase) /\ r.at < Min(After(r))
              /\ \A c \in Plan(r.phase) : r.at < c => Min(After(r)) <= c
         /\ Before(r) # {} =>
              /\ Max(Before(r)) \in Plan(r.phase) /\ Max(Before(r)) < r.at
              /\ \A c \in Plan(r.phase) : c < r.at => c <= Max(Before(r))
  <1>1. Plan(r.phase) \subseteq Switch
    BY PlanType DEF LoopInv
  <1>2. \A x, y \in Switch : (x > y) = (y < x) /\ (x >= y) = (y <= x)
    BY ComponentTransactionAssumption DEF Switch
  <1>3. ASSUME After(r) # {}
        PROVE  /\ Min(After(r)) \in Plan(r.phase) /\ r.at < Min(After(r))
               /\ \A c \in Plan(r.phase) : r.at < c => Min(After(r)) <= c
    <2>1. After(r) \subseteq Switch /\ r.at \in Switch
      BY <1>1 DEF After
    <2>2. Min(After(r)) \in After(r) /\ \A y \in After(r) : Min(After(r)) <= y
      BY <1>3, <2>1, MinOfSwitches
    <2> QED BY <1>1, <1>2, <2>1, <2>2 DEF After
  <1>4. ASSUME Before(r) # {}
        PROVE  /\ Max(Before(r)) \in Plan(r.phase) /\ Max(Before(r)) < r.at
               /\ \A c \in Plan(r.phase) : c < r.at => c <= Max(Before(r))
    <2>1. Before(r) \subseteq Switch
      BY <1>1 DEF Before
    <2>2. Max(Before(r)) \in Before(r) /\ \A y \in Before(r) : Max(Before(r)) >= y
      BY <1>4, <2>1, MaxOfSwitches
    <2> QED BY <1>1, <1>2, <2>1, <2>2 DEF Before
  <1> QED BY <1>3, <1>4

-----------------------------------------------------------------------------
(* Every step keeps the state of a transaction well formed. *)
LEMMA InitType == Init => TypeOK /\ LoopInv
  <1> SUFFICES ASSUME Init PROVE TypeOK /\ LoopInv
    OBVIOUS
  <1> USE ComponentTransactionAssumption
  <1>1. \E c \in Switch : original[c] # "on"
    BY DEF Init
  <1>2. /\ Begin("forward") \in [phase : {"forward", "restore"}, at : Switch,
                                 undoing : BOOLEAN, failed : BOOLEAN]
        /\ Begin("forward").at \in Plan("forward")
        /\ Begin("forward").phase = "forward"
    BY <1>1, BeginFacts
  <1>3. TypeOK
    BY <1>2 DEF Init, TypeOK, Idle, NewPost, Now, Value, Routes, Answers
  <1>4. LoopInv
    BY <1>1, <1>2 DEF Init, LoopInv, NewPost
  <1> QED BY <1>3, <1>4

(* What any failure leaves: it undoes, or it answers. *)
LEMMA FailsFacts ==
  ASSUME TypeOK, LoopInv, stage = "dispatch", Fails
  PROVE  /\ post' = NewPost
         /\ run' \in [phase : {"forward", "restore"}, at : Switch,
                      undoing : BOOLEAN, failed : BOOLEAN]
         /\ \/ /\ UNCHANGED <<stage, answer, reads>> /\ held' \in {held, Now}
               /\ run'.undoing /\ run'.phase = run.phase
               /\ Before(run) # {} /\ run'.at = Max(Before(run))
               /\ run'.at \in Plan(run.phase)
               /\ run'.failed = (run.undoing \/ run.failed)
            \/ /\ stage' = "done" /\ UNCHANGED <<run, reads, held>>
               /\ Before(run) = {}
               /\ answer' = IF run.undoing \/ run.phase = "restore"
                            THEN "rollback_failed"
                            ELSE IF web THEN "failed" ELSE "partial_failure"
  <1>1. run.at \in Plan(run.phase) /\ Plan(run.phase) \subseteq Switch
    BY PlanType DEF LoopInv
  <1>2. CASE Before(run) # {}
    <2>1. Max(Before(run)) \in Plan(run.phase)
      BY <1>1, <1>2, NextFacts
    <2>2. CASE run.undoing
      BY <1>1, <1>2, <2>1, <2>2 DEF Fails, UndoNext, TypeOK
    <2>3. CASE ~run.undoing
      BY <1>1, <1>2, <2>1, <2>3 DEF Fails, TypeOK
    <2> QED BY <2>2, <2>3
  <1>3. CASE Before(run) = {}
    BY <1>3 DEF Fails, UndoNext, GiveBack, Answer, TypeOK
  <1> QED BY <1>2, <1>3

(* What a receipt leaves. *)
LEMMA AcceptFacts ==
  ASSUME TypeOK, LoopInv, Accept
  PROVE  /\ post' = NewPost
         /\ run' \in [phase : {"forward", "restore"}, at : Switch,
                      undoing : BOOLEAN, failed : BOOLEAN]
         /\ \/ /\ run.undoing /\ UNCHANGED <<stage, answer, reads, held>>
               /\ run'.undoing /\ run'.phase = run.phase /\ run'.failed = run.failed
               /\ Before(run) # {} /\ run'.at = Max(Before(run))
               /\ run'.at \in Plan(run.phase)
            \/ /\ run.undoing /\ stage' = "done" /\ UNCHANGED <<run, reads, held>>
               /\ Before(run) = {}
               /\ answer' = IF run.phase = "restore" \/ run.failed
                            THEN "rollback_failed" ELSE "partial_failure"
            \/ /\ ~run.undoing /\ UNCHANGED <<stage, answer, reads, held>>
               /\ ~run'.undoing /\ run'.phase = run.phase
               /\ After(run) # {} /\ run'.at = Min(After(run))
               /\ run'.at \in Plan(run.phase)
            \/ ~run.undoing /\ After(run) = {} /\ Confirm
  <1>1. run.at \in Plan(run.phase) /\ Plan(run.phase) \subseteq Switch
    BY PlanType DEF LoopInv, Accept
  <1>2. CASE run.undoing
    <2>1. CASE Before(run) # {}
      <3>1. Max(Before(run)) \in Plan(run.phase)
        BY <1>1, <2>1, NextFacts
      <3> QED BY <1>1, <1>2, <2>1, <3>1 DEF Accept, UndoNext, TypeOK
    <2>2. CASE Before(run) = {}
      BY <1>2, <2>2 DEF Accept, UndoNext, GiveBack, Answer, TypeOK
    <2> QED BY <2>1, <2>2
  <1>3. CASE ~run.undoing /\ After(run) # {}
    <2>1. Min(After(run)) \in Plan(run.phase)
      BY <1>1, <1>3, NextFacts
    <2> QED BY <1>1, <1>3, <2>1 DEF Accept, TypeOK
  <1>4. CASE ~run.undoing /\ After(run) = {}
    BY <1>4 DEF Accept, Confirm, TypeOK
  <1> QED BY <1>2, <1>3, <1>4

(* Every step keeps the state well formed and the loop on its plan. *)
LEMMA TypeStep == TypeOK /\ LoopInv /\ [Next]_vars => TypeOK' /\ LoopInv'
  <1> SUFFICES ASSUME TypeOK, LoopInv, [Next]_vars PROVE TypeOK' /\ LoopInv'
    OBVIOUS
  <1> USE ComponentTransactionAssumption DEF transactionVars
  <1>1. CASE CarryOut
    BY <1>1 DEF CarryOut, SetTo, TypeOK, LoopInv, Plan, Routes
  <1>2. CASE Touch
    BY <1>2 DEF Touch, SetTo, TypeOK, LoopInv, Plan, Routes
  <1>3. CASE Push
    BY <1>3 DEF Push, TypeOK, LoopInv, Plan, Routes
  <1>4. CASE stage = "dispatch" /\ Fails /\ cloud' \subseteq cloud
             /\ UNCHANGED <<web, original, device, cache, touches, accepted>>
    <2>1. post' \in [route : 1..Routes', flying : BOOLEAN, left : Nat]
      <3>1. post' = NewPost /\ 1 \in 1..Routes'
        BY <1>4, FailsFacts DEF Routes
      <3> QED BY <3>1 DEF NewPost
    <2>2. held' \in [Switch -> SUBSET Value]
      BY <1>4, FailsFacts DEF TypeOK, Now
    <2>3. run' \in [phase : {"forward", "restore"}, at : Switch,
                    undoing : BOOLEAN, failed : BOOLEAN]
      BY <1>4, FailsFacts
    <2>4. /\ stage' \in {"dispatch", "done"}
          /\ answer' \in Answers \cup {None} /\ (answer' = None) = (stage' # "done")
          /\ reads' = reads
      BY <1>4, FailsFacts DEF TypeOK, Answers
    <2>5. TypeOK'
      BY <1>4, <2>1, <2>2, <2>3, <2>4 DEF TypeOK
    <2> QED BY <1>4, <2>5, FailsFacts DEF LoopInv, NewPost, Plan
  <1>5. CASE Unavailable
    <2>1. CASE post.route < Routes
      BY <1>5, <2>1 DEF Unavailable, TypeOK, LoopInv, Plan, Routes
    <2> QED BY <1>4, <1>5, <2>1 DEF Unavailable
  <1>6. CASE Leave
    <2>1. Order \in [switch : Switch, value : Value, phase : {"forward", "restore"},
                     undo : BOOLEAN]
      BY <1>6, PlanType DEF Leave, TypeOK, LoopInv, Order, Wanted, Value
    <2> QED BY <1>6, <2>1 DEF Leave, TypeOK, LoopInv, Plan, Routes
  <1>7. CASE Accept
    <2>1. run.at \in Switch /\ Wanted(run) \in Value
      BY <1>7, PlanType DEF Accept, TypeOK, LoopInv, Wanted, Value
    <2>2. accepted' \in [Switch -> Value \cup {None}]
      BY <1>7, <2>1 DEF Accept, TypeOK
    <2>3. CASE Confirm
      BY <1>7, <2>2, <2>3, AcceptFacts
      DEF Accept, Confirm, TypeOK, LoopInv, NewPost, Now, Idle, Plan, Routes
    <2>4. CASE ~Confirm
      BY <1>7, <2>2, <2>4, AcceptFacts
      DEF Accept, TypeOK, LoopInv, NewPost, Plan, Routes, Answers
    <2> QED BY <2>3, <2>4
  <1>8. CASE NoReceipt
    BY <1>4, <1>8 DEF NoReceipt
  <1>9. CASE Refuse
    BY <1>4, <1>9 DEF Refuse
  <1>10. ASSUME NEW f \in Flight, Ask(f) PROVE TypeOK' /\ LoopInv'
    BY <1>10 DEF Ask, TypeOK, LoopInv, Plan, Routes
  <1>11. ASSUME NEW f \in Flight, Read(f) PROVE TypeOK' /\ LoopInv'
    <2>1. \/ UNCHANGED <<stage, answer>>
          \/ stage' = "done" /\ answer' \in {"confirmed", "confirmation_timeout"}
      BY <1>11 DEF Read, Judge, Settle, Answer
    <2>2. cache' \in [Switch -> Value]
      BY <1>11 DEF Read, TypeOK
    <2>3. reads' \in [Flight -> [asked : BOOLEAN, todo : SUBSET Switch, ok : BOOLEAN]]
      BY <1>11 DEF Read, TypeOK
    <2> QED BY <1>11, <2>1, <2>2, <2>3
      DEF Read, Waiting, TypeOK, LoopInv, Plan, Routes, Answers
  <1>12. ASSUME NEW f \in Flight, ReadFails(f) PROVE TypeOK' /\ LoopInv'
    BY <1>12 DEF ReadFails, TypeOK, LoopInv, Plan, Routes
  <1>13. CASE Timeout
    <2>1. CASE stage = "confirming"
      <3>1. run' = Begin("restore")
        BY <1>13, <2>1 DEF Timeout
      <3>2. /\ run' \in [phase : {"forward", "restore"}, at : Switch,
                          undoing : BOOLEAN, failed : BOOLEAN]
            /\ run'.phase = "restore" /\ run'.at \in Plan("restore")
        BY <3>1, BeginFacts DEF LoopInv
      <3>3. reads' \in [Flight -> [asked : BOOLEAN, todo : SUBSET Switch, ok : BOOLEAN]]
        <4>1. Idle \in [asked : BOOLEAN, todo : SUBSET Switch, ok : BOOLEAN]
          BY DEF Idle
        <4>2. reads' = [f \in Flight |-> Idle]
          BY <1>13, <2>1 DEF Timeout
        <4> QED BY <4>1, <4>2
      <3>4. TypeOK'
        BY <1>13, <2>1, <3>2, <3>3 DEF Timeout, TypeOK, Routes
      <3> QED BY <1>13, <2>1, <3>2, <3>4 DEF Timeout, LoopInv, Plan
    <2>2. CASE stage # "confirming"
      BY <1>13, <2>2 DEF Timeout, Answer, TypeOK, LoopInv, Plan, Routes, Answers
    <2> QED BY <2>1, <2>2
  <1>14. CASE UNCHANGED vars
    BY <1>14 DEF vars, TypeOK, LoopInv, Plan, Routes
  <1> QED
    BY <1>1, <1>2, <1>3, <1>5, <1>6, <1>7, <1>8, <1>9, <1>10, <1>11, <1>12, <1>13,
       <1>14 DEF Next

-----------------------------------------------------------------------------
(* The orders. *)

(* Only a receipt changes what was accepted; steps that leave the plan and *)
(* the stage alone keep OrdersInv.                                         *)
LEMMA OrdersKept ==
  ASSUME OrdersInv, UNCHANGED <<original, stage, run, answer, accepted>>
  PROVE  OrdersInv'
  BY DEF OrdersInv, Ordered, OrdersMatchAnswer, Plan

(* A failure keeps the orders in line with the undo it starts or goes on   *)
(* with, or with the answer it gives.                                      *)
LEMMA OrdersFail ==
  ASSUME TypeOK, LoopInv, OrdersInv, stage = "dispatch", Fails,
         UNCHANGED <<original, accepted>>
  PROVE  OrdersInv'
  <1> USE ComponentTransactionAssumption
  <1>1. run.at \in Plan(run.phase) /\ Plan(run.phase) \subseteq Switch 
    BY PlanType DEF LoopInv
  <1>0. \A c \in Switch : c \in Int
    BY DEF Switch
  <1>2. answer = None /\ Ordered
    BY DEF TypeOK, OrdersInv
  <1>3. \A phase : Plan(phase)' = Plan(phase)
    BY DEF Plan
  <1>4. CASE Before(run) # {}
    <2>1. /\ stage' = "dispatch" /\ answer' = None
          /\ run'.undoing /\ run'.phase = run.phase /\ run'.at = Max(Before(run))
          /\ run'.failed = (run.undoing \/ run.failed)
      BY <1>2, <1>4, FailsFacts
    <2>2. CASE run.undoing \/ run.failed \/ run.phase = "restore"
      BY <2>1, <2>2 DEF OrdersInv, Ordered, OrdersMatchAnswer, TypeOK
    <2>3. CASE ~run.undoing /\ ~run.failed /\ run.phase # "restore"
      <3>1. /\ run.phase = "forward" /\ Max(Before(run)) < run.at
            /\ Max(Before(run)) \in Switch
            /\ \A c \in Plan("forward") : c < run.at => c <= Max(Before(run))
        BY <1>1, <1>4, <2>3, NextFacts DEF TypeOK
      <3>2. \A c \in Switch :
              accepted[c] = IF c \in Plan("forward") /\ c < run.at THEN "on" ELSE None
        BY <1>2, <2>3 DEF Ordered
      <3>3. \A c \in Switch :
              IF c \in Plan("forward") /\ c <= Max(Before(run)) THEN accepted[c] = "on"
              ELSE accepted[c] \in {None, original[c]}
        <4> TAKE c \in Switch
        <4>1. c \in Int /\ run.at \in Int /\ Max(Before(run)) \in Int
          BY <1>0, <1>1, <3>1
        <4>2. CASE c \in Plan("forward")
          BY <3>1, <3>2, <4>1, <4>2
        <4>3. CASE c \notin Plan("forward")
          BY <3>2, <4>3
        <4> QED BY <4>2, <4>3
      <3>4. Ordered'
        BY <1>3, <2>1, <2>3, <3>1, <3>3 DEF Ordered
      <3> QED BY <2>1, <3>4 DEF OrdersInv, OrdersMatchAnswer
    <2> QED BY <2>2, <2>3
  <1>5. CASE Before(run) = {}
    <2>1. /\ stage' = "done"
          /\ answer' = IF run.undoing \/ run.phase = "restore"
                       THEN "rollback_failed"
                       ELSE IF web THEN "failed" ELSE "partial_failure"
      BY <1>5, FailsFacts
    <2>2. CASE run.undoing \/ run.phase = "restore"
      BY <2>1, <2>2 DEF OrdersInv, OrdersMatchAnswer
    <2>3. CASE ~run.undoing /\ run.phase # "restore"
      <3>1. run.phase = "forward"
        BY <2>3 DEF TypeOK
      <3>2. \A c \in Switch : accepted[c] = None
        BY <1>2, <1>5, <2>3, <3>1 DEF Ordered, Before
      <3> QED BY <2>1, <2>3, <3>2 DEF OrdersInv, OrdersMatchAnswer
    <2> QED BY <2>2, <2>3
  <1> QED BY <1>4, <1>5

(* So does a receipt. *)
LEMMA OrdersAccept ==
  ASSUME TypeOK, LoopInv, OrdersInv, Accept
  PROVE  OrdersInv'
  <1> USE ComponentTransactionAssumption
  <1>1. run.at \in Plan(run.phase) /\ Plan(run.phase) \subseteq Switch 
    BY PlanType DEF LoopInv, Accept
  <1>0. \A c \in Switch : c \in Int
    BY DEF Switch
  <1>2. answer = None /\ stage = "dispatch" /\ Ordered /\ original' = original
    BY DEF TypeOK, OrdersInv, Accept
  <1>3. \A phase : Plan(phase)' = Plan(phase)
    BY <1>2 DEF Plan
  <1>4. /\ accepted'[run.at] = Wanted(run)
        /\ \A c \in Switch : c # run.at => accepted'[c] = accepted[c]
    BY <1>1 DEF Accept, TypeOK
  <1>5. CASE run.undoing /\ (run.phase = "restore" \/ run.failed)
    BY <1>2, <1>5, AcceptFacts DEF OrdersInv, Ordered, OrdersMatchAnswer, TypeOK
  <1>6. CASE run.undoing /\ run.phase # "restore" /\ ~run.failed
    <2>1. run.phase = "forward" /\ accepted'[run.at] = original[run.at]
      BY <1>4, <1>6 DEF Wanted, TypeOK
    <2>2. \A c \in Switch :
            IF c \in Plan("forward") /\ c < run.at THEN accepted'[c] = "on"
            ELSE accepted'[c] \in {None, original[c]}
      <3> TAKE c \in Switch
      <3>1. c \in Int /\ run.at \in Int
        BY <1>0, <1>1
      <3>2. IF c \in Plan("forward") /\ c <= run.at THEN accepted[c] = "on"
            ELSE accepted[c] \in {None, original[c]}
        BY <1>2, <1>6, <2>1 DEF Ordered
      <3>3. CASE c = run.at
        BY <2>1, <3>1, <3>3
      <3>4. CASE c # run.at
        <4>1. accepted'[c] = accepted[c] /\ (c < run.at) = (c <= run.at)
          BY <1>4, <3>1, <3>4
        <4> QED BY <3>2, <4>1
      <3> QED BY <3>3, <3>4
    <2>3. CASE Before(run) # {}
      <3>1. /\ stage' = "dispatch" /\ answer' = None
            /\ run'.undoing /\ run'.phase = "forward" /\ ~run'.failed
            /\ run'.at = Max(Before(run))
        BY <1>2, <1>6, <2>1, <2>3, AcceptFacts
      <3>2. /\ Max(Before(run)) < run.at /\ Max(Before(run)) \in Switch
            /\ \A c \in Plan("forward") : c < run.at => c <= Max(Before(run))
        BY <1>1, <2>1, <2>3, NextFacts
      <3>3. \A c \in Switch :
              IF c \in Plan("forward") /\ c <= Max(Before(run)) THEN accepted'[c] = "on"
              ELSE accepted'[c] \in {None, original[c]}
        <4> TAKE c \in Switch
        <4>1. c \in Int /\ run.at \in Int /\ Max(Before(run)) \in Int
          BY <1>0, <1>1, <3>2
        <4>2. c \in Plan("forward") => (c <= Max(Before(run))) = (c < run.at)
          BY <3>2, <4>1
        <4> QED BY <2>2, <4>2
      <3>4. Ordered'
        BY <1>2, <1>3, <3>1, <3>3 DEF Ordered
      <3> QED BY <3>1, <3>4 DEF OrdersInv, OrdersMatchAnswer
    <2>4. CASE Before(run) = {}
      <3>1. stage' = "done" /\ answer' = "partial_failure"
        BY <1>6, <2>4, AcceptFacts
      <3>2. \A c \in Switch : accepted'[c] \in {None, original[c]}
        BY <2>1, <2>2, <2>4 DEF Before
      <3> QED BY <1>2, <3>1, <3>2 DEF OrdersInv, OrdersMatchAnswer
    <2> QED BY <2>3, <2>4
  <1>7. CASE ~run.undoing /\ After(run) # {}
    <2>1. /\ stage' = "dispatch" /\ answer' = None
          /\ ~run'.undoing /\ run'.phase = run.phase /\ run'.at = Min(After(run))
      BY <1>2, <1>7, AcceptFacts DEF Confirm
    <2>2. /\ run.at < Min(After(run)) /\ Min(After(run)) \in Switch
          /\ \A c \in Plan(run.phase) : run.at < c => Min(After(run)) <= c
      BY <1>1, <1>7, NextFacts
    <2>3. \A c \in Plan(run.phase) : (c < Min(After(run))) = (c < run.at \/ c = run.at)
      <3> TAKE c \in Plan(run.phase)
      <3>1. c \in Int /\ run.at \in Int /\ Min(After(run)) \in Int
        BY <1>0, <1>1, <2>2
      <3> QED BY <2>2, <3>1
    <2>4. CASE run.phase = "restore"
      <3>1. \A c \in Switch : c < Min(After(run)) => accepted'[c] = original[c]
        <4>1. Plan(run.phase) = Switch /\ Wanted(run) = original[run.at]
          BY <2>4 DEF Plan, Wanted
        <4>2. \A c \in Switch : c < run.at => accepted[c] = original[c]
          BY <1>2, <1>7, <2>4 DEF Ordered
        <4> QED BY <1>4, <2>3, <4>1, <4>2
      <3>2. Ordered'
        BY <1>2, <2>1, <2>4, <3>1 DEF Ordered
      <3> QED BY <2>1, <3>2 DEF OrdersInv, OrdersMatchAnswer
    <2>5. CASE run.phase = "forward"
      <3>1. \A c \in Switch : accepted'[c] =
              IF c \in Plan("forward") /\ c < Min(After(run)) THEN "on" ELSE None
        <4>1. Wanted(run) = "on"
          BY <1>7, <2>5 DEF Wanted
        <4>2. \A c \in Switch :
                accepted[c] = IF c \in Plan("forward") /\ c < run.at THEN "on" ELSE None
          BY <1>2, <1>7, <2>5 DEF Ordered
        <4> TAKE c \in Switch
        <4>3. c \in Int /\ run.at \in Int
          BY <1>0, <1>1
        <4>4. CASE c = run.at
          BY <1>1, <1>4, <2>2, <2>5, <4>1, <4>4
        <4>5. CASE c # run.at
          BY <1>4, <2>3, <2>5, <4>2, <4>5
        <4> QED BY <4>4, <4>5
      <3>2. Ordered'
        BY <1>3, <2>1, <2>5, <3>1 DEF Ordered
      <3> QED BY <2>1, <3>2 DEF OrdersInv, OrdersMatchAnswer
    <2> QED BY <2>4, <2>5 DEF TypeOK
  <1>8. CASE ~run.undoing /\ After(run) = {}
    <2>1. /\ stage' = IF run.phase = "forward" THEN "confirming" ELSE "verifying"
          /\ answer' = None
      BY <1>2, <1>8, AcceptFacts DEF Confirm
    <2>2. \A c \in Plan(run.phase) : c < run.at \/ c = run.at
      <3> TAKE c \in Plan(run.phase)
      <3>1. c \in Int /\ run.at \in Int /\ ~(c > run.at)
        BY <1>0, <1>1, <1>8 DEF After
      <3> QED BY <3>1
    <2>3. CASE run.phase = "restore"
      <3>1. \A c \in Switch : accepted'[c] = original[c]
        BY <1>2, <1>4, <1>8, <2>2, <2>3 DEF Ordered, Plan, Wanted
      <3> QED BY <1>2, <2>1, <2>3, <3>1 DEF OrdersInv, OrdersMatchAnswer
    <2>4. CASE run.phase = "forward"
      <3>1. \A c \in Plan("forward") : accepted'[c] = "on"
        BY <1>1, <1>2, <1>4, <1>8, <2>2, <2>4 DEF Ordered, Wanted
      <3> QED BY <1>3, <2>1, <2>4, <3>1 DEF OrdersInv, OrdersMatchAnswer
    <2> QED BY <2>3, <2>4 DEF TypeOK
  <1> QED BY <1>5, <1>6, <1>7, <1>8

(* And every other step. *)
LEMMA OrdersStep ==
  TypeOK /\ LoopInv /\ OrdersInv /\ [Next]_vars => OrdersInv'
  <1> SUFFICES ASSUME TypeOK, LoopInv, OrdersInv, [Next]_vars PROVE OrdersInv'
    OBVIOUS
  <1> USE DEF transactionVars
  <1>1. CASE CarryOut
    BY <1>1, OrdersKept DEF CarryOut
  <1>2. CASE Touch
    BY <1>2, OrdersKept DEF Touch
  <1>3. CASE Push
    BY <1>3, OrdersKept DEF Push
  <1>4. CASE Unavailable
    BY <1>4, OrdersKept, OrdersFail DEF Unavailable
  <1>5. CASE Leave
    BY <1>5, OrdersKept DEF Leave
  <1>6. CASE Accept
    BY <1>6, OrdersAccept
  <1>7. CASE NoReceipt
    BY <1>7, OrdersFail DEF NoReceipt
  <1>8. CASE Refuse
    BY <1>8, OrdersFail DEF Refuse
  <1>9. ASSUME NEW f \in Flight, Ask(f) PROVE OrdersInv'
    BY <1>9, OrdersKept DEF Ask
  <1>10. ASSUME NEW f \in Flight, Read(f) PROVE OrdersInv'
    <2>1. CASE Settle
      <3>1. /\ stage' = "done" /\ UNCHANGED <<original, accepted>>
            /\ answer' = IF stage = "confirming" THEN "confirmed"
                         ELSE "confirmation_timeout"
        BY <1>10, <2>1 DEF Read, Settle, Answer
      <3>2. stage \in {"confirming", "verifying"}
        BY <1>10 DEF Read, Waiting
      <3> QED BY <3>1, <3>2 DEF OrdersInv, OrdersMatchAnswer, Plan
    <2>2. CASE ~Settle
      BY <1>10, <2>2, OrdersKept DEF Read, Judge
    <2> QED BY <2>1, <2>2
  <1>11. ASSUME NEW f \in Flight, ReadFails(f) PROVE OrdersInv'
    BY <1>11, OrdersKept DEF ReadFails
  <1>12. CASE Timeout
    <2>1. CASE stage = "confirming"
      <3>1. /\ stage' = "dispatch" /\ run' = Begin("restore")
            /\ UNCHANGED <<original, answer, accepted>>
        BY <1>12, <2>1 DEF Timeout
      <3>2. /\ run'.phase = "restore" /\ ~run'.undoing
            /\ \A c \in Switch : ~(c < run'.at)
        <4>1. /\ Begin("restore").phase = "restore" /\ ~Begin("restore").undoing
              /\ Begin("restore").at \in Plan("restore")
              /\ \A c \in Plan("restore") : Begin("restore").at <= c
          BY BeginFacts DEF LoopInv
        <4>2. Plan("restore") = Switch /\ \A c \in Switch : c \in Int
          BY DEF Plan, Switch
        <4>3. \A c \in Switch : ~(c < Begin("restore").at)
          <5> TAKE c \in Switch
          <5>1. c \in Int /\ Begin("restore").at \in Int /\ Begin("restore").at <= c
            BY <4>1, <4>2
          <5> QED BY <5>1
        <4> QED BY <3>1, <4>1, <4>3
      <3>3. Ordered'
        BY <3>2 DEF Ordered
      <3>4. answer = None
        BY <2>1 DEF TypeOK
      <3> QED BY <3>1, <3>3, <3>4, ComponentTransactionAssumption
        DEF OrdersInv, OrdersMatchAnswer
    <2>2. CASE stage # "confirming"
      BY <1>12, <2>2 DEF Timeout, Answer, OrdersInv, OrdersMatchAnswer
    <2> QED BY <2>1, <2>2
  <1>13. CASE UNCHANGED vars
    BY <1>13, OrdersKept DEF vars
  <1> QED
    BY <1>1, <1>2, <1>3, <1>4, <1>5, <1>6, <1>7, <1>8, <1>9, <1>10, <1>11, <1>12,
       <1>13 DEF Next

-----------------------------------------------------------------------------
(* The reads. *)

(* A step of the plan leaves the wait alone: it is not there, or it is     *)
(* only about to begin.                                                    *)
LEMMA HeldOutside ==
  ASSUME TypeOK, HeldInv, UNCHANGED <<original, device>>, held' \in {held, Now},
         ~Waiting' \/ reads' = [f \in Flight |-> Idle],
         reads' \in {reads, [f \in Flight |-> Idle]},
         answer' \notin {"confirmed", "confirmation_timeout"}
  PROVE  HeldInv'
  <1>1. \A c \in Switch : device'[c] \in held'[c]
    BY DEF HeldInv, Now
  <1>2. \A f \in Flight : ~reads'[f].asked => reads'[f].todo = {}
    BY DEF HeldInv, Idle
  <1>3. Waiting' => \A f \in Flight : ~reads'[f].asked
    BY DEF Idle
  <1> QED BY <1>1, <1>2, <1>3 DEF HeldInv, AnswersAreReal

(* While the wait goes on, the store takes over only what the switches are *)
(* now, and held only grows.                                               *)
LEMMA HeldKept ==
  ASSUME HeldInv, UNCHANGED <<original, stage, reads, answer>>,
         \A c \in Switch : device'[c] \in held'[c] /\ held[c] \subseteq held'[c],
         \A c \in Switch : cache'[c] \in {cache[c], device[c]},
         stage # "done" \/ held' = held
  PROVE  HeldInv'
  BY DEF HeldInv, Waiting, AnswersAreReal

LEMMA HeldStep ==
  TypeOK /\ LoopInv /\ HeldInv /\ [Next]_vars => HeldInv'
  <1> SUFFICES ASSUME TypeOK, LoopInv, HeldInv, [Next]_vars PROVE HeldInv'
    OBVIOUS
  <1> USE ComponentTransactionAssumption DEF transactionVars
  <1>1. ASSUME NEW c \in Switch, NEW v \in Value, SetTo(c, v), stage # "done",
               UNCHANGED <<original, stage, reads, answer, cache>>
        PROVE  HeldInv'
    <2>1. \A d \in Switch : device'[d] \in held'[d] /\ held[d] \subseteq held'[d]
      BY <1>1 DEF SetTo, TypeOK, HeldInv
    <2> QED BY <1>1, <2>1, HeldKept
  <1>2. CASE CarryOut
    BY <1>1, <1>2 DEF CarryOut, TypeOK
  <1>3. CASE Touch
    BY <1>1, <1>3 DEF Touch
  <1>4. CASE Push
    <2>1. \A c \in Switch : cache'[c] \in {cache[c], device[c]}
      BY <1>4 DEF Push, TypeOK
    <2> QED BY <1>4, <2>1, HeldKept DEF Push, HeldInv
  <1>5. CASE stage = "dispatch" /\ Fails /\ UNCHANGED <<original, device>>
    <2>1. /\ stage' \in {"dispatch", "done"} /\ reads' = reads /\ held' \in {held, Now}
          /\ answer' \notin {"confirmed", "confirmation_timeout"}
      BY <1>5, FailsFacts DEF TypeOK
    <2> QED BY <1>5, <2>1, HeldOutside DEF Waiting
  <1>6. CASE Unavailable
    <2>1. CASE post.route < Routes
      BY <1>6, <2>1, HeldKept DEF Unavailable, HeldInv
    <2> QED BY <1>5, <1>6, <2>1 DEF Unavailable
  <1>7. CASE Leave
    BY <1>7, HeldKept DEF Leave, HeldInv
  <1>8. CASE Accept
    <2>1. answer = None /\ stage = "dispatch" /\ UNCHANGED <<original, device>>
      BY <1>8 DEF Accept, TypeOK
    <2>2. CASE Confirm
      BY <2>1, <2>2, HeldOutside DEF Confirm
    <2>3. CASE ~Confirm
      <3>1. /\ stage' \in {"dispatch", "done"} /\ reads' = reads /\ held' = held
            /\ answer' \notin {"confirmed", "confirmation_timeout"}
        BY <1>8, <2>1, <2>3, AcceptFacts
      <3> QED BY <2>1, <3>1, HeldOutside DEF Waiting
    <2> QED BY <2>2, <2>3
  <1>9. CASE NoReceipt
    BY <1>5, <1>9 DEF NoReceipt
  <1>10. CASE Refuse
    BY <1>5, <1>10 DEF Refuse
  <1>11. ASSUME NEW f \in Flight, Ask(f) PROVE HeldInv'
    <2>1. \A g \in Flight :
            reads'[g] = IF g = f THEN [asked |-> TRUE, todo |-> Switch, ok |-> TRUE]
                        ELSE reads[g]
      BY <1>11 DEF Ask, TypeOK
    <2> QED BY <1>11, <2>1 DEF Ask, HeldInv, Waiting, AnswersAreReal
  <1>12. ASSUME NEW f \in Flight, Read(f) PROVE HeldInv'
    <2>1. PICK c \in reads[f].todo :
            /\ cache' = [d \in Switch |-> IF d \in DeviceOf(c) THEN device[d] ELSE cache[d]]
            /\ reads' = [reads EXCEPT ![f].todo = @ \ DeviceOf(c)]
      BY <1>12 DEF Read
    <2>2. reads[f] \in [asked : BOOLEAN, todo : SUBSET Switch, ok : BOOLEAN]
      BY <1>12 DEF TypeOK
    <2>3. /\ reads'[f].asked = reads[f].asked /\ reads'[f].ok = reads[f].ok
          /\ reads'[f].todo = reads[f].todo \ DeviceOf(c)
          /\ \A g \in Flight : g # f => reads'[g] = reads[g]
      BY <2>1, <2>2 DEF TypeOK
    <2>4. reads[f].asked /\ Waiting
      BY <1>12, <2>1 DEF HeldInv, Read
    <2>5. UNCHANGED <<original, device, held>>
      BY <1>12 DEF Read
    <2>6. \A g \in Flight : \A d \in Switch :
            reads'[g].asked /\ reads'[g].ok /\ d \notin reads'[g].todo => cache'[d] \in held[d]
      <3> TAKE g \in Flight
      <3> TAKE d \in Switch
      <3>1. CASE d \in DeviceOf(c)
        BY <2>1, <3>1 DEF HeldInv
      <3>2. CASE d \notin DeviceOf(c)
        <4>1. cache'[d] = cache[d]
          BY <2>1, <3>2
        <4> QED BY <2>3, <2>4, <3>2, <4>1 DEF HeldInv
      <3> QED BY <3>1, <3>2
    <2>7. \A g \in Flight : ~reads'[g].asked => reads'[g].todo = {}
      BY <2>3, <2>4 DEF HeldInv
    <2>8. AnswersAreReal'
      <3>1. CASE reads'[f].ok /\ reads'[f].todo = {} /\ VectorMatches(cache')
        <4>1. \A d \in Switch : Expected[d] \in held[d]
          BY <2>3, <2>4, <2>6, <3>1 DEF VectorMatches
        <4>2. answer' = IF stage = "confirming" THEN "confirmed"
                        ELSE "confirmation_timeout"
          BY <1>12, <3>1 DEF Read, Judge, Settle, Answer
        <4> QED BY <2>5, <4>1, <4>2 DEF AnswersAreReal, Expected
      <3>2. CASE ~(reads'[f].ok /\ reads'[f].todo = {} /\ VectorMatches(cache'))
        <4>1. answer' = answer
          BY <1>12, <3>2 DEF Read, Judge
        <4> QED BY <2>5, <4>1 DEF AnswersAreReal, HeldInv
      <3> QED BY <3>1, <3>2
    <2> QED BY <2>5, <2>6, <2>7, <2>8 DEF HeldInv
  <1>13. ASSUME NEW f \in Flight, ReadFails(f) PROVE HeldInv'
    <2>1. PICK c \in reads[f].todo :
            reads' = [reads EXCEPT ![f] =
                        [asked |-> TRUE, todo |-> @.todo \ DeviceOf(c), ok |-> FALSE]]
      BY <1>13 DEF ReadFails
    <2>2. /\ reads'[f].asked /\ ~reads'[f].ok
          /\ \A g \in Flight : g # f => reads'[g] = reads[g]
      BY <2>1 DEF TypeOK
    <2> QED BY <1>13, <2>2 DEF ReadFails, HeldInv, Waiting, AnswersAreReal
  <1>14. CASE Timeout
    <2>1. CASE stage = "confirming"
      BY <1>14, <2>1, HeldOutside DEF Timeout, Waiting, TypeOK
    <2>2. CASE stage # "confirming"
      BY <1>14, <2>2, HeldOutside DEF Timeout, Answer, Waiting
    <2> QED BY <2>1, <2>2
  <1>15. CASE UNCHANGED vars
    BY <1>15, HeldKept DEF vars, HeldInv
  <1> QED
    BY <1>2, <1>3, <1>4, <1>6, <1>7, <1>8, <1>9, <1>10, <1>11, <1>12, <1>13, <1>14,
       <1>15 DEF Next

-----------------------------------------------------------------------------
LEMMA TransactionInvariant == Spec => []TransactionInv
  <1>1. Init => TransactionInv
    <2> SUFFICES ASSUME Init PROVE TransactionInv
      OBVIOUS
    <2> USE ComponentTransactionAssumption
    <2>1. TypeOK /\ LoopInv
      BY InitType
    <2>2. OrdersInv
      <3>1. run = Begin("forward") /\ \E c \in Switch : original[c] # "on"
        BY DEF Init
      <3>2. /\ run.phase = "forward" /\ ~run.undoing
            /\ run.at \in Plan("forward") /\ \A c \in Plan("forward") : run.at <= c
        BY <3>1, BeginFacts
      <3>3. \A c \in Plan("forward") : ~(c < run.at)
        <4> TAKE c \in Plan("forward")
        <4>1. c \in Int /\ run.at \in Int /\ run.at <= c
          BY <3>1, <3>2, PlanType DEF Switch
        <4> QED BY <4>1
      <3> QED BY <3>2, <3>3 DEF Init, OrdersInv, Ordered, OrdersMatchAnswer
    <2>3. HeldInv
      BY DEF Init, HeldInv, Waiting, Idle, Now, AnswersAreReal
    <2> QED BY <2>1, <2>2, <2>3 DEF TransactionInv
  <1>2. TransactionInv /\ [Next]_vars => TransactionInv'
    BY TypeStep, OrdersStep, HeldStep DEF TransactionInv
  <1> QED BY <1>1, <1>2, PTL DEF Spec

(* The state of a transaction is always well formed: the loop is on a      *)
(* switch of the plan, the POST on one of the routes it may take.          *)
THEOREM TransactionTypeCorrect == Spec => []TypeOK
  <1>1. TransactionInv => TypeOK
    BY DEF TransactionInv
  <1> QED BY <1>1, TransactionInvariant, PTL

(* An action that may have reached SmartThings is not sent again by any    *)
(* other route: request goes on only after an answer that says "not sent". *)
THEOREM PostsLeaveOnce == Spec => []NeverReplayed
  <1>1. TransactionInv => NeverReplayed
    BY DEF TransactionInv, LoopInv, NeverReplayed
  <1> QED BY <1>1, TransactionInvariant, PTL

(* What #executeComponentPlan and its executors tell the caller agrees     *)
(* with the orders SmartThings accepted, and a confirmation with a value   *)
(* every switch had after the last receipt.                                *)
THEOREM EveryAnswerIsTrue == Spec => []AnswersAreTrue
  <1>1. TransactionInv => AnswersAreTrue
    BY DEF TransactionInv, OrdersInv, HeldInv, AnswersAreTrue
  <1> QED BY <1>1, TransactionInvariant, PTL

-----------------------------------------------------------------------------
(* Single commands. *)

(* What the properties need of the types. *)
Jobs == [n: Nat, kind: Kinds \cup {None}, want: Device!Value, stage: Device!Stages,
         read: Device!Observation \cup {None}, via: {"none", "advanced", "web"},
            before: Device!Observation \cup {None}]
SwitchType ==
  /\ switch \in Device!Observation /\ store \in Device!Observation /\ news \subseteq Device!Observation
  /\ orders \subseteq [n: 1..MaxCommands, want: Device!Value]
JobType == job \in Jobs
AnswerType ==
  /\ left \in [1..MaxCommands -> Nat]
  /\ outcome \in [1..MaxCommands -> Device!Outcomes \cup {None}]
BackType == back \in [n: Nat, read: Device!Observation \cup {None}, rounds: Nat, same: BOOLEAN]

(* Before its request a command has not left and has no answer, and while it*)
(* waits it has left once.                                                  *)
Unsent == {"fresh", "answer", "route", "native", "dom"}
LeftInv ==
  /\ job.stage # "idle" => job.n \in 1..MaxCommands
  /\ \A n \in 1..MaxCommands :
       /\ n > job.n => left[n] = 0 /\ outcome[n] = None
       /\ n = job.n /\ job.stage \in Unsent => left[n] = 0 /\ outcome[n] = None
       /\ n = job.n /\ job.stage = "wait" => left[n] = 1 /\ outcome[n] = None
  /\ Device!OnceAtMost

(* What a fresh read has seen the switch had, and only a command nobody     *)
(* vouches for is answered from the store.                                  *)
LookInv ==
  /\ job.stage # "idle" => switch.value \in holding
  /\ job.stage = "fresh" /\ job.read # None => job.read.value \in holding
  /\ job.stage = "answer" => ~job.kind.verified

(* The reads behind an answer that are still current are those of the latest*)
(* command.                                                                 *)
BackInv == back.rounds > 0 /\ back.same => back.n = job.n /\ job.stage = "idle"

(* The numbers stay within the bounds of the model.                         *)
BoundInv ==
  /\ job.n <= MaxCommands /\ back.n <= MaxCommands /\ back.rounds <= 3
  /\ whereabouts \in Device!Places /\ legacy \in Legacy /\ holding \subseteq Device!Value
  /\ turns \in 0..MaxTurns /\ moves \in 0..MaxMoves

DeviceTypes == SwitchType /\ JobType /\ AnswerType /\ BackType
DeviceInv == DeviceTypes /\ BoundInv /\ LeftInv /\ LookInv /\ BackInv

-----------------------------------------------------------------------------
(* Types. *)

\* A job as it is made.
LEMMA MadeJob ==
  ASSUME NEW n \in Nat, NEW k \in Kinds \cup {None}, NEW w \in Device!Value,
     NEW st \in Device!Stages,
         NEW b \in Device!Observation \cup {None}
  PROVE  Device!Job(n, k, w, st, b) \in Jobs
BY DEF Device!Job, Jobs

\* An answer is given, and the job is over.
LEMMA AnsweredTypes ==
  ASSUME JobType, AnswerType, NEW what \in Device!Outcomes, Device!Answered(what)
  PROVE  /\ job' \in Jobs /\ job'.stage = "idle" /\ job'.n = job.n
         /\ outcome' \in [1..MaxCommands -> Device!Outcomes \cup {None}]
         /\ \A n \in 1..MaxCommands :
              /\ n # job.n => outcome'[n] = outcome[n]
              /\ n = job.n => outcome'[n] = what
<1>1. job' = Device!Job(job.n, None, "on", "idle", None) BY DEF Device!Answered
<1>2. job' \in Jobs BY <1>1, MadeJob DEF JobType, Jobs, Device!Value, Device!Stages
<1>3. job'.stage = "idle" /\ job'.n = job.n BY <1>1 DEF Device!Job
<1> QED BY <1>2, <1>3 DEF Device!Answered, AnswerType

\* The receipt of a request.
LEMMA ReceiptTypes ==
  ASSUME JobType, AnswerType, NEW via \in {"advanced", "web"},
         Device!Receipt(via)
  PROVE  \/ Device!Answered("accepted")
         \/ /\ job' \in Jobs /\ job'.stage = "wait" /\ job'.n = job.n /\ job'.read = None
            /\ UNCHANGED outcome
<1>1. CASE job.kind.unconfirmed BY <1>1 DEF Device!Receipt
<1>2. CASE ~job.kind.unconfirmed
  <2> DEFINE made == Device!Job(job.n, job.kind, job.want, "wait", job.before)
  <2>1. made \in Jobs BY MadeJob DEF JobType, Jobs, Device!Stages
  <2>2. job' = [made EXCEPT !.via = via] /\ UNCHANGED outcome BY <1>2 DEF Device!Receipt
  <2>3. made.stage = "wait" /\ made.n = job.n /\ made.read = None BY DEF Device!Job
  <2> HIDE DEF made
  <2> QED BY <2>1, <2>2, <2>3 DEF Jobs
<1> QED BY <1>1, <1>2

\* A request that leaves.
LEMMA LeavesTypes ==
  ASSUME AnswerType, Device!Leaves, job.n \in 1..MaxCommands
  PROVE  /\ left' \in [1..MaxCommands -> Nat]
         /\ left'[job.n] = left[job.n] + 1
         /\ \A n \in 1..MaxCommands : n # job.n => left'[n] = left[n]
BY DEF AnswerType, Device!Leaves

\* An observation is accepted or not.
LEMMA AcceptTypes ==
  ASSUME SwitchType, BackType, NEW o \in Device!Observation, Device!Accept(o)
  PROVE  /\ store' \in Device!Observation /\ BackType'
         /\ UNCHANGED back \/ (back'.same = FALSE /\ back'.read = back.read)
BY DEF SwitchType, BackType, Device!Accept

\* Every action keeps the types.
LEMMA DeviceTypeStep ==
  ASSUME DeviceTypes, LeftInv, [Device!Next]_(Device!vars)
  PROVE  DeviceTypes'
<1>0. SwitchType /\ JobType /\ AnswerType /\ BackType BY DEF DeviceTypes
<1> SUFFICES SwitchType' /\ JobType' /\ AnswerType' /\ BackType' BY DEF DeviceTypes
<1> USE <1>0 DEF Device!others
<1>s. ASSUME UNCHANGED <<switch, store, news, orders>> PROVE SwitchType' BY <1>s DEF SwitchType
<1>j. ASSUME UNCHANGED job PROVE JobType' BY <1>j DEF JobType
<1>a. ASSUME UNCHANGED <<left, outcome>> PROVE AnswerType' BY <1>a DEF AnswerType
<1>b. ASSUME UNCHANGED back PROVE BackType' BY <1>b DEF BackType
<1>n. job.stage # "idle" => job.n \in 1..MaxCommands BY DEF LeftInv
<1>o. ASSUME left' \in [1..MaxCommands -> Nat],
             outcome' \in [1..MaxCommands -> Device!Outcomes \cup {None}]
      PROVE  AnswerType'
  BY <1>o DEF AnswerType
<1>t. ASSUME NEW what \in Device!Outcomes, Device!Answered(what)
      PROVE  /\ JobType' /\ (UNCHANGED left => AnswerType')
             /\ outcome' \in [1..MaxCommands -> Device!Outcomes \cup {None}]
  BY <1>t, AnsweredTypes DEF JobType, AnswerType
<1>l. ASSUME Device!Leaves, job.stage # "idle" PROVE left' \in [1..MaxCommands -> Nat]
  BY <1>l, <1>n, LeavesTypes
<1>q. ASSUME Device!Leaves, job.stage # "idle"
      PROVE orders' \subseteq [n: 1..MaxCommands, want: Device!Value]
  BY <1>q, <1>n DEF Device!Leaves, SwitchType, JobType, Jobs
<1>r. ASSUME NEW via \in {"advanced", "web"}, Device!Receipt(via)
      PROVE  JobType' /\ outcome' \in [1..MaxCommands -> Device!Outcomes \cup {None}]
  BY <1>r, ReceiptTypes, AnsweredTypes DEF JobType, AnswerType, Device!Outcomes
<1>f. ASSUME NEW b \in Device!Observation, Device!SentFrom(b) PROVE JobType' /\ UNCHANGED outcome
  BY <1>f, MadeJob DEF Device!SentFrom, JobType, Jobs, Device!Stages
<1>g. ASSUME Device!Gone, UNCHANGED left PROVE JobType' /\ AnswerType'
  BY <1>g, <1>t DEF Device!Gone, Device!Outcomes
<1>1. CASE Device!Turn
  <2>1. SwitchType' BY <1>1 DEF Device!Turn, Device!Becomes, SwitchType, Device!Observation
  <2>2. JobType' BY <1>1, <1>j DEF Device!Turn
  <2>3. AnswerType' BY <1>1, <1>a DEF Device!Turn
  <2>4. BackType' BY <1>1, <1>b DEF Device!Turn
  <2> QED BY <2>1, <2>2, <2>3, <2>4
<1>2. ASSUME NEW o \in orders, Device!CarryOut(o)
      PROVE  SwitchType' /\ JobType' /\ AnswerType' /\ BackType'
  <2>1. SwitchType' BY <1>2 DEF Device!CarryOut, Device!Becomes, SwitchType, Device!Observation,
     Device!Value
  <2>2. JobType' BY <1>2, <1>j DEF Device!CarryOut
  <2>3. AnswerType' BY <1>2, <1>a DEF Device!CarryOut
  <2>4. BackType' BY <1>2, <1>b DEF Device!CarryOut
  <2> QED BY <2>1, <2>2, <2>3, <2>4
<1>3. ASSUME NEW p \in Device!Places, Device!Moves(p)
      PROVE  SwitchType' /\ JobType' /\ AnswerType' /\ BackType'
  <2>1. SwitchType' BY <1>3, <1>s DEF Device!Moves
  <2>2. JobType' BY <1>3, <1>j DEF Device!Moves
  <2>3. AnswerType' BY <1>3, <1>a DEF Device!Moves
  <2>4. BackType' BY <1>3, <1>b DEF Device!Moves
  <2> QED BY <2>1, <2>2, <2>3, <2>4
<1>4. ASSUME NEW o \in news, Device!Event(o)
      PROVE  SwitchType' /\ JobType' /\ AnswerType' /\ BackType'
  <2>1. SwitchType' BY <1>4, AcceptTypes DEF Device!Event, SwitchType
  <2>2. JobType' BY <1>4, <1>j DEF Device!Event
  <2>3. AnswerType' BY <1>4, <1>a DEF Device!Event
  <2>4. BackType' BY <1>4, AcceptTypes DEF Device!Event, SwitchType
  <2> QED BY <2>1, <2>2, <2>3, <2>4
<1>5. ASSUME NEW k \in Kinds, NEW w \in Device!Value, Device!Begin(k, w)
      PROVE  SwitchType' /\ JobType' /\ AnswerType' /\ BackType'
  <2>1. Device!FirstStage(k, w) \in Device!Stages BY DEF Device!FirstStage, Device!Stages
  <2>2. job.n + 1 \in Nat BY DEF JobType, Jobs
  <2>3. job' = Device!Job(job.n + 1, k, w, Device!FirstStage(k, w), store) BY <1>5 DEF Device!Begin
  <2>4. job' \in Jobs BY <2>1, <2>2, <2>3, MadeJob DEF SwitchType
  <2>5. SwitchType' BY <1>5, <1>s DEF Device!Begin
  <2>6. JobType' BY <2>4 DEF JobType
  <2>7. AnswerType' BY <1>5, <1>a DEF Device!Begin
  <2>8. BackType' BY <1>5 DEF Device!Begin, BackType
  <2> QED BY <2>5, <2>6, <2>7, <2>8
<1>6. CASE Device!AnswerFromCache
  <2>1. SwitchType' BY <1>6, <1>s DEF Device!AnswerFromCache
  <2>2. JobType' BY <1>6, <1>t DEF Device!AnswerFromCache, Device!Outcomes
  <2>3. AnswerType' BY <1>6, <1>t DEF Device!AnswerFromCache, Device!Outcomes
  <2>4. BackType' BY <1>6, <1>b DEF Device!AnswerFromCache
  <2> QED BY <2>1, <2>2, <2>3, <2>4
<1>7. CASE Device!Look
  <2>1. SwitchType' BY <1>7, <1>s DEF Device!Look
  <2>2. JobType' BY <1>7 DEF Device!Look, JobType, Jobs, SwitchType
  <2>3. AnswerType' BY <1>7, <1>a DEF Device!Look
  <2>4. BackType' BY <1>7, <1>b DEF Device!Look
  <2> QED BY <2>1, <2>2, <2>3, <2>4
<1>8. CASE Device!FreshRead
  <2>1. job.read \in Device!Observation BY <1>8 DEF Device!FreshRead, JobType, Jobs
  <2>2. store' \in Device!Observation BY <1>8, <2>1, AcceptTypes DEF Device!FreshRead
  <2>3. SwitchType' BY <1>8, <2>1, AcceptTypes DEF Device!FreshRead, SwitchType
  <2>4. JobType' BY <1>8, <2>2, <1>f, <1>g, <1>t DEF Device!FreshRead, Device!Outcomes
  <2>5. AnswerType' BY <1>8, <2>2, <1>a, <1>f, <1>g, <1>t DEF Device!FreshRead, Device!Outcomes
  <2>6. BackType' BY <1>8, <2>1, AcceptTypes DEF Device!FreshRead
  <2> QED BY <2>3, <2>4, <2>5, <2>6
<1>9. CASE Device!FreshReadFails
  <2>1. SwitchType' BY <1>9, <1>s DEF Device!FreshReadFails
  <2>2. JobType' BY <1>9, <1>f, <1>g DEF Device!FreshReadFails, SwitchType
  <2>3. AnswerType' BY <1>9, <1>a, <1>f, <1>g DEF Device!FreshReadFails, SwitchType
  <2>4. BackType' BY <1>9, <1>b DEF Device!FreshReadFails
  <2> QED BY <2>1, <2>2, <2>3, <2>4
<1>10. CASE Device!Advanced
  <2>1. left' \in [1..MaxCommands -> Nat]
    BY <1>10, <1>l DEF Device!Advanced, Device!NothingLeft, AnswerType
  <2>2. outcome' \in [1..MaxCommands -> Device!Outcomes \cup {None}]
    BY <1>10, <1>r, <1>t DEF Device!Advanced, Device!Fails, Device!Outcomes, AnswerType
  <2>3. SwitchType' BY <1>10, <1>q DEF Device!Advanced, Device!NothingLeft, SwitchType
  <2>4. JobType' BY <1>10, <1>r, <1>t DEF Device!Advanced, Device!Fails, Device!Outcomes, JobType,
     Jobs, Device!Stages
  <2>5. AnswerType' BY <2>1, <2>2, <1>o
  <2>6. BackType' BY <1>10, <1>b DEF Device!Advanced
  <2> QED BY <2>3, <2>4, <2>5, <2>6
<1>11. CASE Device!TakeWebRoute
  <2>1. SwitchType' BY <1>11, <1>s DEF Device!TakeWebRoute
  <2>2. JobType' BY <1>11, <1>t DEF Device!TakeWebRoute, Device!Fails, Device!Outcomes, JobType,
     Jobs, Device!Stages
  <2>3. AnswerType' BY <1>11, <1>a, <1>t DEF Device!TakeWebRoute, Device!Fails, Device!Outcomes
  <2>4. BackType' BY <1>11, <1>b DEF Device!TakeWebRoute
  <2> QED BY <2>1, <2>2, <2>3, <2>4
<1>12. CASE Device!Native
  <2>1. left' \in [1..MaxCommands -> Nat]
    BY <1>12, <1>l DEF Device!Native, Device!NothingLeft, AnswerType
  <2>2. outcome' \in [1..MaxCommands -> Device!Outcomes \cup {None}]
    BY <1>12, <1>r, <1>t DEF Device!Native, Device!Fails, Device!Outcomes, AnswerType
  <2>3. ASSUME job' = [job EXCEPT !.stage = "dom"]
        PROVE JobType' BY <2>3 DEF JobType, Jobs, Device!Stages
  <2>4. SwitchType' BY <1>12, <1>q DEF Device!Native, Device!NothingLeft, SwitchType
  <2>5. JobType' BY <1>12, <2>3, <1>r, <1>t DEF Device!Native, Device!Fails, Device!Outcomes
  <2>6. AnswerType' BY <2>1, <2>2, <1>o
  <2>7. BackType' BY <1>12, <1>b DEF Device!Native
  <2> QED BY <2>4, <2>5, <2>6, <2>7
<1>13. CASE Device!Dom
  <2>1. left' \in [1..MaxCommands -> Nat]
    BY <1>13, <1>l DEF Device!Dom, Device!NothingLeft, AnswerType
  <2>2. outcome' \in [1..MaxCommands -> Device!Outcomes \cup {None}]
    BY <1>13, <1>r, <1>t DEF Device!Dom, Device!Fails, Device!Outcomes, AnswerType
  <2>3. SwitchType' BY <1>13, <1>q DEF Device!Dom, Device!NothingLeft, SwitchType
  <2>4. JobType' BY <1>13, <1>r, <1>t DEF Device!Dom, Device!Fails, Device!Outcomes, JobType,
     Jobs, Device!Stages
  <2>5. AnswerType' BY <2>1, <2>2, <1>o
  <2>6. BackType' BY <1>13, <1>b DEF Device!Dom
  <2> QED BY <2>3, <2>4, <2>5, <2>6
<1>14. CASE Device!Confirm
  <2>1. SwitchType' BY <1>14, <1>s DEF Device!Confirm
  <2>2. JobType' BY <1>14, <1>t DEF Device!Confirm, Device!Outcomes
  <2>3. AnswerType' BY <1>14, <1>t DEF Device!Confirm, Device!Outcomes
  <2>4. BackType' BY <1>14, <1>b DEF Device!Confirm
  <2> QED BY <2>1, <2>2, <2>3, <2>4
<1>15. CASE Device!Timeout
  <2>1. SwitchType' BY <1>15, <1>s DEF Device!Timeout
  <2>2. JobType' BY <1>15, <1>t DEF Device!Timeout, Device!Outcomes
  <2>3. AnswerType' BY <1>15, <1>t DEF Device!Timeout, Device!Outcomes
  <2>4. BackType' BY <1>15, <1>b DEF Device!Timeout
  <2> QED BY <2>1, <2>2, <2>3, <2>4
<1>16. CASE Device!Reread
  <2>1. SwitchType' BY <1>16, <1>s DEF Device!Reread
  <2>2. JobType' BY <1>16 DEF Device!Reread, JobType, Jobs, SwitchType
  <2>3. AnswerType' BY <1>16, <1>a DEF Device!Reread
  <2>4. BackType' BY <1>16, <1>b DEF Device!Reread
  <2> QED BY <2>1, <2>2, <2>3, <2>4
<1>17. CASE Device!StaleRead
  <2>1. job.read \in Device!Observation BY <1>17 DEF Device!StaleRead, JobType, Jobs
  <2>2. [n |-> job.n, read |-> None, rounds |-> 3, same |-> TRUE]
          \in [n: Nat, read: Device!Observation \cup {None}, rounds: Nat, same: BOOLEAN]
    BY DEF JobType, Jobs
  <2>3. ASSUME job' = [job EXCEPT !.read = None] PROVE JobType' BY <2>3 DEF JobType, Jobs
  <2>4. SwitchType' BY <1>17, <2>1, AcceptTypes DEF Device!StaleRead, SwitchType
  <2>5. JobType' BY <1>17, <2>3, <1>t DEF Device!StaleRead, Device!Outcomes
  <2>6. AnswerType' BY <1>17, <1>a, <1>t DEF Device!StaleRead, Device!Outcomes
  <2>7. BackType' BY <1>17, <2>1, <2>2, AcceptTypes DEF Device!StaleRead, BackType
  <2> QED BY <2>4, <2>5, <2>6, <2>7
<1>18. CASE Device!BackRead
  <2>1. SwitchType' BY <1>18, <1>s DEF Device!BackRead
  <2>2. JobType' BY <1>18, <1>j DEF Device!BackRead
  <2>3. AnswerType' BY <1>18, <1>a DEF Device!BackRead
  <2>4. BackType' BY <1>18 DEF Device!BackRead, BackType, SwitchType
  <2> QED BY <2>1, <2>2, <2>3, <2>4
<1>19. CASE Device!BackReadEnds
  <2>1. Device!NoBack \in [n: Nat, read: Device!Observation \cup {None}, rounds: Nat, same: BOOLEAN]
    BY DEF Device!NoBack
  <2>2. back.rounds > 1 => [n |-> back.n, read |-> None, rounds |-> back.rounds - 1, same |-> TRUE]
          \in [n: Nat, read: Device!Observation \cup {None}, rounds: Nat, same: BOOLEAN]
    BY DEF BackType
  <2>3. SwitchType' BY <1>19 DEF Device!BackReadEnds, SwitchType, BackType
  <2>4. JobType' BY <1>19, <1>j DEF Device!BackReadEnds
  <2>5. AnswerType' BY <1>19, <1>a DEF Device!BackReadEnds
  <2>6. BackType' BY <1>19, <2>1, <2>2 DEF Device!BackReadEnds, BackType, Device!NoBack
  <2> QED BY <2>3, <2>4, <2>5, <2>6
<1>20. CASE Device!BackYields
  <2>1. SwitchType' BY <1>20, <1>s DEF Device!BackYields
  <2>2. JobType' BY <1>20, <1>j DEF Device!BackYields
  <2>3. AnswerType' BY <1>20, <1>a DEF Device!BackYields
  <2>4. BackType' BY <1>20 DEF Device!BackYields, BackType, Device!NoBack
  <2> QED BY <2>1, <2>2, <2>3, <2>4
<1>21. CASE UNCHANGED Device!vars
  BY <1>21, <1>s, <1>j, <1>a, <1>b DEF Device!vars
<1> QED BY <1>1, <1>2, <1>3, <1>4, <1>5, <1>6, <1>7, <1>8, <1>9, <1>10, <1>11, <1>12, <1>13,
   <1>14, <1>15, <1>16, <1>17, <1>18, <1>19, <1>20, <1>21 DEF Device!Next

\* Every action keeps the bounds.
LEMMA BoundStep ==
  ASSUME DeviceTypes, BoundInv, [Device!Next]_(Device!vars)
  PROVE  BoundInv'
<1>0. SwitchType /\ JobType /\ AnswerType /\ BackType BY DEF DeviceTypes
<1> USE <1>0, CommandsAssumption DEF Device!others
<1>w. UNCHANGED <<whereabouts, moves>> \/ \E p \in Device!Places : Device!Moves(p)
  BY DEF Device!Next, Device!vars, Device!Turn, Device!CarryOut, Device!Event, Device!Begin,
     Device!AnswerFromCache, Device!Look, Device!FreshRead, Device!FreshReadFails, Device!Advanced,
     Device!TakeWebRoute, Device!Native, Device!Dom, Device!Confirm, Device!Timeout, Device!Reread,
     Device!StaleRead, Device!BackRead, Device!BackReadEnds, Device!BackYields
<1>1. whereabouts' \in Device!Places /\ moves' \in 0..MaxMoves
  BY <1>w DEF Device!Moves, BoundInv
<1>2. UNCHANGED legacy
  BY DEF Device!Next, Device!vars, Device!Turn, Device!CarryOut, Device!Moves, Device!Event,
     Device!Begin, Device!AnswerFromCache, Device!Look, Device!FreshRead, Device!FreshReadFails,
     Device!Advanced, Device!TakeWebRoute, Device!Native, Device!Dom, Device!Confirm,
     Device!Timeout, Device!Reread, Device!StaleRead, Device!BackRead, Device!BackReadEnds,
     Device!BackYields
<1>t. UNCHANGED turns \/ Device!Turn
  BY DEF Device!Next, Device!vars, Device!CarryOut, Device!Moves, Device!Event, Device!Begin,
     Device!AnswerFromCache, Device!Look, Device!FreshRead, Device!FreshReadFails, Device!Advanced,
     Device!TakeWebRoute, Device!Native, Device!Dom, Device!Confirm, Device!Timeout, Device!Reread,
     Device!StaleRead, Device!BackRead, Device!BackReadEnds, Device!BackYields
<1>3. turns' \in 0..MaxTurns
  BY <1>t DEF Device!Turn, BoundInv
<1>h. \/ UNCHANGED holding \/ Device!Turn \/ (\E o \in orders : Device!CarryOut(o))
      \/ \E k \in Kinds, w \in Device!Value : Device!Begin(k, w)
  BY DEF Device!Next, Device!vars, Device!Moves, Device!Event,
     Device!AnswerFromCache, Device!Look, Device!FreshRead, Device!FreshReadFails, Device!Advanced,
     Device!TakeWebRoute, Device!Native, Device!Dom, Device!Confirm, Device!Timeout, Device!Reread,
     Device!StaleRead, Device!BackRead, Device!BackReadEnds, Device!BackYields
<1>4. holding' \subseteq Device!Value
  <2>1. switch.value \in Device!Value /\ \A o \in orders : o.want \in Device!Value
    BY DEF SwitchType, Device!Observation
  <2>2. holding \subseteq Device!Value BY DEF BoundInv
  <2>3. CASE Device!Turn BY <2>2, <2>3 DEF Device!Turn, Device!Becomes
  <2>4. ASSUME NEW o \in orders, Device!CarryOut(o) PROVE holding' \subseteq Device!Value
    BY <2>1, <2>2, <2>4 DEF Device!CarryOut, Device!Becomes
  <2>5. ASSUME NEW k \in Kinds, NEW w \in Device!Value, Device!Begin(k, w)
        PROVE  holding' \subseteq Device!Value
    BY <2>1, <2>5 DEF Device!Begin
  <2> QED BY <1>h, <2>2, <2>3, <2>4, <2>5
<1>a. ASSUME NEW what \in Device!Outcomes, Device!Answered(what) PROVE job'.n = job.n
  BY <1>a, AnsweredTypes
<1>r. ASSUME NEW via \in {"advanced", "web"}, Device!Receipt(via) PROVE job'.n = job.n
  BY <1>r, <1>a, ReceiptTypes DEF Device!Outcomes
<1>n. job'.n = job.n \/ (job'.n = job.n + 1 /\ job.n < MaxCommands)
  <2>1. ASSUME NEW k \in Kinds, NEW w \in Device!Value, Device!Begin(k, w)
        PROVE  job'.n = job.n + 1 /\ job.n < MaxCommands
    BY <2>1 DEF Device!Begin, Device!Job
  <2>2. CASE \/ Device!Turn \/ (\E o \in orders : Device!CarryOut(o))
             \/ (\E p \in Device!Places : Device!Moves(p)) \/ (\E o \in news : Device!Event(o))
             \/ Device!BackRead \/ Device!BackReadEnds \/ Device!BackYields
             \/ UNCHANGED Device!vars
    BY <2>2 DEF Device!Turn, Device!CarryOut, Device!Moves, Device!Event, Device!BackRead,
       Device!BackReadEnds, Device!BackYields, Device!vars
  <2>3. ASSUME NEW b, Device!SentFrom(b) PROVE job'.n = job.n
    BY <2>3 DEF Device!SentFrom, Device!Job
  <2>4. ASSUME Device!Gone PROVE job'.n = job.n
    BY <2>4, <1>a DEF Device!Gone, Device!Outcomes
  <2>5. CASE Device!Look \/ Device!Reread
    BY <2>5 DEF Device!Look, Device!Reread, JobType, Jobs
  <2>6. CASE Device!FreshRead \/ Device!FreshReadFails
    BY <2>6, <2>3, <2>4, <1>a DEF Device!FreshRead, Device!FreshReadFails, Device!Outcomes
  <2>7. ASSUME NEW s, job' = [job EXCEPT !.stage = s] PROVE job'.n = job.n
    BY <2>7 DEF JobType, Jobs
  <2>8. CASE \/ Device!Advanced \/ Device!Dom \/ Device!Confirm \/ Device!Timeout
             \/ Device!AnswerFromCache
    BY <2>8, <1>a, <1>r DEF Device!Advanced, Device!Dom, Device!Confirm, Device!Timeout,
       Device!AnswerFromCache, Device!Fails, Device!Outcomes
  <2>9. CASE Device!TakeWebRoute \/ Device!Native
    BY <2>9, <2>7, <1>a, <1>r DEF Device!TakeWebRoute, Device!Native, Device!Fails, Device!Outcomes
  <2>10. ASSUME job' = [job EXCEPT !.read = None] PROVE job'.n = job.n
    BY <2>10 DEF JobType, Jobs
  <2>11. CASE Device!StaleRead
    BY <2>11, <2>10, <1>a DEF Device!StaleRead, Device!Outcomes
  <2> QED BY <2>1, <2>2, <2>5, <2>6, <2>8, <2>9, <2>11 DEF Device!Next
<1>5. job'.n <= MaxCommands /\ job.n <= MaxCommands
  BY <1>n DEF BoundInv, JobType, Jobs
<1>b. \/ back'.n = back.n /\ back'.rounds = back.rounds
      \/ back'.n = 0 /\ back'.rounds = 0
      \/ back'.n = job.n /\ back'.rounds = 3
      \/ back'.n = back.n /\ back'.rounds = back.rounds - 1 /\ back.rounds > 1
  <2>1. ASSUME NEW o, Device!Accept(o) PROVE back'.n = back.n /\ back'.rounds = back.rounds
    BY <2>1 DEF Device!Accept, BackType
  <2>2. CASE UNCHANGED back BY <2>2
  <2>3. ASSUME NEW k \in Kinds, NEW w \in Device!Value, Device!Begin(k, w)
        PROVE  back'.n = back.n /\ back'.rounds = back.rounds
    BY <2>3 DEF Device!Begin, BackType
  <2>4. CASE (\E o \in news : Device!Event(o)) \/ Device!FreshRead
    BY <2>1, <2>4 DEF Device!Event, Device!FreshRead
  <2>5. CASE Device!StaleRead
    <3>1. \/ \E o : Device!Accept(o)
          \/ back' = [n |-> job.n, read |-> None, rounds |-> 3, same |-> TRUE]
      BY <2>5 DEF Device!StaleRead
    <3> QED BY <2>1, <3>1
  <2>6. CASE Device!BackRead
    BY <2>6 DEF Device!BackRead, BackType
  <2>7. CASE Device!BackReadEnds
    <3>1. \/ back' = Device!NoBack
          \/ /\ back.rounds > 1
             /\ back' = [n |-> back.n, read |-> None, rounds |-> back.rounds - 1, same |-> TRUE]
      BY <2>7 DEF Device!BackReadEnds
    <3> QED BY <3>1 DEF Device!NoBack
  <2>8. CASE Device!BackYields
    BY <2>8 DEF Device!BackYields, Device!NoBack
  <2>9. CASE \/ Device!Turn \/ (\E o \in orders : Device!CarryOut(o))
             \/ (\E p \in Device!Places : Device!Moves(p)) \/ Device!AnswerFromCache
             \/ Device!Look
             \/ Device!FreshReadFails \/ Device!Advanced \/ Device!TakeWebRoute \/ Device!Native
             \/ Device!Dom \/ Device!Confirm \/ Device!Timeout \/ Device!Reread
             \/ UNCHANGED Device!vars
    BY <2>2, <2>9 DEF Device!Turn, Device!CarryOut, Device!Moves, Device!AnswerFromCache,
       Device!Look,
       Device!FreshReadFails, Device!Advanced, Device!TakeWebRoute, Device!Native, Device!Dom,
       Device!Confirm, Device!Timeout, Device!Reread, Device!vars
  <2> QED BY <2>3, <2>4, <2>5, <2>6, <2>7, <2>8, <2>9 DEF Device!Next
<1>6. back'.n <= MaxCommands /\ back'.rounds <= 3
  BY <1>b, <1>5 DEF BoundInv, BackType, JobType, Jobs
<1> QED BY <1>1, <1>2, <1>3, <1>4, <1>5, <1>6 DEF BoundInv

\* The state of a command is well formed.
LEMMA DeviceTypeOK == DeviceInv => Device!TypeOK
<1> SUFFICES ASSUME DeviceInv PROVE Device!TypeOK OBVIOUS
<1> USE CommandsAssumption DEF DeviceInv, DeviceTypes, BoundInv
<1>1. job \in [n: 0..MaxCommands, kind: Kinds \cup {None}, want: Device!Value, stage: Device!Stages,
               read: Device!Observation \cup {None}, via: {"none", "advanced", "web"},
               before: Device!Observation \cup {None}]
  BY DEF JobType, Jobs
<1>2. back \in [n: 0..MaxCommands, read: Device!Observation \cup {None}, rounds: 0..3,
   same: BOOLEAN]
  BY DEF BackType
<1> QED BY <1>1, <1>2 DEF Device!TypeOK, SwitchType, AnswerType

-----------------------------------------------------------------------------
(* Requests. *)

\* A command that goes on as it was, or to another stage before its request.
LEMMA LeftKept ==
  ASSUME LeftInv, UNCHANGED <<left, outcome>>, job'.n = job.n,
         job'.stage = job.stage \/ {job.stage, job'.stage} \subseteq Unsent
  PROVE  LeftInv'
BY DEF LeftInv, Device!OnceAtMost, Unsent

\* A command that is answered, on the spot or after its request left.
LEMMA LeftAnswered ==
  ASSUME JobType, AnswerType, LeftInv,
         NEW what \in Device!Outcomes, Device!Answered(what), job.stage # "idle",
         \/ UNCHANGED left /\ what = "failed"
         \/ /\ UNCHANGED left /\ job.stage \in Unsent
            /\ what \in {"already", "not_found", "offline", "moved"}
         \/ UNCHANGED left /\ job.stage = "wait" /\ what \in {"accepted", "confirmed", "timeout"}
         \/ Device!Leaves /\ job.stage \in Unsent /\ what \in {"accepted", "failed"}
  PROVE  LeftInv'
<1>1. /\ job'.stage = "idle" /\ job'.n = job.n
      /\ \A n \in 1..MaxCommands : /\ n # job.n => outcome'[n] = outcome[n]
                                   /\ n = job.n => outcome'[n] = what
  BY AnsweredTypes
<1>2. job.n \in 1..MaxCommands BY DEF LeftInv
<1>3. job.stage \in Unsent \cup {"wait"} BY DEF JobType, Jobs, Device!Stages, Unsent
<1>4. CASE UNCHANGED left /\ ~Device!Leaves
  <2>1. /\ what = "failed" => left[job.n] <= 1
        /\ what \in {"already", "not_found", "offline", "moved"} => left[job.n] = 0
        /\ what \in {"accepted", "confirmed", "timeout"} => left[job.n] = 1
    BY <1>2, <1>4 DEF LeftInv, Device!OnceAtMost, Unsent
  <2>2. Device!OnceAtMost'
    <3>1. ASSUME NEW n \in 1..MaxCommands
          PROVE  /\ left'[n] <= 1
                 /\ outcome'[n] \in {"already", "not_found", "offline", "moved"} => left'[n] = 0
                 /\ outcome'[n] \in {"accepted", "confirmed", "timeout"} => left'[n] = 1
      BY <1>1, <1>4, <2>1 DEF LeftInv, Device!OnceAtMost, Device!Outcomes
    <3> QED BY <3>1 DEF Device!OnceAtMost
  <2> QED BY <1>1, <1>4, <2>2 DEF LeftInv, Unsent
<1>5. CASE Device!Leaves /\ job.stage \in Unsent /\ what \in {"accepted", "failed"}
  BY <1>1, <1>2, <1>5, LeavesTypes DEF LeftInv, Device!OnceAtMost, Unsent
<1>6. UNCHANGED left => ~Device!Leaves
  BY <1>2, LeavesTypes DEF AnswerType
<1> QED BY <1>4, <1>5, <1>6

\* A request that left and returned.
LEMMA LeftReceipt ==
  ASSUME JobType, AnswerType, LeftInv, NEW via \in {"advanced", "web"},
         Device!Leaves, Device!Receipt(via), job.stage \in Unsent
  PROVE  LeftInv'
<1>1. job.stage # "idle" BY DEF Unsent
<1>2. CASE Device!Answered("accepted") BY <1>1, <1>2, LeftAnswered DEF Device!Outcomes
<1>3. CASE job'.stage = "wait" /\ job'.n = job.n /\ UNCHANGED outcome
  BY <1>1, <1>3, LeavesTypes, CommandsAssumption DEF LeftInv, Device!OnceAtMost, Unsent,
     Device!Outcomes
<1> QED BY <1>2, <1>3, ReceiptTypes

\* Every step leaves it so.
LEMMA LeftStep ==
  ASSUME DeviceTypes, LeftInv, [Device!Next]_(Device!vars)
  PROVE  LeftInv'
<1>0. JobType /\ AnswerType BY DEF DeviceTypes
<1> USE <1>0 DEF Device!others
<1>k. ASSUME UNCHANGED <<job, left, outcome>> PROVE LeftInv' BY <1>k, LeftKept
<1>1. ASSUME NEW k \in Kinds, NEW w \in Device!Value, Device!Begin(k, w) PROVE LeftInv'
  <2>1. /\ job.stage = "idle" /\ job.n + 1 \in 1..MaxCommands /\ job'.n = job.n + 1
        /\ job'.stage \in {"route", "fresh", "answer"} /\ UNCHANGED <<left, outcome>>
    BY <1>1, CommandsAssumption DEF Device!Begin, Device!Job, Device!FirstStage, JobType, Jobs
  <2> QED BY <2>1 DEF LeftInv, Device!OnceAtMost, Unsent, JobType, Jobs
<1>2. CASE Device!AnswerFromCache
  BY <1>2, LeftAnswered DEF Device!AnswerFromCache, Device!Outcomes, Unsent
<1>3. CASE Device!Look \/ Device!Reread
  <2>1. job'.stage = job.stage /\ job'.n = job.n /\ UNCHANGED <<left, outcome>>
    BY <1>3 DEF Device!Look, Device!Reread, JobType, Jobs
  <2> QED BY <2>1, LeftKept
<1>4. ASSUME NEW b, Device!SentFrom(b), job.stage = "fresh", UNCHANGED left PROVE LeftInv'
  <2>1. job'.stage = "route" /\ job'.n = job.n BY <1>4 DEF Device!SentFrom, Device!Job
  <2> QED BY <1>4, <2>1, LeftKept DEF Device!SentFrom, Unsent
<1>5. ASSUME Device!Gone, job.stage = "fresh", UNCHANGED left PROVE LeftInv'
  BY <1>5, LeftAnswered DEF Device!Gone, Device!Outcomes, Unsent
<1>6. CASE Device!FreshRead
  BY <1>4, <1>5, <1>6, LeftAnswered DEF Device!FreshRead, Device!Outcomes, Unsent
<1>7. CASE Device!FreshReadFails
  BY <1>4, <1>5, <1>7 DEF Device!FreshReadFails
<1>8. ASSUME job.stage \in Unsent, UNCHANGED <<left, outcome>>,
             NEW s \in Unsent, job' = [job EXCEPT !.stage = s]
      PROVE  LeftInv'
  BY <1>8, LeftKept DEF JobType, Jobs
<1>9. CASE Device!Advanced
  BY <1>9, LeftReceipt, LeftAnswered DEF Device!Advanced, Device!NothingLeft, Device!Fails,
     Device!Outcomes, Unsent
<1>10. CASE Device!TakeWebRoute
  BY <1>8, <1>10, LeftAnswered DEF Device!TakeWebRoute, Device!Fails, Device!Outcomes, Unsent
<1>11. CASE Device!Native
  BY <1>8, <1>11, LeftReceipt, LeftAnswered DEF Device!Native, Device!NothingLeft, Device!Fails,
     Device!Outcomes, Unsent
<1>12. CASE Device!Dom
  BY <1>12, LeftReceipt, LeftAnswered DEF Device!Dom, Device!NothingLeft, Device!Fails,
     Device!Outcomes, Unsent
<1>13. CASE Device!Confirm \/ Device!Timeout
  BY <1>13, LeftAnswered DEF Device!Confirm, Device!Timeout, Device!Outcomes
<1>14. CASE Device!StaleRead
  <2>1. ASSUME job' = [job EXCEPT !.read = None], UNCHANGED <<left, outcome>> PROVE LeftInv'
    BY <2>1, LeftKept DEF JobType, Jobs
  <2>2. job.stage = "wait" /\ UNCHANGED left BY <1>14 DEF Device!StaleRead
  <2>3. \/ Device!Answered("accepted") \/ Device!Answered("confirmed")
        \/ job' = [job EXCEPT !.read = None] /\ UNCHANGED outcome
    BY <1>14 DEF Device!StaleRead
  <2> QED BY <2>1, <2>2, <2>3, LeftAnswered DEF Device!Outcomes
<1>15. CASE \/ Device!Turn \/ (\E o \in orders : Device!CarryOut(o))
            \/ (\E p \in Device!Places : Device!Moves(p))
            \/ (\E o \in news : Device!Event(o)) \/ Device!BackRead \/ Device!BackReadEnds
            \/ Device!BackYields
            \/ UNCHANGED Device!vars
  BY <1>15, <1>k DEF Device!Turn, Device!CarryOut, Device!Moves, Device!Event, Device!BackRead,
     Device!BackReadEnds, Device!BackYields, Device!vars
<1> QED
  BY <1>1, <1>2, <1>3, <1>6, <1>7, <1>9, <1>10, <1>11, <1>12, <1>13, <1>14, <1>15 DEF Device!Next

-----------------------------------------------------------------------------
(* Reads. *)

\* A job that is over, or on its way to the request, has looked at nothing.
LEMMA LookPast ==
  ASSUME LookInv, job'.stage = "idle"
         \/ (job'.stage \notin {"fresh", "answer"} /\ job.stage # "idle" /\ UNCHANGED <<switch,
            holding>>)
  PROVE  LookInv'
BY DEF LookInv

\* The answers and receipts lead there.
LEMMA LookAnswered ==
  ASSUME LookInv, NEW what, Device!Answered(what)
  PROVE  LookInv'
BY LookPast DEF Device!Answered, Device!Job

\* Every step leaves it so.
LEMMA LookStep ==
  ASSUME DeviceTypes, LookInv, [Device!Next]_(Device!vars)
  PROVE  LookInv'
<1>0. SwitchType /\ JobType /\ AnswerType BY DEF DeviceTypes
<1> USE <1>0 DEF Device!others
<1>1. ASSUME NEW v, Device!Becomes(v), UNCHANGED job PROVE LookInv'
  BY <1>1 DEF Device!Becomes, LookInv
<1>2. CASE Device!Turn BY <1>1, <1>2 DEF Device!Turn
<1>3. ASSUME NEW o \in orders, Device!CarryOut(o) PROVE LookInv'
  BY <1>1, <1>3 DEF Device!CarryOut, LookInv
<1>4. ASSUME NEW k \in Kinds, NEW w \in Device!Value, Device!Begin(k, w) PROVE LookInv'
  <2>1. job' = Device!Job(job.n + 1, k, w, Device!FirstStage(k, w), store)
        /\ holding' = {switch.value} /\ UNCHANGED switch
    BY <1>4 DEF Device!Begin
  <2>2. Device!FirstStage(k, w) = "answer" => ~k.verified BY DEF Device!FirstStage
  <2>3. job'.read = None /\ job'.kind = k /\ job'.stage = Device!FirstStage(k, w)
    BY <2>1 DEF Device!Job
  <2> QED BY <2>1, <2>2, <2>3 DEF LookInv
<1>5. CASE Device!AnswerFromCache BY <1>5, LookAnswered DEF Device!AnswerFromCache
<1>6. CASE Device!Look
  BY <1>6 DEF Device!Look, LookInv, JobType, Jobs
<1>7. ASSUME NEW b, Device!SentFrom(b), job.stage = "fresh", UNCHANGED <<switch, holding>>
      PROVE LookInv'
  <2>1. job'.stage = "route" BY <1>7 DEF Device!SentFrom, Device!Job
  <2> QED BY <1>7, <2>1, LookPast
<1>8. CASE Device!FreshRead \/ Device!FreshReadFails
  BY <1>7, <1>8, LookAnswered DEF Device!FreshRead, Device!FreshReadFails, Device!Gone
<1>9. ASSUME NEW via \in {"advanced", "web"}, Device!Receipt(via), job.stage # "idle",
             UNCHANGED <<switch, holding>>
      PROVE  LookInv'
  <2>1. \/ Device!Answered("accepted")
        \/ job'.stage = "wait"
    BY <1>9, ReceiptTypes
  <2> QED BY <1>9, <2>1, LookAnswered, LookPast
<1>10. ASSUME NEW s \in {"native", "dom"}, job' = [job EXCEPT !.stage = s], job.stage # "idle",
              UNCHANGED <<switch, holding>>
       PROVE  LookInv'
  BY <1>10, LookPast DEF JobType, Jobs
<1>11. CASE Device!Advanced BY <1>9, <1>11, LookAnswered DEF Device!Advanced, Device!Fails
<1>12. CASE Device!TakeWebRoute BY <1>10, <1>12, LookAnswered DEF Device!TakeWebRoute, Device!Fails
<1>13. CASE Device!Native BY <1>9, <1>10, <1>13, LookAnswered DEF Device!Native, Device!Fails
<1>14. CASE Device!Dom BY <1>9, <1>14, LookAnswered DEF Device!Dom, Device!Fails
<1>15. CASE Device!Confirm \/ Device!Timeout
  BY <1>15, LookAnswered DEF Device!Confirm, Device!Timeout
<1>16. CASE Device!Reread BY <1>16, LookPast DEF Device!Reread, JobType, Jobs
<1>17. CASE Device!StaleRead
  <2>1. job.stage = "wait" /\ UNCHANGED <<switch, holding>> BY <1>17 DEF Device!StaleRead
  <2>2. \/ Device!Answered("accepted") \/ Device!Answered("confirmed")
        \/ job' = [job EXCEPT !.read = None]
    BY <1>17 DEF Device!StaleRead
  <2> QED BY <2>1, <2>2, LookAnswered, LookPast DEF JobType, Jobs
<1>18. CASE \/ (\E p \in Device!Places : Device!Moves(p)) \/ (\E o \in news : Device!Event(o))
            \/ Device!BackRead \/ Device!BackReadEnds \/ Device!BackYields
            \/ UNCHANGED Device!vars
  BY <1>18 DEF Device!Moves, Device!Event, Device!BackRead, Device!BackReadEnds,
     Device!BackYields, Device!vars, LookInv
<1> QED
  BY <1>2, <1>3, <1>4, <1>5, <1>6, <1>8, <1>11, <1>12, <1>13, <1>14, <1>15, <1>16, <1>17, <1>18
  DEF Device!Next

\* Reads that are no longer current stay so.
LEMMA BackPast ==
  ASSUME BackInv, back'.rounds = back.rounds /\ back'.n = back.n,
         back'.same = FALSE \/ (back'.same = back.same /\ (job.stage = "idle" => UNCHANGED job))
  PROVE  BackInv'
BY DEF BackInv

\* Every step leaves it so.
LEMMA BackStep ==
  ASSUME DeviceTypes, BackInv, [Device!Next]_(Device!vars)
  PROVE  BackInv'
<1>0. BackType /\ JobType BY DEF DeviceTypes
<1> USE <1>0 DEF Device!others
<1>1. ASSUME UNCHANGED <<back, job>> PROVE BackInv' BY <1>1 DEF BackInv
<1>2. ASSUME UNCHANGED back, job.stage # "idle" PROVE BackInv' BY <1>2 DEF BackInv
<1>3. ASSUME NEW o, Device!Accept(o), UNCHANGED job \/ job.stage # "idle" PROVE BackInv'
  BY <1>3 DEF Device!Accept, BackInv, BackType
<1>4. ASSUME NEW k \in Kinds, NEW w \in Device!Value, Device!Begin(k, w) PROVE BackInv'
  BY <1>4 DEF Device!Begin, BackInv, BackType
<1>5. CASE Device!StaleRead
  <2>1. CASE \E o : Device!Accept(o) BY <1>3, <1>5, <2>1 DEF Device!StaleRead
  <2>2. CASE Device!Answered("accepted") /\ back' = [n |-> job.n, read |-> None, rounds |-> 3,
     same |-> TRUE]
    <3>1. job'.n = job.n /\ job'.stage = "idle" BY <2>2 DEF Device!Answered, Device!Job
    <3> QED BY <2>2, <3>1 DEF BackInv
  <2> QED BY <1>5, <2>1, <2>2 DEF Device!StaleRead
<1>6. CASE Device!FreshRead BY <1>3, <1>6 DEF Device!FreshRead
<1>7. ASSUME NEW o \in news, Device!Event(o) PROVE BackInv' BY <1>3, <1>7 DEF Device!Event
<1>8. CASE Device!BackRead BY <1>8 DEF Device!BackRead, BackInv, BackType
<1>9. CASE Device!BackReadEnds BY <1>9 DEF Device!BackReadEnds, BackInv, BackType, Device!NoBack
<1>10. CASE Device!BackYields BY <1>10 DEF Device!BackYields, BackInv, Device!NoBack
<1>11. CASE \/ Device!AnswerFromCache \/ Device!Look \/ Device!FreshReadFails
            \/ Device!Advanced \/ Device!TakeWebRoute \/ Device!Native
            \/ Device!Dom \/ Device!Confirm \/ Device!Timeout \/ Device!Reread
  BY <1>2, <1>11 DEF Device!AnswerFromCache, Device!Look, Device!FreshReadFails, Device!Advanced,
     Device!TakeWebRoute, Device!Native, Device!Dom,
     Device!Confirm, Device!Timeout, Device!Reread
<1>12. CASE \/ Device!Turn \/ (\E o \in orders : Device!CarryOut(o))
            \/ (\E p \in Device!Places : Device!Moves(p))
            \/ UNCHANGED Device!vars
  BY <1>1, <1>12 DEF Device!Turn, Device!CarryOut, Device!Moves, Device!vars
<1> QED BY <1>4, <1>5, <1>6, <1>7, <1>8, <1>9, <1>10, <1>11, <1>12 DEF Device!Next

-----------------------------------------------------------------------------
\* It holds at the start.
LEMMA DeviceInvInit == Device!Init => DeviceInv
<1> SUFFICES ASSUME Device!Init PROVE DeviceInv
  OBVIOUS
<1>1. job = Device!NoJob /\ Device!NoJob \in Jobs /\ Device!NoJob.stage = "idle" /\ Device!NoJob.n = 0
  BY MadeJob DEF Device!Init, Device!NoJob, Device!Job, Device!Value, Device!Stages
<1>2. SwitchType BY DEF Device!Init, SwitchType, Device!Observation
<1>3. AnswerType BY DEF Device!Init, AnswerType
<1>4. BackType BY DEF Device!Init, BackType, Device!NoBack
<1>5. LeftInv BY <1>1, CommandsAssumption DEF Device!Init, LeftInv, Device!OnceAtMost, Unsent,
   Device!Outcomes
<1>6. LookInv BY <1>1 DEF LookInv
<1>7. BackInv BY DEF Device!Init, BackInv, Device!NoBack
<1>8. BoundInv
  BY <1>1, CommandsAssumption DEF Device!Init, BoundInv, Device!NoBack, Device!Places
<1> QED BY <1>1, <1>2, <1>3, <1>4, <1>5, <1>6, <1>7, <1>8 DEF DeviceInv, DeviceTypes, JobType

\* The inductive invariant.
LEMMA DeviceInvariant == Device!Spec => []DeviceInv
<1>1. DeviceInv /\ [Device!Next]_(Device!vars) => DeviceInv'
  BY DeviceTypeStep, BoundStep, LeftStep, LookStep, BackStep DEF DeviceInv
<1>2. Device!Init => DeviceInv
  BY DeviceInvInit
<1> QED BY <1>1, <1>2, PTL DEF Device!Spec

(* No command leaves the bridge twice, and what was answered at once, or not*)
(* found, never left: the routes of advanced-first-executor.ts and           *)
(* #executeDevice.                                                           *)
THEOREM CommandsLeaveOnce == Device!Spec => []Device!OnceAtMost
<1>1. DeviceInv => Device!OnceAtMost
  BY DEF DeviceInv, LeftInv
<1> QED BY DeviceInvariant, <1>1, PTL

(* A verified power command answered with "already" was so while it was      *)
(* looked at, and no read is made behind the answer of a command once a newer*)
(* one or a report came: the fresh read and commandStateRevision.            *)
THEOREM CommandReadsAreHonest == Device!Spec => Device!ReadsAreHonest
<1> DEFINE Already == \A n \in 1..MaxCommands :
             outcome[n] = None /\ outcome'[n] = "already" /\ job.kind.verified => job.want \in holding
           Old == back'.read # None /\ back.read = None
                  => back.n = job.n /\ (job.stage = "idle") /\ back.rounds > 0
<1>1. ASSUME DeviceInv, [Device!Next]_(Device!vars) PROVE Already
  <2>0. SwitchType /\ JobType /\ AnswerType BY <1>1 DEF DeviceInv, DeviceTypes
  <2>1. ASSUME NEW what \in Device!Outcomes, what # "already", Device!Answered(what) PROVE Already
    BY <2>0, <2>1, AnsweredTypes, CommandsAssumption DEF Device!Outcomes
  <2>2. ASSUME UNCHANGED outcome PROVE Already
    BY <2>2, CommandsAssumption DEF Device!Outcomes
  <2>3. ASSUME NEW via \in {"advanced", "web"}, Device!Receipt(via) PROVE Already
    BY <2>0, <2>1, <2>2, <2>3, ReceiptTypes DEF Device!Outcomes
  <2>4. CASE Device!AnswerFromCache BY <1>1, <2>4 DEF Device!AnswerFromCache, DeviceInv, LookInv
  <2>5. CASE Device!FreshRead
    <3>1. CASE job.read.value = job.want BY <1>1, <2>5, <3>1 DEF Device!FreshRead, DeviceInv,
       LookInv
    <3>2. CASE job.read.value # job.want
      BY <2>1, <2>2, <2>5, <3>2 DEF Device!FreshRead, Device!SentFrom, Device!Gone, Device!Outcomes
    <3> QED BY <3>1, <3>2
  <2>6. CASE Device!FreshReadFails BY <2>1, <2>2, <2>6 DEF Device!FreshReadFails, Device!SentFrom,
     Device!Gone, Device!Outcomes
  <2>7. CASE Device!Advanced BY <2>1, <2>3, <2>7 DEF Device!Advanced, Device!Fails, Device!Outcomes
  <2>8. CASE Device!TakeWebRoute BY <2>1, <2>2, <2>8 DEF Device!TakeWebRoute, Device!Fails,
     Device!Outcomes
  <2>9. CASE Device!Native BY <2>1, <2>2, <2>3, <2>9 DEF Device!Native, Device!Fails,
     Device!Outcomes
  <2>10. CASE Device!Dom BY <2>1, <2>3, <2>10 DEF Device!Dom, Device!Fails, Device!Outcomes
  <2>11. CASE Device!Confirm \/ Device!Timeout
    BY <2>1, <2>11 DEF Device!Confirm, Device!Timeout, Device!Outcomes
  <2>12. CASE Device!StaleRead BY <2>1, <2>2, <2>12 DEF Device!StaleRead, Device!Outcomes
  <2>13. CASE \/ Device!Turn \/ (\E o \in orders : Device!CarryOut(o))
              \/ (\E p \in Device!Places : Device!Moves(p))
              \/ (\E o \in news : Device!Event(o)) \/ (\E k \in Kinds,
                 w \in Device!Value : Device!Begin(k, w))
              \/ Device!Look \/ Device!Reread \/ Device!BackRead \/ Device!BackReadEnds
              \/ Device!BackYields \/ UNCHANGED Device!vars
    BY <2>2, <2>13 DEF Device!Turn, Device!CarryOut, Device!Moves, Device!Event, Device!Begin,
       Device!Look, Device!Reread, Device!BackRead, Device!BackReadEnds,
       Device!BackYields, Device!vars, Device!others
  <2> QED
    BY <1>1, <2>4, <2>5, <2>6, <2>7, <2>8, <2>9, <2>10, <2>11, <2>12, <2>13 DEF Device!Next
<1>2. ASSUME DeviceInv, [Device!Next]_(Device!vars) PROVE Old
  <2>0. BackType BY <1>2 DEF DeviceInv, DeviceTypes
  <2>1. ASSUME NEW o, Device!Accept(o) PROVE Old BY <2>0, <2>1 DEF Device!Accept, BackType
  <2>2. ASSUME back'.read = back.read \/ back'.read = None PROVE Old BY <2>2
  <2>3. CASE Device!BackRead BY <1>2, <2>3 DEF Device!BackRead, DeviceInv, BackInv
  <2>4. CASE Device!FreshRead \/ (\E o \in news : Device!Event(o))
    BY <2>1, <2>4 DEF Device!FreshRead, Device!Event
  <2>5. ASSUME NEW k \in Kinds, NEW w \in Device!Value, Device!Begin(k, w) PROVE Old
    BY <2>0, <2>2, <2>5 DEF Device!Begin, BackType
  <2>6. CASE Device!StaleRead
    <3>1. \/ \E o : Device!Accept(o)
          \/ back' = [n |-> job.n, read |-> None, rounds |-> 3, same |-> TRUE]
      BY <2>6 DEF Device!StaleRead
    <3> QED BY <2>1, <2>2, <3>1
  <2>7. CASE Device!BackReadEnds
    BY <2>0, <2>2, <2>7 DEF Device!BackReadEnds, Device!NoBack
  <2>8. CASE Device!BackYields BY <2>2, <2>8 DEF Device!BackYields, Device!NoBack
  <2>9. CASE \/ Device!Turn \/ (\E o \in orders : Device!CarryOut(o))
             \/ (\E p \in Device!Places : Device!Moves(p))
             \/ Device!AnswerFromCache \/ Device!Look \/ Device!FreshReadFails
             \/ Device!Advanced \/ Device!TakeWebRoute \/ Device!Native
             \/ Device!Dom \/ Device!Confirm \/ Device!Timeout \/ Device!Reread
             \/ UNCHANGED Device!vars
    BY <2>2, <2>9 DEF Device!Turn, Device!CarryOut, Device!Moves, Device!AnswerFromCache,
       Device!Look, Device!FreshReadFails, Device!Advanced,
       Device!TakeWebRoute, Device!Native, Device!Dom, Device!Confirm, Device!Timeout,
          Device!Reread, Device!vars, Device!others
  <2> QED BY <1>2, <2>3, <2>4, <2>5, <2>6, <2>7, <2>8, <2>9 DEF Device!Next
<1>3. Device!Spec => [][Device!Next]_(Device!vars)
  BY DEF Device!Spec
<1>4. DeviceInv /\ [Device!Next]_(Device!vars) => [Already]_(Device!vars) /\ [Old]_(Device!vars)
  BY <1>1, <1>2
<1>5. Device!Spec => [][Already]_(Device!vars) /\ [][Old]_(Device!vars)
  BY DeviceInvariant, <1>3, <1>4, PTL
<1> QED BY <1>5, PTL DEF Device!ReadsAreHonest, Device!AlreadyWasSo, Device!OldReadsStop

-----------------------------------------------------------------------------
(* The three together. *)

\* Each of them follows its own specification.
LEMMA WorldParts == WorldSpec => Spec /\ Device!Spec
<1>1. WorldInit => Init /\ Device!Init
  BY DEF WorldInit
<1>2. [WorldNext]_<<part, vars, lightVars, deviceVars>>
      => [Next]_vars /\ [Device!Next]_(Device!vars)
  BY DEF WorldNext, deviceVars, Device!vars
<1> QED BY <1>1, <1>2, PTL DEF WorldSpec, Spec, Device!Spec

(* In whichever way commands are executed, a single one leaves the bridge at*)
(* most once, and not at all when its answer says so: the composition that  *)
(* the run checks.                                                          *)
THEOREM SingleCommandsLeaveOnce == WorldSpec => []OnceAtMost
<1>1. DeviceInv => OnceAtMost
  BY DeviceTypeOK DEF OnceAtMost, DeviceInv, LeftInv
<1> QED BY WorldParts, DeviceInvariant, <1>1, PTL

(* There too "already" was so and no read is made behind an answer that a   *)
(* newer command or a report has overtaken.                                 *)
THEOREM SingleReadsAreHonest == WorldSpec => ReadsAreHonest
<1>1. Device!Spec => Device!ReadsAreHonest
  BY CommandReadsAreHonest
<1> QED BY WorldParts, <1>1, PTL DEF ReadsAreHonest

(* And so do the plans for several switches keep what they promise: no POST *)
(* is repeated that may have reached SmartThings, and every answer is true. *)
THEOREM PlansKeepTheirPromises == WorldSpec => []NeverReplayed /\ []AnswersAreTrue
BY WorldParts, PostsLeaveOnce, EveryAnswerIsTrue, PTL
=============================================================================
