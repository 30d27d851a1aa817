----------------------------- MODULE SerialLanes -----------------------------
(***************************************************************************)
(* What the command service promises about the commands of one target,    *)
(* without promise chains, timers, tails and abort controllers: accepted   *)
(* commands draw a ticket and wait in line, the one with the lowest ticket *)
(* has its turn when nobody is at work, a command can be turned away while *)
(* it waits or works, and every caller is given one answer.                *)
(***************************************************************************)
EXTENDS Naturals

CONSTANTS Call, Target, TargetOf, None, Answers

VARIABLES
  line,    \* target -> the commands that wait
  ticket,  \* command -> the number it drew
  drawn,   \* how many tickets were drawn
  active,  \* target -> the command at work, or None
  answer   \* command -> "pending" or the answer its caller has

vars == <<line, ticket, drawn, active, answer>>

Init ==
  /\ line = [t \in Target |-> {}]
  /\ ticket = [c \in Call |-> 0]
  /\ drawn = 0
  /\ active = [t \in Target |-> None]
  /\ answer = [c \in Call |-> "pending"]

InLine(c) == c \in line[TargetOf[c]]
Working(c) == active[TargetOf[c]] = c

(* The callers of a target who still wait for an answer. *)
Unanswered(t) ==
  {c \in Call : TargetOf[c] = t /\ answer[c] = "pending" /\ (InLine(c) \/ Working(c))}

(* Some of the callers of a target are given an answer, and nobody else. *)
Told(t, who) ==
  /\ who \subseteq Unanswered(t)
  /\ answer' \in [Call -> Answers \cup {"pending"}]
  /\ \A c \in Call : IF c \in who THEN answer'[c] \in Answers ELSE answer'[c] = answer[c]

(* The command whose turn it is: nobody works, and it drew the lowest. *)
IsNext(t, c) ==
  /\ active[t] = None /\ c \in line[t]
  /\ \A d \in line[t] : ticket[c] <= ticket[d]

(* A new command joins the line; it may turn away older ones. *)
Accept(c) ==
  LET t == TargetOf[c] IN
  /\ ~InLine(c) /\ ~Working(c) /\ answer[c] = "pending"
  /\ line' = [line EXCEPT ![t] = @ \cup {c}]
  /\ drawn' = drawn + 1 /\ ticket' = [ticket EXCEPT ![c] = drawn']
  /\ \E who \in SUBSET Unanswered(t) : Told(t, who)
  /\ UNCHANGED active

(* The next one starts, if its caller still waits. *)
Start(t, c) ==
  /\ IsNext(t, c) /\ answer[c] = "pending"
  /\ active' = [active EXCEPT ![t] = c]
  /\ line' = [line EXCEPT ![t] = @ \ {c}]
  /\ UNCHANGED <<ticket, drawn, answer>>

(* The next one leaves without starting; its caller has been told why. *)
Leave(t, c) ==
  /\ IsNext(t, c)
  /\ line' = [line EXCEPT ![t] = @ \ {c}]
  /\ \E who \in SUBSET {c} : Told(t, who)
  /\ answer'[c] # "pending"
  /\ UNCHANGED <<ticket, drawn, active>>

(* The command at work ends, and its caller has an answer. *)
End(t) ==
  /\ active[t] # None
  /\ \E who \in SUBSET {active[t]} : Told(t, who)
  /\ answer'[active[t]] # "pending"
  /\ active' = [active EXCEPT ![t] = None]
  /\ UNCHANGED <<line, ticket, drawn>>

(* A waiting caller is told something before its turn. *)
GiveUp(c) ==
  /\ InLine(c)
  /\ Told(TargetOf[c], {c})
  /\ UNCHANGED <<line, ticket, drawn, active>>

Next ==
  \/ \E c \in Call : Accept(c) \/ GiveUp(c)
  \/ \E t \in Target : End(t) \/ \E c \in Call : Start(t, c) \/ Leave(t, c)

Spec == Init /\ [][Next]_vars
=============================================================================
