-------------------------- MODULE OperationProofs -------------------------
(***************************************************************************)
(* Proofs about what goes on for days.                                     *)
(*                                                                         *)
(* KeeperPages: KeeperInv says for each activity what it holds and where   *)
(* it is.  A tab outside the keeper's role is in one use (PagesInv), the   *)
(* keeper that an activity began with is the keeper still or is closed     *)
(* (OrigInv), a probe in its last steps has its proof (ProofInv), and no   *)
(* navigation began on a sign-in page (NavInv).  The one exception is the  *)
(* keeper that a sign-in page has just replaced, which is closed next.     *)
(* BrowserRecovery: RecoveryInv says when a start may find a Chromium, and *)
(* that a load has read no more than there is.                             *)
(* SoakRun: SoakInv says that the log of a run that may still pass covers  *)
(* its time and hides no restart (Seen), by induction along the log, and   *)
(* that a working collector holds all of it.                               *)
(* CandidateDeployment: DeployInv says when the rollback archive is kept   *)
(* and what may still run late on the host.                                *)
(*                                                                         *)
(* Each part shows that every action keeps its invariant; the theorems     *)
(* follow.                                                                 *)
(***************************************************************************)
EXTENDS Operation, Integers, Sequences, FiniteSetTheorems, TLAPS

-----------------------------------------------------------------------------
(* KeeperPages: the inductive invariant. *)

(* The parts of TypeOK. *)
TabsType == url \in [Page -> Urls] /\ form \subseteq Page /\ proof \subseteq Page
RolesType ==
  /\ {keeper, stalled, command} \subseteq Page \cup {None}
  /\ commandPages \subseteq Page /\ authedOnce \in BOOLEAN
  /\ pending \in Unfinished \cup {None}
SignsType ==
  /\ session \in BOOLEAN /\ restored \in BOOLEAN /\ refreshDue \in BOOLEAN
  /\ {reauthSeen, loginSeen, attempt} \subseteq Ages
  /\ busy \in BOOLEAN /\ mishaps \in 0..MaxMishaps
Flights == [page : Page, was : Urls, answer : {"none", "ok", "reauth", "failed"}]
TouchType ==
  /\ touch = None \/ touch \in Flights
  /\ waiting \in [Waiter -> {"no", "now", "old"}]
ActsType ==
  /\ ensure \in Activities /\ refresh \in Activities /\ push \in Activities
  /\ beat \in {"rest", "ensure", "ensured", "touch", "refresh"}

LEMMA TypeParts == TypeOK <=> TabsType /\ RolesType /\ SignsType /\ TouchType /\ ActsType
BY DEF TypeOK, TabsType, RolesType, SignsType, TouchType, ActsType, Flights

LEMMA NextParts ==
  TabsType' /\ RolesType' /\ SignsType' /\ TouchType' /\ ActsType' => TypeOK'
BY DEF TypeOK, TabsType, RolesType, SignsType, TouchType, ActsType, Flights

Probings == {"opened", "going", "landed", "read", "native", "look", "replace"}
Probing(a) == a.pc \in Probings
PendingPage == IF pending = None THEN None ELSE pending.page
PendingOrig == IF pending = None THEN None ELSE pending.orig

(* An activity has a probe while it works in one; what a probe is for, and *)
(* when there can be no unfinished sign-in beside it.                      *)
ProbesInv ==
  /\ ensure.probe # None <=> Probing(ensure)
  /\ refresh.probe # None <=> Probing(refresh)
  /\ push.probe = None
  /\ Probing(ensure) => ensure.via \in {"login", "sso", "resume"}
  /\ refresh.pc \in Probings \cup {"rest"}
  /\ Probing(refresh) => refresh.via = "refresh" /\ refresh.was = "settled" /\ beat = "refresh"
  /\ Probing(ensure) /\ ensure.via = "resume" => ensure.probe = PendingPage
  /\ \/ ensure.pc \in {"inspect", "reload", "touch"}
     \/ Probing(ensure) /\ ensure.via # "resume"
     => pending = None

(* A tab that is kept out of the keeper's role is in one use, and a tab in *)
(* such a use is kept out of it.                                           *)
Accounted == commandPages \subseteq {ensure.probe, refresh.probe, command, PendingPage}
PagesInv ==
  /\ Accounted
  /\ {ensure.probe, refresh.probe, PendingPage, command} \subseteq commandPages \cup {None}
  /\ ensure.probe # None => ensure.probe \notin {refresh.probe, command}
  /\ refresh.probe # None => refresh.probe \notin {PendingPage, command}
  /\ command # None => command # PendingPage
  /\ ~busy => command = None
  /\ ~restored => commandPages = {} /\ beat = "rest"

(* The keeper that an activity began with is the keeper still, or closed,  *)
(* or about to be closed: a sign-in page has taken its place.              *)
OrigInv ==
  /\ \A a \in {ensure, refresh} : Probing(a) => a.orig # None /\ a.orig # a.probe
  /\ pending # None => PendingOrig # PendingPage
  /\ ensure.pc \in {"recover", "inspect", "reload", "touch", "goto", "close"} => ensure.orig # None
  /\ push.pc \in {"reload", "goto"} => push.orig # None
  /\ \A p \in {ensure.orig, refresh.orig, push.orig, PendingOrig} :
       p = None \/ p = keeper \/ url[p] = "closed" \/ (ensure.pc = "close" /\ p = ensure.orig)
  /\ ensure.pc = "create" => CurrentKeeper = None /\ restored

(* The unfinished sign-in is there while it is offered to the user, and    *)
(* the last look before a tab is replaced did not show a form in it.       *)
OfferInv ==
  /\ ensure.pc \in {"judge", "offer", "swap"} => pending # None
  /\ ensure.pc \in {"swap", "close", "replace"} => ensure.saw \in {"nothing", "missed"}

(* A probe's last steps follow its protected read; a form is a sign-in's.  *)
ProofInv ==
  /\ \A a \in {ensure, refresh} : a.pc \in {"native", "look", "replace"} => a.probe \in proof
  /\ ensure.pc \in {"look", "replace"} => ensure.via \in {"login", "resume"}
  /\ refresh.pc \notin {"look", "replace"}
OpenForms == \A p \in form : url[p] = "login"

(* A navigation of the keeper did not begin on a sign-in page, and is not  *)
(* crossed by another one.                                                 *)
Navigates(a) == a.pc \in {"reload", "goto"} /\ a.via # "lost"
NavInv ==
  /\ \A a \in {ensure, push} : Navigates(a) => url[a.orig] # "login" \/ a.orig \in commandPages
  /\ Navigates(ensure) /\ Navigates(push) => ensure.orig # push.orig

KeeperInv ==
  TypeOK /\ ProbesInv /\ PagesInv /\ OrigInv /\ OfferInv /\ ProofInv /\ OpenForms /\ NavInv

-----------------------------------------------------------------------------
(* What happens to tabs. *)

(* Only the tabs of S change.                                              *)
Moves(S) ==
  /\ TabsType' /\ TouchType' /\ OpenForms'
  /\ \A p \in Page \ S : url'[p] = url[p] /\ (p \in form' <=> p \in form)

LEMMA Showing ==
  ASSUME TabsType, TouchType, OpenForms, UNCHANGED waiting, NEW page \in Page,
         NEW u \in {"settled", "unsettled", "login"},
         NEW withForm \in BOOLEAN, withForm => u = "login", Shows(page, u, withForm)
  PROVE  Moves({page}) /\ url'[page] = u /\ proof' = proof
<1>1. url' = [url EXCEPT ![page] = u] /\ proof' = proof
  BY DEF Shows
<1>2. form' = IF withForm THEN form \cup {page} ELSE form \ {page}
  BY DEF Shows
<1>3. TouchType'
  BY DEF Shows, TouchType, TabsType, Flights
<1>4. TabsType' /\ url'[page] = u /\ \A p \in Page \ {page} : url'[p] = url[p]
  BY <1>1, <1>2 DEF TabsType, Urls
<1>5. OpenForms'
  BY <1>1, <1>2, <1>4 DEF OpenForms, TabsType
<1> QED BY <1>1, <1>2, <1>3, <1>4, <1>5 DEF Moves

LEMMA Landing ==
  ASSUME TabsType, TouchType, OpenForms, UNCHANGED waiting, NEW page \in Page, Lands(page)
  PROVE  Moves({page}) /\ url'[page] \in {"settled", "unsettled", "login"} /\ proof' = proof
<1>1. CASE Shows(page, "settled", FALSE)
  BY <1>1, Showing
<1>2. CASE Shows(page, "unsettled", FALSE)
  BY <1>2, Showing
<1>3. CASE \E withForm \in BOOLEAN : Shows(page, "login", withForm)
  BY <1>3, Showing
<1> QED BY <1>1, <1>2, <1>3 DEF Lands

LEMMA ClosingTabs ==
  ASSUME TabsType, TouchType, OpenForms, UNCHANGED waiting, NEW S, Closes(S)
  PROVE  /\ Moves(S) /\ \A p \in S \cap Page : url'[p] = "closed"
         /\ \A p \in proof : p \in {ensure.probe, refresh.probe} => p \in proof'
<1>1. url' = [p \in Page |-> IF p \in S THEN "closed" ELSE url[p]] /\ form' = form \ S
      /\ proof' = proof \ (S \ {ensure.probe, refresh.probe})
  BY DEF Closes, Closing
<1>2. TouchType'
  BY DEF Closes, TouchType, Flights
<1>3. TabsType' /\ \A p \in Page : url'[p] = IF p \in S THEN "closed" ELSE url[p]
  BY <1>1 DEF TabsType, Urls
<1>4. OpenForms'
  BY <1>1, <1>3 DEF OpenForms, TabsType
<1> QED BY <1>1, <1>2, <1>3, <1>4 DEF Moves

(* A free slot is held by nobody.                                          *)
LEMMA FreeTabs ==
  ASSUME NEW p \in Free
  PROVE  /\ p \in Page /\ url[p] = "closed"
         /\ p \notin {keeper, stalled, command, ensure.probe, ensure.orig, refresh.probe,
                      refresh.orig, push.probe, push.orig}
         /\ p # None => p \notin {PendingPage, PendingOrig}
BY DEF Free, PendingPage, PendingOrig

-----------------------------------------------------------------------------
(* Steps that leave tabs, roles and activities as they are. *)

held == <<url, form, proof, keeper, commandPages, ensure, refresh, push, beat, restored, busy,
          command>>

LEMMA Quiet ==
  ASSUME KeeperInv, TypeOK', UNCHANGED held, PendingPage' = PendingPage,
         PendingOrig' = PendingOrig, pending' = None <=> pending = None
  PROVE  KeeperInv'
<1> USE DEF held, Probing
<1>1. ProbesInv'
  BY DEF KeeperInv, ProbesInv
<1>2. PagesInv'
  BY DEF KeeperInv, PagesInv, Accounted
<1>3. OrigInv'
  BY DEF KeeperInv, OrigInv, CurrentKeeper
<1>4. OfferInv' /\ ProofInv' /\ OpenForms' /\ NavInv'
  BY DEF KeeperInv, OfferInv, ProofInv, OpenForms, NavInv, Navigates
<1> QED BY <1>1, <1>2, <1>3, <1>4 DEF KeeperInv

LEMMA NotedAge == ASSUME NEW age \in Ages PROVE Noted(age) \in Ages /\ Noted(age) # "no"
BY DEF Noted, Ages

LEMMA OlderType == ASSUME TouchType PROVE Older \in [Waiter -> {"no", "now", "old"}]
BY DEF Older, TouchType

(* The touch of a page. *)
LEMMA TouchingTypes ==
  ASSUME TypeOK, NEW w \in Waiter, Touches(w)
  PROVE  /\ TouchType' /\ {reauthSeen', loginSeen', attempt'} \subseteq Ages
         /\ authedOnce' \in BOOLEAN
<1> USE TypeParts DEF TabsType, RolesType, SignsType, TouchType
<1>1. CurrentKeeper # None => CurrentKeeper \in Page
  BY KeeperAssumption DEF CurrentKeeper
<1>2. CASE CurrentKeeper = None
  BY <1>2 DEF Touches, memory, flights
<1>3. CASE CurrentKeeper # None /\ url[CurrentKeeper] = "login"
  <2>1. /\ reauthSeen' = Noted(reauthSeen) /\ loginSeen' = Noted(loginSeen)
        /\ UNCHANGED <<attempt, flights, authedOnce>>
    BY <1>3 DEF Touches
  <2> QED BY <2>1, NotedAge DEF flights
<1>4. CASE CurrentKeeper # None /\ url[CurrentKeeper] = "settled"
  <2>1. StartTouch(w, CurrentKeeper) /\ UNCHANGED <<memory, authedOnce>>
    BY <1>4 DEF Touches
  <2>2. TouchType'
    <3>1. CASE UNCHANGED touch /\ waiting' = [waiting EXCEPT ![w] = "now"]
      BY <3>1
    <3>2. CASE /\ waiting' = [Older EXCEPT ![w] = "now"]
               /\ touch' = [page |-> CurrentKeeper, was |-> url[CurrentKeeper], answer |-> "none"]
      <4>1. touch' \in Flights
        BY <1>1, <1>4, <3>2 DEF Flights
      <4>2. waiting' \in [Waiter -> {"no", "now", "old"}]
        BY <3>2, OlderType
      <4> QED BY <4>1, <4>2
    <3> QED BY <2>1, <3>1, <3>2 DEF StartTouch
  <2> QED BY <2>1, <2>2 DEF memory
<1>5. CASE CurrentKeeper # None /\ url[CurrentKeeper] \notin {"login", "settled"}
  BY <1>5 DEF Touches, memory, flights
<1> QED BY <1>2, <1>3, <1>4, <1>5

LEMMA TouchAnswering == ASSUME KeeperInv, TouchAnswers PROVE KeeperInv'
<1>1. TypeOK
  BY DEF KeeperInv
<1>2. PICK a \in Reads(touch.page) : touch' = [touch EXCEPT !.answer = a]
  BY DEF TouchAnswers
<1>3. a \in {"ok", "reauth", "failed"}
  BY <1>2 DEF Reads
<1>4. TouchType'
  BY <1>1, <1>2, <1>3, TypeParts DEF TouchAnswers, TouchType, Flights
<1>5. UNCHANGED <<tabs, roles, memory, waiting, ensure, refresh, push, beat, others>>
  BY DEF TouchAnswers
<1> USE <1>5 DEF tabs, roles, memory, others
<1>6. TypeOK'
  BY <1>1, <1>4, TypeParts, NextParts DEF TabsType, RolesType, SignsType, ActsType
<1> QED BY <1>6, Quiet DEF held, PendingPage, PendingOrig

LEMMA TouchEnding == ASSUME KeeperInv, TouchEnds \/ \E w \in Waiter : OldTouchEnds(w)
        PROVE KeeperInv'
<1>1. TypeOK
  BY DEF KeeperInv
<1>2. /\ UNCHANGED <<tabs, keeper, commandPages, pending, stalled, ensure, refresh, push, beat,
                     others>>
      /\ {reauthSeen', loginSeen', attempt'} \subseteq Ages /\ authedOnce' \in BOOLEAN
      /\ TouchType'
  <2>1. CASE TouchEnds
    <3>1. {reauthSeen', loginSeen', attempt'} \subseteq Ages /\ authedOnce' \in BOOLEAN
      <4>1. CASE UNCHANGED <<memory, authedOnce>>
        BY <1>1, <4>1, TypeParts DEF memory, SignsType, RolesType
      <4>2. CASE ClearRecovery /\ authedOnce' = TRUE
        BY <4>2 DEF ClearRecovery, Ages
      <4>3. CASE reauthSeen' = Noted(reauthSeen) /\ UNCHANGED <<loginSeen, attempt, authedOnce>>
        BY <1>1, <4>3, TypeParts, NotedAge DEF SignsType, RolesType
      <4> QED BY <2>1, <4>1, <4>2, <4>3 DEF TouchEnds, Observes
    <3>2. TouchType'
      BY <1>1, <2>1, TypeParts DEF TouchEnds, TouchType
    <3> QED BY <2>1, <3>1, <3>2 DEF TouchEnds
  <2>2. CASE \E w \in Waiter : OldTouchEnds(w)
    BY <1>1, <2>2, TypeParts DEF OldTouchEnds, TouchType, SignsType, RolesType, roles, memory
  <2> QED BY <2>1, <2>2
<1> USE <1>2 DEF tabs, others
<1>3. TypeOK'
  BY <1>1, TypeParts, NextParts DEF TabsType, RolesType, SignsType, ActsType
<1> QED BY <1>3, Quiet DEF held, PendingPage, PendingOrig

LEMMA Reporting == ASSUME KeeperInv, ReportAuthenticationFailure PROVE KeeperInv'
<1>1. TypeOK
  BY DEF KeeperInv
<1>2. UNCHANGED <<tabs, roles, loginSeen, attempt, ensure, refresh, push, beat, others>>
  BY DEF ReportAuthenticationFailure
<1>3. TouchType' /\ reauthSeen' \in Ages
  BY <1>1, TypeParts, OlderType DEF ReportAuthenticationFailure, TouchType, Ages
<1> USE <1>2 DEF tabs, roles, others
<1>4. TypeOK'
  BY <1>1, <1>3, TypeParts, NextParts DEF TabsType, RolesType, SignsType, ActsType
<1> QED BY <1>4, Quiet DEF held, PendingPage, PendingOrig

LEMMA Passing == ASSUME KeeperInv, TimePasses PROVE KeeperInv'
<1>1. TypeOK
  BY DEF KeeperInv
<1>2. UNCHANGED <<tabs, keeper, commandPages, stalled, authedOnce, flights, ensure, refresh,
                  push, beat, session, restored, busy, command, mishaps>>
  BY DEF TimePasses
<1>3. /\ {reauthSeen', loginSeen', attempt'} \subseteq Ages /\ refreshDue' \in BOOLEAN
      /\ \/ pending' = pending
         \/ /\ pending # None
            /\ pending' = [page |-> pending.page, orig |-> pending.orig, was |-> pending.was,
                           age |-> "due"]
  BY <1>1, TypeParts DEF TimePasses, memory, SignsType, Ages
<1> USE <1>2 DEF tabs, flights
<1>4. /\ pending' \in Unfinished \cup {None}
      /\ PendingPage' = PendingPage /\ PendingOrig' = PendingOrig
              /\ (pending' = None <=> pending = None)
  BY <1>1, <1>3, TypeParts, KeeperAssumption DEF RolesType, Unfinished, PendingPage, PendingOrig,
          Ages
<1>5. TypeOK'
  BY <1>1, <1>3, <1>4, TypeParts, NextParts DEF TabsType, RolesType, SignsType, ActsType, TouchType
<1> QED BY <1>4, <1>5, Quiet DEF held

LEMMA SessionChanging == ASSUME KeeperInv, SessionChanges PROVE KeeperInv'
<1>1. TypeOK
  BY DEF KeeperInv
<1>2. UNCHANGED <<tabs, roles, memory, flights, activities, restored, refreshDue, busy, command>>
      /\ session' \in BOOLEAN
  BY DEF SessionChanges
<1>3. mishaps' \in 0..MaxMishaps
  BY <1>1, KeeperAssumption, TypeParts DEF SessionChanges, Mishap, SignsType
<1> USE <1>2 DEF tabs, roles, memory, flights, activities
<1>4. TypeOK'
  BY <1>1, <1>3, TypeParts, NextParts DEF TabsType, RolesType, SignsType, ActsType, TouchType
<1> QED BY <1>4, Quiet DEF held, PendingPage, PendingOrig

-----------------------------------------------------------------------------
(* Steps of the activities that leave tabs and roles as they are. *)

(* An activity between probes.                                             *)
Idle(a) == a.probe = None /\ ~Probing(a)
Clear(a, b) == Navigates(b) => url[b.orig] # "login" \/ (Navigates(a) /\ a.orig = b.orig)

rolesHeld == <<url, form, proof, keeper, commandPages, pending, busy, restored, command>>

LEMMA EnsureMoves ==
  ASSUME KeeperInv, TypeOK', UNCHANGED <<rolesHeld, refresh>>,
         beat' = beat \/ (beat # "refresh" /\ (restored \/ beat' = "rest")),
         ensure' = ensure \/ (Idle(ensure) /\ Idle(ensure')),
         \/ ensure' = ensure
         \/ /\ ensure.pc # "close"
            /\ OfferInv' \/ ensure'.pc \notin {"judge", "offer", "swap", "close", "replace"},
         ensure'.orig \in {None, ensure.orig, CurrentKeeper},
         ensure'.pc \in {"recover", "inspect", "reload", "touch", "goto", "close"} => ensure'.orig # None,
         ensure'.pc \in {"inspect", "reload", "touch"} => pending = None,
         ensure'.pc = "create" => CurrentKeeper = None /\ restored,
         push'.probe = None, push'.orig \in {None, push.orig, CurrentKeeper},
         push'.pc \in {"reload", "goto"} => push'.orig # None,
         Clear(ensure, ensure'), Clear(push, push'),
         Navigates(ensure') /\ Navigates(push') => ensure'.orig # push'.orig
  PROVE  KeeperInv'
<1> USE DEF rolesHeld, Idle
<1>1. ProbesInv'
  BY DEF KeeperInv, ProbesInv, Probing, Probings, PendingPage
<1>2. PagesInv'
  BY DEF KeeperInv, PagesInv, Accounted, PendingPage, ProbesInv
<1>3. OrigInv'
  <2>1. CurrentKeeper' = CurrentKeeper /\ CurrentKeeper \in {None, keeper}
    BY DEF CurrentKeeper
  <2>2. PendingOrig' = PendingOrig /\ PendingPage' = PendingPage
    BY DEF PendingOrig, PendingPage
  <2>3. \A a \in {ensure', refresh'} : Probing(a) => a.orig # None /\ a.orig # a.probe
    BY DEF KeeperInv, OrigInv
  <2>4. \A p \in {ensure'.orig, refresh'.orig, push'.orig, PendingOrig'} :
          \/ p = None \/ p = keeper' \/ url'[p] = "closed"
          \/ ensure'.pc = "close" /\ p = ensure'.orig
    BY <2>1, <2>2 DEF KeeperInv, OrigInv
  <2> QED BY <2>1, <2>2, <2>3, <2>4 DEF KeeperInv, OrigInv, Probing
<1>4. ProofInv' /\ OpenForms'
  BY DEF KeeperInv, ProofInv, OpenForms, Probing, Probings
<1>5. NavInv'
  BY DEF KeeperInv, NavInv, Navigates, Clear
<1>6. OfferInv'
  BY DEF KeeperInv, OfferInv
<1> QED BY <1>1, <1>2, <1>3, <1>4, <1>5, <1>6 DEF KeeperInv

LEMMA RestAct == Rest \in Activities /\ Idle(Rest) /\ ~Navigates(Rest) /\ Rest.orig = None
BY DEF Rest, Activities, Idle, Probing, Probings, Navigates, Urls

\* Pages are no None, and the keeper is one of them or None.
LEMMA KeeperPage ==
  ASSUME TypeOK
  PROVE  /\ CurrentKeeper \in Page \cup {None} /\ CurrentKeeper \in {None, keeper}
         /\ CurrentKeeper # None => url[CurrentKeeper] # "closed"
BY TypeParts DEF CurrentKeeper, RolesType

LEMMA Interruption ==
  ASSUME NEW a \in Activities, NEW k
  PROVE  /\ Interrupted(a, k) \in Activities
         /\ Interrupted(a, k).pc = a.pc /\ Interrupted(a, k).probe = a.probe
         /\ Interrupted(a, k).orig = a.orig
         /\ Navigates(Interrupted(a, k)) => Navigates(a) /\ a.orig # k
BY DEF Interrupted, Activities, Navigates

LEMMA ReloadedTouch == ASSUME KeeperInv, TouchReloaded PROVE KeeperInv'
<1>1. TypeOK /\ ensure \in Activities /\ ensure.pc = "touch" /\ restored
  BY TypeParts DEF KeeperInv, TouchReloaded, At, ActsType
<1>2. /\ UNCHANGED <<tabs, keeper, commandPages, pending, stalled, refresh, push, beat, others>>
      /\ ensure' = [ensure EXCEPT !.via = "sso"] /\ Touches("ensure")
  BY DEF TouchReloaded
<1>3. /\ ensure' \in Activities /\ ensure'.pc = "touch" /\ ensure'.orig = ensure.orig
      /\ ensure'.probe = ensure.probe
  BY <1>1, <1>2 DEF Activities
<1>4. TouchType' /\ {reauthSeen', loginSeen', attempt'} \subseteq Ages /\ authedOnce' \in BOOLEAN
  BY <1>1, <1>2, TouchingTypes DEF Waiter
<1> USE <1>2 DEF tabs, others
<1>5. TypeOK'
  BY <1>1, <1>3, <1>4, TypeParts, NextParts DEF TabsType, RolesType, SignsType, ActsType
<1>6. Idle(ensure) /\ Idle(ensure')
  BY <1>1, <1>3 DEF KeeperInv, ProbesInv, Idle, Probing, Probings
<1>7. Clear(ensure, ensure') /\ Clear(push, push') /\ ~Navigates(ensure')
  BY <1>1, <1>3 DEF Clear, Navigates
<1> HIDE <1>2
<1> QED BY <1>1, <1>2, <1>3, <1>5, <1>6, <1>7, EnsureMoves
        DEF KeeperInv, ProbesInv, OrigInv, rolesHeld

LEMMA FinalStep == ASSUME KeeperInv, Final PROVE KeeperInv'
<1>1. TypeOK /\ ensure \in Activities /\ push \in Activities /\ ensure.pc = "final" /\ restored
  BY TypeParts DEF KeeperInv, Final, At, ActsType
<1>2. UNCHANGED <<tabs, roles, reauthSeen, attempt, refresh, others>>
  BY DEF Final
<1>3. \/ EnsureDone /\ UNCHANGED flights /\ loginSeen' \in {loginSeen, "no", Noted(loginSeen)}
      \/ /\ CurrentKeeper # None /\ url[CurrentKeeper] # "login"
         /\ ensure' = [Rest EXCEPT !.pc = "goto", !.orig = CurrentKeeper]
         /\ touch' = None /\ waiting' = Older
         /\ push' = Interrupted(push, CurrentKeeper) /\ UNCHANGED <<loginSeen, beat>>
  BY DEF Final
<1>4. CurrentKeeper \in Page \cup {None} /\ CurrentKeeper \in {None, keeper}
  BY <1>1, KeeperPage
<1>5. Idle(ensure)
  BY <1>1 DEF KeeperInv, ProbesInv, Idle, Probing, Probings
<1>6. /\ TouchType' /\ loginSeen' \in Ages
      /\ beat' = beat \/ (beat # "refresh" /\ (restored \/ beat' = "rest"))
      /\ beat' \in {"rest", "ensure", "ensured", "touch", "refresh"}
  BY <1>1, <1>3, TypeParts, OlderType, NotedAge
     DEF EnsureDone, TouchType, SignsType, Ages, flights, ActsType
<1>7. /\ ensure' \in Activities /\ Idle(ensure') /\ ensure'.orig \in {None, CurrentKeeper}
      /\ ensure'.pc \in {"rest", "goto"} /\ (ensure'.pc = "goto" => ensure'.orig # None)
      /\ Clear(ensure, ensure')
      /\ push' \in Activities /\ push'.probe = push.probe /\ push'.orig = push.orig
      /\ (push'.pc \in {"reload", "goto"} => push.pc = push'.pc) /\ Clear(push, push')
      /\ ~(Navigates(ensure') /\ Navigates(push') /\ ensure'.orig = push'.orig)
  <2>1. CASE EnsureDone
    <3>1. ensure' = Rest /\ push' = IF push.pc = "ensure" THEN [push EXCEPT !.pc = "ensured"]
            ELSE push
      BY <2>1 DEF EnsureDone
    <3>2. /\ push' \in Activities /\ push'.probe = push.probe /\ push'.orig = push.orig
          /\ (push'.pc \in {"reload", "goto"} => push.pc = push'.pc) /\ Clear(push, push')
      BY <1>1, <3>1 DEF Activities, Clear, Navigates
    <3>3. Rest.pc = "rest"
      BY DEF Rest
    <3> QED BY <3>1, <3>2, <3>3, RestAct DEF Clear
  <2>2. CASE /\ CurrentKeeper # None /\ url[CurrentKeeper] # "login"
             /\ ensure' = [Rest EXCEPT !.pc = "goto", !.orig = CurrentKeeper]
             /\ push' = Interrupted(push, CurrentKeeper)
    <3>1. /\ ensure' \in Activities /\ ensure'.pc = "goto" /\ ensure'.orig = CurrentKeeper
          /\ ensure'.probe = None
      BY <1>4, <2>2 DEF Rest, Activities, Urls
    <3>2. Idle(ensure')
      BY <3>1 DEF Idle, Probing, Probings
    <3> QED BY <1>1, <2>2, <3>1, <3>2, Interruption DEF Clear
  <2> QED BY <1>3, <2>1, <2>2
<1> USE <1>2 DEF tabs, roles, others
<1>8. TypeOK'
  BY <1>1, <1>6, <1>7, TypeParts, NextParts DEF TabsType, RolesType, SignsType, ActsType
<1> HIDE <1>2
<1> QED BY <1>1, <1>2, <1>5, <1>6, <1>7, <1>8, EnsureMoves
        DEF KeeperInv, ProbesInv, OrigInv, rolesHeld

\* Somebody asks for ensure.
LEMMA EnsureStarts ==
  ASSUME KeeperInv, StartsEnsure
  PROVE  /\ ensure' \in Activities /\ ensure'.orig = ensure.orig
         /\ ensure' = ensure \/ (Idle(ensure) /\ Idle(ensure'))
         /\ ensure' = ensure \/ (ensure.pc = "rest" /\ ensure'.pc = "resume")
         /\ Clear(ensure, ensure') /\ (Navigates(ensure') => ensure' = ensure)
<1>1. ensure \in Activities
  BY TypeParts DEF KeeperInv, ActsType
<1>2. CASE ensure.pc = "rest" /\ ensure' = [ensure EXCEPT !.pc = "resume"]
  <2>1. ensure' \in Activities /\ ensure'.pc = "resume" /\ ensure'.probe = ensure.probe
        /\ ensure'.orig = ensure.orig
    BY <1>1, <1>2 DEF Activities
  <2> QED BY <1>2, <2>1 DEF KeeperInv, ProbesInv, Idle, Probing, Probings, Clear, Navigates
<1>3. CASE ensure' = ensure
  BY <1>1, <1>3 DEF Clear
<1> QED BY <1>2, <1>3 DEF StartsEnsure, Go

LEMMA Asking == ASSUME KeeperInv, RecoverKeeper \/ BeatStarts PROVE KeeperInv'
<1>1. TypeOK /\ push \in Activities /\ restored /\ StartsEnsure
  BY TypeParts DEF KeeperInv, RecoverKeeper, BeatStarts, ActsType
<1>2. UNCHANGED <<tabs, roles, memory, flights, refresh, others>>
  BY DEF RecoverKeeper, BeatStarts
<1>3. /\ beat' \in {"rest", "ensure", "ensured", "touch", "refresh"}
      /\ beat' = beat \/ beat # "refresh"
      /\ push' = push \/ (push.pc = "rest" /\ push' = [push EXCEPT !.pc = "ensure"])
  BY <1>1, TypeParts DEF RecoverKeeper, BeatStarts, ActsType
<1>4. /\ push' \in Activities /\ push'.probe = push.probe /\ push'.orig = push.orig
      /\ push' = push \/ push'.pc = "ensure"
  BY <1>1, <1>3 DEF Activities
<1>5. /\ ensure' \in Activities /\ ensure'.orig = ensure.orig
      /\ ensure' = ensure \/ (Idle(ensure) /\ Idle(ensure'))
      /\ ensure' = ensure \/ (ensure.pc = "rest" /\ ensure'.pc = "resume")
      /\ Clear(ensure, ensure') /\ (Navigates(ensure') => ensure' = ensure)
  BY <1>1, EnsureStarts
<1>6. Clear(push, push') /\ (Navigates(push') => push' = push)
  BY <1>4 DEF Clear, Navigates
<1>7. ~(Navigates(ensure') /\ Navigates(push') /\ ensure'.orig = push'.orig)
  BY <1>5, <1>6 DEF KeeperInv, NavInv
<1> USE <1>2 DEF tabs, roles, others, memory, flights
<1>8. TypeOK'
  BY <1>1, <1>3, <1>4, <1>5, TypeParts, NextParts DEF TabsType, RolesType, SignsType, ActsType,
          TouchType
<1> HIDE <1>2
<1>9. /\ push'.probe = None /\ (push'.pc \in {"reload", "goto"} => push'.orig # None)
      /\ ensure'.pc \in {"inspect", "reload", "touch"} => pending = None
      /\ ensure'.pc \in {"recover", "inspect", "reload", "touch", "goto", "close"} => ensure'.orig # None
      /\ ensure'.pc = "create" => CurrentKeeper = None /\ restored
  BY <1>4, <1>5 DEF KeeperInv, ProbesInv, OrigInv
<1> QED BY <1>1, <1>2, <1>3, <1>4, <1>5, <1>6, <1>7, <1>8, <1>9, EnsureMoves DEF rolesHeld

LEMMA BeatTouching == ASSUME KeeperInv, BeatTouches PROVE KeeperInv'
<1>1. TypeOK /\ beat = "ensured" /\ beat' = "touch"
      /\ UNCHANGED <<tabs, keeper, commandPages, pending, stalled, ensure, refresh, push, others>>
  BY DEF KeeperInv, BeatTouches
<1>2. TouchType' /\ {reauthSeen', loginSeen', attempt'} \subseteq Ages /\ authedOnce' \in BOOLEAN
  <2>1. CASE Touches("beat")
    BY <1>1, <2>1, TouchingTypes DEF Waiter
  <2>2. CASE UNCHANGED <<memory, flights, authedOnce>>
    BY <1>1, <2>2, TypeParts DEF memory, flights, TouchType, SignsType, RolesType
  <2> QED BY <2>1, <2>2 DEF BeatTouches
<1> USE <1>1 DEF tabs, others
<1>3. TypeOK'
  BY <1>2, TypeParts, NextParts DEF TabsType, RolesType, SignsType, ActsType
<1> HIDE <1>1
<1>4. restored
  BY <1>1 DEF KeeperInv, PagesInv
<1>5. /\ push.probe = None /\ (push.pc \in {"reload", "goto"} => push.orig # None)
      /\ ensure.pc \in {"inspect", "reload", "touch"} => pending = None
      /\ ensure.pc \in {"recover", "inspect", "reload", "touch", "goto", "close"} => ensure.orig # None
      /\ ensure.pc = "create" => CurrentKeeper = None /\ restored
      /\ Clear(ensure, ensure) /\ Clear(push, push)
      /\ ~(Navigates(ensure) /\ Navigates(push) /\ ensure.orig = push.orig)
  BY DEF KeeperInv, ProbesInv, OrigInv, NavInv, Clear
<1>6. UNCHANGED <<rolesHeld, refresh, ensure, push>>
  BY <1>1 DEF rolesHeld, tabs, others
<1> QED BY <1>1, <1>3, <1>4, <1>5, <1>6, EnsureMoves

LEMMA PushGoing == ASSUME KeeperInv, PushGoes PROVE KeeperInv'
<1>1. TypeOK /\ ensure \in Activities /\ push \in Activities /\ push.pc = "ensured"
  BY TypeParts DEF KeeperInv, PushGoes, ActsType
<1>2. UNCHANGED <<tabs, roles, memory, refresh, beat, others>>
  BY DEF PushGoes
<1>3. \/ push' = Rest /\ UNCHANGED <<flights, ensure>>
      \/ /\ CurrentKeeper # None /\ url[CurrentKeeper] # "login"
         /\ push' = [Rest EXCEPT !.pc = "goto", !.orig = CurrentKeeper]
         /\ ensure' = Interrupted(ensure, CurrentKeeper)
         /\ touch' = None /\ waiting' = Older
  BY DEF PushGoes
<1>4. CurrentKeeper \in Page \cup {None}
  BY <1>1, KeeperPage
<1>5. TouchType'
  BY <1>1, <1>3, TypeParts, OlderType DEF TouchType, flights
<1>6. /\ push' \in Activities /\ push'.probe = None /\ push'.orig \in {None, CurrentKeeper}
      /\ push'.pc \in {"reload", "goto"} => push'.orig # None
      /\ Clear(push, push') /\ Clear(ensure, ensure')
      /\ ensure' \in Activities /\ ensure'.pc = ensure.pc /\ ensure'.probe = ensure.probe
      /\ ensure'.orig = ensure.orig /\ (ensure' = ensure \/ (Idle(ensure) /\ Idle(ensure')))
      /\ ensure' = ensure \/ ensure'.pc \in {"reload", "goto"}
      /\ ~(Navigates(ensure') /\ Navigates(push') /\ ensure'.orig = push'.orig)
  <2>1. CASE push' = Rest /\ UNCHANGED ensure
    <3>1. Rest.pc = "rest" /\ Rest.probe = None
      BY DEF Rest
    <3> QED BY <1>1, <2>1, <3>1, RestAct DEF Clear
  <2>2. CASE /\ CurrentKeeper # None /\ url[CurrentKeeper] # "login"
             /\ push' = [Rest EXCEPT !.pc = "goto", !.orig = CurrentKeeper]
             /\ ensure' = Interrupted(ensure, CurrentKeeper)
    <3>1. push' \in Activities /\ push'.pc = "goto" /\ push'.orig = CurrentKeeper
            /\ push'.probe = None
      BY <1>4, <2>2 DEF Rest, Activities, Urls
    <3>2. /\ ensure' = ensure \/ (Idle(ensure) /\ Idle(ensure'))
          /\ ensure' = ensure \/ ensure'.pc \in {"reload", "goto"}
      <4>1. ensure.pc \in {"reload", "goto"} => ensure.probe = None
        BY DEF KeeperInv, ProbesInv, Probing, Probings
      <4> QED BY <1>1, <2>2, <4>1, Interruption DEF Interrupted, Idle, Probing, Probings
    <3> QED BY <1>1, <2>2, <3>1, <3>2, Interruption DEF Clear
  <2> QED BY <1>3, <2>1, <2>2
<1> USE <1>2 DEF tabs, roles, others, memory
<1>7. TypeOK'
  BY <1>1, <1>5, <1>6, TypeParts, NextParts DEF TabsType, RolesType, SignsType, ActsType
<1> HIDE <1>2
<1>8. /\ ensure'.pc \in {"inspect", "reload", "touch"} => pending = None
      /\ ensure'.pc \in {"recover", "inspect", "reload", "touch", "goto", "close"} => ensure'.orig # None
      /\ ensure'.pc = "create" => CurrentKeeper = None /\ restored
  BY <1>6 DEF KeeperInv, ProbesInv, OrigInv
<1> QED BY <1>2, <1>6, <1>7, <1>8, EnsureMoves DEF rolesHeld

LEMMA Recovering == ASSUME KeeperInv, Recover PROVE KeeperInv'
<1> DEFINE k == ensure.orig
<1>1. TypeOK /\ ensure \in Activities /\ push \in Activities /\ ensure.pc = "recover" /\ restored
  BY TypeParts DEF KeeperInv, Recover, At, ActsType
<1>2. UNCHANGED <<tabs, keeper, commandPages, pending, authedOnce, refresh, beat, others>>
  BY DEF Recover
<1>3. k \in Page /\ url[k] \in Urls
  BY <1>1, TypeParts DEF KeeperInv, OrigInv, Activities, TabsType
<1>4. /\ stalled' \in {stalled, None} /\ reauthSeen' = reauthSeen
      /\ loginSeen' \in {loginSeen, Noted(loginSeen)} /\ attempt' \in {attempt, "early"}
      /\ flights' = flights \/ (touch' = None /\ waiting' = Older)
      /\ \/ Go("final") /\ push' = push
         \/ /\ ensure' = [pc |-> "inspect", via |-> "login", probe |-> None, orig |-> k,
                          was |-> "login", saw |-> "none"]
            /\ pending = None /\ push' = push
         \/ pending = None /\ url[k] # "login" /\ Go("reload") /\ push' = Interrupted(push, k)
  BY DEF Recover, RecoveryBlocked, memory
<1>5. TouchType'
  BY <1>1, <1>4, TypeParts, OlderType DEF TouchType, flights
<1>6. stalled' \in Page \cup {None} /\ {reauthSeen', loginSeen', attempt'} \subseteq Ages
  BY <1>1, <1>4, TypeParts, NotedAge DEF RolesType, SignsType, Ages
<1>7. Idle(ensure)
  BY <1>1 DEF KeeperInv, ProbesInv, Idle, Probing, Probings
<1>8. /\ ensure' \in Activities /\ ensure'.pc \in {"final", "inspect", "reload"}
      /\ ensure'.probe = None /\ ensure'.orig = k
      /\ ensure'.pc \in {"inspect", "reload"} => pending = None
      /\ Navigates(ensure') => url[k] # "login" /\ push' = Interrupted(push, k)
  <2>1. CASE Go("final")
    BY <1>1, <1>7, <2>1 DEF Go, Activities, Idle, Navigates
  <2>2. CASE Go("reload") /\ pending = None /\ url[k] # "login" /\ push' = Interrupted(push, k)
    BY <1>1, <1>7, <2>2 DEF Go, Activities, Idle
  <2>3. CASE /\ ensure' = [pc |-> "inspect", via |-> "login", probe |-> None, orig |-> k,
                           was |-> "login", saw |-> "none"]
             /\ pending = None
    BY <1>3, <2>3 DEF Activities, Urls, Navigates
  <2> QED BY <1>4, <2>1, <2>2, <2>3
<1>9. Idle(ensure') /\ Clear(ensure, ensure') /\ ensure'.orig # None
  BY <1>3, <1>8, KeeperAssumption DEF Idle, Probing, Probings, Clear
<1>10. /\ push' \in Activities /\ push'.pc = push.pc /\ push'.probe = push.probe
       /\ push'.orig = push.orig /\ Clear(push, push')
       /\ ~(Navigates(ensure') /\ Navigates(push') /\ ensure'.orig = push'.orig)
  BY <1>1, <1>4, <1>8, Interruption DEF Clear
<1> USE <1>2 DEF tabs, others
<1>11. TypeOK'
  BY <1>1, <1>5, <1>6, <1>8, <1>10, TypeParts, NextParts DEF TabsType, RolesType, SignsType,
          ActsType
<1> HIDE <1>2
<1>12. UNCHANGED <<rolesHeld, refresh, beat>>
  BY <1>2 DEF rolesHeld, tabs, others
<1>13. push'.probe = None /\ (push'.pc \in {"reload", "goto"} => push'.orig # None)
       /\ push'.orig \in {None, push.orig, CurrentKeeper}
  BY <1>10 DEF KeeperInv, ProbesInv, OrigInv
<1> QED BY <1>1, <1>7, <1>8, <1>9, <1>10, <1>11, <1>12, <1>13, EnsureMoves

-----------------------------------------------------------------------------
(* Tabs that move, by themselves or by the hand of the user. *)

LEMMA PagesHeld ==
  ASSUME PagesInv,
         UNCHANGED <<commandPages, pending, ensure, refresh, beat, restored, busy, command>>
  PROVE  PagesInv'
BY DEF PagesInv, Accounted, PendingPage

LEMMA TabsMove ==
  ASSUME KeeperInv, TypeOK', NEW S, Moves(S), PagesInv',
         UNCHANGED <<keeper, pending, ensure, refresh, push, beat, restored>>,
         \A p \in commandPages \ commandPages' : url'[p] # "login",
         \A p \in S \cap Page :
           \/ url'[p] = "closed" \/ url'[p] = url[p] \/ p \in Free
           \/ url[p] # "closed" /\ (p \notin Navigated \/ url'[p] # "login"),
         \A p \in proof : p \in {ensure.probe, refresh.probe} => p \in proof'
  PROVE  KeeperInv'
<1>1. TypeOK
  BY DEF KeeperInv
<1>2. ProbesInv'
  BY DEF KeeperInv, ProbesInv, PendingPage, Probing
<1>3. \A p \in {ensure.orig, refresh.orig, push.orig, PendingOrig, keeper} \ {None} :
        /\ p \in Page
        /\ url[p] = "closed" => url'[p] = "closed"
  <2>1. \A p \in {ensure.orig, refresh.orig, push.orig, PendingOrig, keeper} \ {None} :
          p \in Page /\ p \notin Free
    BY <1>1, TypeParts, FreeTabs DEF RolesType, ActsType, Activities, Unfinished, PendingOrig
  <2> QED BY <2>1 DEF Moves
<1>4. OrigInv'
  <2>1. PendingOrig' = PendingOrig /\ PendingPage' = PendingPage
    BY DEF PendingOrig, PendingPage
  <2>2. CurrentKeeper = None => CurrentKeeper' = None
    BY <1>3 DEF CurrentKeeper
  <2>3. \A p \in {ensure'.orig, refresh'.orig, push'.orig, PendingOrig'} :
          \/ p = None \/ p = keeper' \/ url'[p] = "closed"
          \/ ensure'.pc = "close" /\ p = ensure'.orig
    BY <1>3, <2>1 DEF KeeperInv, OrigInv
  <2> QED BY <2>1, <2>2, <2>3 DEF KeeperInv, OrigInv, Probing
<1>5. ProofInv'
  <2>1. \A a \in {ensure, refresh} : a.pc \in {"native", "look", "replace"} => a.probe \in proof'
    BY DEF KeeperInv, ProofInv
  <2> QED BY <2>1 DEF KeeperInv, ProofInv
<1>6. NavInv'
  <2>1. ASSUME NEW a \in {ensure, push}, Navigates(a)
        PROVE  url'[a.orig] # "login" \/ a.orig \in commandPages'
    <3>1. a.orig \in Page \cup {None} /\ a.orig # None
      BY <1>1, <2>1, TypeParts DEF KeeperInv, OrigInv, ActsType, Activities, Navigates
    <3>2. a.orig \in Navigated /\ a.orig \notin Free
      BY <2>1, <3>1, FreeTabs DEF Navigated, Navigates
    <3>3. url'[a.orig] = url[a.orig] \/ url'[a.orig] # "login"
      BY <3>1, <3>2 DEF Moves
    <3> QED BY <2>1, <3>3 DEF KeeperInv, NavInv
  <2> QED BY <2>1 DEF KeeperInv, NavInv, Navigates
<1>7. OfferInv'
  BY DEF KeeperInv, OfferInv
<1> QED BY <1>2, <1>4, <1>5, <1>6, <1>7 DEF KeeperInv, Moves

LEMMA Mishaps == ASSUME TypeOK, Mishap PROVE mishaps' \in 0..MaxMishaps /\ restored
BY KeeperAssumption, TypeParts DEF Mishap, SignsType

LEMMA PageMoving == ASSUME KeeperInv, PageMoves PROVE KeeperInv'
<1>1. TypeOK /\ PagesInv /\ TabsType /\ TouchType /\ OpenForms /\ mishaps' \in 0..MaxMishaps
  BY TypeParts, Mishaps DEF KeeperInv, PageMoves
<1>2. UNCHANGED <<roles, memory, waiting, activities, session, restored, refreshDue, busy, command>>
  BY DEF PageMoves
<1>3. PICK p \in Open \ Navigated :
        \/ url[p] = "settled" /\ Lands(p)
        \/ url[p] \in {"login", "unsettled"} /\ session /\ Shows(p, "settled", FALSE)
  BY DEF PageMoves
<1>4. p \in Page /\ url[p] # "closed" /\ p \notin Navigated
  BY DEF Open
<1>5. Moves({p}) /\ proof' = proof
  BY <1>1, <1>2, <1>3, <1>4, Landing, Showing
<1> USE <1>2 DEF roles, memory, activities
<1>6. TypeOK'
  BY <1>1, <1>5, TypeParts, NextParts DEF Moves, RolesType, SignsType, ActsType
<1>7. PagesInv'
  BY <1>1, PagesHeld
<1> QED BY <1>4, <1>5, <1>6, <1>7, TabsMove

LEMMA FormAppearing == ASSUME KeeperInv, FormAppears PROVE KeeperInv'
<1>1. TypeOK /\ PagesInv /\ TabsType /\ TouchType /\ OpenForms /\ mishaps' \in 0..MaxMishaps
  BY TypeParts, Mishaps DEF KeeperInv, FormAppears
<1>2. UNCHANGED <<url, proof, roles, memory, flights, activities, session, restored, refreshDue,
                  busy, command>>
  BY DEF FormAppears
<1>3. PICK p \in Open \ form : url[p] = "login" /\ form' = form \cup {p}
  BY DEF FormAppears
<1> USE <1>2 DEF roles, memory, activities, flights
<1>4. Moves({p})
  BY <1>1, <1>3 DEF Moves, Open, TabsType, TouchType, OpenForms
<1>5. TypeOK'
  BY <1>1, <1>4, TypeParts, NextParts DEF Moves, RolesType, SignsType, ActsType
<1>6. PagesInv'
  BY <1>1, PagesHeld
<1> QED BY <1>4, <1>5, <1>6, TabsMove

LEMMA SigningIn == ASSUME KeeperInv, UserSignsIn PROVE KeeperInv'
<1>1. TypeOK /\ PagesInv /\ TabsType /\ TouchType /\ OpenForms /\ mishaps' \in 0..MaxMishaps
  BY TypeParts, Mishaps DEF KeeperInv, UserSignsIn
<1>2. UNCHANGED <<roles, memory, waiting, activities, restored, refreshDue, busy, command>>
      /\ session' \in BOOLEAN
  BY DEF UserSignsIn
<1>3. PICK p \in form \cup Free : Shows(p, "settled", FALSE)
  BY DEF UserSignsIn
<1>4. p \in Page /\ (p \in Free \/ url[p] # "closed")
  BY <1>1, <1>3, FreeTabs DEF OpenForms, TabsType
<1>5. Moves({p}) /\ url'[p] = "settled" /\ proof' = proof
  BY <1>1, <1>2, <1>3, <1>4, Showing
<1> USE <1>2 DEF roles, memory, activities
<1>6. TypeOK'
  BY <1>1, <1>5, TypeParts, NextParts DEF Moves, RolesType, SignsType, ActsType
<1>7. PagesInv'
  BY <1>1, PagesHeld
<1> QED BY <1>4, <1>5, <1>6, <1>7, TabsMove

LEMMA PageClosing == ASSUME KeeperInv, PageCloses PROVE KeeperInv'
<1>1. TypeOK /\ PagesInv /\ TabsType /\ TouchType /\ OpenForms /\ mishaps' \in 0..MaxMishaps
  BY TypeParts, Mishaps DEF KeeperInv, PageCloses
<1>2. UNCHANGED <<roles, memory, waiting, activities, session, restored, refreshDue, busy, command>>
  BY DEF PageCloses
<1>3. PICK p \in Open : Closes({p})
  BY DEF PageCloses
<1>4. /\ Moves({p}) /\ p \in Page /\ url'[p] = "closed"
      /\ \A q \in proof : q \in {ensure.probe, refresh.probe} => q \in proof'
  BY <1>1, <1>2, <1>3, ClosingTabs DEF Open
<1> USE <1>2 DEF roles, memory, activities
<1>5. TypeOK'
  BY <1>1, <1>4, TypeParts, NextParts DEF Moves, RolesType, SignsType, ActsType
<1>6. PagesInv'
  BY <1>1, PagesHeld
<1> QED BY <1>4, <1>5, <1>6, TabsMove

LEMMA CommandStarting == ASSUME KeeperInv, CommandStarts PROVE KeeperInv'
<1>1. TypeOK /\ PagesInv /\ TabsType /\ TouchType /\ OpenForms /\ mishaps' \in 0..MaxMishaps
      /\ restored
  BY TypeParts, Mishaps DEF KeeperInv, CommandStarts
<1>2. /\ UNCHANGED <<keeper, pending, stalled, authedOnce, memory, waiting, activities, session,
                     restored, refreshDue>>
      /\ busy' = TRUE /\ command = None
  BY <1>1 DEF CommandStarts, PagesInv
<1>3. CASE UNCHANGED <<tabs, touch, commandPages, command>>
  <2>1. Moves({})
    BY <1>1, <1>2, <1>3 DEF Moves, tabs, TabsType, TouchType, OpenForms
  <2>2. PagesInv'
    BY <1>1, <1>2, <1>3 DEF PagesInv, Accounted, PendingPage, activities
  <2> USE <1>2, <1>3 DEF memory, activities, tabs
  <2>3. TypeOK'
    BY <1>1, <2>1, TypeParts, NextParts DEF Moves, RolesType, SignsType, ActsType
  <2> QED BY <2>1, <2>2, <2>3, TabsMove
<1>4. CASE \E p \in Free : /\ command' = p /\ commandPages' = commandPages \cup {p} /\ Lands(p)
  <2>1. PICK p \in Free : command' = p /\ commandPages' = commandPages \cup {p} /\ Lands(p)
    BY <1>4
  <2>2. /\ p \in Page /\ p \notin {ensure.probe, refresh.probe} /\ p # None
        /\ p # PendingPage
    BY KeeperAssumption, FreeTabs
  <2>3. Moves({p}) /\ proof' = proof
    BY <1>1, <1>2, <2>1, <2>2, Landing
  <2>4. PagesInv'
    <3>1. UNCHANGED <<ensure, refresh, beat, restored, PendingPage>> /\ command' = p /\ busy'
          /\ commandPages' = commandPages \cup {p} /\ command = None
      BY <1>2, <2>1 DEF PendingPage, activities
    <3>2. None \notin commandPages
      BY <1>1, KeeperAssumption, TypeParts DEF RolesType
    <3> QED BY <1>1, <2>2, <3>1, <3>2 DEF PagesInv, Accounted
  <2> USE <1>2, <2>1 DEF memory, activities
  <2>5. TypeOK'
    BY <1>1, <2>2, <2>3, TypeParts, NextParts DEF Moves, RolesType, SignsType, ActsType
  <2> QED BY <2>3, <2>4, <2>5, TabsMove
<1> QED BY <1>3, <1>4 DEF CommandStarts

LEMMA CommandEnding == ASSUME KeeperInv, CommandEnds PROVE KeeperInv'
<1>1. TypeOK /\ PagesInv /\ TabsType /\ TouchType /\ OpenForms
  BY TypeParts DEF KeeperInv
<1>2. /\ UNCHANGED <<keeper, pending, stalled, authedOnce, memory, waiting, activities, session,
                     restored, refreshDue, mishaps>>
      /\ busy' = FALSE /\ command' = None
      /\ commandPages' = commandPages \ {command} /\ Closes({command} \ {None})
  BY DEF CommandEnds
<1>3. /\ Moves({command} \ {None})
      /\ \A p \in ({command} \ {None}) \cap Page : url'[p] = "closed"
      /\ \A q \in proof : q \in {ensure.probe, refresh.probe} => q \in proof'
  BY <1>1, <1>2, ClosingTabs
<1>4. PagesInv'
  BY <1>1, <1>2 DEF PagesInv, Accounted, PendingPage, activities
<1> USE <1>2 DEF memory, activities
<1>5. TypeOK'
  BY <1>1, <1>3, TypeParts, NextParts DEF Moves, RolesType, SignsType, ActsType
<1>6. \A p \in commandPages \ commandPages' : url'[p] # "login"
  <2>1. None \notin commandPages /\ commandPages \subseteq Page
    BY <1>1, KeeperAssumption, TypeParts DEF RolesType
  <2> QED BY <1>3, <2>1
<1> QED BY <1>3, <1>4, <1>5, <1>6, TabsMove


-----------------------------------------------------------------------------
(* What a change of roles has to keep. *)

origs == {ensure.orig, refresh.orig, push.orig, PendingOrig}

LEMMA OrigsKept ==
  ASSUME KeeperInv,
         origs' \subseteq origs \cup {None, keeper'},
         \/ keeper' = keeper \/ keeper = None \/ url'[keeper] = "closed"
         \/ ensure'.pc = "close" /\ ensure'.orig = keeper,
         \/ ensure' = ensure \/ ensure.pc # "close" \/ url'[ensure.orig] = "closed",
         \A p \in origs \ {None} : url[p] = "closed" => url'[p] = "closed" \/ p = keeper',
         \A a \in {ensure', refresh'} : Probing(a) => a.orig # None /\ a.orig # a.probe,
         pending' # None => PendingOrig' # PendingPage',
         ensure'.pc \in {"recover", "inspect", "reload", "touch", "goto", "close"} => ensure'.orig # None,
         push'.pc \in {"reload", "goto"} => push'.orig # None,
         ensure'.pc = "create" => CurrentKeeper' = None /\ restored'
  PROVE  OrigInv'
<1>1. \A p \in origs' : \/ p = None \/ p = keeper' \/ url'[p] = "closed"
                        \/ ensure'.pc = "close" /\ p = ensure'.orig
  <2>1. \A p \in origs : \/ p = None \/ p = keeper' \/ url'[p] = "closed"
                         \/ ensure'.pc = "close" /\ p = ensure'.orig
    BY DEF KeeperInv, OrigInv, origs
  <2> QED BY <2>1
<1> QED BY <1>1 DEF OrigInv, origs, Probing

LEMMA NavsKept ==
  ASSUME KeeperInv,
         Navigates(ensure') => Navigates(ensure) /\ ensure'.orig = ensure.orig,
         Navigates(push') => Navigates(push) /\ push'.orig = push.orig,
         \A a \in {ensure', push'} : Navigates(a) =>
           /\ url'[a.orig] # "login" \/ url'[a.orig] = url[a.orig] \/ a.orig \in commandPages'
           /\ a.orig \in commandPages => a.orig \in commandPages' \/ url'[a.orig] # "login"
  PROVE  NavInv'
BY DEF KeeperInv, NavInv, Navigates

\* An activity without a probe, between two steps of its own.
LEMMA IdleParts ==
  ASSUME KeeperInv, ensure \in Activities, refresh \in Activities, push \in Activities
  PROVE  /\ ensure.pc \notin Probings => Idle(ensure)
         /\ refresh.pc \notin Probings => Idle(refresh)
BY DEF KeeperInv, ProbesInv, Idle, Probing

(* A navigation of the keeper by ensure or push comes to its end.          *)
LEMMA Arriving ==
  ASSUME KeeperInv, TypeOK', NEW S, S \subseteq Page, Moves(S),
         \A p \in S : url[p] # "closed" /\ url'[p] # "closed",
         UNCHANGED <<proof, keeper, commandPages, pending, busy, restored, command, refresh>>,
         beat' = beat \/ (beat # "refresh" /\ restored),
         ensure' = ensure \/ (Idle(ensure) /\ Idle(ensure')),
         \/ ensure' = ensure
         \/ /\ ensure.pc # "close"
            /\ ensure'.pc \notin {"judge", "offer", "swap", "close", "replace"},
         ensure'.orig \in {None, ensure.orig}, push'.orig \in {None, push.orig},
         push'.probe = None,
         ensure'.pc \in {"recover", "inspect", "reload", "touch", "goto", "close"} => ensure'.orig # None,
         ensure'.pc \in {"inspect", "reload", "touch"} => pending = None,
         ensure'.pc = "create" => ensure' = ensure,
         push'.pc \in {"reload", "goto"} => push'.orig # None,
         \A a \in {ensure', push'} : Navigates(a) => a.orig \notin S,
         Navigates(ensure') => ensure' = ensure, Navigates(push') => push' = push
  PROVE  KeeperInv'
<1>1. TypeOK /\ ActsType
  BY TypeParts DEF KeeperInv
<1> USE DEF Idle
<1>2. ProbesInv'
  BY DEF KeeperInv, ProbesInv, Probing, Probings, PendingPage
<1>3. PagesInv'
  BY DEF KeeperInv, PagesInv, Accounted, PendingPage, ProbesInv
<1>4. /\ \A p \in Page : url[p] = "closed" <=> url'[p] = "closed"
      /\ PendingOrig' = PendingOrig /\ PendingPage' = PendingPage
  BY DEF Moves, PendingOrig, PendingPage
<1>5. \A p \in origs \cup {keeper} : p \in Page \cup {None}
  BY <1>1, TypeParts, KeeperAssumption DEF ActsType, RolesType, Activities, Unfinished,
          PendingOrig, origs
<1>6. CurrentKeeper = None => CurrentKeeper' = None
  BY <1>4, <1>5 DEF CurrentKeeper
<1>7. OrigInv'
  <2>1. \A a \in {ensure', refresh'} : Probing(a) => a.orig # None /\ a.orig # a.probe
    BY DEF KeeperInv, OrigInv
  <2>2. pending' # None => PendingOrig' # PendingPage'
    BY <1>4 DEF KeeperInv, OrigInv
  <2>3. ensure'.pc = "create" => CurrentKeeper' = None /\ restored'
    BY <1>6 DEF KeeperInv, OrigInv
  <2>4. origs' \subseteq origs \cup {None, keeper'}
    BY <1>4 DEF origs
  <2>5. \A p \in origs \ {None} : url[p] = "closed" => url'[p] = "closed" \/ p = keeper'
    BY <1>4, <1>5
  <2> QED BY <2>1, <2>2, <2>3, <2>4, <2>5, OrigsKept
<1>8. ProofInv' /\ OpenForms'
  BY DEF KeeperInv, ProofInv, Moves, Probing, Probings
<1>9. NavInv'
  <2>1. ASSUME NEW a \in {ensure', push'}, Navigates(a)
        PROVE  url'[a.orig] = url[a.orig]
    <3>1. a \in {ensure, push} /\ a.orig # None
      BY <2>1 DEF KeeperInv, OrigInv, Navigates
    <3>2. a.orig \in Page
      BY <1>1, <3>1 DEF ActsType, Activities
    <3> QED BY <2>1, <3>2 DEF Moves
  <2> QED BY <2>1, NavsKept
<1>10. OfferInv'
  BY DEF KeeperInv, OfferInv
<1> QED BY <1>2, <1>3, <1>7, <1>8, <1>9, <1>10 DEF KeeperInv


LEMMA LandedMemory ==
  ASSUME TypeOK, NEW page, NEW cleared, Arrived(page, cleared)
  PROVE  {reauthSeen', loginSeen', attempt'} \subseteq Ages
<1>1. {reauthSeen, loginSeen, attempt} \subseteq Ages
  BY TypeParts DEF SignsType
<1>2. CASE UNCHANGED memory
  BY <1>1, <1>2 DEF memory
<1>3. CASE ClearRecovery
  BY <1>3 DEF ClearRecovery, Ages
<1>4. CASE loginSeen' = Noted(loginSeen) /\ UNCHANGED <<reauthSeen, attempt>>
  BY <1>1, <1>4, NotedAge
<1> QED BY <1>2, <1>3, <1>4 DEF Arrived

\* Where a navigation of ensure or push ends.
LEMMA NavigationEnds ==
  ASSUME KeeperInv, UNCHANGED waiting, NEW a \in {ensure, push},
         \/ UNCHANGED <<tabs, touch>>
         \/ url[a.orig] # "closed" /\ Lands(a.orig),
         a.pc \in {"reload", "goto"}
  PROVE  \E S \in SUBSET Page :
           /\ Moves(S) /\ proof' = proof /\ S \subseteq {a.orig}
           /\ \A p \in S : url[p] # "closed" /\ url'[p] # "closed"
           /\ UNCHANGED <<tabs, touch>> => S = {}
<1>1. TabsType /\ TouchType /\ OpenForms /\ a.orig \in Page
  BY TypeParts DEF KeeperInv, OrigInv, ActsType, Activities
<1>2. CASE UNCHANGED <<tabs, touch>>
  <2>1. Moves({}) /\ proof' = proof
    BY <1>1, <1>2 DEF Moves, TabsType, TouchType, OpenForms, tabs
  <2> QED BY <2>1
<1>3. CASE ~UNCHANGED <<tabs, touch>> /\ url[a.orig] # "closed" /\ Lands(a.orig)
  <2>1. Moves({a.orig}) /\ proof' = proof /\ url'[a.orig] # "closed"
    BY <1>1, <1>3, Landing
  <2>2. {a.orig} \in SUBSET Page
    BY <1>1
  <2> QED BY <1>3, <2>1, <2>2
<1> QED BY <1>2, <1>3

LEMMA Reloading == ASSUME KeeperInv, Reload PROVE KeeperInv'
<1>1. TypeOK /\ ensure \in Activities /\ push \in Activities /\ ensure.pc = "reload" /\ restored
  BY TypeParts DEF KeeperInv, Reload, At, ActsType
<1>2. UNCHANGED <<roles, waiting, refresh, push, beat, others>>
  BY DEF Reload
<1>3. /\ \/ UNCHANGED <<tabs, touch>>
         \/ url[ensure.orig] # "closed" /\ ensure.via # "lost" /\ Lands(ensure.orig)
      /\ Go("final") \/ Go("touch")
      /\ UNCHANGED memory \/ (reauthSeen' = "no" /\ loginSeen' = "early" /\ attempt' = attempt)
  BY DEF Reload, memory
<1>4. PICK S \in SUBSET Page :
        /\ Moves(S) /\ proof' = proof /\ S \subseteq {ensure.orig}
        /\ \A p \in S : url[p] # "closed" /\ url'[p] # "closed"
        /\ UNCHANGED <<tabs, touch>> => S = {}
  BY <1>1, <1>2, <1>3, NavigationEnds
<1>5. {reauthSeen', loginSeen', attempt'} \subseteq Ages
  BY <1>1, <1>3, TypeParts DEF memory, SignsType, Ages
<1>6. /\ ensure' \in Activities /\ ensure'.pc \in {"final", "touch"}
      /\ ensure'.probe = ensure.probe /\ ensure'.orig = ensure.orig
  BY <1>1, <1>3 DEF Go, Activities
<1>7. Idle(ensure) /\ Idle(ensure') /\ ~Navigates(ensure')
  BY <1>1, <1>6 DEF KeeperInv, ProbesInv, Idle, Probing, Probings, Navigates
<1>8. Navigates(push) => push.orig \notin S
  BY <1>1, <1>3, <1>4 DEF KeeperInv, NavInv, Navigates
<1>9. UNCHANGED <<proof, keeper, commandPages, pending, busy, restored, command, refresh, push,
        beat,
                  stalled, authedOnce, session, refreshDue, mishaps>>
  BY <1>2, <1>4 DEF roles, others
<1>10. TypeOK'
  BY <1>1, <1>4, <1>5, <1>6, <1>9, TypeParts, NextParts DEF Moves, RolesType, SignsType, ActsType
<1>11. /\ push.probe = None /\ (push.pc \in {"reload", "goto"} => push.orig # None)
       /\ pending = None /\ ensure.orig # None
  BY <1>1 DEF KeeperInv, ProbesInv, OrigInv
<1> QED BY <1>1, <1>4, <1>6, <1>7, <1>8, <1>9, <1>10, <1>11, Arriving

LEMMA FinalGoing == ASSUME KeeperInv, FinalGoto PROVE KeeperInv'
<1>1. TypeOK /\ ensure \in Activities /\ push \in Activities /\ ensure.pc = "goto" /\ restored
  BY TypeParts DEF KeeperInv, FinalGoto, At, ActsType
<1>2. UNCHANGED <<roles, waiting, refresh, others>> /\ EnsureDone
  BY DEF FinalGoto
<1>3. /\ \/ UNCHANGED <<tabs, touch>>
         \/ url[ensure.orig] # "closed" /\ ensure.via # "lost" /\ Lands(ensure.orig)
      /\ UNCHANGED memory \/ Arrived(ensure.orig, TRUE)
  BY DEF FinalGoto
<1>4. PICK S \in SUBSET Page :
        /\ Moves(S) /\ proof' = proof /\ S \subseteq {ensure.orig}
        /\ \A p \in S : url[p] # "closed" /\ url'[p] # "closed"
        /\ UNCHANGED <<tabs, touch>> => S = {}
  BY <1>1, <1>2, <1>3, NavigationEnds
<1>5. {reauthSeen', loginSeen', attempt'} \subseteq Ages
  BY <1>1, <1>3, TypeParts, LandedMemory DEF memory, SignsType
<1>6. /\ ensure' = Rest /\ Rest.pc = "rest"
      /\ push' \in Activities /\ push'.probe = push.probe /\ push'.orig = push.orig
      /\ push' = push \/ push'.pc = "ensured"
      /\ beat' \in {"rest", "ensure", "ensured", "touch", "refresh"}
      /\ beat' = beat \/ beat # "refresh"
  BY <1>1, <1>2, TypeParts DEF EnsureDone, Activities, Rest, ActsType
<1>7. Idle(ensure) /\ Idle(ensure') /\ ~Navigates(ensure') /\ ensure'.orig = None
        /\ ensure' \in Activities
  BY <1>1, <1>6, RestAct DEF KeeperInv, ProbesInv, Idle, Probing, Probings
<1>8. Navigates(push') => push' = push /\ push'.orig \notin S
  <2>1. Navigates(push') => push' = push
    BY <1>6 DEF Navigates
  <2> QED BY <1>1, <1>3, <1>4, <2>1 DEF KeeperInv, NavInv, Navigates
<1>9. UNCHANGED <<proof, keeper, commandPages, pending, busy, restored, command, refresh,
                  stalled, authedOnce, session, refreshDue, mishaps>>
  BY <1>2, <1>4 DEF roles, others
<1>10. TypeOK'
  BY <1>1, <1>4, <1>5, <1>6, <1>7, <1>9, TypeParts, NextParts DEF Moves, RolesType, SignsType,
          ActsType
<1>11. push'.probe = None /\ (push'.pc \in {"reload", "goto"} => push'.orig # None)
  BY <1>6 DEF KeeperInv, ProbesInv, OrigInv
<1> QED BY <1>1, <1>4, <1>6, <1>7, <1>8, <1>9, <1>10, <1>11, Arriving

LEMMA PushLanding == ASSUME KeeperInv, PushLands PROVE KeeperInv'
<1>1. TypeOK /\ ensure \in Activities /\ push \in Activities /\ push.pc = "goto"
  BY TypeParts DEF KeeperInv, PushLands, ActsType
<1>2. UNCHANGED <<roles, waiting, ensure, refresh, beat, others>>
  BY DEF PushLands
<1>3. /\ \/ UNCHANGED <<tabs, touch>>
         \/ url[push.orig] # "closed" /\ push.via # "lost" /\ Lands(push.orig)
      /\ UNCHANGED memory \/ Arrived(push.orig, ~RecoveryPending)
      /\ push' = Rest \/ push' = [push EXCEPT !.pc = "touch"]
  BY DEF PushLands
<1>4. PICK S \in SUBSET Page :
        /\ Moves(S) /\ proof' = proof /\ S \subseteq {push.orig}
        /\ \A p \in S : url[p] # "closed" /\ url'[p] # "closed"
        /\ UNCHANGED <<tabs, touch>> => S = {}
  BY <1>1, <1>2, <1>3, NavigationEnds
<1>5. {reauthSeen', loginSeen', attempt'} \subseteq Ages
  BY <1>1, <1>3, TypeParts, LandedMemory DEF memory, SignsType
<1>6. /\ push' \in Activities /\ push'.probe = None /\ push'.orig \in {None, push.orig}
      /\ push'.pc \in {"rest", "touch"} /\ ~Navigates(push')
  <2>1. Rest.pc = "rest" /\ Rest.probe = None
    BY DEF Rest
  <2>2. CASE push' = Rest
    BY <2>1, <2>2, RestAct
  <2>3. CASE push' = [push EXCEPT !.pc = "touch"]
    BY <1>1, <2>3 DEF Activities, KeeperInv, ProbesInv, Navigates
  <2> QED BY <1>3, <2>2, <2>3
<1>7. Navigates(ensure) => ensure.orig \notin S
  BY <1>1, <1>3, <1>4 DEF KeeperInv, NavInv, Navigates
<1>8. UNCHANGED <<proof, keeper, commandPages, pending, busy, restored, command, ensure, refresh,
        beat,
                  stalled, authedOnce, session, refreshDue, mishaps>>
  BY <1>2, <1>4 DEF roles, others
<1>9. TypeOK'
  BY <1>1, <1>4, <1>5, <1>6, <1>8, TypeParts, NextParts DEF Moves, RolesType, SignsType, ActsType
<1>10. /\ ensure.pc \in {"inspect", "reload", "touch"} => pending = None
       /\ ensure.pc \in {"recover", "inspect", "reload", "touch", "goto", "close"} => ensure.orig # None
  BY DEF KeeperInv, ProbesInv, OrigInv
<1> QED BY <1>4, <1>6, <1>7, <1>8, <1>9, <1>10, Arriving


LEMMA PushTouching == ASSUME KeeperInv, PushTouches PROVE KeeperInv'
<1>1. TypeOK /\ push \in Activities /\ push.pc = "touch"
  BY TypeParts DEF KeeperInv, PushTouches, ActsType
<1>2. UNCHANGED <<tabs, keeper, commandPages, pending, stalled, ensure, refresh, beat, others>>
  BY DEF PushTouches
<1>3. /\ Touches("push") \/ UNCHANGED <<memory, flights, authedOnce>>
      /\ push' = Rest \/ push' = [push EXCEPT !.via = "sso"]
  BY DEF PushTouches
<1>4. TouchType' /\ {reauthSeen', loginSeen', attempt'} \subseteq Ages /\ authedOnce' \in BOOLEAN
  <2>1. CASE Touches("push")
    BY <1>1, <2>1, TouchingTypes DEF Waiter
  <2>2. CASE UNCHANGED <<memory, flights, authedOnce>>
    BY <1>1, <2>2, TypeParts DEF memory, flights, TouchType, SignsType, RolesType
  <2> QED BY <1>3, <2>1, <2>2
<1>5. /\ push' \in Activities /\ push'.probe = None /\ push'.orig \in {None, push.orig}
      /\ push'.pc \in {"rest", "touch"} /\ ~Navigates(push')
  <2>1. Rest.pc = "rest" /\ Rest.probe = None
    BY DEF Rest
  <2>2. CASE push' = Rest
    BY <2>1, <2>2, RestAct
  <2>3. CASE push' = [push EXCEPT !.via = "sso"]
    BY <1>1, <2>3 DEF Activities, KeeperInv, ProbesInv, Navigates
  <2> QED BY <1>3, <2>2, <2>3
<1>6. UNCHANGED <<tabs, keeper, commandPages, pending, busy, restored, command, ensure, refresh,
        beat,
                  stalled, session, refreshDue, mishaps>>
  BY <1>2 DEF others
<1>7. TypeOK'
  BY <1>1, <1>4, <1>5, <1>6, TypeParts, NextParts DEF tabs, TabsType, RolesType, SignsType, ActsType
<1>8. /\ ensure.pc \in {"inspect", "reload", "touch"} => pending = None
      /\ ensure.pc \in {"recover", "inspect", "reload", "touch", "goto", "close"} => ensure.orig # None
  BY DEF KeeperInv, ProbesInv, OrigInv
<1>9. Moves({}) /\ proof' = proof
  BY <1>1, <1>4, <1>6, TypeParts DEF KeeperInv, Moves, TabsType, OpenForms, tabs
<1>10. {} \subseteq Page /\ ensure = ensure' /\ beat' = beat
  BY <1>6
<1> QED BY <1>5, <1>6, <1>7, <1>8, <1>9, <1>10, Arriving

-----------------------------------------------------------------------------
(* A probe is opened. *)

LEMMA Opening ==
  ASSUME KeeperInv, NEW p \in Free, UNCHANGED <<form, proof, touch, waiting>>,
         url' = [url EXCEPT ![p] = "blank"]
  PROVE  Moves({p})
<1>1. TypeOK /\ TabsType /\ TouchType /\ OpenForms
  BY TypeParts DEF KeeperInv
<1>2. p \in Page /\ url[p] = "closed" /\ p \notin form
  BY <1>1, FreeTabs DEF OpenForms
<1> QED BY <1>1, <1>2 DEF Moves, TabsType, TouchType, OpenForms, Urls

\* ensure opens one for the keeper it began with.
LEMMA EnsureOpens ==
  ASSUME KeeperInv, restored, ensure.pc \in {"inspect", "touch"},
         UNCHANGED <<keeper, pending, stalled, authedOnce, memory, flights, refresh, push, beat,
                     others>>,
         \/ OpensProbe(ensure', "login", ensure.orig) \/ OpensProbe(ensure', "sso", ensure.orig)
         \/ Go("final") /\ UNCHANGED <<tabs, commandPages>>
  PROVE  KeeperInv'
<1>1. TypeOK /\ ensure \in Activities /\ push \in Activities /\ ensure.orig \in Page
      /\ ensure.probe = None /\ pending = None
  BY TypeParts DEF KeeperInv, OrigInv, ActsType, Activities, ProbesInv, Probing, Probings
<1>2. CASE Go("final") /\ UNCHANGED <<tabs, commandPages>>
  <2>1. ensure' \in Activities /\ ensure'.pc = "final" /\ ensure'.probe = None
        /\ ensure'.orig = ensure.orig
    BY <1>1, <1>2 DEF Go, Activities
  <2>2. Idle(ensure) /\ Idle(ensure') /\ ~Navigates(ensure')
    BY <1>1, <2>1 DEF Idle, Probing, Probings, Navigates
  <2>3. UNCHANGED <<tabs, keeper, commandPages, pending, busy, restored, command, refresh, push,
          beat,
                    flights, stalled, authedOnce, memory, session, refreshDue, mishaps>>
    BY <1>2 DEF others
  <2>4. TypeOK'
    BY <1>1, <2>1, <2>3, TypeParts, NextParts
       DEF tabs, TabsType, flights, TouchType, memory, RolesType, SignsType, ActsType
  <2>5. Moves({}) /\ proof' = proof
    BY <1>1, <2>3, TypeParts DEF KeeperInv, Moves, TabsType, OpenForms, tabs, flights, TouchType
  <2>6. {} \subseteq Page /\ push.probe = None
          /\ (push.pc \in {"reload", "goto"} => push.orig # None)
    BY DEF KeeperInv, ProbesInv, OrigInv
  <2> QED BY <2>1, <2>2, <2>3, <2>4, <2>5, <2>6, Arriving
<1>3. ASSUME NEW via \in {"login", "sso"}, OpensProbe(ensure', via, ensure.orig)
      PROVE  KeeperInv'
  <2>1. PICK p \in Free :
          /\ url' = [url EXCEPT ![p] = "blank"] /\ commandPages' = commandPages \cup {p}
          /\ ensure' = [pc |-> IF via = "refresh" THEN "opened" ELSE "going", via |-> via,
                        probe |-> p, orig |-> ensure.orig, was |-> url[ensure.orig],
                        saw |-> "none"]
          /\ UNCHANGED <<form, proof>>
    BY <1>3 DEF OpensProbe
  <2>2. UNCHANGED <<keeper, pending, stalled, authedOnce, memory, flights, refresh, push, beat,
                    session, restored, refreshDue, busy, command, mishaps>> /\ Moves({p})
    BY <2>1, Opening DEF others, flights
  <2>10. /\ ensure' \in Activities /\ Probing(ensure') /\ ensure'.probe = p
         /\ ensure'.orig = ensure.orig /\ ~Navigates(ensure') /\ ensure'.via = via
         /\ ensure'.pc = "going" /\ proof' = proof
    BY <1>1, <2>1, FreeTabs, TypeParts DEF Activities, TabsType, Probing, Probings, Navigates
  <2>3. p \in Page /\ p # None /\ p \notin {keeper, command, ensure.orig, refresh.probe,
                                            refresh.orig, push.orig}
    BY KeeperAssumption, FreeTabs
  <2>4. TypeOK'
    BY <1>1, <2>1, <2>10, <2>2, <2>3, TypeParts, NextParts
       DEF Moves, memory, RolesType, SignsType, ActsType
  <2>5. ProbesInv'
    BY <1>1, <2>1, <2>10, <2>2, <2>3 DEF KeeperInv, ProbesInv, Probing, PendingPage
  <2>6. PagesInv'
    BY <1>1, <2>1, <2>10, <2>2, <2>3 DEF KeeperInv, PagesInv, Accounted, PendingPage
  <2>7. OrigInv'
    <3>1. PendingOrig = None /\ PendingOrig' = None /\ pending' = None
      BY <1>1, <2>2 DEF PendingOrig
    <3>2. \A q \in origs \ {None} : url[q] = "closed" => url'[q] = "closed"
      BY <1>1, <2>2, <2>3, <3>1, TypeParts DEF origs, Moves, ActsType, Activities
    <3>3. origs' \subseteq origs \cup {None, keeper'}
      BY <2>1, <2>10, <2>2, <3>1 DEF origs
    <3>4. \A a \in {ensure', refresh'} : Probing(a) => a.orig # None /\ a.orig # a.probe
      BY <1>1, <2>1, <2>10, <2>2, <2>3 DEF KeeperInv, OrigInv
    <3>5. /\ ensure'.pc \notin {"recover", "inspect", "reload", "touch", "goto", "close", "create"}
          /\ ensure.pc # "close"
      BY <2>1, <2>10
    <3>6. push'.pc \in {"reload", "goto"} => push'.orig # None
      BY <2>2 DEF KeeperInv, OrigInv
    <3> QED BY <2>2, <3>1, <3>2, <3>3, <3>4, <3>5, <3>6, OrigsKept
  <2>8. OfferInv' /\ ProofInv' /\ OpenForms'
    BY <2>1, <2>10, <2>2 DEF KeeperInv, OfferInv, ProofInv, Moves
  <2>9. NavInv'
    <3>1. ASSUME Navigates(push')
          PROVE  url'[push.orig] = url[push.orig]
      BY <1>1, <2>2, <2>3, <3>1 DEF KeeperInv, OrigInv, Navigates, Activities, Moves
    <3> QED BY <2>1, <2>10, <2>2, <3>1, NavsKept
  <2> QED BY <2>4, <2>5, <2>6, <2>7, <2>8, <2>9 DEF KeeperInv
<1> QED BY <1>2, <1>3

LEMMA Inspecting == ASSUME KeeperInv, Inspect PROVE KeeperInv'
BY EnsureOpens DEF Inspect, At

LEMMA SigningOn == ASSUME KeeperInv, SignOn PROVE KeeperInv'
BY EnsureOpens DEF SignOn, At


LEMMA Aside == ASSUME KeeperInv PROVE commandPages \subseteq Page /\ None \notin commandPages
BY KeeperAssumption, TypeParts DEF KeeperInv, RolesType

LEMMA Refreshing == ASSUME KeeperInv, RefreshIfDue PROVE KeeperInv'
<1>1. TypeOK /\ ensure \in Activities /\ refresh \in Activities /\ push \in Activities
      /\ beat = "touch" /\ restored
  BY TypeParts DEF KeeperInv, RefreshIfDue, ActsType, PagesInv
<1>2. UNCHANGED <<keeper, pending, stalled, authedOnce, memory, flights, ensure, push, session,
                  restored, busy, command, mishaps>>
  BY DEF RefreshIfDue
<1>3. refresh.pc = "rest" /\ refresh.probe = None
  BY <1>1 DEF KeeperInv, ProbesInv, Probing, Probings
<1>4. CASE beat' = "rest" /\ UNCHANGED <<tabs, commandPages, refresh, refreshDue>>
  <2>1. TypeOK'
    BY <1>1, <1>2, <1>4, TypeParts, NextParts
       DEF tabs, TabsType, flights, TouchType, memory, RolesType, SignsType, ActsType
  <2>2. Moves({}) /\ proof' = proof
    BY <1>1, <1>2, <1>4, TypeParts DEF KeeperInv, Moves, TabsType, OpenForms, tabs, flights,
            TouchType
  <2>3. /\ {} \subseteq Page /\ push.probe = None
        /\ push.pc \in {"reload", "goto"} => push.orig # None
        /\ ensure.pc \in {"inspect", "reload", "touch"} => pending = None
        /\ ensure.pc \in {"recover", "inspect", "reload", "touch", "goto", "close"} => ensure.orig # None
    BY DEF KeeperInv, ProbesInv, OrigInv
  <2> QED BY <1>1, <1>2, <1>4, <2>1, <2>2, <2>3, Arriving
<1>5. CASE /\ CurrentKeeper # None /\ url[CurrentKeeper] = "settled"
           /\ OpensProbe(refresh', "refresh", CurrentKeeper)
           /\ beat' = "refresh" /\ refreshDue' = FALSE
  <2>1. CurrentKeeper \in Page /\ CurrentKeeper = keeper /\ url[CurrentKeeper] = "settled"
    BY <1>1, <1>5, KeeperPage
  <2>2. PICK p \in Free :
          /\ url' = [url EXCEPT ![p] = "blank"] /\ commandPages' = commandPages \cup {p}
          /\ refresh' = [pc |-> "opened", via |-> "refresh", probe |-> p, orig |-> CurrentKeeper,
                         was |-> url[CurrentKeeper], saw |-> "none"]
          /\ UNCHANGED <<form, proof>>
    BY <1>5 DEF OpensProbe
  <2>3. p \in Page /\ p # None /\ p \notin {keeper, command, ensure.orig, ensure.probe,
                                            refresh.orig, push.orig, PendingPage, PendingOrig}
    BY KeeperAssumption, FreeTabs
  <2>4. Moves({p}) /\ proof' = proof
    BY <1>2, <2>2, Opening DEF flights
  <2>5. /\ refresh' \in Activities /\ Probing(refresh') /\ refresh'.probe = p
        /\ refresh'.orig = keeper /\ refresh'.via = "refresh" /\ refresh'.was = "settled"
        /\ refresh'.pc = "opened"
    BY <2>1, <2>2, <2>3 DEF Activities, Urls, Probing, Probings
  <2>6. TypeOK'
    BY <1>1, <1>2, <1>5, <2>2, <2>3, <2>4, <2>5, TypeParts, NextParts
       DEF Moves, memory, RolesType, SignsType, ActsType
  <2>7. PendingPage' = PendingPage /\ PendingOrig' = PendingOrig
    BY <1>2 DEF PendingPage, PendingOrig
  <2>8. ProbesInv'
    BY <1>2, <1>5, <2>3, <2>5, <2>7 DEF KeeperInv, ProbesInv, Probing, Probings
  <2>9. PagesInv'
    BY <1>1, <1>2, <1>3, <2>2, <2>3, <2>5, <2>7, Aside DEF KeeperInv, PagesInv, Accounted
  <2>10. OrigInv'
    <3>1. \A q \in origs \ {None} : url[q] = "closed" => url'[q] = "closed"
      BY <1>1, <2>3, <2>4, <2>7, TypeParts
         DEF origs, Moves, ActsType, Activities, RolesType, Unfinished, PendingOrig
    <3>2. origs' \subseteq origs \cup {None, keeper'} /\ keeper' = keeper
      BY <1>2, <2>5, <2>7 DEF origs
    <3>3. \A a \in {ensure', refresh'} : Probing(a) => a.orig # None /\ a.orig # a.probe
      BY <1>2, <2>1, <2>3, <2>5, KeeperAssumption DEF KeeperInv, OrigInv
    <3>4. ensure'.pc # "create"
      BY <1>2, <1>5 DEF KeeperInv, OrigInv
    <3>5. /\ ensure'.pc \in {"recover", "inspect", "reload", "touch", "goto", "close"} => ensure'.orig # None
          /\ push'.pc \in {"reload", "goto"} => push'.orig # None
          /\ pending' # None => PendingOrig' # PendingPage'
      BY <1>2, <2>7 DEF KeeperInv, OrigInv
    <3> QED BY <1>2, <3>1, <3>2, <3>3, <3>4, <3>5, OrigsKept
  <2>11. OfferInv' /\ ProofInv' /\ OpenForms'
    BY <1>2, <2>4, <2>5 DEF KeeperInv, OfferInv, ProofInv, Moves
  <2>12. NavInv'
    <3>1. \A a \in {ensure', push'} : Navigates(a) => url'[a.orig] = url[a.orig]
      BY <1>1, <1>2, <2>3, <2>4 DEF KeeperInv, OrigInv, Navigates, Activities, Moves
    <3> QED BY <1>2, <2>2, <3>1, NavsKept
  <2> QED BY <2>6, <2>8, <2>9, <2>10, <2>11, <2>12 DEF KeeperInv
<1> QED BY <1>4, <1>5 DEF RefreshIfDue

-----------------------------------------------------------------------------
(* The keeper changes hands. *)

LEMMA Creating == ASSUME KeeperInv, CreateKeeper PROVE KeeperInv'
<1>1. TypeOK /\ ensure \in Activities /\ refresh \in Activities /\ push \in Activities
      /\ ensure.pc = "create" /\ restored /\ CurrentKeeper = None
  BY TypeParts DEF KeeperInv, CreateKeeper, At, ActsType, OrigInv
<1>2. UNCHANGED <<commandPages, pending, stalled, authedOnce, memory, waiting, refresh, others>>
  BY DEF CreateKeeper
<1>3. Idle(ensure)
  BY <1>1 DEF KeeperInv, ProbesInv, Idle, Probing, Probings
<1>4. CASE EnsureDone /\ UNCHANGED <<tabs, keeper, touch>>
  <2>1. /\ ensure' = Rest /\ Rest.pc = "rest"
        /\ push' \in Activities /\ push'.probe = push.probe /\ push'.orig = push.orig
        /\ push' = push \/ push'.pc = "ensured"
        /\ beat' \in {"rest", "ensure", "ensured", "touch", "refresh"}
        /\ beat' = beat \/ beat # "refresh"
    BY <1>1, <1>4, TypeParts DEF EnsureDone, Activities, Rest, ActsType
  <2>2. Idle(ensure') /\ ~Navigates(ensure') /\ ensure'.orig = None /\ ensure' \in Activities
    BY <2>1, RestAct
  <2>3. UNCHANGED <<tabs, keeper, commandPages, pending, busy, restored, command, refresh,
                    touch, waiting, stalled, authedOnce, memory, session, refreshDue, mishaps>>
    BY <1>2, <1>4 DEF others
  <2>4. TypeOK'
    BY <1>1, <2>1, <2>2, <2>3, TypeParts, NextParts
       DEF tabs, TabsType, TouchType, memory, RolesType, SignsType, ActsType
  <2>5. Moves({}) /\ proof' = proof
    BY <1>1, <2>3, TypeParts DEF KeeperInv, Moves, TabsType, OpenForms, tabs, TouchType
  <2>6. /\ {} \subseteq Page /\ push'.probe = None
        /\ push'.pc \in {"reload", "goto"} => push'.orig # None
        /\ Navigates(push') => push' = push
    BY <2>1 DEF KeeperInv, ProbesInv, OrigInv, Navigates
  <2> QED BY <1>1, <1>3, <2>1, <2>2, <2>3, <2>4, <2>5, <2>6, Arriving
<1>5. ASSUME NEW p \in Free, Lands(p), keeper' = p, UNCHANGED <<push, beat>>,
             ensure' = [Rest EXCEPT !.pc = "recover", !.orig = p]
      PROVE  KeeperInv'
  <2>1. p \in Page /\ p # None /\ p \notin {keeper, command, ensure.orig, ensure.probe,
                                            refresh.orig, push.orig, PendingPage, PendingOrig}
    BY KeeperAssumption, FreeTabs
  <2>2. Moves({p}) /\ proof' = proof
    BY <1>1, <1>2, <1>5, <2>1, Landing, TypeParts DEF KeeperInv
  <2>3. /\ ensure' \in Activities /\ ensure'.pc = "recover" /\ ensure'.orig = p
        /\ ensure'.probe = None /\ ~Probing(ensure') /\ ~Navigates(ensure')
    BY <1>5, <2>1 DEF Rest, Activities, Urls, Probing, Probings, Navigates
  <2>4. UNCHANGED <<commandPages, pending, stalled, authedOnce, memory, refresh, push, beat,
                    session, restored, refreshDue, busy, command, mishaps>>
    BY <1>2, <1>5 DEF others
  <2>5. TypeOK'
    BY <1>1, <1>5, <2>1, <2>2, <2>3, <2>4, TypeParts, NextParts
       DEF Moves, memory, RolesType, SignsType, ActsType
  <2>6. PendingPage' = PendingPage /\ PendingOrig' = PendingOrig
    BY <2>4 DEF PendingPage, PendingOrig
  <2>7. ProbesInv'
    BY <2>3, <2>4, <2>6 DEF KeeperInv, ProbesInv, Probing
  <2>8. PagesInv'
    BY <1>3, <2>3, <2>4, <2>6 DEF KeeperInv, PagesInv, Accounted, Idle
  <2>9. OrigInv'
    <3>1. /\ \A q \in origs \ {None} : url[q] = "closed" => url'[q] = "closed"
          /\ keeper = None \/ url'[keeper] = "closed"
      BY <1>1, <2>1, <2>2, <2>6, TypeParts
         DEF origs, Moves, ActsType, Activities, RolesType, Unfinished, PendingOrig, CurrentKeeper
    <3>2. origs' \subseteq origs \cup {None, keeper'}
      BY <1>5, <2>3, <2>4, <2>6 DEF origs
    <3>3. \A a \in {ensure', refresh'} : Probing(a) => a.orig # None /\ a.orig # a.probe
      BY <2>3, <2>4 DEF KeeperInv, OrigInv
    <3>4. /\ push'.pc \in {"reload", "goto"} => push'.orig # None
          /\ pending' # None => PendingOrig' # PendingPage'
      BY <2>4, <2>6 DEF KeeperInv, OrigInv
    <3> QED BY <1>1, <2>1, <2>3, <3>1, <3>2, <3>3, <3>4, OrigsKept
  <2>10. OfferInv' /\ ProofInv' /\ OpenForms'
    BY <2>2, <2>3, <2>4 DEF KeeperInv, OfferInv, ProofInv, Moves
  <2>11. NavInv'
    <3>1. Navigates(push') => url'[push.orig] = url[push.orig]
      BY <1>1, <2>1, <2>2, <2>4 DEF KeeperInv, OrigInv, Navigates, Activities, Moves
    <3> QED BY <2>3, <2>4, <3>1, NavsKept
  <2> QED BY <2>5, <2>7, <2>8, <2>9, <2>10, <2>11 DEF KeeperInv
<1> QED BY <1>4, <1>5 DEF CreateKeeper


\* Closing tabs is no navigation, and what is closed stays so.
LEMMA OnlyClosed ==
  ASSUME KeeperInv, TypeOK, NEW S, Moves(S), \A p \in S \cap Page : url'[p] = "closed"
  PROVE  \A p \in Page : /\ url'[p] \in {url[p], "closed"}
                         /\ p \notin S => url'[p] = url[p]
BY DEF Moves

LEMMA Picking == ASSUME KeeperInv, PickKeeper PROVE KeeperInv'
<1>1. TypeOK /\ ensure \in Activities /\ refresh \in Activities /\ push \in Activities
      /\ ensure.pc = "pick" /\ restored /\ TabsType /\ TouchType /\ OpenForms
  BY TypeParts DEF KeeperInv, PickKeeper, At, ActsType
<1>2. UNCHANGED <<commandPages, pending, stalled, authedOnce, waiting, refresh, push, beat, others>>
  BY DEF PickKeeper
<1>3. Idle(ensure)
  BY <1>1 DEF KeeperInv, ProbesInv, Idle, Probing, Probings
<1>4. CurrentKeeper \in Page \cup {None} /\ CurrentKeeper \in {None, keeper}
  BY <1>1, KeeperPage
<1>5. UNCHANGED <<commandPages, pending, stalled, authedOnce, waiting, refresh, push, beat,
                  session, restored, refreshDue, busy, command, mishaps>>
  BY <1>2 DEF others
<1>6. PendingPage' = PendingPage /\ PendingOrig' = PendingOrig
  BY <1>5 DEF PendingPage, PendingOrig
<1>7. CASE Choices = {} /\ Go("create") /\ UNCHANGED <<tabs, keeper, memory, touch>>
  <2>1. CurrentKeeper = None
    BY <1>7 DEF Choices
  <2>2. /\ ensure' \in Activities /\ ensure'.pc = "create" /\ ensure'.probe = None
        /\ ensure'.orig = ensure.orig /\ ~Navigates(ensure') /\ Idle(ensure')
    BY <1>1, <1>3, <1>7 DEF Go, Activities, Idle, Probing, Probings, Navigates
  <2>3. TypeOK'
    BY <1>1, <1>5, <1>7, <2>2, TypeParts, NextParts
       DEF tabs, TabsType, TouchType, memory, RolesType, SignsType, ActsType
  <2>4. /\ UNCHANGED <<rolesHeld, refresh>> /\ Clear(ensure, ensure') /\ Clear(push, push')
        /\ push'.probe = None /\ push' = push
                /\ (push'.pc \in {"reload", "goto"} => push'.orig # None)
    BY <1>5, <1>7, <2>2 DEF rolesHeld, tabs, Clear, KeeperInv, ProbesInv, OrigInv
  <2> QED BY <1>1, <1>3, <1>5, <2>1, <2>2, <2>3, <2>4, EnsureMoves
<1>8. ASSUME NEW k \in Choices, keeper' = k,
             Closes((Candidates \ {k}) \cup (IF k \in Completed THEN {CurrentKeeper} ELSE {})),
             IF k \in Completed THEN ClearRecovery ELSE UNCHANGED memory,
             ensure' = [Rest EXCEPT !.pc = "recover", !.orig = k]
      PROVE  KeeperInv'
  <2> DEFINE S == (Candidates \ {k}) \cup (IF k \in Completed THEN {CurrentKeeper} ELSE {})
  <2>1. k \in Page /\ k # None
    BY <1>4, KeeperAssumption DEF Choices, Completed, Candidates, Open
  <2>2. /\ Moves(S) /\ \A p \in S \cap Page : url'[p] = "closed"
        /\ \A p \in proof : p \in {ensure.probe, refresh.probe} => p \in proof'
    <3>1. Closes(S)
      BY <1>8
    <3> HIDE DEF S
    <3> QED BY <1>1, <1>2, <3>1, ClosingTabs
  <2>3. keeper' = keeper \/ keeper = None \/ url'[keeper] = "closed"
    <3>1. CASE k \in Completed
      <4>1. CurrentKeeper # None
        BY <3>1 DEF Completed
      <4>2. keeper \in S \cap Page
        BY <1>4, <3>1, <4>1
      <4> QED BY <2>2, <4>2
    <3>2. CASE k \notin Completed /\ CurrentKeeper # None
      <4>1. Completed = {}
        BY <3>2 DEF Choices
      <4> QED BY <1>4, <1>8, <3>2, <4>1 DEF Choices
    <3>3. CASE CurrentKeeper = None /\ keeper # None
      <4>1. keeper \in Page /\ url[keeper] = "closed"
        BY <1>1, <3>3, TypeParts DEF CurrentKeeper, RolesType
      <4> QED BY <1>1, <2>2, <4>1, OnlyClosed
    <3> QED BY <3>1, <3>2, <3>3
  <2> HIDE DEF S
  <2>4. /\ ensure' \in Activities /\ ensure'.pc = "recover" /\ ensure'.orig = k
        /\ ensure'.probe = None /\ ~Probing(ensure') /\ ~Navigates(ensure')
    BY <1>8, <2>1 DEF Rest, Activities, Urls, Probing, Probings, Navigates
  <2>5. {reauthSeen', loginSeen', attempt'} \subseteq Ages
    BY <1>1, <1>8, TypeParts DEF memory, SignsType, ClearRecovery, Ages
  <2>6. TypeOK'
    BY <1>1, <1>5, <1>8, <2>1, <2>2, <2>4, <2>5, TypeParts, NextParts
       DEF Moves, RolesType, SignsType, ActsType
  <2>7. ProbesInv'
    BY <1>5, <1>6, <2>4 DEF KeeperInv, ProbesInv, Probing
  <2>8. PagesInv'
    BY <1>3, <1>5, <1>6, <2>4 DEF KeeperInv, PagesInv, Accounted, Idle
  <2>9. \A p \in (origs \cup {keeper}) \ {None} : p \in Page /\ url'[p] \in {url[p], "closed"}
    <3>1. \A p \in (origs \cup {keeper}) \ {None} : p \in Page
      BY <1>1, TypeParts DEF origs, ActsType, Activities, RolesType, Unfinished, PendingOrig
    <3> QED BY <1>1, <2>2, <3>1, OnlyClosed
  <2>10. OrigInv'
    <3>1. origs' \subseteq origs \cup {None, keeper'}
      BY <1>5, <1>6, <1>8, <2>4 DEF origs
    <3>2. \A a \in {ensure', refresh'} : Probing(a) => a.orig # None /\ a.orig # a.probe
      BY <1>5, <2>4 DEF KeeperInv, OrigInv
    <3>3. /\ push'.pc \in {"reload", "goto"} => push'.orig # None
          /\ pending' # None => PendingOrig' # PendingPage'
      BY <1>5, <1>6 DEF KeeperInv, OrigInv
    <3>4. \A q \in origs \ {None} : url[q] = "closed" => url'[q] = "closed"
      BY <2>9
    <3> QED BY <1>1, <2>1, <2>3, <2>4, <3>1, <3>2, <3>3, <3>4, OrigsKept
  <2>11. OfferInv' /\ ProofInv' /\ OpenForms'
    BY <1>5, <2>2, <2>4 DEF KeeperInv, OfferInv, ProofInv, Moves
  <2>12. NavInv'
    <3>1. Navigates(push') => url'[push.orig] \in {url[push.orig], "closed"}
      BY <1>1, <1>5, <2>9 DEF KeeperInv, OrigInv, Navigates, origs
    <3> QED BY <1>5, <2>4, <3>1, NavsKept
  <2> QED BY <2>6, <2>7, <2>8, <2>10, <2>11, <2>12 DEF KeeperInv
<1> QED BY <1>7, <1>8 DEF PickKeeper

LEMMA Restoring == ASSUME KeeperInv, RestorePages PROVE KeeperInv'
<1>1. TypeOK /\ ensure \in Activities /\ refresh \in Activities /\ push \in Activities
      /\ ~restored /\ restored' = TRUE /\ TabsType /\ TouchType /\ OpenForms
  BY TypeParts DEF KeeperInv, RestorePages, ActsType
<1>2. UNCHANGED <<commandPages, pending, stalled, authedOnce, reauthSeen, attempt, waiting, ensure,
                  refresh, push, beat, session, refreshDue, busy, command, mishaps>>
  BY DEF RestorePages
<1>3. /\ commandPages = {} /\ ensure.probe = None /\ refresh.probe = None
      /\ ~Probing(ensure) /\ ~Probing(refresh) /\ ensure.pc # "create"
  BY <1>1 DEF KeeperInv, PagesInv, ProbesInv, OrigInv, Probing
<1>4. PendingPage' = PendingPage /\ PendingOrig' = PendingOrig
  BY <1>2 DEF PendingPage, PendingOrig
<1>5. ProbesInv' /\ PagesInv' /\ OfferInv' /\ ProofInv'
  BY <1>1, <1>2, <1>3, <1>4 DEF KeeperInv, ProbesInv, PagesInv, OfferInv, ProofInv, Accounted,
          Probing, Probings
<1>6. CASE UNCHANGED <<keeper, tabs, loginSeen, touch>>
  <2>1. TypeOK'
    BY <1>1, <1>2, <1>6, TypeParts, NextParts
       DEF tabs, TabsType, TouchType, RolesType, SignsType, ActsType
  <2>2. OrigInv' /\ NavInv' /\ OpenForms'
    BY <1>2, <1>3, <1>4, <1>6 DEF tabs, KeeperInv, OrigInv, NavInv, OpenForms, Navigates, Probing
  <2> QED BY <1>5, <2>1, <2>2 DEF KeeperInv
<1>7. ASSUME NEW k \in Preferred, keeper' = k, loginSeen' \in {loginSeen, Noted(loginSeen)},
             Closes(Open \ {k})
      PROVE  KeeperInv'
  <2>1. k \in Page /\ k # None
    <3>1. PICK i \in 1..4 :
            k \in <<{p \in Open : url[p] = "settled"}, {p \in Open : url[p] = "unsettled"},
                    {p \in Open : url[p] = "login"}, {p \in Open : url[p] = "blank"}>>[i]
      BY DEF Preferred
    <3>2. i \in {1, 2, 3, 4}
      OBVIOUS
    <3> QED BY <3>1, <3>2, KeeperAssumption DEF Open
  <2>2. Moves(Open \ {k}) /\ \A p \in (Open \ {k}) \cap Page : url'[p] = "closed"
    BY <1>1, <1>2, <1>7, ClosingTabs
  <2>3. loginSeen' \in Ages
    BY <1>1, <1>7, TypeParts, NotedAge DEF SignsType
  <2>4. TypeOK'
    BY <1>1, <1>2, <1>7, <2>1, <2>2, <2>3, TypeParts, NextParts
       DEF Moves, RolesType, SignsType, ActsType
  <2>5. \A p \in Page : url'[p] = "closed" \/ (p = k /\ url'[p] = url[p])
    BY <2>1, <2>2 DEF Moves, Open
  <2>6. \A p \in (origs \cup {keeper}) \ {None} : p \in Page
    BY <1>1, TypeParts DEF origs, ActsType, Activities, RolesType, Unfinished, PendingOrig
  <2>7. OrigInv'
    <3>1. /\ push'.pc \in {"reload", "goto"} => push'.orig # None
          /\ pending' # None => PendingOrig' # PendingPage'
          /\ ensure'.pc \in {"recover", "inspect", "reload", "touch", "goto", "close"} => ensure'.orig # None
      BY <1>2, <1>4 DEF KeeperInv, OrigInv
    <3>2. origs' \subseteq origs \cup {None, keeper'}
      BY <1>2, <1>4 DEF origs
    <3>3. \A a \in {ensure', refresh'} : ~Probing(a)
      BY <1>2, <1>3
    <3> QED BY <1>2, <1>3, <1>7, <2>5, <2>6, <3>1, <3>2, <3>3, OrigsKept
  <2>8. OpenForms'
    BY <2>2 DEF Moves
  <2>9. NavInv'
    <3>1. \A a \in {ensure', push'} : Navigates(a) => url'[a.orig] \in {url[a.orig], "closed"}
      BY <1>1, <1>2, <2>5, <2>6 DEF KeeperInv, OrigInv, Navigates, origs
    <3> QED BY <1>2, <3>1, NavsKept
  <2> QED BY <1>5, <2>4, <2>7, <2>8, <2>9 DEF KeeperInv
<1> QED BY <1>6, <1>7 DEF RestorePages


-----------------------------------------------------------------------------
(* The unfinished sign-in, after the ensure that left it. *)

Offering == {"resume", "judge", "offer", "swap"}

LEMMA PendingFacts ==
  ASSUME KeeperInv, pending # None
  PROVE  /\ pending.page = PendingPage /\ pending.orig = PendingOrig
         /\ PendingPage \in Page /\ PendingOrig \in Page /\ PendingPage # PendingOrig
         /\ PendingPage # None /\ PendingOrig # None /\ pending.was \in Urls
         /\ PendingPage \in commandPages /\ PendingPage \notin {refresh.probe, command}
BY TypeParts, KeeperAssumption
   DEF KeeperInv, OrigInv, PagesInv, RolesType, Unfinished, PendingPage, PendingOrig

LEMMA OrigFacts ==
  ASSUME KeeperInv, ensure.pc # "close"
  PROVE  /\ push.probe = None /\ (push.pc \in {"reload", "goto"} => push.orig # None)
         /\ \A p \in origs : p = None \/ p = keeper \/ url[p] = "closed"
         /\ \A p \in origs \cup {keeper} : p \in Page \cup {None}
BY TypeParts, KeeperAssumption
   DEF KeeperInv, ProbesInv, OrigInv, origs, ActsType, Activities, RolesType, Unfinished,
       PendingOrig

\* Between two looks nothing but the program counter moves.
LEMMA Considering ==
  ASSUME KeeperInv, ensure.pc \in Offering, OfferInv',
         ensure' \in Activities, ensure'.pc \in {"pick", "judge", "offer", "swap"},
         ensure'.probe = None, ensure'.orig = None,
         UNCHANGED <<tabs, roles, memory, flights, refresh, push, beat, others>>
  PROVE  KeeperInv'
<1>1. TypeOK /\ ensure \in Activities
  BY TypeParts DEF KeeperInv, ActsType
<1>2. Idle(ensure) /\ Idle(ensure') /\ ~Navigates(ensure') /\ ensure.pc # "close"
  BY DEF KeeperInv, ProbesInv, Idle, Probing, Probings, Navigates, Offering
<1>3. TypeOK'
  BY <1>1, TypeParts, NextParts
     DEF tabs, roles, memory, flights, others, TabsType, TouchType, RolesType, SignsType, ActsType
<1>4. /\ UNCHANGED <<rolesHeld, refresh>> /\ beat' = beat
      /\ Clear(ensure, ensure') /\ Clear(push, push')
  BY <1>2 DEF rolesHeld, tabs, roles, others, Clear
<1>5. /\ push'.probe = None /\ push'.orig = push.orig
      /\ push'.pc \in {"reload", "goto"} => push'.orig # None
  BY DEF KeeperInv, ProbesInv, OrigInv
<1> QED BY <1>2, <1>3, <1>4, <1>5, EnsureMoves

LEMMA ResumesParts ==
  ASSUME Resumes
  PROVE  /\ ensure' \in Activities /\ ensure'.pc = "pick" /\ ensure'.probe = None
         /\ ensure'.orig = None /\ Idle(ensure') /\ ~Navigates(ensure') /\ OfferInv'
BY DEF Resumes, Rest, Activities, Urls, Idle, Probing, Probings, Navigates, OfferInv

LEMMA Discarding ==
  ASSUME KeeperInv, ensure.pc \in Offering, pending # None, DiscardPending,
         UNCHANGED <<refresh, push, beat, others>>
  PROVE  KeeperInv'
<1>1. TypeOK /\ TabsType /\ TouchType /\ OpenForms /\ restored' = restored
  BY TypeParts DEF KeeperInv, others
<1>2. UNCHANGED <<refresh, push, beat, session, restored, refreshDue, busy, command, mishaps,
                  keeper, stalled, authedOnce, memory, waiting>>
  BY DEF DiscardPending, others
<1>3. /\ pending' = None /\ commandPages' = commandPages \ {PendingPage}
      /\ Moves({PendingPage}) /\ url'[PendingPage] = "closed"
      /\ \A q \in proof : q \in {ensure.probe, refresh.probe} => q \in proof'
  BY <1>1, <1>2, ClosingTabs, PendingFacts DEF DiscardPending, Discards
<1>4. /\ ensure' \in Activities /\ ensure'.pc = "pick" /\ ensure'.probe = None
      /\ ensure'.orig = None /\ Idle(ensure') /\ ~Navigates(ensure') /\ OfferInv'
  BY ResumesParts DEF DiscardPending
<1>5. Idle(ensure) /\ ensure.pc # "close"
  BY DEF KeeperInv, ProbesInv, Idle, Probing, Probings, Offering
<1>6. PendingPage' = None /\ PendingOrig' = None
  BY <1>3 DEF PendingPage, PendingOrig
<1>7. TypeOK'
  BY <1>1, <1>2, <1>3, <1>4, TypeParts, NextParts DEF Moves, memory, RolesType, SignsType, ActsType
<1>8. ProbesInv'
  BY <1>2, <1>4, <1>6 DEF KeeperInv, ProbesInv, Probing, Probings
<1>9. PagesInv'
  BY <1>1, <1>2, <1>3, <1>4, <1>5, <1>6, PendingFacts, Aside
     DEF KeeperInv, PagesInv, Accounted, Idle
<1>10. \A p \in Page : url'[p] \in {url[p], "closed"}
  BY <1>3 DEF Moves
<1>11. OrigInv'
  <2>1. origs' \subseteq origs \cup {None, keeper'}
    BY <1>2, <1>4, <1>6 DEF origs
  <2>2. \A a \in {ensure', refresh'} : Probing(a) => a.orig # None /\ a.orig # a.probe
    BY <1>2, <1>4 DEF KeeperInv, OrigInv, Idle
  <2> QED BY <1>2, <1>3, <1>4, <1>5, <1>10, <2>1, <2>2, OrigFacts, OrigsKept
<1>12. ProofInv' /\ OpenForms'
  BY <1>2, <1>3, <1>4 DEF KeeperInv, ProofInv, Moves
<1>13. NavInv'
  <2>1. Navigates(push') => push.orig \in Page
    BY <1>2, <1>5, OrigFacts DEF Navigates, origs
  <2> QED BY <1>2, <1>3, <1>4, <1>10, <2>1, NavsKept
<1> QED BY <1>4, <1>7, <1>8, <1>9, <1>11, <1>12, <1>13 DEF KeeperInv

LEMMA Resuming == ASSUME KeeperInv, ResumePending PROVE KeeperInv'
<1>1. TypeOK /\ ensure.pc = "resume" /\ ensure.pc \in Offering
      /\ UNCHANGED <<refresh, push, beat, others>>
  BY DEF KeeperInv, ResumePending, At, Offering
<1>2. CASE Resumes /\ UNCHANGED <<tabs, roles, memory, flights>>
  BY <1>1, <1>2, ResumesParts, Considering
<1>3. CASE pending # None /\ DiscardPending
  BY <1>1, <1>3, Discarding
<1>4. CASE /\ pending # None /\ ensure' = [Rest EXCEPT !.pc = "judge"]
           /\ UNCHANGED <<tabs, roles, memory, flights>>
  <2>1. /\ ensure' \in Activities /\ ensure'.pc = "judge" /\ ensure'.probe = None
        /\ ensure'.orig = None
    BY <1>4 DEF Rest, Activities, Urls
  <2>2. OfferInv'
    BY <1>4, <2>1 DEF OfferInv, roles
  <2> QED BY <1>1, <1>4, <2>1, <2>2, Considering
<1>5. CASE /\ pending # None
           /\ ensure' = [pc |-> "read", via |-> "resume", probe |-> pending.page,
                         orig |-> pending.orig, was |-> pending.was, saw |-> "none"]
           /\ UNCHANGED <<tabs, roles, memory, flights>>
  <2> DEFINE O == PendingOrig
  <2>1. /\ ensure' \in Activities /\ ensure'.pc = "read" /\ ensure'.probe = PendingPage
        /\ ensure'.orig = PendingOrig /\ ensure'.via = "resume" /\ Probing(ensure')
        /\ ~Navigates(ensure')
    BY <1>5, PendingFacts DEF Activities, Probing, Probings, Navigates
  <2>2. UNCHANGED <<url, form, proof, roles, memory, flights, restored, busy, command, session,
                    refreshDue, mishaps>>
        /\ PendingPage' = PendingPage /\ PendingOrig' = PendingOrig
    BY <1>1, <1>5 DEF tabs, roles, others, PendingPage, PendingOrig
  <2>3. Idle(ensure) /\ ensure.pc # "close"
    BY <1>1 DEF KeeperInv, ProbesInv, Idle, Probing, Probings
  <2>4. TypeOK'
    BY <1>1, <2>1, <2>2, TypeParts, NextParts
       DEF roles, memory, flights, TabsType, TouchType, RolesType, SignsType, ActsType
  <2> USE DEF roles
  <2>5. ProbesInv'
    BY <1>1, <1>5, <2>1, <2>2, PendingFacts DEF KeeperInv, ProbesInv, Probing
  <2>6. PagesInv'
    BY <1>1, <1>5, <2>1, <2>2, <2>3, PendingFacts, Aside DEF KeeperInv, PagesInv, Accounted, Idle
  <2>7. OrigInv'
    <3>1. origs' \subseteq origs \cup {None, keeper'}
      BY <1>1, <2>1, <2>2 DEF origs
    <3>2. \A a \in {ensure', refresh'} : Probing(a) => a.orig # None /\ a.orig # a.probe
      BY <1>1, <1>5, <2>1, PendingFacts DEF KeeperInv, OrigInv
    <3>3. pending' # None => PendingOrig' # PendingPage'
      BY <1>5, <2>2, PendingFacts
    <3> QED BY <1>1, <2>1, <2>2, <2>3, <3>1, <3>2, <3>3, OrigFacts, OrigsKept
  <2>8. OfferInv' /\ ProofInv' /\ OpenForms' /\ NavInv'
    BY <1>1, <2>1, <2>2, NavsKept DEF KeeperInv, OfferInv, ProofInv, OpenForms
  <2> QED BY <2>4, <2>5, <2>6, <2>7, <2>8 DEF KeeperInv
<1> QED BY <1>2, <1>3, <1>4, <1>5 DEF ResumePending

\* What a look can show that is not taken for a form.
LEMMA LookedAway ==
  /\ \A page : \A s \in Looks(page) : ~HasVisibleInput(s) => s \in {"nothing", "missed"}
  /\ \A s \in LooksAtOriginal : ~HasVisibleInput(s) => s \in {"nothing", "missed"}
BY DEF Looks, LooksAtOriginal, HasVisibleInput

LEMMA Judging == ASSUME KeeperInv, JudgePending \/ OfferPending PROVE KeeperInv'
<1>1. /\ TypeOK /\ ensure.pc \in {"judge", "offer"} /\ ensure.pc \in Offering /\ pending # None
      /\ UNCHANGED <<refresh, push, beat, others>>
  BY DEF KeeperInv, OfferInv, JudgePending, OfferPending, At, Offering
<1>2. CASE DiscardPending
  BY <1>1, <1>2, Discarding
<1>3. CASE Resumes /\ UNCHANGED <<tabs, roles, memory, flights>>
  BY <1>1, <1>3, ResumesParts, Considering
<1>4. CASE ensure' = [Rest EXCEPT !.pc = "offer"] /\ UNCHANGED <<tabs, roles, memory, flights>>
  <2>1. /\ ensure' \in Activities /\ ensure'.pc = "offer" /\ ensure'.probe = None
        /\ ensure'.orig = None
    BY <1>4 DEF Rest, Activities, Urls
  <2>2. OfferInv'
    BY <1>1, <1>4, <2>1 DEF OfferInv, roles
  <2> QED BY <1>1, <1>4, <2>1, <2>2, Considering
<1>5. ASSUME NEW s \in {"nothing", "missed"}, ensure' = [Rest EXCEPT !.pc = "swap", !.saw = s],
             UNCHANGED <<tabs, roles, memory, flights>>
      PROVE  KeeperInv'
  <2>1. /\ ensure' \in Activities /\ ensure'.pc = "swap" /\ ensure'.probe = None
        /\ ensure'.orig = None /\ ensure'.saw = s
    BY <1>5 DEF Rest, Activities, Urls
  <2>2. OfferInv'
    BY <1>1, <1>5, <2>1 DEF OfferInv, roles
  <2> QED BY <1>1, <1>5, <2>1, <2>2, Considering
<1>6. CASE JudgePending
  BY <1>2, <1>3, <1>4, <1>6 DEF JudgePending
<1>7. CASE OfferPending
  BY <1>2, <1>5, <1>7, LookedAway DEF OfferPending
<1> QED BY <1>6, <1>7

LEMMA Swapping == ASSUME KeeperInv, SwapPending PROVE KeeperInv'
<1>1. /\ TypeOK /\ ensure \in Activities /\ ensure.pc = "swap" /\ ensure.pc \in Offering
      /\ restored /\ pending # None /\ UNCHANGED <<refresh, push, beat, others>>
      /\ TabsType /\ TouchType /\ RolesType /\ SignsType
  BY TypeParts DEF KeeperInv, OfferInv, SwapPending, At, Offering, ActsType
<1>2. CASE DiscardPending
  BY <1>1, <1>2, Discarding
<1>3. CASE /\ OriginalStands
           /\ keeper' = pending.page /\ commandPages' = commandPages \ {pending.page}
           /\ pending' = None /\ stalled' = pending.page /\ loginSeen' = Noted(loginSeen)
           /\ touch' = None /\ waiting' = Older
           /\ ensure' = [ensure EXCEPT !.pc = "close", !.orig = pending.orig]
           /\ UNCHANGED <<tabs, authedOnce, reauthSeen, attempt>>
  <2>1. /\ PendingOrig = keeper /\ keeper \in Page /\ keeper # None
        /\ PendingPage' = None /\ PendingOrig' = None
    BY <1>1, <1>3, KeeperPage, PendingFacts DEF OriginalStands, PendingPage, PendingOrig
  <2>2. /\ ensure' \in Activities /\ ensure'.pc = "close" /\ ensure'.orig = keeper
        /\ ensure'.probe = None /\ ensure'.saw = ensure.saw
        /\ ~Probing(ensure') /\ ~Navigates(ensure')
    BY <1>1, <1>3, <2>1, PendingFacts
       DEF Activities, KeeperInv, ProbesInv, Probing, Probings, Navigates
  <2>3. Idle(ensure) /\ ensure.pc # "close"
    BY <1>1 DEF KeeperInv, ProbesInv, Idle, Probing, Probings
  <2>4. UNCHANGED <<url, form, proof, refresh, push, beat, session, restored, refreshDue, busy,
                    command, mishaps>>
    BY <1>1, <1>3 DEF tabs, others
  <2>5. TypeOK'
    <3>1. loginSeen' \in Ages /\ TouchType'
      BY <1>1, <1>3, OlderType, NotedAge DEF SignsType, TouchType
    <3> QED BY <1>1, <1>3, <2>2, <2>4, <3>1, PendingFacts, TypeParts, NextParts
            DEF TabsType, RolesType, SignsType, ActsType
  <2>6. ProbesInv'
    BY <1>3, <2>1, <2>2, <2>4 DEF KeeperInv, ProbesInv, Probing
  <2>7. PagesInv'
    BY <1>1, <1>3, <2>1, <2>2, <2>3, <2>4, PendingFacts, Aside
       DEF KeeperInv, PagesInv, Accounted, Idle
  <2>8. OrigInv'
    <3>1. origs' \subseteq origs \cup {None, keeper'}
      BY <2>1, <2>2, <2>4 DEF origs
    <3>2. \A a \in {ensure', refresh'} : Probing(a) => a.orig # None /\ a.orig # a.probe
      BY <2>2, <2>4 DEF KeeperInv, OrigInv
    <3>3. \A q \in origs \ {None} : url[q] = "closed" => url'[q] = "closed"
      BY <2>4
    <3>4. pending' = None /\ (push'.pc \in {"reload", "goto"} => push'.orig # None)
      BY <1>3, <2>3, <2>4, OrigFacts
    <3> QED BY <2>1, <2>2, <2>3, <3>1, <3>2, <3>3, <3>4, OrigsKept
  <2>9. OfferInv' /\ ProofInv' /\ OpenForms'
    BY <1>1, <2>2, <2>4 DEF KeeperInv, OfferInv, ProofInv, OpenForms
  <2>10. NavInv'
    <3>1. Navigates(push') => Navigates(push) /\ push.orig \in origs /\ push.orig # None
      BY <2>3, <2>4, OrigFacts DEF Navigates, origs
    <3>2. Navigates(push') => push.orig # PendingPage \/ url[push.orig] = "closed"
      BY <1>1, <2>1, <2>3, <3>1, OrigFacts, PendingFacts
    <3>3. commandPages' = commandPages \ {PendingPage}
      BY <1>1, <1>3, PendingFacts
    <3>4. \A a \in {ensure', push'} : Navigates(a) =>
            /\ url'[a.orig] = url[a.orig]
            /\ a.orig \in commandPages => a.orig \in commandPages' \/ url'[a.orig] # "login"
      BY <2>2, <2>4, <3>1, <3>2, <3>3
    <3> QED BY <2>2, <2>4, <3>1, <3>4, NavsKept
  <2> QED BY <2>5, <2>6, <2>7, <2>8, <2>9, <2>10 DEF KeeperInv
<1> QED BY <1>2, <1>3 DEF SwapPending

LEMMA ClosingReplaced == ASSUME KeeperInv, CloseReplaced PROVE KeeperInv'
<1>1. /\ TypeOK /\ ensure.pc = "close" /\ restored /\ TabsType /\ TouchType /\ OpenForms
      /\ ensure.orig \in Page
  BY TypeParts DEF KeeperInv, CloseReplaced, At, ActsType, Activities, OrigInv
<1>2. UNCHANGED <<roles, memory, waiting, refresh, push, beat, session, restored, refreshDue, busy,
                  command, mishaps>>
  BY DEF CloseReplaced, others
<1>3. /\ ensure' \in Activities /\ ensure'.pc = "pick" /\ ensure'.probe = None
      /\ ensure'.orig = None /\ Idle(ensure') /\ ~Navigates(ensure') /\ OfferInv'
  BY ResumesParts DEF CloseReplaced
<1>4. Idle(ensure)
  BY <1>1 DEF KeeperInv, ProbesInv, Idle, Probing, Probings
<1>5. /\ Moves({ensure.orig}) /\ url'[ensure.orig] = "closed"
      /\ \A q \in proof : q \in {ensure.probe, refresh.probe} => q \in proof'
  BY <1>1, <1>2, ClosingTabs DEF CloseReplaced
<1>6. PendingPage' = PendingPage /\ PendingOrig' = PendingOrig
  BY <1>2 DEF roles, PendingPage, PendingOrig
<1>7. TypeOK'
  BY <1>1, <1>2, <1>3, <1>5, TypeParts, NextParts
     DEF Moves, roles, memory, RolesType, SignsType, ActsType
<1>8. ProbesInv' /\ PagesInv'
  BY <1>2, <1>3, <1>4, <1>6 DEF KeeperInv, ProbesInv, PagesInv, Accounted, Probing, Idle, roles
<1>9. \A p \in (origs \cup {keeper}) \ {None} : p \in Page /\ url'[p] \in {url[p], "closed"}
  <2>1. \A p \in (origs \cup {keeper}) \ {None} : p \in Page
    BY <1>1, TypeParts DEF origs, ActsType, Activities, RolesType, Unfinished, PendingOrig
  <2> QED BY <1>5, <2>1 DEF Moves
<1>10. OrigInv'
  <2>1. origs' \subseteq origs \cup {None, keeper'}
    BY <1>2, <1>3, <1>6 DEF origs
  <2>2. \A a \in {ensure', refresh'} : Probing(a) => a.orig # None /\ a.orig # a.probe
    BY <1>2, <1>3 DEF KeeperInv, OrigInv, Idle
  <2>3. /\ push'.pc \in {"reload", "goto"} => push'.orig # None
        /\ pending' # None => PendingOrig' # PendingPage'
    BY <1>2, <1>6 DEF KeeperInv, OrigInv, roles
  <2> QED BY <1>2, <1>3, <1>5, <1>9, <2>1, <2>2, <2>3, OrigsKept DEF roles
<1>11. ProofInv' /\ OpenForms'
  BY <1>2, <1>3, <1>5 DEF KeeperInv, ProofInv, Moves
<1>12. NavInv'
  <2>1. Navigates(push') => push.orig \in origs /\ push.orig # None
    BY <1>2 DEF Navigates, origs, KeeperInv, OrigInv
  <2> QED BY <1>2, <1>3, <1>9, <2>1, NavsKept DEF roles
<1> QED BY <1>3, <1>7, <1>8, <1>10, <1>11, <1>12 DEF KeeperInv


-----------------------------------------------------------------------------
(* The work of a probe. *)

Other(w) == IF w = "ensure" THEN refresh ELSE ensure

\* What is known of an activity that works in a probe.
LEMMA ProbeFacts ==
  ASSUME KeeperInv, NEW w \in Prober, Probing(Activity(w))
  PROVE  LET a == Activity(w) IN
         /\ a \in Activities /\ a.probe \in Page /\ a.probe # None /\ a.orig \in Page
         /\ a.orig # None /\ a.orig # a.probe /\ a.probe \in commandPages
         /\ a.probe \notin {Other(w).probe, command} /\ restored
         /\ w = "ensure" => /\ a.via \in {"login", "sso", "resume"}
                            /\ a.via = "resume" => a.probe = PendingPage
                            /\ a.via # "resume" => pending = None
         /\ w = "refresh" => a.via = "refresh" /\ beat = "refresh" /\ a.probe # PendingPage
                             /\ a.was = "settled"
<1>1. TypeOK /\ ActsType /\ RolesType
  BY TypeParts DEF KeeperInv
<1>2. w \in {"ensure", "refresh"}
  BY DEF Prober
<1>3. Activity(w) \in {ensure, refresh} /\ Activity(w) \in Activities
  BY <1>1 DEF Activity, ActsType
<1>4. Activity(w).probe # None /\ Activity(w).probe \in commandPages
  BY <1>3 DEF KeeperInv, ProbesInv, PagesInv
<1>5. Activity(w).orig # None /\ Activity(w).orig # Activity(w).probe
  BY <1>3 DEF KeeperInv, OrigInv
<1>6. restored
  BY <1>4 DEF KeeperInv, PagesInv
<1>7. Activity(w).probe \in Page /\ Activity(w).orig \in Page
  BY <1>1, <1>3, <1>4, <1>5 DEF Activities
<1>8. CASE w = "ensure"
  <2>1. Activity(w) = ensure /\ Other(w) = refresh
    BY <1>8 DEF Activity, Other
  <2> QED BY <1>3, <1>4, <1>5, <1>6, <1>7, <1>8, <2>1 DEF KeeperInv, ProbesInv, PagesInv
<1>9. CASE w = "refresh"
  <2>1. Activity(w) = refresh /\ Other(w) = ensure
    BY <1>9 DEF Activity, Other
  <2>2. refresh.probe # ensure.probe
    BY <1>4, <2>1 DEF KeeperInv, PagesInv
  <2> QED BY <1>3, <1>4, <1>5, <1>6, <1>7, <1>9, <2>1, <2>2 DEF KeeperInv, ProbesInv, PagesInv
<1> QED BY <1>2, <1>8, <1>9

\* Where an activity goes on without its probe.
LEMMA OverAct ==
  ASSUME KeeperInv, NEW w \in Prober, Probing(Activity(w))
  PROVE  /\ Over(w) \in Activities /\ Over(w).probe = None /\ Over(w).orig = None
         /\ ~Probing(Over(w)) /\ ~Navigates(Over(w))
         /\ w = "ensure" => Over(w).pc \in {"pick", "final"}
         /\ w = "refresh" => Over(w).pc = "rest"
<1>1. /\ w = "ensure" => Activity(w).via \in {"login", "sso", "resume"}
      /\ w = "refresh" => Activity(w).via = "refresh"
      /\ w \in {"ensure", "refresh"}
  BY ProbeFacts DEF Prober
<1>2. /\ w = "ensure" => Over(w).pc \in {"pick", "final"}
      /\ w = "refresh" => Over(w).pc = "rest"
  BY <1>1 DEF Over, Rest
<1>3. Over(w) \in Activities /\ Over(w).probe = None /\ Over(w).orig = None
  BY <1>1 DEF Over, Rest, Activities, Urls
<1> QED BY <1>1, <1>2, <1>3 DEF Probing, Probings, Navigates

\* The activity w becomes a, the other one stays.
LEMMA BecomesParts ==
  ASSUME NEW w \in Prober, NEW a, Becomes(w, a)
  PROVE  /\ Activity(w)' = a /\ Other(w)' = Other(w)
         /\ beat' = beat \/ (w = "refresh" /\ beat' = "rest")
         /\ w = "ensure" => ensure' = a /\ refresh' = refresh
         /\ w = "refresh" => refresh' = a /\ ensure' = ensure /\ (a.pc # "rest" => beat' = beat)
BY DEF Becomes, Activity, Other, Prober


(* A step of the activity in its probe. *)
LEMMA ProbeSteps ==
  ASSUME KeeperInv, TypeOK', NEW w \in Prober, Probing(Activity(w)), NEW pc \in Probings,
         NEW saw, Becomes(w, [Activity(w) EXCEPT !.pc = pc, !.saw = saw]),
         UNCHANGED <<keeper, commandPages, pending, push, restored, busy, command>>,
         NEW S, S \subseteq {Activity(w).probe}, Moves(S),
         \A p \in S : url[p] # "closed" /\ url'[p] # "closed",
         proof \subseteq proof',
         pc \in {"native", "look", "replace"} => Activity(w).probe \in proof',
         pc \in {"look", "replace"} => Activity(w).via \in {"login", "resume"},
         pc = "replace" => saw \in {"nothing", "missed"}
  PROVE  KeeperInv'
<1> DEFINE A == Activity(w)
           B == [A EXCEPT !.pc = pc, !.saw = saw]
<1>1. /\ A \in Activities /\ A.probe \in Page /\ A.probe # None /\ A.orig \in Page
      /\ A.orig # None /\ A.orig # A.probe /\ A.probe \in commandPages /\ restored
      /\ w \in {"ensure", "refresh"}
  BY ProbeFacts DEF Prober
<1>2. /\ B.probe = A.probe /\ B.orig = A.orig /\ B.via = A.via /\ B.was = A.was /\ B.pc = pc
      /\ B.saw = saw /\ Probing(B) /\ ~Navigates(B)
      /\ pc \notin {"recover", "inspect", "reload", "touch", "goto", "close", "create", "rest",
                    "judge", "offer", "swap"}
  BY <1>1 DEF Activities, Probing, Probings, Navigates
<1>3. /\ w = "ensure" => A = ensure /\ ensure' = B /\ refresh' = refresh /\ beat' = beat
      /\ w = "refresh" => A = refresh /\ refresh' = B /\ ensure' = ensure /\ beat' = beat
  BY <1>2, BecomesParts DEF Activity
<1>4. PendingPage' = PendingPage /\ PendingOrig' = PendingOrig
  BY DEF PendingPage, PendingOrig
<1>5. /\ beat' = beat /\ ensure'.probe = ensure.probe /\ refresh'.probe = refresh.probe
      /\ ensure'.orig = ensure.orig /\ refresh'.orig = refresh.orig
      /\ ensure'.via = ensure.via /\ refresh'.via = refresh.via /\ refresh'.was = refresh.was
      /\ \/ ensure' = ensure
         \/ Probing(ensure) /\ Probing(ensure') /\ ensure'.pc = pc /\ ensure'.saw = saw
      /\ refresh' = refresh \/ (Probing(refresh) /\ Probing(refresh') /\ refresh'.pc = pc)
  BY <1>1, <1>2, <1>3
<1> HIDE DEF A, B
<1>6. ProbesInv'
  <2>1. refresh'.pc \in Probings \cup {"rest"}
    BY <1>5 DEF KeeperInv, ProbesInv, Probing
  <2>2. ensure'.pc \in {"inspect", "reload", "touch"} => ensure' = ensure
    BY <1>5 DEF Probing, Probings
  <2> QED BY <1>4, <1>5, <2>1, <2>2 DEF KeeperInv, ProbesInv
<1>7. PagesInv'
  BY <1>4, <1>5 DEF KeeperInv, PagesInv, Accounted
<1>8. /\ \A p \in Page : url'[p] = "closed" <=> url[p] = "closed"
      /\ \A p \in Page \ {Activity(w).probe} : url'[p] = url[p]
  BY DEF Moves
<1>9. \A p \in origs \cup {keeper} : p \in Page \cup {None}
  BY TypeParts, KeeperAssumption
     DEF KeeperInv, ActsType, RolesType, Activities, Unfinished, PendingOrig, origs
<1>10. OrigInv'
  <2>1. origs' \subseteq origs \cup {None, keeper'}
    BY <1>4, <1>5 DEF origs
  <2>2. \A a \in {ensure', refresh'} : Probing(a) => a.orig # None /\ a.orig # a.probe
    BY <1>5 DEF KeeperInv, OrigInv
  <2>3. CurrentKeeper = None => CurrentKeeper' = None
    BY <1>8, <1>9 DEF CurrentKeeper
  <2>4. /\ ensure'.pc \in {"recover", "inspect", "reload", "touch", "goto", "close"} => ensure'.orig # None
        /\ ensure'.pc = "create" => CurrentKeeper' = None /\ restored'
    <3>1. ensure'.pc \in {"recover", "inspect", "reload", "touch", "goto", "close", "create"}
            => ensure' = ensure
      BY <1>5 DEF Probing, Probings
    <3> QED BY <2>3, <3>1 DEF KeeperInv, OrigInv
  <2>5. /\ push'.pc \in {"reload", "goto"} => push'.orig # None
        /\ pending' # None => PendingOrig' # PendingPage'
    BY <1>4 DEF KeeperInv, OrigInv
  <2>6. \A q \in origs \ {None} : url[q] = "closed" => url'[q] = "closed"
    BY <1>8, <1>9
  <2>7. ensure' = ensure \/ ensure.pc # "close"
    BY <1>5 DEF Probing, Probings
  <2> QED BY <2>1, <2>2, <2>4, <2>5, <2>6, <2>7, OrigsKept
<1>11. ProofInv'
  <2>1. w = "ensure" => ensure'.pc = pc /\ ensure'.probe = Activity(w).probe
                        /\ ensure'.via = Activity(w).via /\ refresh' = refresh
    BY <1>2, <1>3 DEF A
  <2>2. w = "refresh" => refresh'.pc = pc /\ refresh'.probe = Activity(w).probe
                         /\ Activity(w).via = "refresh" /\ ensure' = ensure
    BY <1>2, <1>3, ProbeFacts DEF A
  <2> QED BY <1>1, <2>1, <2>2 DEF KeeperInv, ProofInv
<1>12. OpenForms'
  BY DEF Moves
<1>13. NavInv'
  <2>1. \A a \in {ensure', push'} : Navigates(a) => a \in {ensure, push} /\ a.orig \in Page
    BY <1>5, <1>9 DEF Navigates, Probing, Probings, KeeperInv, OrigInv, origs
  <2>2. Navigates(ensure') => Navigates(ensure) /\ ensure'.orig = ensure.orig
    BY <1>5 DEF Navigates, Probing, Probings
  <2> QED BY <1>1, <1>8, <2>1, <2>2, NavsKept DEF A
<1>14. OfferInv'
  BY <1>5 DEF KeeperInv, OfferInv, Probing, Probings
<1> QED BY <1>6, <1>7, <1>10, <1>11, <1>12, <1>13, <1>14 DEF KeeperInv

(* The activity leaves its probe: it is closed, or becomes the keeper.     *)
LEMMA ProbeEnds ==
  ASSUME KeeperInv, TypeOK', OpenForms', NEW w \in Prober, Probing(Activity(w)),
         Becomes(w, Over(w)),
         UNCHANGED <<push, restored, busy, command>>,
         commandPages' = commandPages \ {Activity(w).probe},
         pending' = IF Activity(w).via = "resume" THEN None ELSE pending,
         \A p \in Page : url'[p] \in {url[p], "closed"},
         \A p \in proof : p # Activity(w).probe => p \in proof',
         \/ keeper' = keeper /\ url'[Activity(w).probe] = "closed"
         \/ /\ keeper' = Activity(w).probe /\ CurrentKeeper = Activity(w).orig
            /\ url'[keeper] = "closed"
            /\ w = "refresh" => url'[Activity(w).probe] = "settled"
  PROVE  KeeperInv'
<1> DEFINE P == Activity(w).probe
<1>1. /\ P \in Page /\ P # None /\ P \in commandPages /\ restored
      /\ P \notin {Other(w).probe, command} /\ Activity(w).orig # P /\ Activity(w).orig # None
      /\ w = "ensure" => /\ Activity(w).via \in {"login", "sso", "resume"}
                         /\ Activity(w).via = "resume" => P = PendingPage
                         /\ Activity(w).via # "resume" => pending = None
      /\ w = "refresh" => Activity(w).via = "refresh" /\ beat = "refresh" /\ P # PendingPage
      /\ w \in {"ensure", "refresh"}
  BY ProbeFacts DEF Prober
<1>2. /\ Over(w).probe = None /\ Over(w).orig = None /\ ~Probing(Over(w)) /\ ~Navigates(Over(w))
      /\ w = "ensure" => Over(w).pc \in {"pick", "final"}
      /\ w = "refresh" => Over(w).pc = "rest"
  BY OverAct
<1>3. /\ w = "ensure" => /\ ensure' = Over(w) /\ refresh' = refresh /\ beat' = beat
                         /\ P = ensure.probe /\ Other(w) = refresh /\ pending' = None
      /\ w = "refresh" => /\ refresh' = Over(w) /\ ensure' = ensure /\ pending' = pending
                          /\ P = refresh.probe /\ Other(w) = ensure /\ beat' \in {beat, "rest"}
  BY <1>1, BecomesParts DEF Activity, Other
<1>4. /\ w = "ensure" => PendingPage' = None /\ PendingOrig' = None /\ PendingPage \in {P, None}
      /\ w = "refresh" => PendingPage' = PendingPage /\ PendingOrig' = PendingOrig
  BY <1>1, <1>3 DEF PendingPage, PendingOrig
<1> HIDE DEF P
<1>5. ProbesInv'
  BY <1>1, <1>2, <1>3, <1>4 DEF KeeperInv, ProbesInv, Probing
<1>6. PagesInv'
  <2>1. commandPages' = commandPages \ {P}
    BY DEF P
  <2>2. CASE w = "ensure"
    BY <1>1, <1>2, <1>3, <1>4, <2>1, <2>2, Aside DEF KeeperInv, PagesInv, Accounted
  <2>3. CASE w = "refresh"
    BY <1>1, <1>2, <1>3, <1>4, <2>1, <2>3, Aside DEF KeeperInv, PagesInv, Accounted
  <2> QED BY <1>1, <2>2, <2>3
<1>7. \A p \in origs \cup {keeper} : p \in Page \cup {None}
  BY TypeParts, KeeperAssumption
     DEF KeeperInv, ActsType, RolesType, Activities, Unfinished, PendingOrig, origs
<1>8. OrigInv'
  <2>1. origs' \subseteq origs \cup {None, keeper'}
    BY <1>1, <1>2, <1>3, <1>4 DEF origs
  <2>2. \A a \in {ensure', refresh'} : Probing(a) => a.orig # None /\ a.orig # a.probe
    BY <1>1, <1>2, <1>3 DEF KeeperInv, OrigInv
  <2>3. /\ ensure'.pc \in {"recover", "inspect", "reload", "touch", "goto", "close", "create"} =>
             w = "refresh" /\ ensure' = ensure
        /\ ensure.pc = "create" => keeper' = keeper
    BY <1>1, <1>2, <1>3, <1>7 DEF KeeperInv, OrigInv
  <2>4. ensure'.pc = "create" => CurrentKeeper' = None /\ restored'
    <3>1. SUFFICES ASSUME ensure'.pc = "create" PROVE CurrentKeeper' = None
      BY <1>1
    <3>2. ensure.pc = "create" /\ CurrentKeeper = None /\ keeper' = keeper
      BY <2>3, <3>1 DEF KeeperInv, OrigInv
    <3> QED BY <1>7, <3>2 DEF CurrentKeeper
  <2>5. keeper' = keeper \/ keeper = None \/ url'[keeper] = "closed"
    OBVIOUS
  <2>6. \A q \in origs \ {None} : url[q] = "closed" => url'[q] = "closed"
    BY <1>7
  <2>7. /\ ensure'.pc \in {"recover", "inspect", "reload", "touch", "goto", "close"} => ensure'.orig # None
        /\ push'.pc \in {"reload", "goto"} => push'.orig # None
        /\ pending' # None => PendingOrig' # PendingPage'
    BY <1>1, <1>3, <1>4, <2>3 DEF KeeperInv, OrigInv
  <2>8. ensure' = ensure \/ ensure.pc # "close"
    BY <1>1, <1>3 DEF Activity, Probing, Probings
  <2> QED BY <2>1, <2>2, <2>4, <2>5, <2>6, <2>7, <2>8, OrigsKept
<1>9. OfferInv' /\ ProofInv'
  <2>1. OfferInv'
    BY <1>1, <1>2, <1>3 DEF KeeperInv, OfferInv
  <2>2. CASE w = "ensure"
    <3>1. refresh.pc \in {"native", "look", "replace"} => refresh.probe \in proof'
      BY <1>1, <1>3, <2>2 DEF KeeperInv, ProofInv, P
    <3>2. ensure'.pc \notin {"native", "look", "replace"} /\ refresh' = refresh
      BY <1>2, <1>3, <2>2
    <3> QED BY <2>1, <3>1, <3>2 DEF KeeperInv, ProofInv
  <2>3. CASE w = "refresh"
    <3>1. ensure.pc \in {"native", "look", "replace"} => ensure.probe \in proof'
      BY <1>1, <1>3, <2>3 DEF KeeperInv, ProofInv, P
    <3>2. refresh'.pc \notin {"native", "look", "replace"} /\ ensure' = ensure
      BY <1>2, <1>3, <2>3
    <3> QED BY <2>1, <3>1, <3>2 DEF KeeperInv, ProofInv
  <2> QED BY <1>1, <2>1, <2>2, <2>3
<1>10. NavInv'
  <2>1. \A a \in {ensure', push'} : Navigates(a) =>
          /\ a \in {ensure, push} /\ a.orig \in origs /\ a.orig # None
          /\ url'[a.orig] \in {url[a.orig], "closed"}
    BY <1>1, <1>2, <1>3, <1>7 DEF Navigates, KeeperInv, OrigInv, origs
  <2>2. \A a \in {ensure', push'} : Navigates(a) /\ a.orig = P => url'[P] # "login"
    <3>1. w = "ensure" => ensure.pc # "close"
      BY DEF Activity, Probing, Probings
    <3> QED BY <1>1, <2>1, <3>1 DEF KeeperInv, OrigInv, origs, P
  <2>3. Navigates(ensure') => ensure' = ensure
    BY <1>1, <1>2, <1>3
  <2> QED BY <2>1, <2>2, <2>3, NavsKept DEF P
<1> QED BY <1>5, <1>6, <1>8, <1>9, <1>10 DEF KeeperInv


LEMMA BecomesType ==
  ASSUME ActsType, NEW w \in Prober, NEW a \in Activities, Becomes(w, a), UNCHANGED push
  PROVE  ActsType'
BY BecomesParts DEF ActsType, Prober

probeRest == <<push, session, restored, busy, command, mishaps>>

LEMMA GivingUp ==
  ASSUME KeeperInv, NEW w \in Prober, Probing(Activity(w)), GiveUp(w), UNCHANGED probeRest
  PROVE  KeeperInv'
<1> DEFINE P == Activity(w).probe
<1>1. /\ P \in Page /\ TypeOK /\ TabsType /\ RolesType /\ SignsType /\ TouchType /\ ActsType
      /\ OpenForms /\ Over(w) \in Activities
  BY TypeParts, ProbeFacts, OverAct DEF KeeperInv
<1>2. /\ url' = [p \in Page |-> IF p = P THEN "closed" ELSE url[p]] /\ form' = form \ {P}
      /\ proof' = proof \ {P} /\ UNCHANGED touch /\ commandPages' = commandPages \ {P}
      /\ pending' = IF Activity(w).via = "resume" THEN None ELSE pending
      /\ Becomes(w, Over(w))
      /\ UNCHANGED <<keeper, stalled, authedOnce, memory, waiting, refreshDue>>
  BY DEF GiveUp, Closing
<1> HIDE DEF P
<1>3. UNCHANGED <<push, session, restored, busy, command, mishaps>>
  BY DEF probeRest
<1>4. TabsType' /\ OpenForms'
  BY <1>1, <1>2 DEF TabsType, OpenForms, Urls
<1>5. ActsType'
  BY <1>1, <1>2, <1>3, BecomesType
<1>6. TypeOK'
  BY <1>1, <1>2, <1>3, <1>4, <1>5, NextParts DEF RolesType, SignsType, TouchType, memory
<1>7. \A p \in Page : url'[p] \in {url[p], "closed"}
  BY <1>2
<1>8. url'[P] = "closed" /\ \A p \in proof : p # P => p \in proof'
  BY <1>1, <1>2
<1> QED BY <1>2, <1>3, <1>4, <1>6, <1>7, <1>8, ProbeEnds DEF P

\* The probe is the keeper from here on.
LEMMA TakingOver ==
  ASSUME KeeperInv, NEW w \in Prober, Probing(Activity(w)), StillMine(w), UNCHANGED probeRest,
         keeper' = Activity(w).probe, commandPages' = commandPages \ {Activity(w).probe},
         pending' = IF Activity(w).via = "resume" THEN None ELSE pending,
         url' = Closing({Activity(w).orig}), form' = form \ {Activity(w).orig},
         proof' \in {proof, proof \ {Activity(w).probe}},
         touch' = None, waiting' = Older, Becomes(w, Over(w)), UNCHANGED stalled,
         authedOnce' \in BOOLEAN, refreshDue' \in BOOLEAN,
         {reauthSeen', loginSeen', attempt'} \subseteq Ages,
         w = "refresh" => url[Activity(w).probe] = "settled"
  PROVE  KeeperInv'
<1> DEFINE P == Activity(w).probe
           Q == Activity(w).orig
<1>1. /\ P \in Page /\ Q \in Page /\ Q # None
      /\ TypeOK /\ TabsType /\ RolesType /\ SignsType /\ TouchType /\ ActsType
      /\ OpenForms /\ Over(w) \in Activities
  BY TypeParts, ProbeFacts, OverAct DEF KeeperInv
<1>2. CurrentKeeper = Q /\ keeper = Q
  BY <1>1 DEF StillMine, Unchanged, CurrentKeeper
<1>3. url' = [p \in Page |-> IF p = Q THEN "closed" ELSE url[p]] /\ form' = form \ {Q}
  BY DEF Closing
<1>4. proof' \subseteq proof /\ \A p \in proof : p # P => p \in proof'
  OBVIOUS
<1>5. keeper' = P /\ commandPages' = commandPages \ {P}
  OBVIOUS
<1> HIDE DEF P, Q
<1>6. UNCHANGED <<push, session, restored, busy, command, mishaps>>
  BY DEF probeRest
<1>7. TabsType' /\ OpenForms'
  BY <1>1, <1>3, <1>4 DEF TabsType, OpenForms, Urls
<1>8. ActsType' /\ TouchType'
  BY <1>1, <1>6, BecomesType, OlderType DEF TouchType
<1>9. TypeOK'
  BY <1>1, <1>5, <1>6, <1>7, <1>8, NextParts DEF RolesType, SignsType
<1>10. (\A p \in Page : url'[p] \in {url[p], "closed"}) /\ url'[keeper] = "closed"
  BY <1>1, <1>2, <1>3
<1>11. w = "refresh" => url'[P] = "settled"
  <2>1. P # Q
    BY ProbeFacts DEF P, Q
  <2> QED BY <1>1, <1>3, <2>1 DEF P
<1> QED BY <1>2, <1>4, <1>6, <1>7, <1>9, <1>10, <1>11, ProbeEnds DEF P, Q

LEMMA Promoting ==
  ASSUME KeeperInv, NEW w \in Prober, Probing(Activity(w)), StillMine(w), Promote(w),
         w = "refresh" => url[Activity(w).probe] = "settled", UNCHANGED probeRest
  PROVE  KeeperInv'
<1>1. refreshDue \in BOOLEAN
  BY TypeParts DEF KeeperInv, SignsType
<1>2. authedOnce' \in BOOLEAN /\ refreshDue' \in BOOLEAN
        /\ {reauthSeen', loginSeen', attempt'} \subseteq Ages
  BY <1>1 DEF Promote, ClearRecovery, Ages
<1> QED BY <1>2, TakingOver DEF Promote

LEMMA Surfacing ==
  ASSUME KeeperInv, NEW w \in Prober, Probing(Activity(w)), StillMine(w), Surface(w),
         Activity(w).via = "sso", UNCHANGED probeRest
  PROVE  KeeperInv'
<1>1. refreshDue \in BOOLEAN /\ authedOnce \in BOOLEAN /\ attempt \in Ages
  BY TypeParts DEF KeeperInv, SignsType, RolesType
<1>2. authedOnce' \in BOOLEAN /\ refreshDue' \in BOOLEAN
        /\ {reauthSeen', loginSeen', attempt'} \subseteq Ages
  BY <1>1 DEF Surface, Ages
<1>3. w # "refresh"
  BY ProbeFacts
<1> QED BY <1>2, <1>3, TakingOver DEF Surface

LEMMA Retaining ==
  ASSUME KeeperInv, NEW w \in Prober, Probing(Activity(w)), StillMine(w), RetainPending(w),
         Activity(w).via \in {"sso", "login"}, UNCHANGED probeRest
  PROVE  KeeperInv'
<1> DEFINE P == ensure.probe
           Q == ensure.orig
<1>1. w = "ensure" /\ Activity(w) = ensure
  BY ProbeFacts DEF Prober, Activity
<1>2. /\ P \in Page /\ Q \in Page /\ Q # None /\ P # None /\ Q # P /\ P \in commandPages
      /\ P \notin {refresh.probe, command} /\ restored /\ pending = None
      /\ TypeOK /\ TabsType /\ RolesType /\ SignsType /\ TouchType /\ ActsType
      /\ Over(w) \in Activities
  BY <1>1, TypeParts, ProbeFacts, OverAct DEF KeeperInv, Other
<1>3. /\ pending' = [page |-> P, orig |-> Q, was |-> url[Q], age |-> "early"]
      /\ UNCHANGED <<tabs, touch, keeper, commandPages, stalled, authedOnce, memory, waiting,
                     refreshDue>>
      /\ Becomes(w, Over(w))
  BY <1>1 DEF RetainPending
<1>4. UNCHANGED <<push, session, restored, busy, command, mishaps>>
  BY DEF probeRest
<1>5. /\ ensure' = Over(w) /\ refresh' = refresh /\ beat' = beat
      /\ ensure'.probe = None /\ ensure'.orig = None /\ ~Probing(ensure') /\ ~Navigates(ensure')
      /\ ensure'.pc = "final"
  BY <1>1, <1>3, BecomesParts, OverAct DEF Over, Rest
<1>6. pending' \in Unfinished /\ pending' # None /\ PendingPage' = P /\ PendingOrig' = Q
  BY <1>2, <1>3, KeeperAssumption DEF Unfinished, TabsType, Ages, PendingPage, PendingOrig
<1>7. Q = CurrentKeeper /\ Q = keeper
  BY <1>1, <1>2 DEF StillMine, Unchanged, CurrentKeeper
<1> HIDE DEF P, Q
<1>8. TypeOK'
  <2>1. ActsType'
    BY <1>2, <1>3, <1>4, BecomesType
  <2> QED BY <1>2, <1>3, <1>4, <1>6, <2>1, NextParts
          DEF RolesType, SignsType, TouchType, TabsType, memory, tabs
<1>9. ProbesInv'
  BY <1>5, <1>6, <1>4 DEF KeeperInv, ProbesInv, Probing
<1>10. PagesInv'
  <2>1. PendingPage = None /\ P = ensure.probe
    BY <1>2 DEF PendingPage, P
  <2> QED BY <1>2, <1>3, <1>4, <1>5, <1>6, <2>1, Aside DEF KeeperInv, PagesInv, Accounted
<1>11. OrigInv'
  <2>1. origs' \subseteq origs \cup {None, keeper'}
    BY <1>3, <1>4, <1>5, <1>6, <1>7 DEF origs
  <2>2. \A a \in {ensure', refresh'} : Probing(a) => a.orig # None /\ a.orig # a.probe
    BY <1>5 DEF KeeperInv, OrigInv
  <2>3. push'.pc \in {"reload", "goto"} => push'.orig # None
    BY <1>4 DEF KeeperInv, OrigInv
  <2>4. ensure.pc # "close"
    BY <1>1 DEF Probing, Probings
  <2> QED BY <1>2, <1>3, <1>5, <1>6, <2>1, <2>2, <2>3, <2>4, OrigsKept DEF tabs
<1>12. OfferInv' /\ ProofInv' /\ OpenForms' /\ NavInv'
  BY <1>3, <1>4, <1>5, NavsKept DEF KeeperInv, OfferInv, ProofInv, OpenForms, tabs
<1> QED BY <1>8, <1>9, <1>10, <1>11, <1>12 DEF KeeperInv

LEMMA Stepping ==
  ASSUME KeeperInv, NEW w \in Prober, Probing(Activity(w)), NEW pc \in Probings,
         NEW saw \in {"none", "nothing", "missed", "form"},
         Becomes(w, [Activity(w) EXCEPT !.pc = pc, !.saw = saw]),
         UNCHANGED <<roles, memory, waiting, refreshDue, probeRest>>,
         UNCHANGED <<tabs, touch>>
           \/ (proof' = proof \cup {Activity(w).probe} /\ UNCHANGED <<url, form, touch>>)
           \/ (url[Activity(w).probe] # "closed" /\ Lands(Activity(w).probe)),
         pc \in {"native", "look", "replace"} => Activity(w).probe \in proof',
         pc \in {"look", "replace"} => Activity(w).via \in {"login", "resume"},
         pc = "replace" => saw \in {"nothing", "missed"}
  PROVE  KeeperInv'
<1> DEFINE P == Activity(w).probe
           B == [Activity(w) EXCEPT !.pc = pc, !.saw = saw]
<1>1. /\ P \in Page /\ TypeOK /\ TabsType /\ RolesType /\ SignsType /\ TouchType /\ ActsType
      /\ OpenForms /\ Activity(w) \in Activities
  BY TypeParts, ProbeFacts DEF KeeperInv
<1>2. B \in Activities
  BY <1>1 DEF Activities, Probings
<1>3. Becomes(w, B) /\ UNCHANGED <<roles, memory, waiting, refreshDue>>
  OBVIOUS
<1>4. UNCHANGED <<push, session, restored, busy, command, mishaps>>
  BY DEF probeRest
<1>5. ActsType'
  BY <1>1, <1>2, <1>3, <1>4, BecomesType
<1>6. PICK S \in SUBSET Page : /\ S \subseteq {P} /\ Moves(S) /\ proof \subseteq proof'
                               /\ \A p \in S : url[p] # "closed" /\ url'[p] # "closed"
  <2>1. CASE UNCHANGED <<url, form, touch>> /\ proof' \in {proof, proof \cup {P}}
    <3>1. Moves({})
      BY <1>1, <1>3, <2>1 DEF Moves, TabsType, TouchType, OpenForms
    <3> QED BY <2>1, <3>1
  <2>2. CASE url[P] # "closed" /\ Lands(P)
    <3>1. Moves({P}) /\ url'[P] # "closed" /\ proof' = proof
      BY <1>1, <1>3, <2>2, Landing
    <3>2. {P} \in SUBSET Page
      BY <1>1
    <3> QED BY <2>2, <3>1, <3>2
  <2> QED BY <2>1, <2>2 DEF tabs
<1>7. TypeOK'
  BY <1>1, <1>3, <1>4, <1>5, <1>6, NextParts DEF Moves, RolesType, SignsType, roles, memory
<1> QED BY <1>3, <1>4, <1>6, <1>7, ProbeSteps DEF roles


\* A step that changes nothing else of the activity.
LEMMA PlainStep ==
  ASSUME KeeperInv, NEW w \in Prober, Probing(Activity(w)), NEW pc, Step(w, pc)
  PROVE  /\ Activity(w).saw \in {"none", "nothing", "missed", "form"}
         /\ Becomes(w, [Activity(w) EXCEPT !.pc = pc, !.saw = Activity(w).saw])
         /\ UNCHANGED <<roles, memory, waiting, refreshDue>>
<1>1. Activity(w) \in Activities
  BY ProbeFacts
<1>2. /\ Activity(w).saw \in {"none", "nothing", "missed", "form"}
      /\ [Activity(w) EXCEPT !.pc = pc]
          = [Activity(w) EXCEPT !.pc = pc, !.saw = Activity(w).saw]
  BY <1>1 DEF Activities
<1> QED BY <1>2 DEF Step

LEMMA ProbesMove == ASSUME KeeperInv, NEW w \in Prober, Probes(w) PROVE KeeperInv'
<1>1. UNCHANGED probeRest
  BY DEF Probes, probeRest
<1>2. Activity(w).pc \in Probings => Probing(Activity(w))
  BY DEF Probing
<1>3. CASE ProbeOpened(w)
  <2>1. Probing(Activity(w)) /\ "going" \in Probings
    BY <1>2, <1>3 DEF ProbeOpened, Probings
  <2>2. \/ Step(w, "going") /\ UNCHANGED <<tabs, touch>>
        \/ GiveUp(w)
    BY <1>3 DEF ProbeOpened
  <2> QED BY <1>1, <2>1, <2>2, GivingUp, PlainStep, Stepping
<1>4. CASE ProbeLands(w)
  <2>1. Probing(Activity(w)) /\ "landed" \in Probings
    BY <1>2, <1>4 DEF ProbeLands, Probings
  <2>2. \/ GiveUp(w)
        \/ url[Activity(w).probe] # "closed" /\ Lands(Activity(w).probe) /\ Step(w, "landed")
    BY <1>4 DEF ProbeLands
  <2> QED BY <1>1, <2>1, <2>2, GivingUp, PlainStep, Stepping
<1>5. CASE ProbeLanded(w)
  <2>1. Probing(Activity(w)) /\ "read" \in Probings
    BY <1>2, <1>5 DEF ProbeLanded, Probings
  <2>2. \/ GiveUp(w)
        \/ Step(w, "read") /\ UNCHANGED <<tabs, touch>>
        \/ StillMine(w) /\ Activity(w).via \in {"sso", "login"} /\ RetainPending(w)
        \/ StillMine(w) /\ Activity(w).via = "sso" /\ Surface(w)
    BY <1>5 DEF ProbeLanded
  <2> QED BY <1>1, <2>1, <2>2, GivingUp, PlainStep, Stepping, Retaining, Surfacing
<1>6. CASE ProbeRead(w)
  <2>1. Probing(Activity(w)) /\ "native" \in Probings
    BY <1>2, <1>6 DEF ProbeRead, Probings
  <2>2. \/ GiveUp(w)
        \/ /\ Step(w, "native") /\ proof' = proof \cup {Activity(w).probe}
           /\ UNCHANGED <<url, form, touch>>
    BY <1>6 DEF ProbeRead
  <2>3. Activity(w).probe \in proof \cup {Activity(w).probe}
    OBVIOUS
  <2> QED BY <1>1, <2>1, <2>2, <2>3, GivingUp, PlainStep, Stepping
<1>7. CASE ProbeNative(w)
  <2>1. Probing(Activity(w)) /\ "look" \in Probings /\ Activity(w).pc = "native"
    BY <1>2, <1>7 DEF ProbeNative, Probings
  <2>2. \/ GiveUp(w)
        \/ Activity(w).via \in {"login", "resume"} /\ Step(w, "look") /\ UNCHANGED <<tabs, touch>>
        \/ StillMine(w) /\ Promote(w) /\ url[Activity(w).probe] = "settled"
    BY <1>7 DEF ProbeNative
  <2>3. Activity(w).probe \in proof
    BY <2>1 DEF KeeperInv, ProofInv, Activity
  <2>4. CASE /\ Activity(w).via \in {"login", "resume"} /\ Step(w, "look")
             /\ UNCHANGED <<tabs, touch>>
    <3>1. Activity(w).probe \in proof'
      BY <2>3, <2>4 DEF tabs
    <3> QED BY <1>1, <2>1, <2>4, <3>1, PlainStep, Stepping
  <2> QED BY <1>1, <2>1, <2>2, <2>4, GivingUp, Promoting
<1>8. CASE ProbeLook(w)
  <2>1. Probing(Activity(w)) /\ "replace" \in Probings /\ Activity(w).pc = "look"
    BY <1>2, <1>8 DEF ProbeLook, Probings
  <2>2. Activity(w).probe \in proof /\ Activity(w).via \in {"login", "resume"}
    BY <2>1 DEF KeeperInv, ProofInv, Activity
  <2>3. CASE GiveUp(w)
    BY <1>1, <2>1, <2>3, GivingUp
  <2>4. ASSUME NEW s \in {"nothing", "missed"},
               Becomes(w, [Activity(w) EXCEPT !.pc = "replace", !.saw = s]),
               UNCHANGED <<tabs, touch, roles, memory, waiting, refreshDue>>
        PROVE  KeeperInv'
    <3>1. Activity(w).probe \in proof'
      BY <2>2, <2>4 DEF tabs
    <3> QED BY <1>1, <2>1, <2>2, <2>4, <3>1, Stepping
  <2> QED BY <1>8, <2>3, <2>4, LookedAway DEF ProbeLook
<1>9. CASE ProbeReplaces(w)
  <2>1. Probing(Activity(w)) /\ w # "refresh"
    BY <1>2, <1>9 DEF ProbeReplaces, Probings, KeeperInv, ProofInv, Activity
  <2>2. (StillMine(w) /\ Promote(w)) \/ GiveUp(w)
    BY <1>9 DEF ProbeReplaces
  <2> QED BY <1>1, <2>1, <2>2, GivingUp, Promoting
<1> QED BY <1>3, <1>4, <1>5, <1>6, <1>7, <1>8, <1>9 DEF Probes

-----------------------------------------------------------------------------
LEMMA KeeperBegins == Init => KeeperInv
<1> SUFFICES ASSUME Init PROVE KeeperInv
  OBVIOUS
<1>1. /\ url \in [Page -> {"closed", "blank", "settled", "login"}]
      /\ form \in {{}, {p \in Page : url[p] = "login"}} /\ proof = {} /\ session \in BOOLEAN
      /\ keeper = None /\ commandPages = {} /\ restored = FALSE
      /\ pending = None /\ stalled = None /\ authedOnce = FALSE
      /\ reauthSeen = "no" /\ loginSeen = "no" /\ attempt = "no" /\ refreshDue = FALSE
      /\ touch = None /\ waiting = [w \in Waiter |-> "no"]
      /\ ensure = Rest /\ refresh = Rest /\ push = Rest /\ beat = "rest"
      /\ busy = FALSE /\ command = None /\ mishaps = 0
  BY DEF Init
<1>2. /\ Rest \in Activities /\ Rest.pc = "rest" /\ Rest.probe = None /\ Rest.orig = None
      /\ ~Probing(Rest) /\ ~Navigates(Rest)
  BY RestAct DEF Rest, Probing, Probings
<1>3. TabsType /\ OpenForms
  <2>1. url \in [Page -> Urls]
    BY <1>1 DEF Urls
  <2> QED BY <1>1, <2>1 DEF TabsType, OpenForms
<1>4. RolesType /\ SignsType /\ TouchType /\ ActsType
  <2>1. 0 \in 0..MaxMishaps
    BY KeeperAssumption
  <2>2. RolesType /\ SignsType
    BY <1>1, <2>1 DEF RolesType, SignsType, Ages
  <2>3. TouchType /\ ActsType
    BY <1>1, <1>2 DEF TouchType, ActsType
  <2> QED BY <2>2, <2>3
<1>5. PendingPage = None /\ PendingOrig = None
  BY <1>1 DEF PendingPage, PendingOrig
<1>6. ProbesInv
  BY <1>1, <1>2, <1>5 DEF ProbesInv
<1>7. PagesInv
  BY <1>1, <1>2, <1>5 DEF PagesInv, Accounted
<1>8. OrigInv
  BY <1>1, <1>2, <1>5 DEF OrigInv
<1>9. OfferInv /\ ProofInv /\ NavInv
  BY <1>1, <1>2 DEF OfferInv, ProofInv, NavInv
<1> QED BY <1>3, <1>4, <1>6, <1>7, <1>8, <1>9, TypeParts DEF KeeperInv

LEMMA KeeperStutters == ASSUME KeeperInv, UNCHANGED vars PROVE KeeperInv'
<1>1. TypeOK /\ UNCHANGED <<tabs, roles, memory, flights, ensure, refresh, push, beat, others>>
  BY DEF KeeperInv, vars
<1> USE <1>1 DEF tabs, roles, memory, flights, others
<1>2. TypeOK'
  BY TypeParts, NextParts DEF TabsType, RolesType, SignsType, TouchType, ActsType
<1> QED BY <1>2, Quiet DEF held, PendingPage, PendingOrig

LEMMA KeeperSteps == ASSUME KeeperInv, Next PROVE KeeperInv'
<1>1. CASE RestorePages
  BY <1>1, Restoring
<1>2. CASE EnsureSteps
  <2>1. CASE Probes("ensure")
    BY <2>1, ProbesMove DEF Prober
  <2> QED BY <1>2, <2>1, Resuming, Judging, Swapping, ClosingReplaced, Picking, Creating, Recovering, Inspecting, Reloading,
             ReloadedTouch, SigningOn, FinalStep, FinalGoing DEF EnsureSteps
<1>3. CASE Probes("refresh")
  BY <1>3, ProbesMove DEF Prober
<1>4. CASE Touching
  BY <1>4, TouchAnswering, TouchEnding DEF Touching
<1>5. CASE RecoverKeeper \/ Pushing \/ Beating
  BY <1>5, Asking, PushGoing, PushLanding, PushTouching, BeatTouching, Refreshing
     DEF Pushing, Beating
<1>6. CASE ReportAuthenticationFailure \/ TimePasses
  BY <1>6, Reporting, Passing
<1>7. CASE Disturbance \/ CommandEnds
  BY <1>7, SessionChanging, PageMoving, FormAppearing, SigningIn, PageClosing, CommandStarting,
     CommandEnding DEF Disturbance
<1> QED BY <1>1, <1>2, <1>3, <1>4, <1>5, <1>6, <1>7 DEF Next

LEMMA KeeperIsInductive == Spec => []KeeperInv
<1>1. KeeperInv /\ [Next]_vars => KeeperInv'
  BY KeeperSteps, KeeperStutters
<1> QED BY <1>1, KeeperBegins, PTL DEF Spec

(* No tab is lost, whatever the sites, the user and the commands do: one   *)
(* that keeper-page.ts keeps out of the keeper's role is in one use.       *)
THEOREM NoTabIsLost == Spec => []NoStrayProbe
<1>1. ASSUME KeeperInv PROVE NoStrayProbe
  <2>1. TypeOK /\ commandPages \subseteq {ensure.probe, refresh.probe, command, PendingPage}
    BY <1>1 DEF KeeperInv, PagesInv, Accounted
  <2>2. CASE pending # None
    BY <2>1, <2>2 DEF PendingPage, NoStrayProbe
  <2>3. CASE pending = None
    <3>1. None \notin commandPages
      BY <1>1, Aside
    <3> QED BY <2>1, <2>3, <3>1 DEF PendingPage, NoStrayProbe
  <2> QED BY <2>2, <2>3
<1> QED BY <1>1, KeeperIsInductive, PTL


-----------------------------------------------------------------------------
(* When the keeper changes hands. *)

LEMMA ProbePromotes ==
  ASSUME NEW w \in Prober, Probes(w), keeper' # keeper
  PROVE  LET a == Activity(w) IN
         /\ StillMine(w) /\ keeper' = a.probe
         /\ \/ /\ a.pc = "native" /\ url[a.probe] = "settled" /\ Promote(w) /\ a.via # "login"
               /\ ~(a.via = "resume" /\ a.was = "login")
            \/ /\ a.pc = "replace" /\ Promote(w)
               /\ a.via = "resume" => url[a.probe] = "settled"
            \/ /\ a.pc = "landed" /\ url[a.probe] = "login" /\ a.via = "sso" /\ a.was # "login"
               /\ Surface(w)
<1>1. ~GiveUp(w) /\ ~RetainPending(w) /\ ~UNCHANGED roles /\ \A pc : ~Step(w, pc)
  BY DEF GiveUp, RetainPending, Step, roles
<1>2. CASE ProbeOpened(w) \/ ProbeLands(w) \/ ProbeRead(w)
  BY <1>1, <1>2 DEF ProbeOpened, ProbeLands, ProbeRead
<1>3. CASE ProbeLanded(w)
  BY <1>1, <1>3 DEF ProbeLanded, Surface
<1>4. CASE ProbeNative(w)
  BY <1>1, <1>4 DEF ProbeNative, Promote
<1>5. CASE ProbeLook(w)
  BY <1>1, <1>5 DEF ProbeLook
<1>6. CASE ProbeReplaces(w)
  BY <1>1, <1>6 DEF ProbeReplaces, Promote
<1> QED BY <1>2, <1>3, <1>4, <1>5, <1>6 DEF Probes

LEMMA HandsChange ==
  ASSUME Next, keeper' # keeper
  PROVE  \/ RestorePages \/ SwapPending \/ PickKeeper \/ CreateKeeper
         \/ \E w \in Prober : Probes(w)
<1>1. CASE EnsureSteps
  BY <1>1 DEF EnsureSteps, ResumePending, JudgePending, OfferPending, DiscardPending,
              CloseReplaced, Recover, Inspect, Reload, TouchReloaded, SignOn, Final, FinalGoto,
              Prober, roles
<1>2. CASE Probes("refresh")
  BY <1>2 DEF Prober
<1>3. CASE Touching \/ RecoverKeeper \/ Pushing
  BY <1>3 DEF Touching, TouchAnswers, TouchEnds, OldTouchEnds, RecoverKeeper, Pushing, PushGoes,
              PushLands, PushTouches, roles
<1>4. CASE Beating \/ ReportAuthenticationFailure \/ TimePasses \/ CommandEnds
  BY <1>4 DEF Beating, BeatStarts, BeatTouches, RefreshIfDue, ReportAuthenticationFailure,
              TimePasses, CommandEnds, roles
<1>5. CASE Disturbance
  BY <1>5 DEF Disturbance, SessionChanges, PageMoves, FormAppears, UserSignsIn, PageCloses,
              CommandStarts, roles
<1> QED BY <1>1, <1>2, <1>3, <1>4, <1>5 DEF Next

LEMMA Timely ==
  ASSUME KeeperInv, Next, NEW p \in commandPages, CurrentKeeper \notin {None, p}, keeper' = p
  PROVE  /\ ~busy
         /\ \/ p \in proof /\ (url'[p] = "settled" \/ ensure.via = "login")
            \/ loginSeen' # "no" /\ authedOnce' = authedOnce
         /\ \/ pending # None /\ pending.page = p /\ OriginalStands
            \/ \E w \in Prober : Activity(w).probe = p /\ Unchanged(Activity(w))
<1>1. keeper = CurrentKeeper /\ keeper' # keeper /\ TypeOK
  BY DEF CurrentKeeper, KeeperInv
<1>2. CASE RestorePages
  BY <1>2 DEF RestorePages, KeeperInv, PagesInv
<1>3. CASE SwapPending
  <2>1. /\ pending # None /\ CanNavigate /\ OriginalStands /\ keeper' = pending.page
        /\ loginSeen' = Noted(loginSeen) /\ authedOnce' = authedOnce
    BY <1>1, <1>3 DEF SwapPending, DiscardPending, At, KeeperInv, OfferInv
  <2>2. loginSeen' # "no"
    BY <1>1, <2>1, NotedAge, TypeParts DEF SignsType
  <2> QED BY <2>1, <2>2 DEF CanNavigate
<1>4. CASE PickKeeper
  <2>1. p \in Choices
    BY <1>1, <1>4 DEF PickKeeper
  <2> QED BY <1>1, <2>1 DEF Choices, Completed, Candidates
<1>5. CASE CreateKeeper
  BY <1>1, <1>5 DEF CreateKeeper, At, KeeperInv, OrigInv
<1>6. ASSUME NEW w \in Prober, Probes(w)
      PROVE  /\ ~busy /\ Activity(w).probe = p /\ Unchanged(Activity(w))
             /\ \/ p \in proof /\ (url'[p] = "settled" \/ ensure.via = "login")
                \/ loginSeen' # "no" /\ authedOnce' = authedOnce
  <2> DEFINE a == Activity(w)
  <2>1. /\ StillMine(w) /\ keeper' = a.probe
        /\ \/ a.pc = "native" /\ url[a.probe] = "settled" /\ Promote(w)
           \/ /\ a.pc = "replace" /\ Promote(w)
              /\ a.via = "resume" => url[a.probe] = "settled"
           \/ url[a.probe] = "login" /\ Surface(w)
    BY <1>1, <1>6, ProbePromotes
  <2>2. ~busy /\ a.probe = p /\ Unchanged(a)
    BY <2>1 DEF StillMine, CanNavigate
  <2>3. ASSUME a.pc \in {"native", "replace"}, Promote(w)
        PROVE  p \in proof /\ (url[p] = "settled" => url'[p] = "settled")
    <3>1. Probing(a)
      BY <2>3 DEF Probing, Probings
    <3>2. p \in Page /\ a.orig # p
      BY <2>2, <3>1, ProbeFacts
    <3>3. url'[p] = url[p]
      BY <2>2, <2>3, <3>2 DEF Promote, Closing
    <3>4. p \in proof
      BY <2>2, <2>3 DEF KeeperInv, ProofInv, Activity
    <3> QED BY <3>3, <3>4
  <2>4. a.pc = "replace" => ensure.via = a.via /\ a.via \in {"login", "resume"}
    BY DEF KeeperInv, ProofInv, Activity
  <2>5. CASE url[a.probe] = "login" /\ Surface(w)
    BY <2>2, <2>5 DEF Surface
  <2> QED BY <2>1, <2>2, <2>3, <2>4, <2>5
<1> QED BY <1>1, <1>2, <1>3, <1>4, <1>5, <1>6, HandsChange

-----------------------------------------------------------------------------
(* The form of the user. *)

LEMMA FormKept ==
  ASSUME KeeperInv, NEW p \in form, NEW S, Moves(S), p \notin S
  PROVE  Kept(p)
BY TypeParts DEF KeeperInv, TabsType, OpenForms, Moves, Kept

LEMMA Untouched ==
  ASSUME KeeperInv, NEW p \in form, UNCHANGED url, UNCHANGED form
  PROVE  Kept(p)
BY DEF KeeperInv, OpenForms, Kept

\* The unfinished sign-in is dropped, or its page takes the keeper's place.
LEMMA FormsBesidePending ==
  ASSUME KeeperInv, NEW p \in form \ commandPages, restored,
         ResumePending \/ JudgePending \/ OfferPending \/ SwapPending \/ CloseReplaced
  PROVE  Kept(p) \/ Overlooked(p)
<1>1. /\ TabsType /\ TouchType /\ OpenForms /\ p \in form /\ p \in Page
      /\ UNCHANGED tabs => Kept(p)
  BY TypeParts, Untouched DEF KeeperInv, TabsType, tabs
<1>2. ASSUME pending # None, DiscardPending PROVE Kept(p)
  <2>1. Moves({pending.page})
    BY <1>1, <1>2, ClosingTabs DEF DiscardPending, Discards
  <2>2. p # pending.page
    BY <1>2, PendingFacts
  <2> QED BY <1>1, <2>1, <2>2, FormKept
<1>3. CASE ResumePending
  BY <1>1, <1>2, <1>3 DEF ResumePending
<1>4. CASE JudgePending \/ OfferPending \/ SwapPending
  <2>1. pending # None
    BY <1>4 DEF JudgePending, OfferPending, SwapPending, At, KeeperInv, OfferInv
  <2> QED BY <1>1, <1>2, <1>4, <2>1 DEF JudgePending, OfferPending, SwapPending
<1>5. CASE CloseReplaced
  <2>1. Moves({ensure.orig})
    BY <1>1, <1>5, ClosingTabs DEF CloseReplaced
  <2>2. ensure.saw \in {"nothing", "missed"}
    BY <1>5 DEF CloseReplaced, At, KeeperInv, OfferInv
  <2>3. CASE p = ensure.orig
    BY <2>2, <2>3 DEF Overlooked
  <2>4. CASE p # ensure.orig
    BY <1>1, <2>1, <2>4, FormKept
  <2> QED BY <2>3, <2>4
<1> QED BY <1>3, <1>4, <1>5

LEMMA FormIsKept ==
  ASSUME KeeperInv, Next, restored, NEW p \in form \ commandPages, mishaps' = mishaps
  PROVE  Kept(p) \/ SignedInElsewhere(p) \/ Overlooked(p)
<1>1. /\ TypeOK /\ TabsType /\ RolesType /\ TouchType /\ ActsType /\ OpenForms /\ p \in form
      /\ p \notin commandPages /\ p \in Page /\ p # None /\ url[p] = "login" /\ mishaps \in Nat
  BY TypeParts, KeeperAssumption DEF KeeperInv, TabsType, OpenForms, SignsType
<1>2. keeper = p => CurrentKeeper = p
  BY <1>1 DEF CurrentKeeper
<1>3. UNCHANGED tabs => Kept(p)
  BY <1>1, Untouched DEF tabs
<1>4. ASSUME NEW page \in Page, Lands(page), UNCHANGED waiting, page # p
      PROVE  Kept(p)
  BY <1>1, <1>4, Landing, FormKept
<1>5. ASSUME NEW q \in Free, url' = [url EXCEPT ![q] = "blank"], UNCHANGED form
      PROVE  Kept(p)
  BY <1>1, <1>5, FreeTabs DEF Kept, TabsType
<1>6. CASE RestorePages
  BY <1>6 DEF RestorePages
<1>7. CASE ResumePending \/ JudgePending \/ OfferPending \/ SwapPending \/ CloseReplaced
  BY <1>7, FormsBesidePending
<1>8. CASE PickKeeper
  <2>1. ASSUME NEW k \in Choices, keeper' = k,
               Closes((Candidates \ {k}) \cup (IF k \in Completed THEN {CurrentKeeper} ELSE {}))
        PROVE  Kept(p) \/ SignedInElsewhere(p)
    <3> DEFINE S == (Candidates \ {k}) \cup (IF k \in Completed THEN {CurrentKeeper} ELSE {})
    <3>1. Moves(S)
      <4>1. Closes(S)
        BY <2>1
      <4> HIDE DEF S
      <4> QED BY <1>1, <1>8, <4>1, ClosingTabs DEF PickKeeper
    <3>2. CASE p \notin S
      <4> HIDE DEF S
      <4> QED BY <1>1, <3>1, <3>2, FormKept
    <3>3. CASE p \in S
      <4>1. k \in Completed /\ p = CurrentKeeper
        BY <1>1, <3>3 DEF Candidates
      <4>2. keeper = p
        BY <1>1, <4>1, KeeperPage
      <4>3. k \in Candidates /\ url[k] = "settled"
        BY <4>1 DEF Completed
      <4> QED BY <2>1, <4>2, <4>3 DEF SignedInElsewhere
    <3> QED BY <3>2, <3>3
  <2> QED BY <1>3, <1>8, <2>1 DEF PickKeeper
<1>9. CASE CreateKeeper
  <2>1. ASSUME NEW q \in Free, Lands(q) PROVE Kept(p)
    BY <1>1, <1>4, <1>9, <2>1, FreeTabs DEF CreateKeeper
  <2> QED BY <1>3, <1>9, <2>1 DEF CreateKeeper
<1>10. CASE Recover \/ TouchReloaded \/ Final
  BY <1>3, <1>10 DEF Recover, TouchReloaded, Final
<1>11. CASE Inspect \/ SignOn
  <2>1. ASSUME NEW via, OpensProbe(ensure', via, ensure.orig)
        PROVE  Kept(p)
    BY <1>5, <2>1 DEF OpensProbe
  <2> QED BY <1>3, <1>11, <2>1 DEF Inspect, SignOn
<1>12. ASSUME NEW a \in {ensure, push}, Navigates(a), Lands(a.orig), UNCHANGED waiting
       PROVE  Kept(p)
  <2>1. a.orig \in Page /\ a.orig # p
    BY <1>1, <1>12 DEF KeeperInv, OrigInv, NavInv, ActsType, Activities, Navigates
  <2> QED BY <1>4, <1>12, <2>1
<1>13. CASE Reload \/ FinalGoto \/ PushLands
  BY <1>3, <1>12, <1>13 DEF Reload, FinalGoto, PushLands, At, Navigates
<1>14. CASE Touching \/ RecoverKeeper \/ PushGoes \/ PushTouches
  BY <1>3, <1>14 DEF Touching, TouchAnswers, TouchEnds, OldTouchEnds, RecoverKeeper, PushGoes,
                     PushTouches
<1>15. CASE BeatStarts \/ BeatTouches \/ ReportAuthenticationFailure \/ TimePasses
  BY <1>3, <1>15 DEF BeatStarts, BeatTouches, ReportAuthenticationFailure, TimePasses
<1>16. CASE RefreshIfDue
  <2>1. ASSUME OpensProbe(refresh', "refresh", CurrentKeeper)
        PROVE  Kept(p)
    BY <1>5, <2>1 DEF OpensProbe
  <2> QED BY <1>3, <1>16, <2>1 DEF RefreshIfDue
<1>17. CASE CommandEnds
  <2>1. Moves({command} \ {None})
    BY <1>1, <1>17, ClosingTabs DEF CommandEnds
  <2>2. p \notin {command} \ {None}
    BY <1>1 DEF KeeperInv, PagesInv
  <2> QED BY <1>1, <2>1, <2>2, FormKept
<1>18. CASE Disturbance
  <2>1. Mishap
    BY <1>18 DEF Disturbance, SessionChanges, PageMoves, FormAppears, UserSignsIn, PageCloses,
                 CommandStarts
  <2> QED BY <1>1, <2>1 DEF Mishap
<1>19. ASSUME NEW w \in Prober, Probes(w)
       PROVE  Kept(p) \/ SignedInElsewhere(p) \/ Overlooked(p)
  <2> DEFINE a == Activity(w)
  <2>1. Probing(a)
    BY <1>19 DEF Probes, ProbeOpened, ProbeLands, ProbeLanded, ProbeRead, ProbeNative, ProbeLook,
                 ProbeReplaces, Probing, Probings
  <2>2. a.probe \in Page /\ a.probe # p /\ a.orig # a.probe
    BY <1>1, <2>1, ProbeFacts
  <2>3. ASSUME GiveUp(w) PROVE Kept(p)
    BY <1>1, <2>2, <2>3 DEF GiveUp, Closing, Kept
  <2>4. ASSUME NEW pc, Step(w, pc), UNCHANGED <<url, form>> PROVE Kept(p)
    BY <1>1, <2>4, Untouched
  <2>5. ASSUME NEW pc, Step(w, pc), Lands(a.probe) PROVE Kept(p)
    BY <1>4, <2>2, <2>5 DEF Step
  <2>6. ASSUME RetainPending(w) PROVE Kept(p)
    BY <1>3, <2>6 DEF RetainPending
  <2>7. ASSUME StillMine(w), p = a.orig
        PROVE  keeper = p /\ a.was = "login"
    BY <1>1, <2>7 DEF StillMine, Unchanged, CurrentKeeper
  <2>8. ASSUME p # a.orig, url' = Closing({a.orig}), form' = form \ {a.orig}
        PROVE  Kept(p)
    BY <1>1, <2>8 DEF Closing, Kept
  <2>9. CASE ProbeOpened(w) \/ ProbeLands(w)
    BY <1>3, <2>3, <2>5, <2>9 DEF ProbeOpened, ProbeLands
  <2>10. CASE ProbeLanded(w)
    <3>1. ASSUME StillMine(w), a.was # "login", Surface(w) PROVE Kept(p)
      BY <2>7, <2>8, <3>1 DEF Surface
    <3> QED BY <1>3, <2>3, <2>6, <2>10, <3>1 DEF ProbeLanded
  <2>11. CASE ProbeRead(w)
    BY <2>3, <2>4, <2>11 DEF ProbeRead
  <2>12. CASE ProbeNative(w)
    <3>1. ASSUME StillMine(w), Promote(w), ~(a.via = "resume" /\ a.was = "login"),
                 a.via # "login", p = a.orig
          PROVE  SignedInElsewhere(p)
      <4>1. keeper = p /\ a.was = "login"
        BY <2>7, <3>1
      <4>2. w = "ensure" /\ a = ensure /\ a.via = "sso"
        BY <2>1, <3>1, <4>1, ProbeFacts DEF Prober, Activity
      <4>3. a.probe \in proof
        BY <2>12, <4>2 DEF ProbeNative, KeeperInv, ProofInv
      <4> QED BY <3>1, <4>1, <4>2, <4>3 DEF Promote, SignedInElsewhere
    <3>2. ASSUME Promote(w), p # a.orig PROVE Kept(p)
      BY <2>8, <3>2 DEF Promote
    <3> QED BY <1>3, <2>3, <2>12, <3>1, <3>2 DEF ProbeNative
  <2>13. CASE ProbeLook(w)
    BY <1>3, <2>3, <2>13 DEF ProbeLook
  <2>14. CASE ProbeReplaces(w)
    <3>1. a = ensure /\ ensure.saw \in {"nothing", "missed"}
      BY <2>14 DEF ProbeReplaces, KeeperInv, ProofInv, OfferInv, Activity
    <3>2. ASSUME Promote(w) PROVE Kept(p) \/ Overlooked(p)
      BY <2>8, <3>1, <3>2 DEF Promote, Overlooked
    <3> QED BY <2>3, <2>14, <3>2 DEF ProbeReplaces
  <2> QED BY <1>19, <2>9, <2>10, <2>11, <2>12, <2>13, <2>14 DEF Probes
<1> QED BY <1>6, <1>7, <1>8, <1>9, <1>10, <1>11, <1>13, <1>14, <1>15, <1>16, <1>17, <1>18, <1>19
        DEF Next, EnsureSteps, Pushing, Beating, Prober

(* A probe replaces a living keeper only when the recovery still is about  *)
(* that keeper and the probe is proved or offered to the user, and a form  *)
(* goes only with a tab whose last look did not show it, whatever happens  *)
(* between two steps of the four activities of keeper-page.ts and          *)
(* runtime.ts, a look that fails or comes too early included.              *)
THEOREM KeeperIsHandedOver == Spec => KeeperChangesHandsRightly
<1>1. ASSUME KeeperInv, [Next]_vars
      PROVE  [\A p \in commandPages : CurrentKeeper \notin {None, p} /\ keeper' = p =>
               /\ ~busy
               /\ \/ p \in proof /\ (url'[p] = "settled" \/ ensure.via = "login")
                  \/ loginSeen' # "no" /\ authedOnce' = authedOnce
               /\ \/ pending # None /\ pending.page = p /\ OriginalStands
                  \/ \E w \in Prober : Activity(w).probe = p /\ Unchanged(Activity(w))]_vars
  BY <1>1, Timely
<1>2. ASSUME KeeperInv, [Next]_vars
      PROVE  [restored /\ mishaps' = mishaps =>
               \A p \in form \ commandPages :
                 Kept(p) \/ SignedInElsewhere(p) \/ Overlooked(p)]_vars
  BY <1>2, FormIsKept
<1>3. Spec => PromotionIsTimely
  BY <1>1, KeeperIsInductive, PTL DEF Spec, PromotionIsTimely
<1>4. Spec => FormIsTheUsers
  BY <1>2, KeeperIsInductive, PTL DEF Spec, FormIsTheUsers
<1> QED BY <1>3, <1>4 DEF KeeperChangesHandsRightly

-----------------------------------------------------------------------------
(* BrowserRecovery: the inductive invariant. *)

(* A start begins without a Chromium, what it launches is the only one     *)
(* until it is attached, and a start is given up without one.              *)
StartInv ==
  /\ \A a, b \in open : a = b
  /\ restart.pc \in {"launch", "pause"} => open = {}
  /\ restart.pc = "attach" => open \subseteq {restart.ctx}
  /\ state = "FAILED" => restart.pc = "idle" /\ open = {}

(* A load has read no more than there is.                                  *)
ReadInv == recon.upto <= cloud

RecoveryInv == Recovery!TypeOK /\ StartInv /\ ReadInv
-----------------------------------------------------------------------------
(* Types, action by action. *)

DataType ==
  /\ signedIn \in BOOLEAN /\ occupied \in BOOLEAN
  /\ cloud \in 0..MaxChanges /\ known \subseteq 1..cloud /\ faults \in 0..MaxFaults
RestartStates == [pc : Recovery!Restarts, ctx : Ctx \cup {None}, failed : 0..(MaxRestarts + 1)]
LoadStates == [pc : {"idle", "loading", "read"}, ctx : Ctx \cup {None}, upto : 0..MaxChanges]
AdapterStates == [ctx : Ctx \cup {None}, awaiting : BOOLEAN, recover : {"no", "going", "landed"},
                  retry : BOOLEAN, frame : BOOLEAN]
ChromiumType ==
  /\ open \subseteq Ctx /\ {current, adopted} \subseteq Ctx \cup {None}
  /\ restart \in RestartStates
  /\ retry \in {"never", "later", "due"}
HealthType == state \in Recovery!States /\ authed \in BOOLEAN
LoadsType ==
  /\ maint \in [running : BOOLEAN, ctx : Ctx \cup {None}]
  /\ recon \in LoadStates
  /\ watch \in [due : BOOLEAN, pc : {"idle", "waits", "backoff"}]
SocketType ==
  /\ rt \in AdapterStates
  /\ socket \in {"new", "up", "silent", "down"}

LEMMA RecoveryParts ==
  Recovery!TypeOK <=> DataType /\ ChromiumType /\ HealthType /\ LoadsType /\ SocketType
BY
DEF Recovery!TypeOK, DataType, ChromiumType, HealthType, LoadsType, SocketType, RestartStates,
    LoadStates, AdapterStates

LEMMA RecoveryPartsNext ==
  DataType' /\ ChromiumType' /\ HealthType' /\ LoadsType' /\ SocketType' => Recovery!TypeOK'
BY
DEF Recovery!TypeOK, DataType, ChromiumType, HealthType, LoadsType, SocketType, RestartStates,
    LoadStates, AdapterStates

\* A disturbance is counted.
LEMMA FaultType == ASSUME Recovery!TypeOK, Recovery!Fault PROVE faults' \in 0..MaxFaults
BY RecoveryAssumption DEF Recovery!TypeOK, Recovery!Fault

\* A launch that failed leaves a start that goes on, or is given up.
LEMMA LaunchFailsType ==
  ASSUME Recovery!TypeOK, Recovery!LaunchFails, restart.pc \in {"launch", "attach"}
  PROVE  /\ restart' \in RestartStates
         /\ retry' \in {"never", "later", "due"} /\ state' \in Recovery!States
         /\ restart'.pc \in {"idle", "pause"}
         /\ state' = "FAILED" => restart'.pc = "idle"
<1>1. restart.failed \in 0..(MaxRestarts + 1) /\ MaxRestarts \in Nat
  BY RecoveryAssumption DEF Recovery!TypeOK
<1>2. CASE restart.failed + 1 > MaxRestarts
  BY <1>1, <1>2
  DEF Recovery!LaunchFails, Recovery!NotRestarting, Recovery!Restarts, RestartStates,
      Recovery!States
<1>3. CASE ~(restart.failed + 1 > MaxRestarts)
  BY <1>1, <1>3
  DEF Recovery!LaunchFails, Recovery!Restarts, RestartStates, Recovery!States, Recovery!TypeOK
<1> QED BY <1>2, <1>3

\* A load that is asked for, or joined.
LEMMA RequestType ==
  ASSUME Recovery!TypeOK, NEW c \in Ctx \cup {None}, Recovery!Request(c)
  PROVE  /\ recon' \in LoadStates
         /\ recon'.upto = recon.upto \/ recon'.upto = 0
<1>1. 0 \in 0..MaxChanges BY RecoveryAssumption
<1>2. CASE recon.pc = "idle" BY <1>1, <1>2 DEF Recovery!Request, LoadStates, Recovery!TypeOK
<1>3. CASE recon.pc # "idle" BY <1>3 DEF Recovery!Request, LoadStates, Recovery!TypeOK
<1> QED BY <1>2, <1>3

\* The adapter asks for a recovery, or notes it for later.
LEMMA RecoveryType ==
  ASSUME Recovery!TypeOK, Recovery!RequestRecovery
  PROVE  /\ rt' \in AdapterStates
         /\ state' = state \/ state' = "RECONNECTING"
BY DEF Recovery!TypeOK, Recovery!RequestRecovery, AdapterStates

\* The first values, and those of a rest.
LEMMA RestTypes ==
  /\ Recovery!NoLoad \in LoadStates /\ Recovery!NotRestarting \in RestartStates
  /\ [pc |-> "launch", ctx |-> None, failed |-> 0] \in RestartStates
  /\ \A c \in Ctx \cup {None} : Recovery!NoRecovery(c) \in AdapterStates
<1>1. 0 \in 0..MaxChanges /\ 0 \in 0..(MaxRestarts + 1) BY RecoveryAssumption
<1> QED
  BY <1>1
  DEF Recovery!NoLoad, Recovery!NotRestarting, Recovery!NoRecovery, LoadStates, RestartStates,
      AdapterStates, Recovery!Restarts

\* The end of a load as its caller and the watchdog take it.
LEMMA AdoptsType ==
  ASSUME Recovery!TypeOK, Recovery!Adopts
  PROVE  /\ restart' \in RestartStates
         /\ adopted' \in Ctx \cup {None} /\ retry' \in {"never", "later", "due"}
         /\ restart' = restart \/ (restart.pc = "sync" /\ restart'.pc = "keeper")
BY DEF Recovery!TypeOK, Recovery!Adopts, Recovery!Restarts, RestartStates
LEMMA WatchedType ==
  ASSUME Recovery!TypeOK, NEW ok \in BOOLEAN, Recovery!Watched(ok)
  PROVE  watch' \in [due : BOOLEAN, pc : {"idle", "waits", "backoff"}]
BY DEF Recovery!TypeOK, Recovery!Watched

\* What the runtime does to its Chromium.
LEMMA RestartingStep ==
  ASSUME RecoveryInv, Recovery!Restarting
  PROVE  RecoveryInv'
<1> USE RecoveryAssumption DEF RecoveryInv
<1>0. DataType /\ ChromiumType /\ HealthType /\ LoadsType /\ SocketType BY RecoveryParts
<1>1. CASE Recovery!Launch
  <2>1. CASE Recovery!Fault /\ Recovery!LaunchFails /\ UNCHANGED <<open, rt, socket>>
    <3>1. Recovery!TypeOK'
      BY <1>1, <1>0, <2>1, FaultType, LaunchFailsType, RecoveryPartsNext
      DEF Recovery!Launch, DataType, ChromiumType, HealthType, LoadsType, SocketType,
          Recovery!loads, Recovery!data
    <3>2. StartInv'
      BY <1>1, <2>1, LaunchFailsType DEF Recovery!Launch, StartInv
    <3> QED BY <3>1, <3>2, <1>1 DEF Recovery!Launch, ReadInv, Recovery!loads, Recovery!data
  <2>2. CASE /\ Recovery!Unused # {} /\ open' = open \cup {CHOOSE x \in Recovery!Unused : TRUE}
             /\ restart' = [restart EXCEPT !.pc = "attach", !.ctx
                     = CHOOSE x \in Recovery!Unused : TRUE]
             /\ rt' = Recovery!NoRecovery(CHOOSE x \in Recovery!Unused : TRUE) /\ socket' = "down"
             /\ UNCHANGED <<retry, state, faults>>
    <3> DEFINE c == CHOOSE x \in Recovery!Unused : TRUE
    <3>1. c \in Ctx BY <2>2 DEF Recovery!Unused
    <3> HIDE DEF c
    <3>2. /\ open' = open \cup {c} /\ restart' = [restart EXCEPT !.pc = "attach", !.ctx = c]
          /\ rt' = Recovery!NoRecovery(c) /\ socket' = "down" /\ UNCHANGED <<retry, state, faults>>
      BY <2>2 DEF c
    <3>4. restart'.pc = "attach" /\ restart'.ctx = c /\ restart' \in RestartStates
      BY <3>1, <3>2, <1>0 DEF ChromiumType, RestartStates, Recovery!Restarts
    <3>3. Recovery!TypeOK'
      BY <1>1, <1>0, <3>1, <3>2, <3>4, RestTypes, RecoveryPartsNext
      DEF Recovery!Launch, DataType, ChromiumType, HealthType, LoadsType, SocketType,
          Recovery!loads, Recovery!data
    <3>5. open = {} /\ state # "FAILED" BY <1>1 DEF Recovery!Launch, StartInv
    <3>6. StartInv'
      BY <3>2, <3>4, <3>5 DEF StartInv
    <3> QED BY <3>3, <3>6, <1>1 DEF Recovery!Launch, ReadInv, Recovery!loads, Recovery!data
  <2> QED BY <1>1, <2>1, <2>2 DEF Recovery!Launch
<1>2. CASE Recovery!PauseEnds
  <2>1. restart' \in RestartStates
        /\ restart'.pc = "launch"
    BY <1>2, <1>0 DEF Recovery!PauseEnds, ChromiumType, Recovery!Restarts, RestartStates
  <2>2. Recovery!TypeOK'
    BY <1>2, <1>0, <2>1, RecoveryPartsNext
    DEF Recovery!PauseEnds, DataType, ChromiumType, HealthType, LoadsType, SocketType,
        Recovery!health, Recovery!loads, Recovery!data, Recovery!world
  <2>3. StartInv' BY <1>2, <2>1 DEF Recovery!PauseEnds, StartInv, Recovery!health
  <2> QED BY <2>2, <2>3, <1>2 DEF Recovery!PauseEnds, ReadInv, Recovery!loads, Recovery!data
<1>3. CASE Recovery!Attach
  <2>1. CASE /\ Recovery!Alive(restart.ctx)
             /\ Recovery!Reported /\ socket' = IF signedIn THEN "new" ELSE "down"
             /\ current' = restart.ctx /\ restart' = [restart EXCEPT !.pc = "sync"]
             /\ Recovery!Request(restart.ctx) /\ UNCHANGED <<open, retry, faults>>
    <3>1. restart.ctx \in Ctx BY <2>1, <1>0 DEF Recovery!Alive, ChromiumType
    <3>2. recon' \in LoadStates
          /\ (recon'.upto = recon.upto \/ recon'.upto = 0)
      BY <2>1, <3>1, RequestType
    <3>6. restart' \in RestartStates /\ restart'.pc = "sync"
      BY <2>1, <1>0 DEF ChromiumType, RestartStates, Recovery!Restarts
    <3>3. Recovery!TypeOK'
      BY <1>3, <1>0, <2>1, <3>1, <3>2, <3>6, RecoveryPartsNext
      DEF Recovery!Attach, DataType, ChromiumType, HealthType, LoadsType, SocketType,
          Recovery!data, Recovery!Reported, Recovery!States
    <3>4. StartInv'
      BY <2>1, <3>6 DEF StartInv, Recovery!Reported
    <3>5. ReadInv'
      BY <1>3, <1>0, <3>2 DEF Recovery!Attach, ReadInv, Recovery!data, DataType
    <3> QED BY <3>3, <3>4, <3>5
  <2>2. CASE /\ \/ ~Recovery!Alive(restart.ctx) /\ UNCHANGED faults
                \/ Recovery!Fault
             /\ Recovery!LaunchFails /\ open' = open \ Recovery!ClosedOnFailure /\ socket' = "down"
             /\ UNCHANGED <<current, authed, recon>>
    <3>0. restart.pc = "attach" BY <1>3 DEF Recovery!Attach
    <3>1. Recovery!TypeOK'
      BY <1>3, <1>0, <2>2, <3>0, FaultType, LaunchFailsType, RecoveryPartsNext
      DEF Recovery!Attach, DataType, ChromiumType, HealthType, LoadsType, SocketType,
          Recovery!data
    <3>2. open' = {}
      BY <2>2, <3>0 DEF StartInv, Recovery!ClosedOnFailure
    <3>3. StartInv'
      BY <2>2, <3>0, <3>2, LaunchFailsType DEF StartInv
    <3> QED BY <3>1, <3>3, <2>2, <1>3 DEF Recovery!Attach, ReadInv, Recovery!data
  <2> QED BY <1>3, <2>1, <2>2 DEF Recovery!Attach
<1>4. CASE Recovery!KeeperReconciled
  <2>1. Recovery!TypeOK'
    BY <1>4, <1>0, RestTypes, RecoveryPartsNext
    DEF Recovery!KeeperReconciled, DataType, ChromiumType, HealthType, LoadsType, SocketType,
        Recovery!Reported, Recovery!loads, Recovery!data, Recovery!world, Recovery!health,
        Recovery!States
  <2>2. StartInv'
    BY <1>4
    DEF Recovery!KeeperReconciled, StartInv, Recovery!NotRestarting, Recovery!Reported,
        Recovery!health
  <2> QED BY <2>1, <2>2, <1>4
    DEF Recovery!KeeperReconciled, ReadInv, Recovery!loads, Recovery!data
<1>5. CASE Recovery!RetryDue
  <2>1. Recovery!TypeOK'
    BY <1>5, <1>0, RecoveryPartsNext
    DEF Recovery!RetryDue, DataType, ChromiumType, HealthType, LoadsType, SocketType,
        Recovery!loads, Recovery!data, Recovery!world, Recovery!health
  <2> QED BY <2>1, <1>5
    DEF Recovery!RetryDue, StartInv, ReadInv, Recovery!loads, Recovery!data, Recovery!health
<1> QED BY <1>1, <1>2, <1>3, <1>4, <1>5 DEF Recovery!Restarting

\* A step that leaves the Chromium alone and does not report a failed start.
LEMMA StartKept ==
  ASSUME RecoveryInv, UNCHANGED <<open, restart>>,
         state' = state \/ state' # "FAILED"
  PROVE  StartInv'
BY DEF RecoveryInv, StartInv

\* What the adapter does to the socket.
LEMMA RecoveringStep ==
  ASSUME RecoveryInv, Recovery!Recovering
  PROVE  RecoveryInv'
<1> USE RecoveryAssumption
  DEF RecoveryInv, Recovery!chromium, Recovery!health, Recovery!loads, Recovery!data,
      Recovery!world
<1>0. DataType /\ ChromiumType /\ HealthType /\ LoadsType /\ SocketType BY RecoveryParts
<1>1. CASE Recovery!Navigate
  <2>2. rt' \in AdapterStates BY <1>1, <1>0 DEF Recovery!Navigate, SocketType, AdapterStates
  <2>1. Recovery!TypeOK'
    BY <1>1, <1>0, <2>2, RecoveryPartsNext
    DEF Recovery!Navigate, DataType, ChromiumType, HealthType, LoadsType, SocketType
  <2> QED BY <2>1, <1>1, StartKept DEF Recovery!Navigate, ReadInv
<1>2. CASE Recovery!Connects
  <2>1. Recovery!TypeOK'
    BY <1>2, <1>0, FaultType, RecoveryPartsNext
    DEF Recovery!Connects, DataType, ChromiumType, HealthType, LoadsType, SocketType
  <2> QED BY <2>1, <1>2, StartKept DEF Recovery!Connects, ReadInv
<1>3. CASE Recovery!RecoverEnds
  <2>1. rt' \in AdapterStates
    BY <1>3, <1>0 DEF Recovery!RecoverEnds, SocketType, AdapterStates
  <2>2. faults' \in 0..MaxFaults
    BY <1>3, <1>0, FaultType DEF Recovery!RecoverEnds, DataType
  <2>3. /\ state' \in Recovery!States /\ authed' \in BOOLEAN
        /\ state' = state \/ state' # "FAILED"
    BY <1>3, <1>0
    DEF Recovery!RecoverEnds, Recovery!Reported, HealthType, DataType, Recovery!States
  <2>4. Recovery!TypeOK'
    BY <1>3, <1>0, <2>1, <2>2, <2>3, RecoveryPartsNext
    DEF Recovery!RecoverEnds, DataType, ChromiumType, HealthType, LoadsType, SocketType
  <2> QED BY <2>3, <2>4, <1>3, StartKept DEF Recovery!RecoverEnds, ReadInv
<1>4. CASE Recovery!FrameTimeout
  <2>2. rt' \in AdapterStates BY <1>4, <1>0 DEF Recovery!FrameTimeout, SocketType, AdapterStates
  <2>1. Recovery!TypeOK'
    BY <1>4, <1>0, <2>2, RecoveryPartsNext
    DEF Recovery!FrameTimeout, DataType, ChromiumType, HealthType, LoadsType, SocketType
  <2> QED BY <2>1, <1>4, StartKept DEF Recovery!FrameTimeout, ReadInv
<1>5. CASE Recovery!RetryFires
  <2>2. rt' \in AdapterStates BY <1>5, <1>0 DEF Recovery!RetryFires, SocketType, AdapterStates
  <2>1. Recovery!TypeOK'
    BY <1>5, <1>0, <2>2, RecoveryPartsNext
    DEF Recovery!RetryFires, DataType, ChromiumType, HealthType, LoadsType, SocketType,
        Recovery!States
  <2> QED BY <2>1, <1>5, StartKept DEF Recovery!RetryFires, ReadInv
<1>6. CASE Recovery!Frame
  <2>1. current \in Ctx \cup {None} BY <1>0 DEF ChromiumType
  <2>2. rt' \in AdapterStates
    BY <1>6, <1>0 DEF Recovery!Frame, Recovery!Observed, SocketType, AdapterStates
  <2>3. /\ recon' \in LoadStates
        /\ recon'.upto = recon.upto \/ recon'.upto = 0
    BY <1>6, <2>1, RequestType DEF Recovery!Frame, Recovery!Observed
  <2>4. Recovery!TypeOK'
    BY <1>6, <1>0, <2>2, <2>3, RecoveryPartsNext
    DEF Recovery!Frame, DataType, ChromiumType, HealthType, LoadsType, SocketType
  <2>5. ReadInv'
    BY <1>6, <1>0, <2>3 DEF Recovery!Frame, ReadInv, DataType
  <2> QED BY <2>4, <2>5, <1>6, StartKept DEF Recovery!Frame
<1>7. CASE Recovery!RecoverStale
  <2>1. Recovery!TypeOK'
    BY <1>7, <1>0, RecoveryType, RecoveryPartsNext
    DEF Recovery!RecoverStale, DataType, ChromiumType, HealthType, LoadsType, SocketType,
        Recovery!States
  <2> QED BY <2>1, <1>7, RecoveryType, StartKept DEF Recovery!RecoverStale, ReadInv
<1> QED BY <1>1, <1>2, <1>3, <1>4, <1>5, <1>6, <1>7 DEF Recovery!Recovering

\* Loads, and the watchdog.
LEMMA LoadingStep ==
  ASSUME RecoveryInv, Recovery!Loading
  PROVE  RecoveryInv'
<1> USE RecoveryAssumption
  DEF RecoveryInv, Recovery!chromium, Recovery!health, Recovery!loads, Recovery!data,
      Recovery!world
<1>0. DataType /\ ChromiumType /\ HealthType /\ LoadsType /\ SocketType BY RecoveryParts
<1>a. ASSUME Recovery!Adopts, UNCHANGED <<open, state>> PROVE StartInv'
  BY <1>a, AdoptsType DEF StartInv
<1>1. CASE Recovery!ReadInventory
  <2>1. /\ recon' \in LoadStates
        /\ recon'.upto = cloud /\ cloud' = cloud
    BY <1>1, <1>0 DEF Recovery!ReadInventory, LoadsType, DataType, LoadStates
  <2>2. Recovery!TypeOK'
    BY <1>1, <1>0, <2>1, RecoveryPartsNext
    DEF Recovery!ReadInventory, DataType, ChromiumType, HealthType, LoadsType, SocketType
  <2>3. ReadInv' BY <1>0, <2>1 DEF ReadInv, DataType
  <2> QED BY <2>2, <2>3, <1>1, StartKept DEF Recovery!ReadInventory
<1>2. CASE Recovery!Loaded
  <2>1. known' \subseteq 1..cloud'
    <3>1. recon.upto \in Nat /\ recon.upto <= cloud /\ cloud \in Nat /\ known \subseteq 1..cloud
      BY <1>0 DEF ReadInv, DataType, LoadsType, LoadStates
    <3>2. known' = known \cup 1..recon.upto /\ cloud' = cloud BY <1>2 DEF Recovery!Loaded
    <3>3. 1..recon.upto \subseteq 1..cloud BY <3>1
    <3>4. known \subseteq 1..cloud BY <3>1
    <3> QED BY <3>2, <3>3, <3>4
  <2>2. Recovery!NoLoad \in LoadStates BY RestTypes
  <2>3. Recovery!TypeOK'
    BY <1>2, <1>0, <2>1, <2>2, AdoptsType, WatchedType, RecoveryPartsNext
    DEF Recovery!Loaded, DataType, ChromiumType, HealthType, LoadsType, SocketType
  <2>4. ReadInv' BY <1>2, <1>0 DEF Recovery!Loaded, ReadInv, Recovery!NoLoad, DataType
  <2> QED BY <2>3, <2>4, <1>2, <1>a DEF Recovery!Loaded
<1>3. CASE Recovery!LoadFails
  <2>1. Recovery!NoLoad \in LoadStates BY RestTypes
  <2>2. faults' \in 0..MaxFaults
    BY <1>3, <1>0, FaultType DEF Recovery!LoadFails, DataType
  <2>3. Recovery!TypeOK'
    BY <1>3, <1>0, <2>1, <2>2, AdoptsType, WatchedType, RecoveryPartsNext
    DEF Recovery!LoadFails, DataType, ChromiumType, HealthType, LoadsType, SocketType
  <2>4. ReadInv' BY <1>3, <1>0 DEF Recovery!LoadFails, ReadInv, Recovery!NoLoad, DataType
  <2> QED BY <2>3, <2>4, <1>3, <1>a DEF Recovery!LoadFails
<1>4. CASE Recovery!WatchDue
  <2>1. Recovery!TypeOK'
    BY <1>4, <1>0, RecoveryPartsNext
    DEF Recovery!WatchDue, DataType, ChromiumType, HealthType, LoadsType, SocketType
  <2> QED BY <2>1, <1>4, StartKept DEF Recovery!WatchDue, ReadInv
<1>5. CASE Recovery!WatchTick
  <2>1. current \in Ctx \cup {None} BY <1>0 DEF ChromiumType
  <2>2. /\ recon' \in LoadStates
        /\ recon'.upto = recon.upto \/ recon'.upto = 0
    BY <1>5, <2>1, RequestType DEF Recovery!WatchTick
  <2>3. Recovery!TypeOK'
    BY <1>5, <1>0, <2>2, RecoveryPartsNext
    DEF Recovery!WatchTick, DataType, ChromiumType, HealthType, LoadsType, SocketType
  <2>4. ReadInv'
    BY <1>5, <1>0, <2>2 DEF Recovery!WatchTick, ReadInv, DataType
  <2> QED BY <2>3, <2>4, <1>5, StartKept DEF Recovery!WatchTick
<1> QED BY <1>1, <1>2, <1>3, <1>4, <1>5 DEF Recovery!Loading

\* The keeper interval.
LEMMA KeepingStep ==
  ASSUME RecoveryInv, Recovery!Keeping
  PROVE  RecoveryInv'
<1> USE RecoveryAssumption
  DEF RecoveryInv, Recovery!chromium, Recovery!health, Recovery!loads, Recovery!data,
      Recovery!world
<1>0. DataType /\ ChromiumType /\ HealthType /\ LoadsType /\ SocketType BY RecoveryParts
<1>1. CASE Recovery!RetryRestart
  <2>1. Recovery!TypeOK'
    BY <1>1, <1>0, RestTypes, RecoveryPartsNext
    DEF Recovery!RetryRestart, Recovery!StartsRestart, DataType, ChromiumType, HealthType,
        LoadsType, SocketType, Recovery!States
  <2>2. StartInv'
    BY <1>1 DEF Recovery!RetryRestart, Recovery!StartsRestart, Recovery!RetryStart, StartInv
  <2> QED BY <2>1, <2>2, <1>1 DEF Recovery!RetryRestart, ReadInv
<1>2. CASE Recovery!MaintStarts
  <2>1. Recovery!TypeOK'
    BY <1>2, <1>0, RecoveryPartsNext
    DEF Recovery!MaintStarts, DataType, ChromiumType, HealthType, LoadsType, SocketType
  <2> QED BY <2>1, <1>2, StartKept DEF Recovery!MaintStarts, ReadInv
<1>3. CASE Recovery!MaintEnds
  <2>1. /\ state' \in Recovery!States /\ authed' \in BOOLEAN
        /\ state' = state \/ state' # "FAILED"
    BY <1>3, <1>0
    DEF Recovery!MaintEnds, Recovery!Reported, HealthType, DataType, Recovery!States
  <2>2. Recovery!TypeOK'
    BY <1>3, <1>0, <2>1, RecoveryPartsNext
    DEF Recovery!MaintEnds, DataType, ChromiumType, HealthType, LoadsType, SocketType
  <2> QED BY <2>1, <2>2, <1>3, StartKept DEF Recovery!MaintEnds, ReadInv
<1> QED BY <1>1, <1>2, <1>3 DEF Recovery!Keeping

\* The context that closes, the cloud, the user and the commands.
LEMMA DisturbingStep ==
  ASSUME RecoveryInv, Recovery!Disturbing
  PROVE  RecoveryInv'
<1> USE RecoveryAssumption
  DEF RecoveryInv, Recovery!chromium, Recovery!health, Recovery!loads, Recovery!data,
      Recovery!world
<1>0. DataType /\ ChromiumType /\ HealthType /\ LoadsType /\ SocketType BY RecoveryParts
<1>1. CASE Recovery!ContextCloses
  <2> PICK c \in open :
       /\ open' = open \ {c}
       /\ rt' = IF rt.ctx = c THEN Recovery!NoRecovery(None) ELSE rt
       /\ socket' = IF c \in {current, restart.ctx} THEN "down" ELSE socket
       /\ IF Recovery!HandlerActs(c)
          THEN /\ current' = None /\ authed' = FALSE
               /\ IF restart.pc = "idle" THEN Recovery!StartsRestart
                  ELSE state' = "RECONNECTING" /\ UNCHANGED restart
          ELSE UNCHANGED <<current, state, authed, restart>>
    BY <1>1 DEF Recovery!ContextCloses
  <2>1. open' = {} BY DEF StartInv
  <2>5. rt' \in AdapterStates /\ socket' \in {"new", "up", "silent", "down"}
    BY <1>0, RestTypes DEF SocketType
  <2>2. CASE Recovery!HandlerActs(c) /\ restart.pc = "idle"
    <3>1. Recovery!TypeOK'
      BY <1>1, <1>0, <2>2, <2>5, FaultType, RestTypes, RecoveryPartsNext
      DEF Recovery!ContextCloses, Recovery!StartsRestart, DataType, ChromiumType, HealthType,
          LoadsType, SocketType, Recovery!States
    <3>2. StartInv' BY <2>1, <2>2 DEF Recovery!StartsRestart, StartInv
    <3> QED BY <3>1, <3>2, <1>1 DEF Recovery!ContextCloses, ReadInv
  <2>3. CASE Recovery!HandlerActs(c) /\ restart.pc # "idle"
    <3>1. Recovery!TypeOK'
      BY <1>1, <1>0, <2>3, <2>5, FaultType, RestTypes, RecoveryPartsNext
      DEF Recovery!ContextCloses, DataType, ChromiumType, HealthType, LoadsType, SocketType,
          Recovery!States
    <3>2. StartInv' BY <2>1, <2>3 DEF StartInv
    <3> QED BY <3>1, <3>2, <1>1 DEF Recovery!ContextCloses, ReadInv
  <2>4. CASE ~Recovery!HandlerActs(c)
    <3>1. Recovery!TypeOK'
      BY <1>1, <1>0, <2>4, <2>5, FaultType, RestTypes, RecoveryPartsNext
      DEF Recovery!ContextCloses, DataType, ChromiumType, HealthType, LoadsType, SocketType,
          Recovery!States
    <3>2. StartInv' BY <2>1, <2>4 DEF StartInv
    <3> QED BY <3>1, <3>2, <1>1 DEF Recovery!ContextCloses, ReadInv
  <2> QED BY <2>2, <2>3, <2>4
<1>2. CASE Recovery!SocketCloses
  <2>1. Recovery!TypeOK'
    BY <1>2, <1>0, FaultType, RecoveryType, RecoveryPartsNext
    DEF Recovery!SocketCloses, DataType, ChromiumType, HealthType, LoadsType, SocketType,
        Recovery!States
  <2> QED BY <2>1, <1>2, RecoveryType, StartKept DEF Recovery!SocketCloses, ReadInv
<1>3. CASE Recovery!SocketSilent \/ Recovery!PageReconnects \/ Recovery!SessionEnds
        \/ Recovery!UserSignsIn \/ Recovery!CommandStarts \/ Recovery!CommandEnds
  <2>1. faults' \in 0..MaxFaults
    BY <1>3, <1>0, FaultType
    DEF Recovery!SocketSilent, Recovery!PageReconnects, Recovery!SessionEnds,
        Recovery!UserSignsIn, Recovery!CommandStarts, Recovery!CommandEnds, DataType
  <2>2. /\ UNCHANGED <<open, current, adopted, restart, retry, state, authed, maint, recon, watch,
                       rt, cloud, known>>
        /\ socket' \in {"new", "up", "silent", "down"} /\ signedIn' \in BOOLEAN
        /\ occupied' \in BOOLEAN
    BY <1>3, <1>0
    DEF Recovery!SocketSilent, Recovery!PageReconnects, Recovery!SessionEnds,
        Recovery!UserSignsIn, Recovery!CommandStarts, Recovery!CommandEnds, SocketType, DataType
  <2>3. Recovery!TypeOK'
    BY <1>0, <2>1, <2>2, RecoveryPartsNext
    DEF DataType, ChromiumType, HealthType, LoadsType, SocketType
  <2> QED BY <2>2, <2>3, StartKept DEF ReadInv
<1>4. CASE Recovery!CallerRequests
  <2>1. current \in Ctx \cup {None} BY <1>0 DEF ChromiumType
  <2>2. /\ recon' \in LoadStates
        /\ recon'.upto = recon.upto \/ recon'.upto = 0
    BY <1>4, <2>1, RequestType DEF Recovery!CallerRequests
  <2>3. Recovery!TypeOK'
    BY <1>4, <1>0, <2>2, FaultType, RecoveryPartsNext
    DEF Recovery!CallerRequests, DataType, ChromiumType, HealthType, LoadsType, SocketType
  <2>4. ReadInv'
    BY <1>4, <1>0, <2>2 DEF Recovery!CallerRequests, ReadInv, DataType
  <2> QED BY <2>3, <2>4, <1>4, StartKept DEF Recovery!CallerRequests
<1>5. CASE Recovery!CloudChanges
  <2>1. current \in Ctx \cup {None} BY <1>0 DEF ChromiumType
  <2>2. cloud' \in 0..MaxChanges /\ cloud' = cloud + 1 /\ cloud' \in Nat
    BY <1>5, <1>0 DEF Recovery!CloudChanges, DataType
  <2>3. known' \subseteq 1..cloud'
    <3>1. known' \in {known, known \cup {cloud'}} BY <1>5 DEF Recovery!CloudChanges
    <3>2. known \subseteq 1..cloud /\ cloud \in Nat BY <1>0 DEF DataType
    <3> QED BY <3>1, <3>2, <2>2
  <2>4. rt' \in AdapterStates
    BY <1>5, <1>0 DEF Recovery!CloudChanges, Recovery!Observed, SocketType, AdapterStates
  <2>5. /\ recon' \in LoadStates
        /\ recon'.upto = recon.upto \/ recon'.upto = 0
    BY <1>5, <1>0, <2>1, RequestType DEF Recovery!CloudChanges, Recovery!Observed, LoadsType
  <2>6. Recovery!TypeOK'
    BY <1>5, <1>0, <2>2, <2>3, <2>4, <2>5, RecoveryPartsNext
    DEF Recovery!CloudChanges, DataType, ChromiumType, HealthType, LoadsType, SocketType
  <2>7. ReadInv'
    BY <1>0, <2>2, <2>5 DEF ReadInv, DataType, LoadsType, LoadStates
  <2> QED BY <2>6, <2>7, <1>5, StartKept DEF Recovery!CloudChanges
<1> QED BY <1>1, <1>2, <1>3, <1>4, <1>5 DEF Recovery!Disturbing

-----------------------------------------------------------------------------
\* The inductive invariant.
LEMMA RecoveryInvariant == Recovery!Spec => []RecoveryInv
<1>1. Recovery!Init => RecoveryInv
  <2> SUFFICES ASSUME Recovery!Init PROVE RecoveryInv OBVIOUS
  <2> USE RecoveryAssumption
  <2>1. Recovery!TypeOK
    <3>0. 0 \in 0..MaxChanges /\ 0 \in 0..MaxFaults OBVIOUS
    <3>1. DataType /\ HealthType BY <3>0
      DEF Recovery!Init, DataType, HealthType, Recovery!States
    <3>2. ChromiumType BY RestTypes DEF Recovery!Init, ChromiumType
    <3>3. LoadsType BY RestTypes DEF Recovery!Init, LoadsType
    <3>4. SocketType BY RestTypes DEF Recovery!Init, SocketType
    <3> QED BY <3>1, <3>2, <3>3, <3>4, RecoveryParts
  <2>2. StartInv BY DEF Recovery!Init, StartInv
  <2>3. ReadInv BY DEF Recovery!Init, ReadInv, Recovery!NoLoad
  <2> QED BY <2>1, <2>2, <2>3 DEF RecoveryInv
<1>2. RecoveryInv /\ [Recovery!Next]_Recovery!vars => RecoveryInv'
  <2>1. ASSUME RecoveryInv, UNCHANGED Recovery!vars PROVE RecoveryInv'
    BY <2>1
    DEF RecoveryInv, Recovery!TypeOK, StartInv, ReadInv, Recovery!vars, Recovery!chromium,
        Recovery!health, Recovery!loads, Recovery!data, Recovery!world
  <2> QED BY <2>1, RestartingStep, RecoveringStep, LoadingStep, KeepingStep, DisturbingStep
          DEF Recovery!Next
<1> QED BY <1>1, <1>2, PTL DEF Recovery!Spec

(* Two Chromiums never run at once on the profile, however often a start   *)
(* fails, a context dies before it is attached or adopted, and a retry     *)
(* falls due: restartBrowser and BrowserSupervisor.start.                  *)
THEOREM NeverTwoChromiums == Recovery!Spec => []OneChromium
<1>1. ASSUME RecoveryInv PROVE OneChromium
  <2>1. \A a, b \in open : a = b BY <1>1 DEF RecoveryInv, StartInv
  <2>2. Cardinality(open) <= 1
    <3>1. CASE open = {} BY <3>1, FS_EmptySet
    <3>2. CASE open # {}
      <4> PICK c \in open : TRUE BY <3>2
      <4>1. open = {c} BY <2>1
      <4> QED BY <4>1, FS_Singleton
    <3> QED BY <3>1, <3>2
  <2>3. Recovery!Cardinality(open) = Cardinality(open)
    BY DEF Recovery!Cardinality, Cardinality
  <2> QED BY <1>1, <2>2, <2>3 DEF RecoveryInv, OneChromium, Recovery!OneChromium
<1> QED BY RecoveryInvariant, <1>1, PTL

(* An inventory that was read in one context does not reach the store when *)
(* another context, or none, is current: #loadInventory.                   *)
THEOREM StaleLoadsAreDropped == Recovery!Spec => LoadsAreCurrent
<1> DEFINE Fresh == known' # known /\ cloud' = cloud
                    => recon.ctx = current /\ recon.ctx = current'
<1>1. ASSUME RecoveryInv, [Recovery!Next]_Recovery!vars PROVE Fresh
  <2> USE DEF Recovery!chromium, Recovery!health, Recovery!loads, Recovery!data, Recovery!world
  <2>1. CASE Recovery!Loaded BY <2>1 DEF Recovery!Loaded, Recovery!SameContext
  <2>2. CASE Recovery!CloudChanges
    BY <1>1, <2>2 DEF Recovery!CloudChanges, RecoveryInv, Recovery!TypeOK
  <2>3. CASE \/ Recovery!Restarting \/ Recovery!Recovering \/ Recovery!Keeping
             \/ UNCHANGED Recovery!vars
    BY <2>3
    DEF Recovery!Restarting, Recovery!Recovering, Recovery!Keeping, Recovery!vars,
        Recovery!Launch, Recovery!PauseEnds, Recovery!Attach, Recovery!KeeperReconciled,
        Recovery!RetryDue, Recovery!Navigate, Recovery!Connects, Recovery!RecoverEnds,
        Recovery!FrameTimeout, Recovery!RetryFires, Recovery!Frame, Recovery!RecoverStale,
        Recovery!RetryRestart, Recovery!MaintStarts, Recovery!MaintEnds
  <2>4. CASE Recovery!ReadInventory \/ Recovery!LoadFails \/ Recovery!WatchDue \/ Recovery!WatchTick
    BY <2>4
    DEF Recovery!ReadInventory, Recovery!LoadFails, Recovery!WatchDue, Recovery!WatchTick
  <2>5. CASE \/ Recovery!ContextCloses \/ Recovery!SocketCloses \/ Recovery!SocketSilent
             \/ Recovery!PageReconnects \/ Recovery!CallerRequests \/ Recovery!SessionEnds
             \/ Recovery!UserSignsIn \/ Recovery!CommandStarts \/ Recovery!CommandEnds
    BY <2>5
    DEF Recovery!ContextCloses, Recovery!SocketCloses, Recovery!SocketSilent,
        Recovery!PageReconnects, Recovery!CallerRequests, Recovery!SessionEnds,
        Recovery!UserSignsIn, Recovery!CommandStarts, Recovery!CommandEnds
  <2> QED BY <1>1, <2>1, <2>2, <2>3, <2>4, <2>5
    DEF Recovery!Next, Recovery!Loading, Recovery!Disturbing
<1>2. RecoveryInv /\ [Recovery!Next]_Recovery!vars => [Fresh]_Recovery!vars
  BY <1>1
<1>3. Recovery!Spec => [][Fresh]_Recovery!vars
  BY RecoveryInvariant, <1>2, PTL DEF Recovery!Spec
<1> QED BY <1>3 DEF LoadsAreCurrent, Recovery!LoadsAreCurrent

-----------------------------------------------------------------------------
(* SoakRun: the log. *)

(* What a log tells, at time t, when the Bridge is up for u and rs are its *)
(* restarts.  Every later observation keeps it, and so does time.          *)
Good(q) == Soak!Answered(q) /\ ~Soak!GapFails(q) /\ ~Soak!UptimeFails(q)

(* It has an observation for every moment, in order.                       *)
Covers(q) ==
  /\ \A i \in 1..Len(q) : q[1].at <= q[i].at /\ q[i].at <= q[Len(q)].at
  /\ \A i \in 1..Len(q) : q[i].at - q[1].at <= (2 * (i - 1)) * Interval
  /\ \A m \in q[1].at..q[Len(q)].at :
       \E i \in 1..Len(q) : q[i].at - m \in (-2 * Interval)..(2 * Interval)

(* It hides no restart, and none since its last observation.               *)
Young(r) == r.age <= 2 * Interval + Tolerance
SoakShows(q, t, u, rs) ==
  LET last == q[Len(q)] IN
  /\ u <= last.up + (t - last.at)
  /\ \A r \in rs : q[1].at < r.at /\ r.at < last.at => Young(r)
  /\ \A r \in rs : q[1].at < r.at /\ last.at <= r.at =>
       Young(r) \/ (r.age <= last.up + (r.at - last.at) /\ u <= t - r.at)

Seen(q, t, u, rs) ==
  /\ q \in Seq(Soak!Observation) /\ \A i \in 1..Len(q) : q[i].at <= t
  /\ Good(q) /\ q # <<>> => Covers(q) /\ SoakShows(q, t, u, rs)

Restarted(t, rs) == \A r \in rs : r.at \in Nat /\ r.age \in Nat /\ r.at <= t

\* One interval more.
LEMMA Twice ==
  ASSUME NEW k \in Int, NEW x \in Int
  PROVE  (2 * (k - 1)) * x + 2 * x = (2 * ((k + 1) - 1)) * x
<1>1. 2 * ((k + 1) - 1) = 2 * (k - 1) + 2
  OBVIOUS
<1>2. \A a, b \in Int : (a + b) * x = a * x + b * x
  OBVIOUS
<1> QED BY <1>1, <1>2

LEMMA Units == ASSUME NEW o \in Soak!Observation PROVE o.at \in Nat /\ o.up \in Nat
BY SoakAssumption DEF Soak!Observation, Soak!Time, Soak!Age

\* The last two of a log.
LEMMA LastTwo ==
  ASSUME NEW q \in Seq(Soak!Observation), q # <<>>, NEW o \in Soak!Observation, Good(Append(q, o))
  PROVE  /\ Good(q) /\ o.kind = "sample"
         /\ q[Len(q)].at <= o.at /\ o.at - q[Len(q)].at <= 2 * Interval
         /\ q[Len(q)].up <= o.up + Tolerance
<1> DEFINE x == Append(q, o)
<1>1. Len(x) = Len(q) + 1 /\ Len(q) \in Nat \ {0} /\ x[Len(x)] = o
      /\ \A i \in 1..Len(q) : x[i] = q[i]
  OBVIOUS
<1>2. Soak!Follow(q) \subseteq Soak!Follow(x) /\ <<q[Len(q)], o>> \in Soak!Follow(x)
  BY <1>1 DEF Soak!Follow
<1>3. q[Len(q)].at \in Nat /\ o.at \in Nat /\ q[Len(q)].up \in Nat /\ o.up \in Nat
      /\ Interval \in Nat /\ Tolerance \in Nat
  BY <1>1, Units, SoakAssumption
<1>4. Soak!Answered(q) /\ o.kind = "sample"
  BY <1>1 DEF Good, Soak!Answered
<1>5. ~Soak!GapFails(q) /\ ~Soak!UptimeFails(q)
  BY <1>2 DEF Good, Soak!GapFails, Soak!UptimeFails
<1>6. ~(Soak!Gap(q[Len(q)], o) < 0 \/ Soak!Gap(q[Len(q)], o) > 2 * Interval)
  BY <1>2 DEF Good, Soak!GapFails
<1>7. ~(o.up + Tolerance < q[Len(q)].up)
  BY <1>2 DEF Good, Soak!UptimeFails
<1> QED BY <1>3, <1>4, <1>5, <1>6, <1>7 DEF Soak!Gap, Good

LEMMA CoversMore ==
  ASSUME NEW q \in Seq(Soak!Observation), q # <<>>, NEW o \in Soak!Observation, Good(Append(q, o)),
         Covers(q)
  PROVE  Covers(Append(q, o))
<1> DEFINE x == Append(q, o)
           n == Len(q)
<1>1. x \in Seq(Soak!Observation) /\ Len(x) = n + 1 /\ n \in Nat \ {0} /\ x[n + 1] = o
      /\ \A i \in 1..n : x[i] = q[i]
  OBVIOUS
<1>2. Interval \in Nat /\ \A i \in 1..(n + 1) : x[i].at \in Nat
  BY <1>1, Units, SoakAssumption
<1>3. q[n].at <= o.at /\ o.at - q[n].at <= 2 * Interval
  BY LastTwo
<1>4. x[1] = q[1] /\ x[n] = q[n] /\ q[1].at \in Nat /\ q[n].at \in Nat /\ o.at \in Nat
  BY <1>1, <1>2
<1>5. \A i \in 1..(n + 1) : x[1].at <= x[i].at /\ x[i].at <= o.at
  <2> SUFFICES ASSUME NEW i \in 1..(n + 1) PROVE x[1].at <= x[i].at /\ x[i].at <= o.at
    OBVIOUS
  <2>1. CASE i = n + 1
    BY <1>1, <1>3, <1>4, <2>1 DEF Covers
  <2>2. CASE i \in 1..n
    BY <1>1, <1>2, <1>3, <1>4, <2>2 DEF Covers
  <2> QED BY <1>1, <2>1, <2>2
<1>6. \A i \in 1..(n + 1) : x[i].at - x[1].at <= (2 * (i - 1)) * Interval
  <2> SUFFICES ASSUME NEW i \in 1..(n + 1)
               PROVE  x[i].at - x[1].at <= (2 * (i - 1)) * Interval
    OBVIOUS
  <2>1. CASE i = n + 1
    <3>1. q[n].at - q[1].at <= (2 * (n - 1)) * Interval
      BY <1>1 DEF Covers
    <3>2. (2 * (n - 1)) * Interval + 2 * Interval = (2 * ((n + 1) - 1)) * Interval
      BY <1>1, <1>2, Twice
    <3>3. (2 * (n - 1)) * Interval \in Int /\ (2 * ((n + 1) - 1)) * Interval \in Int
      BY <1>1, <1>2
    <3> DEFINE A == (2 * (n - 1)) * Interval
               B == (2 * ((n + 1) - 1)) * Interval
    <3>4. A \in Int /\ B \in Int /\ A + 2 * Interval = B /\ q[n].at - q[1].at <= A
      BY <3>1, <3>2, <3>3
    <3>5. x[i].at - x[1].at = o.at - q[1].at /\ 2 * Interval \in Nat
      BY <1>1, <1>2, <1>4, <2>1
    <3> HIDE DEF A, B, n, x
    <3>6. x[i].at - x[1].at <= B
      BY <1>3, <1>4, <3>4, <3>5
    <3> QED BY <2>1, <3>6 DEF B
  <2>2. CASE i \in 1..n
    BY <1>1, <1>4, <2>2 DEF Covers
  <2> QED BY <1>1, <2>1, <2>2
<1>7. \A m \in x[1].at..o.at :
        \E i \in 1..(n + 1) : x[i].at - m \in (-2 * Interval)..(2 * Interval)
  <2> SUFFICES ASSUME NEW m \in x[1].at..o.at
               PROVE  \E i \in 1..(n + 1) : x[i].at - m \in (-2 * Interval)..(2 * Interval)
    OBVIOUS
  <2>1. CASE m <= q[n].at
    <3>1. m \in q[1].at..q[n].at BY <1>4, <2>1
    <3>2. PICK i \in 1..n : q[i].at - m \in (-2 * Interval)..(2 * Interval)
      BY <3>1 DEF Covers
    <3> QED BY <1>1, <3>2
  <2>2. CASE ~(m <= q[n].at)
    <3>1. x[n + 1].at - m \in (-2 * Interval)..(2 * Interval)
      BY <1>1, <1>2, <1>3, <1>4, <2>2
    <3> QED BY <1>1, <3>1
  <2> QED BY <2>1, <2>2
<1> HIDE DEF x, n
<1> QED BY <1>1, <1>5, <1>6, <1>7 DEF Covers, x

\* A restart between two samples is no older than the time between them allows.
LEMMA RestartIsYoung ==
  ASSUME NEW age \in Nat, NEW time \in Nat, NEW from \in Nat, NEW to \in Nat,
         NEW before \in Nat, NEW after \in Nat, NEW slack \in Nat,
         age <= before + (time - from), before <= after + slack, after <= to - time
  PROVE  age <= to - from + slack
OBVIOUS

LEMMA ShowsMore ==
  ASSUME NEW q \in Seq(Soak!Observation), q # <<>>, NEW o \in Soak!Observation, Good(Append(q, o)),
         NEW rs, Restarted(o.at, rs), SoakShows(q, o.at, o.up, rs)
  PROVE  SoakShows(Append(q, o), o.at, o.up, rs)
<1> DEFINE x == Append(q, o)
           n == Len(q)
<1>1. Len(x) = n + 1 /\ n \in Nat \ {0} /\ x[n + 1] = o /\ x[1] = q[1]
  OBVIOUS
<1>2. Interval \in Nat /\ q[1].at \in Nat /\ q[n].at \in Nat /\ o.at \in Nat
      /\ q[n].up \in Nat /\ o.up \in Nat /\ Tolerance \in Nat
  BY <1>1, Units, SoakAssumption
<1>3. q[n].at <= o.at /\ o.at - q[n].at <= 2 * Interval /\ q[n].up <= o.up + Tolerance
  BY LastTwo
<1> HIDE DEF n, x
<1>4. \A r \in rs : q[1].at < r.at /\ r.at < q[n].at => Young(r)
  BY DEF SoakShows, n
<1>5. \A r \in rs : q[1].at < r.at /\ q[n].at <= r.at =>
         Young(r) \/ (r.age <= q[n].up + (r.at - q[n].at) /\ o.up <= o.at - r.at)
  BY DEF SoakShows, n
<1>6. \A r \in rs : q[1].at < r.at => Young(r)
  <2> SUFFICES ASSUME NEW r \in rs, q[1].at < r.at PROVE Young(r)
    OBVIOUS
  <2>1. r.at \in Nat /\ r.age \in Nat /\ r.at <= o.at
    BY DEF Restarted
  <2>2. CASE r.at < q[n].at
    BY <1>4, <2>2
  <2>3. CASE r.age <= q[n].up + (r.at - q[n].at) /\ o.up <= o.at - r.at
    <3>0. o.at \in Nat BY Units
    <3>1. r.age <= o.at - q[n].at + Tolerance
      BY <1>2, <1>3, <2>1, <2>3, <3>0, RestartIsYoung
    <3>2. 2 * Interval \in Nat BY <1>2
    <3> QED BY <1>2, <1>3, <2>1, <3>1, <3>2 DEF Young
  <2> QED BY <1>2, <1>5, <2>1, <2>2, <2>3
<1>7. o.up <= o.up + (o.at - o.at)
  BY <1>2
<1> QED BY <1>1, <1>6, <1>7 DEF SoakShows, x

\* An observation made now.
LEMMA SeenMore ==
  ASSUME NEW q, NEW o \in Soak!Observation, NEW u \in Nat, NEW rs, Restarted(o.at, rs),
         Seen(q, o.at, u, rs), o.kind = "sample" => o.up = u
  PROVE  Seen(Append(q, o), o.at, u, rs)
<1> DEFINE x == Append(q, o)
<1>1. q \in Seq(Soak!Observation) /\ x \in Seq(Soak!Observation) /\ Len(q) \in Nat
      /\ Len(x) = Len(q) + 1 /\ x[Len(q) + 1] = o /\ \A i \in 1..Len(q) : x[i] = q[i]
  BY DEF Seen
<1>0. o.at \in Nat /\ o.up \in Nat
  BY Units
<1>2. \A i \in 1..Len(x) : x[i].at <= o.at
  <2> SUFFICES ASSUME NEW i \in 1..Len(x) PROVE x[i].at <= o.at
    OBVIOUS
  <2>1. CASE i = Len(q) + 1 BY <1>0, <1>1, <2>1
  <2>2. CASE i \in 1..Len(q) BY <1>1, <2>2 DEF Seen
  <2> QED BY <1>1, <2>1, <2>2
<1>3. ASSUME Good(x) PROVE Covers(x) /\ SoakShows(x, o.at, u, rs)
  <2>1. CASE q = <<>>
    <3>1. Len(x) = 1 /\ x[1] = o /\ o.kind = "sample"
      BY <1>1, <1>3, <2>1 DEF Good, Soak!Answered
    <3>2. Interval \in Nat BY SoakAssumption
    <3>3. Covers(x)
      <4>1. (2 * (1 - 1)) * Interval = 0 /\ 0 \in (-2 * Interval)..(2 * Interval)
        BY <3>2
      <4>2. \A m \in o.at..o.at : x[1].at - m = 0
        BY <1>0, <3>1
      <4> HIDE DEF x
      <4> QED BY <1>0, <3>1, <4>1, <4>2 DEF Covers
    <3>4. SoakShows(x, o.at, u, rs)
      <4> HIDE DEF x
      <4>1. u <= o.up + (o.at - o.at) BY <1>0, <3>1
      <4>2. \A r \in rs : ~(o.at < r.at)
        BY <1>0 DEF Restarted
      <4> QED BY <3>1, <4>1, <4>2 DEF SoakShows
    <3> QED BY <3>3, <3>4
  <2>2. CASE q # <<>>
    <3>1. Good(q) /\ o.kind = "sample"
      BY <1>1, <1>3, <2>2, LastTwo
    <3>2. Covers(q) /\ SoakShows(q, o.at, o.up, rs)
      BY <2>2, <3>1 DEF Seen
    <3> QED BY <1>1, <1>3, <2>2, <3>1, <3>2, CoversMore, ShowsMore
  <2> QED BY <2>1, <2>2
<1> QED BY <1>1, <1>2, <1>3 DEF Seen

\* Time passes, and the Bridge is up for longer or begins anew.
LEMMA SeenLater ==
  ASSUME NEW q, NEW t \in Nat, NEW u \in Nat, NEW rs, Restarted(t, rs), Seen(q, t, u, rs)
  PROVE  /\ Seen(q, t + 1, u + 1, rs) /\ Seen(q, t, 0, rs)
         /\ Seen(q, t, 0, rs \cup {[at |-> t, age |-> u]})
<1>1. q \in Seq(Soak!Observation) /\ \A i \in 1..Len(q) : q[i] \in Soak!Observation
  BY DEF Seen
<1>2. \A i \in 1..Len(q) : q[i].at \in Nat /\ q[i].at <= t /\ q[i].at <= t + 1
  BY <1>1, Units DEF Seen
<1>3. CASE ~(Good(q) /\ q # <<>>)
  BY <1>1, <1>2, <1>3 DEF Seen
<1>4. CASE Good(q) /\ q # <<>>
  <2> DEFINE last == q[Len(q)]
             s == [at |-> t, age |-> u]
  <2>1. last.at \in Nat /\ last.up \in Nat /\ q[1].at \in Nat /\ last.at <= t
    BY <1>1, <1>2, <1>4, Units
  <2>2. Covers(q) /\ SoakShows(q, t, u, rs)
    BY <1>4 DEF Seen
  <2> HIDE DEF last
  <2>3. /\ u <= last.up + (t - last.at)
        /\ \A r \in rs : q[1].at < r.at /\ r.at < last.at => Young(r)
        /\ \A r \in rs : q[1].at < r.at /\ last.at <= r.at =>
             Young(r) \/ (r.age <= last.up + (r.at - last.at) /\ u <= t - r.at)
    BY <2>2 DEF SoakShows, last
  <2>4. SoakShows(q, t + 1, u + 1, rs)
    <3>1. u + 1 <= last.up + ((t + 1) - last.at)
      BY <2>1, <2>3
    <3>2. \A r \in rs : u <= t - r.at => u + 1 <= (t + 1) - r.at
      BY DEF Restarted
    <3> QED BY <2>3, <3>1, <3>2 DEF SoakShows, last
  <2>5. 0 <= last.up + (t - last.at) /\ \A r \in rs : 0 <= t - r.at
    BY <2>1 DEF Restarted
  <2>6. SoakShows(q, t, 0, rs)
    BY <2>3, <2>5 DEF SoakShows, last
  <2>7. SoakShows(q, t, 0, rs \cup {s})
    <3>1. s.at = t /\ s.age = u /\ ~(s.at < last.at) /\ 0 <= t - s.at
      BY <2>1
    <3>2. s.age <= last.up + (s.at - last.at)
      BY <2>3
    <3> HIDE DEF s
    <3> QED BY <2>3, <2>5, <3>1, <3>2 DEF SoakShows, last
  <2> QED BY <1>1, <1>2, <1>4, <2>2, <2>4, <2>6, <2>7 DEF Seen
<1> QED BY <1>3, <1>4

-----------------------------------------------------------------------------
(* SoakRun: the inductive invariant. *)

Process == [at : Soak!Stages, resume : BOOLEAN, next : 0..(MaxTime + Interval),
            obs : Soak!Observation \cup {None}, mine : Seq(Soak!Observation)]

WorldType ==
  /\ now \in Soak!Time /\ troubles \in 0..MaxTroubles
  /\ bridge \in [up : Soak!Age, restartCount : 0..MaxTroubles, counter : 0..1, ready : BOOLEAN]
  /\ bridge.up <= OldAge + now /\ bridge.restartCount <= troubles
  /\ \A r \in restarts : r.at \in Soak!Time /\ r.age \in Soak!Age /\ r.at <= now
FilesType ==
  /\ lock \in Collector \cup {None, "empty"} /\ proc \in [Collector -> Process]
  /\ run \in [status : {"none", "running", "interrupted", "completed"}, start : Soak!Time]
  /\ torn \in BOOLEAN

(* What a log says of now. *)
Tells(l) == Seen(l, now, bridge.up, restarts)

(* A collector holds the whole log, and the end of the run is final.       *)
Working == {"waiting", "took", "complete", "sealed"}
InStage(x) ==
  /\ x.at \in {"stale", "unlinked", "opened", "locked"} => x.mine = <<>>
  /\ x.at \in Working => x.mine = log /\ run.status # "none"
  /\ x.at \in {"waiting", "took"} => summary = None
  /\ x.at = "took" => x.obs \in Soak!Observation /\ x.next <= now /\ Tells(Append(log, x.obs))
  /\ x.at = "complete" => Soak!Complete(log)

StagesInv ==
  /\ \A p, q \in Collector : Soak!Alive(p) /\ Soak!Alive(q) => p = q
  /\ \A p \in Collector : InStage(proc[p])
FilesInv ==
  /\ Tells(log)
  /\ summary # None => summary = log /\ Soak!Complete(log) /\ run.status # "none"
  /\ run.status = "none" => log = <<>>

SoakInv == WorldType /\ FilesType /\ StagesInv /\ FilesInv

\* The Bridge and time.
LEMMA WorldStep ==
  ASSUME SoakInv,
         Soak!Tick \/ Soak!CounterGrows \/ Soak!NotReady \/ Soak!Ready \/ Soak!BrowserRestarts
                 \/ Soak!ProcessRestarts
  PROVE  SoakInv'
<1> USE SoakAssumption
<1>0. Restarted(now, restarts) /\ now \in Nat /\ bridge.up \in Nat
  BY DEF SoakInv, WorldType, Restarted, Soak!Time, Soak!Age
<1>1. UNCHANGED <<lock, proc, run, log, torn, summary>>
  BY DEF Soak!Tick, Soak!CounterGrows, Soak!NotReady, Soak!Ready, Soak!BrowserRestarts,
      Soak!ProcessRestarts, Soak!Bridge
<1>2. /\ \/ now' = now + 1 /\ bridge'.up = bridge.up + 1 /\ restarts' = restarts
         \/ now' = now /\ bridge'.up = bridge.up /\ restarts' = restarts
         \/ now' = now /\ bridge'.up = 0 /\ restarts' = restarts
         \/ now' = now /\ bridge'.up = 0
            /\ restarts' = restarts \cup {[at |-> now, age |-> bridge.up]}
      /\ WorldType'
  <2>1. CASE Soak!Tick
    BY <2>1 DEF Soak!Tick, SoakInv, WorldType, Soak!Time, Soak!Age
  <2>2. CASE Soak!CounterGrows
    BY <2>2 DEF Soak!CounterGrows, Soak!Bridge, SoakInv, WorldType
  <2>3. CASE Soak!NotReady
    <3>1. /\ troubles \in 0..MaxTroubles /\ troubles' = troubles + 1 /\ troubles < MaxTroubles
          /\ bridge' = [bridge EXCEPT !.ready = FALSE] /\ UNCHANGED <<now, restarts>>
      BY <2>3 DEF Soak!NotReady, Soak!Trouble, Soak!Bridge, SoakInv, WorldType
    <3>2. troubles' \in 0..MaxTroubles
      BY <3>1
    <3>3. bridge'.up = bridge.up /\ bridge'.restartCount = bridge.restartCount
          /\ bridge' \in [up : Soak!Age, restartCount : 0..MaxTroubles, counter : 0..1,
                  ready : BOOLEAN]
      BY <3>1 DEF SoakInv, WorldType
    <3>4. bridge'.restartCount <= troubles'
      BY <3>1, <3>3 DEF SoakInv, WorldType
    <3> QED BY <3>1, <3>2, <3>3, <3>4 DEF SoakInv, WorldType
  <2>4. CASE Soak!Ready
    BY <2>4 DEF Soak!Ready, Soak!Bridge, SoakInv, WorldType
  <2>5. CASE Soak!BrowserRestarts
    <3>1. /\ troubles \in 0..MaxTroubles /\ troubles' = troubles + 1 /\ troubles < MaxTroubles
          /\ bridge' = [bridge EXCEPT !.up = 0, !.restartCount = @ + 1]
          /\ UNCHANGED <<now, restarts>>
          /\ bridge.restartCount \in Nat /\ bridge.restartCount <= troubles /\ now \in Nat
      BY <2>5 DEF Soak!BrowserRestarts, Soak!Trouble, Soak!Bridge, SoakInv, WorldType, Soak!Time
    <3>2. troubles' \in 0..MaxTroubles /\ bridge.restartCount + 1 \in 0..MaxTroubles
          /\ 0 \in Soak!Age /\ 0 <= OldAge + now /\ bridge.restartCount + 1 <= troubles + 1
      BY <3>1 DEF Soak!Age
    <3>3. bridge'.up = 0 /\ bridge'.restartCount = bridge.restartCount + 1
      BY <3>1 DEF SoakInv, WorldType
    <3> QED BY <3>1, <3>2, <3>3 DEF SoakInv, WorldType
  <2>6. CASE Soak!ProcessRestarts
    BY <2>6
    DEF Soak!ProcessRestarts, Soak!Trouble, Soak!Bridge, SoakInv, WorldType, Soak!Time, Soak!Age
  <2> QED BY <2>1, <2>2, <2>3, <2>4, <2>5, <2>6
<1>3. \A l : Tells(l) => Seen(l, now', bridge'.up, restarts')
  <2> SUFFICES ASSUME NEW l, Tells(l) PROVE Seen(l, now', bridge'.up, restarts')
    OBVIOUS
  <2>1. Seen(l, now, bridge.up, restarts)
    BY DEF Tells
  <2>2. /\ Seen(l, now + 1, bridge.up + 1, restarts) /\ Seen(l, now, 0, restarts)
        /\ Seen(l, now, 0, restarts \cup {[at |-> now, age |-> bridge.up]})
    BY <1>0, <2>1, SeenLater
  <2> QED BY <1>2, <2>1, <2>2
<1>4. FilesInv'
  BY <1>1, <1>3 DEF SoakInv, FilesInv, Tells, Soak!Complete
<1>5. now <= now'
  BY <1>0, <1>2
<1>6. ASSUME NEW p \in Collector PROVE InStage(proc[p])'
  <2>1. InStage(proc[p]) /\ proc'[p] = proc[p] /\ proc[p].next \in Nat /\ now' \in Nat
    BY <1>1, <1>2 DEF SoakInv, StagesInv, FilesType, Process, WorldType, Soak!Time
  <2> QED BY <1>0, <1>1, <1>3, <1>5, <2>1 DEF InStage, Tells, Soak!Complete
<1>7. StagesInv'
  BY <1>1, <1>6 DEF SoakInv, StagesInv, Soak!Alive
<1> QED BY <1>1, <1>2, <1>4, <1>7 DEF SoakInv, FilesType

\* A step of one collector, which leaves the log and the world alone.
LEMMA CollectorStep ==
  ASSUME SoakInv, NEW p \in Collector, NEW x \in Process, UNCHANGED <<Soak!world, log>>,
         proc' = [proc EXCEPT ![p] = x],
         Soak!Alive(p) \/ \A q \in Collector : ~Soak!Alive(q),
         lock' \in Collector \cup {None, "empty"}, torn' \in BOOLEAN,
         run' \in [status : {"none", "running", "interrupted", "completed"}, start : Soak!Time],
         run' = run \/ run'.status # "none",
         InStage(x)',
         run'.start = run.start \/ (summary = None /\ \A q \in Collector : proc[q].at # "complete"),
         summary' = summary \/ (proc[p].at = "complete" /\ summary' = log)
  PROVE  SoakInv'
<1>1. proc' \in [Collector -> Process] /\ proc'[p] = x
      /\ \A q \in Collector \ {p} : proc'[q] = proc[q]
  BY DEF SoakInv, FilesType
<1>2. WorldType' /\ FilesType'
  BY <1>1 DEF SoakInv, WorldType, FilesType, Soak!world
<1>3. \A q \in Collector \ {p} : Soak!Alive(q)' <=> Soak!Alive(q)
  BY <1>1 DEF Soak!Alive
<1>4. \A q, s \in Collector : Soak!Alive(q)' /\ Soak!Alive(s)' => q = s
  BY <1>3 DEF SoakInv, StagesInv
<1>5. ASSUME NEW q \in Collector PROVE InStage(proc[q])'
  <2>1. CASE q = p
    BY <1>1, <2>1
  <2>2. CASE q # p
    <3>1. InStage(proc[q]) /\ proc'[q] = proc[q]
      BY <1>1, <2>2 DEF SoakInv, StagesInv
    <3>2. CASE ~Soak!Alive(q)
      BY <3>1, <3>2 DEF InStage, Soak!Alive, Working
    <3>3. CASE Soak!Alive(q)
      BY <3>3, <2>2 DEF SoakInv, StagesInv
    <3> QED BY <3>2, <3>3
  <2> QED BY <2>1, <2>2
<1>6. Tells(log)' /\ (run'.status = "none" => log' = <<>>)
  BY DEF SoakInv, FilesInv, Tells, Soak!world
<1>7. summary' # None => summary' = log' /\ Soak!Complete(log)' /\ run'.status # "none"
  <2>1. CASE summary' = summary
    BY <2>1 DEF SoakInv, FilesInv, Soak!Complete
  <2>2. CASE proc[p].at = "complete" /\ summary' = log
    <3>1. Soak!Complete(log) /\ run.status # "none"
      BY <2>2 DEF SoakInv, StagesInv, InStage, Working
    <3> QED BY <2>2, <3>1 DEF Soak!Complete
  <2> QED BY <2>1, <2>2
<1> QED BY <1>2, <1>4, <1>5, <1>6, <1>7 DEF SoakInv, StagesInv, FilesInv

LEMMA StartStep == ASSUME SoakInv, NEW p \in Collector, NEW resume \in BOOLEAN, Soak!Start(p,
        resume)
                   PROVE SoakInv'
<1> USE SoakAssumption
<1>1. proc[p] \in Process /\ proc \in [Collector -> Process]
        /\ UNCHANGED <<Soak!world, run, log, torn, summary>>
      /\ \A q \in Collector : ~Soak!Alive(q)
  BY DEF SoakInv, FilesType, Soak!Start
<1>2. PICK x \in {[Soak!Idle EXCEPT !.at = "opened", !.resume = resume],
                  [Soak!Idle EXCEPT !.at = "stale", !.resume = resume],
                  [proc[p] EXCEPT !.at = "ended"]} :
        proc' = [proc EXCEPT ![p] = x]
  BY <1>1 DEF Soak!Start, Soak!Goes
<1>3. lock' \in Collector \cup {None, "empty"}
  BY DEF Soak!Start, SoakInv, FilesType
<1>4. Soak!Idle \in Process /\ Soak!Idle.mine = <<>>
  BY DEF Soak!Idle, Process, Soak!Stages
<1>5. x \in Process /\ ((x.at \in {"opened", "stale"} /\ x.mine = <<>>) \/ x.at = "ended")
  BY <1>1, <1>4 DEF Process, Soak!Stages
<1>6. InStage(x)'
  BY <1>5 DEF InStage, Working
<1> QED BY <1>1, <1>2, <1>3, <1>5, <1>6, CollectorStep DEF SoakInv, FilesType

LEMMA LockSteps ==
  ASSUME SoakInv, NEW p \in Collector,
         Soak!Unlink(p) \/ Soak!Reopen(p) \/ Soak!WriteLock(p) \/ Soak!Release(p) \/ Soak!Killed(p)
  PROVE  SoakInv'
<1>1. /\ proc[p] \in Process /\ UNCHANGED <<Soak!world, run, log, summary>>
      /\ torn' \in BOOLEAN /\ lock' \in Collector \cup {None, "empty"} /\ Soak!Alive(p)
      /\ InStage(proc[p])
  BY DEF SoakInv, StagesInv, FilesType, Soak!Unlink, Soak!Reopen, Soak!WriteLock, Soak!Release,
      Soak!Killed, Soak!Alive
<1>2. PICK a \in {"ended", "unlinked", "opened", "locked", "dead"} :
        /\ proc' = [proc EXCEPT ![p].at = a]
        /\ a \in {"unlinked", "opened", "locked"} => proc[p].at \in {"stale", "unlinked", "opened"}
  BY DEF Soak!Unlink, Soak!Reopen, Soak!WriteLock, Soak!Release, Soak!Killed, Soak!Goes
<1>5. [proc[p] EXCEPT !.at = a] \in Process
  BY <1>1 DEF Process, Soak!Stages
<1> PICK x \in Process : x = [proc[p] EXCEPT !.at = a]
  BY <1>5
<1>3. proc' = [proc EXCEPT ![p] = x] /\ x.at = a /\ x.mine = proc[p].mine
  BY <1>1, <1>2 DEF Process, SoakInv, FilesType
<1>4. InStage(x)'
  BY <1>1, <1>2, <1>3 DEF InStage, Working
<1> QED BY <1>1, <1>3, <1>4, CollectorStep DEF SoakInv, FilesType

LEMMA RunSteps ==
  ASSUME SoakInv, NEW p \in Collector, Soak!Fresh(p) \/ Soak!Completed(p) \/ Soak!Stop(p)
          \/ Soak!Seal(p)
  PROVE  SoakInv'
<1> USE SoakAssumption
<1>1. /\ proc[p] \in Process /\ UNCHANGED <<Soak!world, log, lock, torn>> /\ Soak!Alive(p)
      /\ InStage(proc[p]) /\ now \in Soak!Time /\ now \in 0..(MaxTime + Interval)
      /\ run \in [status : {"none", "running", "interrupted", "completed"}, start : Soak!Time]
      /\ lock \in Collector \cup {None, "empty"} /\ torn \in BOOLEAN
  BY DEF SoakInv, WorldType, StagesInv, FilesType, Soak!Fresh, Soak!Completed, Soak!Stop,
      Soak!Seal, Soak!Alive, Soak!Time
<1>2. CASE Soak!Fresh(p) /\ run.status = "none"
  <2>5. [proc[p] EXCEPT !.at = "waiting", !.next = now] \in Process
    BY <1>1 DEF Process, Soak!Stages
  <2> PICK x \in Process : x = [proc[p] EXCEPT !.at = "waiting", !.next = now]
    BY <2>5
  <2>1. proc' = [proc EXCEPT ![p] = x] /\ x.at = "waiting" /\ x.mine = <<>>
    BY <1>1, <1>2 DEF Soak!Fresh, Process, Soak!Stages, SoakInv, FilesType, InStage
  <2>2. /\ run' = [status |-> "running", start |-> now] /\ UNCHANGED summary
        /\ log = <<>> /\ summary = None
    BY <1>2 DEF Soak!Fresh, SoakInv, FilesInv
  <2>3. InStage(x)'
    BY <1>1, <2>1, <2>2 DEF InStage, Working
  <2>4. \A q \in Collector : proc[q].at # "complete"
    BY <1>2 DEF SoakInv, StagesInv, InStage, Working
  <2> QED BY <1>1, <2>1, <2>2, <2>3, <2>4, CollectorStep
<1>3. CASE ~(Soak!Fresh(p) /\ run.status = "none")
  <2>1. PICK a \in {"sealed", "stopping"} :
          /\ proc' = [proc EXCEPT ![p].at = a]
          /\ a = "sealed" => Soak!Seal(p)
    BY <1>3 DEF Soak!Fresh, Soak!Completed, Soak!Stop, Soak!Seal, Soak!Goes
  <2>6. [proc[p] EXCEPT !.at = a] \in Process
    BY <1>1 DEF Process, Soak!Stages
  <2> PICK x \in Process : x = [proc[p] EXCEPT !.at = a]
    BY <2>6
  <2>2. proc' = [proc EXCEPT ![p] = x] /\ x.at = a /\ x.mine = proc[p].mine
    BY <1>1, <2>1 DEF Process, SoakInv, FilesType
  <2>3. /\ run' \in [status : {"none", "running", "interrupted", "completed"}, start : Soak!Time]
        /\ run'.start = run.start /\ (run' = run \/ run'.status # "none")
    BY <1>1, <1>3 DEF Soak!Fresh, Soak!Completed, Soak!Stop, Soak!Seal
  <2>4. summary' = summary \/ (proc[p].at = "complete" /\ summary' = log)
    BY <1>1, <1>3 DEF Soak!Fresh, Soak!Completed, Soak!Stop, Soak!Seal, InStage, Working
  <2>5. InStage(x)'
    BY <1>1, <2>1, <2>2 DEF InStage, Working, Soak!Seal
  <2> QED BY <1>1, <2>2, <2>3, <2>4, <2>5, CollectorStep
<1> QED BY <1>2, <1>3

LEMMA ResumeStep == ASSUME SoakInv, NEW p \in Collector, Soak!Resume(p) PROVE SoakInv'
<1> USE SoakAssumption
<1>1. /\ proc[p] \in Process /\ UNCHANGED <<Soak!world, log, lock, torn, summary>> /\ Soak!Alive(p)
      /\ InStage(proc[p]) /\ log \in Seq(Soak!Observation)
      /\ run \in [status : {"none", "running", "interrupted", "completed"}, start : Soak!Time]
      /\ lock \in Collector \cup {None, "empty"} /\ torn \in BOOLEAN
  BY DEF SoakInv, StagesInv, FilesType, FilesInv, Tells, Seen, Soak!Resume, Soak!Alive
<1>2. CASE run.status \in {"none", "completed"} \/ torn
  <2>3. [proc[p] EXCEPT !.at = "stopping"] \in Process
    BY <1>1 DEF Process, Soak!Stages
  <2> PICK x \in Process : x = [proc[p] EXCEPT !.at = "stopping"]
    BY <2>3
  <2>1. proc' = [proc EXCEPT ![p] = x] /\ x.at = "stopping" /\ run' = run
    BY <1>1, <1>2 DEF Soak!Resume, Soak!Goes, Process, SoakInv, FilesType
  <2>2. InStage(x)'
    BY <2>1 DEF InStage, Working
  <2> QED BY <1>1, <2>1, <2>2, CollectorStep
<1>3. CASE ~(run.status \in {"none", "completed"} \/ torn)
  <2> DEFINE n == IF log = <<>> THEN run.start ELSE log[Len(log)].at + Interval
             y == [proc[p] EXCEPT !.at = IF Soak!Complete(log) THEN "complete" ELSE "waiting",
                                  !.mine = log, !.next = n]
  <2>1. n \in 0..(MaxTime + Interval)
    <3>1. CASE log = <<>>
      BY <1>1, <3>1 DEF Soak!Time
    <3>2. CASE log # <<>>
      <4>1. log[Len(log)] \in Soak!Observation BY <1>1, <3>2
      <4>2. log[Len(log)].at \in 0..MaxTime BY <4>1 DEF Soak!Observation, Soak!Time
      <4> QED BY <3>2, <4>2
    <3> QED BY <3>1, <3>2
  <2>8. y \in Process
    BY <1>1, <2>1 DEF Process, Soak!Stages
  <2> PICK x \in Process : x = y
    BY <2>8
  <2>2. proc' = [proc EXCEPT ![p] = x] /\ run' = [run EXCEPT !.status = "running"]
    BY <1>1, <1>3 DEF Soak!Resume, SoakInv, FilesType, Process
  <2> HIDE DEF n
  <2>3. x.at = (IF Soak!Complete(log) THEN "complete" ELSE "waiting") /\ x.mine = log
    BY <1>1, <2>1 DEF Process
  <2> HIDE DEF y
  <2>4. run' \in [status : {"none", "running", "interrupted", "completed"}, start : Soak!Time]
        /\ run'.start = run.start /\ run'.status = "running"
    BY <1>1, <2>2
  <2>5. ~Soak!Complete(log) => summary = None
    BY DEF SoakInv, FilesInv
  <2>6. Soak!Complete(log)' <=> Soak!Complete(log)
    BY <1>1, <2>4 DEF Soak!Complete
  <2>7. InStage(x)'
    BY <1>1, <2>3, <2>4, <2>5, <2>6 DEF InStage, Working
  <2> QED BY <1>1, <2>2, <2>3, <2>4, <2>7, CollectorStep
<1> QED BY <1>2, <1>3

\* What is observed is of now, and the log would tell it.
LEMMA Observing ==
  ASSUME SoakInv, NEW p \in Collector, Soak!Sample(p) \/ Soak!NoAnswer(p)
  PROVE  SoakInv'
<1> USE SoakAssumption
<1>1. /\ proc[p] \in Process /\ UNCHANGED <<log, lock, torn, run, summary>> /\ Soak!Alive(p)
      /\ InStage(proc[p]) /\ now \in Soak!Time /\ now \in Nat /\ bridge.up \in Nat
      /\ Restarted(now, restarts) /\ proc[p].at = "waiting" /\ proc[p].next <= now
      /\ run \in [status : {"none", "running", "interrupted", "completed"}, start : Soak!Time]
      /\ lock \in Collector \cup {None, "empty"} /\ torn \in BOOLEAN
      /\ UNCHANGED <<now, bridge, restarts>>
  BY DEF SoakInv, WorldType, StagesInv, FilesType, Soak!Sample, Soak!NoAnswer, Soak!Trouble,
      Soak!Alive, Soak!Time, Soak!Age, Restarted, Process, Soak!world
<1> DEFINE ok == [kind |-> "sample", at |-> now, up |-> bridge.up,
                  restartCount |-> bridge.restartCount, counter |-> bridge.counter,
                  ready |-> bridge.ready]
           bad == [kind |-> "error", at |-> now, up |-> 0, restartCount |-> 0,
                   counter |-> 0, ready |-> FALSE]
<1>2. ok \in Soak!Observation /\ bad \in Soak!Observation
  <2>1. 0 \in Soak!Age /\ 0 \in 0..MaxTroubles /\ 0 \in 0..1
    BY DEF Soak!Age
  <2> QED BY <1>1, <2>1 DEF Soak!Observation, SoakInv, WorldType
<1>3. PICK o \in {ok, bad} : proc' = [proc EXCEPT ![p].at = "took", ![p].obs = o]
  <2>1. CASE Soak!Sample(p)
    <3>1. proc' = [proc EXCEPT ![p].at = "took", ![p].obs = ok]
      BY <2>1 DEF Soak!Sample
    <3> QED BY <3>1
  <2>2. CASE Soak!NoAnswer(p)
    <3>1. proc' = [proc EXCEPT ![p].at = "took", ![p].obs = bad]
      BY <2>2 DEF Soak!NoAnswer
    <3> QED BY <3>1
  <2> QED BY <2>1, <2>2
<1>4. o \in Soak!Observation /\ o.at = now /\ (o.kind = "sample" => o.up = bridge.up)
  <2>1. ok.at = now /\ ok.up = bridge.up /\ bad.at = now /\ bad.kind = "error"
    OBVIOUS
  <2> HIDE DEF ok, bad
  <2> QED BY <1>2, <1>3, <2>1
<1>5. Tells(Append(log, o))
  BY <1>1, <1>4, SeenMore DEF SoakInv, FilesInv, Tells
<1>6. [proc[p] EXCEPT !.at = "took", !.obs = o] \in Process
  BY <1>1, <1>4 DEF Process, Soak!Stages
<1> PICK x \in Process : x = [proc[p] EXCEPT !.at = "took", !.obs = o]
  BY <1>6
<1>7. /\ proc' = [proc EXCEPT ![p] = x] /\ x.at = "took" /\ x.mine = proc[p].mine /\ x.obs = o
      /\ x.next = proc[p].next
  BY <1>1, <1>3 DEF Process, SoakInv, FilesType
<1>8. InStage(x)'
  BY <1>1, <1>4, <1>5, <1>7 DEF InStage, Working, Tells
<1>9. CASE Soak!Sample(p)
  BY <1>1, <1>7, <1>8, <1>9, CollectorStep DEF Soak!Sample
<1>10. CASE Soak!NoAnswer(p)
  <2>1. troubles' \in 0..MaxTroubles /\ troubles' = troubles + 1 /\ troubles \in Nat
    BY <1>10 DEF Soak!NoAnswer, Soak!Trouble, SoakInv, WorldType
  <2>2. WorldType'
    <3>1. bridge.restartCount \in Nat /\ bridge.restartCount <= troubles + 1
      BY <2>1 DEF SoakInv, WorldType
    <3> QED BY <1>1, <2>1, <3>1 DEF SoakInv, WorldType
  <2>3. proc' \in [Collector -> Process] /\ proc'[p] = x
        /\ \A q \in Collector \ {p} : proc'[q] = proc[q]
    BY <1>7 DEF SoakInv, FilesType
  <2>4. FilesType'
    BY <1>1, <2>3 DEF FilesType
  <2>5. FilesInv'
    BY <1>1 DEF SoakInv, FilesInv, Tells, Soak!Complete
  <2>6. \A q \in Collector : InStage(proc[q])'
    <3> SUFFICES ASSUME NEW q \in Collector PROVE InStage(proc[q])'
      OBVIOUS
    <3>1. CASE q = p
      BY <1>8, <2>3, <3>1
    <3>2. CASE q # p
      BY <1>1, <2>3, <3>2 DEF SoakInv, StagesInv, InStage, Tells, Soak!Complete
    <3> QED BY <3>1, <3>2
  <2>7. \A q \in Collector : Soak!Alive(q)' <=> Soak!Alive(q)
    BY <1>1, <1>7, <2>3 DEF Soak!Alive
  <2> QED BY <2>2, <2>4, <2>5, <2>6, <2>7 DEF SoakInv, StagesInv
<1> QED BY <1>9, <1>10

\* What was observed is appended.
LEMMA Appending == ASSUME SoakInv, NEW p \in Collector, Soak!Append1(p) PROVE SoakInv'
<1> USE SoakAssumption
<1> DEFINE o == proc[p].obs
           a == IF o.at >= run.start + Duration THEN "complete" ELSE "waiting"
           n == IF proc[p].next + Interval <= now THEN now + Interval ELSE proc[p].next + Interval
<1>1. /\ proc[p] \in Process /\ UNCHANGED <<Soak!world, lock, torn, run, summary>> /\ Soak!Alive(p)
      /\ InStage(proc[p]) /\ proc[p].at = "took" /\ now \in 0..MaxTime
      /\ log' = Append(log, o)
      /\ proc' = [proc EXCEPT ![p].mine = Append(@, o), ![p].obs = None, ![p].at = a, ![p].next = n]
  BY DEF SoakInv, WorldType, StagesInv, FilesType, Soak!Append1, Soak!Alive, Soak!Time
<1>2. /\ o \in Soak!Observation /\ Tells(Append(log, o)) /\ proc[p].mine = log /\ summary = None
      /\ proc[p].next \in Nat /\ proc[p].next <= now /\ run.status # "none"
  BY <1>1 DEF InStage, Working, Process
<1>3. n \in 0..(MaxTime + Interval) /\ a \in Soak!Stages
  BY <1>1, <1>2 DEF Soak!Stages
<1>4. log \in Seq(Soak!Observation) /\ log' \in Seq(Soak!Observation) /\ log' # <<>>
        /\ log'[Len(log')] = o
  BY <1>1, <1>2 DEF SoakInv, FilesInv, Tells, Seen
<1>5. /\ proc'[p] = [proc[p] EXCEPT !.mine = log', !.obs = None, !.at = a, !.next = n]
      /\ proc' \in [Collector -> Process] /\ \A q \in Collector \ {p} : proc'[q] = proc[q]
  BY <1>1, <1>2, <1>3, <1>4 DEF SoakInv, FilesType, Process
<1>6. proc'[p].mine = log' /\ proc'[p].at = a
  BY <1>1, <1>5 DEF Process
<1>7. a = "complete" => Soak!Complete(log)'
  BY <1>1, <1>4 DEF Soak!Complete
<1>14. a \in {"complete", "waiting"} /\ run' = run /\ summary' = None
  BY <1>1, <1>2
<1> HIDE DEF o, n, a
<1>8. InStage(proc[p])'
  BY <1>2, <1>6, <1>7, <1>14 DEF InStage, Working
<1>9. ASSUME NEW q \in Collector, q # p PROVE proc'[q] = proc[q] /\ ~Soak!Alive(q)
  BY <1>1, <1>5, <1>9 DEF SoakInv, StagesInv
<1>10. \A q \in Collector : InStage(proc[q])'
  BY <1>8, <1>9 DEF InStage, Working, Soak!Alive
<1>11. \A q, s \in Collector : Soak!Alive(q)' /\ Soak!Alive(s)' => q = s
  BY <1>9 DEF Soak!Alive
<1>12. FilesInv'
  BY <1>1, <1>2 DEF FilesInv, Tells, Soak!world
<1>13. WorldType' /\ FilesType'
  BY <1>1, <1>5 DEF SoakInv, WorldType, FilesType, Soak!world
<1> QED BY <1>10, <1>11, <1>12, <1>13 DEF SoakInv, StagesInv

LEMMA SoakBegins == ASSUME Soak!Init PROVE SoakInv
<1> USE SoakAssumption
<1>1. WorldType
  BY DEF Soak!Init, WorldType, Soak!Time, Soak!Age
<1>2. Soak!Idle \in Process
  BY DEF Soak!Idle, Process, Soak!Stages
<1>3. FilesType
  <2>1. 0 \in Soak!Time BY DEF Soak!Time
  <2>2. proc \in [Collector -> Process] BY <1>2 DEF Soak!Init
  <2> QED BY <2>1, <2>2 DEF Soak!Init, FilesType
<1>4. StagesInv
  BY DEF Soak!Init, StagesInv, Soak!Alive, InStage, Working, Soak!Idle
<1>5. FilesInv
  <2>1. log = <<>> /\ summary = None BY DEF Soak!Init
  <2> QED BY <2>1 DEF FilesInv, Tells, Seen
<1> QED BY <1>1, <1>3, <1>4, <1>5 DEF SoakInv

LEMMA SoakSteps == ASSUME SoakInv, Soak!Next PROVE SoakInv'
<1>1. CASE \E p \in Collector : Soak!Unlink(p) \/ Soak!Reopen(p) \/ Soak!WriteLock(p)
        \/ Soak!Release(p) \/ Soak!Killed(p)
  BY <1>1, LockSteps
<1>2. CASE \E p \in Collector : Soak!Fresh(p) \/ Soak!Completed(p) \/ Soak!Stop(p) \/ Soak!Seal(p)
  BY <1>2, RunSteps
<1>3. CASE \E p \in Collector : Soak!Sample(p) \/ Soak!NoAnswer(p)
  BY <1>3, Observing
<1>4. CASE \E p \in Collector : \E resume \in BOOLEAN : Soak!Start(p, resume)
  BY <1>4, StartStep
<1>5. CASE \E p \in Collector : Soak!Resume(p) \/ Soak!Append1(p)
  BY <1>5, ResumeStep, Appending
<1> QED BY <1>1, <1>2, <1>3, <1>4, <1>5, WorldStep DEF Soak!Next

LEMMA SoakStutters == ASSUME SoakInv, UNCHANGED Soak!vars PROVE SoakInv'
<1> USE DEF Soak!vars, Soak!world
<1>1. WorldType' /\ FilesType'
  BY DEF SoakInv, WorldType, FilesType
<1>2. StagesInv'
  BY DEF SoakInv, StagesInv, InStage, Soak!Alive, Tells, Soak!Complete
<1>3. FilesInv'
  BY DEF SoakInv, FilesInv, Tells, Soak!Complete
<1> QED BY <1>1, <1>2, <1>3 DEF SoakInv

\* What the gate lets through was watched.
LEMMA SoakEarned == ASSUME SoakInv PROVE Soak!EligibleIsEarned
<1> USE SoakAssumption
<1>1. Soak!TypeOK
  BY DEF SoakInv, WorldType, FilesType, FilesInv, Process, Soak!TypeOK, Tells, Seen
<1>2. ASSUME Soak!Eligible PROVE Soak!Watched
  <2> DEFINE n == Len(log)
  <2>1. summary = log /\ Good(log) /\ log # <<>> /\ log \in Seq(Soak!Observation) /\ n \in Nat \ {0}
    BY <1>2
    DEF Soak!Eligible, Soak!Passes, Soak!SampleFails, Good, SoakInv, FilesInv, Tells, Seen,
        Soak!Complete
  <2>2. Covers(log) /\ SoakShows(log, now, bridge.up, restarts)
    BY <2>1 DEF SoakInv, FilesInv, Tells, Seen
  <2>3. log[n].at >= run.start + Duration /\ run.start + Duration \in Nat /\ log[n].at \in Nat
        /\ log[1].at \in Nat
    BY <1>2, <2>1, Units
    DEF Soak!Eligible, Soak!Passes, Soak!Complete, SoakInv, FilesType, Soak!Time
  <2>4. \A t \in log[1].at..(run.start + Duration) :
          \E i \in DOMAIN log : log[i].at - t \in (-2 * Interval)..(2 * Interval)
    <3>1. \A t \in log[1].at..(run.start + Duration) : t \in log[1].at..log[n].at
      BY <2>3
    <3>2. DOMAIN log = 1..n BY <2>1
    <3> QED BY <2>2, <3>1, <3>2 DEF Covers
  <2>5. \A i \in DOMAIN log : log[i].at - log[1].at <= (2 * (i - 1)) * Interval
    <3>1. DOMAIN log = 1..Len(log) BY <2>1
    <3> QED BY <2>2, <3>1 DEF Covers
  <2>6. \A r \in restarts : log[1].at < r.at /\ r.at < log[n].at => r.age <= 2 * Interval + Tolerance
    BY <2>2 DEF SoakShows, Young
  <2> QED BY <2>1, <2>4, <2>5, <2>6 DEF Soak!Watched
<1> QED BY <1>1, <1>2 DEF Soak!EligibleIsEarned

\* No collector that follows replaces a sealed summary.
LEMMA SealKept == ASSUME SoakInv, SoakInv', Soak!Next \/ UNCHANGED Soak!vars, summary # None
                  PROVE summary' = summary
<1>1. CASE \E p \in Collector : Soak!Seal(p)
  <2> PICK p \in Collector : Soak!Seal(p) BY <1>1
  <2>1. proc[p].mine = log
    BY DEF Soak!Seal, SoakInv, StagesInv, InStage, Working
  <2> QED BY <2>1 DEF Soak!Seal, SoakInv, FilesInv
<1>2. CASE ~\E p \in Collector : Soak!Seal(p)
  BY <1>2
  DEF Soak!Next, Soak!vars, Soak!Tick, Soak!CounterGrows, Soak!NotReady, Soak!Ready,
      Soak!BrowserRestarts, Soak!ProcessRestarts, Soak!Bridge, Soak!Start, Soak!Unlink,
      Soak!Reopen, Soak!WriteLock, Soak!Fresh, Soak!Resume, Soak!Sample, Soak!NoAnswer,
      Soak!Append1, Soak!Completed, Soak!Stop, Soak!Release, Soak!Killed
<1> QED BY <1>1, <1>2

-----------------------------------------------------------------------------
(* CandidateDeployment: the order of the steps. *)
Early == {"initialize", "upload", "prepare", "recheck"}
Middle == {"activate", "reload", "update", "health", "version", "cleanup"}
Back == {"restore", "reload_back", "rebuild", "health_back", "version_back", "cleanup_back"}

LEMMA TheSteps == Deploy!In(Deploy!Deploys) = Early \cup Middle
        /\ Deploy!In(Deploy!Restores) = Back /\ Deploy!Steps = Early \cup Middle \cup Back
<1>1. Deploy!In(Deploy!Deploys) = Early \cup Middle
  <2>1. DOMAIN Deploy!Deploys = 1..10 BY DEF Deploy!Deploys
  <2>2. \A i \in 1..10 : Deploy!Deploys[i] \in Early \cup Middle
    BY DEF Deploy!Deploys, Early, Middle
  <2>3. \A s \in Early \cup Middle : \E i \in 1..10 : Deploy!Deploys[i] = s
    BY DEF Deploy!Deploys, Early, Middle
  <2> QED BY <2>1, <2>2, <2>3 DEF Deploy!In
<1>2. Deploy!In(Deploy!Restores) = Back
  <2>1. DOMAIN Deploy!Restores = 1..6 BY DEF Deploy!Restores
  <2>2. \A i \in 1..6 : Deploy!Restores[i] \in Back BY DEF Deploy!Restores, Back
  <2>3. \A s \in Back : \E i \in 1..6 : Deploy!Restores[i] = s
    BY DEF Deploy!Restores, Back
  <2> QED BY <2>1, <2>2, <2>3 DEF Deploy!In
<1> QED BY <1>1, <1>2 DEF Deploy!Steps

Onward(step) == Deploy!After(Deploy!Deploys, step)
Backward(step) == Deploy!After(Deploy!Restores, step)

LEMMA NextSteps ==
  /\ Onward("initialize") = "upload" /\ Onward("upload") = "prepare"
  /\ Onward("prepare") = "recheck" /\ Onward("recheck") = "activate"
  /\ Onward("activate") = "reload" /\ Onward("reload") = "update"
  /\ Onward("update") = "health" /\ Onward("health") = "version"
  /\ Onward("version") = "cleanup"
  /\ Backward("restore") = "reload_back" /\ Backward("reload_back") = "rebuild"
  /\ Backward("rebuild") = "health_back" /\ Backward("health_back") = "version_back"
  /\ Backward("version_back") = "cleanup_back"
<1>1. \A n \in 1..9 : Onward(Deploy!Deploys[n]) = Deploy!Deploys[n + 1]
  <2> SUFFICES ASSUME NEW n \in 1..9
               PROVE  Onward(Deploy!Deploys[n]) = Deploy!Deploys[n + 1]
    OBVIOUS
  <2> DEFINE steps == Deploy!Deploys
  <2>1. DOMAIN steps = 1..10 BY DEF Deploy!Deploys
  <2>2. \A i \in 1..10 : steps[i] = steps[n] => i = n BY DEF Deploy!Deploys
  <2>3. (CHOOSE i \in DOMAIN steps : steps[i] = steps[n]) = n
    BY <2>1, <2>2
  <2> QED BY <2>3 DEF Onward, Deploy!After
<1>2. \A n \in 1..5 : Backward(Deploy!Restores[n]) = Deploy!Restores[n + 1]
  <2> SUFFICES ASSUME NEW n \in 1..5
               PROVE  Backward(Deploy!Restores[n]) = Deploy!Restores[n + 1]
    OBVIOUS
  <2> DEFINE steps == Deploy!Restores
  <2>1. DOMAIN steps = 1..6 BY DEF Deploy!Restores
  <2>2. \A i \in 1..6 : steps[i] = steps[n] => i = n BY DEF Deploy!Restores
  <2>3. (CHOOSE i \in DOMAIN steps : steps[i] = steps[n]) = n
    BY <2>1, <2>2
  <2> QED BY <2>3 DEF Backward, Deploy!After
<1>3. /\ Deploy!Deploys[1] = "initialize" /\ Deploy!Deploys[2] = "upload"
      /\ Deploy!Deploys[3] = "prepare"
      /\ Deploy!Deploys[4] = "recheck" /\ Deploy!Deploys[5] = "activate"
      /\ Deploy!Deploys[6] = "reload"
      /\ Deploy!Deploys[7] = "update" /\ Deploy!Deploys[8] = "health"
      /\ Deploy!Deploys[9] = "version"
      /\ Deploy!Deploys[10] = "cleanup"
  BY DEF Deploy!Deploys
<1>4. /\ Deploy!Restores[1] = "restore" /\ Deploy!Restores[2] = "reload_back"
      /\ Deploy!Restores[3] = "rebuild"
      /\ Deploy!Restores[4] = "health_back" /\ Deploy!Restores[5] = "version_back"
      /\ Deploy!Restores[6] = "cleanup_back"
  BY DEF Deploy!Restores
<1>6. /\ Onward(Deploy!Deploys[1]) = Deploy!Deploys[2]
      /\ Onward(Deploy!Deploys[2]) = Deploy!Deploys[3]
      /\ Onward(Deploy!Deploys[3]) = Deploy!Deploys[4]
      /\ Onward(Deploy!Deploys[4]) = Deploy!Deploys[5]
      /\ Onward(Deploy!Deploys[5]) = Deploy!Deploys[6]
      /\ Onward(Deploy!Deploys[6]) = Deploy!Deploys[7]
      /\ Onward(Deploy!Deploys[7]) = Deploy!Deploys[8]
      /\ Onward(Deploy!Deploys[8]) = Deploy!Deploys[9]
      /\ Onward(Deploy!Deploys[9]) = Deploy!Deploys[10]
  BY <1>1
<1>7. /\ Backward(Deploy!Restores[1]) = Deploy!Restores[2]
      /\ Backward(Deploy!Restores[2]) = Deploy!Restores[3]
      /\ Backward(Deploy!Restores[3]) = Deploy!Restores[4]
      /\ Backward(Deploy!Restores[4]) = Deploy!Restores[5]
      /\ Backward(Deploy!Restores[5]) = Deploy!Restores[6]
  BY <1>2
<1>8. /\ Onward("initialize") = "upload" /\ Onward("upload") = "prepare"
      /\ Onward("prepare") = "recheck" /\ Onward("recheck") = "activate"
      /\ Onward("activate") = "reload" /\ Onward("reload") = "update"
      /\ Onward("update") = "health" /\ Onward("health") = "version"
      /\ Onward("version") = "cleanup"
  BY <1>3, <1>6
<1> QED BY <1>4, <1>7, <1>8

-----------------------------------------------------------------------------
(* CandidateDeployment: the inductive invariant. *)

ToolType ==
  /\ at \in Deploy!Steps \cup {"idle", "inspect"} /\ options \in Deploy!Options
  /\ result \in Deploy!Results
  /\ leave \in Deploy!Facts \cup {None} /\ gate \in BOOLEAN /\ tree \in BOOLEAN
  /\ touched \in BOOLEAN /\ late \subseteq Deploy!Steps
  /\ runs \in 0..MaxRuns /\ deployMishaps \in 0..MaxDeployMishaps
HostType ==
  /\ uploads \in [candidate : Deploy!Archive, rollback : Deploy!Archive]
  /\ staged \in {"none", "part", "whole"} /\ backup \in Deploy!Archive
  /\ source \in Deploy!Content \cup {None} /\ store \in Deploy!Content \cup {None}
  /\ image \in Deploy!Content
  /\ byHand \in BOOLEAN /\ healthy \in BOOLEAN

LEMMA DeployType == Deploy!TypeOK <=> ToolType /\ HostType
BY DEF Deploy!TypeOK, ToolType, HostType

(* Nothing is activated, now or late, before the rollback archive is kept. *)
BackupInv ==
  /\ Deploy!RollbackAtHand
  /\ at \in {"recheck"} \cup Middle \cup Back => backup = "good"
  /\ "activate" \in late => backup = "good"

(* A run of the tool begins when nothing runs late on the host, and after  *)
(* the image was rebuilt nothing builds another one.                       *)
LateInv ==
  /\ at \in {"inspect"} \cup Early \cup Middle => late = {}
  /\ at \in Back => "rebuild" \notin late
  /\ at \in {"health_back", "version_back", "cleanup_back"} => "update" \notin late

(* What changes the source was asked for, and found authorized after the   *)
(* staging.                                                                *)
Asked == leave \in Deploy!Facts /\ Deploy!Authorized(leave) /\ options.execute
AskedInv ==
  /\ at \in Early => options.execute
  /\ at \in Middle \cup Back => Asked
  /\ "activate" \in late \/ "restore" \in late => Asked

(* What runs is what the source held when it was built, or was changed in  *)
(* place; an activation that runs late may have put the candidate back.    *)
BuiltInv ==
  /\ at \in {"reload", "update"} => source = "candidate"
  /\ at \in {"health", "version", "cleanup"} => image = "candidate" \/ byHand
  /\ at \in {"reload_back", "rebuild"} => source \in {"pinned", "candidate", None}
  /\ at \in {"health_back", "version_back"} => image \in {"pinned", "candidate"} \/ byHand
  /\ at = "cleanup_back" => image = "pinned" \/ byHand

(* What is about to be reported was seen.                                  *)
ReportInv ==
  /\ at = "cleanup" => image \in Deploy!Packaged \/ touched
  /\ at = "cleanup_back" => image \in Deploy!RuntimePinned \/ touched

DeployInv == Deploy!TypeOK /\ BackupInv /\ LateInv /\ AskedInv /\ BuiltInv /\ ReportInv

-----------------------------------------------------------------------------
(* What a script does to the host, and where a step leads. *)

HostStep(step) == Deploy!Script(step) \/ Deploy!Half(step) \/ UNCHANGED Deploy!host

LEMMA HostEffects ==
  ASSUME Deploy!TypeOK, BackupInv, NEW step, HostStep(step)
  PROVE  /\ HostType'
         /\ backup = "good" => backup' = "good"
         /\ source' = source \/ (step = "activate" /\ source' \in {"candidate", None})
              \/ (step = "restore" /\ backup = "good" /\ source' \in {"pinned", None})
         /\ UNCHANGED <<image, byHand>>
              \/ (step \in {"update", "rebuild"} /\ image' = source /\ source # None)
<1> USE DeploymentAssumption
  DEF Deploy!Host, Deploy!host, HostType, Deploy!Content, Deploy!SaysPinned,
      Deploy!SaysCandidate, Deploy!Archive
<1>0. HostType BY DeployType
<1>1. CASE UNCHANGED Deploy!host
  BY <1>0, <1>1
<1>2. CASE Deploy!Script(step)
  <2>1. CASE step = "initialize" /\ Deploy!Initialize
    BY <1>0, <2>1 DEF Deploy!Initialize
  <2>2. CASE step = "prepare" /\ Deploy!Prepare
    BY <1>0, <2>2 DEF Deploy!Prepare
  <2>3. CASE step = "activate" /\ Deploy!Activate
    BY <1>0, <2>3 DEF Deploy!Activate
  <2>4. CASE Deploy!Reload
    BY <1>0, <2>4 DEF Deploy!Reload
  <2>5. CASE step = "update" /\ Deploy!Update
    BY <1>0, <2>5 DEF Deploy!Update, Deploy!Rebuild
  <2>6. CASE step = "restore" /\ Deploy!Restore
    BY <1>0, <2>6 DEF Deploy!Restore
  <2>7. CASE step = "rebuild" /\ Deploy!Rebuild
    BY <1>0, <2>7 DEF Deploy!Rebuild
  <2>8. CASE Deploy!Cleanup
    BY <1>0, <2>8 DEF Deploy!Cleanup
  <2> QED BY <1>2, <2>1, <2>2, <2>3, <2>4, <2>5, <2>6, <2>7, <2>8 DEF Deploy!Script
<1>3. CASE Deploy!Half(step)
  <2>1. CASE step = "prepare"
    <3>1. PICK b \in {backup} \cup ({uploads.rollback} \cap {"good"}) :
            Deploy!Host(uploads, "part", b, source, store, healthy)
      BY <1>3, <2>1 DEF Deploy!Half
    <3> QED BY <1>0, <3>1
  <2>2. CASE step = "activate"
    BY <1>0, <1>3, <2>2 DEF Deploy!Half
  <2>3. CASE step = "restore"
    BY <1>0, <1>3, <2>3 DEF Deploy!Half
  <2>4. CASE step \in {"update", "rebuild"}
    <3>1. PICK h \in BOOLEAN : Deploy!Host(uploads, staged, backup, source, store, h)
      BY <1>3, <2>4 DEF Deploy!Half
    <3> QED BY <1>0, <3>1
  <2>5. CASE step \notin {"prepare", "activate", "restore", "update", "rebuild"}
    BY <1>0, <1>3, <2>5 DEF Deploy!Half
  <2> QED BY <2>1, <2>2, <2>3, <2>4, <2>5
<1> QED BY <1>1, <1>2, <1>3 DEF HostStep

LEMMA GoesTo ==
  ASSUME at \in Deploy!Steps, result \in Deploy!Results, Deploy!Goes
  PROVE  /\ at' \in Deploy!Steps \cup {"idle"} /\ result' \in Deploy!Results
         /\ at \in Early => at' \in Early \cup {"activate"}
         /\ at' \in Early \cup {"activate"} => at \in Early
         /\ at' = "recheck" => at = "prepare"
         /\ at' = "activate" => at = "recheck"
         /\ at \in Middle => at' \in Middle \cup {"idle"}
         /\ at' = "cleanup" => at = "version"
         /\ at \in Back => at' \in Back \cup {"idle"}
         /\ at' \in {"health_back", "version_back", "cleanup_back"} =>
              at \in {"rebuild", "health_back", "version_back"}
         /\ at' = "cleanup_back" => at = "version_back"
         /\ result' = result \/ (at = "cleanup" /\ result' = "succeeded")
              \/ (at = "cleanup_back" /\ result' = "rolled_back")
         /\ at' # "inspect"
<1> USE DEF Deploy!Results
<1>1. CASE at \in {"cleanup", "cleanup_back"}
  BY <1>1 DEF Deploy!Goes, Deploy!Ends, Early, Middle, Back
<1>2. CASE at \in Early
  BY <1>2, TheSteps, NextSteps DEF Deploy!Goes, Onward, Early, Middle, Back
<1>3. CASE at \in Middle \ {"cleanup"}
  BY <1>3, TheSteps, NextSteps DEF Deploy!Goes, Onward, Early, Middle, Back
<1>4. CASE at \in Back \ {"cleanup_back"}
  <2>1. at \notin Deploy!In(Deploy!Deploys) BY <1>4, TheSteps DEF Early, Middle, Back
  <2>2. at' = Backward(at) /\ result' = result
    BY <1>4, <2>1 DEF Deploy!Goes, Backward, Back
  <2> QED BY <1>4, <2>2, TheSteps, NextSteps DEF Early, Middle, Back
<1> QED BY <1>1, <1>2, <1>3, <1>4, TheSteps DEF Middle, Back

LEMMA GoesFrom ==
  ASSUME at \in Deploy!Steps, Deploy!Goes
  PROVE  /\ at' = "reload" => at = "activate"
         /\ at' = "update" => at = "reload"
         /\ at' = "health" => at = "update"
         /\ at' = "version" => at = "health"
         /\ at' = "reload_back" => at = "restore"
         /\ at' = "rebuild" => at = "reload_back"
         /\ at' = "health_back" => at = "rebuild"
         /\ at' = "version_back" => at = "health_back"
<1>1. CASE at \in {"cleanup", "cleanup_back"}
  BY <1>1 DEF Deploy!Goes, Deploy!Ends
<1>2. CASE at \in Early \cup (Middle \ {"cleanup"})
  BY <1>2, TheSteps, NextSteps DEF Deploy!Goes, Onward, Early, Middle
<1>3. CASE at \in Back \ {"cleanup_back"}
  <2>1. at' = Backward(at)
    BY <1>3, TheSteps DEF Deploy!Goes, Backward, Early, Middle, Back
  <2> QED BY <1>3, <2>1, NextSteps DEF Back
<1> QED BY <1>1, <1>2, <1>3, TheSteps DEF Middle, Back

LEMMA FailsTo ==
  ASSUME at \in Deploy!Steps, result \in Deploy!Results, Deploy!Fails
  PROVE  /\ at' \in {"idle", "restore"} /\ result' \in Deploy!Results
         /\ at' = "restore" => at \in Middle
         /\ result' = result \/ (at = "cleanup" /\ result' = "succeeded")
              \/ (at = "cleanup_back" /\ result' = "rolled_back")
              \/ result' \in {"failed", "rollback_failed"}
<1> USE DEF Deploy!Results
<1>1. CASE at \in {"cleanup", "cleanup_back"}
  BY <1>1 DEF Deploy!Fails, Deploy!Goes, Deploy!Ends
<1>2. CASE at \in Early
  BY <1>2 DEF Deploy!Fails, Deploy!Ends, Early
<1>3. CASE at \in Middle \ {"cleanup"}
  BY <1>3, TheSteps DEF Deploy!Fails, Deploy!Ends, Early, Middle
<1>4. CASE at \in Back \ {"cleanup_back"}
  BY <1>4, TheSteps DEF Deploy!Fails, Deploy!Ends, Early, Middle, Back
<1> QED BY <1>1, <1>2, <1>3, <1>4, TheSteps DEF Middle, Back

\* The first of the outcomes that a step can have, whatever it did to the host.
LEMMA RunsOrFails == ASSUME Deploy!Runs
  PROVE  /\ at \in Deploy!Scripted /\ UNCHANGED Deploy!Tool
         /\ (Deploy!Script(at) /\ Deploy!Goes) \/ (Deploy!Fails /\ UNCHANGED Deploy!host)
BY DEF Deploy!Runs

-----------------------------------------------------------------------------
(* CandidateDeployment: the actions. *)

LEMMA LooksFirst ==
  ASSUME DeployInv, Deploy!Inspect \/ \E o \in Deploy!Options : Deploy!StartTool(o)
  PROVE  DeployInv'
<1> USE DeploymentAssumption, TheSteps DEF Deploy!host, Deploy!Tool
<1>0. ToolType /\ HostType BY DeployType DEF DeployInv
<1>1. CASE Deploy!Inspect
  <2>1. at' \in {"initialize", "idle"} /\ result' \in Deploy!Results
          /\ UNCHANGED <<Deploy!host, Deploy!Tool>>
        /\ (at' = "initialize" => options.execute) /\ at = "inspect"
    BY <1>0, <1>1 DEF Deploy!Inspect, Deploy!Ends, Deploy!Results, ToolType
  <2>2. Deploy!TypeOK' BY <1>0, <2>1, DeployType
    DEF ToolType, HostType, Deploy!TypeOK, Early
  <2>3. BackupInv' /\ LateInv' BY <2>1
    DEF DeployInv, BackupInv, Deploy!RollbackAtHand, LateInv, Early, Middle, Back
  <2>4. AskedInv' BY <2>1
    DEF DeployInv, AskedInv, Asked, Deploy!Authorized, Early, Middle, Back
  <2>5. BuiltInv' /\ ReportInv' BY <2>1 DEF BuiltInv, ReportInv
  <2> QED BY <2>2, <2>3, <2>4, <2>5 DEF DeployInv
<1>2. CASE \E o \in Deploy!Options : Deploy!StartTool(o)
  <2> PICK o \in Deploy!Options : Deploy!StartTool(o) BY <1>2
  <2>1. /\ at' = "inspect" /\ result' = "none" /\ late' = {} /\ leave' = None /\ options' = o
        /\ runs' \in 0..MaxRuns /\ UNCHANGED <<gate, tree, Deploy!host, touched, deployMishaps>>
    BY <1>0 DEF Deploy!StartTool, ToolType
  <2>2. Deploy!TypeOK' BY <1>0, <2>1, DeployType
    DEF ToolType, HostType, Deploy!TypeOK, Deploy!Results
  <2>3. BackupInv' /\ LateInv' BY <2>1
    DEF DeployInv, BackupInv, Deploy!RollbackAtHand, LateInv, Early, Middle, Back
  <2>4. AskedInv' BY <2>1 DEF DeployInv, AskedInv, Early, Middle, Back
  <2>5. BuiltInv' /\ ReportInv' BY <2>1 DEF BuiltInv, ReportInv
  <2> QED BY <2>2, <2>3, <2>4, <2>5 DEF DeployInv
<1> QED BY <1>1, <1>2

\* Whether something was asked for does not change while the tool runs.
LEMMA AskedKept ==
  ASSUME UNCHANGED <<options, leave>>
  PROVE  Asked' <=> Asked
BY DEF Asked, Deploy!Authorized

LEMMA CountMishap == ASSUME Deploy!TypeOK, Deploy!Mishap
        PROVE deployMishaps' \in 0..MaxDeployMishaps
BY DeploymentAssumption DEF Deploy!TypeOK, Deploy!Mishap

\* A step goes on, its script having run where there is one.
LEMMA StepGoesOn ==
  ASSUME DeployInv, at \in Deploy!Steps \ {"recheck"}, Deploy!Goes, HostType',
          UNCHANGED <<options, leave, gate, tree, late, runs>>,
         deployMishaps' \in 0..MaxDeployMishaps,
         touched' \in BOOLEAN,
         backup' = "good" \/ backup' = backup, at = "prepare" => backup' = "good",
         at \notin {"activate", "restore"} => source' = source,
         at = "activate" => source' = "candidate",
         at = "restore" => source' = "pinned" /\ backup = "good",
         at \notin {"update", "rebuild"} => UNCHANGED <<image, byHand>>,
         at \in {"update", "rebuild"} => image' = source /\ source # None,
         at = "version" => image' \in Deploy!Packaged,
         at = "version_back" => image' \in Deploy!RuntimePinned,
         at = "rebuild" => "update" \notin late
  PROVE  DeployInv'
<1> USE DeploymentAssumption, TheSteps, GoesTo
<1>0. ToolType /\ HostType BY DeployType DEF DeployInv
<1>1. result \in Deploy!Results BY <1>0 DEF ToolType
<1>2. Deploy!TypeOK' BY <1>0, <1>1, DeployType DEF ToolType, Deploy!TypeOK, HostType
<1>3. BackupInv'
  <2>1. backup = "good" => backup' = "good" OBVIOUS
  <2>2. at' \in {"recheck"} \cup Middle \cup Back => backup' = "good"
    BY <1>1, <2>1 DEF DeployInv, BackupInv, Early, Middle, Back
  <2>3. Deploy!RollbackAtHand'
    BY <2>1 DEF DeployInv, BackupInv, Deploy!RollbackAtHand, Middle, Back
  <2> QED BY <2>1, <2>2, <2>3 DEF DeployInv, BackupInv
<1>4. LateInv'
  BY <1>1 DEF DeployInv, LateInv, Early, Middle, Back
<1>5. AskedInv'
  BY <1>1, AskedKept DEF DeployInv, AskedInv, Early, Middle, Back
<1>6. BuiltInv'
  <2>1. /\ at' \in {"reload", "update"} => source' = "candidate"
        /\ at' \in {"health", "version"} => image' = "candidate" \/ byHand'
        /\ at' \in {"reload_back", "rebuild"} => source' \in {"pinned", "candidate", None}
        /\ at' \in {"health_back", "version_back"} =>
             image' \in {"pinned", "candidate"} \/ byHand'
    BY GoesFrom DEF DeployInv, BuiltInv
  <2>2. /\ at' = "cleanup" => image' = "candidate" \/ byHand'
        /\ at' = "cleanup_back" => image' = "pinned" \/ byHand'
    BY <1>1 DEF DeployInv, BuiltInv, Deploy!RuntimePinned
  <2> QED BY <2>1, <2>2 DEF BuiltInv
<1>7. ReportInv'
  BY <1>1 DEF ReportInv
<1> QED BY <1>2, <1>3, <1>4, <1>5, <1>6, <1>7 DEF DeployInv

\* A step fails, whatever its script has done, does, or will do.
LEMMA StepFails ==
  ASSUME DeployInv, at \in Deploy!Steps, Deploy!Fails, HostStep(at) \/ UNCHANGED Deploy!host,
         UNCHANGED <<options, leave, gate, tree, runs>>, touched' \in {touched, FALSE},
         deployMishaps' \in 0..MaxDeployMishaps,
         late' = late \/ late' = late \cup {at}
  PROVE  DeployInv'
<1> USE DeploymentAssumption, TheSteps, FailsTo
<1>0. ToolType /\ HostType BY DeployType DEF DeployInv
<1>1. result \in Deploy!Results BY <1>0 DEF ToolType
<1>2. /\ HostType' /\ (backup = "good" => backup' = "good")
      /\ source' = source \/ (at = "activate" /\ source' \in {"candidate", None})
           \/ (at = "restore" /\ backup = "good" /\ source' \in {"pinned", None})
  <2>1. HostStep(at) BY DEF HostStep
  <2>2. Deploy!TypeOK /\ BackupInv BY DEF DeployInv
  <2> QED BY <2>1, <2>2, HostEffects
<1>3. at' \in Deploy!Steps \cup {"idle"} BY <1>1 DEF Back
<1>t. Deploy!TypeOK' BY <1>0, <1>1, <1>2, <1>3, DeployType
  DEF ToolType, Deploy!TypeOK, HostType
<1>4. BackupInv'
  BY <1>1, <1>2 DEF DeployInv, BackupInv, Deploy!RollbackAtHand, Early, Middle, Back
<1>5. LateInv'
  BY <1>1 DEF DeployInv, LateInv, Early, Middle, Back
<1>6. AskedInv'
  BY <1>1, AskedKept DEF DeployInv, AskedInv, Early, Middle, Back
<1>7. BuiltInv' /\ ReportInv'
  BY <1>1 DEF BuiltInv, ReportInv
<1> QED BY <1>t, <1>4, <1>5, <1>6, <1>7 DEF DeployInv

LEMMA UnchangedHost ==
  ASSUME Deploy!TypeOK, UNCHANGED Deploy!host
  PROVE  HostType' /\ UNCHANGED <<uploads, staged, backup, source, store, image, byHand, healthy>>
BY DeployType DEF HostType, Deploy!host

\* What a script did to the host when it ran to its end.
LEMMA ScriptEffects ==
  ASSUME Deploy!TypeOK, BackupInv, NEW step, Deploy!Script(step)
  PROVE  /\ step = "prepare" => backup' = "good"
         /\ step = "rebuild" => "update" \notin late
         /\ step = "activate" => source' = "candidate"
         /\ step = "restore" => source' = "pinned" /\ backup = "good"
         /\ step \in {"update", "rebuild"} => image' = source /\ source # None
         /\ step \in Deploy!Scripted
<1>1. step = "prepare" => backup' = "good"
  BY DEF Deploy!Script, Deploy!Prepare, Deploy!Host
<1>2. step = "rebuild" => "update" \notin late
  BY DEF Deploy!Script
<1>3. step \in Deploy!Scripted
  BY DEF Deploy!Script, Deploy!Scripted
<1>4. /\ step = "activate" => source' = "candidate"
      /\ step = "restore" => source' = "pinned" /\ backup = "good"
  BY DEF Deploy!Script, Deploy!Activate, Deploy!Restore, Deploy!Host
<1>5. step \in {"update", "rebuild"} => image' = source /\ source # None
  BY DEF Deploy!Script, Deploy!Update, Deploy!Rebuild
<1> QED BY <1>1, <1>2, <1>3, <1>4, <1>5

LEMMA Rechecking ==
  ASSUME DeployInv, Deploy!Recheck
  PROVE  DeployInv'
<1> USE DeploymentAssumption, TheSteps
<1>0. ToolType /\ HostType BY DeployType DEF DeployInv
<1>1. at = "recheck" /\ leave' = Deploy!Facts0 /\ Deploy!Facts0 \in Deploy!Facts
        /\ options.execute /\ backup = "good"
  BY <1>0
  DEF Deploy!Recheck, Deploy!Facts0, Deploy!Facts, ToolType, HostType, DeployInv, AskedInv,
      BackupInv, Early
<1>2. UNCHANGED <<options, gate, tree, touched, late, runs, deployMishaps>>
  BY DEF Deploy!Recheck
<1>3. CASE Deploy!Authorized(Deploy!Facts0) /\ Deploy!Goes /\ UNCHANGED Deploy!host
  <2>1. at' = "activate" /\ result' = result
    BY <1>1, <1>3, NextSteps DEF Deploy!Goes, Onward, Early
  <2>2. HostType' /\ UNCHANGED <<uploads, staged, backup, source, store, image, byHand, healthy>>
    BY <1>3, UnchangedHost DEF DeployInv
  <2>3. Deploy!TypeOK' BY <1>0, <1>1, <1>2, <2>1, <2>2, DeployType
    DEF ToolType, Deploy!TypeOK, HostType, Middle
  <2>4. BackupInv' /\ LateInv'
    BY <1>1, <1>2, <2>1, <2>2
    DEF DeployInv, BackupInv, Deploy!RollbackAtHand, LateInv, Early, Middle, Back
  <2>5. Asked' BY <1>1, <1>2, <1>3 DEF Asked, Deploy!Authorized
  <2>6. AskedInv' BY <2>1, <2>5 DEF AskedInv, Early
  <2>7. BuiltInv' /\ ReportInv' BY <2>1 DEF BuiltInv, ReportInv
  <2> QED BY <2>3, <2>4, <2>6, <2>7 DEF DeployInv
<1>4. CASE Deploy!Ends("failed") /\ (Deploy!Cleanup \/ UNCHANGED Deploy!host)
  <2>1. at' = "idle" /\ result' = "failed"
    BY <1>4 DEF Deploy!Ends
  <2>2. HostStep("cleanup")
    BY <1>4 DEF HostStep, Deploy!Script
  <2>3. HostType' /\ (backup = "good" => backup' = "good") /\ source' = source
    BY <2>2, HostEffects DEF DeployInv
  <2>4. Deploy!TypeOK'
    BY <1>0, <1>1, <1>2, <2>1, <2>3, DeployType
    DEF ToolType, Deploy!TypeOK, HostType, Deploy!Results
  <2>5. late = {}
    BY <1>1 DEF DeployInv, LateInv, Early
  <2>6. BackupInv' /\ LateInv' /\ AskedInv' /\ BuiltInv' /\ ReportInv'
    BY <1>1, <1>2, <2>1, <2>3, <2>5
    DEF BackupInv, Deploy!RollbackAtHand, LateInv, AskedInv, BuiltInv, ReportInv, Early, Middle,
        Back, DeployInv
  <2> QED BY <2>4, <2>6 DEF DeployInv
<1> QED BY <1>3, <1>4 DEF Deploy!Recheck

LEMMA Uploading ==
  ASSUME DeployInv, Deploy!Upload \/ Deploy!UploadDamaged
  PROVE  DeployInv'
<1> USE DeploymentAssumption
<1>0. ToolType /\ HostType BY DeployType DEF DeployInv
<1>1. at = "upload" /\ Deploy!Goes /\ UNCHANGED <<options, leave, gate, tree, touched, late, runs>>
  BY DEF Deploy!Upload, Deploy!UploadDamaged, Deploy!Tool
<1>2. HostType' /\ UNCHANGED <<staged, backup, source, store, image, byHand, healthy>>
  <2>1. CASE Deploy!Upload
    BY <1>0, <2>1 DEF Deploy!Upload, Deploy!Host, HostType, Deploy!Archive
  <2>2. CASE Deploy!UploadDamaged
    <3> PICK u \in [candidate : {"good", "bad"}, rollback : {"good", "bad"}] :
               Deploy!Host(u, staged, backup, source, store, healthy)
      BY <2>2 DEF Deploy!UploadDamaged
    <3> QED BY <1>0 DEF Deploy!Host, HostType, Deploy!Archive
  <2> QED BY <2>1, <2>2
<1>3. deployMishaps' \in 0..MaxDeployMishaps
  <2>1. CASE Deploy!Upload BY <1>0, <2>1 DEF Deploy!Upload, Deploy!Tool, ToolType
  <2>2. CASE Deploy!UploadDamaged BY <2>2, CountMishap
    DEF Deploy!UploadDamaged, DeployInv
  <2> QED BY <2>1, <2>2
<1>4. at \in Deploy!Steps \ {"recheck"} /\ touched' \in BOOLEAN
  BY <1>0, <1>1, TheSteps DEF Early, ToolType
<1> QED BY <1>1, <1>2, <1>3, <1>4, StepGoesOn

LEMMA ScriptedSteps == Deploy!Scripted \subseteq Deploy!Steps \ {"recheck", "upload", "version",
        "version_back", "health", "health_back"}
BY TheSteps DEF Deploy!Scripted, Early, Middle, Back

LEMMA Running ==
  ASSUME DeployInv, Deploy!Runs
  PROVE  DeployInv'
<1> USE DeploymentAssumption
<1>0. ToolType /\ HostType BY DeployType DEF DeployInv
<1>1. at \in Deploy!Scripted /\ UNCHANGED <<options, leave, gate, tree, touched, late, runs,
        deployMishaps>>
  BY RunsOrFails DEF Deploy!Tool
<1>2. at \in Deploy!Steps \ {"recheck", "version", "version_back"}
        /\ deployMishaps' \in 0..MaxDeployMishaps /\ touched' \in BOOLEAN
  BY <1>0, <1>1, ScriptedSteps DEF ToolType
<1>3. CASE Deploy!Script(at) /\ Deploy!Goes
  <2>1. HostStep(at) BY <1>3 DEF HostStep
  <2>2. Deploy!TypeOK /\ BackupInv BY DEF DeployInv
  <2>3. /\ HostType' /\ (backup = "good" => backup' = "good")
        /\ at \notin {"activate", "restore"} => source' = source
        /\ at \notin {"update", "rebuild"} => UNCHANGED <<image, byHand>>
    BY <2>1, <2>2, HostEffects
  <2>4. /\ (at = "prepare" => backup' = "good") /\ (at = "rebuild" => "update" \notin late)
        /\ at = "activate" => source' = "candidate"
        /\ at = "restore" => source' = "pinned" /\ backup = "good"
        /\ at \in {"update", "rebuild"} => image' = source /\ source # None
    BY <1>3, <2>2, ScriptEffects
  <2>5. CASE backup = "good" \/ backup' = "good"
    BY <1>1, <1>2, <1>3, <2>3, <2>4, <2>5, StepGoesOn
  <2>6. CASE backup # "good" /\ at # "prepare"
    <3>1. backup' = backup BY <1>3, <2>6
      DEF Deploy!Script, Deploy!Initialize, Deploy!Activate, Deploy!Reload, Deploy!Update,
          Deploy!Restore, Deploy!Rebuild, Deploy!Cleanup, Deploy!Host
    <3> QED BY <1>1, <1>2, <1>3, <2>3, <2>4, <3>1, StepGoesOn
  <2> QED BY <2>4, <2>5, <2>6
<1>4. CASE Deploy!Fails /\ UNCHANGED Deploy!host
  BY <1>1, <1>2, <1>4, StepFails
<1> QED BY <1>3, <1>4, RunsOrFails

LEMMA Failing ==
  ASSUME DeployInv, Deploy!Stops \/ Deploy!Lost
  PROVE  DeployInv'
<1>1. /\ at \in Deploy!Scripted /\ Deploy!Mishap /\ Deploy!Fails /\ HostStep(at)
      /\ UNCHANGED <<options, leave, gate, tree, touched, runs>>
      /\ late' = late \/ late' = late \cup {at}
  <2>1. CASE Deploy!Stops BY <2>1 DEF Deploy!Stops, HostStep
  <2>2. CASE Deploy!Lost BY <2>2 DEF Deploy!Lost, HostStep
  <2> QED BY <2>1, <2>2
<1>2. at \in Deploy!Steps BY <1>1, ScriptedSteps
<1>3. deployMishaps' \in 0..MaxDeployMishaps BY <1>1, CountMishap DEF DeployInv
<1> QED BY <1>1, <1>2, <1>3, StepFails

LEMMA LooksAgain ==
  ASSUME DeployInv, Deploy!Health \/ Deploy!Version \/ Deploy!NoAnswer
  PROVE  DeployInv'
<1> USE DeploymentAssumption
<1>0. ToolType /\ HostType BY DeployType DEF DeployInv
<1>1. CASE Deploy!NoAnswer
  <2>1. at \in Deploy!Steps BY <1>1, TheSteps DEF Deploy!NoAnswer, Early, Middle, Back
  <2>2. deployMishaps' \in 0..MaxDeployMishaps BY <1>1, CountMishap
    DEF Deploy!NoAnswer, DeployInv
  <2>3. Deploy!Fails /\ UNCHANGED <<Deploy!host, options, leave, gate, tree, touched, late, runs>>
    BY <1>1 DEF Deploy!NoAnswer
  <2> QED BY <2>1, <2>2, <2>3, StepFails
<1>2. CASE Deploy!Health
  <2>1. /\ at \in {"health", "health_back"}
        /\ UNCHANGED <<Deploy!host, options, leave, gate, tree, touched, late, runs, deployMishaps>>
    BY <1>2 DEF Deploy!Health, Deploy!Tool
  <2>2. at \in Deploy!Steps \ {"recheck"} /\ deployMishaps' \in 0..MaxDeployMishaps
          /\ touched' \in BOOLEAN
    BY <1>0, <2>1, TheSteps DEF ToolType, Middle, Back
  <2>3. CASE Deploy!Fails BY <2>1, <2>2, <2>3, StepFails
  <2>4. CASE Deploy!Goes
    <3>1. HostType' /\ UNCHANGED <<uploads, staged, backup, source, store, image, byHand, healthy>>
      BY <2>1, UnchangedHost DEF DeployInv
    <3> QED BY <2>1, <2>2, <2>4, <3>1, StepGoesOn
  <2> QED BY <1>2, <2>3, <2>4 DEF Deploy!Health
<1>3. CASE Deploy!Version
  <2>1. /\ at \in {"version", "version_back"} /\ touched' = FALSE
        /\ UNCHANGED <<Deploy!host, options, leave, gate, tree, late, runs, deployMishaps>>
    BY <1>3 DEF Deploy!Version
  <2>2. at \in Deploy!Steps \ {"recheck"} /\ deployMishaps' \in 0..MaxDeployMishaps
    BY <1>0, <2>1, TheSteps DEF ToolType, Middle, Back
  <2>3. HostType' /\ UNCHANGED <<uploads, staged, backup, source, store, image, byHand, healthy>>
    BY <2>1, UnchangedHost DEF DeployInv
  <2>4. CASE Deploy!Fails /\ ~Deploy!Verified
    BY <2>1, <2>2, <2>4, StepFails
  <2>5. CASE Deploy!Goes /\ Deploy!Verified
    <3>1. /\ at = "version" => image' \in Deploy!Packaged
          /\ at = "version_back" => image' \in Deploy!RuntimePinned
      BY <2>3, <2>5 DEF Deploy!Verified
    <3> QED BY <2>1, <2>2, <2>3, <2>5, <3>1, StepGoesOn
  <2> QED BY <1>3, <2>4, <2>5 DEF Deploy!Version
<1> QED BY <1>1, <1>2, <1>3

\* A script that runs late finds the tool restoring, or at rest.
LEMMA RunningLate ==
  ASSUME DeployInv, NEW step \in Deploy!Steps, Deploy!RunsLate(step)
  PROVE  DeployInv'
<1> USE DeploymentAssumption
<1>0. ToolType /\ HostType BY DeployType DEF DeployInv
<1>1. /\ step \in late /\ late' = late \ {step}
      /\ UNCHANGED <<at, options, result, leave, gate, tree, touched, runs, deployMishaps>>
  BY DEF Deploy!RunsLate
<1>2. HostStep(step) BY DEF Deploy!RunsLate, HostStep
<1>3. Deploy!TypeOK /\ BackupInv BY DEF DeployInv
<1>4. /\ HostType' /\ (backup = "good" => backup' = "good")
      /\ source' = source \/ (step = "activate" /\ source' \in {"candidate", None})
           \/ (step = "restore" /\ backup = "good" /\ source' \in {"pinned", None})
      /\ UNCHANGED <<image, byHand>> \/ step \in {"update", "rebuild"}
  BY <1>2, <1>3, HostEffects
<1>5. Deploy!TypeOK' BY <1>0, <1>1, <1>4, DeployType
  DEF ToolType, Deploy!TypeOK, HostType
<1>6. BackupInv' BY <1>1, <1>4 DEF DeployInv, BackupInv, Deploy!RollbackAtHand
<1>7. LateInv' BY <1>1 DEF DeployInv, LateInv
<1>8. AskedInv' BY <1>1, AskedKept DEF DeployInv, AskedInv
<1>9. at \notin Early \cup Middle
  BY <1>1 DEF DeployInv, LateInv
<1>10. BuiltInv'
  BY <1>1, <1>4, <1>9 DEF DeployInv, BuiltInv, LateInv, Middle, Back
<1>11. ReportInv'
  BY <1>1, <1>4, <1>9 DEF DeployInv, ReportInv, LateInv, Middle, Back
<1> QED BY <1>5, <1>6, <1>7, <1>8, <1>10, <1>11 DEF DeployInv

LEMMA Outside ==
  ASSUME DeployInv, Deploy!Killed \/ Deploy!GateChanges \/ Deploy!TreeChanges
          \/ Deploy!ImageChanges \/ Deploy!AppFails
  PROVE  DeployInv'
<1> USE DeploymentAssumption
<1>0. ToolType /\ HostType BY DeployType DEF DeployInv
<1>m. deployMishaps' \in 0..MaxDeployMishaps
  BY CountMishap
  DEF DeployInv, Deploy!Killed, Deploy!GateChanges, Deploy!TreeChanges, Deploy!ImageChanges,
      Deploy!AppFails
<1>1. CASE Deploy!Killed
  <2>1. /\ at' = "idle" /\ result' = "none"
        /\ late' \in {late, late \cup ({at} \cap Deploy!Scripted)}
        /\ UNCHANGED <<options, leave, gate, tree, Deploy!host, touched, runs>>
    BY <1>1 DEF Deploy!Killed
  <2>2. HostType' /\ UNCHANGED <<uploads, staged, backup, source, store, image, byHand, healthy>>
    BY <2>1, UnchangedHost DEF DeployInv
  <2>3. late' \subseteq Deploy!Steps BY <1>0, <2>1, ScriptedSteps DEF ToolType
  <2>4. Deploy!TypeOK' BY <1>0, <1>m, <2>1, <2>2, <2>3, DeployType
    DEF ToolType, Deploy!TypeOK, HostType, Deploy!Results
  <2>5. BackupInv'
    BY <2>1, <2>2 DEF DeployInv, BackupInv, Deploy!RollbackAtHand, Middle, Back
  <2>6. LateInv' /\ BuiltInv' /\ ReportInv'
    BY <2>1 DEF LateInv, BuiltInv, ReportInv, Early, Middle, Back
  <2>7. AskedInv'
    BY <2>1, AskedKept DEF DeployInv, AskedInv, Early, Middle, Back
  <2> QED BY <2>4, <2>5, <2>6, <2>7 DEF DeployInv
<1>2. CASE Deploy!GateChanges \/ Deploy!TreeChanges \/ Deploy!ImageChanges \/ Deploy!AppFails
  <2>1. /\ UNCHANGED <<at, options, result, leave, uploads, staged, backup, source, store, late,
          runs>>
        /\ gate' \in BOOLEAN /\ tree' \in BOOLEAN /\ image' \in Deploy!Content
        /\ healthy' \in BOOLEAN /\ byHand' \in BOOLEAN /\ touched' \in BOOLEAN
        /\ (byHand' /\ touched') \/ UNCHANGED <<image, byHand, touched>>
    BY <1>0, <1>2
    DEF Deploy!GateChanges, Deploy!TreeChanges, Deploy!ImageChanges, Deploy!AppFails,
        Deploy!host, ToolType, HostType, Deploy!Content, Deploy!SaysPinned,
        Deploy!SaysCandidate
  <2>2. Deploy!TypeOK' BY <1>0, <1>m, <2>1, DeployType
    DEF ToolType, Deploy!TypeOK, HostType
  <2>3. BackupInv' /\ LateInv'
    BY <2>1 DEF DeployInv, BackupInv, Deploy!RollbackAtHand, LateInv
  <2>4. AskedInv'
    BY <2>1, AskedKept DEF DeployInv, AskedInv
  <2>5. BuiltInv' /\ ReportInv'
    BY <2>1 DEF DeployInv, BuiltInv, ReportInv
  <2> QED BY <2>2, <2>3, <2>4, <2>5 DEF DeployInv
<1> QED BY <1>1, <1>2

LEMMA DeployBegins == Deploy!Init => DeployInv
<1> SUFFICES ASSUME Deploy!Init PROVE DeployInv OBVIOUS
<1> USE DeploymentAssumption
<1>1. Deploy!TypeOK
  <2>1. ToolType
    <3>1. options \in Deploy!Options BY DEF Deploy!Init, Deploy!Options
    <3>2. runs \in 0..MaxRuns /\ deployMishaps \in 0..MaxDeployMishaps BY DEF Deploy!Init
    <3> QED BY <3>1, <3>2 DEF Deploy!Init, ToolType, Deploy!Results
  <2>2. HostType
    BY DEF Deploy!Init, HostType, Deploy!Archive, Deploy!Content, Deploy!SaysPinned
  <2> QED BY <2>1, <2>2, DeployType
<1>2. BackupInv
  BY DEF Deploy!Init, BackupInv, Deploy!RollbackAtHand, Deploy!SaysPinned, Deploy!Content, Middle,
         Back
<1>3. LateInv BY DEF Deploy!Init, LateInv
<1>4. AskedInv BY DEF Deploy!Init, AskedInv, Early, Middle, Back
<1>5. BuiltInv /\ ReportInv BY DEF Deploy!Init, BuiltInv, ReportInv
<1> QED BY <1>1, <1>2, <1>3, <1>4, <1>5 DEF DeployInv

LEMMA DeploySteps == ASSUME DeployInv, Deploy!Next PROVE DeployInv'
BY LooksFirst, Rechecking, Uploading, Running, Failing, LooksAgain, RunningLate,
        Outside
DEF Deploy!Next

LEMMA DeployStutters == ASSUME DeployInv, UNCHANGED Deploy!vars PROVE DeployInv'
<1>1. Asked' <=> Asked BY AskedKept DEF Deploy!vars
<1> QED BY <1>1
  DEF DeployInv, Deploy!TypeOK, BackupInv, Deploy!RollbackAtHand, LateInv, AskedInv, BuiltInv,
      ReportInv, Deploy!vars, Deploy!host

-----------------------------------------------------------------------------
(* What a step does to the source, and what it reports. *)

\* What was authorized.
LEMMA AskedMeans ==
  ASSUME Asked, DeploymentAssumption
  PROVE  /\ leave # None /\ leave.tree /\ leave.image \in Deploy!SaysPinned
         /\ leave.gate \/ options.deferSoak
         /\ leave.image \in Deploy!RuntimePinned \/ options.hotpatched
         /\ options.execute
<1>1. leave # None BY DEF Asked
<1>2. ("preflight_blocked" \in Deploy!Reasons(leave) <=> Deploy!PreflightReasons(leave) # {})
      /\ ("rollback_runtime_mismatch" \in Deploy!Reasons(leave) <=>
            leave.image \notin Deploy!RuntimePinned)
  BY DEF Deploy!Reasons
<1>3. /\ "soak_gate_blocked" \in Deploy!PreflightReasons(leave) <=> ~leave.gate
      /\ "source" \in Deploy!PreflightReasons(leave) <=> ~leave.tree
      /\ "installed" \in Deploy!PreflightReasons(leave) <=> leave.image \notin Deploy!SaysPinned
  BY DEF Deploy!PreflightReasons
<1>4. leave \in Deploy!Facts /\ options.execute /\ Deploy!Authorized(leave) BY DEF Asked
<1>5. CASE Deploy!Reasons(leave) = {}
  BY <1>1, <1>2, <1>3, <1>4, <1>5
<1>6. CASE Deploy!Reasons(leave) # {}
  <2>1. /\ options.deferSoak /\ Deploy!PreflightReasons(leave) = {"soak_gate_blocked"}
        /\ "rollback_runtime_mismatch" \in Deploy!Reasons(leave) => options.hotpatched
    BY <1>4, <1>6 DEF Deploy!Authorized
  <2> QED BY <1>1, <1>2, <1>3, <1>4, <2>1
<1> QED BY <1>5, <1>6

NothingUnaskedStep ==
  source' # source /\ source \in Deploy!SaysPinned =>
       /\ leave # None /\ leave.tree /\ leave.image \in Deploy!SaysPinned
       /\ leave.gate \/ options.deferSoak
       /\ leave.image \in Deploy!RuntimePinned \/ options.hotpatched
       /\ options.execute
ReportsAreTrueStep ==
  /\ result' = "succeeded" /\ result # "succeeded" =>
       (image' \in Deploy!Packaged \/ touched) /\ (image' = "candidate" \/ byHand)
  /\ result' = "rolled_back" /\ result # "rolled_back" =>
       (image' \in Deploy!RuntimePinned \/ touched) /\ (image' = "pinned" \/ byHand)

\* A step either leaves the source and the image, runs a script of the step the tool is
\* at, or one that runs late.
LEMMA HostChanges ==
  ASSUME DeployInv, Deploy!Next
  PROVE  \/ UNCHANGED source
         \/ at \in Middle \cup Back
         \/ ("activate" \in late \/ "restore" \in late)
<1>0. Deploy!TypeOK /\ BackupInv BY DEF DeployInv
<1>1. CASE Deploy!Runs \/ Deploy!Stops \/ Deploy!Lost
  <2>1. at \in Deploy!Scripted /\ HostStep(at)
    BY <1>1, RunsOrFails DEF Deploy!Stops, Deploy!Lost, HostStep
  <2>2. source' = source \/ at \in {"activate", "restore"}
    BY <1>0, <2>1, HostEffects
  <2> QED BY <2>2 DEF Middle, Back
<1>2. ASSUME NEW step \in Deploy!Steps, Deploy!RunsLate(step)
        PROVE source' = source \/ "activate" \in late \/ "restore" \in late
  <2>1. step \in late /\ HostStep(step) BY <1>2 DEF Deploy!RunsLate, HostStep
  <2> QED BY <1>0, <2>1, HostEffects
<1>3. CASE Deploy!Recheck
  <2>1. HostStep("cleanup") BY <1>3 DEF Deploy!Recheck, HostStep, Deploy!Script
  <2> QED BY <1>0, <2>1, HostEffects
<1>4. CASE Deploy!Upload \/ Deploy!UploadDamaged
  BY <1>4 DEF Deploy!Upload, Deploy!UploadDamaged, Deploy!Host
<1>5. CASE Deploy!Inspect \/ Deploy!Health \/ Deploy!Version \/ Deploy!NoAnswer \/ Deploy!Killed
        \/ Deploy!GateChanges \/ Deploy!TreeChanges \/ Deploy!ImageChanges \/ Deploy!AppFails
           \/ \E o \in Deploy!Options : Deploy!StartTool(o)
  BY <1>5
  DEF Deploy!Inspect, Deploy!Health, Deploy!Version, Deploy!NoAnswer, Deploy!Killed,
      Deploy!GateChanges, Deploy!TreeChanges, Deploy!ImageChanges, Deploy!AppFails,
      Deploy!StartTool, Deploy!host
<1> QED BY <1>1, <1>2, <1>3, <1>4, <1>5 DEF Deploy!Next

\* It reports a success from its last step alone, which changes nothing that runs.
LEMMA StepReports ==
  ASSUME DeployInv, Deploy!Next
  PROVE  /\ result' = "succeeded" /\ result # "succeeded" => at = "cleanup" /\ image' = image
         /\ result' = "rolled_back" /\ result # "rolled_back" => at = "cleanup_back"
                 /\ image' = image
<1>0. Deploy!TypeOK /\ BackupInv /\ result \in Deploy!Results
  BY DEF DeployInv, Deploy!TypeOK
<1> DEFINE Last == /\ result' = "succeeded" /\ result # "succeeded" => at = "cleanup"
                   /\ result' = "rolled_back" /\ result # "rolled_back" => at = "cleanup_back"
<1>1. CASE Deploy!Runs \/ Deploy!Stops \/ Deploy!Lost
  <2>1. at \in Deploy!Scripted /\ at \in Deploy!Steps /\ HostStep(at)
          /\ (Deploy!Goes \/ Deploy!Fails)
    BY <1>1, RunsOrFails, ScriptedSteps DEF Deploy!Stops, Deploy!Lost, HostStep
  <2>2. image' = image \/ at \in {"update", "rebuild"}
    BY <1>0, <2>1, HostEffects
  <2>3. Last BY <1>0, <2>1, GoesTo, FailsTo
  <2> QED BY <2>2, <2>3
<1>2. CASE Deploy!Recheck
  <2>1. at = "recheck" /\ (Deploy!Goes \/ Deploy!Ends("failed")) BY <1>2
    DEF Deploy!Recheck
  <2>2. result' \in {result, "failed"} BY <2>1 DEF Deploy!Goes, Deploy!Ends
  <2> QED BY <2>2
<1>3. CASE Deploy!Upload \/ Deploy!UploadDamaged
  <2>1. at = "upload" /\ Deploy!Goes BY <1>3 DEF Deploy!Upload, Deploy!UploadDamaged
  <2>2. result' = result BY <2>1 DEF Deploy!Goes
  <2> QED BY <2>2
<1>4. CASE Deploy!Health \/ Deploy!Version \/ Deploy!NoAnswer
  <2>1. at \notin {"cleanup", "cleanup_back"} /\ (Deploy!Goes \/ Deploy!Fails)
    BY <1>4 DEF Deploy!Health, Deploy!Version, Deploy!NoAnswer
  <2>2. result' \in {result, "failed", "rollback_failed"} BY <2>1
    DEF Deploy!Goes, Deploy!Fails, Deploy!Ends
  <2> QED BY <2>2
<1>5. CASE Deploy!Inspect \/ Deploy!Killed \/ \E o \in Deploy!Options : Deploy!StartTool(o)
  BY <1>5 DEF Deploy!Inspect, Deploy!Killed, Deploy!StartTool, Deploy!Ends
<1>6. CASE Deploy!GateChanges \/ Deploy!TreeChanges \/ Deploy!ImageChanges \/ Deploy!AppFails
        \/ \E step \in Deploy!Steps : Deploy!RunsLate(step)
  BY <1>6
  DEF Deploy!GateChanges, Deploy!TreeChanges, Deploy!ImageChanges, Deploy!AppFails,
      Deploy!RunsLate
<1> QED BY <1>1, <1>2, <1>3, <1>4, <1>5, <1>6 DEF Deploy!Next

LEMMA DeploymentStep ==
  ASSUME DeployInv, Deploy!Next
  PROVE  NothingUnaskedStep /\ ReportsAreTrueStep
<1>1. NothingUnaskedStep
  <2> SUFFICES ASSUME source' # source
               PROVE  Asked
    BY AskedMeans, DeploymentAssumption DEF NothingUnaskedStep
  <2> QED BY HostChanges DEF DeployInv, AskedInv
<1>2. ReportsAreTrueStep
  BY StepReports DEF DeployInv, BuiltInv, ReportInv, ReportsAreTrueStep
<1> QED BY <1>1, <1>2

-----------------------------------------------------------------------------
(* The theorems about the tools, and about all that goes on for days. *)

LEMMA SoakInvariant == Soak!Spec => []SoakInv
<1>1. Soak!Init => SoakInv
  BY SoakBegins
<1>2. SoakInv /\ [Soak!Next]_Soak!vars => SoakInv'
  BY SoakSteps, SoakStutters
<1> QED BY <1>1, <1>2, PTL DEF Soak!Spec

(* A soak that the gate lets through was watched from its first sample to  *)
(* its end, whoever was killed and resumed it: haos-soak-core.ts,          *)
(* haos-soak.ts and haos-soak-deployment-gate-core.ts.                     *)
THEOREM SoaksAreEarned == Soak!Spec => []Soak!EligibleIsEarned
<1>1. SoakInv => Soak!EligibleIsEarned
  BY SoakEarned
<1> QED BY <1>1, SoakInvariant, PTL

(* The summary of a soak that passed is never replaced by another one.     *)
THEOREM SealsAreKept == Soak!Spec => Soak!SealedForGood
<1>1. ASSUME SoakInv, SoakInv', [Soak!Next]_Soak!vars
      PROVE  [summary # None => summary' = summary]_Soak!vars
  BY <1>1, SealKept
<1> QED BY <1>1, SoakInvariant, PTL DEF Soak!Spec, Soak!SealedForGood

LEMMA DeployInvariant == Deploy!Spec => []DeployInv
<1>1. Deploy!Init => DeployInv
  BY DeployBegins
<1>2. DeployInv /\ [Deploy!Next]_Deploy!vars => DeployInv'
  BY DeploySteps, DeployStutters
<1> QED BY <1>1, <1>2, PTL DEF Deploy!Spec

(* The way back is there whenever the source is not the old one, whatever  *)
(* failed, was killed or ran late: buildHaosPrepareRemoteScript,           *)
(* executeDeployment.                                                      *)
THEOREM RollbackIsAtHand == Deploy!Spec => [](Deploy!TypeOK /\ Deploy!RollbackAtHand)
<1>1. DeployInv => Deploy!TypeOK /\ Deploy!RollbackAtHand
  BY DEF DeployInv, BackupInv
<1> QED BY <1>1, DeployInvariant, PTL

(* haos-candidate-deploy.ts replaces the source only when the look after   *)
(* staging permits it, and reports what runs.                              *)
THEOREM DeploymentsAreSound == Deploy!Spec => Deploy!DeploymentIsSound
<1>1. ASSUME DeployInv, [Deploy!Next]_Deploy!vars
      PROVE  [NothingUnaskedStep]_Deploy!vars
  BY <1>1, DeploymentStep
<1>2. ASSUME DeployInv, [Deploy!Next]_Deploy!vars
      PROVE  [ReportsAreTrueStep]_Deploy!vars
  BY <1>2, DeploymentStep
<1>3. Deploy!Spec => Deploy!NothingUnasked
  BY <1>1, DeployInvariant, PTL
  DEF Deploy!Spec, Deploy!NothingUnasked, NothingUnaskedStep
<1>4. Deploy!Spec => Deploy!ReportsAreTrue
  BY <1>2, DeployInvariant, PTL
  DEF Deploy!Spec, Deploy!ReportsAreTrue, ReportsAreTrueStep
<1> QED BY <1>3, <1>4 DEF Deploy!DeploymentIsSound

\* What is followed moves as it does alone, and so do those that rest.
LEMMA Together ==
  /\ WorldSpec => Spec /\ Soak!Spec /\ Deploy!Spec
  /\ BrowserSpec => Recovery!Spec
<1>1. WorldInit => Init /\ Soak!Init /\ Deploy!Init /\ Recovery!Init
  BY DEF WorldInit
<1>2. [WorldNext]_worldVars => [Next]_vars
  BY DEF WorldNext, worldVars
<1>3. [WorldNext]_worldVars => [Soak!Next]_Soak!vars
  BY DEF WorldNext, worldVars, soakVars, Soak!vars, Soak!world
<1>4. [WorldNext]_worldVars => [Deploy!Next]_Deploy!vars
  BY DEF WorldNext, worldVars, deployVars, Deploy!vars, Deploy!host
<1>5. [WorldNext]_worldVars => [Recovery!Next]_Recovery!vars
  BY DEF WorldNext, worldVars, browserVars, Recovery!vars, Recovery!chromium, Recovery!health,
         Recovery!loads, Recovery!data, Recovery!world
<1> QED BY <1>1, <1>2, <1>3, <1>4, <1>5, PTL
        DEF WorldSpec, BrowserInit, BrowserSpec, Spec, Soak!Spec, Deploy!Spec, Recovery!Spec

(* No tab is lost, no soak passes unwatched and no add-on is replaced      *)
(* without its way back.                                                   *)
THEOREM NothingGoesAstray == WorldSpec => []NothingAstray
<1>1. NoStrayProbe /\ Soak!EligibleIsEarned /\ Deploy!TypeOK /\ Deploy!RollbackAtHand
      => NothingAstray
  BY DEF NothingAstray
<1> QED BY <1>1, Together, NoTabIsLost, SoaksAreEarned, RollbackIsAtHand, PTL

(* Neither tool of the operator goes back on what it has said.             *)
THEOREM ToolsKeepTheirWord == WorldSpec => ToolsAreSound
BY Together, SealsAreKept, DeploymentsAreSound DEF ToolsAreSound
=============================================================================
