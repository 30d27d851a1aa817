----------------------------- MODULE KeeperPages -----------------------------
(***************************************************************************)
(* KeeperPageManager of browser/keeper-page.ts: which tab of the browser   *)
(* is the keeper, whose document holds the session and the push socket,    *)
(* and how a rejected session is recovered in a second tab, a probe.       *)
(*                                                                         *)
(* Four activities share the tabs: ensure (ensureKeeper, one at a time,    *)
(* with the recovery inside it), refresh (refreshAuthenticatedSessionIfDue)*)
(* and push (recoverKeeper), each with its program counter, and beat, the  *)
(* maintenance of runtime.ts that calls ensure, touch and refresh in turn. *)
(* Between two steps of one of them the others, the sites and the user     *)
(* move.  A URL is one of the classes the code tells apart.                *)
(***************************************************************************)
EXTENDS FiniteSets, Naturals

CONSTANTS Page,        \* bound: tabs open at a time
          MaxMishaps,  \* bound: steps of the environment that disturb
          None

Urls == {"closed", "blank", "settled", "unsettled", "login"}
Ages == {"no", "early", "due"}   \* a time that was never noted, lies back
                                 \* less or more than the delay asked for
Waiter == {"ensure", "push", "beat"}
Unfinished == [page : Page, orig : Page, was : Urls, age : Ages]

ASSUME KeeperAssumption == MaxMishaps \in Nat /\ None \notin Page \cup Unfinished

VARIABLES
  url,       \* what each tab shows
  form,      \* tabs that show a sign-in form or a challenge
  proof,     \* history: tabs whose protected read passed
  session,   \* does SmartThings accept the profile's session?
  keeper, commandPages, restored,
  pending,   \* #pendingLoginProbe: its page, the original and its URL
  stalled,   \* #stalledLoginPage
  authedOnce,                   \* #authenticatedOnce
  reauthSeen, loginSeen,        \* ages of the times a rejection was seen
  attempt,                      \* age of #lastRecoveryAttemptAtMs
  refreshDue,                   \* the times of the proactive refresh
  touch,     \* #touchInFlight: the page asked and the answer, if any
  waiting,   \* who waits for the touch in flight, or for an older one
  ensure, refresh, push, beat,  \* the activities
  busy,      \* a command, a reconciliation or a warm command page
  command,   \* the page of that command
  mishaps

tabs == <<url, form, proof>>
roles == <<keeper, commandPages, pending, stalled, authedOnce>>
memory == <<reauthSeen, loginSeen, attempt>>
flights == <<touch, waiting>>
others == <<session, restored, refreshDue, busy, command, mishaps>>
vars == <<tabs, roles, memory, flights, ensure, refresh, push, beat, others>>

Rest == [pc |-> "rest", via |-> "none", probe |-> None, orig |-> None, was |-> "closed",
         saw |-> "none"]

(* Each activity: where it is, what it needs a probe for, the probe, the   *)
(* keeper it began with, the URL that keeper had and (history) what the    *)
(* last look at it showed.                                                 *)
Activities == [pc : {"rest", "resume", "judge", "offer", "swap", "close", "pick", "create",
                     "recover", "reload", "touch", "inspect", "final", "goto", "ensure",
                     "ensured", "opened", "going", "landed", "read", "native", "look",
                     "replace"},
               via : {"none", "login", "sso", "resume", "refresh", "lost"},
               probe : Page \cup {None}, orig : Page \cup {None}, was : Urls,
               saw : {"none", "nothing", "missed", "form"}]

TypeOK ==
  /\ url \in [Page -> Urls] /\ form \subseteq Page /\ proof \subseteq Page
  /\ session \in BOOLEAN /\ restored \in BOOLEAN /\ refreshDue \in BOOLEAN
  /\ {keeper, stalled, command} \subseteq Page \cup {None}
  /\ commandPages \subseteq Page /\ authedOnce \in BOOLEAN
  /\ pending \in Unfinished \cup {None}
  /\ {reauthSeen, loginSeen, attempt} \subseteq Ages
  /\ \/ touch = None
     \/ touch \in [page : Page, was : Urls, answer : {"none", "ok", "reauth", "failed"}]
  /\ waiting \in [Waiter -> {"no", "now", "old"}]
  /\ {ensure, refresh, push} \subseteq Activities
  /\ beat \in {"rest", "ensure", "ensured", "touch", "refresh"}
  /\ busy \in BOOLEAN /\ mishaps \in 0..MaxMishaps

Open == {p \in Page : url[p] # "closed"}
(* Slots for new tabs: closed and held by nobody.                          *)
Free ==
  {p \in Page : /\ url[p] = "closed" /\ p \notin {keeper, stalled, command}
                /\ \A a \in {ensure, refresh, push} : p \notin {a.probe, a.orig}
                /\ pending # None => p \notin {pending.page, pending.orig}
                /\ touch # None => p # touch.page}
CurrentKeeper == IF keeper # None /\ url[keeper] # "closed" THEN keeper ELSE None
CanNavigate == ~busy
RecoveryPending == reauthSeen # "no" \/ loginSeen # "no"
Candidates == {p \in Open \ commandPages : url[p] \in {"settled", "unsettled"}}
Noted(age) == IF age = "no" THEN "early" ELSE age

(* originalIsCurrent(): the keeper an activity started with is still the   *)
(* keeper, and on the URL it had.                                          *)
Unchanged(a) == a.orig # None /\ CurrentKeeper = a.orig /\ url[a.orig] = a.was

Init ==
  /\ url \in [Page -> {"closed", "blank", "settled", "login"}]
  /\ form \in {{}, {p \in Page : url[p] = "login"}} /\ proof = {}
  /\ session \in BOOLEAN
  /\ keeper = None /\ commandPages = {} /\ restored = FALSE
  /\ pending = None /\ stalled = None /\ authedOnce = FALSE
  /\ reauthSeen = "no" /\ loginSeen = "no" /\ attempt = "no" /\ refreshDue = FALSE
  /\ touch = None /\ waiting = [w \in Waiter |-> "no"]
  /\ ensure = Rest /\ refresh = Rest /\ push = Rest /\ beat = "rest"
  /\ busy = FALSE /\ command = None /\ mishaps = 0

-----------------------------------------------------------------------------
(* What the browser does to a tab.                                         *)

(* A navigation of page.  The scripts of the old document are gone: a      *)
(* session touch that had no answer yet fails.                             *)
Shows(page, u, withForm) ==
  /\ url' = [url EXCEPT ![page] = u]
  /\ form' = IF withForm THEN form \cup {page} ELSE form \ {page}
  /\ UNCHANGED proof
  /\ touch' = IF touch # None /\ touch.page = page /\ touch.answer = "none"
              THEN [page |-> page, was |-> touch.was, answer |-> "failed"]
              ELSE touch

(* Where a navigation to /location ends.  A page without a session may     *)
(* still load as an empty shell.                                           *)
Lands(page) ==
  \/ Shows(page, "settled", FALSE)
  \/ Shows(page, "unsettled", FALSE)
  \/ ~session /\ \E withForm \in BOOLEAN : Shows(page, "login", withForm)

Closing(set) == [p \in Page |-> IF p \in set THEN "closed" ELSE url[p]]

Closes(set) ==
  /\ url' = Closing(set) /\ form' = form \ set
  /\ proof' = proof \ (set \ {ensure.probe, refresh.probe})
  /\ touch' = IF touch # None /\ touch.page \in set /\ touch.answer = "none"
              THEN [page |-> touch.page, was |-> touch.was, answer |-> "failed"]
              ELSE touch

(* invalidateTouch(): what is under way belongs to an older document.      *)
Older == [w \in Waiter |-> IF waiting[w] = "now" THEN "old" ELSE waiting[w]]

(* clearRecoveryState()                                                    *)
ClearRecovery == reauthSeen' = "no" /\ loginSeen' = "no" /\ attempt' = "no"

(* A second navigation of the same tab interrupts the first.               *)
Interrupted(a, page) ==
  IF a.pc \in {"reload", "goto"} /\ a.orig = page THEN [a EXCEPT !.via = "lost"] ELSE a

(* What a protected read of page answers now.                              *)
Reads(page) ==
  IF url[page] # "settled" THEN {"failed"}
  ELSE IF session THEN {"ok", "failed"} ELSE {"reauth", "failed"}

(* inspectAuthenticationPage of page.  A look that times out, fails or is  *)
(* overtaken by a navigation is unavailable, which all take for no form.   *)
Looks(page) == IF page \in form THEN {"form", "missed"} ELSE {"nothing"}

(* hasVisibleAuthenticationInput whatever was seen.                        *)
VisibleInputMissed(surface) == FALSE
HasVisibleInput(surface) == surface = "form"

-----------------------------------------------------------------------------
(* touchAuthenticatedSession: waiters of the same page share one flight.   *)
StartTouch(w, page) ==
  IF touch # None /\ touch.page = page /\ touch.was = url[page]
  THEN /\ waiting' = [waiting EXCEPT ![w] = "now"]
       /\ UNCHANGED touch
  ELSE /\ waiting' = [Older EXCEPT ![w] = "now"]
       /\ touch' = [page |-> page, was |-> url[page], answer |-> "none"]

TouchAnswers ==
  /\ touch # None /\ touch.answer = "none"
  /\ \E a \in Reads(touch.page) : touch' = [touch EXCEPT !.answer = a]
  /\ UNCHANGED <<tabs, roles, memory, waiting, ensure, refresh, push, beat, others>>

(* The answer is observed once, unless the page moved on meanwhile; every  *)
(* waiter of the flight goes on.                                           *)
Observes(outcome, page) ==
  CASE outcome = "ok"     -> ClearRecovery /\ authedOnce' = TRUE
    [] outcome = "reauth" -> /\ reauthSeen' = Noted(reauthSeen)
                             /\ UNCHANGED <<loginSeen, attempt, authedOnce>>
    [] OTHER              -> UNCHANGED <<memory, authedOnce>>

TouchEnds ==
  /\ touch # None /\ touch.answer # "none"
  /\ IF CurrentKeeper = touch.page /\ url[touch.page] = touch.was
     THEN Observes(touch.answer, touch.page)
     ELSE UNCHANGED <<memory, authedOnce>>
  /\ touch' = None
  /\ waiting' = [w \in Waiter |-> IF waiting[w] = "now" THEN "no" ELSE waiting[w]]
  /\ UNCHANGED <<tabs, keeper, commandPages, pending, stalled,
                 ensure, refresh, push, beat, others>>

(* A flight of an older generation answers "stale" and changes nothing.    *)
OldTouchEnds(w) ==
  /\ waiting[w] = "old" /\ waiting' = [waiting EXCEPT ![w] = "no"]
  /\ UNCHANGED <<tabs, roles, memory, touch, ensure, refresh, push, beat, others>>

(* The synchronous head of touchAuthenticatedSession, for waiter w.        *)
Touches(w) ==
  LET k == CurrentKeeper IN
  CASE k = None -> UNCHANGED <<memory, flights, authedOnce>>
    [] k # None /\ url[k] = "login" ->
         /\ reauthSeen' = Noted(reauthSeen) /\ loginSeen' = Noted(loginSeen)
         /\ UNCHANGED <<attempt, flights, authedOnce>>
    [] k # None /\ url[k] = "settled" ->
         StartTouch(w, k) /\ UNCHANGED <<memory, authedOnce>>
    [] OTHER -> UNCHANGED <<memory, flights, authedOnce>>

-----------------------------------------------------------------------------
(* ensureKeeperOnce.                                                       *)
At(pc) == ensure.pc = pc /\ restored
Go(pc) == ensure' = [ensure EXCEPT !.pc = pc]

(* The end of ensure: whoever waits for it goes on.                        *)
EnsureDone ==
  /\ ensure' = Rest
  /\ beat' = IF beat = "ensure" THEN "ensured" ELSE beat
  /\ push' = IF push.pc = "ensure" THEN [push EXCEPT !.pc = "ensured"] ELSE push

StartsEnsure == IF ensure.pc = "rest" THEN Go("resume") ELSE UNCHANGED ensure

(* reconcileRestoredPages, once per browser: one tab of the last session   *)
(* becomes the keeper, the others are closed.                              *)
Preferred ==
  LET of(u) == {p \in Open : url[p] = u}
      ranked == <<of("settled"), of("unsettled"), of("login"), of("blank")>>
      best == {i \in 1..4 : ranked[i] # {} /\ \A j \in 1..(i - 1) : ranked[j] = {}}
  IN UNION {ranked[i] : i \in best}

RestorePages ==
  /\ ~restored /\ restored' = TRUE
  /\ \/ Preferred = {} /\ UNCHANGED <<keeper, tabs, loginSeen, touch>>
     \/ \E k \in Preferred :
          /\ keeper' = k
          /\ loginSeen' = IF url[k] = "login" THEN Noted(loginSeen) ELSE loginSeen
          /\ Closes(Open \ {k})
  /\ UNCHANGED <<commandPages, pending, stalled, authedOnce, reauthSeen, attempt,
                 waiting, ensure, refresh, push, beat, session, refreshDue, busy,
                 command, mishaps>>

(* resumePendingLoginProbe: the tab that was left on a sign-in page.       *)
Discards(page) ==
  /\ pending' = None /\ commandPages' = commandPages \ {page} /\ Closes({page})

OriginalStands == CurrentKeeper = pending.orig /\ url[pending.orig] = pending.was

(* The look at the original, which only a sign-in page needs.              *)
LooksAtOriginal == IF pending.was = "login" THEN Looks(pending.orig) ELSE {"nothing"}

Resumes == ensure' = [Rest EXCEPT !.pc = "pick"]

DiscardPending ==
  /\ Discards(pending.page) /\ Resumes
  /\ UNCHANGED <<keeper, stalled, authedOnce, memory, waiting>>

ResumePending ==
  /\ At("resume")
  /\ \/ /\ pending = None \/ ~CanNavigate
        /\ Resumes /\ UNCHANGED <<tabs, roles, memory, flights>>
     \/ /\ pending # None /\ CanNavigate
        /\ \/ url[pending.page] \in {"closed", "blank", "unsettled"} \/ ~OriginalStands
           \/ \E s \in LooksAtOriginal : HasVisibleInput(s)
        /\ DiscardPending
     \/ /\ pending # None /\ CanNavigate /\ OriginalStands
        /\ \E s \in LooksAtOriginal : ~HasVisibleInput(s)
        /\ \/ /\ url[pending.page] = "settled"
              /\ ensure' = [pc |-> "read", via |-> "resume", probe |-> pending.page,
                            orig |-> pending.orig, was |-> pending.was, saw |-> "none"]
           \/ url[pending.page] = "login" /\ ensure' = [Rest EXCEPT !.pc = "judge"]
        /\ UNCHANGED <<tabs, roles, memory, flights>>
  /\ UNCHANGED <<refresh, push, beat, others>>

(* Its sign-in page has been looked at: without a form it has some time.   *)
JudgePending ==
  /\ At("judge")
  /\ IF ~OriginalStands \/ url[pending.page] = "closed" \/ ~CanNavigate
     THEN DiscardPending
     ELSE /\ \E s \in Looks(pending.page) :
               IF ~HasVisibleInput(s) /\ pending.age # "due"
               THEN Resumes ELSE ensure' = [Rest EXCEPT !.pc = "offer"]
          /\ UNCHANGED <<tabs, roles, memory, flights>>
  /\ UNCHANGED <<refresh, push, beat, others>>

OfferPending ==
  /\ At("offer")
  /\ \E s \in LooksAtOriginal :
       IF HasVisibleInput(s) THEN DiscardPending
       ELSE /\ ensure' = [Rest EXCEPT !.pc = "swap", !.saw = s]
            /\ UNCHANGED <<tabs, roles, memory, flights>>
  /\ UNCHANGED <<refresh, push, beat, others>>

(* It becomes the keeper, for the user, and is brought to the front; the   *)
(* original is closed when that has been done.                             *)
SwapPending ==
  /\ At("swap")
  /\ IF ~OriginalStands \/ ~CanNavigate THEN DiscardPending
     ELSE /\ keeper' = pending.page /\ commandPages' = commandPages \ {pending.page}
          /\ pending' = None /\ stalled' = pending.page
          /\ loginSeen' = Noted(loginSeen)
          /\ touch' = None /\ waiting' = Older
          /\ ensure' = [ensure EXCEPT !.pc = "close", !.orig = pending.orig]
          /\ UNCHANGED <<tabs, authedOnce, reauthSeen, attempt>>
  /\ UNCHANGED <<refresh, push, beat, others>>

CloseReplaced ==
  /\ At("close") /\ Closes({ensure.orig}) /\ Resumes
  /\ UNCHANGED <<roles, memory, waiting, refresh, push, beat, others>>

(* Which tab is the keeper: a sign-in that was completed in another tab,   *)
(* the present keeper, a location tab, a sign-in tab, a blank one.         *)
Completed == IF CurrentKeeper # None /\ url[CurrentKeeper] = "login"
             THEN {p \in Candidates : url[p] = "settled"} ELSE {}
Choices ==
  LET logins == {p \in Open : url[p] = "login"} IN
  IF Completed # {} THEN Completed
  ELSE IF CurrentKeeper # None THEN {CurrentKeeper}
  ELSE IF Candidates # {} THEN Candidates
  ELSE IF logins # {} THEN logins ELSE {p \in Open : url[p] = "blank"}

PickKeeper ==
  /\ At("pick")
  /\ \/ Choices = {} /\ Go("create") /\ UNCHANGED <<tabs, keeper, memory, touch>>
     \/ \E k \in Choices :
          LET left == IF k \in Completed THEN {CurrentKeeper} ELSE {} IN
          /\ keeper' = k
          /\ Closes((Candidates \ {k}) \cup left)
          /\ IF k \in Completed THEN ClearRecovery ELSE UNCHANGED memory
          /\ ensure' = [Rest EXCEPT !.pc = "recover", !.orig = k]
  /\ UNCHANGED <<commandPages, pending, stalled, authedOnce, waiting, refresh, push,
                 beat, others>>

(* createKeeperPage; a navigation that fails closes the new tab and ends   *)
(* ensure with an error.                                                   *)
CreateKeeper ==
  /\ At("create")
  /\ \/ EnsureDone /\ UNCHANGED <<tabs, keeper, touch>>
     \/ \E p \in Free :
          /\ Lands(p) /\ keeper' = p
          /\ ensure' = [Rest EXCEPT !.pc = "recover", !.orig = p]
          /\ UNCHANGED <<push, beat>>
  /\ UNCHANGED <<commandPages, pending, stalled, authedOnce, memory, waiting, refresh, others>>

(* recoverRememberedSessionIfDue: a rejection that was seen some time ago  *)
(* is followed up, by a look at the sign-in page or a reload of the app.   *)
RecoveryBlockedByWorkOnly == ~CanNavigate
RecoveryBlocked == ~CanNavigate \/ pending # None

Recover ==
  /\ At("recover")
  /\ LET k == ensure.orig
         asleep == stalled = k /\ url[k] = "login"
         seen == IF url[k] = "login" THEN Noted(loginSeen) ELSE loginSeen
         due == (IF reauthSeen # "no" THEN reauthSeen ELSE seen) = "due" /\ attempt # "early"
     IN \/ /\ RecoveryBlocked \/ asleep
           /\ Go("final") /\ UNCHANGED <<stalled, memory, flights, push>>
        \/ /\ ~RecoveryBlocked /\ ~asleep /\ stalled' = None /\ loginSeen' = seen
           /\ UNCHANGED reauthSeen
           /\ \/ ~due /\ Go("final") /\ UNCHANGED <<attempt, flights, push>>
              \/ /\ due /\ attempt' = "early" /\ url[k] = "login"
                 /\ ensure' = [pc |-> "inspect", via |-> "login", probe |-> None,
                               orig |-> k, was |-> "login", saw |-> "none"]
                 /\ UNCHANGED <<flights, push>>
              \/ /\ due /\ attempt' = "early" /\ url[k] # "login"
                 /\ touch' = None /\ waiting' = Older /\ Go("reload")
                 /\ push' = Interrupted(push, k)
  /\ UNCHANGED <<tabs, keeper, commandPages, pending, authedOnce, refresh, beat, others>>

(* A sign-in page that shows a form is the user's; any other is followed   *)
(* up in a probe.                                                          *)
OpensProbe(a, via, orig) ==
  \E p \in Free :
    /\ url' = [url EXCEPT ![p] = "blank"] /\ commandPages' = commandPages \cup {p}
    /\ a = [pc |-> IF via = "refresh" THEN "opened" ELSE "going", via |-> via,
            probe |-> p, orig |-> orig, was |-> url[orig], saw |-> "none"]
    /\ UNCHANGED <<form, proof>>

Inspect ==
  /\ At("inspect")
  /\ \E s \in Looks(ensure.orig) :
       IF Unchanged(ensure) /\ CanNavigate /\ ~HasVisibleInput(s) /\ Free # {}
       THEN OpensProbe(ensure', "login", ensure.orig)
       ELSE Go("final") /\ UNCHANGED <<tabs, commandPages>>
  /\ UNCHANGED <<keeper, pending, stalled, authedOnce, memory, flights, refresh, push,
                 beat, others>>

(* The reload of the application in the keeper's own tab.                  *)
Reload ==
  /\ At("reload")
  /\ \/ Go("final") /\ UNCHANGED <<tabs, touch, memory>>
     \/ /\ url[ensure.orig] # "closed" /\ ensure.via # "lost" /\ Lands(ensure.orig)
        /\ CASE url'[ensure.orig] = "settled" -> Go("touch") /\ UNCHANGED memory
             [] url'[ensure.orig] = "login" ->
                  /\ reauthSeen' = "no" /\ loginSeen' = "early"
                  /\ Go("final") /\ UNCHANGED attempt
             [] OTHER -> Go("final") /\ UNCHANGED memory
  /\ UNCHANGED <<roles, waiting, refresh, push, beat, others>>

(* A loaded shell proves nothing: the protected read decides, and when it  *)
(* does not succeed in a profile that was signed in before, a probe walks  *)
(* through the sign-on of the account.                                     *)
TouchReloaded ==
  /\ At("touch") /\ ensure.via = "none"
  /\ Touches("ensure") /\ ensure' = [ensure EXCEPT !.via = "sso"]
  /\ UNCHANGED <<tabs, keeper, commandPages, pending, stalled, refresh, push, beat, others>>

SignOn ==
  /\ At("touch") /\ ensure.via = "sso" /\ waiting["ensure"] = "no"
  /\ IF authedOnce /\ RecoveryPending /\ Free # {}
     THEN OpensProbe(ensure', "sso", ensure.orig)
     ELSE Go("final") /\ UNCHANGED <<tabs, commandPages>>
  /\ UNCHANGED <<keeper, pending, stalled, authedOnce, memory, flights, refresh, push,
                 beat, others>>

(* The last part: leave a location or a sign-in page, else go there.       *)
Final ==
  /\ At("final")
  /\ LET k == CurrentKeeper IN
     CASE k = None ->
            EnsureDone /\ UNCHANGED <<loginSeen, flights>>
       [] k # None /\ url[k] = "settled" ->
            EnsureDone /\ loginSeen' = "no" /\ UNCHANGED flights
       [] k # None /\ url[k] = "login" ->
            EnsureDone /\ loginSeen' = Noted(loginSeen) /\ UNCHANGED flights
       [] OTHER ->
            /\ ensure' = [Rest EXCEPT !.pc = "goto", !.orig = k]
            /\ touch' = None /\ waiting' = Older
            /\ push' = Interrupted(push, k) /\ UNCHANGED <<loginSeen, beat>>
  /\ UNCHANGED <<tabs, roles, reauthSeen, attempt, refresh, others>>

(* What a navigation of the keeper leaves behind.                          *)
Arrived(page, cleared) ==
  CASE url'[page] = "settled" -> IF cleared THEN ClearRecovery ELSE UNCHANGED memory
    [] url'[page] = "login"   -> /\ loginSeen' = Noted(loginSeen)
                                 /\ UNCHANGED <<reauthSeen, attempt>>
    [] OTHER                  -> UNCHANGED memory

FinalGoto ==
  /\ At("goto") /\ EnsureDone
  /\ \/ UNCHANGED <<tabs, touch, memory>>
     \/ /\ url[ensure.orig] # "closed" /\ ensure.via # "lost" /\ Lands(ensure.orig)
        /\ Arrived(ensure.orig, TRUE)
  /\ UNCHANGED <<roles, waiting, refresh, others>>

-----------------------------------------------------------------------------
(* What sso, login, resume and refresh do with their probe.                *)
Prober == {"ensure", "refresh"}
Activity(w) == IF w = "ensure" THEN ensure ELSE refresh
Becomes(w, a) ==
  /\ IF w = "ensure" THEN ensure' = a /\ UNCHANGED refresh
                     ELSE refresh' = a /\ UNCHANGED ensure
  /\ beat' = IF a.pc = "rest" /\ w = "refresh" THEN "rest" ELSE beat

(* How the activity goes on without its probe.                             *)
Over(w) ==
  [Rest EXCEPT !.pc = CASE Activity(w).via = "resume" -> "pick"
                        [] Activity(w).via = "refresh" -> "rest"
                        [] OTHER -> "final"]
StillMineWhileBusy(w) == Unchanged(Activity(w))
StillMine(w) == CanNavigate /\ Unchanged(Activity(w))

GiveUp(w) ==
  LET p == Activity(w).probe IN
  /\ url' = Closing({p}) /\ form' = form \ {p} /\ proof' = proof \ {p} /\ UNCHANGED touch
  /\ commandPages' = commandPages \ {p}
  /\ pending' = IF Activity(w).via = "resume" THEN None ELSE pending
  /\ Becomes(w, Over(w))
  /\ UNCHANGED <<keeper, stalled, authedOnce, memory, waiting, refreshDue>>

Step(w, pc) ==
  /\ Becomes(w, [Activity(w) EXCEPT !.pc = pc])
  /\ UNCHANGED <<roles, memory, waiting, refreshDue>>

(* The probe, verified, becomes the keeper; the old one is closed.         *)
Promote(w) ==
  LET a == Activity(w) IN
  /\ keeper' = a.probe /\ commandPages' = commandPages \ {a.probe}
  /\ pending' = IF a.via = "resume" THEN None ELSE pending
  /\ authedOnce' = TRUE /\ ClearRecovery
  /\ url' = Closing({a.orig}) /\ form' = form \ {a.orig} /\ proof' = proof \ {a.probe}
  /\ touch' = None /\ waiting' = Older
  /\ refreshDue' = IF a.via = "refresh" THEN FALSE ELSE refreshDue
  /\ Becomes(w, Over(w)) /\ UNCHANGED stalled

(* An unfinished sign-in keeps its tab: a second one would break the first.*)
RetainPending(w) ==
  LET a == Activity(w) IN
  /\ pending' = [page |-> a.probe, orig |-> a.orig, was |-> url[a.orig], age |-> "early"]
  /\ Becomes(w, Over(w))
  /\ UNCHANGED <<tabs, touch, keeper, commandPages, stalled, authedOnce, memory,
                 waiting, refreshDue>>

(* A sign-in form that a dead shell led to becomes the keeper, for the user.*)
Surface(w) ==
  LET a == Activity(w) IN
  /\ keeper' = a.probe /\ commandPages' = commandPages \ {a.probe}
  /\ reauthSeen' = "no" /\ loginSeen' = "early" /\ UNCHANGED attempt
  /\ url' = Closing({a.orig}) /\ form' = form \ {a.orig} /\ UNCHANGED proof
  /\ touch' = None /\ waiting' = Older /\ Becomes(w, Over(w))
  /\ UNCHANGED <<pending, stalled, authedOnce, refreshDue>>

(* Only the proactive refresh looks once more before its probe navigates.  *)
ProbeOpened(w) ==
  /\ Activity(w).pc = "opened"
  /\ IF StillMine(w) THEN Step(w, "going") /\ UNCHANGED <<tabs, touch>> ELSE GiveUp(w)

ProbeLands(w) ==
  /\ Activity(w).pc = "going"
  /\ \/ GiveUp(w)
     \/ url[Activity(w).probe] # "closed" /\ Lands(Activity(w).probe) /\ Step(w, "landed")

ProbeLanded(w) ==
  LET a == Activity(w) p == a.probe IN
  /\ a.pc = "landed"
  /\ CASE a.via = "sso" /\ ~StillMine(w) -> GiveUp(w)
       [] url[p] = "settled" /\ (a.via = "sso" => StillMine(w)) ->
            Step(w, "read") /\ UNCHANGED <<tabs, touch>>
       [] url[p] = "login" /\ StillMine(w) /\ a.via \in {"sso", "login"} ->
            \E s \in Looks(p) :
              IF a.via = "login" \/ ~HasVisibleInput(s) THEN RetainPending(w)
              ELSE IF a.was = "login" THEN GiveUp(w) ELSE Surface(w)
       [] OTHER -> GiveUp(w)

(* The protected read of the probe's own document.                         *)
ProbeRead(w) ==
  LET a == Activity(w) IN
  /\ a.pc = "read"
  /\ \E outcome \in Reads(a.probe) :
       IF outcome = "ok" /\ (a.via = "resume" \/ StillMine(w))
       THEN /\ Step(w, "native") /\ proof' = proof \cup {a.probe}
            /\ UNCHANGED <<url, form, touch>>
       ELSE GiveUp(w)

(* The proof of the native application, and what must still hold when it   *)
(* has come.                                                               *)
ProbeNative(w) ==
  LET a == Activity(w) IN
  /\ a.pc = "native"
  /\ \/ GiveUp(w)
     \/ /\ url[a.probe] = "settled" /\ session
        /\ IF (a.via = "login" /\ StillMine(w)) \/ (a.via = "resume" /\ a.was = "login")
           THEN Step(w, "look") /\ UNCHANGED <<tabs, touch>>
           ELSE IF StillMine(w) THEN Promote(w) ELSE GiveUp(w)

(* The last look at the sign-in page that would be closed, and what must   *)
(* still hold when it has been taken.                                      *)
ProbeLook(w) ==
  LET a == Activity(w) IN
  /\ a.pc = "look"
  /\ \E s \in Looks(a.orig) :
       IF HasVisibleInput(s) THEN GiveUp(w)
       ELSE /\ Becomes(w, [a EXCEPT !.pc = "replace", !.saw = s])
            /\ UNCHANGED <<tabs, touch, roles, memory, waiting, refreshDue>>

ProbeReplaces(w) ==
  LET a == Activity(w) IN
  /\ a.pc = "replace"
  /\ IF StillMine(w) /\ (a.via = "resume" => url[a.probe] = "settled")
     THEN Promote(w) ELSE GiveUp(w)

Probes(w) ==
  /\ \/ ProbeOpened(w) \/ ProbeLands(w) \/ ProbeLanded(w) \/ ProbeRead(w)
     \/ ProbeNative(w) \/ ProbeLook(w) \/ ProbeReplaces(w)
  /\ UNCHANGED <<push, session, restored, busy, command, mishaps>>

-----------------------------------------------------------------------------
(* recoverKeeper, asked for by the push socket.                            *)
InRecovery == ensure.pc \in {"inspect", "reload", "touch"} \/ ensure.via \in {"login", "sso"}
Deferred == refresh.pc # "rest" \/ InRecovery \/ ~CanNavigate \/
            (CurrentKeeper # None /\ url[CurrentKeeper] = "login")

RecoverKeeper ==
  /\ push.pc = "rest" /\ restored /\ ~Deferred /\ ~RecoveryPending
  /\ push' = [push EXCEPT !.pc = "ensure"] /\ StartsEnsure
  /\ UNCHANGED <<tabs, roles, memory, flights, refresh, beat, others>>

PushGoes ==
  /\ push.pc = "ensured"
  /\ LET k == CurrentKeeper IN
     IF ~CanNavigate \/ k = None
     THEN push' = Rest /\ UNCHANGED <<flights, ensure>>
     ELSE IF url[k] = "login" THEN push' = Rest /\ UNCHANGED <<flights, ensure>>
     ELSE /\ push' = [Rest EXCEPT !.pc = "goto", !.orig = k]
          /\ ensure' = Interrupted(ensure, k)
          /\ touch' = None /\ waiting' = Older
  /\ UNCHANGED <<tabs, roles, memory, refresh, beat, others>>

PushLands ==
  /\ push.pc = "goto"
  /\ \/ push' = Rest /\ UNCHANGED <<tabs, touch, memory>>
     \/ /\ url[push.orig] # "closed" /\ push.via # "lost" /\ Lands(push.orig)
        /\ Arrived(push.orig, ~RecoveryPending)
        /\ push' = IF url'[push.orig] = "settled" /\ RecoveryPending
                   THEN [push EXCEPT !.pc = "touch"] ELSE Rest
  /\ UNCHANGED <<roles, waiting, ensure, refresh, beat, others>>

PushTouches ==
  /\ push.pc = "touch"
  /\ \/ push.via = "none" /\ Touches("push") /\ push' = [push EXCEPT !.via = "sso"]
     \/ /\ push.via = "sso" /\ waiting["push"] = "no" /\ push' = Rest
        /\ UNCHANGED <<memory, flights, authedOnce>>
  /\ UNCHANGED <<tabs, keeper, commandPages, pending, stalled, ensure, refresh, beat, others>>

-----------------------------------------------------------------------------
(* The maintenance of runtime.ts, one round at a time.                     *)
BeatStarts ==
  /\ beat = "rest" /\ restored /\ beat' = "ensure" /\ StartsEnsure
  /\ UNCHANGED <<tabs, roles, memory, flights, refresh, push, others>>

BeatTouches ==
  /\ beat = "ensured" /\ beat' = "touch"
  /\ \/ Touches("beat") \/ UNCHANGED <<memory, flights, authedOnce>>
  /\ UNCHANGED <<tabs, keeper, commandPages, pending, stalled, ensure, refresh, push, others>>

RefreshIfDue ==
  /\ beat = "touch" /\ waiting["beat"] = "no"
  /\ LET k == CurrentKeeper
         due == /\ k # None /\ authedOnce /\ ~RecoveryPending /\ CanNavigate /\ refreshDue
                /\ k # None => url[k] = "settled"
     IN IF due /\ Free # {}
        THEN /\ OpensProbe(refresh', "refresh", k)
             /\ beat' = "refresh" /\ refreshDue' = FALSE
        ELSE beat' = "rest" /\ UNCHANGED <<tabs, commandPages, refresh, refreshDue>>
  /\ UNCHANGED <<keeper, pending, stalled, authedOnce, memory, flights, ensure, push,
                 session, restored, busy, command, mishaps>>

(* A request of the keeper's page was rejected with 401.                   *)
ReportAuthenticationFailure ==
  /\ restored /\ CurrentKeeper # None /\ ~session
  /\ url[CurrentKeeper] = "settled" /\ reauthSeen = "no"
  /\ reauthSeen' = "early" /\ touch' = None /\ waiting' = Older
  /\ UNCHANGED <<tabs, roles, loginSeen, attempt, ensure, refresh, push, beat, others>>

(* Delays run out.                                                         *)
TimePasses ==
  /\ \/ reauthSeen = "early" /\ reauthSeen' = "due" /\ UNCHANGED <<loginSeen, attempt, pending, refreshDue>>
     \/ loginSeen = "early" /\ loginSeen' = "due" /\ UNCHANGED <<reauthSeen, attempt, pending, refreshDue>>
     \/ attempt = "early" /\ attempt' = "due" /\ UNCHANGED <<reauthSeen, loginSeen, pending, refreshDue>>
     \/ /\ pending # None /\ pending.age = "early"
        /\ pending' = [page |-> pending.page, orig |-> pending.orig, was |-> pending.was, age |-> "due"]
        /\ UNCHANGED <<memory, refreshDue>>
     \/ ~refreshDue /\ refreshDue' = TRUE /\ UNCHANGED <<memory, pending>>
  /\ UNCHANGED <<tabs, keeper, commandPages, stalled, authedOnce, flights, ensure, refresh,
                 push, beat, session, restored, busy, command, mishaps>>

-----------------------------------------------------------------------------
(* The sites, the user and the commands.                                   *)
Mishap == restored /\ mishaps < MaxMishaps /\ mishaps' = mishaps + 1
activities == <<ensure, refresh, push, beat>>

SessionChanges ==
  /\ Mishap /\ session' = ~session
  /\ UNCHANGED <<tabs, roles, memory, flights, activities, restored, refreshDue, busy, command>>

(* An application or a sign-on moves its tab by itself; a navigation that  *)
(* is under way there is interrupted, so it fails first.                   *)
Navigated == {a.probe : a \in {b \in {ensure, refresh} : b.pc = "going"}} \cup
             {a.orig : a \in {b \in {ensure, push} : b.pc \in {"reload", "goto"}}}

PageMoves ==
  /\ Mishap
  /\ \E p \in Open \ Navigated :
       \/ url[p] = "settled" /\ Lands(p)
       \/ url[p] \in {"login", "unsettled"} /\ session /\ Shows(p, "settled", FALSE)
  /\ UNCHANGED <<roles, memory, waiting, activities, session, restored, refreshDue, busy, command>>

FormAppears ==
  /\ Mishap /\ \E p \in Open \ form : url[p] = "login" /\ form' = form \cup {p}
  /\ UNCHANGED <<url, proof, roles, memory, flights, activities, session, restored,
                 refreshDue, busy, command>>

(* The user signs in, in the tab with the form or in one that it opens.    *)
UserSignsIn ==
  /\ Mishap /\ session' = TRUE
  /\ \E p \in form : Shows(p, "settled", FALSE) \/ \E q \in Free : Shows(q, "settled", FALSE)
  /\ UNCHANGED <<roles, memory, waiting, activities, restored, refreshDue, busy, command>>

PageCloses ==
  /\ Mishap /\ \E p \in Open : Closes({p})
  /\ UNCHANGED <<roles, memory, waiting, activities, session, restored, refreshDue, busy, command>>

(* Work for which the keeper must stay where it is, with or without a      *)
(* command page of its own.                                                *)
CommandStarts ==
  /\ Mishap /\ ~busy /\ busy' = TRUE
  /\ \/ UNCHANGED <<tabs, touch, commandPages, command>>
     \/ \E p \in Free : /\ command' = p /\ commandPages' = commandPages \cup {p}
                        /\ Lands(p)
  /\ UNCHANGED <<keeper, pending, stalled, authedOnce, memory, waiting, activities,
                 session, restored, refreshDue>>

CommandEnds ==
  /\ busy /\ busy' = FALSE /\ command' = None
  /\ Closes({command} \ {None}) /\ commandPages' = commandPages \ {command}
  /\ UNCHANGED <<keeper, pending, stalled, authedOnce, memory, waiting, activities,
                 session, restored, refreshDue, mishaps>>

EnsureSteps ==
  \/ ResumePending \/ JudgePending \/ OfferPending \/ SwapPending \/ CloseReplaced
  \/ PickKeeper \/ CreateKeeper \/ Recover \/ Inspect \/ Reload
  \/ TouchReloaded \/ SignOn \/ Final \/ FinalGoto \/ Probes("ensure")
Touching == TouchAnswers \/ TouchEnds \/ \E w \in Waiter : OldTouchEnds(w)
Pushing == PushGoes \/ PushLands \/ PushTouches
Beating == BeatStarts \/ BeatTouches \/ RefreshIfDue
Disturbance == SessionChanges \/ PageMoves \/ FormAppears \/ UserSignsIn \/ PageCloses
               \/ CommandStarts

Next ==
  \/ RestorePages \/ EnsureSteps \/ Probes("refresh") \/ Touching
  \/ RecoverKeeper \/ Pushing \/ Beating
  \/ ReportAuthenticationFailure \/ TimePasses \/ Disturbance \/ CommandEnds

Spec == Init /\ [][Next]_vars

-----------------------------------------------------------------------------
(* No tab is lost: a tab that is kept out of the keeper's role belongs to a*)
(* recovery under way, to the unfinished sign-in or to a command; each of  *)
(* these uses ends with its tab closed or promoted.                        *)
NoStrayProbe ==
  /\ TypeOK
  /\ LET used == {ensure.probe, refresh.probe, command} \cup
                 (IF pending = None THEN {} ELSE {pending.page})
     IN commandPages \subseteq used

(* A probe replaces a living keeper only when its own protected read has   *)
(* passed and it still shows the application (the sign-in recovery does not*)
(* look again, see PromotedIsSettled), or as an unproved page, for the user*)
(* and with the recovery still pending; never while a command works, and   *)
(* never when the keeper is no longer the page, at the URL, that the       *)
(* recovery began with (promoteVerifiedKeeper, resumePendingLoginProbe).   *)
PromotionIsTimely ==
  [][\A p \in commandPages : CurrentKeeper \notin {None, p} /\ keeper' = p =>
       /\ ~busy
       /\ \/ p \in proof /\ (url'[p] = "settled" \/ ensure.via = "login")
          \/ loginSeen' # "no" /\ authedOnce' = authedOnce
       /\ \/ pending # None /\ pending.page = p /\ OriginalStands
          \/ \E w \in Prober : Activity(w).probe = p /\ Unchanged(Activity(w))]_vars

Kept(p) == url'[p] = "login" /\ p \in form'

(* Who may take the form of p away: the sign-in was completed in another   *)
(* tab, or proved by a probe of the sign-on.                               *)
SignedInElsewhere(p) ==
  /\ keeper = p
  /\ \/ keeper' \in Candidates /\ url[keeper'] = "settled"
     \/ ensure.via = "sso" /\ keeper' = ensure.probe /\ keeper' \in proof

(* The last look at p, before it was to be replaced, did not show its form:*)
(* the form came later, or the look missed it.                             *)
Overlooked(p) == ensure.orig = p /\ ensure.saw \in {"nothing", "missed"}

(* The manager takes away no form that it has been shown: one in a tab that*)
(* is not a probe's or a command's is closed or navigated by nobody but the*)
(* user, unless the sign-in succeeded elsewhere or the last look at the tab*)
(* did not show it (recoverLoginInSeparatePage, resumePendingLoginProbe).  *)
FormIsTheUsers ==
  [][restored /\ mishaps' = mishaps =>
       \A p \in form \ commandPages : Kept(p) \/ SignedInElsewhere(p) \/ Overlooked(p)]_vars

(* "without touching the user's sign-in/MFA form" (keeper-page.ts:882),     *)
(* whatever the looks have shown.                                          *)
FormIsLeftAlone ==
  [][restored /\ mishaps' = mishaps =>
       \A p \in form \ commandPages : Kept(p) \/ SignedInElsewhere(p)]_vars

(* docs/session-continuity-20260913.md:20: page identity is checked again  *)
(* after asynchronous work.  What replaces the keeper as a verified        *)
(* application still is one.                                               *)
PromotedIsSettled ==
  [][\A p \in commandPages : keeper # p /\ keeper' = p /\ p \in proof =>
       url'[p] = "settled"]_vars

(* CHANGELOG.md:355 and docs/SESSION_CONTINUITY_1.8.30.md:16: a location   *)
(* page that loaded is no proof; the pending recovery of a rejected session*)
(* ends only with a protected read that succeeded, so never while the site *)
(* accepts no session, unless it goes on as the recovery of a sign-in page.*)
PendingUntilProved ==
  [][reauthSeen # "no" /\ reauthSeen' = "no" =>
       \/ session \/ loginSeen' # "no"
       \/ touch # None /\ touch.answer = "ok"
       \/ keeper' # keeper /\ keeper' \in proof]_vars

(* Neither a command nor the user loses the tab in use, nor a verified     *)
(* keeper its place to one that is not.                                    *)
KeeperChangesHandsRightly == PromotionIsTimely /\ FormIsTheUsers
=============================================================================
