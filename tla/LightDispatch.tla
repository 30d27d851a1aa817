--------------------------- MODULE LightDispatch ----------------------------
(***************************************************************************)
(* How the commands of one lamp leave the bridge: #executeLight of         *)
(* command-service.ts with prepareLightDispatch (light-dispatch-plan.ts),  *)
(* the plan's predicates (light-plan.ts) and LightDispatchCache, then      *)
(* executeLightPlan, executeSequence or executeBatch, and the routes of    *)
(* AuthenticatedSmartThingsSession.request for a POST.                     *)
(*                                                                         *)
(* A plan is a sequence of actions, the first of which sets the power.     *)
(* Times are ages in ticks, capped once they no longer matter.  A revision *)
(* of the store is a flag of whoever recorded it: nothing was accepted     *)
(* since.  Each attribute has two values, so leaving one is taking the     *)
(* other.  The lane of CommandLanes lets one job run at a time.            *)
(***************************************************************************)
EXTENDS Naturals, Sequences, SequencesExt, FiniteSets

CONSTANTS
  Plans,        \* the light plans that may be asked for
  Start,        \* what the lamp may do at first, and the store knows
  Others,       \* the actions other commands of the device may ask for
  Batches,      \* the values lightCommandBatchEnabled may have
  ProofAge,     \* LIGHT_PROOF_MAX_AGE_MS in ticks
  PreviewTime,  \* the budget of a preview in ticks
  Backoff,      \* PREVIEW_BACKOFF_MS in ticks
  MaxJobs,      \* bound: commands executed
  Touched,      \* bound: the attributes anybody else changes
  MaxTurns,     \* bound: how often
  None

Domain == [power |-> {"on", "off"}, level |-> {"low", "high"},
           colour |-> {"warm", "cold"}]
Attr == DOMAIN Domain
Lamp == {l \in [Attr -> UNION {Domain[a] : a \in Attr}] :
           \A a \in Attr : l[a] \in Domain[a]}
Action == UNION {[attr: {a}, value: Domain[a]] : a \in Attr}

\* What a plan may leave out.
Prunable == {"power", "level"}

Window == ProofAge + PreviewTime
Age == 0..Window + 1
Stage == {"idle", "first", "second", "validate", "post", "wait"}
Route == {"none", "app", "page", "advanced", "sent"}

VARIABLES
  batch,   \* lightCommandBatchEnabled
  lamp,    \* what the lamp does
  store,   \* what DeviceStore holds for it
  entry,   \* its entry in LightDispatchCache
  job,     \* the command being executed
  reads,   \* status reads of waits, settled ones included, under way
  won,     \* the jobs that were confirmed
  left,    \* history: the newest job of which something left the browser, and
           \* which steps of its plan left; how many requests after a newer one
  lost,    \* history: how long ago the lamp left the value it has not, and
           \* Window + 1 once a report or a command of the bridge came after
  turns    \* history: changes nobody asked the bridge for

vars == <<batch, lamp, store, entry, job, reads, won, left, lost, turns>>

Proof == [values: Lamp, age: Age, same: BOOLEAN]
Idle == [n |-> 0, light |-> FALSE, plan |-> <<>>, stage |-> "idle",
         aborted |-> FALSE, skip |-> {}, todo |-> <<>>, route |-> "none",
         preview |-> FALSE, got |-> None, first |-> None, age |-> 0,
         same |-> FALSE, before |-> None, news |-> {}, proof |-> None,
         evidence |-> FALSE]

TypeOK ==
  /\ batch \in Batches /\ lamp \in Lamp /\ store \in Lamp
  /\ entry = None \/ entry \in [n: 1..MaxJobs, backoff: 0..Backoff,
                                proof: Proof \cup {None}]
  /\ job.n \in 0..MaxJobs /\ job.stage \in Stage /\ job.route \in Route
  /\ job.skip \subseteq Attr /\ job.news \subseteq Attr
  /\ {job.light, job.aborted, job.preview, job.same, job.evidence} \subseteq BOOLEAN
  /\ job.age \in Age /\ job.proof \in Proof \cup {None}
  /\ \A f \in {"got", "first", "before"} : job[f] \in Lamp \cup {None}
  /\ reads \subseteq [n: 1..MaxJobs, plan: Plans, age: Age, got: Lamp \cup {None},
                      late: SUBSET Attr]
  /\ won \subseteq 1..MaxJobs
  /\ left.n \in 0..MaxJobs /\ left.steps \in Seq(1..4) /\ left.after \in Nat
  /\ lost \in [Prunable -> Age]
  /\ turns \in 0..MaxTurns

Target(plan, a) == (CHOOSE i \in DOMAIN plan : plan[i].attr = a)
Attrs(plan) == {plan[i].attr : i \in DOMAIN plan}
Value(plan, a) == plan[Target(plan, a)].value

\* lightPlanMatches.
Matches(l, plan) == \A a \in Attrs(plan) : l[a] = Value(plan, a)

\* lightPlanHasFreshEvidence: something the plan asks for is news, the rest of
\* it held before, and brightness or power alone does not prove a colour.
HasFreshEvidence(j) ==
  /\ j.news \cap Attrs(j.plan) # {}
  /\ \A a \in Attrs(j.plan) : j.before[a] = Value(j.plan, a) \/ a \in j.news
  /\ "colour" \in Attrs(j.plan) => "colour" \in j.news

Older(age) == IF age > Window THEN age ELSE age + 1

\* What a recorded revision is compared with has moved on.
Stale(proof) == IF proof = None THEN None ELSE [proof EXCEPT !.same = FALSE]
StaleEntry == IF entry = None THEN None
              ELSE [entry EXCEPT !.proof = Stale(entry.proof)]

Init ==
  /\ batch \in Batches /\ lamp \in Start /\ store = lamp
  /\ entry = None /\ job = Idle
  /\ reads = {} /\ won = {}
  /\ left = [n |-> 0, steps |-> <<>>, after |-> 0]
  /\ lost = [a \in Prunable |-> Window + 1]
  /\ turns = 0

-----------------------------------------------------------------------------
\* The lamp, its reports, and time.

\* Someone uses the wall switch or another application, or an action that left
\* long ago arrives after all.
Turn(a, v) ==
  /\ turns < MaxTurns /\ lamp[a] # v
  /\ turns' = turns + 1
  /\ lamp' = [lamp EXCEPT ![a] = v]
  /\ lost' = [lost EXCEPT ![a] = 0]
  /\ UNCHANGED <<batch, store, entry, job, reads, won, left>>

Tick ==
  /\ lost' = [a \in Prunable |-> Older(lost[a])]
  /\ entry' = IF entry = None THEN None
              ELSE [n |-> entry.n,
                    backoff |-> IF entry.backoff = 0 THEN 0 ELSE entry.backoff - 1,
                    proof |-> IF entry.proof = None THEN None
                              ELSE [entry.proof EXCEPT !.age = Older(@)]]
  /\ job' = [job EXCEPT !.age = IF job.stage \in {"first", "second"}
                                THEN Older(@) ELSE @,
                        !.proof = IF @ = None THEN None
                                  ELSE [@ EXCEPT !.age = Older(@)]]
  /\ reads' = {[r EXCEPT !.age = Older(@)] : r \in reads}
  /\ UNCHANGED <<batch, lamp, store, won, left, turns>>

\* The values of the attributes in accepted reach the store: each moves the
\* revision, is news for a wait, and is a report that may say otherwise.
Accept(accepted, values) ==
  /\ store' = [a \in Attr |-> IF a \in accepted THEN values[a] ELSE store[a]]
  /\ lost' = [a \in Prunable |-> IF a \in accepted /\ values[a] = lamp[a]
                             THEN Window + 1 ELSE lost[a]]

AfterAccept(j, accepted) ==
  IF accepted = {} THEN j
  ELSE [j EXCEPT !.same = FALSE, !.proof = Stale(@), !.news = @ \cup (accepted \cap Attrs(j.plan))]

\* An event tells the bridge what an attribute of the lamp is; one of before is
\* refused or followed by this one.  What a read under way found before it can
\* no longer replace it.
Report(a) ==
  /\ store[a] # lamp[a]
  /\ Accept({a}, lamp)
  /\ entry' = StaleEntry
  /\ job' = AfterAccept(job, {a})
  /\ reads' = {IF r.got # None /\ r.got[a] # lamp[a]
                THEN [r EXCEPT !.late = @ \cup {a}] ELSE r : r \in reads}
  /\ UNCHANGED <<batch, lamp, won, left, turns>>

-----------------------------------------------------------------------------
\* LightDispatchCache.

\* Mutant of Offered: the age of the proof is not looked at.
OfferedHoweverOld ==
  IF entry # None /\ entry.proof # None /\ entry.proof.same
  THEN entry.proof ELSE None

\* What begin offers: a proof young enough, with nothing accepted since.
Offered ==
  IF entry # None /\ entry.proof # None /\ entry.proof.same
     /\ entry.proof.age <= ProofAge
  THEN entry.proof ELSE None

\* remember: only for the entry of the same command.
Remembering(n, proof) ==
  IF /\ entry # None /\ entry.n = n
     /\ proof # None /\ proof.same /\ proof.age <= ProofAge
  THEN [entry EXCEPT !.proof = proof] ELSE entry

PreviewFailed(failed) ==
  IF failed /\ ~job.aborted /\ entry # None /\ entry.n = job.n
  THEN [entry EXCEPT !.backoff = Backoff] ELSE entry

\* The entry goes when the keeper page or the health epoch is another, a scene
\* or location command runs, or other devices push it out.
Forget ==
  /\ entry # None
  /\ entry' = None
  /\ UNCHANGED <<batch, lamp, store, job, reads, won, left, lost, turns>>

-----------------------------------------------------------------------------
\* prepareLightDispatch.

\* A read may agree with the cache and be dated before what it holds: one that
\* came by a location event asks for a second read, any other forbids.
Dated == [Prunable -> {"ok", "older", "corroborate"}]

Agrees(plan, a, got, dated) ==
  IF store[a] = Value(plan, a) /\ got[a] = Value(plan, a) THEN dated[a] ELSE "differs"

HasModeSetter(plan) == "colour" \in Attrs(plan)

\* The brightness may be left out beside a colour only.
LevelOf(plan) == IF HasModeSetter(plan) THEN Attrs(plan) \cap {"level"} ELSE {}

\* What is left out: the power and the brightness, if the first read says so
\* and the second one, when there was one, says the same.
Pruned(plan, got, dated, second) ==
  {"power"} \cup
  {a \in LevelOf(plan) :
     LET agreement == Agrees(plan, a, got, dated)
     IN  /\ agreement = "ok" \/ (agreement = "corroborate" /\ second # None)
         /\ second # None => second[a] = got[a]}

\* The dispatch begins: the wait takes its baseline.
Dispatch(j, skip) ==
  [j EXCEPT !.stage = "validate", !.skip = skip, !.before = store, !.news = {},
            !.todo = SelectSeq(j.plan, LAMBDA c : c.attr \notin skip),
            !.got = None, !.first = None, !.age = 0,
            !.same = FALSE, !.preview = FALSE]

CorroborationWanted(plan, got, dated) ==
  \E a \in {"power"} \cup LevelOf(plan) :
    Agrees(plan, a, got, dated) = "corroborate"

\* A proof in hand: the outcomes of the first comparison.  Without a preview
\* there is no second read.
Compare(j, got, dated) ==
  LET power == Agrees(j.plan, "power", got, dated) IN
    IF power \notin {"ok", "corroborate"} THEN Dispatch(j, {})
    ELSE IF CorroborationWanted(j.plan, got, dated) /\ j.preview
      THEN [j EXCEPT !.stage = "second", !.first = got, !.got = None]
    ELSE IF power = "corroborate" THEN Dispatch(j, {})
    ELSE Dispatch(j, Pruned(j.plan, got, dated, None))

\* Whether anything may be left out at all: power on, more than one action,
\* and the store already showing the lamp on.
MayPrune(plan) ==
  Len(plan) >= 2 /\ plan[1] = [attr |-> "power", value |-> "on"] /\ store["power"] = "on"

New(n, light, plan) ==
  [Idle EXCEPT !.n = n, !.light = light, !.plan = plan, !.same = TRUE]

\* #executeLight up to the first await.  In batch mode there is no preview, so
\* nothing is left out.
ExecuteLight(plan) ==
  /\ job.stage = "idle" /\ job.n < MaxJobs
  /\ LET n == job.n + 1
         proof == IF batch THEN None ELSE Offered
         backoff == IF entry = None THEN 0 ELSE entry.backoff
         fresh == [New(n, TRUE, plan) EXCEPT !.preview = ~batch /\ backoff = 0]
     IN  /\ entry' = [n |-> n, backoff |-> backoff, proof |-> None]
         /\ IF ~MayPrune(plan) \/ (proof = None /\ ~fresh.preview)
            THEN job' = Dispatch(fresh, {})
            ELSE IF proof = None THEN job' = [fresh EXCEPT !.stage = "first"]
            ELSE \E dated \in Dated : job' = Compare(fresh, proof.values, dated)
  /\ UNCHANGED <<batch, lamp, store, reads, won, left, lost, turns>>

\* #executeDevice for another command of the device: the entry is invalidated
\* and proofs under way are retired before the one action is sent.
ExecuteOther(c) ==
  /\ job.stage = "idle" /\ job.n < MaxJobs
  /\ entry' = None
  /\ job' = [New(job.n + 1, FALSE, <<c>>) EXCEPT !.stage = "post", !.todo = <<c>>]
  /\ UNCHANGED <<batch, lamp, store, reads, won, left, lost, turns>>

\* The server answers the preview; the bridge has it a moment later.
PreviewRead ==
  /\ job.stage \in {"first", "second"} /\ job.got = None
  /\ job' = [job EXCEPT !.got = lamp]
  /\ UNCHANGED <<batch, lamp, store, entry, reads, won, left, lost, turns>>

\* A superseding request, a slow read or a changed revision spoils a preview.
FirstRead ==
  /\ job.stage = "first" /\ job.got # None
  /\ IF job.aborted \/ job.age > PreviewTime \/ ~job.same
     THEN job' = Dispatch(job, {})
     ELSE \E dated \in Dated : job' = Compare(job, job.got, dated)
  /\ entry' = PreviewFailed(job.age > PreviewTime)
  /\ UNCHANGED <<batch, lamp, store, reads, won, left, lost, turns>>

SecondRead ==
  /\ job.stage = "second" /\ job.got # None
  /\ IF \/ job.aborted \/ job.age > PreviewTime \/ ~job.same
        \/ job.got["power"] # job.first["power"]
     THEN job' = Dispatch(job, {})
     ELSE \E dated \in Dated :
            job' = Dispatch(job, Pruned(job.plan, job.first, dated, job.got))
  /\ entry' = PreviewFailed(job.age > PreviewTime)
  /\ UNCHANGED <<batch, lamp, store, reads, won, left, lost, turns>>

\* The read fails, or its budget or its request ends first.
PreviewFails ==
  /\ job.stage \in {"first", "second"}
  /\ job' = Dispatch(job, {})
  /\ entry' = PreviewFailed(TRUE)
  /\ UNCHANGED <<batch, lamp, store, reads, won, left, lost, turns>>

-----------------------------------------------------------------------------
\* executeSequence, executeBatch and the routes of a POST.

\* The command is over: its caller has an answer and the lane is free.
Over == job' = [Idle EXCEPT !.n = job.n]

\* Every argument is validated before anything leaves; this may ask the server
\* for a definition.
Validate ==
  /\ job.stage = "validate"
  /\ ~job.aborted
  /\ job' = [job EXCEPT !.stage = "post"]
  /\ UNCHANGED <<batch, lamp, store, entry, reads, won, left, lost, turns>>

ValidationFails ==
  /\ job.stage = "validate" /\ Over
  /\ UNCHANGED <<batch, lamp, store, entry, reads, won, left, lost, turns>>

\* What one POST carries: the whole plan in a batch, else its next action.
Body == IF batch /\ job.light /\ Len(job.todo) > 1 THEN job.todo ELSE <<Head(job.todo)>>

\* Mutant of PostStarts: the check is made before the first action only.
PostStartsUnchecked(route) ==
  /\ job.stage = "post" /\ job.route = "none"
  /\ Len(job.todo) = Len(job.plan) => ~job.aborted
  /\ job' = [job EXCEPT !.route = route]
  /\ UNCHANGED <<batch, lamp, store, entry, reads, won, left, lost, turns>>

\* checkCurrent: a superseded plan sends no further action.
PostStarts(route) ==
  /\ job.stage = "post" /\ job.route = "none" /\ ~job.aborted
  /\ job' = [job EXCEPT !.route = route]
  /\ UNCHANGED <<batch, lamp, store, entry, reads, won, left, lost, turns>>

\* executeAppClientCommand found no service to patch; or knownNotSent: the page
\* had no token to send the request with.  Only then is the next route tried.
NotSent ==
  /\ \/ job.route = "app" /\ job' = [job EXCEPT !.route = "page"]
     \/ job.route = "page" /\ job' = [job EXCEPT !.route = "advanced"]
  /\ UNCHANGED <<batch, lamp, store, entry, reads, won, left, lost, turns>>

\* The page sends the request.  The lamp obeys at once, later or never.
Leaves ==
  /\ job.route \in {"app", "page", "advanced"}
  /\ LET steps == [i \in DOMAIN Body |-> Target(job.plan, Body[i].attr)]
     IN  left' = [n |-> job.n,
                  steps |-> IF left.n = job.n THEN left.steps \o steps ELSE steps,
                  after |-> (IF left.n = job.n THEN left.after ELSE 0)
                            + (IF job.aborted THEN 1 ELSE 0)]
  /\ lamp' \in {lamp, [a \in Attr |-> IF a \in Attrs(Body) THEN Value(Body, a)
                                      ELSE lamp[a]]}
  /\ lost' = [a \in Prunable |-> Window + 1]
  /\ job' = [job EXCEPT !.route = "sent"]
  /\ UNCHANGED <<batch, store, entry, reads, won, turns>>

\* Mutant of NextRoute: any failure is taken for one that sent nothing.
NextRouteAfterFailure(route) == IF route = "sent" THEN "advanced" ELSE "none"

\* Where a failed attempt that may have been sent leads: nowhere.
NextRoute(route) == "none"

\* Mutant of PostFails: the plan goes on with its next action.
PostFailsAlone ==
  /\ job.route # "none"
  /\ IF Len(job.todo) = 1 THEN Over
     ELSE job' = [job EXCEPT !.todo = Tail(@), !.route = "none"]
  /\ UNCHANGED <<batch, lamp, store, entry, reads, won, left, lost, turns>>

\* A rejection, a timeout, a page that was lost before or after it sent: the
\* whole command fails and nothing is sent again.
PostFails ==
  /\ job.route # "none"
  /\ IF NextRoute(job.route) = "none" THEN Over
     ELSE job' = [job EXCEPT !.route = NextRoute(job.route)]
  /\ UNCHANGED <<batch, lamp, store, entry, reads, won, left, lost, turns>>

\* ACCEPTED: the next action, or the receipt of the last one, with which a
\* light command starts to wait.
PostAccepted ==
  /\ job.route = "sent"
  /\ LET rest == SubSeq(job.todo, Len(Body) + 1, Len(job.todo)) IN
       IF rest = <<>> /\ (job.aborted \/ ~job.light) THEN Over
       ELSE job' = [job EXCEPT !.todo = rest, !.route = "none",
                               !.stage = IF rest = <<>> THEN "wait" ELSE "post"]
  /\ UNCHANGED <<batch, lamp, store, entry, reads, won, left, lost, turns>>

\* A newer request for the lamp.  What waits is cancelled at once; a POST under
\* way keeps the lane until it has ended.
Supersede ==
  /\ job.light /\ ~job.aborted
  /\ IF job.stage = "wait" THEN Over
     ELSE job' = [job EXCEPT !.aborted = TRUE]
  /\ UNCHANGED <<batch, lamp, store, entry, reads, won, left, lost, turns>>

SupersededEnds ==
  /\ job.aborted
  /\ job.stage = "validate" \/ (job.stage = "post" /\ job.route = "none")
  /\ Over
  /\ UNCHANGED <<batch, lamp, store, entry, reads, won, left, lost, turns>>

-----------------------------------------------------------------------------
\* The wait of a light command and its status reads, which never overlap.

ReadStarts ==
  /\ job.stage = "wait" /\ \A r \in reads : r.n # job.n
  /\ reads' = reads \cup {[n |-> job.n, plan |-> job.plan, age |-> 0, got |-> None,
                             late |-> {}]}
  /\ UNCHANGED <<batch, lamp, store, entry, job, won, left, lost, turns>>

ServerReads(r) ==
  /\ r.got = None
  /\ reads' = (reads \ {r}) \cup {[r EXCEPT !.got = lamp]}
  /\ UNCHANGED <<batch, lamp, store, entry, job, won, left, lost, turns>>

\* recheck: the read is merged unless it is undated, and kept as a proof with the revision the merge
\* left if it is what the plan asked for.  A read of a command that was
\* confirmed meanwhile is remembered at once.
ReadArrives(r) ==
  /\ r.got # None
  /\ reads' = reads \ {r}
  /\ \E accepted \in {Attr \ r.late, {}} :
       /\ Accept(accepted, r.got)
       /\ LET proof == [values |-> r.got, age |-> r.age, same |-> TRUE]
              matches == Matches(r.got, r.plan)
              merged == AfterAccept(job, accepted)
              known == IF accepted = {} THEN entry ELSE StaleEntry
          IN  /\ job' = IF matches /\ job.n = r.n /\ job.stage = "wait"
                        THEN [merged EXCEPT !.proof = proof,
                                            !.evidence = @ \/ Matches(store', r.plan)]
                        ELSE merged
              /\ entry' = IF /\ matches /\ r.n \in won /\ ~batch
                             /\ known # None /\ known.n = r.n
                             /\ r.age <= ProofAge
                          THEN [known EXCEPT !.proof = proof] ELSE known
  /\ UNCHANGED <<batch, lamp, won, left, turns>>

ReadFails(r) ==
  /\ reads' = reads \ {r}
  /\ UNCHANGED <<batch, lamp, store, entry, job, won, left, lost, turns>>

\* A matching read of after the receipt, or fresh evidence by events, while the
\* store shows the whole plan.
Confirm ==
  /\ job.stage = "wait" /\ Matches(store, job.plan)
  /\ job.evidence \/ HasFreshEvidence(job)
  /\ won' = won \cup {job.n}
  /\ entry' = IF batch THEN entry ELSE Remembering(job.n, job.proof)
  /\ Over
  /\ UNCHANGED <<batch, lamp, store, reads, left, lost, turns>>

WaitTimesOut ==
  /\ job.stage = "wait" /\ Over
  /\ UNCHANGED <<batch, lamp, store, entry, reads, won, left, lost, turns>>

Next ==
  \/ \E a \in Touched : \E v \in Domain[a] : Turn(a, v)
  \/ Tick \/ Forget
  \/ \E a \in Attr : Report(a)
  \/ \E plan \in Plans : ExecuteLight(plan)
  \/ \E c \in Others : ExecuteOther(c)
  \/ PreviewRead \/ FirstRead \/ SecondRead \/ PreviewFails
  \/ Validate \/ ValidationFails
  \/ \E route \in {"app", "advanced"} : PostStarts(route)
  \/ NotSent \/ Leaves \/ PostFails \/ PostAccepted
  \/ Supersede \/ SupersededEnds
  \/ ReadStarts \/ \E r \in reads : ServerReads(r) \/ ReadArrives(r) \/ ReadFails(r)
  \/ Confirm \/ WaitTimesOut

Spec == Init /\ [][Next]_vars

-----------------------------------------------------------------------------
\* Properties.

\* What a plan leaves out was so: when the plan is dispatched the lamp has the
\* value, or left it no longer ago than a proof may be old, and since then no
\* command has left for the lamp and no report said otherwise.  A colour is
\* never left out.
PrunedWasSo ==
  [][(job'.skip # {} /\ job.skip = {}) =>
       /\ "colour" \notin job'.skip
       /\ \A a \in job'.skip :
            lamp[a] = Value(job'.plan, a) \/ lost[a] <= Window]_vars

\* Nothing leaves twice, by whatever route, nothing leaves out of the plan's
\* order, and nothing of a command leaves after something of a newer one.
OnceInOrder ==
  [][/\ left'.n >= left.n
     /\ \A i, k \in DOMAIN left'.steps : i < k => left'.steps[i] < left'.steps[k]]_vars

\* A command is confirmed only when everything the plan asks for and does not
\* leave out has left the browser, and the store shows the plan.
ConfirmedWasSent ==
  [][won' # won =>
       /\ left.n = job.n /\ Matches(store, job.plan)
       /\ Range(left.steps) \cup {Target(job.plan, a) : a \in job.skip}
            = DOMAIN job.plan]_vars

\* Of a plan that was superseded no request leaves but the one under way.
SupersededStops == left.after <= 1

\* What a plan leaves out because the lamp was on still shows in the store when
\* the rest of the plan is sent.
StillOnWhenSent ==
  [][left' # left /\ left'.n # left.n /\ "power" \in job.skip =>
       store["power"] = "on"]_vars

\* A light plan is carried out as it was asked: nothing that was needed is left
\* out, nothing leaves twice, out of order or for a command that was superseded,
\* and nothing is confirmed that was not sent.
PlanIsCarriedOut ==
  /\ PrunedWasSo /\ OnceInOrder /\ ConfirmedWasSent
  /\ [][SupersededStops']_vars
=============================================================================
