---------------------------- MODULE DeviceCommand ----------------------------
(***************************************************************************)
(* One command after the other for one switch, from #executeDevice of      *)
(* command-service.ts through AdvancedFirstCommandExecutor to the answer:   *)
(* the fresh read that a value held already needs, the routes a request may *)
(* take, the wait, and the reads that go on behind a receipt that could not *)
(* be confirmed at once.  What confirms a wait in every detail is           *)
(* ConfirmationWait, how the Advanced route falls back ComponentTransaction *)
(* and LightDispatch, how a web page is used CommandPage.                  *)
(*                                                                         *)
(* An observation is a value the switch had and its number in the order of  *)
(* the changes, which stands for its time.                                  *)
(***************************************************************************)
EXTENDS Naturals, FiniteSets

CONSTANTS
  Kinds,       \* the kinds of request, see Kind
  Legacy,      \* the executors the web routes may have, see WebRoutes
  MaxCommands, \* bound: commands
  MaxTurns,    \* bound: changes of the switch nobody asked the bridge for
  MaxMoves,    \* bound: times the device goes offline, moves or comes back
  None

Value == {"on", "off"}
Kind == [verified: BOOLEAN,     \* an exact command of the catalog: Advanced
         unconfirmed: BOOLEAN,  \* confirm = false, stateless, or receipt only
         stateless: BOOLEAN,    \* of these, it asks for no value that could be held already
         timed: BOOLEAN,        \* the caller gave a timeout
         known: BOOLEAN]        \* the web executor knows the command
WebRoutes == [native: BOOLEAN, dom: BOOLEAN, fallback: BOOLEAN]

Places == {"here", "elsewhere", "offline"}
Outcomes == {"already", "confirmed", "accepted", "not_found", "failed", "offline",
             "moved", "timeout"}
Observation == [value: Value, stamp: Nat]

VARIABLES
  switch,   \* the switch, as an observation
  store,    \* what DeviceStore holds of it
  place,    \* where the store has the device, or that it is offline
  news,     \* observations on their way to the bridge
  legacy,   \* the web executor
  job,      \* the command being executed
  back,     \* the reads behind a command that was answered
  orders,   \* commands that left and may still be carried out
  turns, moves,
  held,     \* history: the values the switch had since the job began
  left,     \* history: how often each command left the bridge
  outcome   \* history: the answers given

vars == <<switch, store, place, news, legacy, job, back, orders, turns, moves, held, left,
          outcome>>
others == <<place, legacy, turns, moves>>

Stages == {"idle", "fresh", "answer", "route", "native", "dom", "wait"}
Job(n, k, w, stage, before) ==
  [n |-> n, kind |-> k, want |-> w, stage |-> stage, read |-> None, via |-> "none",
   before |-> before]
NoJob == Job(0, None, "on", "idle", None)
NoBack == [n |-> 0, read |-> None, rounds |-> 0, same |-> FALSE]

TypeOK ==
  /\ switch \in Observation /\ store \in Observation /\ place \in Places
  /\ news \subseteq Observation /\ legacy \in Legacy
  /\ job \in [n: 0..MaxCommands, kind: Kinds \cup {None}, want: Value, stage: Stages,
              read: Observation \cup {None}, via: {"none", "advanced", "web"},
              before: Observation \cup {None}]
  /\ back \in [n: 0..MaxCommands, read: Observation \cup {None}, rounds: 0..3,
               same: BOOLEAN]
  /\ orders \subseteq [n: 1..MaxCommands, want: Value]
  /\ held \subseteq Value /\ turns \in 0..MaxTurns /\ moves \in 0..MaxMoves
  /\ left \in [1..MaxCommands -> Nat]
  /\ outcome \in [1..MaxCommands -> Outcomes \cup {None}]

Init ==
  /\ switch \in [value: Value, stamp: {0}]
  /\ store = switch /\ place = "here" /\ news = {} /\ legacy \in Legacy
  /\ job = NoJob /\ back = NoBack /\ orders = {} /\ turns = 0 /\ moves = 0
  /\ held = {} /\ left = [n \in 1..MaxCommands |-> 0]
  /\ outcome = [n \in 1..MaxCommands |-> None]

-----------------------------------------------------------------------------
\* The switch, its reports and the device's place.

Becomes(v) ==
  /\ switch' = [value |-> v, stamp |-> switch.stamp + 1]
  /\ news' = news \cup {switch'} /\ held' = held \cup {v}

Turn ==
  /\ turns < MaxTurns /\ turns' = turns + 1
  /\ \E v \in Value \ {switch.value} : Becomes(v)
  /\ UNCHANGED <<store, place, legacy, job, back, orders, moves, left, outcome>>

CarryOut(o) ==
  /\ orders' = orders \ {o}
  /\ IF switch.value = o.want
     THEN UNCHANGED <<switch, news, held>> ELSE Becomes(o.want)
  /\ UNCHANGED <<store, job, back, left, outcome, others>>

Moves(p) ==
  /\ moves < MaxMoves /\ p # place /\ moves' = moves + 1 /\ place' = p
  /\ UNCHANGED <<switch, store, news, legacy, job, back, orders, turns, held, left, outcome>>

\* An observation newer than what the store has is accepted; that moves the
\* revision the reads behind a command are tied to.
Accept(o) ==
  IF o.stamp > store.stamp
  THEN store' = o /\ back' = [back EXCEPT !.same = FALSE] ELSE UNCHANGED <<store, back>>

\* Events come late and out of order, or not at all.
Event(o) ==
  /\ news' = news \ {o}
  /\ Accept(o)
  /\ UNCHANGED <<switch, job, orders, held, left, outcome, others>>

-----------------------------------------------------------------------------
\* A command begins.

Answered(what) ==
  /\ outcome' = [outcome EXCEPT ![job.n] = what]
  /\ job' = Job(job.n, None, "on", "idle", None)

\* What the store has already must be read afresh when the catalog vouches for
\* the command.
FirstStage(k, w) ==
  IF k.stateless \/ store.value # w THEN "route"
  ELSE IF k.verified THEN "fresh" ELSE "answer"

\* Begin as it was before beginDeviceCommand: the reads behind the last command
\* go on.
BeginBeside(k, w) ==
  /\ job.stage = "idle" /\ job.n < MaxCommands /\ place = "here"
  /\ job' = Job(job.n + 1, k, w, FirstStage(k, w), store)
  /\ held' = {switch.value}
  /\ UNCHANGED <<switch, store, news, back, orders, left, outcome, others>>

\* A value the store has is taken for an answer, whoever sends the command.
BeginFromCache(k, w) ==
  /\ job.stage = "idle" /\ job.n < MaxCommands /\ place = "here"
  /\ job' = Job(job.n + 1, k, w,
               IF k.stateless \/ store.value # w THEN "route" ELSE "answer", store)
  /\ back' = [back EXCEPT !.same = FALSE] /\ held' = {switch.value}
  /\ UNCHANGED <<switch, store, news, orders, left, outcome, others>>

\* #executeDevice: a device that is offline is refused; beginDeviceCommand
\* retires the reads of an older command.
Begin(k, w) ==
  /\ job.stage = "idle" /\ job.n < MaxCommands /\ place = "here"
  /\ job' = Job(job.n + 1, k, w, FirstStage(k, w), store)
  /\ back' = [back EXCEPT !.same = FALSE] /\ held' = {switch.value}
  /\ UNCHANGED <<switch, store, news, orders, left, outcome, others>>

AnswerFromCache ==
  /\ job.stage = "answer" /\ Answered("already")
  /\ UNCHANGED <<switch, store, news, back, orders, held, left, others>>

\* The GET is asked, sees the switch, and comes back.
Look ==
  /\ job.stage = "fresh" /\ job.read = None
  /\ job' = [job EXCEPT !.read = switch]
  /\ UNCHANGED <<switch, store, news, back, orders, held, left, outcome, others>>

SentFrom(before) == job' = Job(job.n, job.kind, job.want, "route", before) /\ UNCHANGED outcome

Gone ==
  \/ place = "offline" /\ Answered("offline")
  \/ place = "elsewhere" /\ Answered("moved")

FreshRead ==
  /\ job.stage = "fresh" /\ job.read # None
  /\ Accept(job.read)
  /\ IF place # "here" THEN Gone
     ELSE IF job.read.value = job.want /\ store'.value = job.want THEN Answered("already")
     ELSE SentFrom(store')
  /\ UNCHANGED <<switch, news, orders, held, left, others>>

\* boundedLocationRead: a read that fails or takes too long proves nothing.
FreshReadFails ==
  /\ job.stage = "fresh"
  /\ IF place # "here" THEN Gone ELSE SentFrom(store)
  /\ UNCHANGED <<switch, store, news, back, orders, held, left, others>>

-----------------------------------------------------------------------------
\* AdvancedFirstCommandExecutor: the routes.

\* Something left: the order may be carried out.
Leaves ==
  /\ left' = [left EXCEPT ![job.n] = @ + 1]
  /\ orders' = orders \cup {[n |-> job.n, want |-> job.want]}
NothingLeft == UNCHANGED <<left, orders>>

\* executeDeviceAction returned: the wait goes on, or the receipt is the answer.
Receipt(via) ==
  IF job.kind.unconfirmed THEN Answered("accepted")
  ELSE /\ job' = [Job(job.n, job.kind, job.want, "wait", job.before) EXCEPT !.via = via]
       /\ UNCHANGED outcome

Fails(what) == Answered(what)

\* #executeAdvanced: sent, and SmartThings accepted it or its answer was lost.
Advanced ==
  /\ job.stage = "route" /\ job.kind.verified
  /\ \/ Leaves /\ (Receipt("advanced") \/ Fails("failed"))
     \/ NothingLeft /\ Fails("failed")
     \/ NothingLeft /\ Fails("not_found")
  /\ UNCHANGED <<switch, store, news, back, held, others>>

\* #executeVerifiedWeb: a command it does not know is refused; with both routes
\* the native one goes first, and otherwise executeDeviceAction does it all.
TakeWebRoute ==
  /\ job.stage = "route" /\ ~job.kind.verified
  /\ IF job.kind.known
     THEN /\ job' = [job EXCEPT !.stage = IF legacy.native /\ legacy.dom
                                          THEN "native" ELSE "dom"]
          /\ UNCHANGED outcome
     ELSE Fails("not_found")
  /\ UNCHANGED <<switch, store, news, back, orders, held, left, others>>

\* Whatever goes wrong with the native route, the other one is tried.
NativeAlways ==
  /\ job.stage = "native"
  /\ \/ Leaves /\ Receipt("web")
     \/ (Leaves \/ NothingLeft) /\ job' = [job EXCEPT !.stage = "dom"] /\ UNCHANGED outcome
  /\ UNCHANGED <<switch, store, news, back, held, others>>

\* executeLocationNative: only "command_native_unavailable", thrown before
\* anything is touched, leads to the DOM, and only where that is allowed.
Native ==
  /\ job.stage = "native"
  /\ \/ Leaves /\ (Receipt("web") \/ Fails("failed"))
     \/ NothingLeft /\ Fails("failed")
     \/ NothingLeft /\ IF legacy.fallback
                       THEN job' = [job EXCEPT !.stage = "dom"] /\ UNCHANGED outcome
                       ELSE Fails("not_found")
  /\ UNCHANGED <<switch, store, news, back, held, others>>

\* executeDomFallback, or the executor's only route.
Dom ==
  /\ job.stage = "dom"
  /\ \/ Leaves /\ (Receipt("web") \/ Fails("failed"))
     \/ NothingLeft /\ Fails("failed")
  /\ UNCHANGED <<switch, store, news, back, held, others>>

-----------------------------------------------------------------------------
\* The wait, and the reads behind an answer.

\* waitForState: the store has the value, and learned it while the command ran.
Confirm ==
  /\ job.stage = "wait" /\ store.value = job.want /\ store.stamp > job.before.stamp
  /\ Answered("confirmed")
  /\ UNCHANGED <<switch, store, news, back, orders, held, left, others>>

Timeout ==
  /\ job.stage = "wait" /\ Answered("timeout")
  /\ UNCHANGED <<switch, store, news, back, orders, held, left, others>>

Reread ==
  /\ job.stage = "wait" /\ job.read = None
  /\ job' = [job EXCEPT !.read = switch]
  /\ UNCHANGED <<switch, store, news, back, orders, held, left, outcome, others>>

\* A status read that has the value asked for, but an older one than the other
\* value the store has by now: an untimed command sent through the Advanced API
\* is answered with its receipt, and read on behind the answer.
StaleRead ==
  LET stale == /\ job.read.value = job.want /\ store.value # job.want
               /\ job.read.stamp < store.stamp
  IN /\ job.stage = "wait" /\ job.read # None
     /\ IF stale /\ job.via = "advanced" /\ ~job.kind.timed
        THEN /\ Answered("accepted")
             /\ back' = [n |-> job.n, read |-> None, rounds |-> 3, same |-> TRUE]
             /\ UNCHANGED store
        ELSE /\ Accept(job.read)
             /\ \/ /\ job.read.value = job.want /\ store'.value = job.want
                   /\ Answered("confirmed")
                \/ /\ ~(job.read.value = job.want /\ store'.value = job.want)
                   /\ job' = [job EXCEPT !.read = None] /\ UNCHANGED outcome
     /\ UNCHANGED <<switch, news, orders, held, left, others>>

\* The revision is compared before each read and after it.
BackRead ==
  /\ back.rounds > 0 /\ back.read = None /\ back.same /\ place = "here"
  /\ back' = [back EXCEPT !.read = switch]
  /\ UNCHANGED <<switch, store, news, job, orders, held, left, outcome, others>>

BackReadEnds ==
  /\ back.read # None
  /\ IF back.read.stamp > store.stamp
     THEN store' = back.read /\ back' = NoBack
     ELSE /\ UNCHANGED store
          /\ back' = IF back.same /\ place = "here" /\ back.rounds > 1
                     THEN [n |-> back.n, read |-> None, rounds |-> back.rounds - 1, same |-> TRUE]
                     ELSE NoBack
  /\ UNCHANGED <<switch, news, job, orders, held, left, outcome, others>>

BackYields ==
  /\ back.rounds > 0 /\ back.read = None /\ (~back.same \/ place # "here")
  /\ back' = NoBack
  /\ UNCHANGED <<switch, store, news, job, orders, held, left, outcome, others>>

Next ==
  \/ Turn \/ (\E o \in orders : CarryOut(o)) \/ (\E p \in Places : Moves(p))
  \/ \E o \in news : Event(o)
  \/ \E k \in Kinds, w \in Value : Begin(k, w)
  \/ AnswerFromCache \/ Look \/ FreshRead \/ FreshReadFails
  \/ Advanced \/ TakeWebRoute \/ Native \/ Dom
  \/ Confirm \/ Timeout \/ Reread \/ StaleRead
  \/ BackRead \/ BackReadEnds \/ BackYields

Spec == Init /\ [][Next]_vars

-----------------------------------------------------------------------------
\* No command leaves the bridge twice: a second route is taken only when the
\* first one is known to have touched nothing (advanced-first-executor.ts), and
\* what was answered at once, or not found, never left at all.
OnceAtMost ==
  \A n \in 1..MaxCommands :
    /\ left[n] <= 1
    /\ outcome[n] \in {"already", "not_found", "offline", "moved"} => left[n] = 0
    /\ outcome[n] \in {"accepted", "confirmed", "timeout"} => left[n] = 1

\* A verified power command that is answered with "already" was so: the switch
\* had the value at some moment since the command began (#executeDevice: "a
\* missed event must not turn a real power request into a cache-only no-op").
AlreadyWasSo ==
  [][\A n \in 1..MaxCommands :
       outcome[n] = None /\ outcome'[n] = "already" /\ job.kind.verified
         => job.want \in held]_vars

\* Once a newer command of the device has begun, or a report has told the store
\* more, no further read is made for the older one (commandStateRevision).
OldReadsStop ==
  [][back'.read # None /\ back.read = None
       => back.n = job.n /\ (job.stage = "idle") /\ back.rounds > 0]_vars

\* What is answered without a look, and what is looked up after an answer, is never
\* wrong on account of a newer command or report.
ReadsAreHonest == AlreadyWasSo /\ OldReadsStop
=============================================================================
