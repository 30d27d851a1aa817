------------------------------ MODULE SoakRun ------------------------------
(***************************************************************************)
(* The soak run of tools/haos-soak.ts and the gate that reads its evidence  *)
(* (haos-soak-deployment-gate-core.ts): a collector takes a sample of the    *)
(* Bridge every interval, appends it to a log and judges the whole log; it   *)
(* may be killed and resumed; the sealed summary of a run that passed lets a *)
(* candidate be deployed.                                                   *)
(*                                                                         *)
(* Time is counted in ticks.  One counter stands for those that must never   *)
(* fall, and readiness for live, ready and CONNECTED; memory growth, the      *)
(* inventory's size and sequence and the frame and protocol counters, which   *)
(* are judged the same way, are left out.                                    *)
(***************************************************************************)
EXTENDS Integers, FiniteSets, Sequences

CONSTANTS
  Collector,    \* collector processes; each one runs once
  Duration,     \* --duration-hours, in ticks
  Interval,     \* --interval-seconds
  Tolerance,    \* BROWSER_UPTIME_ROLLBACK_TOLERANCE_MS
  MaxInterval,  \* MAXIMUM_SOAK_INTERVAL_MS
  OldAge,       \* how long the Bridge has been up when the run begins
  Alone,        \* whether collectors are started one at a time
  MaxTime,      \* bound: ticks
  MaxTroubles,  \* bound: restarts, lapses of readiness and requests without an answer
  None

\* MINIMUM_SOAK_SAMPLE_COUNT, for a run of just the minimum duration.
MinSamples == (Duration \div MaxInterval) + 1

VARIABLES
  now,
  bridge,    \* the Bridge process: how long it is up, restartCount, a counter, readiness
  restarts,  \* history: when the Bridge process was restarted, and how old it was
  troubles,  \* what has gone wrong at the Bridge so far
  lock,      \* .collector.lock: no file, an empty one, or the process it names
  proc,      \* the collector processes
  run,       \* run.json: its status and startedAt
  log,       \* samples.jsonl
  torn,      \* samples.jsonl ends in the middle of a line
  summary    \* final-summary.json with its digest

world == <<now, bridge, restarts, troubles>>
vars == <<world, lock, proc, run, log, torn, summary>>

Time == 0..MaxTime
Age == 0..(OldAge + MaxTime)
Observation == [kind : {"sample", "error"}, at : Time, up : Age, restartCount : 0..MaxTroubles,
                counter : 0..1, ready : BOOLEAN]
Stages == {"new", "stale", "unlinked", "opened", "locked", "waiting", "took", "complete",
           "sealed", "stopping", "ended", "dead"}

\* Two samples of a log that follow each other.
Follow(l) == {<<l[i], l[i + 1]>> : i \in 1..(Len(l) - 1)}

TypeOK ==
  /\ now \in Time
  /\ bridge \in [up : Age, restartCount : 0..MaxTroubles, counter : 0..1, ready : BOOLEAN]
  /\ troubles \in 0..MaxTroubles
  /\ \A r \in restarts : r.at \in Time /\ r.age \in Age
  /\ lock \in Collector \cup {None, "empty"}
  /\ \A p \in Collector :
       /\ proc[p].at \in Stages /\ proc[p].resume \in BOOLEAN
       /\ proc[p].next \in 0..(MaxTime + Interval) /\ proc[p].obs \in Observation \cup {None}
       /\ proc[p].mine \in Seq(Observation)
  /\ run \in [status : {"none", "running", "interrupted", "completed"}, start : Time]
  /\ log \in Seq(Observation) /\ torn \in BOOLEAN
  /\ summary = None \/ summary \in Seq(Observation)

Idle == [at |-> "new", resume |-> FALSE, next |-> 0, obs |-> None, mine |-> <<>>]

Init ==
  /\ now = 0 /\ restarts = {} /\ troubles = 0
  /\ bridge = [up |-> OldAge, restartCount |-> 0, counter |-> 0, ready |-> TRUE]
  /\ lock = None /\ proc = [p \in Collector |-> Idle]
  /\ run = [status |-> "none", start |-> 0] /\ log = <<>> /\ torn = FALSE /\ summary = None

-----------------------------------------------------------------------------
\* The Bridge, and time.

Tick ==
  /\ now < MaxTime /\ now' = now + 1
  /\ bridge' = [bridge EXCEPT !.up = @ + 1]
  /\ UNCHANGED <<restarts, troubles, lock, proc, run, log, torn, summary>>

Trouble == troubles < MaxTroubles /\ troubles' = troubles + 1

Bridge(b) == bridge' = b /\ UNCHANGED <<now, lock, proc, run, log, torn, summary>>

CounterGrows ==
  bridge.counter = 0 /\ Bridge([bridge EXCEPT !.counter = 1]) /\ UNCHANGED <<restarts, troubles>>

NotReady == bridge.ready /\ Trouble /\ Bridge([bridge EXCEPT !.ready = FALSE]) /\ UNCHANGED restarts
Ready == ~bridge.ready /\ Bridge([bridge EXCEPT !.ready = TRUE]) /\ UNCHANGED <<restarts, troubles>>

\* The browser restarts in the same process, which counts it.
BrowserRestarts ==
  /\ Trouble /\ Bridge([bridge EXCEPT !.up = 0, !.restartCount = @ + 1])
  /\ UNCHANGED restarts

\* The process restarts, and its counters with it.
ProcessRestarts ==
  /\ Trouble /\ restarts' = restarts \cup {[at |-> now, age |-> bridge.up]}
  /\ Bridge([up |-> 0, restartCount |-> 0, counter |-> 0, ready |-> bridge.ready])

-----------------------------------------------------------------------------
\* evaluateSoak.

Gap(a, b) == b.at - a.at

\* GapFails with only the order looked at.
OrderFails(l) == \E f \in Follow(l) : Gap(f[1], f[2]) < 0

GapFails(l) == \E f \in Follow(l) : Gap(f[1], f[2]) < 0 \/ Gap(f[1], f[2]) > 2 * Interval

\* A request without an answer fails a run by itself, so that what the samples
\* say is only asked where every observation is one.
Answered(l) == \A i \in DOMAIN l : l[i].kind = "sample"

\* UptimeFails of an evaluation that does not look at it.
UptimeIgnored(l) == FALSE

\* browserUptimeRegressed.  A sample without an uptime is of a Bridge that has not
\* started its browser yet: it is not ready, and fails for that.
UptimeFails(l) == \E f \in Follow(l) : f[2].up + Tolerance < f[1].up

SampleFails(l) ==
  \/ \E i \in DOMAIN l : ~l[i].ready \/ l[i].restartCount > l[1].restartCount
  \/ \E f \in Follow(l) : f[2].counter < f[1].counter
  \/ UptimeFails(l)

Complete(l) == l # <<>> /\ l[Len(l)].at >= run.start + Duration

Passes(l) ==
  /\ Answered(l) /\ ~GapFails(l) /\ ~SampleFails(l)
  /\ Complete(l) /\ Len(l) >= 2

\* inspectSoakDeploymentGate: a sealed summary of a completed run that passed,
\* with enough samples.
Eligible ==
  /\ run.status = "completed" /\ summary # None
  /\ Interval <= MaxInterval
  /\ Passes(summary) /\ Len(summary) >= MinSamples

-----------------------------------------------------------------------------
\* Starting a collector.

\* A process that is looked for by its number.
Alive(p) == proc[p].at \notin {"new", "ended", "dead"}

Goes(p, at) == proc' = [proc EXCEPT ![p].at = at]

\* acquireCollectorLock: the lock file is created if there is none, and then written.
Start(p, resume) ==
  /\ proc[p].at = "new" /\ (Alone => \A q \in Collector : ~Alive(q))
  /\ IF lock = None
     THEN /\ lock' = "empty"
          /\ proc' = [proc EXCEPT ![p] = [Idle EXCEPT !.at = "opened", !.resume = resume]]
     ELSE IF lock \in Collector /\ ~Alive(lock)
     THEN /\ proc' = [proc EXCEPT ![p] = [Idle EXCEPT !.at = "stale", !.resume = resume]]
          /\ UNCHANGED lock
     ELSE Goes(p, "ended") /\ UNCHANGED lock
  /\ UNCHANGED <<world, run, log, torn, summary>>

\* The lock of a dead process is removed, whatever has taken its place since.
Unlink(p) ==
  /\ proc[p].at = "stale" /\ lock' = None
  /\ Goes(p, IF lock = None THEN "ended" ELSE "unlinked")
  /\ UNCHANGED <<world, run, log, torn, summary>>

\* One more attempt is made.
Reopen(p) ==
  /\ proc[p].at = "unlinked"
  /\ IF lock = None THEN lock' = "empty" /\ Goes(p, "opened")
     ELSE Goes(p, "ended") /\ UNCHANGED lock
  /\ UNCHANGED <<world, run, log, torn, summary>>

WriteLock(p) ==
  /\ proc[p].at = "opened" /\ lock' = p /\ Goes(p, "locked")
  /\ UNCHANGED <<world, run, log, torn, summary>>

\* A new run needs an empty directory.
Fresh(p) ==
  /\ proc[p].at = "locked" /\ ~proc[p].resume
  /\ IF run.status = "none"
     THEN /\ run' = [status |-> "running", start |-> now]
          /\ proc' = [proc EXCEPT ![p].at = "waiting", ![p].next = now]
     ELSE Goes(p, "stopping") /\ UNCHANGED run
  /\ UNCHANGED <<world, lock, log, torn, summary>>

\* Resume that goes on sampling.
ResumeOn(p) ==
  /\ proc[p].at = "locked" /\ proc[p].resume
  /\ IF run.status = "none" \/ torn
     THEN Goes(p, "stopping") /\ UNCHANGED run
     ELSE /\ run' = [run EXCEPT !.status = "running"]
          /\ proc' = [proc EXCEPT ![p].at = "waiting", ![p].mine = log, ![p].next = now]
  /\ UNCHANGED <<world, lock, log, torn, summary>>

\* A resumed run keeps its start and its log, and is completed at once when the
\* log reaches its end already.
Resume(p) ==
  /\ proc[p].at = "locked" /\ proc[p].resume
  /\ IF run.status \in {"none", "completed"} \/ torn
     THEN Goes(p, "stopping") /\ UNCHANGED run
     ELSE /\ run' = [run EXCEPT !.status = "running"]
          /\ proc' = [proc EXCEPT ![p].at = IF Complete(log) THEN "complete" ELSE "waiting",
                                  ![p].mine = log,
                                  ![p].next = IF log = <<>> THEN run.start
                                              ELSE log[Len(log)].at + Interval]
  /\ UNCHANGED <<world, lock, log, torn, summary>>

-----------------------------------------------------------------------------
\* Sampling.

\* collectObservation, which takes less than a tick: the Bridge answers, and what it
\* reports is an observation.
Sample(p) ==
  /\ proc[p].at = "waiting" /\ now >= proc[p].next
  /\ proc' = [proc EXCEPT ![p].at = "took",
       ![p].obs = [kind |-> "sample", at |-> now, up |-> bridge.up,
                   restartCount |-> bridge.restartCount, counter |-> bridge.counter,
                   ready |-> bridge.ready]]
  /\ UNCHANGED <<world, lock, run, log, torn, summary>>

\* No answer, or none that can be read, is one too.
NoAnswer(p) ==
  /\ Trouble
  /\ proc[p].at = "waiting" /\ now >= proc[p].next
  /\ proc' = [proc EXCEPT ![p].at = "took",
       ![p].obs = [kind |-> "error", at |-> now, up |-> 0, restartCount |-> 0,
                   counter |-> 0, ready |-> FALSE]]
  /\ UNCHANGED <<now, bridge, restarts, lock, run, log, torn, summary>>

\* The observation is appended, the log judged, and the next sample planned.
Append1(p) ==
  /\ proc[p].at = "took"
  /\ log' = Append(log, proc[p].obs)
  /\ proc' = [proc EXCEPT ![p].mine = Append(@, proc[p].obs), ![p].obs = None,
       ![p].at = IF proc[p].obs.at >= run.start + Duration THEN "complete" ELSE "waiting",
       ![p].next = IF @ + Interval <= now THEN now + Interval ELSE @ + Interval]
  /\ UNCHANGED <<world, lock, run, torn, summary>>

\* completeRun: the summary and its digest, then run.json.
Seal(p) ==
  /\ proc[p].at = "complete" /\ summary' = proc[p].mine /\ Goes(p, "sealed")
  /\ UNCHANGED <<world, lock, run, log, torn>>

Completed(p) ==
  /\ proc[p].at = "sealed" /\ run' = [run EXCEPT !.status = "completed"] /\ Goes(p, "stopping")
  /\ UNCHANGED <<world, lock, log, torn, summary>>

\* SIGINT or SIGTERM while it waits, or after a sample.
Stop(p) ==
  /\ proc[p].at = "waiting" /\ run' = [run EXCEPT !.status = "interrupted"] /\ Goes(p, "stopping")
  /\ UNCHANGED <<world, lock, log, torn, summary>>

\* releaseCollectorLock: only its own.
Release(p) ==
  /\ proc[p].at = "stopping" /\ Goes(p, "ended")
  /\ lock' = IF lock = p THEN None ELSE lock
  /\ UNCHANGED <<world, run, log, torn, summary>>

\* The process is killed, in the middle of an append too.
Killed(p) ==
  /\ Alive(p) /\ Goes(p, "dead")
  /\ torn' \in IF proc[p].at = "took" THEN BOOLEAN ELSE {torn}
  /\ UNCHANGED <<world, lock, run, log, summary>>

Next ==
  \/ Tick \/ CounterGrows \/ NotReady \/ Ready \/ BrowserRestarts \/ ProcessRestarts
  \/ \E p \in Collector :
       \/ \E resume \in BOOLEAN : Start(p, resume)
       \/ Unlink(p) \/ Reopen(p) \/ WriteLock(p) \/ Fresh(p) \/ Resume(p) \/ Sample(p)
       \/ NoAnswer(p) \/ Append1(p) \/ Seal(p) \/ Completed(p) \/ Stop(p) \/ Release(p)
       \/ Killed(p)

Spec == Init /\ [][Next]_vars

-----------------------------------------------------------------------------
\* What the gate lets through was watched: from the first sample to the end there
\* is an observation within two intervals of every moment, none is missing, and no
\* restart of the Bridge in that time is hidden that came later than two intervals
\* and the tolerance after the one before it (docs/haos-soak.md: "rolls browser uptime backward and
\* thereby proves a browser/context restart during this run").  A restart younger
\* than that leaves an uptime that does not fall.
Watched ==
  LET first == summary[1].at
      last == summary[Len(summary)].at
  IN /\ \A t \in first..(run.start + Duration) :
          \E i \in DOMAIN summary : summary[i].at - t \in (-2 * Interval)..(2 * Interval)
     /\ \A i \in DOMAIN summary : summary[i].at - first <= (2 * (i - 1)) * Interval
     /\ \A r \in restarts : first < r.at /\ r.at < last => r.age <= 2 * Interval + Tolerance

EligibleIsEarned == TypeOK /\ (Eligible => Watched)

\* A sealed summary is never replaced by another one, whoever is killed between
\* its steps and whoever resumes the run.
SealedForGood == [][summary # None => summary' = summary]_vars

\* docs/haos-soak.md, 34: "The lock allows exactly one collector to append to a
\* run directory."  Two that find the lock of a dead one at the same time both
\* remove it, the second that of the first.
OneCollector ==
  Cardinality({p \in Collector : proc[p].at \in {"locked", "waiting", "took"}}) <= 1

\* docs/haos-soak.md, 34: "after an abnormal exit, the dead process lock is removed
\* automatically by the next resume attempt."  A lock that nothing was written to
\* stays.
DeadLockIsRemoved == lock = "empty" => \E p \in Collector : proc[p].at = "opened"

\* docs/haos-soak.md, 42: "It does not hide downtime: an interruption longer than
\* twice the configured interval still produces the existing sample_gap failure."
\* Time before the first sample is in no gap.
DowntimeShows == Eligible => summary[1].at - run.start <= 2 * Interval
=============================================================================
