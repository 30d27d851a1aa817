----------------------------- MODULE ActionProbe -----------------------------
(***************************************************************************)
(* The probe by which a person shows that the bridge reports a physical     *)
(* action (PhysicalActionCorrelationProbe): it is armed over HTTP for a     *)
(* window of time, the action is done, and the events that were first       *)
(* delivered in the window and match its preset are the candidates.  It     *)
(* passes with exactly one.  An EventDeduplicator in front of it tells a    *)
(* new event from one delivered again, and the runtime fails the probe when *)
(* it knows that the window proves nothing.                                 *)
(*                                                                          *)
(* Nothing watches the deadline: a window that is over stays armed until a  *)
(* call finds it so, and the calls differ in what they look at first.       *)
(***************************************************************************)
EXTENDS Naturals, FiniteSets

CONSTANTS
  Event,          \* logical events, by their identity
  Matching,       \* preset -> the events matchesPreset takes for it
  MaxWindow,      \* bound: length of a window
  MaxCandidates,  \* MAX_CANDIDATES, at least 1; 32 in the code
  Ttl,            \* ttlMs of the deduplicator, 300 s in the code
  MaxEntries,     \* its maxEntries, 100000 in the code
  MaxTime,        \* bound of the clock
  MaxMishaps,     \* bound: troubles of the runtime
  None

VARIABLES
  clock,
  window,     \* #window
  journal,    \* #seen of the deduplicator: when it first saw an event, or None
  runtime,    \* what getProbeEvidence tells
  first,      \* history: the first delivery of an event
  gone,       \* history: events of a browser that has closed
  heard,      \* history: events first delivered within the window
  spoilt,     \* history: within the window, something pushed that it proves nothing
  mishaps     \* history, for the bound

probeVars == <<clock, window, journal, runtime, first, gone, heard, spoilt, mishaps>>

-----------------------------------------------------------------------------
Preset == DOMAIN Matching
Verdict == {"pass", "ambiguous", "fail"}
Reason == {"no_match", "multiple_candidates", "manual_reset", "browser_not_isolated",
           "runtime_not_ready", "protocol_changed", "runtime_restarted",
           "invalid_frame_increase", "counter_regression", "unsafe_event",
           "candidate_overflow"}
Counters == [devices : Nat, invalid : Nat, changes : Nat]

Idle == [state |-> "idle", reason |-> None, preset |-> None, since |-> 0, deadline |-> 0,
         baseline |-> None, candidates |-> {}]

ProbeTypeOK ==
  /\ clock \in 0..MaxTime /\ mishaps \in 0..MaxMishaps
  /\ window \in [state : {"idle", "armed", "voided"} \cup Verdict, reason : Reason \cup {None},
                 preset : Preset \cup {None}, since : Nat, deadline : Nat,
                 baseline : Counters \cup {None}, candidates : SUBSET Event]
  /\ journal \in [Event -> Nat \cup {None}] /\ first \in [Event -> Nat \cup {None}]
  /\ runtime.count \in Counters /\ runtime.restarts \in Nat
  /\ {runtime.ready, runtime.isolated, spoilt} \subseteq BOOLEAN
  /\ heard \subseteq Event /\ gone \subseteq Event

-----------------------------------------------------------------------------
(* The window and what ends it. *)

Armed == window.state = "armed"
Expired == clock >= window.deadline

\* A verdict is overturned by what comes later.
FailedAnyway(w, reason) == [w EXCEPT !.state = "fail", !.reason = reason]

Failed(w, reason) ==
  IF w.state = "armed" THEN [w EXCEPT !.state = "fail", !.reason = reason] ELSE w

(* finalizeExpired *)
Finalized(w) ==
  CASE Cardinality(w.candidates) = 0 -> [w EXCEPT !.state = "fail", !.reason = "no_match"]
    [] Cardinality(w.candidates) = 1 -> [w EXCEPT !.state = "pass"]
    [] OTHER -> [w EXCEPT !.state = "ambiguous", !.reason = "multiple_candidates"]

FinalizedIfExpired(w) == IF Armed /\ Expired THEN Finalized(w) ELSE w

(* fail, observeUnsafeEvent, and recordBrowserIsolation of a browser that is *)
(* not: a window that was over by then is judged first.                      *)
Pushed(reason) ==
  /\ window' = Failed(FinalizedIfExpired(window), reason)
  /\ spoilt' = (spoilt \/ (Armed /\ ~Expired))

-----------------------------------------------------------------------------
(* The HTTP calls, and the runtime's own: the watchdog, the maintenance of   *)
(* the session and the discovery of details ask whether a probe is armed.    *)

(* armReadinessError *)
Fit == /\ runtime.isolated /\ runtime.ready /\ runtime.count.devices > 0 /\ runtime.restarts = 0

Arm(preset, length) ==
  /\ ~(Armed /\ ~Expired)
  /\ IF Fit
     THEN /\ window' = [Idle EXCEPT !.state = "armed", !.preset = preset, !.since = clock,
                                    !.deadline = clock + length, !.baseline = runtime.count]
          /\ heard' = {} /\ spoilt' = FALSE
     ELSE window' = FinalizedIfExpired(window) /\ UNCHANGED <<heard, spoilt>>
  /\ UNCHANGED <<clock, journal, runtime, first, gone, mishaps>>

(* failClosedReason, in its order; None when the window may go on. *)
FailClosed ==
  LET now == runtime.count
      then == window.baseline
  IN IF ~runtime.ready THEN "runtime_not_ready"
     ELSE IF ~runtime.isolated THEN "browser_not_isolated"
     ELSE IF now.changes > then.changes THEN "protocol_changed"
     ELSE IF runtime.restarts # 0 THEN "runtime_restarted"
     ELSE IF now.invalid > then.invalid THEN "invalid_frame_increase"
     ELSE IF now.devices < then.devices THEN "counter_regression"
     ELSE None

(* snapshot: what is wrong now counts before what the window has brought,    *)
(* also when the window was over before it went wrong.                       *)
Snapshot ==
  /\ Armed
  /\ window' = IF FailClosed # None THEN Failed(window, FailClosed)
               ELSE FinalizedIfExpired(window)
  /\ UNCHANGED <<clock, journal, runtime, first, gone, heard, spoilt, mishaps>>

(* A voided window still shows what it was; that is left out. *)
Reset ==
  /\ window.state # "idle"
  /\ window' = [Idle EXCEPT !.state = "voided", !.reason = "manual_reset"]
  /\ heard' = {} /\ spoilt' = FALSE
  /\ UNCHANGED <<clock, journal, runtime, first, gone, mishaps>>

-----------------------------------------------------------------------------
(* EventDeduplicator.observe *)
Known == {e \in Event : journal[e] # None /\ clock - journal[e] < Ttl}
Oldest == {e \in Known : \A o \in Known : journal[e] <= journal[o]}

Keeps(e, evicted) ==
  journal' = [o \in Event |-> IF o = e THEN IF e \in Known THEN journal[e] ELSE clock
                              ELSE IF o \in Known \ evicted THEN journal[o] ELSE None]

\* An event counts until the window is found to be over.
ObservedLate(e) ==
  IF ~Armed \/ e \in Known \/ e \notin Matching[window.preset] THEN window
  ELSE [window EXCEPT !.candidates = @ \cup {e}]

(* observe: an event counts once, and only while the window is open. *)
Observed(e) ==
  IF ~Armed \/ Expired \/ e \in Known \/ e \notin Matching[window.preset] THEN window
  ELSE IF e \in window.candidates THEN window
  ELSE IF Cardinality(window.candidates) >= MaxCandidates
       THEN Failed(window, "candidate_overflow")
  ELSE [window EXCEPT !.candidates = @ \cup {e}]

(* A delivery again comes from the other observer of the socket, or another  *)
(* page of the browser: it is assumed to come before the journal forgets.    *)
InTime(e) ==
  /\ e \notin gone
  /\ \/ first[e] = None
     \/ /\ first[e] # None /\ clock - first[e] < Ttl
        /\ Cardinality({o \in Event : first[o] # None /\ first[o] >= first[e]}) <= MaxEntries

Deliver(e) ==
  /\ InTime(e)
  /\ IF e \notin Known /\ Cardinality(Known) >= MaxEntries
     THEN \E o \in Oldest : Keeps(e, {o})
     ELSE Keeps(e, {})
  /\ window' = Observed(e)
  /\ first' = [first EXCEPT ![e] = IF @ = None THEN clock ELSE @]
  /\ heard' = IF Armed /\ ~Expired /\ first[e] = None THEN heard \cup {e} ELSE heard
  /\ UNCHANGED <<clock, runtime, gone, spoilt, mishaps>>

-----------------------------------------------------------------------------
(* What becomes of the runtime.  Some of it is pushed to the probe, some it  *)
(* finds when it is asked.                                                   *)
Trouble == mishaps < MaxMishaps /\ mishaps' = mishaps + 1 /\ UNCHANGED <<clock, first, gone, heard>>

(* An event that names its device, of which no summary can be made. *)
UnsafeEvent == Trouble /\ Pushed("unsafe_event") /\ UNCHANGED <<journal, runtime>>

WrongSurface ==
  /\ Trouble /\ Pushed("protocol_changed")
  /\ runtime' = [runtime EXCEPT !.ready = FALSE, !.count.changes = @ + 1]
  /\ UNCHANGED journal

InvalidFrame ==
  /\ Trouble
  /\ runtime' = [runtime EXCEPT !.count.invalid = @ + 1]
  /\ UNCHANGED <<window, journal, spoilt>>

(* Another page opens in the bridge's browser, and closes. *)
PageOpens ==
  /\ Trouble /\ Pushed("browser_not_isolated")
  /\ runtime' = [runtime EXCEPT !.isolated = FALSE]
  /\ UNCHANGED journal

PageCloses ==
  /\ ~runtime.isolated
  /\ runtime' = [runtime EXCEPT !.isolated = TRUE]
  /\ UNCHANGED <<clock, window, journal, first, gone, heard, spoilt, mishaps>>

(* resetSnapshotSession: the journal outlives it. *)
SocketRecovers ==
  /\ Trouble /\ Pushed("runtime_restarted")
  /\ runtime' = [runtime EXCEPT !.ready = FALSE]
  /\ UNCHANGED journal

(* reset: it begins anew, and its counters too; a launch that fails shows as *)
(* a restart.  What the sockets of the old browser delivered comes no more.  *)
BrowserCloses ==
  /\ mishaps < MaxMishaps /\ mishaps' = mishaps + 1
  /\ Pushed("runtime_restarted")
  /\ journal' = [e \in Event |-> None]
  /\ \E failures \in 0..1 :
       runtime' = [runtime EXCEPT !.ready = FALSE, !.isolated = TRUE, !.count.invalid = 0,
                                  !.restarts = @ + failures]
  /\ gone' = gone \cup {e \in Event : first[e] # None}
  /\ UNCHANGED <<clock, first, heard>>

(* Readiness and the number of devices change without a word to the probe. *)
Varies ==
  /\ \/ runtime.ready /\ Trouble /\ runtime' = [runtime EXCEPT !.ready = FALSE]
     \/ /\ ~runtime.ready /\ runtime' = [runtime EXCEPT !.ready = TRUE]
        /\ UNCHANGED <<clock, first, gone, heard, mishaps>>
     \/ /\ Trouble
        /\ \E n \in 0..2 : n # runtime.count.devices /\
                           runtime' = [runtime EXCEPT !.count.devices = n]
  /\ UNCHANGED <<window, journal, spoilt>>

Tick ==
  /\ clock < MaxTime /\ clock' = clock + 1
  /\ UNCHANGED <<window, journal, runtime, first, gone, heard, spoilt, mishaps>>

ProbeInit ==
  /\ clock = 0 /\ window = Idle /\ mishaps = 0
  /\ journal = [e \in Event |-> None] /\ first = journal
  /\ runtime = [ready |-> TRUE, isolated |-> TRUE, restarts |-> 0,
                count |-> [devices |-> 1, invalid |-> 0, changes |-> 0]]
  /\ heard = {} /\ gone = {} /\ spoilt = FALSE

ProbeNext ==
  \/ \E preset \in Preset, length \in 1..MaxWindow : Arm(preset, length)
  \/ Snapshot \/ Reset
  \/ \E e \in Event : Deliver(e)
  \/ UnsafeEvent \/ WrongSurface \/ InvalidFrame \/ PageOpens \/ PageCloses
  \/ SocketRecovers \/ BrowserCloses \/ Varies \/ Tick

ProbeSpec == ProbeInit /\ [][ProbeNext]_probeVars

-----------------------------------------------------------------------------
(* A verdict is about what first came in the window, however late it is      *)
(* given: it passes with exactly one event that matches, and never when the  *)
(* runtime had told it, within the window, that it proves nothing.           *)
VerdictIsTrue ==
  LET matches == heard \cap Matching[window.preset] IN
  /\ window.state = "pass" =>
       ~spoilt /\ Cardinality(matches) = 1 /\ window.candidates = matches
  /\ window.state = "ambiguous" => ~spoilt /\ Cardinality(matches) > 1
  /\ window.reason = "no_match" => ~spoilt /\ matches = {}

(* A window that is open is not replaced by another, only voided, and is     *)
(* judged by its candidates only when it is over; a verdict stands until the *)
(* next window or a reset.                                                   *)
VerdictStands ==
  [][/\ Armed /\ ~Expired /\ window'.state # "voided" =>
          /\ window'.since = window.since /\ window'.preset = window.preset
          /\ window'.state \notin {"pass", "ambiguous"} /\ window'.reason # "no_match"
     /\ window.state \in Verdict /\ window' # window =>
          window'.state \in {"armed", "voided"}]_probeVars
=============================================================================
