---------------------------- MODULE ProtocolGuard ----------------------------
(***************************************************************************)
(* How the bridge notices that SmartThings Web speaks another protocol than *)
(* the one it was built for, and stops serving (createStatusCapturePipeline *)
(* of runtime.ts).  Frames of the pages' sockets go through the             *)
(* ProtocolAnalyzer, whose SnapshotDetector pairs each answer with its      *)
(* request.  A surface of the wrong shape blocks the bridge; the block is   *)
(* kept by ProtocolIntegrityStore in a file that outlives the process.  One *)
(* block of the past, of a card query answered [null, null], may be lifted  *)
(* when a whole session has proved the protocol.                            *)
(*                                                                          *)
(* A frame is handled in one synchronous step.  Two observers see each      *)
(* frame and number its socket on their own, so a socket they both see is   *)
(* two connections here.                                                    *)
(***************************************************************************)
EXTENDS Naturals, FiniteSets, Sequences

CONSTANTS
  Category,     \* REQUIRED_SNAPSHOT_CATEGORIES; device_cards is one of them
  Connection,
  Release,      \* builds of the bridge: the contract's version and fingerprint
  MaxPending,   \* maxPendingRequests, at least 1; 1000 in the code
  MaxSent,      \* bound: snapshot requests at a time
  MaxMishaps,   \* bound: wrong answers, failed writes and ends of the process
  None

VARIABLES
  file,      \* protocol-fingerprint.json, or None
  diag,      \* snapshot_response_diagnostics: the rejected answer of a category
  process,   \* "down", "up", or "refused": the store could not be made
  build,     \* the release that runs
  mem,       \* #state of the ProtocolIntegrityStore
  pending,   \* #pending of the SnapshotDetector, oldest first
  counted,   \* its #categories
  observed,  \* #observedSurfaces of the ProtocolAnalyzer
  guard,     \* the variables of the pipeline
  status,    \* what the bridge tells of itself
  asked,     \* requests the server has not answered
  real,      \* history: what the server's answers really were
  truth,     \* history: what was kept of them
  mishaps    \* history, for the bound

analyzerVars == <<pending, counted, observed>>
vars == <<file, diag, process, build, mem, pending, counted, observed, guard, status, asked,
          real, truth, mishaps>>

-----------------------------------------------------------------------------
Surface == Category \cup {"device_event"}
Fingerprint == {r.fingerprint : r \in Release} \cup {"older"}  \* or of a build that is gone
Version == {r.version : r \in Release}
Key == Surface \cup Fingerprint

Integrity == [version : Version, baseline : Fingerprint \cup {None},
              current : Fingerprint \cup {None}, mismatches : SUBSET Key, last : Key \cup {None}]

(* The only answer besides the regular one that its shape is kept of.        *)
Diagnostic == [version : Version, shape : {"null", "other"}]

TypeOK ==
  /\ file \in Integrity \cup {None} /\ mem \in Integrity \cup {None}
  /\ diag \in [Category -> Diagnostic \cup {None}]
  /\ process \in {"down", "up", "refused"} /\ build \in Release
  /\ pending \in Seq([conn : Connection, id : Nat, category : Category])
  /\ counted \subseteq Category /\ observed \subseteq Surface
  /\ guard \in [blocked : BOOLEAN, candidate : BOOLEAN, event : BOOLEAN, snapshot : BOOLEAN,
                writeFailed : BOOLEAN, seen : BOOLEAN]
  /\ status \in [state : {"SYNCING", "CONNECTED", "PROTOCOL_CHANGED"},
                 push : BOOLEAN, parser : BOOLEAN, initial : BOOLEAN]
  /\ asked \subseteq [conn : Connection, id : Nat, category : Category]
  /\ mishaps \in 0..MaxMishaps
  \* shown well since the session began; asked before it; whether a good answer was taken
  \* for a wrong one
  /\ real \in [shown : SUBSET Surface, slandered : BOOLEAN,
               old : SUBSET [conn : Connection, id : Nat, category : Category]]
  \* a mismatch in this process; a write of it that failed; the recorded one is [null, null]
  /\ truth \in [alarm : BOOLEAN, unwritten : BOOLEAN, nullCards : BOOLEAN]

-----------------------------------------------------------------------------
(* ProtocolIntegrityStore: the state and what becomes of it. *)

Fresh(version) ==
  [version |-> version, baseline |-> None, current |-> None, mismatches |-> {}, last |-> None]

(* snapshot().compatible = false *)
Incompatible(m) ==
  m.mismatches # {} \/ (m.baseline # None /\ m.current # m.baseline)

WithMismatch(m, key) == [m EXCEPT !.mismatches = @ \cup {key}, !.last = key]

WithFingerprint(m, f) ==
  IF m.baseline = None THEN [m EXCEPT !.baseline = f, !.current = f]
  ELSE IF f = m.baseline THEN [m EXCEPT !.current = f]
  ELSE [WithMismatch(m, f) EXCEPT !.current = f]

(* The contract of this code is 6, and the constructor sees to it that the   *)
(* state is of the contract that runs.                                       *)
CanRecover(m) ==
  /\ m.version = 6
  /\ m.mismatches = {"device_cards"} /\ m.last = "device_cards"
  /\ m.baseline = None \/ m.current = m.baseline

Recovered(m, f) ==
  [m EXCEPT !.baseline = f, !.current = f, !.mismatches = {}, !.last = None]

(* validatePersistedInvariants: a file that is not valid is refused. *)
Valid(m) ==
  /\ m.baseline = None <=> m.current = None
  /\ m.last # None => m.last \in m.mismatches
  /\ m.last \in Fingerprint => m.last # m.baseline
  /\ m.current # m.baseline => m.current \in m.mismatches

Mishap == mishaps < MaxMishaps /\ mishaps' = mishaps + 1

(* writeAtomically: it may fail before the file is replaced or after. *)
WriteFails(m) == Mishap /\ file' \in {file, m}
Writes(m, well) ==
  \/ well /\ file' = m /\ UNCHANGED mishaps
  \/ ~well /\ WriteFails(m)

-----------------------------------------------------------------------------
(* What the bridge tells: createHealthReport is ready only with all three. *)

Ready == status.push /\ status.parser /\ status.initial

Off == [blocked |-> FALSE, candidate |-> FALSE, event |-> FALSE, snapshot |-> FALSE,
        writeFailed |-> FALSE, seen |-> FALSE]
Waiting == [state |-> "SYNCING", push |-> FALSE, parser |-> FALSE, initial |-> FALSE]
Blocked == [Waiting EXCEPT !.state = "PROTOCOL_CHANGED"]

(* The evidence that a mismatch was of a card query answered [null, null]:   *)
(* the one diagnostic of this contract.                                      *)
NullCards(version) ==
  LET rows == {c \in Category : diag[c] # None /\ diag[c].version = version}
  IN rows = {"device_cards"} /\ diag["device_cards"].shape = "null"

-----------------------------------------------------------------------------
(* A process starts.  ProtocolIntegrityStore is made first; without it no    *)
(* browser is launched.                                                      *)
Loaded(release) ==
  IF file = None \/ file.version # release.version THEN Fresh(release.version) ELSE file

(* m is what the store begins with.  Diagnostics that cannot be read leave   *)
(* the bridge blocked.                                                       *)
Begins(m, readable) ==
  /\ process' = "up" /\ mem' = m
  /\ guard' = [Off EXCEPT !.blocked = Incompatible(m),
                          !.candidate = CanRecover(m) /\ NullCards(m.version) /\ readable]
  /\ status' = IF Incompatible(m) THEN Blocked ELSE Waiting

Start(release) ==
  LET m == Loaded(release) IN
  /\ process = "down" /\ build' = release
  /\ pending' = <<>> /\ counted' = {} /\ observed' = {}
  /\ real' = [real EXCEPT !.shown = {}, !.old = {}]
  /\ truth' = [truth EXCEPT !.alarm = FALSE, !.unwritten = FALSE]
  /\ \/ /\ file # None => Valid(file)
        /\ Writes(m, TRUE)
        /\ \E readable \in BOOLEAN : Begins(m, readable)
     \/ /\ \/ m # file /\ WriteFails(m)
           \/ file # None /\ ~Valid(file) /\ UNCHANGED <<file, mishaps>>
        /\ process' = "refused" /\ mem' = None /\ status' = Blocked
        /\ guard' = Off
  /\ UNCHANGED <<diag, asked>>

(* It is stopped, or killed, and all but the file and the database is lost.  *)
End ==
  /\ process' = "down" /\ mem' = None /\ guard' = Off /\ status' = Waiting
  /\ pending' = <<>> /\ counted' = {} /\ observed' = {} /\ asked' = {}
  /\ Mishap
  /\ UNCHANGED <<file, diag, build>>

Stop == process # "down" /\ End /\ UNCHANGED <<real, truth>>

-----------------------------------------------------------------------------
(* What the sink makes of a frame that tells of no wrong surface: kind is    *)
(* what the analyzer took it for, "snapshot", "event" or "other".            *)

Complete == counted' = Category
Proved == observed' = Surface   \* there is a protocolFingerprint

(* A frame of a bridge that is not blocked. *)
Progress(kind) ==
  status' =
    CASE kind = "snapshot" ->
           [status EXCEPT !.initial = Complete \/ @,
                          !.state = IF Complete /\ status.push /\ status.parser
                                    THEN "CONNECTED" ELSE "SYNCING"]
      [] kind = "event" ->
           [status EXCEPT !.push = TRUE, !.parser = TRUE,
                          !.state = IF status.initial THEN "CONNECTED" ELSE "SYNCING"]
      [] kind = "other" -> status

(* While a block may be lifted the sink notes what the session has brought.  *)
Lifting == guard.blocked /\ guard.candidate /\ ~guard.writeFailed
Noted(kind) ==
  IF Lifting
  THEN [guard EXCEPT !.event = @ \/ kind = "event",
                     !.snapshot = @ \/ (kind = "snapshot" /\ Complete)]
  ELSE guard
Due(kind) == Lifting /\ Noted(kind).event /\ Noted(kind).snapshot /\ Proved

(* recoverPersistedNullDeviceCardsMismatch: the file is written before the   *)
(* memory, so a failure leaves the bridge blocked.                           *)
Recover(kind) ==
  LET f == build.fingerprint
      m == Recovered(mem, f)
      able == CanRecover(mem) /\ mem.baseline \in {None, f}
  IN /\ Due(kind)
     /\ \/ /\ able /\ Writes(m, TRUE)
           /\ mem' = m
           /\ guard' = [Noted(kind) EXCEPT !.blocked = FALSE, !.candidate = FALSE, !.seen = TRUE]
           /\ status' = [state |-> "CONNECTED", push |-> TRUE, parser |-> TRUE,
                         initial |-> TRUE]
           /\ UNCHANGED truth
        \/ /\ able /\ Writes(m, FALSE)
           /\ guard' = [Noted(kind) EXCEPT !.writeFailed = TRUE, !.candidate = FALSE]
           /\ status' = Blocked /\ truth' = [truth EXCEPT !.unwritten = TRUE]
           /\ UNCHANGED mem
        \/ /\ ~able /\ UNCHANGED <<file, mem, mishaps, truth>>
           /\ guard' = [Noted(kind) EXCEPT !.candidate = FALSE]
           /\ status' = Blocked

StayBlocked(kind) ==
  /\ guard.blocked /\ ~Due(kind)
  /\ guard' = Noted(kind) /\ status' = Blocked
  /\ UNCHANGED <<file, mem, mishaps, truth>>

(* observeProtocolFingerprint: the first time a session has shown all of it. *)
FirstProof(kind) ==
  LET m == WithFingerprint(mem, build.fingerprint) IN
  /\ ~guard.blocked /\ ~guard.seen /\ Proved
  /\ mem' = m
  /\ \E well \in BOOLEAN :
       /\ Writes(m, well)
       /\ truth' = [truth EXCEPT !.unwritten = ~well]
       /\ IF well /\ ~Incompatible(m)
          THEN guard' = [guard EXCEPT !.seen = TRUE] /\ Progress(kind)
          ELSE guard' = [guard EXCEPT !.seen = TRUE, !.blocked = TRUE] /\ status' = Blocked

Serve(kind) ==
  /\ ~guard.blocked /\ (guard.seen \/ ~Proved)
  /\ Progress(kind)
  /\ UNCHANGED <<file, mem, guard, mishaps, truth>>

Sink(kind) ==
  /\ Recover(kind) \/ StayBlocked(kind) \/ FirstProof(kind) \/ Serve(kind)
  /\ UNCHANGED <<diag, process, build>>

\* A new mismatch, and the old one may still be lifted.
StillCandidate == [guard EXCEPT !.blocked = TRUE]

Forfeited == [guard EXCEPT !.blocked = TRUE, !.candidate = FALSE]

(* The sink of a frame with a wrong surface.  The frame itself is kept first *)
(* and forcibly; a database that cannot take it ends the process, as nothing *)
(* catches the error (CaptureFails).  The diagnostic is kept last, and only  *)
(* of snapshots.                                                             *)
CaptureFails == End /\ UNCHANGED truth

Changed(surface, shape) ==
  LET m == WithMismatch(mem, surface) IN
  /\ mem' = m
  /\ Mishap
  /\ \E well \in BOOLEAN :
       /\ IF well THEN file' = m ELSE file' \in {file, m}
       /\ truth' = [alarm |-> TRUE, unwritten |-> ~well,
                    nullCards |-> truth.nullCards /\ surface # "device_cards"]
  /\ guard' = Forfeited
  /\ status' = Blocked
  /\ \/ /\ surface \in Category
        /\ diag' = [diag EXCEPT ![surface] = [version |-> build.version, shape |-> shape]]
     \/ UNCHANGED diag
  /\ UNCHANGED <<process, build>>

-----------------------------------------------------------------------------
(* A page asks; a frame too long for the log is not seen (extractTextFrame). *)
(* The number is one that no unanswered request of the socket has.           *)
Send(c, category, seen) ==
  LET used == {a.id : a \in {b \in asked : b.conn = c}}
      request == [conn |-> c, category |-> category,
                  id |-> CHOOSE n \in 0..MaxSent : n \notin used /\ 0..(n - 1) \subseteq used]
      room == IF Len(pending) >= MaxPending THEN Tail(pending) ELSE pending
  IN /\ process = "up" /\ Cardinality(asked) < MaxSent
     /\ asked' = asked \cup {request}
     /\ pending' = IF seen THEN Append(room, request) ELSE pending
     /\ UNCHANGED <<counted, observed, real>>
     /\ Sink("other")

(* The request an answer belongs to: the one of its socket with its number.  *)
Waits(p, a) == p.conn = a.conn /\ p.id = a.id

\* As in release 1.8.66: [null, null] is a wrong answer whatever was asked.
NullIsWrong(p, a, shape) ==
  IF shape = "error" THEN "other"
  ELSE IF shape = "good" /\ a.category = p.category THEN "snapshot" ELSE "changed"

(* observeReceivedFrame takes [null, null] for a card query, and an error of *)
(* the service, for no answer; and what classifySnapshotResponse makes of    *)
(* another one must be what was asked for.                                   *)
Verdict(p, a, shape) ==
  IF shape = "error" \/ (shape = "null" /\ p.category = "device_cards") THEN "other"
  ELSE IF shape = "good" /\ a.category = p.category THEN "snapshot" ELSE "changed"

IsWrong(a, shape) == shape = "bad" \/ (shape = "null" /\ a.category # "device_cards")

Answer(a, shape) ==
  LET found == SelectSeq(pending, LAMBDA p : Waits(p, a))
      p == Head(found)
      verdict == IF found = <<>> THEN "other" ELSE Verdict(p, a, shape)
      heard == IF verdict = "snapshot" THEN {p.category} ELSE {}
  IN /\ process = "up"
     /\ real' = [shown |-> IF found # <<>> /\ shape = "good" /\ a \notin real.old
                           THEN real.shown \cup {a.category} ELSE real.shown,
                 slandered |-> real.slandered \/ (verdict = "changed" /\ ~IsWrong(a, shape)),
                 old |-> real.old \ {a}]
     /\ \/ /\ pending' = SelectSeq(pending, LAMBDA q : ~Waits(q, a))
           /\ counted' = counted \cup heard /\ observed' = observed \cup heard
           /\ asked' = asked \ {a}
           /\ \/ verdict # "changed" /\ Sink(verdict)
              \/ verdict = "changed" /\ Changed(p.category, IF shape = "null" THEN "null" ELSE "other")
        \/ verdict = "changed" /\ CaptureFails

(* An event of a device, which names what it is about or does not.           *)
Event ==
  /\ process = "up"
  /\ observed' = observed \cup {"device_event"}
  /\ real' = [real EXCEPT !.shown = @ \cup {"device_event"}]
  /\ UNCHANGED <<pending, counted, asked>>
  /\ Sink("event")

WrongEvent ==
  /\ process = "up"
  /\ UNCHANGED real
  /\ \/ UNCHANGED <<analyzerVars, asked>> /\ Changed("device_event", "other")
     \/ CaptureFails

-----------------------------------------------------------------------------
(* What else the bridge does to its status and to the pipeline. *)

Unproved == [guard EXCEPT !.seen = FALSE, !.event = FALSE, !.snapshot = FALSE]

\* What the old session has counted counts for the new one.
StillCounted ==
  /\ process = "up" /\ status.state # "PROTOCOL_CHANGED"
  /\ pending' = <<>> /\ observed' = observed \ Category
  /\ guard' = Unproved /\ status' = Waiting
  /\ real' = [real EXCEPT !.shown = @ \ Category, !.old = asked]
  /\ UNCHANGED <<file, diag, process, build, mem, counted, asked, truth, mishaps>>

(* onRecoveryAttempt: the socket has gone quiet and its page is loaded again. *)
(* Answers to what it had asked may still come.                              *)
RecoveryAttempt ==
  /\ process = "up" /\ status.state # "PROTOCOL_CHANGED"
  /\ pending' = <<>> /\ counted' = {} /\ observed' = observed \ Category
  /\ guard' = Unproved /\ status' = Waiting
  /\ real' = [real EXCEPT !.shown = @ \ Category, !.old = asked]
  /\ UNCHANGED <<file, diag, process, build, mem, asked, truth, mishaps>>

(* The browser has closed. *)
ContextCloses ==
  /\ process = "up"
  /\ pending' = <<>> /\ counted' = {} /\ observed' = {}
  /\ guard' = Unproved
  /\ status' = Waiting
  /\ asked' = {} /\ real' = [real EXCEPT !.shown = {}, !.old = {}]
  /\ UNCHANGED <<file, diag, process, build, mem, truth, mishaps>>

(* A browser has started: a block is told again. *)
BrowserStarted ==
  /\ process = "up" /\ status.state # "PROTOCOL_CHANGED" /\ Incompatible(mem)
  /\ status' = Blocked
  /\ UNCHANGED <<file, diag, process, build, mem, analyzerVars, guard, asked, real, truth,
                 mishaps>>

(* statusForManagedKeeper tells the state by the page, whatever it was.      *)
KeeperTold ==
  /\ process = "up" /\ status.state # "SYNCING"
  /\ status' = [status EXCEPT !.state = "SYNCING"]
  /\ UNCHANGED <<file, diag, process, build, mem, analyzerVars, guard, asked, real, truth,
                 mishaps>>

-----------------------------------------------------------------------------
(* The bridge may find what another release of contract 6 left behind: one   *)
(* that knew other surfaces, or one that took [null, null] for a wrong       *)
(* answer, before or after it had proved these surfaces.                     *)
Leftover ==
  {[Fresh(6) EXCEPT !.baseline = "older", !.current = "older"]} \cup
  {[WithMismatch(Fresh(6), "device_cards") EXCEPT !.baseline = f, !.current = f] :
     f \in {None} \cup {r.fingerprint : r \in {q \in Release : q.version = 6}}}

Init ==
  /\ file \in {None} \cup Leftover
  /\ diag \in {[c \in Category |-> IF c = "device_cards" THEN d ELSE None] :
                 d \in {None} \cup [version : {6}, shape : {"null", "other"}]}
  /\ diag["device_cards"] # None => file # None /\ file.mismatches # {}
  /\ process = "down" /\ build \in Release /\ mem = None
  /\ pending = <<>> /\ counted = {} /\ observed = {}
  /\ guard = Off /\ status = Waiting /\ asked = {}
  /\ real = [shown |-> {}, slandered |-> FALSE, old |-> {}]
  /\ truth = [alarm |-> FALSE, unwritten |-> FALSE,
              nullCards |-> diag["device_cards"] # None /\ diag["device_cards"].shape = "null"]
  /\ mishaps = 0

Next ==
  \/ \E release \in Release : Start(release)
  \/ Stop
  \/ \E c \in Connection, category \in Category, seen \in BOOLEAN : Send(c, category, seen)
  \/ \E a \in asked, shape \in {"good", "null", "error", "bad"} : Answer(a, shape)
  \/ Event \/ WrongEvent
  \/ RecoveryAttempt \/ ContextCloses \/ BrowserStarted \/ KeeperTold

Spec == Init /\ [][Next]_vars

-----------------------------------------------------------------------------
(* Whatever write failed or process died, the next start can read the file.  *)
NextStartReads == file # None => Valid(file)

(* A bridge that says it is ready is not blocked, has kept on disk that it   *)
(* knows this protocol, and has been shown every surface of it, well, in the *)
(* session at hand: by answers to what that session asked.                   *)
ReadyIsProved ==
  Ready \/ status.state = "CONNECTED" =>
    /\ process = "up" /\ Ready /\ ~guard.blocked /\ guard.seen
    /\ mem = file /\ ~Incompatible(mem) /\ mem.baseline = build.fingerprint
    /\ real.shown = Surface

(* The bridge is blocked exactly for a mismatch in its store or a write that *)
(* failed, and a surface is on record as wrong only when it really was.      *)
BlockIsEarned ==
  process = "up" =>
    /\ Incompatible(mem) => guard.blocked
    /\ guard.blocked => Incompatible(mem) \/ truth.unwritten
    /\ ~real.slandered

(* A mismatch that was written is on disk, whatever becomes of the process.  *)
BlockSurvives ==
  process = "up" /\ guard.blocked /\ ~truth.unwritten => file = mem

GuardIsSound ==
  /\ TypeOK /\ NextStartReads /\ ReadyIsProved /\ BlockIsEarned /\ BlockSurvives

(* A mismatch leaves the file only with its contract, or when it was that of *)
(* a card query, no other is on record, its one diagnostic is [null, null],  *)
(* nothing wrong was seen since the start, and the whole protocol was shown  *)
(* in the session at hand.                                                   *)
LiftedRightly ==
  [][(file # None /\ file'.version = file.version) =>
       \/ file.mismatches \subseteq file'.mismatches
       \/ /\ file.mismatches = {"device_cards"} /\ diag["device_cards"].shape = "null"
          /\ \A c \in Category \ {"device_cards"} : diag[c] = None \/ diag[c].version # 6
          /\ ~truth.alarm
          /\ real'.shown = Surface]_vars

(* Refuted: a [null, null] that was on record says nothing of a later answer *)
(* whose diagnostic was lost.                                                *)
LiftsOnlyNullCards ==
  [][guard.blocked /\ ~guard'.blocked /\ process' = process => truth.nullCards]_vars

(* Refuted: docs/protocol-report.md has it that a contract cannot heal.      *)
CannotSelfHeal ==
  [][(file # None /\ file'.version = file.version) =>
       file.mismatches \subseteq file'.mismatches]_vars
=============================================================================
