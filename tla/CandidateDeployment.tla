------------------------ MODULE CandidateDeployment ------------------------
(***************************************************************************)
(* tools/haos-candidate-deploy.ts: an operator's tool that puts a candidate  *)
(* of the add-on onto a Home Assistant host over SSH and puts the pinned      *)
(* version back when anything after the activation fails.                    *)
(*                                                                         *)
(* Every remote command is a script on the host that ends with a marker.  It  *)
(* may fail, half done where it can be; SSH may fail while the script runs    *)
(* to its end, or while it is still to run.  The tool may be killed, and is   *)
(* run again only when nothing is left running on the host.                  *)
(***************************************************************************)
EXTENDS Naturals, FiniteSets

CONSTANTS
  MaxRuns,     \* bound: runs of the tool
  MaxMishaps,  \* bound: what goes wrong outside the tool
  None

\* What a source directory or an image may hold.  All of the first say that they are the
\* pinned version: in "hotpatched" the runtime file is another one, in "altered" a file
\* that nobody looks at.  All of the second say that they are the candidate: in "other"
\* the manifest is another one, in "changed" a file that nobody looks at.
SaysPinned == {"pinned", "hotpatched", "altered"}
SaysCandidate == {"candidate", "other", "changed"}
Content == SaysPinned \cup SaysCandidate

\* HAOS_ROLLBACK_RUNTIME_SHA256 of HAOS_ROLLBACK_RUNTIME_PATH: one file is hashed.
RuntimePinned == {"pinned", "altered"}

\* The hash of HAOS_CANDIDATE_MANIFEST_RUNTIME_PATH: the manifest alone is hashed, not
\* the files it names.
Packaged == {"candidate", "changed"}

Archive == {"none", "good", "bad"}

\* The steps of executeDeployment, and of restoreRollback.
Deploys == <<"initialize", "upload", "prepare", "recheck", "activate", "reload", "update",
             "health", "version", "cleanup">>
Restores == <<"restore", "reload_back", "rebuild", "health_back", "version_back", "cleanup_back">>
In(steps) == {steps[i] : i \in DOMAIN steps}
After(steps, step) == steps[(CHOOSE i \in DOMAIN steps : steps[i] = step) + 1]
Steps == In(Deploys) \cup In(Restores)
Results == {"none", "preview", "succeeded", "failed", "rolled_back", "rollback_failed"}

VARIABLES
  at,        \* the step the tool is at
  options,   \* --execute, --defer-soak, --accept-hotpatched-runtime
  result,    \* what the tool reported last
  leave,     \* history: what the last inspection after staging found
  gate,      \* the soak gate lets a candidate through
  tree,      \* the work tree is clean, on main, published and the pinned commit
  uploads,   \* the two archives in the temporary directory
  staged,    \* candidate-source holds the candidate, or part of it
  backup,    \* the durable rollback archive
  source,    \* the add-on's source directory, none when it was removed
  store,     \* the source the Supervisor knows since the last reload
  image,     \* what runs
  healthy,   \* the add-on answers its health checks
  byHand,    \* history: what runs was changed in place since it was built
  touched,   \* history: and since the tool last looked
  late,      \* scripts that still run on the host though SSH has failed
  runs, mishaps

host == <<uploads, staged, backup, source, store, image, byHand, healthy>>
vars == <<at, options, result, leave, gate, tree, host, touched, late, runs, mishaps>>

Options == [execute : BOOLEAN, deferSoak : BOOLEAN, hotpatched : BOOLEAN]
Facts == [gate : BOOLEAN, tree : BOOLEAN, image : Content]

TypeOK ==
  /\ at \in Steps \cup {"idle", "inspect"} /\ options \in Options /\ result \in Results
  /\ leave \in Facts \cup {None} /\ gate \in BOOLEAN /\ tree \in BOOLEAN
  /\ uploads \in [candidate : Archive, rollback : Archive]
  /\ staged \in {"none", "part", "whole"} /\ backup \in Archive
  /\ source \in Content \cup {None} /\ store \in Content \cup {None} /\ image \in Content
  /\ byHand \in BOOLEAN /\ healthy \in BOOLEAN /\ touched \in BOOLEAN /\ late \subseteq Steps
  /\ runs \in 0..MaxRuns /\ mishaps \in 0..MaxMishaps

Init ==
  /\ at = "idle" /\ options = [execute |-> FALSE, deferSoak |-> FALSE, hotpatched |-> FALSE]
  /\ result = "none" /\ leave = None /\ gate \in BOOLEAN /\ tree \in BOOLEAN
  /\ uploads = [candidate |-> "none", rollback |-> "none"] /\ staged = "none" /\ backup = "none"
  /\ source \in SaysPinned /\ store = source /\ image = source /\ healthy = TRUE
  /\ byHand = FALSE /\ touched = FALSE /\ late = {} /\ runs = 0 /\ mishaps = 0

Mishap == mishaps < MaxMishaps /\ mishaps' = mishaps + 1

-----------------------------------------------------------------------------
\* Whether the tool may go on.

Facts0 == [gate |-> gate, tree |-> tree, image |-> image]

\* evaluateHaosCandidatePreflight: the candidate's version is newer than that of
\* what runs, which is the pinned one and started.
PreflightReasons(f) ==
  {r \in {"soak_gate_blocked", "source", "installed"} :
     \/ r = "soak_gate_blocked" /\ ~f.gate
     \/ r = "source" /\ ~f.tree
     \/ r = "installed" /\ f.image \notin SaysPinned}

\* evaluateHaosCandidateDeploymentReadiness: of what runs, the runtime file alone.
Reasons(f) ==
  {r \in {"preflight_blocked", "rollback_runtime_mismatch"} :
     \/ r = "preflight_blocked" /\ PreflightReasons(f) # {}
     \/ r = "rollback_runtime_mismatch" /\ f.image \notin RuntimePinned}

\* Authorized when a deferred soak stands for any reason of the preflight.
AuthorizedByDeferral(f) == Reasons(f) = {} \/ (options.deferSoak /\ "preflight_blocked" \in Reasons(f))

\* isDeploymentAuthorized: nothing stands in the way, or just what the operator has
\* waived does.
Authorized(f) ==
  \/ Reasons(f) = {}
  \/ /\ options.deferSoak
     /\ Reasons(f) = {"preflight_blocked"} \cup
                     (IF options.hotpatched THEN {"rollback_runtime_mismatch"} ELSE {})
     /\ PreflightReasons(f) = {"soak_gate_blocked"}

-----------------------------------------------------------------------------
\* The scripts, by what they do to the host when they run to their end, and the
\* state they need.

Host(u, st, b, so, sto, h) ==
  /\ uploads' = u /\ staged' = st /\ backup' = b /\ source' = so /\ store' = sto
  /\ healthy' = h /\ UNCHANGED <<image, byHand>>

Initialize ==
  Host([candidate |-> "none", rollback |-> "none"], staged, backup, source, store, healthy)

\* Prepare that takes the rollback archive as it came.
PrepareUnchecked ==
  /\ uploads.candidate = "good" /\ uploads.rollback # "none"
  /\ Host(uploads, "whole", uploads.rollback, source, store, healthy)

\* buildHaosPrepareRemoteScript: both archives are what was sent, the candidate is
\* unpacked, and the rollback archive kept by a rename.
Prepare ==
  /\ uploads = [candidate |-> "good", rollback |-> "good"]
  /\ Host(uploads, "whole", uploads.rollback, source, store, healthy)

\* buildHaosActivateRemoteScript.
Activate ==
  /\ staged # "none" /\ Host(uploads, "none", backup, "candidate", store, healthy)

Reload == Host(uploads, staged, backup, source, source, healthy)

\* The Supervisor builds what is in the source directory.
Rebuild ==
  /\ source # None /\ image' = source /\ byHand' = FALSE /\ healthy' = TRUE
  /\ UNCHANGED <<uploads, staged, backup, source, store>>

\* It does so if the store has another version than the pinned one.
Update == store \notin SaysPinned \cup {None} /\ Rebuild

\* buildHaosRollbackSourceRemoteScript.
Restore == backup = "good" /\ Host(uploads, staged, backup, "pinned", store, healthy)

\* buildHaosCleanupRemoteScript.
Cleanup ==
  Host([candidate |-> "none", rollback |-> "none"], "none", backup, source, store, healthy)

Script(step) ==
  \/ step = "initialize" /\ Initialize
  \/ step = "prepare" /\ Prepare
  \/ step = "activate" /\ Activate
  \/ step \in {"reload", "reload_back"} /\ Reload
  \/ step = "update" /\ Update
  \/ step = "restore" /\ Restore
  \/ step = "rebuild" /\ "update" \notin late /\ Rebuild
  \/ step \in {"cleanup", "cleanup_back"} /\ Cleanup

\* A script that stops half way: nothing is lost but what it removes first.
Half(step) ==
  \/ /\ step = "prepare"
     /\ \E b \in {backup} \cup ({uploads.rollback} \cap {"good"}) :
          Host(uploads, "part", b, source, store, healthy)
  \/ step = "activate" /\ staged # "none"
     /\ Host(uploads, staged, backup, None, store, healthy)
  \/ step = "restore" /\ backup = "good"
     /\ Host(uploads, staged, backup, None, store, healthy)
  \/ step \in {"update", "rebuild"}
     /\ \E h \in BOOLEAN : Host(uploads, staged, backup, source, store, h)
  \/ step \notin {"prepare", "activate", "restore", "update", "rebuild"} /\ UNCHANGED host

-----------------------------------------------------------------------------
\* The tool.

Scripted == {"initialize", "prepare", "activate", "reload", "update", "cleanup", "restore",
             "reload_back", "rebuild", "cleanup_back"}

Tool == <<options, leave, gate, tree, touched, late, runs, mishaps>>

Ends(r) == at' = "idle" /\ result' = r

\* The next step; the last cleanup's outcome does not matter.
Goes ==
  IF at = "cleanup" THEN Ends("succeeded")
  ELSE IF at = "cleanup_back" THEN Ends("rolled_back")
  ELSE /\ at' = IF at \in In(Deploys) THEN After(Deploys, at) ELSE After(Restores, at)
       /\ UNCHANGED result

\* What an error leads to: before the activation the tool ends, after it the pinned
\* version is restored, and then nothing more can be done.
Fails ==
  IF at \in {"cleanup", "cleanup_back"} THEN Goes
  ELSE IF at \in {"initialize", "upload", "prepare", "recheck"} THEN Ends("failed")
  ELSE IF at \in In(Deploys) THEN at' = "restore" /\ UNCHANGED result
  ELSE Ends("rollback_failed")

\* The tool is started, and inspects everything first.
StartTool(o) ==
  /\ at = "idle" /\ late = {} /\ runs < MaxRuns /\ runs' = runs + 1
  /\ at' = "inspect" /\ options' = o /\ result' = "none" /\ leave' = None
  /\ UNCHANGED <<gate, tree, host, touched, late, mishaps>>

\* A preview, and what is not authorized, end here.
Inspect ==
  /\ at = "inspect"
  /\ IF options.execute /\ Authorized(Facts0) THEN at' = "initialize" /\ UNCHANGED result
     ELSE Ends("preview")
  /\ UNCHANGED <<host, Tool>>

\* The inspection is repeated after staging; if it turns out otherwise, the temporary
\* files are removed.
Recheck ==
  /\ at = "recheck"
  /\ leave' = Facts0
  /\ IF Authorized(Facts0) THEN Goes /\ UNCHANGED host
     ELSE /\ Ends("failed")
          /\ \/ Cleanup
             \/ UNCHANGED host
  /\ UNCHANGED <<options, gate, tree, touched, late, runs, mishaps>>

Upload ==
  /\ at = "upload" /\ Goes
  /\ Host([candidate |-> "good", rollback |-> "good"], staged, backup, source, store, healthy)
  /\ UNCHANGED Tool

\* What arrives is not what was sent.
UploadDamaged ==
  /\ at = "upload" /\ Mishap /\ Goes
  /\ \E u \in [candidate : {"good", "bad"}, rollback : {"good", "bad"}] :
       Host(u, staged, backup, source, store, healthy)
  /\ UNCHANGED <<options, leave, gate, tree, touched, late, runs>>

\* The script ran to its end and its marker arrived; a script that cannot do what it
\* is for says so.
Runs ==
  /\ at \in Scripted
  /\ IF ENABLED Script(at) THEN Script(at) /\ Goes ELSE Fails /\ UNCHANGED host
  /\ UNCHANGED Tool

\* It stopped half way.
Stops ==
  /\ at \in Scripted /\ Mishap /\ Half(at) /\ Fails
  /\ UNCHANGED <<options, leave, gate, tree, touched, late, runs>>

\* SSH failed: the script has run, or still runs.
Lost ==
  /\ at \in Scripted /\ Mishap /\ Fails
  /\ \/ Script(at) /\ UNCHANGED late
     \/ late' = late \cup {at} /\ UNCHANGED host
  /\ UNCHANGED <<options, leave, gate, tree, touched, runs>>

\* A script that still runs comes to its end.
RunsLate(step) ==
  /\ step \in late /\ late' = late \ {step}
  /\ \/ Script(step)
     \/ UNCHANGED host
  /\ UNCHANGED <<at, options, result, leave, gate, tree, touched, runs, mishaps>>

\* waitForHealth: thirty attempts.
Health ==
  /\ at \in {"health", "health_back"}
  /\ IF healthy THEN Goes ELSE Fails
  /\ UNCHANGED <<host, Tool>>

\* Verified by the version alone.
VersionOnly == image \in (IF at = "version" THEN SaysCandidate ELSE SaysPinned)

\* verifyInstalledVersion with the manifest of what runs, and restoreRollback's check
\* of the runtime file.
Verified == image \in (IF at = "version" THEN Packaged ELSE RuntimePinned)

Version ==
  /\ at \in {"version", "version_back"}
  /\ IF Verified THEN Goes ELSE Fails
  /\ touched' = FALSE
  /\ UNCHANGED <<host, options, leave, gate, tree, late, runs, mishaps>>

\* What the tool asks is not answered.
NoAnswer ==
  /\ at \in {"upload", "recheck", "health", "health_back", "version", "version_back"}
  /\ Mishap /\ Fails
  /\ UNCHANGED <<host, options, leave, gate, tree, touched, late, runs>>

\* The tool is killed; what it has started goes on.
Killed ==
  /\ at # "idle" /\ Mishap /\ at' = "idle" /\ result' = "none"
  /\ late' \in {late, late \cup ({at} \cap Scripted)}
  /\ UNCHANGED <<options, leave, gate, tree, host, touched, runs>>

-----------------------------------------------------------------------------
\* Outside the tool.

GateChanges == Mishap /\ gate' = ~gate
               /\ UNCHANGED <<at, options, result, leave, tree, host, touched, late, runs>>
TreeChanges == Mishap /\ tree' = ~tree
               /\ UNCHANGED <<at, options, result, leave, gate, host, touched, late, runs>>

\* Somebody changes a file in the running container.
ImageChanges ==
  /\ Mishap
  /\ image' \in (IF image \in SaysPinned THEN SaysPinned ELSE SaysCandidate) \ {image}
  /\ byHand' = TRUE /\ touched' = TRUE
  /\ UNCHANGED <<at, options, result, leave, gate, tree, uploads, staged, backup, source,
                 store, healthy, late, runs>>

AppFails ==
  /\ Mishap /\ healthy' = ~healthy
  /\ UNCHANGED <<at, options, result, leave, gate, tree, uploads, staged, backup, source,
                 store, image, byHand, touched, late, runs>>

Next ==
  \/ \E o \in Options : StartTool(o)
  \/ Inspect \/ Recheck \/ Upload \/ UploadDamaged \/ Runs \/ Stops \/ Lost \/ Health \/ Version
  \/ NoAnswer \/ Killed
  \/ \E step \in Steps : RunsLate(step)
  \/ GateChanges \/ TreeChanges \/ ImageChanges \/ AppFails

Spec == Init /\ [][Next]_vars

-----------------------------------------------------------------------------
\* What the tool reports is so (docs/haos-soak.md: "Success requires the expected
\* version, the exact packaged manifest inside the running container"): what runs has
\* the manifest of the package, or after a rollback the runtime file of the pinned
\* version, unless that was changed in the container since the tool has looked.  The
\* other files are not looked at; they are those of the package, or of the pinned
\* version, unless one was changed in the container since it was built.
ReportsAreTrue ==
  [][/\ result' = "succeeded" /\ result # "succeeded" =>
          (image' \in Packaged \/ touched) /\ (image' = "candidate" \/ byHand)
     /\ result' = "rolled_back" /\ result # "rolled_back" =>
          (image' \in RuntimePinned \/ touched) /\ (image' = "pinned" \/ byHand)]_vars

\* What is reported as deployed, or as rolled back, runs to the last file when the tool
\* has looked at it, whatever was changed in the container before.
EveryFileIsSeen ==
  [][/\ result' = "succeeded" /\ result # "succeeded" => image' = "candidate" \/ touched
     /\ result' = "rolled_back" /\ result # "rolled_back" => image' = "pinned" \/ touched]_vars

\* Whenever the source is not the one that was there before, the pinned version can
\* be had back from the host alone, whatever failed and whoever was killed.
RollbackAtHand == source \in {"candidate", None} => backup = "good"

\* Nothing is activated unless the look after staging found the pinned commit, the
\* pinned version running, and a soak that passed or that the operator has waived.
NothingUnasked ==
  [][source' # source /\ source \in SaysPinned =>
       /\ leave # None /\ leave.tree /\ leave.image \in SaysPinned
       /\ leave.gate \/ options.deferSoak
       /\ leave.image \in RuntimePinned \/ options.hotpatched
       /\ options.execute]_vars

\* A deployment does what the operator asked for and reports what happened.
DeploymentIsSound == ReportsAreTrue /\ NothingUnasked
=============================================================================
