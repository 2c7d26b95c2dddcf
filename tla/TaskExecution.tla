---------------------------- MODULE TaskExecution ----------------------------
(***************************************************************************)
(* The implementation phase works on the workspace (execution/service.py,  *)
(* workspace.py, completion.py, evidence.py, paths.py, with the runners of *)
(* orchestrator/llm_task_runner.py and runner.py): take a snapshot, run    *)
(* RED, apply the model's changes, run GREEN, judge the evidence, revert   *)
(* what was not authorised, write the result.                              *)
(*                                                                         *)
(* Simplifications: a file holds one of a few texts, or None when it does  *)
(* not exist; the evidence of a test run is what the completion check tells*)
(* apart: it passed, it failed (a timeout, exit 124, is a failure too), or *)
(* its result.json does not validate (a test run killed by a signal has an *)
(* exit code below -1). required_tests is covered_tests in everything the  *)
(* runners write, so the regression check never rejects.                   *)
(***************************************************************************)
EXTENDS Naturals, Sequences

CONSTANTS
  File,
  Text,
  None,
  Nowhere,   \* the target of a directive that is malformed or leaves the repository
  Original,  \* the workspace before the first attempt
  Seen,      \* files a snapshot covers: not hidden, no caches
  Sandbox,   \* allowed_paths of the runner that writes the changes
  Touched    \* files the tests themselves write or delete

ASSUME WorkspaceAssumption ==
  /\ None \notin Text /\ Nowhere \notin File
  /\ Original \in [File -> Text \cup {None}]
  /\ Seen \subseteq File
  /\ Sandbox \subseteq File /\ Touched \subseteq File

Workspace == [File -> Text \cup {None}]
Evidence == {None, "passed", "failed", "malformed"}
Change == [target : File \cup {Nowhere}, text : Text]

\* Where an attempt at the task is. "ok", "violations" and "raised" are ends.
Step == {"idle", "red", "apply", "write", "judge", "revert", "report",
         "ok", "violations", "raised"}
Ended == {"ok", "violations", "raised"}

VARIABLES
  files,     \* the workspace
  step,
  allowed,   \* allowed_paths of the task under way
  changes,   \* pending_changes, the directives still to be written from "write" on
  snapshot,
  red,       \* red/result.json
  green,     \* green/result.json, both left from attempt to attempt
  reverted,  \* the files revert_unauthorized put back
  tested,    \* history: the workspace of the last test run GREEN passed on
  strayed    \* history: an attempt has left an unauthorised change behind

taskVars == <<files, step, allowed, changes, snapshot, red, green, reverted, tested, strayed>>

NoSnapshot == [f \in File |-> None]

TaskInit ==
  /\ files = Original
  /\ step = "idle"
  /\ allowed = {}
  /\ changes = <<>>
  /\ snapshot = NoSnapshot
  /\ red = None /\ green = None
  /\ reverted = {}
  /\ tested = None
  /\ strayed = FALSE

-----------------------------------------------------------------------------
\* _take_snapshot: every file that exists and is not hidden, with its content.
Snapshot == [f \in File |-> IF f \in Seen THEN files[f] ELSE None]

\* execute, first part.
TakeSnapshot(paths, pending) ==
  /\ step = "idle"
  /\ snapshot' = Snapshot
  /\ allowed' = paths
  /\ changes' = pending
  /\ reverted' = {}
  /\ step' = "red"
  /\ UNCHANGED <<files, red, green, tested, strayed>>

\* What a run of the tests leaves of the workspace.
AfterTests(ws) ==
  {after \in Workspace : \A f \in File \ Touched : after[f] = ws[f]}

\* run_validation of the runners: StubRunner says that the tests pass.
ValidationExits(runner) == IF runner = "stub" THEN {"passed"} ELSE {"passed", "failed"}

\* StubRunner.run_task, also used by LocalCommandRunner: fixed evidence.
StubEvidence ==
  /\ step = "red"
  /\ red' = "failed" /\ green' = "passed"
  /\ step' = "judge"
  /\ UNCHANGED <<files, allowed, changes, snapshot, reverted, tested, strayed>>

\* LLMDrivenTaskRunner.run_task, first test run.
RunRed(result) ==
  /\ step = "red"
  /\ red' = result
  /\ files' \in AfterTests(files)
  /\ step' = "apply"
  /\ UNCHANGED <<allowed, changes, snapshot, green, reverted, tested, strayed>>

\* parse_write_directives: a directive for a file of the sandbox.
Writable(change) == change.target \in Sandbox

\* An attempt ends in an exception that the service lets through.
Raise ==
  /\ step' = "raised"
  /\ UNCHANGED <<files, allowed, changes, snapshot, red, green, reverted, tested, strayed>>

\* Mutant of RejectChanges: the runner drops the changes and leaves its old
\* evidence.
RejectChangesQuietly ==
  /\ step = "apply"
  /\ \E i \in DOMAIN changes : ~Writable(changes[i])
  /\ step' = "judge"
  /\ UNCHANGED <<files, allowed, changes, snapshot, red, green, reverted, tested, strayed>>

\* All directives are parsed before the first is written.
RejectChanges ==
  /\ step = "apply"
  /\ \E i \in DOMAIN changes : ~Writable(changes[i])
  /\ Raise

AcceptChanges ==
  /\ step = "apply"
  /\ \A i \in DOMAIN changes : Writable(changes[i])
  /\ step' = "write"
  /\ UNCHANGED <<files, allowed, changes, snapshot, red, green, reverted, tested, strayed>>

\* apply_write_directives: one file after the other.
WriteChange ==
  /\ step = "write" /\ changes # <<>>
  /\ files' = [files EXCEPT ![Head(changes).target] = Head(changes).text]
  /\ changes' = Tail(changes)
  /\ UNCHANGED <<step, allowed, snapshot, red, green, reverted, tested, strayed>>

WriteFails ==
  /\ step = "write" /\ changes # <<>>
  /\ Raise

\* The second test run.
RunGreen(result) ==
  /\ step = "write" /\ changes = <<>>
  /\ green' = result
  /\ tested' = IF result = "passed" THEN files ELSE tested
  /\ files' \in AfterTests(files)
  /\ step' = "judge"
  /\ UNCHANGED <<allowed, changes, snapshot, red, reverted, strayed>>

\* assert_complete: RED must fail and GREEN must pass.
Complete == red = "failed" /\ green = "passed"

RejectEvidence ==
  /\ step = "judge" /\ ~Complete
  /\ Raise

AcceptEvidence ==
  /\ step = "judge" /\ Complete
  /\ step' = "revert"
  /\ UNCHANGED <<files, allowed, changes, snapshot, red, green, reverted, tested, strayed>>

\* is_authorized, without prohibited paths.
Authorised(f) == f \in allowed

\* Mutant of Unauthorised: files of the sandbox count as authorised.
UnauthorisedOutside ==
  {f \in File \ Sandbox :
     ~Authorised(f) /\ snapshot[f] # None /\ files[f] # None /\ files[f] # snapshot[f]}

\* The files revert_unauthorized puts back: recorded, still there, not allowed
\* and different. A file the attempt created is not recorded, one it deleted is
\* not there.
Unauthorised ==
  {f \in File : ~Authorised(f) /\ snapshot[f] # None /\ files[f] # None
                /\ files[f] # snapshot[f]}

Revert ==
  /\ step = "revert"
  /\ files' = [f \in File |-> IF f \in Unauthorised THEN snapshot[f] ELSE files[f]]
  /\ reverted' = Unauthorised
  /\ step' = "report"
  /\ UNCHANGED <<allowed, changes, snapshot, red, green, tested, strayed>>

\* The end of execute, and what _phase_implementation makes of the violations.
Report ==
  /\ step = "report"
  /\ step' = IF reverted = {} THEN "ok" ELSE "violations"
  /\ UNCHANGED <<files, allowed, changes, snapshot, red, green, reverted, tested, strayed>>

\* A file the task must leave alone is not what it was before the first attempt.
Astray ==
  \E f \in Seen \ allowed : Original[f] # None /\ files[f] # Original[f]

\* An attempt is over: the phase has taken its result, or the process died and
\* nothing was undone.
Leave ==
  /\ step' = "idle"
  /\ allowed' = {} /\ changes' = <<>> /\ snapshot' = NoSnapshot /\ reverted' = {}
  /\ strayed' = (strayed \/ Astray)
  /\ UNCHANGED <<files, red, green, tested>>
-----------------------------------------------------------------------------
TaskTypeOK ==
  /\ files \in Workspace /\ snapshot \in Workspace
  /\ step \in Step
  /\ allowed \subseteq File
  /\ changes \in Seq(Change)
  /\ red \in Evidence /\ green \in Evidence
  /\ reverted \subseteq File
  /\ tested \in Workspace \cup {None}
  /\ strayed \in BOOLEAN
=============================================================================
