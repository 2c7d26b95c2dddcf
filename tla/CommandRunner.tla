--------------------------- MODULE CommandRunner ---------------------------
(***************************************************************************)
(* One command under LocalCommandRunner (orchestrator/runner.py) with or   *)
(* without a cancellation token, or under SubprocessSandbox                *)
(* (sandbox/subprocess_sandbox.py) with or without a CancellationWatcher   *)
(* (sandbox/cancellation.py): the thread that waits, the watcher thread,   *)
(* the command's processes, a canceller and the clock act concurrently.    *)
(*                                                                         *)
(* The command is a leader and the kids it has started; all exist from the *)
(* start. Processes and pipes are the operating system's: what a process   *)
(* may do is chosen once per behaviour; one that catches SIGTERM to clean  *)
(* up is deaf and ends by itself. Waiting with a limit of some seconds     *)
(* ends when the condition holds or at any other time.                     *)
(***************************************************************************)

CONSTANTS
  Leader,  \* the process that Popen returns
  Kid,     \* processes the command leaves behind it or waits for
  None

Process == {Leader} \cup Kid

\* How a process ends, and what the runner may report besides.
Status == {"ok", "fail", "term", "kill"}
Outcome == Status \cup {"unspawned", "timeout", "cancelled"}

ASSUME RunnerAssumption == Leader \notin Kid /\ None \notin Outcome

VARIABLES
  how,      \* "simple": _run_validation_simple, "group": _run_validation_cancellable, or "sandbox"
  deaf,     \* processes that ignore SIGTERM
  away,     \* kids that have left the process group
  holds,    \* processes that hold stdout or stderr open
  chatty,   \* those among them that write more than a pipe takes
  stuck,    \* processes that do not end by themselves
  hurry,    \* may the timeout hit a command that would end by itself?
  alive,    \* the processes of the command
  code,     \* how the leader ended
  token,    \* is the CancellationToken set?
  asked,    \* history: somebody else than the runner has set it
  due,      \* has the timeout passed?
  watcher,  \* the CancellationWatcher, "none" without a token
  stopping, \* its _stop_requested
  pc,       \* where the waiting thread is
  result    \* the exit code it reports

nature == <<how, deaf, away, holds, chatty, stuck, hurry>>
os == <<alive, code>>
cancellation == <<token, asked>>
watching == <<watcher, stopping>>
vars == <<nature, os, cancellation, due, watching, pc, result>>

Init ==
  /\ how \in {"simple", "group", "sandbox"}
  /\ deaf \in SUBSET Process /\ stuck \in SUBSET Process
  /\ away \in SUBSET Kid
  /\ \E K \in SUBSET Kid : holds = {Leader} \cup K
  /\ chatty \in SUBSET holds
  /\ hurry \in BOOLEAN
  /\ alive = {} /\ code = None
  /\ token = FALSE /\ asked = FALSE /\ due = FALSE
  /\ watcher \in IF how = "sandbox" THEN {"none", "watch"} ELSE {"none"}
  /\ stopping = FALSE
  /\ pc = "idle" /\ result = None

-----------------------------------------------------------------------------
(* The command's processes, the clock and the canceller.                   *)

\* Mutant of Reading: wait() first, communicate() afterwards, everywhere.
ReadingLate == pc \in {"reap", "drain", "flush"}

\* Does somebody read the pipes? The polling loop does not.
Reading == pc \in {"communicate", "reap", "drain", "flush"}

\* A process that writes more than the pipe takes waits for a reader.
CanEnd(p) == p \notin stuck /\ (p \in chatty => Reading)

Ends(p) ==
  /\ p \in alive /\ CanEnd(p)
  /\ alive' = alive \ {p}
  /\ IF p = Leader THEN code' \in {"ok", "fail"} ELSE UNCHANGED code
  /\ UNCHANGED <<nature, cancellation, due, watching, pc, result>>

\* The timeout passes. Without hurry it is longer than anything takes that
\* ends at all.
TimeoutPasses ==
  /\ pc \notin {"idle", "returned"} /\ ~due
  /\ hurry \/ \E p \in alive : ~CanEnd(p)
  /\ due' = TRUE
  /\ UNCHANGED <<nature, os, cancellation, watching, pc, result>>

\* cancel_run sets the token, if the runner was given one.
Cancel ==
  /\ how = "group" \/ watcher # "none"
  /\ ~asked
  /\ asked' = TRUE /\ token' = TRUE
  /\ UNCHANGED <<nature, os, due, watching, pc, result>>

\* Processes P are sent a signal: SIGTERM unless it is a SIGKILL.
Killed(P, sig) ==
  LET hit == IF sig = "kill" THEN P \cap alive ELSE (P \cap alive) \ deaf
  IN /\ alive' = alive \ hit
     /\ code' = IF Leader \in hit THEN sig ELSE code

\* What os.killpg reaches.
Group == Process \ away

-----------------------------------------------------------------------------
(* The waiting thread: spawning and reading.                               *)

Spawn ==
  /\ pc = "idle"
  /\ alive' = Process
  /\ pc' = IF how = "group" THEN "poll" ELSE "communicate"
  /\ UNCHANGED <<nature, code, cancellation, due, watching, result>>

\* Popen raises, before there is a watcher.
SpawnFails ==
  /\ pc = "idle"
  /\ pc' = "returned" /\ result' = "unspawned" /\ watcher' = "none"
  /\ UNCHANGED <<nature, os, cancellation, due, stopping>>

\* communicate returns: the pipes are closed and the leader is reaped.
Silent == Leader \notin alive /\ alive \cap holds = {}

Communicate ==
  /\ pc = "communicate" /\ Silent
  /\ pc' = IF how = "sandbox" THEN "stop" ELSE "result"
  /\ UNCHANGED <<nature, os, cancellation, due, watching, result>>

\* subprocess.run kills the leader, waits for it alone and raises.
SimpleTimeout ==
  /\ pc = "communicate" /\ how = "simple" /\ due /\ ~Silent
  /\ Killed({Leader}, "kill")
  /\ pc' = "returned" /\ result' = "timeout"
  /\ UNCHANGED <<nature, cancellation, due, watching>>

-----------------------------------------------------------------------------
(* _run_validation_cancellable.                                            *)

Poll ==
  /\ pc = "poll"
  /\ pc' = IF Leader \in alive THEN "check" ELSE "drain"
  /\ UNCHANGED <<nature, os, cancellation, due, watching, result>>

\* Mutants of Terminate: SIGTERM to the leader alone; the timeout does not
\* end the loop.
TerminateLeader ==
  /\ pc = "check" /\ (token \/ due)
  /\ token' = TRUE
  /\ Killed({Leader}, "term")
  /\ pc' = "grace"
  /\ UNCHANGED <<nature, asked, due, watching, result>>

TerminateCancelled ==
  /\ pc = "check" /\ token
  /\ Killed(Group, "term")
  /\ pc' = "grace"
  /\ UNCHANGED <<nature, cancellation, due, watching, result>>

\* Cancelled or timed out: set the token and send SIGTERM to the group.
Terminate ==
  /\ pc = "check" /\ (token \/ due)
  /\ token' = TRUE
  /\ Killed(Group, "term")
  /\ pc' = "grace"
  /\ UNCHANGED <<nature, asked, due, watching, result>>

GoOn ==
  /\ pc = "check" /\ ~token /\ ~due
  /\ pc' = "poll"
  /\ UNCHANGED <<nature, os, cancellation, due, watching, result>>

\* wait(timeout=grace + 5) returns.
Wait ==
  /\ pc = "grace" /\ Leader \notin alive
  /\ pc' = "drain"
  /\ UNCHANGED <<nature, os, cancellation, due, watching, result>>

\* It raises: SIGKILL to the group.
Escalate ==
  /\ pc = "grace" /\ Leader \in alive
  /\ Killed(Group, "kill")
  /\ pc' = "drain"
  /\ UNCHANGED <<nature, cancellation, due, watching, result>>

\* communicate(timeout=2) returns.
Drain ==
  /\ pc = "drain" /\ Silent
  /\ pc' = "result"
  /\ UNCHANGED <<nature, os, cancellation, due, watching, result>>

\* It raises, because kids hold the pipes: SIGKILL to the group.
DrainFails ==
  /\ pc = "drain" /\ ~Silent
  /\ Killed(Group, "kill")
  /\ pc' = "flush"
  /\ UNCHANGED <<nature, cancellation, due, watching, result>>

\* communicate(timeout=1) returns or raises.
Flush ==
  /\ pc = "flush"
  /\ pc' = "result"
  /\ UNCHANGED <<nature, os, cancellation, due, watching, result>>

-----------------------------------------------------------------------------
(* SubprocessSandbox.run and its watcher.                                  *)

SandboxTimeout ==
  /\ pc = "communicate" /\ how = "sandbox" /\ due /\ ~Silent
  /\ Killed({Leader}, "kill")
  /\ pc' = "reap"
  /\ UNCHANGED <<nature, cancellation, due, watching, result>>

\* communicate() without a timeout.
Reap ==
  /\ pc = "reap" /\ Silent
  /\ result' = "timeout"
  /\ pc' = "stop"
  /\ UNCHANGED <<nature, os, cancellation, due, watching>>

Stop ==
  /\ pc = "stop"
  /\ stopping' = TRUE
  /\ pc' = "join"
  /\ UNCHANGED <<nature, os, cancellation, due, watcher, result>>

Join ==
  /\ pc = "join" /\ watcher \in {"none", "gone"}
  /\ pc' = IF result = None THEN "result" ELSE "returned"
  /\ UNCHANGED <<nature, os, cancellation, due, watching, result>>

WatcherTerminates ==
  /\ watcher = "watch" /\ ~stopping /\ token /\ pc # "idle"
  /\ Killed({Leader}, "term")
  /\ watcher' = "grace"
  /\ UNCHANGED <<nature, cancellation, due, stopping, pc, result>>

\* The grace period is over.
WatcherKills ==
  /\ watcher = "grace" /\ ~stopping /\ Leader \in alive
  /\ Killed({Leader}, "kill")
  /\ watcher' = "gone"
  /\ UNCHANGED <<nature, cancellation, due, stopping, pc, result>>

WatcherEnds ==
  /\ \/ watcher \in {"watch", "grace"} /\ stopping
     \/ watcher = "grace" /\ Leader \notin alive
  /\ watcher' = "gone"
  /\ UNCHANGED <<nature, os, cancellation, due, stopping, pc, result>>

-----------------------------------------------------------------------------
\* With a token that is set, the group runner reports 130 for anything but a
\* success, the sandbox -1 for anything.
Cancelled == token /\ (how = "group" => code # "ok")

Report ==
  /\ pc = "result"
  /\ result' = IF Cancelled THEN "cancelled" ELSE code
  /\ pc' = "returned"
  /\ UNCHANGED <<nature, os, cancellation, due, watching>>

Waiter ==
  \/ Spawn \/ Communicate \/ SimpleTimeout
  \/ Poll \/ Terminate \/ GoOn \/ Wait \/ Escalate \/ Drain \/ DrainFails \/ Flush
  \/ SandboxTimeout \/ Reap \/ Stop \/ Join \/ Report

Watcher == WatcherTerminates \/ WatcherKills \/ WatcherEnds

Next ==
  \/ Waiter \/ SpawnFails \/ Watcher \/ Cancel \/ TimeoutPasses
  \/ \E p \in Process : Ends(p)

Spec == Init /\ [][Next]_vars

\* Threads are scheduled, time passes, and a process that can end does.
Fairness ==
  /\ WF_vars(Waiter) /\ WF_vars(Watcher) /\ WF_vars(TimeoutPasses)
  /\ \A p \in Process : WF_vars(Ends(p))

FairSpec == Spec /\ Fairness

-----------------------------------------------------------------------------
TypeOK ==
  /\ how \in {"simple", "group", "sandbox"}
  /\ deaf \subseteq Process /\ stuck \subseteq Process /\ away \subseteq Kid
  /\ holds \subseteq Process /\ chatty \subseteq holds
  /\ hurry \in BOOLEAN
  /\ alive \subseteq Process
  /\ code \in Status \cup {None}
  /\ token \in BOOLEAN /\ asked \in BOOLEAN /\ due \in BOOLEAN /\ stopping \in BOOLEAN
  /\ watcher \in {"none", "watch", "grace", "gone"}
  /\ pc \in {"idle", "communicate", "poll", "check", "grace", "drain", "flush", "reap", "stop",
             "join", "result", "returned"}
  /\ pc = "returned" => result # None
  /\ result \in Outcome \cup {None}

\* Once the group runner has returned from a command it stopped, the whole
\* process group is gone ("terminating the entire process group on
\* cancellation"), but for kids that ignore SIGTERM and hold no pipe, and
\* these only if the leader did not need a SIGKILL.
GroupGone ==
  how = "group" /\ pc = "returned" /\ code \in {"term", "kill"} =>
    alive \cap Group \subseteq IF code = "kill" THEN {} ELSE deaf \ holds

\* A command that ends by itself within the timeout and is not cancelled is
\* reported with its own status; under the group runner only if its output
\* fits into the pipes, because nobody reads them before it has ended.
OwnStatus ==
  pc = "returned" /\ result # "unspawned" /\ ~asked /\ ~hurry /\ stuck = {}
    /\ (how = "group" => chatty = {})
  => code \in {"ok", "fail"} /\ result = code

\* Every call returns, whatever its processes do; under the sandbox unless a
\* kid that does not end holds a pipe, because only the leader is signalled.
Returns ==
  <>(pc = "returned" \/ (how = "sandbox" /\ Kid \cap holds \cap stuck # {}))
=============================================================================
