----------------------------- MODULE Controller -----------------------------
(***************************************************************************)
(* Commands from a chat (telegram/ and telegram_runtime/) reach the        *)
(* application service (controller/application_service.py, config.py),     *)
(* which asks its executor and the ledger; an operator pauses and resumes  *)
(* in the ledger (pause_resume.py); a CI monitor polls next to it, whose   *)
(* view /pr reads. A command that starts or resumes a run at an            *)
(* orchestrator returns when the run has ended. Others may be handled      *)
(* meanwhile, by another thread or front end: cancel_run is meant for them.*)
(*                                                                         *)
(* Simplifications: of a record the state is kept, what the ledger does    *)
(* with the rest is RunLedger; of a call that drives a run what it writes  *)
(* into the ledger is kept, any number of times; what happens between and  *)
(* the leases are Orchestrator; texts are what they report; the commands   *)
(* that do not drive a run are one step.                                   *)
(***************************************************************************)
EXTENDS CiMonitor

CONSTANTS
  Chat,
  Allowed,       \* allowed_chat_ids of the authorizer
  RunId,
  Compositions   \* which front end, service and monitor belong together

\* bot: TelegramBotTransport with an authorizer; runtime: TelegramBotRuntime with
\* its CommandDispatcher. stub: StubApplicationService, what the factory builds by
\* default; executor: a service with LocalTaskExecutor; orchestrator: one with an
\* Orchestrator on the same ledger.
Composition == [front : {"bot", "runtime"}, service : {"stub", "executor", "orchestrator"},
                source : Sources]

RunState == {"running", "complete", "failed", "blocked", "paused", "cancelled"}

ASSUME ControllerAssumption ==
  /\ Allowed \subseteq Chat
  /\ None \notin RunId \cup RunState
  /\ Compositions \subseteq Composition

Text == {"unauthorized", "malformed", "usage", "started", "state", "unknown run", "runs",
         "help", "resumed", "cancelled", "no PR", "ready", "still_pending", "unknown",
         "handler error"}

VARIABLES
  composition,
  ledger,    \* state of every run it holds
  calls,     \* the calls that drive each run, by what their chats will be told
  reply,     \* the last message sent
  promised,  \* history: runs some chat was told are cancelled
  operated,  \* history: runs an operator has marked since they were cancelled
  overtaken  \* history: runs a call was driving when they were last cancelled

chatVars == <<composition, ledger, calls, reply, promised, operated, overtaken>>
vars == <<ciVars, chatVars>>

Held == {r \in RunId : ledger[r] # None}

Told == {"started", "resumed"}
Busy(r) == \E text \in Told : calls[r][text] > 0

Init ==
  /\ CiInit
  /\ composition \in Compositions /\ source = composition.source
  /\ ledger = [r \in RunId |-> None]
  /\ calls = [r \in RunId |-> [text \in Told |-> 0]]
  /\ reply = None
  /\ promised = {} /\ operated = {} /\ overtaken = {}

-----------------------------------------------------------------------------
\* What the front ends leave to the monitor.
MonitorAlone == UNCHANGED <<source, heads, unknown, pollVars, composition>>

\* An update is handled.
Handled == events < MaxEvents /\ events' = events + 1 /\ MonitorAlone

\* Nothing of a run changes.
RunsAlone == UNCHANGED <<ledger, calls, operated, overtaken>>

\* send; the runtime drops the reply of its dispatcher.
Say(text, run) ==
  IF composition.front = "bot"
  THEN /\ reply' = text
       /\ promised' = IF text = "cancelled" THEN promised \cup {run} ELSE promised
  ELSE UNCHANGED <<reply, promised>>

\* TelegramAuthorizer.authorize. The runtime has no authorizer.
Admitted(chat) == composition.front = "bot" => chat \in Allowed

Refuse(chat) ==
  /\ Handled
  /\ ~Admitted(chat)
  /\ Say("unauthorized", None)
  /\ RunsAlone

\* CommandParser.parse raises, or for the runtime there is no such command.
Malformed(chat) ==
  /\ Handled
  /\ Admitted(chat)
  /\ Say("malformed", None)
  /\ RunsAlone

\* The command reaches its handler. The service has no method with the arguments
\* the runtime gives for other commands than these.
Reaches(chat, command) ==
  /\ Handled
  /\ Admitted(chat)
  /\ composition.front = "runtime" => command \in {"/resume", "/cancel", "/runs", "/help"}

-----------------------------------------------------------------------------
\* What start_run marks a run when it ends.
Driven == {"complete", "failed", "blocked", "paused"}

\* feature_request with an orchestrator: record_start of a new run.
Feature(chat, r) ==
  /\ Reaches(chat, "/feature")
  /\ composition.service = "orchestrator"
  /\ ledger[r] = None
  /\ ledger' = [ledger EXCEPT ![r] = "running"]
  /\ calls' = [calls EXCEPT ![r]["started"] = @ + 1]
  /\ UNCHANGED <<reply, promised, operated, overtaken>>

\* The other services know nothing of the ledger here.
FeatureElsewhere(chat) ==
  /\ Reaches(chat, "/feature")
  /\ composition.service # "orchestrator"
  /\ Say("started", None)
  /\ RunsAlone

\* Any exception of the executor, before the ledger knows of the run.
FeatureFails(chat) ==
  /\ Reaches(chat, "/feature")
  /\ composition.service # "stub"
  /\ Say("handler error", None)
  /\ RunsAlone

\* /feature without arguments.
FeatureUsage(chat) ==
  /\ Reaches(chat, "/feature")
  /\ Say("usage", None)
  /\ RunsAlone

\* Mutant of MayResume: a cancelled run may be resumed.
MayResumeCancelled(r) == ledger[r] \notin {None, "complete"}

\* resume_run
MayResume(r) == ledger[r] \notin {None, "complete", "cancelled"}

\* mark_resume and mark_cancelled of a run the ledger does not hold do nothing.
Mark(r, state) == ledger' = IF r \in Held THEN [ledger EXCEPT ![r] = state] ELSE ledger

\* resume with an orchestrator: the check of resume_run, which reads the ledger before
\* it marks the run.
Resume(chat, r) ==
  /\ Reaches(chat, "/resume")
  /\ composition.service = "orchestrator"
  /\ MayResume(r)
  /\ calls' = [calls EXCEPT ![r]["resumed"] = @ + 1]
  /\ UNCHANGED <<ledger, reply, promised, operated, overtaken>>

ResumeRefused(chat, r) ==
  /\ Reaches(chat, "/resume")
  /\ composition.service = "orchestrator" /\ ~MayResume(r)
  /\ Say("handler error", r)
  /\ RunsAlone

\* ResumeHandler and CancelHandler say so whatever the answer of the service is.
ResumeElsewhere(chat, r) ==
  /\ Reaches(chat, "/resume")
  /\ composition.service # "orchestrator"
  /\ IF composition.service = "stub" THEN UNCHANGED ledger ELSE Mark(r, "running")
  /\ Say("resumed", r)
  /\ UNCHANGED <<calls, operated, overtaken>>

\* A call that drives a run.
Underway(r, text) ==
  /\ calls[r][text] > 0
  /\ UNCHANGED events /\ MonitorAlone

\* mark_resume, record_start and record_phase make the run running, whatever it was.
Advance(r, text) ==
  /\ Underway(r, text)
  /\ ledger' = [ledger EXCEPT ![r] = "running"]
  /\ UNCHANGED <<calls, reply, promised, operated, overtaken>>

Left(r, text) == calls' = [calls EXCEPT ![r][text] = @ - 1]

\* The call marks the run and returns, or a resume finds no phase left to run and marks
\* nothing more; the chat is told the same whatever the result.
Return(r, text) ==
  /\ Underway(r, text)
  /\ Left(r, text)
  /\ \/ \E state \in Driven : ledger' = [ledger EXCEPT ![r] = state]
     \/ text = "resumed" /\ UNCHANGED ledger
  /\ Say(text, r)
  /\ UNCHANGED <<operated, overtaken>>

\* The lease is taken, or a write of the ledger fails.
Raise(r, text) ==
  /\ Underway(r, text)
  /\ Left(r, text)
  /\ Say("handler error", r)
  /\ UNCHANGED <<ledger, operated, overtaken>>

\* cancel_run
MayCancel(r) == ledger[r] \notin {None, "complete"}

\* cancel of the service.
Cancelled(r) ==
  /\ composition.service = "orchestrator" => MayCancel(r)
  /\ IF composition.service = "stub" THEN UNCHANGED ledger ELSE Mark(r, "cancelled")

Cancel(chat, r) ==
  /\ Reaches(chat, "/cancel")
  /\ Cancelled(r)
  /\ Say("cancelled", r)
  /\ operated' = operated \ {r}
  /\ overtaken' = IF Busy(r) THEN overtaken \cup {r} ELSE overtaken \ {r}
  /\ UNCHANGED calls

CancelFails(chat, r) ==
  /\ Reaches(chat, "/cancel")
  /\ composition.service = "orchestrator" /\ ~MayCancel(r)
  /\ Say("handler error", r)
  /\ RunsAlone

-----------------------------------------------------------------------------
\* StatusHandler wants a phase, which only the stub's answer has.
StatusText(r) ==
  CASE composition.service = "stub" -> "state"
    [] composition.service # "stub" /\ r \in Held -> "handler error"
    [] OTHER -> "unknown run"

Status(chat, r) ==
  /\ Reaches(chat, "/status")
  /\ Say(StatusText(r), r)
  /\ RunsAlone

\* pr_status reads a view only where the monitor itself was given the factory.
PrText(r) ==
  CASE composition.service = "stub" -> "ready"
    [] composition.service # "stub" /\ r \notin Held -> "no PR"
    [] composition.service # "stub" /\ r \in Held /\ source # "factory" -> "unknown"
    [] OTHER -> IF CanBeReady(Snapshot) THEN "ready" ELSE "still_pending"

Pr(chat, r) ==
  /\ Reaches(chat, "/pr")
  /\ Say(PrText(r), r)
  /\ RunsAlone

Runs(chat) ==
  /\ Reaches(chat, "/runs")
  /\ Say("runs", None)
  /\ RunsAlone

Help(chat) ==
  /\ Reaches(chat, "/help")
  /\ Say("help", None)
  /\ RunsAlone

Dispatch ==
  \E chat \in Chat :
    \/ Refuse(chat) \/ Malformed(chat)
    \/ FeatureElsewhere(chat) \/ FeatureFails(chat) \/ FeatureUsage(chat)
    \/ Runs(chat) \/ Help(chat)
    \/ \E r \in RunId :
         \/ Feature(chat, r)
         \/ Resume(chat, r) \/ ResumeRefused(chat, r) \/ ResumeElsewhere(chat, r)
         \/ Cancel(chat, r) \/ CancelFails(chat, r)
         \/ Status(chat, r) \/ Pr(chat, r)

Drive == \E r \in RunId, text \in Told : Advance(r, text) \/ Return(r, text) \/ Raise(r, text)

\* StubPauser.pause and StubResumer.resume: the ledger is marked, whatever the run's
\* state.
Operate(r) ==
  /\ Handled
  /\ Mark(r, "paused") \/ Mark(r, "running")
  /\ operated' = operated \cup {r}
  /\ UNCHANGED <<calls, reply, promised, overtaken>>

Next ==
  \/ CiNext /\ UNCHANGED chatVars
  \/ Dispatch \/ Drive
  \/ \E r \in RunId : Operate(r)

Spec == Init /\ [][Next]_vars
-----------------------------------------------------------------------------
TypeOK ==
  /\ CiTypeOK
  /\ composition \in Compositions
  /\ ledger \in [RunId -> RunState \cup {None}]
  /\ calls \in [RunId -> [Told -> Nat]]
  /\ reply \in Text \cup {None}
  /\ promised \subseteq RunId /\ operated \subseteq RunId /\ overtaken \subseteq RunId

\* With an orchestrator, a run that a chat was told is cancelled stays cancelled,
\* whatever the chats command after it and whatever the calls for it had still to do; only
\* an operator may bring it back, or a call that drove it at that moment: that one records
\* its next phase over the cancelled state (orchestrator.py:820).
CancelHolds ==
  composition.service = "orchestrator" =>
    \A r \in promised \ (operated \cup overtaken) : ledger[r] = "cancelled" /\ ~Busy(r)
=============================================================================
