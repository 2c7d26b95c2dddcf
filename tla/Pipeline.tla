------------------------------ MODULE Pipeline ------------------------------
(***************************************************************************)
(* The phase handlers of one run (orchestrator/orchestrator.py) with the   *)
(* services they call (orchestrator/services.py), the model calls of these *)
(* (ModelCalls) and the task execution (TaskExecution), over any number of *)
(* start and resume calls, one at a time, that die at any moment.          *)
(*                                                                         *)
(* What the driver itself does is in Orchestrator: here a finished phase is*)
(* recorded and marked in one step. The delivery service keeps the promises*)
(* proved of Delivery: it raises, or returns one head per run. The run has *)
(* the repository to itself. Times and sizes are a number of units of the  *)
(* run's budget that a phase consumes.                                     *)
(***************************************************************************)
EXTENDS TaskExecution, ModelCalls

CONSTANTS
  Roots,           \* files under the source and test roots of the repository's profile
  Docs,            \* files under docs/, none if there is no such directory
  Default,         \* files under src/, tests/ and docs/
  Authorized,      \* authorized_files, the two files a delivery commits
  Base,            \* the repository's files as HEAD has them
  Changes,         \* the lists of directives a model may propose
  Configurations,  \* how the orchestrator may be put together
  MaxCalls         \* bound of the model on start and resume calls

\* runner: StubRunner, LocalCommandRunner or LLMDrivenTaskRunner. remote: what
\* stands behind draft_pr and ci, nothing for the local completion policy. git:
\* the delivery commits, the default one makes up a SHA. writer: there is an
\* evidence_writer, by default there is none. ceiling: of the run's budget, None
\* without one.
Configuration ==
  [profile : {"development", "test", "production"}, wiring : Wiring,
   runner : {"stub", "local", "llm"},
   remote : {"local", "monitor", "none"}, git : BOOLEAN, writer : BOOLEAN,
   ceiling : (Nat \ {0}) \cup {None}]

ASSUME PipelineAssumption ==
  /\ Roots \subseteq File /\ Docs \subseteq File /\ Default \subseteq File
  /\ Authorized \subseteq File /\ Base \in Workspace
  /\ Changes \subseteq Seq(Change) /\ <<>> \in Changes
  /\ Configurations \subseteq Configuration
  /\ MaxCalls \in Nat
  /\ None \notin Nat /\ None \notin STRING /\ None \notin Workspace

Phases == <<"feature_request", "repository_discovery", "specification", "planning",
            "implementation", "validation", "remediation", "review", "draft_pr", "ci",
            "ready", "completed">>

IndexOf(phase) == CHOOSE i \in DOMAIN Phases : Phases[i] = phase

Verdict == {"approve", "request_changes", "reject"}
Status == [name : {"quality-gate", "lint"}, status : {"success", "pending"},
           head : {"head", "old"}]

\* The fields of RunContext that a handler reads or a resume needs.
Context == [profile : {None, "profiled", "fallback"}, exit : {None, "passed", "failed"}, verdict : Verdict \cup {None},
            head : {None, "head"}, ci : {None, "ready", "blocked", "stale", "pending"}]
NoContext == [profile |-> None, exit |-> None, verdict |-> None, head |-> None, ci |-> None]

\* The phases a record of evidence.jsonl may be of.
ProviderRecord == {"specification", "planning", "review"}

RunState == {"new", "running", "failed", "blocked", "complete"}

\* The run's record in the ledger.
Record == [next : 1..(Len(Phases) + 1), ctx : Context, state : RunState]

VARIABLES
  conf,        \* the configuration, never changed
  at,          \* index of the phase a call is in, 0 without a call
  ctx,         \* RunContext of the call
  spent,       \* budget units this call has consumed
  saved,       \* the run's record
  verdictFile, \* review-verdict.json
  evidence,    \* phases with a provider record in evidence.jsonl
  delivered,   \* head of the run's delivery, on record with its pull request
  tree,        \* git: the files as the commit of the delivery has them, None without
  validated,   \* history: the workspace of the last validation that passed
  shown,       \* history: the statuses the last ci phase has read
  total,       \* history: budget units all calls have consumed
  calls

runVars == <<at, ctx, spent, saved, total, calls>>
artVars == <<verdictFile, evidence, delivered, tree, validated, shown>>
vars == <<conf, runVars, artVars, taskVars, callVars>>

\* The adapters of the orchestrator, by attribute: those of a stub's class name.
Stubs(c) == IF c.runner = "stub" THEN {"_runner", "_pr_client"} ELSE {"_pr_client"}

\* iter_adapter_slots: the attributes looked at; one that is missing counts as None.
Slots == {"pr_client", "ci_monitor", "runner", "trace_writer_active"}

\* What the constructors let pass: in production OrchestratorConfig wants a budget,
\* validate_runtime_profile_adapters no stub and validate_router_readiness, which
\* only the MiniMax compositions are given the profile for, a live provider; the
\* offline composition wants the test profile.
Accepted(c) ==
  /\ c.profile = "production" =>
       /\ c.ceiling # None
       /\ Stubs(c) \cap Slots = {}
       /\ c.wiring \in MiniMaxWiring => AllLive(c.wiring)
  /\ c.wiring = "offline" => c.profile = "test"

Init ==
  /\ conf \in {c \in Configurations : Accepted(c)}
  /\ at = 0
  /\ ctx = NoContext
  /\ spent = 0
  /\ saved = [next |-> 1, ctx |-> NoContext, state |-> "new"]
  /\ verdictFile = None
  /\ evidence = {}
  /\ delivered = None
  /\ tree = None
  /\ validated = None
  /\ shown = <<>>
  /\ total = 0
  /\ calls = 0
  /\ TaskInit
  /\ CallInit
  /\ wiring = conf.wiring

-----------------------------------------------------------------------------
\* start_run, and resume_run for a run that has a record. The context is what
\* _ctx_from_persisted copies; the budget is a new one.
Start ==
  /\ at = 0 /\ calls < MaxCalls /\ saved.state # "complete"
  /\ at' = saved.next
  /\ ctx' = [saved.ctx EXCEPT !.head = None]
  /\ spent' = 0
  /\ saved' = [saved EXCEPT !.state = "running"]
  /\ calls' = calls + 1
  /\ UNCHANGED <<conf, total, artVars, taskVars, callVars>>

\* The process dies: the record stays as the last phase left it.
Die ==
  /\ at # 0
  /\ at' = 0 /\ ctx' = NoContext /\ spent' = 0
  /\ HangUp
  /\ IF step = "idle" THEN UNCHANGED taskVars ELSE Leave
  /\ UNCHANGED <<conf, saved, total, calls, artVars>>

In(phase) == at = IndexOf(phase)

Consumption == IF conf.ceiling = None THEN {0} ELSE 0..1

\* Mutant of Exhausted: the ceiling itself may be consumed.
ExhaustedAbove(amount) == conf.ceiling # None /\ amount > conf.ceiling

\* BudgetTracker.check: consumption has reached the ceiling.
Exhausted(amount) == conf.ceiling # None /\ amount >= conf.ceiling

\* The state of the run after a phase.
StateAfter(outcome) ==
  IF outcome \in {"failed", "blocked"} THEN outcome
  ELSE IF at = Len(Phases) THEN "complete" ELSE "running"

\* The phase a resume starts with.
Following(outcome) == IF outcome \in {"failed", "blocked"} THEN at ELSE at + 1

\* The loop of start_run after a handler has returned: consumption is recorded
\* and the budget enforced, which overrides any outcome; the phase is recorded
\* and the run marked. A failed or blocked phase ends the call.
EndPhase(outcome, c) ==
  \E amount \in Consumption :
    LET result == IF Exhausted(spent + amount) THEN "blocked" ELSE outcome
        state == StateAfter(result)
    IN  /\ saved' = [next |-> Following(result), ctx |-> c, state |-> state]
        /\ at' = IF state = "running" THEN Following(result) ELSE 0
        /\ ctx' = IF state = "running" THEN c ELSE NoContext
        /\ spent' = IF state = "running" THEN spent + amount ELSE 0
        /\ total' = total + amount
        /\ UNCHANGED <<conf, calls>>

\* Phases whose handler reads or writes files or asks somebody.
Fallible == {IndexOf(p) : p \in {"repository_discovery", "specification", "planning",
                                 "implementation", "validation", "remediation", "review",
                                 "draft_pr", "ci"}}

\* A handler raises: _run_phase returns FAILED with the context it was given.
\* BudgetExhausted would be caught here as well.
HandlerRaises ==
  /\ at \in Fallible
  /\ EndPhase("failed", ctx)
  /\ HangUp
  /\ IF step = "idle" THEN UNCHANGED taskVars ELSE Leave
  /\ UNCHANGED artVars

-----------------------------------------------------------------------------
FeatureRequest ==
  /\ In("feature_request")
  /\ EndPhase("ok", ctx)
  /\ UNCHANGED <<artVars, taskVars, callVars>>

\* The profiler falls back to an empty profile where the repository cannot be
\* inspected, and git to no base commit.
RepositoryDiscovery ==
  /\ In("repository_discovery")
  /\ \E found \in {"profiled", "fallback"} : EndPhase("ok", [ctx EXCEPT !.profile = found])
  /\ UNCHANGED <<artVars, taskVars, callVars>>

\* derive_allowed_paths: the profile's roots, and docs/ where it is a directory.
DerivedPaths(profile) == Docs \cup (IF profile = "profiled" THEN Roots ELSE {})

\* _PlanBuilder.build: the paths its one task is allowed.
AllowedPaths(profile) ==
  IF profile = None \/ DerivedPaths(profile) = {} THEN Default ELSE DerivedPaths(profile)

\* The phases whose service asks a model, with the role of the request.
Modelled(phase) ==
  \/ /\ phase \in {"specification", "implementation", "remediation", "review"}
     /\ wiring # "deterministic"
  \/ phase = "planning" /\ wiring \in {"local", "offline"}

RoleOf(phase) == IF phase = "specification" THEN "planning" ELSE phase

\* A service sends its request.
AskModel(phase) ==
  /\ In(phase) /\ Modelled(phase)
  /\ NoCall /\ step = "idle"
  /\ Ask(RoleOf(phase))
  /\ UNCHANGED <<conf, runVars, artVars, taskVars>>

\* The provider behaves.
ProviderResponds ==
  /\ \E answer \in Responses(call.provider) : Respond(answer)
  /\ UNCHANGED <<conf, runVars, artVars, taskVars>>

\* last_evidence: a service that has asked a model.
HasEvidence(phase) == Modelled(phase)

\* _record_phase_evidence: without a writer the record is dropped.
Evidenced(phase) ==
  IF HasEvidence(phase) /\ conf.writer THEN evidence \cup {phase} ELSE evidence

\* ModelBackedSpecificationService.produce raises on every answer but a payload of
\* its schema.
SpecificationProduced ==
  Modelled("specification") => Fits(call.answer)

\* _phase_specification
Specification ==
  /\ In("specification")
  /\ Modelled("specification") => Answered
  /\ EndPhase(IF SpecificationProduced THEN "ok" ELSE "failed", ctx)
  /\ evidence' = IF SpecificationProduced THEN Evidenced("specification") ELSE evidence
  /\ HangUp
  /\ UNCHANGED <<verdictFile, delivered, tree, validated, shown, taskVars>>

\* ModelBackedPlanningService.build. The plan of the model is checked and dropped:
\* what is returned and used is always that of _PlanBuilder.
PlanBuilt ==
  Modelled("planning") => Fits(call.answer) /\ WithinPolicy(call.answer)

\* _phase_planning
Planning ==
  /\ In("planning")
  /\ Modelled("planning") => Answered
  /\ EndPhase(IF PlanBuilt THEN "ok" ELSE "failed", ctx)
  /\ evidence' = IF PlanBuilt THEN Evidenced("planning") ELSE evidence
  /\ HangUp
  /\ UNCHANGED <<verdictFile, delivered, tree, validated, shown, taskVars>>

-----------------------------------------------------------------------------
\* DeterministicImplementationService proposes nothing.
NoChanges == <<>>

\* The directives of the answer: any failure of the model means none.
Proposed ==
  IF Modelled("implementation") /\ Fits(call.answer) THEN Changes ELSE {NoChanges}

\* _phase_implementation up to the runner.
BeginTask ==
  /\ In("implementation")
  /\ Modelled("implementation") => Answered
  /\ \E pending \in Proposed : TakeSnapshot(AllowedPaths(ctx.profile), pending)
  /\ HangUp
  /\ UNCHANGED <<conf, runVars, artVars>>

RunTests ==
  \/ conf.runner # "llm" /\ StubEvidence
  \/ /\ conf.runner = "llm"
     /\ \E result \in Evidence \ {None} : RunRed(result) \/ RunGreen(result)

TaskSteps ==
  /\ In("implementation")
  /\ \/ RunTests
     \/ RejectChanges \/ AcceptChanges \/ WriteChange \/ WriteFails
     \/ RejectEvidence \/ AcceptEvidence
     \/ Revert \/ Report
  /\ UNCHANGED <<conf, runVars, artVars, callVars>>

\* The rest of _phase_implementation.
EndTask ==
  /\ In("implementation") /\ step \in Ended
  /\ EndPhase(IF step = "ok" THEN "ok" ELSE "failed", ctx)
  /\ Leave
  /\ UNCHANGED <<artVars, callVars>>

\* _phase_validation: the tests are run once more, and may touch the workspace.
Validation ==
  /\ In("validation")
  /\ \E exit \in ValidationExits(conf.runner) :
       /\ validated' = IF exit = "passed" THEN files ELSE validated
       /\ EndPhase(IF exit = "passed" THEN "ok" ELSE "failed", [ctx EXCEPT !.exit = exit])
  /\ files' \in IF conf.runner = "stub" THEN {files} ELSE AfterTests(files)
  /\ UNCHANGED <<verdictFile, evidence, delivered, tree, shown, step, allowed, changes,
                 snapshot, red, green, reverted, tested, strayed, callVars>>

\* _phase_remediation. The attempt counter starts at 0 in every call and the
\* phase is in the sequence once, so it never reaches its limit. A payload makes
\* the service ask for another implementation, whose answer nobody applies.
AskAgain ==
  /\ In("remediation")
  /\ Answered /\ call.role = "remediation" /\ Fits(call.answer)
  /\ Ask("implementation")
  /\ UNCHANGED <<conf, runVars, artVars, taskVars>>

Remediation ==
  /\ In("remediation")
  /\ Modelled("remediation") =>
       Answered /\ ~(call.role = "remediation" /\ Fits(call.answer))
  /\ EndPhase(IF Modelled("remediation") /\ call.role = "remediation"
                 /\ call.answer = "raised"
              THEN "failed" ELSE "ok", ctx)
  /\ HangUp
  /\ UNCHANGED <<artVars, taskVars>>

-----------------------------------------------------------------------------
\* DeterministicReviewService approves.
DeterministicVerdict == "approve"

\* ModelBackedReviewService.review: a payload outside the schema counts as a request
\* for changes, and one whose status and approval disagree raises.
Verdicts ==
  IF ~Modelled("review") THEN {DeterministicVerdict}
  ELSE CASE call.answer \in ErrorKind \cup {"raised"} -> {"raised"}
         [] Fits(call.answer) -> Verdict \cup {"raised"}
         [] OTHER -> {"request_changes"}

\* Mutant of ReviewOutcome: only a rejection stops the run.
ReviewOutcomeLenient(verdict) == IF verdict = "reject" THEN "failed" ELSE "ok"

ReviewOutcome(verdict) == IF verdict = "approve" THEN "ok" ELSE "failed"

\* _persist_review_verdict
PersistVerdict(verdict) == verdictFile' = verdict

\* _phase_review: the service writes the verdict before the provider record is
\* appended, which may fail.
Review ==
  /\ In("review")
  /\ Modelled("review") => Answered
  /\ \E verdict \in Verdicts \ {"raised"}, recorded \in BOOLEAN :
       /\ ~recorded => HasEvidence("review") /\ conf.writer
       /\ PersistVerdict(verdict)
       /\ evidence' = IF recorded THEN Evidenced("review") ELSE evidence
       /\ IF recorded
          THEN EndPhase(ReviewOutcome(verdict), [ctx EXCEPT !.verdict = verdict])
          ELSE EndPhase("failed", ctx)
  /\ HangUp
  /\ UNCHANGED <<delivered, tree, validated, shown, taskVars>>

ReviewRaises ==
  /\ In("review")
  /\ Modelled("review") => Answered
  /\ "raised" \in Verdicts
  /\ EndPhase("failed", ctx)
  /\ HangUp
  /\ UNCHANGED <<artVars, taskVars>>

-----------------------------------------------------------------------------
\* should_skip of the completion policy.
SkipRemote == conf.remote = "local"

\* What a delivery commits: the authorized files as they are in the workspace, on
\* top of HEAD. Other files of the workspace are not in the commit.
Committed == [f \in File |-> IF f \in Authorized THEN files[f] ELSE Base[f]]

\* git takes no file that neither the workspace nor HEAD has, and no commit that
\* changes nothing.
Committable ==
  /\ \A f \in Authorized : files[f] # None \/ Base[f] # None
  /\ Committed # Base

\* _phase_draft_pr: the delivery is on record when deliver returns; the phase
\* still has to be recorded.
Deliver ==
  /\ In("draft_pr") /\ ~SkipRemote /\ delivered = None
  /\ conf.git => Committable
  /\ delivered' = "head"
  /\ tree' = IF conf.git THEN Committed ELSE None
  /\ UNCHANGED <<conf, runVars, verdictFile, evidence, validated, shown, taskVars, callVars>>

\* git refuses: the handler raises.
DeliveryRefused ==
  /\ In("draft_pr") /\ ~SkipRemote /\ delivered = None
  /\ conf.git /\ ~Committable
  /\ EndPhase("failed", ctx)
  /\ UNCHANGED <<artVars, taskVars, callVars>>

DraftPr ==
  /\ In("draft_pr")
  /\ IF SkipRemote THEN EndPhase("skipped", ctx)
     ELSE delivered # None /\ EndPhase("ok", [ctx EXCEPT !.head = delivered])
  /\ UNCHANGED <<artVars, taskVars, callVars>>

\* _collect_ci_statuses: what a monitor says, nothing in production without one,
\* a success otherwise.
Statuses ==
  CASE conf.remote = "monitor" -> UNION {[1..n -> Status] : n \in 0..2}
    [] conf.remote = "none" /\ conf.profile = "production" -> {<<>>}
    [] OTHER -> {<<[name |-> "quality-gate", status |-> "success", head |-> ctx.head]>>}

Named(statuses) == {i \in DOMAIN statuses : statuses[i].name = "quality-gate"}

\* Mutant of Deciding: the first status of a name decides.
DecidingFirst(statuses) ==
  statuses[CHOOSE i \in Named(statuses) : \A j \in Named(statuses) : i <= j]

\* by_name: of several statuses of a check the last one counts.
Deciding(statuses) ==
  statuses[CHOOSE i \in Named(statuses) : \A j \in Named(statuses) : j <= i]

\* DeterministicCiReadinessService.check for the one required check.
Readiness(statuses) ==
  IF Named(statuses) = {} THEN "blocked"
  ELSE CASE Deciding(statuses).head # ctx.head -> "stale"
         [] Deciding(statuses).head = ctx.head /\ Deciding(statuses).status # "success" ->
              "pending"
         [] OTHER -> "ready"

\* _phase_ci
Ci ==
  /\ In("ci")
  /\ IF SkipRemote THEN EndPhase("skipped", ctx) /\ UNCHANGED shown
     ELSE IF ctx.head = None
     THEN EndPhase("failed", [ctx EXCEPT !.ci = "blocked"]) /\ UNCHANGED shown
     ELSE \E statuses \in Statuses :
            /\ shown' = statuses
            /\ EndPhase(IF Readiness(statuses) = "ready" THEN "ok" ELSE "failed",
                        [ctx EXCEPT !.ci = Readiness(statuses)])
  /\ UNCHANGED <<verdictFile, evidence, delivered, tree, validated, taskVars, callVars>>

Ready ==
  /\ In("ready")
  /\ EndPhase("ok", ctx)
  /\ UNCHANGED <<artVars, taskVars, callVars>>

Completed ==
  /\ In("completed")
  /\ EndPhase("ok", ctx)
  /\ UNCHANGED <<artVars, taskVars, callVars>>

-----------------------------------------------------------------------------
Advance ==
  \/ FeatureRequest \/ RepositoryDiscovery
  \/ \E phase \in {"specification", "planning", "implementation", "remediation", "review"} :
       AskModel(phase)
  \/ ProviderResponds
  \/ Specification \/ Planning
  \/ BeginTask \/ TaskSteps \/ EndTask
  \/ Validation
  \/ AskAgain \/ Remediation
  \/ Review \/ ReviewRaises
  \/ Deliver \/ DeliveryRefused \/ DraftPr \/ Ci \/ Ready \/ Completed

Next == Start \/ Die \/ HandlerRaises \/ Advance

\* The call goes on as long as its process lives: commands and requests have
\* timeouts. Nobody has to start or resume a run.
Spec == Init /\ [][Next]_vars /\ WF_vars(Advance)

-----------------------------------------------------------------------------
TypeOK ==
  /\ conf \in Configurations /\ wiring = conf.wiring
  /\ at \in 0..Len(Phases)
  /\ ctx \in Context
  /\ spent \in Nat /\ total \in Nat /\ calls \in 0..MaxCalls
  /\ saved \in Record
  /\ verdictFile \in Verdict \cup {None}
  /\ evidence \subseteq ProviderRecord
  /\ delivered \in {None, "head"}
  /\ tree \in Workspace \cup {None}
  /\ validated \in Workspace \cup {None}
  /\ shown \in Seq(Status)
  /\ TaskTypeOK
  /\ CallTypeOK

\* Files the task may not touch: when an attempt is accepted, every file its
\* repository had outside the task's paths has its original text, unless it was
\* deleted or an attempt that broke off before the revert had left it changed.
NoStray ==
  step = "ok" /\ ~strayed =>
    \A f \in Seen \ allowed :
      Original[f] # None => files[f] \in {Original[f], None}

\* From the delivery on the workspace is as GREEN and the validation have passed
\* it, and so are the authorized files in the delivery's commit, through every
\* failure and resume; files that the tests write themselves apart. Of the rest
\* of the commit this says nothing: it is HEAD's, and what the tests passed in
\* the workspace is not there.
DeliveredTested ==
  delivered # None =>
    \A f \in File \ Touched :
      LET delivery == {files[f]} \cup (IF tree # None /\ f \in Authorized THEN {tree[f]} ELSE {})
      IN  /\ validated # None /\ delivery \subseteq {validated[f]}
          /\ conf.runner = "llm" => tested # None /\ delivery \subseteq {tested[f]}

\* A run that has passed its review was approved, on disk and in its record, and,
\* if it has an evidence writer, every phase behind it that asked a model has left
\* a provider record.
Audited ==
  /\ saved.next > IndexOf("review") =>
       verdictFile = "approve" /\ saved.ctx.verdict = "approve"
  /\ conf.writer => \A phase \in ProviderRecord :
       saved.next > IndexOf(phase) /\ Modelled(phase) => phase \in evidence

\* A run that delivers remotely completes only when the last status of the
\* required check it was shown is a success of the delivered head.
CompleteMeansReady ==
  saved.state = "complete" /\ ~SkipRemote =>
    /\ delivered # None /\ saved.ctx.ci = "ready"
    /\ \E i \in Named(shown) :
         /\ shown[i].status = "success" /\ shown[i].head = delivered
         /\ \A j \in Named(shown) : j <= i

\* However often a run fails and is resumed, it consumes no more than its ceiling
\* per call.
WithinBudget == conf.ceiling # None => total <= calls * conf.ceiling

\* One request of a service costs at most max_attempts requests to the primary
\* provider, one repair and one to the fallback.
AskedBounded == asked <= MaxAttempts + 2

\* Every call returns, or its process has died.
Returns == at # 0 ~> at = 0
=============================================================================
