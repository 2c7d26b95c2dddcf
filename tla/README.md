# A TLA+ verification of seharness

seharness drives a feature request through a fixed sequence of phases (specification, planning,
build, validation, review, delivery, CI and so on), records what happened in a run ledger, guards
every run with a worker lease, and can resume, pause or cancel a run. A monitor polls the checks of
its pull requests and a chat front end starts, cancels and inspects runs. This directory holds TLA+
modules that model all of that, the TLC configurations that check them, and TLAPS proofs about them.

All source paths below are relative to `src/src/seharness/`. `PROJECT.json` maps every
definition to the lines it models.

Contents: [1 the system](#1-the-system) · [2 the modules](#2-the-modules) ·
[3 the runs](#3-the-runs) · [4 the proofs](#4-the-proofs) · [5 what the code does differently from
its comments](#5-what-the-code-does-differently-from-its-comments) ·
[6 what is not modelled](#6-what-is-not-modelled) · [7 the plan](#7-the-plan)


## 1 The system

### 1.1 Components, their state and how they interact

| component | source | state it keeps | operations that change it |
|---|---|---|---|
| run ledger, in memory | `controller/run_ledger.py` | records by run id, insertion order, key index | `record_start`, `record_phase`, six `mark_*`, `record_cost_attribution`, `_evict` |
| run ledger, durable | `controller/real_adapters.py` (`FileRunLedger`) | a JSONL file and, per process, an index replayed from it once | the same calls, each followed by one append; `__init__` replays |
| worker leases | `orchestrator/leases.py` | a lease file and, per process, a cache read once and written back as a whole | `acquire`, `renew`, `release`, `recover_expired` |
| run driver | `orchestrator/orchestrator.py` | table of cancellation tokens; the program counter and context of every call | `start_run`, `resume_run`, `cancel_run` |
| phase handlers, phase services | `orchestrator/orchestrator.py` (1197–1910), `orchestrator/services.py` | `RunContext`; `review-verdict.json`, `evidence.jsonl` | twelve `_phase_*`, `_ctx_from_persisted`, `_record_phase_evidence` |
| budgets | `orchestrator/budgets.py` | consumption per axis, per call | `record_*`, `check` |
| task execution | `execution/*`, `orchestrator/llm_task_runner.py` | a workspace, its snapshot, evidence files | `execute`, `run_task`, `revert_unauthorized` |
| model routing, transports | `models/*` | retries, fallback position | `invoke`, `complete` |
| delivery | `orchestrator/delivery.py`, `delivery/*` | branch, index and commits of a repository, pull requests, one idempotency file per run | `deliver` |
| CI readiness | `orchestrator/delivery.py` | none | `check` |
| command runner, cancellation | `orchestrator/runner.py`, `sandbox/subprocess_sandbox.py`, `sandbox/cancellation.py` | a subprocess, its pipes, a token, a watcher thread | `run_validation`, `run`, `_wait_with_group_cancel`, `set`, `stop`, `_run` |
| CI monitor | `ci/*`, `GitHubChecksClient` | attempts and elapsed time, pull requests called ready | `run`, `fetch_view`, `mark_ready`, `build_packets` |
| controller, Telegram | `controller/*`, `telegram/*`, `telegram_runtime/*` | the message sent last; otherwise the ledger's | `dispatch`, `feature_request`, `resume`, `cancel`, `pause` |
| controlled patches, red/green cycle, validation, workflow state machine, artifact store | see `PROJECT.json` | files, attempts | not called by the run driver; section 6 |
| review, traceability, discovery, configuration, observability, sandbox, CLI, dashboard | see `PROJECT.json` | none that a later call reads, or append-only | pure functions, I/O |

`start_run` is where the stateful components meet. In this order it looks up the idempotency key,
reads the record to resume from and computes the phase to start with, calls `record_start`,
registers a cancellation token, calls `recover_expired` and `acquire`, and then, per phase, calls
`renew`, runs the handler, checks the budget and calls `record_phase`. One `mark_*` follows, also from
the two exception handlers; behind these the lease is released and the token taken out of the table, in
plain code and not in a `finally`. The calls are separate writes to separate stores. Nothing makes two of
them atomic.

A handler calls a phase service; the model-backed ones send requests through the router, which retries,
repairs and falls back. The implementation handler takes a snapshot, lets the runner write and
test, judges the evidence and reverts. What a handler returns goes into `RunContext`, of which a resume
gets back what `_ctx_from_persisted` copies. The controller calls the driver and the ledger; the monitor
shares nothing with the driver but the pull request.

### 1.2 What is hard about it

* *Concurrency.* A controller may call `start_run`, `resume_run` and `cancel_run` for one run from
  several threads, and two processes may share the ledger file and the lease file. The resume
  index is read before the lease is acquired and used after it; `cancel_run` reads the token table
  while `start_run` writes it. Neither the ledgers nor the lease store has a lock.
* *Failure.* The process may die between any two writes or inside an append. A restart has the
  ledger file and the lease file and nothing else.
* *Time.* Leases expire; a phase may last longer than the lease of its call; renewals come late.
* *Answers of others.* A model answers with any payload or none, the tests pass, fail or are killed and
  write files themselves, the checks of a pull request end, start again and are replaced by a push.
* *Partial knowledge.* The ledger has four ways to build the next record from the previous one, the
  replay is a fifth, and `_ctx_from_persisted` is a sixth for the context. Each may forget a field.
* *Boundaries.* The ledger evicts at `max_records`; the revision is a counter that callers compare;
  budgets, polls and retries end at a limit that is looked at before or after the step it limits.

### 1.3 What makes each component correct

* *Ledger:* records, key index and insertion order agree; a compared write overwrites nothing its
  caller has not seen; cursor and phase string agree.
* *Durable ledger:* what a call returned survives every crash; the replay rebuilds the index; only
  a process that has missed the writes of another makes a replay go back.
* *Leases:* one holder per run; no live lease is taken away; a dead holder locks nobody out.
* *Driver:* no phase is skipped; a complete run has completed every phase; one call drives a run;
  a completed phase is not repeated; a run nobody drives is not "running"; cancellation reaches
  the phase that runs; keys stay unique.
* *Delivery:* one pull request per run, also across crashes and retries; a record that is stored is
  true; a commit holds only files its run may stage; an undisturbed delivery ends.
* *Command runner:* every call returns; a command that was stopped leaves no processes behind; an
  undisturbed one is reported with its own exit code.
* *Task execution:* an attempt that is accepted leaves files outside the task's paths alone.
* *Pipeline:* the files that are delivered are as they were tested; what passed the review was approved,
  on disk and in the record; a complete run had a green check of the head it delivered; consumption and
  requests are bounded; every call returns.
* *CI monitor:* polling ends within its time; nothing is called ready without a view whose deciding checks
  were all right; of the deciding checks those that have ended and block are remedied and no other.
* *Controller:* what a chat was told stays true: a run that was cancelled while no call drove it does
  not come back.

`PROJECT.json` lists the hazards behind these, each at the line where it bites.


## 2 The modules

    RunRecords ──► RunLedger     ──► RunLedgerProofs
        │      ──► FileLedger    ──► FileLedgerProofs
        │              └─ implements ──► DurableLedger
        └────────► Orchestrator  ──► OrchestratorProofs
                       └─ implements ──► LeaseTable
    LeaseStore ──► LeaseStoreProofs           ▲
        └─ implements ────────────────────────┘
    Delivery   ──► DeliveryProofs
    CommandRunner ──► CommandRunnerProofs
    TaskExecution ──┐
    ModelCalls    ──┴► Pipeline   ──► PipelineProofs
    CiMonitor     ───► Controller ──► ControllerProofs

The `MC*` modules extend these for TLC; they add permutations for symmetry, the phase sequence, the
configurations and the lists of changes and checks. One question is asked at two grains: Orchestrator has
the driver with its stores step by step and a phase as one step that ends somehow; Pipeline has the
phases step by step and the driver's writes after a phase as one step. They meet in the record: what
Orchestrator shows of its cursor, Pipeline uses as `saved.next`.

### RunRecords — the record and its successor functions

The record of `run_ledger.py` without the fields no ledger reads. `Marked`, `PhaseRecorded` and
`CostRecorded` are what `_update_state` and `record_cost_attribution` build. The four cost fields
are one field; a context is opaque. That `Marked` drops the cost is what the code does.

### RunLedger — `controller/run_ledger.py`

| variable | code |
|---|---|
| `records`, `order`, `keyIndex` | `_records`, `_order`, `_key_index` |
| `held` | what a client read with `get()` and may pass back as `expected_revision` |

`RecordStart` is the whole of `record_start`: the key check, the new or replaced record, re-keying,
insertion, and the eviction that follows. A mark, `RecordPhase` and `RecordCostAttribution` start
with the revision check (`MayWrite`). Calls that raise or return `None` change nothing and are no
steps. `Held.since` is history: what has happened to the run since the client read it. A call is one step
although the class has no lock: two threads inside one compared write (628 to 690) are not modelled. No
caller under `src/` passes `expected_revision`, so nothing there depends on it.

### FileLedger — `FileRunLedger` of `controller/real_adapters.py`

| variable | code |
|---|---|
| `file`, `unterminated` | the lines of the JSONL file; whether the last one has its newline |
| `index` | `_index` of every process, or `Down` |
| `acked`, `raised` | history: the revision the last call for a run returned; whether an append has raised |
| `opened` | history: the processes that have opened the file |

Every call ends in `Commit`, which updates the index first and appends then, as the code does.
With `FailedWrites` an append may raise with nothing or a part of the text written. With
`TornWrites` the process may die inside it, with a part of the text written or all but the newline.
`Extended` glues text to an unterminated line. `Replay` is `_replay`: start lines replace,
transition lines carry forward the fields they omit, the first undecodable line ends it.

### DurableLedger — what a durable ledger promises

A map that every completed call changes in one step, and a view that a crash clears and a restart
reads back. `FileLedger!ImplementsDurable` is the refinement: `stored` is the replayed file and
`view` the index of the one process, both without costs (section 5 says why). It holds as long as one
process uses the file (`Alone`) and until an append fails or tears (`Calm`).

### LeaseStore — `orchestrator/leases.py` as `start_run` uses it

| variable | code |
|---|---|
| `disk` | `leases.jsonl` |
| `cache`, `loaded` | `_leases`, `_loaded` of the LeaseStore of every process |
| `home` | the process every worker runs in, any placement |
| `taking` | the run whose lease a worker has found free and not written yet |
| `holds`, `over` | what a worker, i.e. a `start_run` call, believes; whether it has ended |
| `late` | history: workers whose lease ran out while they held it |
| `raced` | history: workers that wrote a lease another one of their process was about to write |

A lease carries the ticks it has left in place of `expires_at`, so time needs no bound.
`acquire` is two steps, the check (`Check`, 184 to 196) and the write (`Acquire`, 197 to 212): the class has
no lock, and of two threads that both find a run free the second overwrites the lease of the first, which
`raced` keeps. Every other operation is the whole method with `_ensure_loaded` and `_flush`.
`recover_expired` is a step of its own because `start_run` calls it before `acquire` and others may act in
between. `Escape` is an exception that leaves `start_run` past the release: the process and the lease stay.

### LeaseTable — what leases promise

The owner of each run's lease, the runs whose lease is live, and the run each worker drives; no file, cache or
clock, and nothing of what a worker does with its run. A worker takes a run without a live lease, renews and leaves
it; leases run out and are dropped; workers die and their leases stay. LeaseStore implements it as long as all
workers share a process and none race, Orchestrator does with the leases it has. That is the link: Orchestrator
has leases that are live or expired where LeaseStore has files and ticks, and both show the same table.

### Orchestrator — `start_run`, `resume_run`, `cancel_run`

Each call of `start_run` or `resume_run` is a process whose program counter stands between two
writes to shared state:

| label | what comes next | action |
|---|---|---|
| `idle` | key check of a fresh run; state check of `resume_run` | `StartRun`, `ResumeRun` |
| `resume` | `mark_resume` | `MarkResume` |
| `lookup` | read the record to resume from | `Lookup` |
| `record` | `record_start` | `RecordStart`, `RecordStartFails` |
| `register` | put the token into the table | `RegisterToken` |
| `acquire` | `recover_expired`, the check of `acquire` | `Check`, `AcquireFails` |
| `take` | the write of `acquire` | `Acquire` |
| `boundary` | `renew`, enter the handler | `BeginPhase`, `RenewFails` |
| `phase` | the handler returns | `EndPhase` |
| `recorded` | `record_phase` | `RecordPhase` |
| `mark` / `fail` | the last `mark_*` | `MarkEnd` / `Fail` |
| `release`, `deregister` | the code behind the exception handlers | `Release`, `Deregister` |

With `Faults`, anything in the phase loop may raise, a renewal or a ledger write for one (`Raises`), and the
handlers mark the run failed (`Fail`). What no handler catches ends the call where it stands, with its lease
and its token left (`Escapes`): an exception before the loop, one of `mark_failed` in a handler, or a
`BaseException`. `cancel_run` is two steps, `CancelRun` (set the token) and `MarkCancelled`. `Expire` ends a lease:
one whose owner died or, with `Slow`, one whose call is too long in a phase. `Crash` ends all calls
of the process; the ledger survives if `Durable`, the lease file always does.

The ledger is one variable, a map of records. `Durable` chooses between the two implementations
where they differ: the cursor in `record_start`, the key index, and what a crash leaves. That the
durable ledger acts as one map is what `FileLedger` establishes; eviction stays in `RunLedger`.
Leases are live or expired; the clock stays in `LeaseStore`. A handler ends in any outcome. The only
context kept is whether delivery has recorded its head SHA, because the `ci` handler refuses
without it.

Five history variables name the circumstances in which the code promises less:
`late` (the call let its lease expire), `raced` (two calls were inside `acquire` for the run at once),
`shared` (two calls were inside `start_run` for it), `crashed` and `escaped`. `done` collects the phases
recorded as completed. `wanted` makes `cancel_run` happen once per run.

The comment at `orchestrator.py:482-484` expects one in-flight call per run id. Overlapping calls
are modelled all the same, because the code has a path for them (`LeaseConflict`).

### Delivery — `deliver` of both delivery services

| variable | code |
|---|---|
| `real` | `SubprocessDeliveryService` or `DeterministicDeliveryService` |
| `named` | the file each run's description names; runs may share it |
| `branch`, `head`, `staged`, `content` | git: commits per branch, what is checked out, the index, what each commit holds |
| `wrote`, `dirty` | the changes runs have made to files of the working tree; those not in the index |
| `prs` | pull requests opened per branch, at the service |
| `record` | the idempotency file of every run: missing, unreadable, or a record |
| `pc`, `sha`, `url` | the latest attempt of every run and its local variables |
| `broken`, `mixed` | history: runs with an attempt that failed or died; whether two deliveries overlapped |

The labels of `pc` are the next call of `deliver`: `branch` (`git checkout -b`), `stage`, `commit`,
`head` (`git rev-parse HEAD`), `open` (the pull request), `put` (the record). The deterministic
service goes from the lookup to `open`. `Fails` is an exception or a death in any of these, with
the partial effects the call may have. An attempt that has ended may be followed by another one: the driver's
resume. Orchestrator sees all of this as one phase that ends in some outcome; the two modules meet
in the lease, which is why no two attempts of one run overlap here while those of different runs may.
git and the pull request service are external: the model has the effects of the commands
`backend.py` issues. A change is a pair of a file and the run that wrote to it, and any run may write to any
file (`Edit`). `Authorized` is what `_phase_draft_pr` makes (1630-1635): a file named after the first 24
characters of the description, which two runs may share, and one test file that all runs share. `Stage`
takes what is dirty in these two files, whoever wrote it.

### CommandRunner — one command with its processes, waiter, watcher and token

| variable | code |
|---|---|
| `how` | `_run_validation_simple`, `_run_validation_cancellable` (its token is the run's), or `SubprocessSandbox.run` |
| `deaf`, `away`, `holds`, `chatty`, `stuck`, `hurry` | what the command's processes are like, chosen once |
| `alive`, `code` | the processes of the command, how the leader ended |
| `token`, `asked`, `due` | the `CancellationToken`; history: whether somebody else set it; whether the timeout has passed |
| `watcher`, `stopping` | the `CancellationWatcher` thread, "none" without a token; `_stop_requested` |
| `pc`, `result` | the thread that called the runner, and what it reports |

The leader is the process `Popen` returns, the kids are what it has started. All exist from the start, i.e. a process
that is forked after a signal is not modelled. The labels of `pc`:

| label | what comes next |
|---|---|
| `poll`, `check` | the two tests of the loop in `_wait_with_group_cancel` (369, 373) |
| `grace` | `wait` after SIGTERM to the group (380), then SIGKILL |
| `drain`, `flush` | the two `communicate` calls with limits (303, 311) |
| `communicate` | `communicate` with the command's timeout (`subprocess.run`, sandbox 244) |
| `reap` | the sandbox's `communicate` without a limit, behind a timeout (249) |
| `stop`, `join` | `watcher.stop`: set the flag, join the thread |
| `result` | work out the exit code |

Processes and pipes are external. A process that writes more than a pipe takes cannot end unless somebody reads,
and in `poll`, `check` and `grace` nobody does. Waits of a few seconds (grace, the limits of `communicate`, the
join) end when their condition holds or, except for the join, at any other time; the watcher leaves its
loop within one poll interval of 0.1 s, the join waits for 6 s. The timeout of the command is a flag of its own.
With `hurry` it may pass at any time; otherwise it is longer than anything takes that ends at all.


### TaskExecution — one attempt at the task

| variable | code |
|---|---|
| `files` | the workspace: a text per file, or None |
| `step` | where `TaskExecutionService.execute` and the runner stand |
| `allowed`, `changes`, `snapshot` | the task's paths, the directives left to write, the snapshot |
| `red`, `green` | `red/result.json`, `green/result.json`, which stay from attempt to attempt |
| `reverted` | what `revert_unauthorized` returned |
| `tested`, `strayed` | history: what GREEN last passed on; whether an attempt has left a foreign file changed |

| action | code |
|---|---|
| `TakeSnapshot` | `_take_snapshot` |
| `RunRed`, `RunGreen` | `_run_pytest` of `LLMDrivenTaskRunner`; the tests may change files in `Touched` |
| `RejectChanges`, `AcceptChanges` | `parse_write_directives`: all or none |
| `WriteChange`, `WriteFails` | `apply_write_directives`, one file after the other |
| `StubEvidence` | `run_task` of the stub and of `LocalCommandRunner`: fixed evidence |
| `AcceptEvidence`, `RejectEvidence` | `TaskCompletionValidator` |
| `Revert`, `Report` | `revert_unauthorized` and the result |
| `Leave` | the phase takes the result, or an exception or a death ends the attempt |

### ModelCalls — one request of a service

`call` is the request under way: which adapter is asked (`primary`, `repair`, `fallback`), for which role,
what came back. `Respond` is one answer of an adapter; what the router does next is one of its
disjuncts: `Retry`, `Repair`, `Return`, `FallBack`. `wiring` is the composition that was built, which
decides routing, adapters and what they may answer. `Normalised`, `Parsed` and `Adapted` are the error
mapping of the HTTP transport and of the MiniMax adapter. `asked` is history: requests sent for this call.
HTTP is external; the outcomes it may show are a constant.

### Pipeline — the twelve phase handlers and what a resume restores

| variable | code |
|---|---|
| `conf` | runtime profile, composition, runner, what stands behind draft_pr and ci, with or without git and an evidence writer, ceiling |
| `at`, `ctx`, `spent` | the phase a call is in, its `RunContext`, its `BudgetTracker` |
| `saved` | the run's record: cursor, persisted context, state |
| `verdictFile`, `evidence`, `delivered` | `review-verdict.json`, `evidence.jsonl`, the delivery on record |
| `tree` | git: the files as the delivery's commit has them |
| `validated`, `shown`, `total`, `calls` | history: files the validation last passed on, statuses ci has seen, consumption and calls so far |

There is one action per handler, and per step of a handler where a death or an answer may come
between: a request to a model (`AskModel`, `ProviderResponds`), the attempt at the task (`BeginTask`, `TaskSteps`,
`EndTask`), the delivery (`Deliver`, then `DraftPr`). `EndPhase` is the loop of `start_run` after a handler has
returned: consumption, budget, `record_phase` and the mark. `HandlerRaises` is `_run_phase` catching an
exception, `Die` the end of the process, `Start` both `start_run` and `resume_run`. Init takes the configurations
that the constructors accept (`Accepted`). Delivery appears as what `Delivery` promises of it: an exception, or
one head per run. With git its commit (`Committed`) is HEAD's files (`Base`) with the `Authorized` ones as the
workspace has them, not the workspace; git refuses an authorized file that exists nowhere and a commit that
changes nothing (`DeliveryRefused`). Without a writer `Evidenced` drops the record, as 1252-1254 do.

### CiMonitor — polling a pull request

| variable | code |
|---|---|
| `source` | view factory, checks client, `GitHubChecksClient`, or nothing |
| `heads`, `unknown` | GitHub: heads pushed so far with the progress of their checks; mergeability |
| `poll` | the local variables of `StubCiMonitor.run` |
| `ready`, `marked` | `_ready` of the monitor and of its transition |
| `backed`, `events` | history: a view was read when the deciding checks were all right; a counter for the bound |

`FetchHead` and `FetchRuns` are the two requests of `GitHubChecksClient`, between which somebody may push.
`MarkReady`, `StopPolling` and `PollAgain` are the three ways on from a view. Requests take 0 to `FetchTime`
units, the sleep `Interval`. `StubCiMonitor` is the only monitor there is, in spite of its name.

### Controller — chats, operator and monitor

| variable | code |
|---|---|
| `composition` | front end (`TelegramBotTransport` or `TelegramBotRuntime`), service, monitor |
| `ledger` | the state of every run |
| `reply` | the message sent last |
| `calls` | how many `start_run` and `resume_run` calls are under way per run |
| `promised`, `operated` | history: runs a chat was told are cancelled, runs an operator touched since |
| `overtaken` | history: runs a call was driving when they were last cancelled |

One action per handler and per way it can end (`Resume`, `ResumeRefused`). Handlers may run in several threads: with
an orchestrator, `Feature` and `Resume` are only the begin of a call, which is then under way among all other steps.
`Advance` is any write that makes its run running (`mark_resume`, `record_start`, `record_phase`), `Return` its last
mark and its reply, `Raise` its end by an exception. `Driven` is how `start_run` may leave a run: what Orchestrator
and Pipeline say of it. A composition stands for how `config.py` and its callers put the parts together.


## 3 The runs

Counts are distinct states. Every property of a passing run has a mutant in `PROJECT.json`: the
model with one plausible bug, under which TLC finds that property violated in that run's own
configuration. So each run's bounds are large enough for the property to fail if the code were
wrong.

| run | module | states | asks |
|---|---|---|---|
| `ledger` | MCRunLedger | 55,663 | is the in-memory ledger consistent, also through eviction and compared writes? |
| `file` | MCFileLedger | 154,806 | has one process a durable map, and what remains with a second one or when appends fail or tear? |
| `lease` | MCLeaseStore | 77,476 | what do leases guarantee, in one process and in two? |
| `orch` | MCOrchestrator | 4,210,753 | is the driver right with the durable ledger, whatever overlaps, expires or crashes? |
| `orch_memory` | MCOrchestrator | 2,704,563 | is it right with the in-memory ledger, keys, pauses, cancels and exceptions? |
| `runner` | MCCommandRunner | 56,014 | does every command end, cleanly, and with its own exit code? |
| `delivery` | MCDelivery | 1,400,484 | is delivery idempotent and truthful when calls fail, die and are retried? |
| `pipeline` | MCPipeline | 198,179 | do the phases together deliver only what was tested, approved and green, and end? |
| `controller` | MCController | 1,544,858 | is a pull request called ready with reason, and do replies stay true? |
| `file_torn`, `orch_cancel`, `orch_ci` | | | disagreements with comments, section 5 |

**`ledger`** — three runs, two keys, one client, two phases, room for two records. Three runs over
two places is the least with which an eviction, a re-creation of the evicted run and a second
eviction happen; two keys let a run be re-keyed while another run wants its old key. Revisions end at
`MaxRevision` = 3: a record can be created, replaced, and changed once more, enough for a read, a
foreign write and a compared write. Properties: `KeyIndexExact`, `OrderExact`, `CursorCoherent`,
`NoStaleWrite`.

**`file`** — one run, two processes, at most three lines and revision 3; appends may tear or fail, and the
processes may die and restart at any point. Three lines are a good one, a torn or failed one, and one glued to it; or
two of one process with one of another in between, with a crash and a replay behind every prefix. For both processes,
until an append has torn or failed: `AckKept` (the file replays to what the run's last call returned) and
`OnlyStaleRollsBack` (a replay goes back to an older revision only by a process that has missed a line of another).
As long as one of them uses the file (`Alone`): `ReplayAgrees` (the index is what a restart would show, costs aside)
and `ImplementsDurable` (the refinement), both until an append has torn or failed; `IndexNotBehind` (a live index is
never behind the file) whatever fails; `CrashKeepsAcked` (a crash, also inside an append, loses nothing that a
call returned and the file still had) until one has raised. `AckDurable`, which is `AckKept` without its condition, is what
`file_torn` refutes (section 5). A replay treats runs apart, and no call reads another run's record.

**`lease`** — one run, three workers, two processes, TTL 2, every placement of workers.
Two workers share a process while the third is elsewhere, or all share one. With TTL 2 a lease can be
renewed after one tick, run out, or be found expired by a late renewal. `Exclusive` and `NoTheft` speak of workers of
one process and exempt those that raced between check and write of `acquire`. `ImplementsTable` is the refinement of
LeaseTable where all workers share one, until two race. `Recoverable` is liveness: a worker that keeps asking gets
its lease.

*Fairness* (`Fairness` in LeaseStore): weak fairness of `Tick` (time passes), of `Check(w, r)` (a worker that was
refused asks again: a caller that gets `OrchestratorError` retries; the code has no retry loop of its own), of
`Acquire(w, r)` (what has been checked is written, or the worker dies) and of `Release(w)` (a `start_run` that goes
on ends; every phase has a timeout or a budget; one that an exception leaves is `Escape`). Nothing is assumed of
`RecoverExpired`, `Renew`, `Escape` or `Crash`. That `Check` treats an expired lease as free is what makes the
property hold without `recover_expired`; the mutant `CheckOnlyFree` shows it.

**`orch`** — one run, three calls, two phases (delivery, ci), outcomes "ok" and "failed", overlapping calls, expiry,
crashes. Three calls are the least with which a call is overtaken by a second while a third reads a stale resume
index. "failed" stands for "blocked" and "paused" in the resume index. `PhaseOrder`, `CompleteAfterAll`,
`OneAdvances`, `NoRerun`.

**`orch_memory`** — two runs, two calls, one key, outcomes "ok" and "paused", cancellation, overlap, exceptions at any
point (`Faults`) and crashes. `Settled`, `LeaseReturned`, `KeysDistinct`, `CancelReaches`. Two calls for two runs with
the same key race between the check in `start_run` and the check in `record_start`; two for one run overlap, where
what a run's own call is shown to do must not be claimed.

**`delivery`** — two runs in one repository, either service, any number of attempts, and three files: the one all runs
share and two that descriptions may name, the same one or not. Two runs are the least with which one finds what the
other has left. `MaxPrs` = 2 ends failures of a run that has two pull requests, one more than `OnePr` allows.
`RecordTrue`, `OnePr`, `OwnFiles`, and the liveness property `Delivered`: a delivery nobody disturbs and that has
something to commit ends with a record, whatever HEAD and index other runs' failures have left. *Fairness*:
`WF(Work(r))` per run, i.e. an attempt whose next call can succeed makes it at some time; `deliver` is straight-line
code and the driver reaches the phase of every run. Nothing is assumed of `Replay` or `Fails`.

**`runner`** — a leader and one kid, each of any nature, under any of the three ways, with and without a token. One
kid is enough for every combination of a leader that has ended and a kid that has not. `GroupGone`,
`OwnStatus`, and the liveness property `Returns`. *Fairness*: the waiting thread and the watcher are scheduled,
the timeout passes if it can, and a process that can end does; `stuck` and blocked processes need not. Nothing is
assumed of `Cancel`.

**`pipeline`** — one run, at most two calls (a start and a resume), eleven configurations: each composition, each
runner, each profile and each way to finish occurs, not each combination, and three that the constructors refuse are
among them. Three files: one under a root of the profile (`lib`), one that only the default paths allow (`src`), one
the tests write themselves (`log`). A delivery commits `src`, if git is behind it. Four lists of changes: none, one
inside, one that leaves the task's paths but not the sandbox, one that is malformed. `MaxAttempts` = 2 gives one
retry. `Http` holds one outcome for each way the router tells them apart; the others map onto the same answers. A
ceiling of 3 ends a run early, 11 near its end, 13 never. Two calls are the least with which a resume finds files,
evidence and a verdict of a call before it. `NoStray`, `DeliveredTested`, `Audited`, `CompleteMeansReady`,
`WithinBudget`, `AskedBounded`, and the liveness property `Returns`: every call returns or its process dies.
*Fairness*: `WF(Advance)`, i.e. a live call takes its next step. Every command and request has a timeout, the
router's retries are bounded, and between them the driver is straight-line code. Nothing is assumed of `Start`,
`Die` or `HandlerRaises`.

**`controller`** — a list of three checks: a required one that is listed twice and one that a view factory calls
required and its run does not. Three conclusions (one that passes, one that passes for the evaluator although nobody
would call it a success, one that fails) and None. Three attempts in three units of time with requests of 0 or 1:
polls end by attempts in some behaviours and by time in others. Five compositions, in which each front end,
service and source occurs. Two chats, one of them not allowed, two runs. `MaxEvents` = 3 bounds what others
do: one run through start, cancel and resume, in which the calls under way advance and return at any moment; or a
check that ends, one that starts again and a push.
`PollBounded`, `ReadyBacked`, `Reported`, `CancelHolds`.

The driver's, the command runner's and the pipeline's runs set `CHECK_DEADLOCK FALSE`: each call is made once, so a
behaviour in which all calls have returned has no next step. The other runs check for deadlock.

The type invariants of all modules are proved (section 4) and no run repeats them.

Symmetry is used for runs, calls, keys and clients in runs without temporal liveness properties; all of
these are model values no definition tells apart.


## 4 The proofs

Each theorem holds for every value of the constants that satisfies the named assumptions of its
module: `NoneIsNoValue` (None is no key, phase, context, cost or record), `LedgerAssumption`,
`LeaseAssumption` and `OrchestratorAssumption` (the phase sequence is not empty and lists every phase
once), `DeliveryAssumption`, `RunnerAssumption`, `WorkspaceAssumption`, `CallAssumption` and `PipelineAssumption`
(what the sets of files, changes, outcomes and configurations consist of; at least one attempt), `MonitorAssumption`
and `ControllerAssumption` (a policy with at least one attempt and some time; allowed chats are chats).
`FileAssumption` says that what does not decode is no line and that no index of a running process looks like that of
one that is down. TLC evaluates each assumption in the runs.

| theorem | states |
|---|---|
| `RunLedgerProofs!TypeCorrect`, `KeyIndexCorrect`, `OrderCorrect` | `TypeOK`, `KeyIndexExact`, `OrderExact` |
| `RunLedgerProofs!CursorCorrect` | `CursorCoherent` |
| `RunLedgerProofs!RevisionCorrect`, `NoStaleWriteCorrect` | `RevisionCountsWrites`, `NoStaleWrite` |
| `FileLedgerProofs!TypeCorrect` | `TypeOK` |
| `FileLedgerProofs!AckKeptCorrect`, `OnlyStaleRollsBackCorrect` | `AckKept`, `OnlyStaleRollsBack`, for any processes, until an append fails or tears |
| `FileLedgerProofs!ReplayAgreesCorrect`, `DurableCorrect` | `ReplayAgrees`, `ImplementsDurable`, as long as one process uses the file and until an append fails or tears |
| `FileLedgerProofs!IndexNotBehindCorrect` | `IndexNotBehind`, as long as one process uses the file, whatever fails |
| `FileLedgerProofs!CrashKeepsAckedCorrect` | `CrashKeepsAcked`, as long as one process uses the file, until an append raises |
| `LeaseStoreProofs!TypeCorrect`, `ExclusiveCorrect`, `NoTheftCorrect` | `TypeOK`, `Exclusive`, `NoTheft` |
| `LeaseStoreProofs!TableCorrect` | `ImplementsTable`, where all workers share a process, until two race |
| `OrchestratorProofs!TypeCorrect` | `TypeOK` |
| `OrchestratorProofs!PhaseOrderCorrect`, `CompleteAfterAllCorrect` | `PhaseOrder`, `CompleteAfterAll`, with the durable ledger |
| `OrchestratorProofs!OneAdvancesCorrect`, `LeaseReturnedCorrect` | `OneAdvances`, `LeaseReturned`, with either ledger |
| `OrchestratorProofs!TableCorrect` | `ImplementsTable` of the driver, with either ledger, until two calls race |
| `OrchestratorProofs!NoRerunCorrect`, `CancelReachesCorrect` | `NoRerun`, `CancelReaches`, with either ledger |
| `OrchestratorProofs!SettledCorrect` | `Settled`, with either ledger |
| `OrchestratorProofs!KeysDistinctCorrect` | `KeysDistinct`, with the in-memory ledger |
| `CommandRunnerProofs!TypeCorrect`, `GroupGoneCorrect`, `OwnStatusCorrect` | `TypeOK`, `GroupGone`, `OwnStatus` |
| `DeliveryProofs!TypeCorrect`, `OnePrCorrect`, `OwnFilesCorrect`, `RecordTrueCorrect` | `TypeOK`, `OnePr`, `OwnFiles`, `RecordTrue` |
| `PipelineProofs!TypeCorrect`, `NoStrayCorrect`, `DeliveredTestedCorrect`, `AuditedCorrect` | `TypeOK`, `NoStray`, `DeliveredTested`, `Audited` |
| `PipelineProofs!CompleteMeansReadyCorrect`, `WithinBudgetCorrect`, `AskedBoundedCorrect` | `CompleteMeansReady`, `WithinBudget`, `AskedBounded` |
| `ControllerProofs!TypeCorrect`, `PollBoundedCorrect`, `ReadyBackedCorrect`, `CancelHoldsCorrect` | `TypeOK`, `PollBounded`, `ReadyBacked`, `CancelHolds` |
| `ControllerProofs!ReportedCorrect` | `Reported` |

**RunLedger.** `LedgerInv` is `TypeOK`, `KeyIndexExact` and `OrderExact` together; none of the last
two is inductive alone, because eviction finds its victim in the order and its key in the
record. `EvictionFits` says what evicting from an order that is one too long leaves. `MaxRevision` occurs
only in guards, so the proofs hold for any bound. `NoStaleWrite` needs `HeldKnown`: as long as a
run was neither written nor evicted since a client's read, the client's revision is the record's;
after a write it is smaller, and it stays smaller because revisions only grow while the
run stays.

**FileLedger.** What a file replays to is a recursive function over its lines, and every statement about it has to
hold for files of any length. Where one would use induction, `LeastElement` gives a least counterexample: `StepsExist`
and `StepsAgree` show with it that the recursion has a solution and that a line's result depends on the lines before
it only. `ReplayAppend` (a readable line behind readable ones is applied to what they replay to, any other changes
nothing) and `ReplaySpoilt` (an append onto an unterminated line replays as if that line had never been there) are all
the rest needs. `StepWrites` gives every writing call one of three ends: it returns, it raises, or it tears the line.

With any number of processes three things hold: `TypeOK`, `AckKept` together with `KnownOnDisk` (an index has no run
the file does not have), and `OnlyStaleRollsBack`. `KnownOnDisk` is needed because replay skips a transition of an
unknown run: only then does the line of a call that returns reach the record. `AckKept` speaks of the run's last call;
what an earlier call of another process returned a stale one may roll back (section 5), and `OnlyStaleRollsBack` says
that nobody else does: with a good file an append of a process that has every line of the run makes the replay newer
(`LineNewer`), so one that makes it older came from an index behind the file, which a process that has been alone with
it has not.

All else needs that one process has opened the file (`Alone`); with two a stale index appends an older revision.
`UpOpened` (a process that is up has opened it) lets the one at work be that one. `SoloInv` is inductive:
`IndexNotBehind` in every state, `ReplayAgrees` as long as it is calm, `TornNewer` (what the file replays to is not
older than what it would replay to without an unterminated last line, which the next append spoils) and `TornUnneeded`
(nor does that line hold the only record of a call that returned, unless an append has raised: then the index goes on
from a revision the file may not have). `DurableCorrect` maps each step: a write to DurableLedger's write of the same
run, opening to its reload, a death to its crash, and what fails or tears ends the claim.

**LeaseStore.** `LeaseKept` is the heart: a live lease that a process shows of one of its workers
stays that worker's through every step of anybody but the write of another `acquire`, and runs out only by a tick that
makes the worker late. For workers that are neither late nor raced (`Clear`) three things are inductive together:
`HoldersBacked` (who holds a run is shown by its process), `NoRival` (nobody is about to write over it) and
`TakersSound` (between check and write a worker holds nothing, and the run stays free for it unless another write has
marked it `raced`; `FreeKept` goes through the steps). `Exclusive` follows, because a process shows one lease per run.
`NoTheft` follows from `LeaseKept` and `TakersSound`: the only write that may displace a live lease is one whose check
is older than that lease, and its worker is marked. Nothing is said about two processes: there it is false.

`TableCorrect` needs more of one process: its cache, once loaded, says what the file says (`Written`), who holds a
run has loaded it (`HoldersLoaded`), and each lease belongs to a worker that drives the run or is over
(`LeasesHeld`), so that who asks has none. `StepsOnDisk` then turns every operation, cached or not, into one of six
steps on the file, and `TableStep` maps each: a tick to leases that run out, `recover_expired` to dropping them, a
renewal that fails and a release to leaving, a crash and an exception past the release to workers that die while the
file stays. A write is the table's `Take` as long as no one has raced, because the check still holds by then.

**Orchestrator.** `Placed` completes `TypeOK`: the call's run is in the ledger wherever the call writes it, and a
phase about to run has an index. For `PhaseOrder` the invariant `Progress` has two parts. `Backed`: all phases
before the index at which a record would be resumed are in `done`, and all of them if it says complete. `Justified`:
all phases before the index of a call are in `done`. `done` only grows, therefore an index computed from a record
that others have changed since is still covered: this is why overlapping calls may repeat phases but cannot skip
one. `Backed` also says that a record without a cursor has no phase string. That holds with the durable ledger and
fails with the in-memory one, which drops the cursor: the two theorems assume `Durable`, and section 5 has the
counterexample. For leases four parts are inductive together: `Fenced` (a call between acquire and release that is
neither late nor raced has a live lease of its own), `NoRival` (no call is about to write over it), `Owned` (every
lease belongs to a call between acquire and release, or to one that died or that an exception left) and `Gone`
(those stay over). The first two give `OneAdvances`, the last two `LeaseReturned`. `TableCorrect` adds `TakeFree`:
what the check of `acquire` found free still is when its call writes, as long as nobody raced. All steps between
acquire and release leave the table as it is, except the renewal at each phase boundary. No run repeats this
refinement; TLC agrees with it on the instances of `orch` and `orch_memory`.

Three more properties speak of runs that one call at a time drives, or of calls whose process lives; `SoloInv` is
the invariant behind them. `Alone` says that a run which is not shared has one active call. That call is the only
one to write the record, the token and the phases, therefore `RunSolo` and `CallSolo` stay exact where `Progress`
only bounds: `Exact`, no completed phase lies behind anything a resume could start from, which is the cursor, the
phase string if `record_start` drops the cursor, and the `last` that the next cursor inherits; `Fresh` for the index
of the call itself, which is `NoRerun`; the token in the table is the call's own, which is `CancelReaches`. Both
also carry that the record is not "running" when nobody drives the run and when a call is past its mark. `Calm` is
the condition of that part: no crash, no call that an exception left, and none that found every phase done. It is
what `Settled` excepts, so the theorem needs no assumption on the ledger. `KeysDistinct` is inductive as it stands
with the in-memory ledger, since its `record_start` looks the key up in the same step; what `start_run` has looked
up before is not needed. The durable ledger has no index of keys, and two calls that looked before either wrote both
keep the key: the theorem assumes `~Durable`.

**Delivery.** `Shape` completes `TypeOK`: HEAD is always an existing branch, with a commit once the attempt has
committed, so `rev-parse` has an answer. `OnePr` has two reasons, one per service. With real git (`Fused`) no pull
request is opened before the run's branch exists, and `checkout -b` succeeds once. With the deterministic service
(`Recorded`) it is the record, which every attempt that is not broken off leaves. `OwnFiles` rests on `Solo`
(without overlap one attempt is under way) and `Index` (what is staged are changes of files that this attempt or a
broken one may stage). `RecordTrue` rests on `Mine`: without overlap, HEAD stays on the branch of the attempt under
way, so its commit is the tip that `rev-parse HEAD` names. That this commit reaches every change the run has made to
its authorized files needs two more: `Kept` (a change is in the working tree, in the index, or in a commit that HEAD
reaches, for another run may have committed it first) and `Once` (a run commits once, behind the creation of its
branch). `Committed` puts the two together.

**CommandRunner.** `Shape` says that the leader has a status exactly if it has ended and that nobody reports before.
`Stopped` follows the group through the two signals: after SIGTERM only deaf processes are left of it, after SIGKILL
none, and what holds a pipe does not outlive `drain` and `flush`. `Undisturbed` is the induction for `OwnStatus`: as
long as nothing is signalled the timeout has no reason to pass, because a process that writes is read. No bound
on the number of kids is used.

**Pipeline.** `StepKinds` sorts the steps into those of the task, of a request, of the driver and of a handler, so
that each part of the invariant is shown once per kind. `Placed` says that a call stands where its record says and
that an attempt is under way in the implementation phase only. `AskedSoFar` bounds `asked` by the state of the
request: below `max_attempts` at the primary, one more for the repair and one for the fallback. `Spending` splits
`total` into the calls that have ended, none above its ceiling, and the one under way, below its own. `TestedSoFar`
is `DeliveredTested` carried backwards: behind implementation the files are those GREEN passed on, behind validation
those it passed on, except what tests write; a death or a failure in between sends the resume back to the phase that
failed, which finds them again or tests again. `CommitFresh` adds git's side: the authorized files of a commit are
as the workspace has them, and stay so, because the workspace changes no more behind the delivery. `Unstrayed`
follows the files an attempt must leave alone from the snapshot to the revert: unless an attempt has left one
changed, the snapshot has their original text. `CiPassed` and `Audited` speak of the record; what a resume does not
restore they do not need. Without a writer the second half of `Audited` claims nothing.

**Controller.** `Progressing` gives for each label of the poll what may have elapsed there: less than `MaxTotal` +
`Interval` when a request begins, one `FetchTime` more behind each of the two. It also says that a view in hand that
can be ready was read when `Green` held, from which `ReadyBacked` follows: of each required name the check that
decides, the first of the name, has ended and did not fail. From `GitHubChecksClient` no view can be ready
(`FetchedNever`), since mergeability is never known to it. `CancelHolds` is inductive as it stands. Every step of
the chats, the calls under way and the operator is about one run (`AboutOne`) and leaves what was said of the
others. `Unpromised` does the rest: a run that is not cancelled, or that a call drives, is one on which nobody
relies, unless an operator or a call that was driving it is excepted; `Counted` follows the calls under way through
their begin and return.

`Reported` needs no induction: its two sides are definitions over one view, and `IsFirst` decides in both.

**Only model-checked.** `Recoverable`, `Delivered` and both `Returns`: liveness, where fairness is defined through
ENABLED. Every other property of a run that passes is a theorem. The three runs that expect a violation have a
counterexample instead.


## 5 What the code does differently from its comments

Three disagreements have a run with a counterexample (`findings` in `PROJECT.json`):

* **A torn line costs every later one** (`file_torn`). `_append` writes after an unterminated last line, replay
  stops at the glued line, and nothing truncates it (`real_adapters.py:615`; its docstring
  at 486 says partial lines are truncated).
* **A cancelled run comes back** (`orch_cancel`). The running call's next `record_phase` sets the
  state to running whatever it was (`orchestrator.py:820`).
* **ci after a resume misses the head SHA** (`orch_ci`). `_ctx_from_persisted` does not restore
  `delivery_head_sha` (`orchestrator.py:1897`), so a run resumed behind delivery fails ci each time.

The models show further ones. They are built into the definitions, and the properties above are
stated so that they exclude exactly these cases:

* After an eviction a run id starts at revision 1 again, and an old `expected_revision` matches a
  record its holder never saw (`run_ledger.py:566`). `NoStaleWrite` exempts evicted runs.
* `_update_state` drops the cost (`run_ledger.py:673`, `real_adapters.py:760`); the durable
  ledger's replay brings it back, so index and replay differ. `Costless` leaves it out.
* The in-memory `record_start` drops the cursor of a run it replaces (`run_ledger.py:339`). A resume
  whose lease is refused then leaves only the phase string, and the next resume starts behind a
  phase that failed (`orchestrator.py:595`). `PhaseOrder` is claimed with `Durable`.
* A second process with an older index appends an older revision, and replay takes it (`real_adapters.py:562`),
  although the comment at 559-561 says "Last write wins so concurrent writers can't roll back". `OnlyStaleRollsBack`
  says that only such a process does it; `AckKept` speaks of the run's last call.
* Neither store has a lock. Two threads may both pass the check of `acquire` before either writes (`leases.py:186`,
  210), and the second overwrites the first one's lease; `Exclusive`, `NoTheft` and `OneAdvances` exempt those that
  raced. The compared write of the ledger has the same gap (`run_ledger.py:628`, 690), which is not modelled.
* The lease is released and the token dropped in plain code behind the exception handlers (`orchestrator.py:913`),
  and the comment at 905 says "on EVERY terminal path". An exception of `mark_failed` inside a handler (869, 894) or
  one that is no `Exception` leaves both. `LeaseReturned` and `Settled` exempt calls that were left so; the lease
  runs out, the token stays until the next call.
* `renew` raises LeaseNotFound when the lease is gone (`leases.py:230`); the module docstring calls it a no-op then
  (28). `start_run` depends on the exception: it stops and marks the run failed.
* Two processes each read the lease file once and both acquire (`leases.py:160`), and a phase that
  lasts longer than the TTL loses its lease, because the renewal is only at phase boundaries
  (`orchestrator.py:745`). `Exclusive` and `OneAdvances` exempt both.
* An overlapping resume computes its index before it has the lease and repeats phases the other call completed
  meanwhile (`orchestrator.py:542`). `NoRerun` exempts shared runs.
* After a crash between the last `record_phase` and `mark_complete`, or a `mark_complete` that raises, a resume runs
  nothing, returns "completed" and leaves the record running (`orchestrator.py:719`). `Settled` exempts crashes and
  calls with no phase left.
* With the in-memory ledger a call that loses its lease before its first phase has dropped the cursor already. The
  phase string is left: if it names the last phase, the next resume starts behind it, runs nothing, returns
  "completed" and leaves the record running (`run_ledger.py:339`, `orchestrator.py:595`, 745). `Settled` exempts it
  with the calls that have no phase left.
* A resume whose lease is refused leaves its own token in the table, and `cancel_run` sets that one
  (`orchestrator.py:657`). `CancelReaches` exempts shared runs.
* A resume re-records its run without the idempotency key, which another run may then use
  (`orchestrator.py:968`). `KeysDistinct` speaks of keys in the ledger.
* A delivery that failed behind `checkout -b` can never be repeated: the branch exists and git refuses
  (`delivery/backend.py:49`). `Delivered` exempts broken runs.
* What such an attempt has staged stays in the index and goes into the commit of the next run, because the commit
  takes the whole index (`delivery/backend.py:63`; `commit.py:72` says "commits only authorized
  files"). `OwnFiles` exempts broken runs. A branch starts wherever HEAD is, i.e. on the previous
  run's branch.
* The authorized files are one named after the first 24 characters of the description and one test file for all runs
  (`orchestrator.py:1630`). Runs share them, so a commit may hold what another run wrote, with no failure and no
  overlap; `OwnFiles` speaks of files and not of who wrote them. What the task wrote elsewhere is not delivered, and
  the rest of the commit is HEAD's: the tree that is delivered was never tested as a whole. `DeliveredTested`
  compares the authorized files with those the tests passed on, one by one.
* Overlapping deliveries into one repository mix HEAD and index: nothing keeps different runs apart.
  `RecordTrue` and `OwnFiles` exempt `mixed`.
* With the deterministic service a death between pull request and record makes the resume open a
  second one (`orchestrator/delivery.py:239`; 27-29 calls duplicate work "impossible by construction").
  `OnePr` exempts broken runs of it.
* The record is written in place; a torn one makes every later `deliver` raise (`delivery/idempotency.py:49`).
* The sandbox signals the leader alone, although the comment at `sandbox/subprocess_sandbox.py:196-200` speaks of the
  group. Kids outlive a cancelled command, and behind a timeout a kid that holds a pipe keeps `communicate()` without
  a limit waiting (249). `Returns` exempts a kid that never ends; `GroupGone` speaks of the cancellable runner.
* The cancellable runner does not read the pipes until the command has ended (`orchestrator/runner.py:301`),
  so a command with more
  output than a pipe takes runs into its timeout. `OwnStatus` exempts it.
* A timeout under that runner sets the run's token and is reported as 130, cancelled; the 124 in
  `orchestrator/runner.py:328` is never used. A command that fails on its own while the token is set is
  reported as cancelled as well.

Task execution and phases:

* Incomplete evidence raises before the revert (`execution/service.py:180`), so foreign changes stay and the next
  snapshot records them as original. Files that were created or deleted are never put back. `NoStray`
  exempts both.
* A retry behind an attempt that wrote its files and then broke off makes RED pass at once, and the completion check
  refuses it for ever (`completion.py:53`).
* Errors of the implementation model are swallowed, nothing is written and GREEN fails as RED did
  (`services.py:1047`); the plan of the planning model is checked and dropped (633); the review model is
  asked with an empty diff (`orchestrator.py:1550`); a remediation's result is applied by nobody (1514).
* A specification or plan that is refused, or a review that raises, leaves no provider record: it is written behind
  the check. `Audited` speaks of phases that are behind the run. Without an evidence writer, the default, no phase
  leaves one, and nothing is said about it (`orchestrator.py:1252`); `Audited` claims records only with a writer.
* A budget stop overrides an outcome that was OK, and the resume repeats the phase with a fresh budget
  (`orchestrator.py:686`, 777); `BudgetExhausted` raised in a handler is caught as any exception and recorded as
  failed (1187). `WithinBudget` is per call.
* `iter_adapter_slots` looks at attributes the orchestrator does not have (`runtime_profile.py:148`), so production
  accepts stubs. `Slots` and `Stubs` have the names of the code.
* A repository that has docs/ but no recognised roots allows docs/ alone (`repository/discovery.py:587`).

Model calls:

* The MiniMax compositions register one adapter but fall back to the other provider: `_adapter_for` raises KeyError
  instead of returning the failure (`router.py:204`). The local one gives its review service a router without the
  review role, so its review always raises.
* The MiniMax adapter never asks for a repair (`minimax.py:394`), only the fake one does. A body or a payload that is
  a list makes `complete` or `invoke` raise.

Monitor and controller:

* Polling outlasts `max_total_s` by an interval and the requests of an attempt, and sleeps behind the last
  attempt (`ci/monitor.py:127`). `PollBounded` has the exact bound.
* A pull request stays ready after a push. `ReadyBacked` says only that it was right once.
* `GitHubChecksClient` sets mergeability unknown for ever, and takes "required" from a field of the run, so that no
  pull request gets ready through it (`real_adapters.py:288`). The monitor lets its exceptions through.
* If the first check of a required name says that it is not required and a later one that it is, the name blocks and
  no packet is built for it (`ci/remediation.py:76`). `Reported` leaves this case out.
* The first check of a name decides in the monitor, the last one in the driver's readiness (`delivery.py:285`). A
  later check of a required name may have failed or still run when the monitor calls the pull request ready,
  although `ci/readiness.py:9-11` lets any failed or pending required check block. `ReadyBacked` speaks of the
  deciding ones.
* /resume and /cancel say "resumed" and "cancelled" whatever the service answers; /status fails on every run of
  a real service, because `status` returns no phase; /feature says "started" for a run that failed
  (`handlers.py:142`, 171, 212, 228).
* With an executor, resume revives a cancelled run with nobody driving it, and a feature's run is in no ledger
  (`application_service.py:199`); the operator's pause and resume mark any run (`pause_resume.py:30`).
  `CancelHolds` speaks of the orchestrator and of runs no operator has touched.
* A /cancel that meets a run in flight is answered "cancelled", and the call's next `record_phase` makes the run
  running again: the case of `orch_cancel`, seen from the chat. `CancelHolds` exempts runs a call was driving
  (`overtaken`).
* `TelegramBotRuntime` has no authorizer, drops the replies of its dispatcher and calls methods with other signatures
  than the service has: only /resume, /cancel, /runs and /help get through (`command_handlers.py:30`).


## 6 What is not modelled

* Contents and wording: texts, timestamps, artifact names, traces and spans. Trace errors are
  suppressed by the driver and nothing reads them back.
* `RunState.PENDING`: no code stores it.
* The handler for `BudgetExhausted` in the phase loop (`orchestrator.py:752`): `_run_phase`
  catches every `Exception` first (1187), so the loop never sees it.
* Two threads inside one method of a store, `acquire` apart: each other method of a ledger or of the lease store is
  one step.
* In Pipeline: the driver's interleavings, which are Orchestrator's; several tasks in a plan, because `_PlanBuilder`
  makes one; overlapping calls for one run; prompts, documents and the fields of schemas; prohibited paths and the
  regression check, which nothing the callers give can trigger; `per_phase_budget.py`, a recorder the driver does
  not use.
* In ModelCalls: how requests are serialised, sizes and token counts, the catalogue of models, the change list that
  the fake adapter can carry.
* In CiMonitor and Controller: several pull requests, the evidence text of packets, fetching updates from
  Telegram and their offsets.
* In LeaseStore: `worker_id`, `revision` (always 0) and `acquired_at`, which no check reads; `acquire` by a
  token that owns the lease, because `start_run` makes a fresh token per call; a crash inside
  `os.replace`, which is atomic.
* Code nothing in the package calls: `orchestrator/controlled_patches.py`, `red_green_cycle.py`,
  `minimax_budget_tracker.py`, `independent_review.py`, `delivery/gate.py`, the remediation controller with its retry
  budget and classifier in `validation/`, `state_machine.py` with `artifacts/store.py`, the earlier pipeline in
  `pipeline/` and `phases/`. It has tests of its own and no caller whose promises it could break.
* Components with status `not_modelled` in `PROJECT.json`, each with the reason there. Reading repositories, document
  phases, rendering, parsing, traceability, container command lines and redaction are pure data or pure I/O.


## 7 The plan

Done, in this order: RunRecords and RunLedger; FileLedger with DurableLedger; LeaseStore; Orchestrator over the
two; Delivery; CommandRunner; TaskExecution and ModelCalls, composed with the handlers in Pipeline; CiMonitor and
Controller; the proofs of each; LeaseTable and its two implementations.

Worth doing next:

1. Orchestrator as an implementation of a ledger-free specification of a run, and Pipeline as one of Orchestrator's
   phases, so that the two grains are tied by a refinement and not by their definitions alone.
2. The retry budget and remediation controller of `validation/`, and controlled patches, once the driver calls them:
   hunks validated before the first write, and what a failure in between leaves.
3. Overlapping attempts of two calls in one workspace: today the lease keeps calls apart only while it is renewed in
   time, and Pipeline assumes that it is.
