---------------------------- MODULE Orchestrator ----------------------------
(***************************************************************************)
(* The run driver (orchestrator/orchestrator.py): start_run, resume_run    *)
(* and cancel_run over a run ledger, a lease store and the table of        *)
(* cancellation tokens. Calls run concurrently in one process, which may   *)
(* crash; the ledger is the in-memory one or the durable one, each as its  *)
(* own module describes it.                                                *)
(*                                                                         *)
(* Any statement of start_run may raise. What the loop raises is caught    *)
(* and the run marked failed (Raises, Fail); the rest leaves start_run,    *)
(* and with it the lease and the token, as they are (Escapes). A ledger    *)
(* write that raises has updated the index and may not be in the file: it  *)
(* is the step of the write and then Raises or Escapes, and the file keeps *)
(* what the next write of the run says, as it writes the whole record      *)
(* (FileLedger has the lines). Writes of the lease file do not fail here.  *)
(*                                                                         *)
(* Abstractions: a lease is live or expired (LeaseStore has the clock). A  *)
(* phase handler, with the budget check behind it, ends in any outcome;    *)
(* only what the draft_pr and ci handlers hand to each other through the   *)
(* run context is kept: has delivery recorded its head SHA? The completion *)
(* policy that skips both remote phases is left out, and so are traces,    *)
(* spans, artifacts and the memory ledger's eviction (RunLedger has it).   *)
(***************************************************************************)
EXTENDS RunRecords, Sequences, FiniteSets

CONSTANTS
  Run,
  Call,           \* calls of start_run and resume_run, each made once
  PhaseSequence,  \* PHASE_SEQUENCE
  DraftPr, Ci,    \* the phases "draft_pr" and "ci"
  Outcomes,       \* the outcomes phases end in, a subset of PhaseOutcome
  Durable,        \* FileRunLedger or the in-memory RunLedger?
  Overlapping,    \* may calls for one run overlap?
  Slow,           \* may a phase outlast the lease of its call?
  Crashes,        \* may the process die?
  Faults,         \* may statements of start_run raise?
  Cancels         \* may cancel_run be called?

N == Len(PhaseSequence)

Lease == [owner : Call, live : BOOLEAN]

ASSUME OrchestratorAssumption ==
  /\ PhaseSequence \in Seq(Phase) /\ N > 0
  /\ \A i, j \in 1..N : PhaseSequence[i] = PhaseSequence[j] => i = j
  /\ \A p \in Phase : \E i \in 1..N : PhaseSequence[i] = p
  /\ DraftPr \in Phase /\ Ci \in Phase
  /\ Outcomes \subseteq PhaseOutcome
  /\ {Durable, Overlapping, Slow, Crashes, Faults, Cancels} \subseteq BOOLEAN
  /\ Ctx = BOOLEAN /\ None \notin Run \cup Call \cup Lease

VARIABLES
  ledger,    \* the records of the run ledger
  lease,     \* per run, the lease: its owner and whether it is live, or None
  token,     \* _cancel_tokens: per run, the call whose token is registered
  flipped,   \* the calls whose token is set
  pc,        \* where each call is
  run,       \* the run each call drives
  key,       \* the idempotency key each call passes
  at,        \* the index of the call's next or current phase
  head,      \* ctx.delivery_head_sha is not None
  outcome,   \* the outcome of the call's last phase
  watch,     \* the call whose token the current phase watches
  marking,   \* cancel_run calls that still have to mark the ledger
  done,      \* history: the phases recorded as completed, per run
  crashed,   \* history: the calls that died in a crash
  wanted,    \* history: the runs cancel_run was called for, once each
  escaped,   \* history: the calls that an exception ended
  late,      \* history: the calls that let their lease expire
  raced,     \* history: the calls that wrote a lease another was about to write
  shared     \* history: the runs that two calls have driven at once

local == <<run, key, at, head, outcome, watch>>
history == <<done, crashed, escaped, wanted, late, raced, shared>>
vars == <<ledger, lease, token, flipped, pc, local, marking, history>>

Label == {"idle", "resume", "lookup", "record", "register", "acquire",
          "take", "boundary", "phase", "recorded", "mark", "fail", "release",
          "deregister", "over"}

Init ==
  /\ ledger = [r \in Run |-> None]
  /\ lease = [r \in Run |-> None]
  /\ token = [r \in Run |-> None]
  /\ flipped = {}
  /\ pc = [c \in Call |-> "idle"]
  /\ run = [c \in Call |-> None]
  /\ key = [c \in Call |-> None]
  /\ at = [c \in Call |-> 1]
  /\ head = [c \in Call |-> FALSE]
  /\ outcome = [c \in Call |-> "ok"]
  /\ watch = [c \in Call |-> None]
  /\ marking = {}
  /\ done = [r \in Run |-> {}]
  /\ crashed = {}
  /\ wanted = {}
  /\ late = {}
  /\ escaped = {}
  /\ raced = {}
  /\ shared = {}

-----------------------------------------------------------------------------
Active(c) == pc[c] \notin {"idle", "over"}

Driving(r) == {c \in Call : Active(c) /\ run[c] = r}

\* Call c goes from label l to label m.
Step(c, l, m) == pc[c] = l /\ pc' = [pc EXCEPT ![c] = m]

\* The ledger stores rec for the run of call c; the rest stays.
Store(c, rec) == ledger' = [ledger EXCEPT ![run[c]] = rec]

\* _ledger_find_by_key, and the same check inside RunLedger.record_start:
\* the durable ledger has no key index, so no key is ever in use there.
InUse(k, r) ==
  ~Durable /\ k # None /\ \E q \in Run : q # r /\ ledger[q] # None /\ ledger[q].key = k

\* start_run with a fresh run id; a key in use raises and changes nothing.
StartRun(c, r, k) ==
  /\ Step(c, "idle", "record")
  /\ ledger[r] = None /\ \A d \in Call : run[d] # r
  /\ ~InUse(k, r)
  /\ run' = [run EXCEPT ![c] = r]
  /\ key' = [key EXCEPT ![c] = k]
  /\ UNCHANGED <<ledger, lease, token, flipped, at, head, outcome, watch, marking, history>>

\* resume_run: the check of the record's state.
ResumeRun(c, r) ==
  /\ Step(c, "idle", "resume")
  /\ Overlapping \/ Driving(r) = {}
  /\ ledger[r] # None
  /\ ledger[r].state \notin {"complete", "cancelled"}
  /\ run' = [run EXCEPT ![c] = r]
  /\ shared' = IF Driving(r) = {} THEN shared ELSE shared \cup {r}
  /\ UNCHANGED <<ledger, lease, token, flipped, key, at, head, outcome, watch,
                 marking, done, crashed, escaped, wanted, late, raced>>

MarkResume(c) ==
  /\ Step(c, "resume", "lookup")
  /\ Store(c, Marked(ledger[run[c]], "running"))
  /\ UNCHANGED <<lease, token, flipped, local, marking, history>>

IndexOf(p) == CHOOSE i \in 1..N : PhaseSequence[i] = p

\* Mutants of ResumeIndex: a failed phase is skipped; the last completed phase
\* is run again.
ResumeAfterFailed(rec) ==
  IF rec.cursor # None THEN IndexOf(rec.cursor.current) + 1
  ELSE IF rec.phase # None THEN IndexOf(rec.phase) + 1 ELSE 1

ResumeAtLast(rec) == IF rec.cursor # None THEN IndexOf(rec.cursor.current) ELSE 1

\* The resume index: a phase that did not complete is run again.
ResumeIndex(rec) ==
  IF rec.cursor # None THEN
    IF rec.cursor.outcome \notin Completing THEN IndexOf(rec.cursor.current)
    ELSE IndexOf(Override(rec.cursor.last, rec.cursor.current)) + 1
  ELSE IF rec.phase # None THEN IndexOf(rec.phase) + 1
  ELSE 1

\* _ctx_from_persisted: the head SHA is not among the fields it restores.
Restored(ctx) == FALSE

\* start_run reads the record to resume from.
Lookup(c) ==
  /\ Step(c, "lookup", "record")
  /\ at' = [at EXCEPT ![c] = ResumeIndex(ledger[run[c]])]
  /\ head' = [head EXCEPT ![c] = Restored(ledger[run[c]].ctx)]
  /\ UNCHANGED <<ledger, lease, token, flipped, run, key, outcome, watch, marking, history>>

\* record_start: the memory ledger drops the cursor of a run it replaces.
Started(old, k) ==
  IF old = None THEN NewRecord(k)
  ELSE [old EXCEPT !.state = "running", !.key = k, !.rev = @ + 1,
                   !.cursor = IF Durable THEN @ ELSE None]

\* Mutant of RecordStart: the key is not checked again.
RecordStartUnchecked(c) ==
  /\ Step(c, "record", "register")
  /\ Store(c, Started(ledger[run[c]], key[c]))
  /\ UNCHANGED <<lease, token, flipped, local, marking, history>>

RecordStart(c) ==
  /\ Step(c, "record", "register")
  /\ ~InUse(key[c], run[c])
  /\ Store(c, Started(ledger[run[c]], key[c]))
  /\ UNCHANGED <<lease, token, flipped, local, marking, history>>

\* record_start raises IdempotencyKeyConflictError, and start_run with it.
RecordStartFails(c) ==
  /\ Step(c, "record", "over")
  /\ InUse(key[c], run[c])
  /\ UNCHANGED <<ledger, lease, token, flipped, local, marking, history>>

\* Mutant of RegisterToken: only a fresh run gets a token.
RegisterTokenOnce(c) ==
  /\ Step(c, "register", "acquire")
  /\ token' = IF ledger[run[c]].phase = None THEN [token EXCEPT ![run[c]] = c] ELSE token
  /\ UNCHANGED <<ledger, lease, flipped, local, marking, history>>

\* A fresh token replaces the one another call for the run registered.
RegisterToken(c) ==
  /\ Step(c, "register", "acquire")
  /\ token' = [token EXCEPT ![run[c]] = c]
  /\ UNCHANGED <<ledger, lease, flipped, local, marking, history>>

Live(r) == lease[r] # None /\ lease[r].live

\* The leases that recover_expired leaves.
Unexpired == [r \in Run |-> IF Live(r) THEN lease[r] ELSE None]

\* Mutant of Check: a live lease of another call is no conflict.
CheckNothing(c) ==
  /\ Step(c, "acquire", "take")
  /\ lease' = Unexpired
  /\ UNCHANGED <<ledger, token, flipped, local, marking, history>>

\* recover_expired and the check of acquire.
Check(c) ==
  /\ Step(c, "acquire", "take")
  /\ ~Live(run[c])
  /\ lease' = Unexpired
  /\ UNCHANGED <<ledger, token, flipped, local, marking, history>>

\* History: call c writes a lease while others are inside acquire for its run.
Race(c) ==
  LET rivals == {d \in Call \ {c} : pc[d] = "take" /\ run[d] = run[c]}
  IN  IF rivals = {} THEN {} ELSE rivals \cup {c}

\* The write of acquire, whatever lease is there by now; a resume behind the
\* last phase has no phase left to run and returns the terminal state it
\* started with.
Acquire(c) ==
  /\ Step(c, "take", IF at[c] > N THEN "release" ELSE "boundary")
  /\ lease' = [lease EXCEPT ![run[c]] = [owner |-> c, live |-> TRUE]]
  /\ raced' = raced \cup Race(c)
  /\ UNCHANGED <<ledger, token, flipped, local, marking,
                 done, crashed, escaped, wanted, late, shared>>

\* LeaseConflict: start_run raises OrchestratorError and leaves its record
\* and its token as they are.
AcquireFails(c) ==
  /\ Step(c, "acquire", "over")
  /\ Live(run[c])
  /\ lease' = Unexpired
  /\ UNCHANGED <<ledger, token, flipped, local, marking, history>>

-----------------------------------------------------------------------------
Owns(c) == lease[run[c]] # None /\ lease[run[c]].owner = c

\* The phase boundary: the lease is renewed and the handler starts; a phase
\* that runs a subprocess hands the registered token to the runner.
BeginPhase(c) ==
  /\ Step(c, "boundary", "phase")
  /\ Owns(c)
  /\ lease' = [lease EXCEPT ![run[c]].live = TRUE]
  /\ watch' = [watch EXCEPT ![c] = token[run[c]]]
  /\ raced' = raced \cup Race(c)
  /\ UNCHANGED <<ledger, token, flipped, run, key, at, head, outcome, marking,
                 done, crashed, escaped, wanted, late, shared>>

\* renew raises: the lease is gone or another call's.
RenewFails(c) ==
  /\ Step(c, "boundary", "fail")
  /\ ~Owns(c)
  /\ UNCHANGED <<ledger, lease, token, flipped, local, marking, history>>

\* What a phase can end in, and the context it leaves behind. ci never
\* passes without the head SHA; delivery that succeeded records it, also when
\* the budget check turns the outcome into "blocked".
Possible(p, o, had, has) ==
  /\ p = Ci /\ ~had => o \notin Completing
  /\ IF p # DraftPr THEN has = had
     ELSE /\ o \in Completing => has
          /\ o \notin Completing \cup {"blocked"} => has = had
          /\ had => has

EndPhase(c, o, has) ==
  /\ Step(c, "phase", "recorded")
  /\ Possible(PhaseSequence[at[c]], o, head[c], has)
  /\ outcome' = [outcome EXCEPT ![c] = o]
  /\ head' = [head EXCEPT ![c] = has]
  /\ watch' = [watch EXCEPT ![c] = None]
  /\ UNCHANGED <<ledger, lease, token, flipped, run, key, at, marking, history>>

\* record_phase; the loop goes on, or one mark_* follows.
RecordPhase(c) ==
  LET r == run[c]
      p == PhaseSequence[at[c]]
      o == outcome[c]
      next == o \in Completing /\ at[c] < N
  IN  /\ Step(c, "recorded", IF next THEN "boundary" ELSE "mark")
      /\ at' = [at EXCEPT ![c] = IF next THEN @ + 1 ELSE @]
      /\ Store(c, PhaseRecorded(ledger[r], p, o, head[c]))
      /\ done' = [done EXCEPT ![r] = IF o \in Completing THEN @ \cup {p} ELSE @]
      /\ UNCHANGED <<lease, token, flipped, run, key, head, outcome, watch, marking,
                     crashed, escaped, wanted, late, raced, shared>>

\* Mutants of MarkEnd: every end is marked complete; a pause is not marked.
MarkEndComplete(c) ==
  /\ Step(c, "mark", "release")
  /\ Store(c, Marked(ledger[run[c]], "complete"))
  /\ UNCHANGED <<lease, token, flipped, local, marking, history>>

MarkEndUnlessPaused(c) ==
  /\ Step(c, "mark", "release")
  /\ IF outcome[c] = "paused" THEN UNCHANGED ledger
     ELSE Store(c, Marked(ledger[run[c]], IF outcome[c] \in Completing THEN "complete"
                                          ELSE outcome[c]))
  /\ UNCHANGED <<lease, token, flipped, local, marking, history>>

\* mark_failed, mark_blocked, mark_paused or mark_complete.
MarkEnd(c) ==
  /\ Step(c, "mark", "release")
  /\ Store(c, Marked(ledger[run[c]],
                     IF outcome[c] \in Completing THEN "complete" ELSE outcome[c]))
  /\ UNCHANGED <<lease, token, flipped, local, marking, history>>

\* Something in the phase loop raises, a renewal or a ledger write for one;
\* the write may be the last mark, which the index then shows already.
Raises(c) ==
  /\ Faults
  /\ \/ pc[c] \in {"boundary", "recorded", "mark"}
     \/ pc[c] = "release" /\ at[c] <= N /\ outcome[c] # "failed"
  /\ pc' = [pc EXCEPT ![c] = "fail"]
  /\ UNCHANGED <<ledger, lease, token, flipped, local, marking, history>>

\* The exception handlers of start_run.
Fail(c) ==
  /\ Step(c, "fail", "release")
  /\ Store(c, Marked(ledger[run[c]], "failed"))
  /\ outcome' = [outcome EXCEPT ![c] = "failed"]
  /\ UNCHANGED <<lease, token, flipped, run, key, at, head, watch, marking, history>>

\* Mutant of Release: the lease stays.
ReleaseForgotten(c) ==
  /\ Step(c, "release", "deregister")
  /\ UNCHANGED <<ledger, lease, token, flipped, local, marking, history>>

\* release, whose LeaseConflict and LeaseNotFound are suppressed.
Release(c) ==
  /\ Step(c, "release", "deregister")
  /\ lease' = IF Owns(c) THEN [lease EXCEPT ![run[c]] = None] ELSE lease
  /\ UNCHANGED <<ledger, token, flipped, local, marking, history>>

\* The token registered for the run goes, whoever registered it; start_run
\* returns.
Deregister(c) ==
  /\ Step(c, "deregister", "over")
  /\ token' = [token EXCEPT ![run[c]] = None]
  /\ UNCHANGED <<ledger, lease, flipped, local, marking, history>>

\* An exception leaves start_run: raised before the phase loop, by mark_failed in
\* a handler or behind the handlers, or no Exception at all (KeyboardInterrupt).
\* Nothing is released.
Escapes(c) ==
  /\ Faults /\ Active(c)
  /\ pc' = [pc EXCEPT ![c] = "over"]
  /\ escaped' = escaped \cup {c}
  /\ UNCHANGED <<ledger, lease, token, flipped, local, marking,
                 done, crashed, wanted, late, raced, shared>>

-----------------------------------------------------------------------------
\* cancel_run: the registered token is set, then the ledger is marked.
CancelRun(r) ==
  /\ Cancels /\ r \notin wanted
  /\ ledger[r] # None /\ ledger[r].state # "complete"
  /\ flipped' = flipped \cup ({token[r]} \ {None})
  /\ marking' = marking \cup {r}
  /\ wanted' = wanted \cup {r}
  /\ UNCHANGED <<ledger, lease, token, pc, local, done, crashed, escaped, late, raced, shared>>

MarkCancelled(r) ==
  /\ r \in marking
  /\ ledger' = [ledger EXCEPT ![r] = Marked(@, "cancelled")]
  /\ marking' = marking \ {r}
  /\ UNCHANGED <<lease, token, flipped, pc, local, history>>

\* The lease of a call expires while it runs a phase too long, or after the call
\* was cut short.
Expire(r) ==
  /\ Live(r)
  /\ Slow \/ lease[r].owner \in crashed \cup escaped
  /\ lease' = [lease EXCEPT ![r].live = FALSE]
  /\ late' = late \cup ({lease[r].owner} \ (crashed \cup escaped))
  /\ UNCHANGED <<ledger, token, flipped, pc, local, marking,
                 done, crashed, escaped, wanted, raced, shared>>

\* The process dies and a new one starts: the tokens and the in-memory ledger
\* are lost, the lease file stays.
Crash ==
  LET dead == {c \in Call : Active(c)}
  IN  /\ Crashes
      /\ dead # {}
      /\ pc' = [c \in Call |-> IF c \in dead THEN "over" ELSE pc[c]]
      /\ crashed' = crashed \cup dead
      /\ token' = [r \in Run |-> None]
      /\ marking' = {}
      /\ ledger' = IF Durable THEN ledger ELSE [r \in Run |-> None]
      /\ UNCHANGED <<lease, flipped, local, done, escaped, wanted, late, raced, shared>>

Next ==
  \/ \E c \in Call :
       \/ \E r \in Run : ResumeRun(c, r)
       \/ \E r \in Run, k \in Key \cup {None} : StartRun(c, r, k)
       \/ MarkResume(c) \/ Lookup(c) \/ RecordStart(c) \/ RecordStartFails(c)
       \/ RegisterToken(c) \/ Check(c) \/ Acquire(c) \/ AcquireFails(c)
       \/ BeginPhase(c) \/ RenewFails(c)
       \/ \E o \in Outcomes, has \in BOOLEAN : EndPhase(c, o, has)
       \/ RecordPhase(c) \/ MarkEnd(c) \/ Release(c) \/ Deregister(c)
       \/ Raises(c) \/ Fail(c) \/ Escapes(c)
  \/ \E r \in Run : CancelRun(r) \/ MarkCancelled(r) \/ Expire(r)
  \/ Crash

Spec == Init /\ [][Next]_vars

-----------------------------------------------------------------------------
TypeOK ==
  /\ ledger \in [Run -> RunRecord \cup {None}]
  /\ lease \in [Run -> Lease \cup {None}]
  /\ token \in [Run -> Call \cup {None}]
  /\ flipped \subseteq Call
  /\ pc \in [Call -> Label]
  /\ run \in [Call -> Run \cup {None}]
  /\ key \in [Call -> Key \cup {None}]
  /\ at \in [Call -> 1..(N + 1)]
  /\ head \in [Call -> BOOLEAN]
  /\ outcome \in [Call -> PhaseOutcome]
  /\ watch \in [Call -> Call \cup {None}]
  /\ marking \subseteq Run
  /\ done \in [Run -> SUBSET Phase]
  /\ crashed \subseteq Call /\ escaped \subseteq Call
  /\ late \subseteq Call /\ raced \subseteq Call
  /\ wanted \subseteq Run /\ shared \subseteq Run

\* A phase runs only when every phase before it was recorded as completed:
\* no resume skips a phase, whatever crashed, overlapped or failed before.
PhaseOrder ==
  \A c \in Call : pc[c] = "phase" =>
    \A j \in 1..(at[c] - 1) : PhaseSequence[j] \in done[run[c]]

\* A run is complete only after all its phases were recorded as completed.
CompleteAfterAll ==
  \A r \in Run : ledger[r] # None /\ ledger[r].state = "complete" =>
    \A j \in 1..N : PhaseSequence[j] \in done[r]

\* Where calls for a run never overlap, a phase that was recorded as completed
\* is not run again ("skip phases already completed by the prior run").
NoRerun ==
  \A c \in Call : pc[c] = "phase" /\ run[c] \notin shared
    => PhaseSequence[at[c]] \notin done[run[c]]

\* From acquire to release no other call drives the run, unless the lease of
\* one of them has expired, or was written while another call was inside
\* acquire ("Two workers cannot advance the same run revision simultaneously").
OneAdvances ==
  LET driving == {"boundary", "phase", "recorded", "mark", "release"}
  IN  \A c, d \in Call :
        c # d /\ pc[c] \in driving /\ pc[d] \in driving /\ run[c] = run[d]
          => {c, d} \cap (late \cup raced) # {}

\* A start_run that returns, whatever it was that it met in its phases, leaves
\* no lease behind; one that dies or is left by an exception does ("release the
\* worker lease ... on EVERY terminal path" says more than the code does, which
\* has no finally).
LeaseReturned ==
  \A r \in Run : lease[r] # None =>
    Active(lease[r].owner) \/ lease[r].owner \in crashed \cup escaped

\* When calls for a run do not overlap, the process stays up, no exception leaves
\* a call and no resume finds every phase done already, a run that nobody drives
\* is not left in state "running".
Settled ==
  \A r \in Run :
    /\ ledger[r] # None /\ Driving(r) = {}
    /\ crashed = {} /\ r \notin shared
    /\ \A c \in Call : run[c] = r => c \notin escaped /\ at[c] <= N
    => ledger[r].state # "running"

\* No two runs in the ledger carry one idempotency key, although start_run
\* checks the key some steps before it records the run ("If a prior run with
\* the same key exists in the ledger, OrchestratorError is raised").
KeysDistinct ==
  \A q, r \in Run :
    ledger[q] # None /\ ledger[r] # None /\ ledger[q].key # None
      /\ ledger[q].key = ledger[r].key => q = r

\* Where calls for a run never overlap, cancel_run sets the token that the
\* run's phase watches ("The start_run call that is blocked in the runner will
\* return promptly").
CancelReaches ==
  [][\A c \in Call :
       pc[c] = "phase" /\ run[c] \in wanted' \ wanted /\ run[c] \notin shared
         => watch[c] \in flipped']_vars

\* A cancelled run stays cancelled (resume_run treats it as terminal).
CancelSticks ==
  [][\A r \in Run : ledger[r] # None /\ ledger[r].state = "cancelled" =>
       ledger'[r] # None /\ ledger'[r].state = "cancelled"]_vars

\* When delivery was recorded as completed, ci runs with the head SHA it left
\* ("so subsequent phases see the prior run's accumulated state").
DeliveredHead ==
  \A c \in Call : pc[c] = "phase" /\ PhaseSequence[at[c]] = Ci /\ DraftPr \in done[run[c]]
    => head[c]

-----------------------------------------------------------------------------
(* The leases of the driver implement LeaseTable, as those of LeaseStore   *)
(* do.                                                                     *)

\* Where a call is that drives its run.
Holding == {"boundary", "phase", "recorded", "mark", "fail", "release"}

Owners == [r \in Run |-> IF lease[r] = None THEN None ELSE lease[r].owner]

LiveRuns == {r \in Run : Live(r)}

Driven == [c \in Call |-> IF pc[c] \in Holding THEN run[c] ELSE None]

Table == INSTANCE LeaseTable WITH RunId <- Run, Worker <- Call,
                                  owner <- Owners, live <- LiveRuns, driving <- Driven

\* No call drives a run without having taken its lease, and none takes a live
\* one, however calls overlap, expire and die, until two are inside acquire for
\* one run at once.
ImplementsTable ==
  Table!Init /\ [][Table!Next \/ raced' # {}]_<<Owners, LiveRuns, Driven>>

=============================================================================
