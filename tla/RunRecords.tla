---------------------------- MODULE RunRecords ----------------------------
(***************************************************************************)
(* The run record that both ledgers keep, and the pure functions that      *)
(* compute its next value (controller/run_ledger.py).                      *)
(*                                                                         *)
(* Abstractions: repository, started_at and feature_description are stored *)
(* verbatim and never read by a ledger, so they are left out; the four     *)
(* cost fields are always written together by the callers' contract and    *)
(* are one field "cost"; a context is an opaque value; the attempt counter *)
(* of the cursor is copied through and never read.                         *)
(***************************************************************************)
EXTENDS Naturals

CONSTANTS
  Key,      \* non-empty idempotency keys
  Phase,    \* phase names
  Ctx,      \* persisted contexts
  Cost,     \* cost attributions
  None      \* Python's None, and the empty idempotency key

RunState == {"running", "paused", "blocked", "complete", "failed", "cancelled"}

PhaseOutcome == {"ok", "skipped", "failed", "blocked", "paused"}

\* The outcomes that complete a phase; the other three mark it for a retry.
Completing == {"ok", "skipped"}

PhaseCursor ==
  [current : Phase, last : Phase \cup {None}, failed : Phase \cup {None},
   outcome : PhaseOutcome]

RunRecord ==
  [state : RunState, key : Key \cup {None}, rev : Nat \ {0},
   phase : Phase \cup {None}, ctx : Ctx \cup {None},
   cursor : PhaseCursor \cup {None}, cost : Cost \cup {None}]

ASSUME NoneIsNoValue ==
  None \notin Key \cup Phase \cup Ctx \cup Cost \cup PhaseCursor \cup RunRecord

-----------------------------------------------------------------------------
\* `x if x is not None else old`
Override(x, old) == IF x = None THEN old ELSE x

\* A record for a run id the ledger does not hold.
NewRecord(k) ==
  [state |-> "running", key |-> k, rev |-> 1, phase |-> None, ctx |-> None,
   cursor |-> None, cost |-> None]

\* Mutant of NextCursor: a completed retry leaves the failed phase standing.
NextCursorStillFailed(old, p, o) ==
  [current |-> p,
   last    |-> IF o \in Completing THEN p ELSE None,
   failed  |-> IF o \in Completing THEN IF old = None THEN None ELSE old.failed ELSE p,
   outcome |-> o]

\* The cursor after phase p ended with outcome o, and the phase string kept
\* beside it for readers that do not know the cursor.
NextCursor(old, p, o) ==
  [current |-> p,
   last    |-> IF o \in Completing THEN p
               ELSE IF old = None THEN None ELSE old.last,
   failed  |-> IF o \in Completing THEN None ELSE p,
   outcome |-> o]

PhaseView(cursor) == Override(cursor.last, cursor.current)

\* _update_state called by a mark_*: a fresh record is built field by field,
\* and the cost fields are not among those copied.
Marked(rec, s) ==
  [rec EXCEPT !.state = s, !.rev = @ + 1, !.cost = None]

\* _update_state called by record_phase.
PhaseRecorded(rec, p, o, c) ==
  LET cursor == NextCursor(rec.cursor, p, o)
  IN  [Marked(rec, "running") EXCEPT !.phase  = PhaseView(cursor),
                                     !.cursor = cursor,
                                     !.ctx    = Override(c, rec.ctx)]

\* record_cost_attribution.
CostRecorded(rec, amount) ==
  [rec EXCEPT !.rev = @ + 1, !.cost = Override(amount, rec.cost)]

=============================================================================
