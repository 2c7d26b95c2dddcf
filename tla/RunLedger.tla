----------------------------- MODULE RunLedger -----------------------------
(***************************************************************************)
(* The in-memory run ledger (controller/run_ledger.py, class RunLedger):   *)
(* idempotency keys, first-in-first-out eviction, and the optimistic       *)
(* concurrency that expected_revision offers to callers.                   *)
(*                                                                         *)
(* Clients read a record, keep its revision and may pass it back later.    *)
(* A call that raises or returns None changes nothing and is no step. A    *)
(* call is one step although the class has no lock: of two threads inside  *)
(* one compared write each might store over the other's change. No caller  *)
(* under src/ passes expected_revision, so nothing there depends on it.    *)
(***************************************************************************)
EXTENDS RunRecords, Sequences

CONSTANTS
  RunId,
  Client,        \* callers that use expected_revision
  Marks,         \* the states callers mark, a subset of RunState
  Outcomes,      \* the outcomes callers record, a subset of PhaseOutcome
  MaxRecords,    \* RunLedger(max_records=...)
  MaxRevision    \* bound of the model on a record's revision

\* A read: since is history: what has happened to the run's record since the read.
Held == [run : RunId, rev : Nat \ {0}, since : {"nothing", "write", "eviction"}]

ASSUME LedgerAssumption ==
  /\ None \notin RunId \cup Client \cup Held
  /\ Marks \subseteq RunState /\ Outcomes \subseteq PhaseOutcome
  /\ MaxRecords \in Nat \ {0}
  /\ MaxRevision \in Nat \ {0}

VARIABLES
  records,    \* _records: run id -> record, None when absent
  order,      \* _order: run ids in insertion order
  keyIndex,   \* _key_index: key -> run id, None when absent
  held        \* what each client read last and has not used yet

vars == <<records, order, keyIndex, held>>

Init ==
  /\ records = [r \in RunId |-> None]
  /\ order = <<>>
  /\ keyIndex = [k \in Key |-> None]
  /\ held = [c \in Client |-> None]

-----------------------------------------------------------------------------
\* What clients hold after event e has befallen the runs in S; an eviction
\* outweighs the writes to a later record of the same run.
Since(h, S, e) ==
  [c \in Client |->
     IF h[c] # None /\ h[c].run \in S /\ h[c].since # "eviction"
     THEN [h[c] EXCEPT !.since = e] ELSE h[c]]

\* record_start, the record it stores: an existing run is replaced with a
\* bumped revision; phase, context and cost survive, the cursor does not.
Started(old, k) ==
  IF old = None THEN NewRecord(k)
  ELSE [old EXCEPT !.state = "running", !.key = k, !.rev = @ + 1,
                   !.cursor = None]

\* Mutant of Rekeyed: the key the run had before still leads to it.
RekeyedBoth(r, old, k) == [j \in Key |-> IF j = k THEN r ELSE keyIndex[j]]

\* The key index when run r, stored as old, is recorded under key k.
Rekeyed(r, old, k) ==
  [j \in Key |->
     IF j = k THEN r
     ELSE IF old # None /\ old.key = j THEN None
     ELSE keyIndex[j]]

\* Mutant of Survivors: the record is evicted, its place in the order is not.
SurvivorsAll(o) == o

\* _evict: record_start adds at most one run, so one eviction is enough.
Victims(o) == IF Len(o) > MaxRecords THEN {Head(o)} ELSE {}

Survivors(o) == IF Len(o) > MaxRecords THEN Tail(o) ELSE o

\* record_start of run r under key k (None: no key). A key in use returns the
\* existing record (same run) or raises (another run): no change either way.
RecordStart(r, k) ==
  LET rec   == Started(records[r], k)
      index == Rekeyed(r, records[r], k)
      queue == IF records[r] = None THEN Append(order, r) ELSE order
      gone  == Victims(queue)
      Free(j) == \E v \in gone : records[v] # None /\ records[v].key = j
  IN  /\ k # None => keyIndex[k] = None
      /\ records[r] # None => records[r].rev < MaxRevision
      /\ order' = Survivors(queue)
      /\ records' = [q \in RunId |-> IF q \in gone THEN None
                                     ELSE IF q = r THEN rec ELSE records[q]]
      /\ keyIndex' = [j \in Key |-> IF Free(j) THEN None ELSE index[j]]
      /\ held' = Since(Since(held, {r}, "write"), gone, "eviction")

-----------------------------------------------------------------------------
\* A client reads a record with get().
Read(c, r) ==
  /\ records[r] # None
  /\ held' = [held EXCEPT ![c] = [run |-> r, rev |-> records[r].rev, since |-> "nothing"]]
  /\ UNCHANGED <<records, order, keyIndex>>

\* Mutant of MayWrite: the revision is not compared.
MayWriteUnchecked(w, r) ==
  /\ records[r] # None
  /\ records[r].rev < MaxRevision
  /\ w # None => held[w] # None /\ held[w].run = r

\* The checks at the head of _update_state and record_cost_attribution, for
\* a caller that passes no expected_revision (w = None) or the one it holds.
MayWrite(w, r) ==
  /\ records[r] # None
  /\ records[r].rev < MaxRevision
  /\ w # None => held[w] # None /\ held[w].run = r /\ held[w].rev = records[r].rev

\* The write itself. A client that compared its revision has used it up.
Write(w, r, rec) ==
  /\ records' = [records EXCEPT ![r] = rec]
  /\ held' = [c \in Client |-> IF c = w THEN None ELSE Since(held, {r}, "write")[c]]
  /\ UNCHANGED <<order, keyIndex>>

\* mark_resume, mark_complete, mark_cancelled, mark_failed, mark_paused and
\* mark_blocked, with expected_state es (None: not compared).
Mark(w, r, s, es) ==
  /\ MayWrite(w, r)
  /\ es # None => records[r].state = es
  /\ Write(w, r, Marked(records[r], s))

\* record_phase.
RecordPhase(w, r, p, o, c) ==
  /\ MayWrite(w, r)
  /\ Write(w, r, PhaseRecorded(records[r], p, o, c))

\* record_cost_attribution.
RecordCostAttribution(w, r, amount) ==
  /\ MayWrite(w, r)
  /\ Write(w, r, CostRecorded(records[r], amount))

Next ==
  \E r \in RunId :
    \/ \E k \in Key \cup {None} : RecordStart(r, k)
    \/ \E c \in Client : Read(c, r)
    \/ \E w \in Client \cup {None} :
         \/ \E s \in Marks, es \in RunState \cup {None} : Mark(w, r, s, es)
         \/ \E p \in Phase, o \in Outcomes, c \in Ctx \cup {None} :
              RecordPhase(w, r, p, o, c)
         \/ \E amount \in Cost \cup {None} : RecordCostAttribution(w, r, amount)

Spec == Init /\ [][Next]_vars

-----------------------------------------------------------------------------
TypeOK ==
  /\ records \in [RunId -> RunRecord \cup {None}]
  /\ order \in Seq(RunId)
  /\ keyIndex \in [Key -> RunId \cup {None}]
  /\ held \in [Client -> Held \cup {None}]

\* The key index and the records agree: a key leads to the one record that
\* carries it and to nothing else. Re-keying, replacing and evicting each
\* touch both sides; a dangling entry makes record_start raise KeyError, a
\* missing one lets two runs own the same request.
KeyIndexExact ==
  /\ \A k \in Key : keyIndex[k] # None =>
       records[keyIndex[k]] # None /\ records[keyIndex[k]].key = k
  /\ \A r \in RunId : records[r] # None /\ records[r].key # None =>
       keyIndex[records[r].key] = r

\* The insertion order lists every held run exactly once and never more than
\* max_records of them, so runs() and eviction see what get() sees.
OrderExact ==
  /\ Len(order) <= MaxRecords
  /\ \A i, j \in 1..Len(order) : order[i] = order[j] => i = j
  /\ \A r \in RunId : records[r] # None <=> \E i \in 1..Len(order) : order[i] = r

\* The cursor and the phase string never contradict each other: a completing
\* outcome completed the current phase, any other marks it for a retry.
CursorCoherent ==
  \A r \in RunId : records[r] # None /\ records[r].cursor # None =>
    LET rec == records[r]
        cur == rec.cursor
    IN  /\ cur.outcome \in Completing => cur.last = cur.current /\ cur.failed = None
        /\ cur.outcome \notin Completing => cur.failed = cur.current
        /\ rec.phase = PhaseView(cur)

\* While a run stays in the ledger, every change of its record bumps the
\* revision by exactly one: a holder of a revision cannot miss a change.
RevisionCountsWrites ==
  [][\A r \in RunId :
       records[r] # None /\ records'[r] # None /\ records'[r] # records[r]
         => records'[r].rev = records[r].rev + 1]_vars

\* A write that compared its revision never overwrites a change its caller has
\* not seen, as long as the run stayed in the ledger: one that was evicted and
\* recorded again reaches the compared revision a second time.
NoStaleWrite ==
  [][\A c \in Client :
       held[c] # None /\ held'[c] = None => held[c].since # "write"]_vars

=============================================================================
