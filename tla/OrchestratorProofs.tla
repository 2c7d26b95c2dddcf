------------------------- MODULE OrchestratorProofs -------------------------
(***************************************************************************)
(* The run driver for any sets of runs and calls and any phase sequence:   *)
(* type correctness and what leases guarantee with both ledgers, and, with *)
(* the durable one, that no call ever skips a phase, whatever overlaps,    *)
(* expires, fails or crashes.                                              *)
(***************************************************************************)
EXTENDS Orchestrator, TLAPS

-----------------------------------------------------------------------------
(* The functions on records.                                               *)

\* A mark keeps a record a record, with the next revision and the same key.
LEMMA MarkedType ==
  ASSUME NEW rec \in RunRecord, NEW s \in RunState
  PROVE  /\ Marked(rec, s) \in RunRecord
         /\ Marked(rec, s).rev = rec.rev + 1
         /\ Marked(rec, s).key = rec.key
         /\ Marked(rec, s).state = s
         /\ Marked(rec, s).cursor = rec.cursor
         /\ Marked(rec, s).phase = rec.phase
  <1>1. rec.rev + 1 \in Nat \ {0}
    BY DEF RunRecord
  <1>2. QED
    BY <1>1 DEF Marked, RunRecord

\* The cursor a phase leaves behind is a cursor.
LEMMA CursorType ==
  ASSUME NEW old \in PhaseCursor \cup {None}, NEW p \in Phase, NEW o \in PhaseOutcome
  PROVE  /\ NextCursor(old, p, o) \in PhaseCursor
         /\ PhaseView(NextCursor(old, p, o)) \in Phase \cup {None}
  BY DEF NextCursor, PhaseCursor, PhaseView, Override

\* So does recording a phase.
LEMMA PhaseRecordedType ==
  ASSUME NEW rec \in RunRecord, NEW p \in Phase, NEW o \in PhaseOutcome,
         NEW c \in Ctx \cup {None}
  PROVE  /\ PhaseRecorded(rec, p, o, c) \in RunRecord
         /\ PhaseRecorded(rec, p, o, c).rev = rec.rev + 1
         /\ PhaseRecorded(rec, p, o, c).key = rec.key
         /\ PhaseRecorded(rec, p, o, c).state = "running"
         /\ PhaseRecorded(rec, p, o, c).cursor = NextCursor(rec.cursor, p, o)
         /\ PhaseRecorded(rec, p, o, c).phase = PhaseView(NextCursor(rec.cursor, p, o))
  <1> DEFINE cursor == NextCursor(rec.cursor, p, o)
  <1>1. cursor \in PhaseCursor /\ PhaseView(cursor) \in Phase \cup {None}
    BY CursorType DEF RunRecord
  <1>2. Override(c, rec.ctx) \in Ctx \cup {None}
    BY DEF Override, RunRecord
  <1> DEFINE m == Marked(rec, "running")
  <1>3. /\ m \in RunRecord /\ m.rev = rec.rev + 1 /\ m.key = rec.key
        /\ m.state = "running"
    BY MarkedType DEF RunState
  <1>4. PhaseRecorded(rec, p, o, c) =
          [m EXCEPT !.phase = PhaseView(cursor), !.cursor = cursor,
                    !.ctx = Override(c, rec.ctx)]
    BY DEF PhaseRecorded
  <1> DEFINE x == [m EXCEPT !.phase = PhaseView(cursor), !.cursor = cursor,
                            !.ctx = Override(c, rec.ctx)]
  <1> HIDE DEF cursor, m
  <1>5. /\ x \in RunRecord /\ x.rev = m.rev /\ x.key = m.key /\ x.state = m.state
        /\ x.cursor = cursor /\ x.phase = PhaseView(cursor)
    BY <1>1, <1>2, <1>3 DEF RunRecord
  <1> HIDE DEF x
  <1>6. QED
    BY <1>3, <1>4, <1>5 DEF x, cursor

\* Every phase has its place in the sequence.
LEMMA IndexType ==
  ASSUME NEW p \in Phase
  PROVE  IndexOf(p) \in 1..N /\ PhaseSequence[IndexOf(p)] = p
  BY OrchestratorAssumption DEF IndexOf

\* The sequence has a length and lists phases, each once.
LEMMA SequenceType ==
  /\ N \in Nat \ {0}
  /\ \A i \in 1..N : PhaseSequence[i] \in Phase /\ IndexOf(PhaseSequence[i]) = i
  <1>1. N \in Nat \ {0} /\ \A i \in 1..N : PhaseSequence[i] \in Phase
    BY OrchestratorAssumption DEF N
  <1>2. ASSUME NEW i \in 1..N PROVE IndexOf(PhaseSequence[i]) = i
    BY <1>1, <1>2, IndexType, OrchestratorAssumption
  <1>3. QED
    BY <1>1, <1>2

\* A resume starts at a phase of the sequence or right behind it.
LEMMA ResumeType ==
  ASSUME NEW rec \in RunRecord
  PROVE  ResumeIndex(rec) \in 1..(N + 1)
  <1>1. rec.cursor \in PhaseCursor \cup {None} /\ rec.phase \in Phase \cup {None}
    BY DEF RunRecord
  <1>2. CASE rec.cursor # None
    <2>1. /\ rec.cursor.current \in Phase
          /\ Override(rec.cursor.last, rec.cursor.current) \in Phase
      BY <1>1, <1>2 DEF PhaseCursor, Override
    <2>2. QED
      BY <1>2, <2>1, IndexType, SequenceType DEF ResumeIndex
  <1>3. CASE rec.cursor = None
    BY <1>1, <1>3, IndexType, SequenceType DEF ResumeIndex
  <1>4. QED
    BY <1>2, <1>3

\* record_start stores a running record; the durable ledger keeps the cursor
\* and both keep the phase.
LEMMA StartedType ==
  ASSUME NEW old \in RunRecord \cup {None}, NEW k \in Key \cup {None}
  PROVE  /\ Started(old, k) \in RunRecord
         /\ Started(old, k).state = "running"
         /\ old = None => Started(old, k).cursor = None /\ Started(old, k).phase = None
         /\ old # None /\ Durable =>
              Started(old, k).cursor = old.cursor /\ Started(old, k).phase = old.phase
  <1>1. CASE old = None
    BY <1>1 DEF Started, NewRecord, RunRecord, RunState
  <1>2. CASE old # None
    <2>1. old \in RunRecord /\ old.rev + 1 \in Nat \ {0}
      BY <1>2 DEF RunRecord
    <2>2. "running" \in RunState
      BY DEF RunState
    <2>3. (IF Durable THEN old.cursor ELSE None) \in PhaseCursor \cup {None}
      BY <2>1 DEF RunRecord
    <2>4. QED
      BY <1>2, <2>1, <2>2, <2>3 DEF Started, RunRecord
  <1>3. QED
    BY <1>1, <1>2

\* Storing a record gives the run of the call that record and leaves the
\* other runs alone.
LEMMA StoreType ==
  ASSUME TypeOK, NEW c \in Call, run[c] \in Run, NEW rec \in RunRecord, Store(c, rec)
  PROVE  /\ ledger' \in [Run -> RunRecord \cup {None}]
         /\ ledger'[run[c]] = rec /\ rec # None
         /\ \A r \in Run : r # run[c] => ledger'[r] = ledger[r]
         /\ \A r \in Run : ledger[r] # None => ledger'[r] # None
  BY NoneIsNoValue DEF Store, TypeOK

\* A step changes the label of one call.
LEMMA StepType ==
  ASSUME TypeOK, NEW c \in Call, NEW l, NEW m \in Label, Step(c, l, m)
  PROVE  /\ pc' \in [Call -> Label]
         /\ pc[c] = l /\ pc'[c] = m
         /\ \A d \in Call : d # c => pc'[d] = pc[d]
  BY DEF Step, TypeOK

-----------------------------------------------------------------------------
(* Types. That the run of a call is in the ledger wherever the call writes *)
(* it, and that a phase has an index, is part of the induction.            *)

Placed ==
  /\ \A c \in Call :
       /\ pc[c] = "idle" => at[c] = 1
       /\ pc[c] # "idle" => run[c] \in Run
       /\ pc[c] \notin {"idle", "record", "over"} => ledger[run[c]] # None
       /\ pc[c] \in {"boundary", "phase", "recorded"} => at[c] <= N
  /\ \A r \in marking : ledger[r] # None

\* Every step keeps types and places.
LEMMA PlacedInductive == TypeOK /\ Placed /\ [Next]_vars => TypeOK' /\ Placed'
  <1> SUFFICES ASSUME TypeOK, Placed, [Next]_vars PROVE TypeOK' /\ Placed'
    OBVIOUS
  <1> USE SequenceType DEF Lease
  <1>1. ASSUME NEW c \in Call, NEW r \in Run, ResumeRun(c, r) PROVE TypeOK' /\ Placed'
    BY <1>1 DEF ResumeRun, Step, Label, TypeOK, Placed, history
  <1>2. ASSUME NEW c \in Call, NEW r \in Run, NEW k \in Key \cup {None}, StartRun(c, r, k)
        PROVE  TypeOK' /\ Placed'
    BY <1>2 DEF StartRun, Step, Label, TypeOK, Placed, history
  <1>3. ASSUME NEW c \in Call, MarkResume(c) PROVE TypeOK' /\ Placed'
    <2>1. pc[c] = "resume" /\ run[c] \in Run /\ ledger[run[c]] \in RunRecord
      BY <1>3 DEF MarkResume, Step, TypeOK, Placed
    <2>2. Marked(ledger[run[c]], "running") \in RunRecord
      BY <2>1, MarkedType DEF RunState
    <2>3. QED
      BY <1>3, <2>1, <2>2, StoreType DEF MarkResume, Step, Label, TypeOK, Placed, history, local
  <1>4. ASSUME NEW c \in Call, Lookup(c) PROVE TypeOK' /\ Placed'
    <2>1. pc[c] = "lookup" /\ run[c] \in Run /\ ledger[run[c]] \in RunRecord
      BY <1>4 DEF Lookup, Step, TypeOK, Placed
    <2>2. ResumeIndex(ledger[run[c]]) \in 1..(N + 1)
      BY <2>1, ResumeType
    <2>3. QED
      BY <1>4, <2>1, <2>2 DEF Lookup, Restored, Step, Label, TypeOK, Placed, history
  <1>5. ASSUME NEW c \in Call, RecordStart(c) PROVE TypeOK' /\ Placed'
    <2>1. pc[c] = "record" /\ run[c] \in Run /\ key[c] \in Key \cup {None}
      BY <1>5 DEF RecordStart, Step, TypeOK, Placed
    <2>2. Started(ledger[run[c]], key[c]) \in RunRecord
      BY <2>1, StartedType DEF TypeOK
    <2>3. QED
      BY <1>5, <2>1, <2>2, StoreType
      DEF RecordStart, Step, Label, TypeOK, Placed, history, local
  <1>6. ASSUME NEW c \in Call, RecordStartFails(c) PROVE TypeOK' /\ Placed'
    BY <1>6 DEF RecordStartFails, Step, Label, TypeOK, Placed, history, local
  <1>7. ASSUME NEW c \in Call, RegisterToken(c) PROVE TypeOK' /\ Placed'
    BY <1>7 DEF RegisterToken, Step, Label, TypeOK, Placed, history, local
  <1>8. ASSUME NEW c \in Call, Acquire(c) PROVE TypeOK' /\ Placed'
    <2>1. Race(c) \in SUBSET Call
      BY DEF Race
    <2>2. /\ pc[c] = "take" /\ run[c] \in Run /\ ledger[run[c]] # None
          /\ pc'[c] = IF at[c] > N THEN "release" ELSE "boundary"
          /\ pc' \in [Call -> Label]
          /\ \A d \in Call : d # c => pc'[d] = pc[d]
      BY <1>8 DEF Acquire, Step, Label, TypeOK, Placed
    <2>3. lease' \in [Run -> Lease \cup {None}]
      BY <1>8, <2>2 DEF Acquire, TypeOK
    <2>4. Placed'
      BY <1>8, <2>2 DEF Acquire, TypeOK, Placed, local
    <2>5. raced' = raced \cup Race(c)
      BY <1>8 DEF Acquire
    <2>6. QED
      BY <1>8, <2>1, <2>2, <2>3, <2>4, <2>5 DEF Acquire, TypeOK, local
  <1>9. ASSUME NEW c \in Call, AcquireFails(c) PROVE TypeOK' /\ Placed'
    BY <1>9 DEF AcquireFails, Unexpired, Step, Label, TypeOK, Placed, history, local
  <1>10. ASSUME NEW c \in Call, BeginPhase(c) PROVE TypeOK' /\ Placed'
    <2>1. run[c] \in Run /\ lease' = [lease EXCEPT ![run[c]].live = TRUE]
      BY <1>10 DEF BeginPhase, Step, Placed
    <2>2. lease[run[c]] \in Lease
      BY <1>10, <2>1 DEF BeginPhase, Owns, TypeOK
    <2>3. lease' \in [Run -> Lease \cup {None}]
      BY <2>1, <2>2 DEF TypeOK
    <2>4. raced' \in SUBSET Call
      BY <1>10 DEF BeginPhase, Race, TypeOK
    <2>5. QED
      BY <1>10, <2>3, <2>4 DEF BeginPhase, Step, Label, TypeOK, Placed
  <1>11. ASSUME NEW c \in Call, RenewFails(c) PROVE TypeOK' /\ Placed'
    BY <1>11 DEF RenewFails, Step, Label, TypeOK, Placed, history, local
  <1>12. ASSUME NEW c \in Call, NEW o \in Outcomes, NEW has \in BOOLEAN, EndPhase(c, o, has)
         PROVE  TypeOK' /\ Placed'
    <2>1. o \in PhaseOutcome
      BY OrchestratorAssumption
    <2>2. QED
      BY <1>12, <2>1 DEF EndPhase, Step, Label, TypeOK, Placed, history
  <1>13. ASSUME NEW c \in Call, RecordPhase(c) PROVE TypeOK' /\ Placed'
    <2> DEFINE p == PhaseSequence[at[c]]
               rec == PhaseRecorded(ledger[run[c]], p, outcome[c], head[c])
    <2>1. pc[c] = "recorded" /\ run[c] \in Run /\ ledger[run[c]] \in RunRecord /\ at[c] \in 1..N
      BY <1>13 DEF RecordPhase, Step, TypeOK, Placed
    <2>2. p \in Phase /\ outcome[c] \in PhaseOutcome /\ head[c] \in Ctx
      BY <2>1, OrchestratorAssumption DEF TypeOK
    <2>3. rec \in RunRecord
      BY <2>1, <2>2, PhaseRecordedType
    <2>4. Store(c, rec)
      BY <1>13 DEF RecordPhase
    <2> HIDE DEF rec
    <2>5. QED
      BY <1>13, <2>1, <2>2, <2>3, <2>4, StoreType
      DEF RecordPhase, Step, Label, TypeOK, Placed
  <1>14. ASSUME NEW c \in Call, MarkEnd(c) PROVE TypeOK' /\ Placed'
    <2> DEFINE s == IF outcome[c] \in Completing THEN "complete" ELSE outcome[c]
    <2>1. pc[c] = "mark" /\ run[c] \in Run /\ ledger[run[c]] \in RunRecord
      BY <1>14 DEF MarkEnd, Step, TypeOK, Placed
    <2>2. s \in RunState
      BY DEF TypeOK, PhaseOutcome, Completing, RunState
    <2>3. Marked(ledger[run[c]], s) \in RunRecord
      BY <2>1, <2>2, MarkedType
    <2>4. QED
      BY <1>14, <2>1, <2>3, StoreType DEF MarkEnd, Step, Label, TypeOK, Placed, history, local
  <1>15. ASSUME NEW c \in Call, Fail(c) PROVE TypeOK' /\ Placed'
    <2>1. pc[c] = "fail" /\ run[c] \in Run /\ ledger[run[c]] \in RunRecord
      BY <1>15 DEF Fail, Step, TypeOK, Placed
    <2>2. Marked(ledger[run[c]], "failed") \in RunRecord
      BY <2>1, MarkedType DEF RunState
    <2>3. QED
      BY <1>15, <2>1, <2>2, StoreType
      DEF Fail, Step, Label, PhaseOutcome, TypeOK, Placed, history
  <1>16. ASSUME NEW c \in Call, Release(c) PROVE TypeOK' /\ Placed'
    BY <1>16 DEF Release, Owns, Step, Label, TypeOK, Placed, history, local
  <1>17. ASSUME NEW c \in Call, Deregister(c) PROVE TypeOK' /\ Placed'
    BY <1>17 DEF Deregister, Step, Label, TypeOK, Placed, history, local
  <1>18. ASSUME NEW r \in Run, CancelRun(r) PROVE TypeOK' /\ Placed'
    BY <1>18 DEF CancelRun, TypeOK, Placed, local
  <1>19. ASSUME NEW r \in Run, MarkCancelled(r) PROVE TypeOK' /\ Placed'
    <2>1. ledger[r] \in RunRecord
      BY <1>19 DEF MarkCancelled, TypeOK, Placed
    <2>2. Marked(ledger[r], "cancelled") \in RunRecord
      BY <2>1, MarkedType DEF RunState
    <2>3. QED
      BY <1>19, <2>2, NoneIsNoValue DEF MarkCancelled, TypeOK, Placed, history, local
  <1>20. ASSUME NEW r \in Run, Expire(r) PROVE TypeOK' /\ Placed'
    <2>1. lease[r] \in Lease
      BY <1>20 DEF Expire, Live, TypeOK
    <2>2. lease' \in [Run -> Lease \cup {None}]
      BY <1>20, <2>1 DEF Expire, TypeOK
    <2>3. late' \subseteq Call
      BY <1>20, <2>1 DEF Expire, TypeOK, Lease
    <2>4. UNCHANGED <<ledger, token, flipped, pc, local, marking, done, crashed, escaped,
                      wanted, raced, shared>>
      BY <1>20 DEF Expire
    <2>5. QED
      BY <2>2, <2>3, <2>4 DEF TypeOK, Placed, local
  <1>21. ASSUME Crash PROVE TypeOK' /\ Placed'
    BY <1>21 DEF Crash, Active, Label, TypeOK, Placed, local
  <1>22. CASE UNCHANGED vars
    BY <1>22 DEF vars, history, local, TypeOK, Placed
  <1>23. ASSUME NEW c \in Call, Check(c) PROVE TypeOK' /\ Placed'
    BY <1>23 DEF Check, Unexpired, Step, Label, TypeOK, Placed, history, local
  <1>24. ASSUME NEW c \in Call, Raises(c) PROVE TypeOK' /\ Placed'
    BY <1>24 DEF Raises, Label, TypeOK, Placed, history, local
  <1>25. ASSUME NEW c \in Call, Escapes(c) PROVE TypeOK' /\ Placed'
    BY <1>25 DEF Escapes, Active, Label, TypeOK, Placed, local
  <1>26. QED
    BY <1>1, <1>2, <1>3, <1>4, <1>5, <1>6, <1>7, <1>8, <1>9, <1>10, <1>11, <1>12, <1>13,
       <1>14, <1>15, <1>16, <1>17, <1>18, <1>19, <1>20, <1>21, <1>22, <1>23, <1>24,
       <1>25 DEF Next

\* Types and places hold at the start.
LEMMA PlacedInit == Init => TypeOK /\ Placed
  BY SequenceType DEF Init, TypeOK, Placed, Label, PhaseOutcome

\* The state of the driver is always well typed, with either ledger.
THEOREM TypeCorrect == Spec => []TypeOK
  BY PlacedInit, PlacedInductive, PTL DEF Spec

-----------------------------------------------------------------------------
(* No phase is skipped. What a call or a record says about progress is     *)
(* backed by the phases recorded as completed, which only grow: that is    *)
(* what makes a stale resume index harmless. The index a record gives must *)
(* be covered too, and with the durable ledger a record without a cursor   *)
(* has recorded no phase at all.                                           *)

Covered(r, i) == \A j \in 1..N : j < i => PhaseSequence[j] \in done[r]

\* What the record of run r promises.
Backed(r) ==
  ledger[r] # None =>
    /\ ledger[r].cursor = None => ledger[r].phase = None
    /\ Covered(r, ResumeIndex(ledger[r]))
    /\ ledger[r].state = "complete" => Covered(r, N + 1)

\* What call c has computed.
Justified(c) ==
  /\ pc[c] # "idle" => Covered(run[c], at[c])
  /\ pc[c] = "mark" /\ outcome[c] \in Completing => Covered(run[c], N + 1)

Progress == (\A r \in Run : Backed(r)) /\ (\A c \in Call : Justified(c))

\* The resume index depends on the cursor and the phase only.
LEMMA SameIndex ==
  ASSUME NEW old, NEW new, new.cursor = old.cursor, new.phase = old.phase
  PROVE  ResumeIndex(new) = ResumeIndex(old)
  BY DEF ResumeIndex

\* Recording phase i: the record now resumes at i, or behind it if i completed.
LEMMA RecordedIndex ==
  ASSUME NEW rec \in RunRecord, NEW i \in 1..N, NEW o \in PhaseOutcome,
         NEW ctx \in Ctx \cup {None}
  PROVE  LET new == PhaseRecorded(rec, PhaseSequence[i], o, ctx)
         IN  /\ new.cursor # None
             /\ ResumeIndex(new) = IF o \in Completing THEN i + 1 ELSE i
  <1> DEFINE p == PhaseSequence[i]
             new == PhaseRecorded(rec, p, o, ctx)
             cursor == NextCursor(rec.cursor, p, o)
  <1>1. p \in Phase /\ IndexOf(p) = i /\ p # None
    BY SequenceType, NoneIsNoValue
  <1>2. new.cursor = cursor
    BY <1>1, PhaseRecordedType
  <1>3. cursor \in PhaseCursor
    BY <1>1, CursorType DEF RunRecord
  <1>4. cursor # None
    BY <1>3, NoneIsNoValue
  <1>5. /\ cursor.current = p /\ cursor.outcome = o
        /\ o \in Completing => cursor.last = p
    BY DEF NextCursor
  <1> HIDE DEF p, new, cursor
  <1>6. ResumeIndex(new) = IF o \in Completing THEN i + 1 ELSE i
    BY <1>1, <1>2, <1>4, <1>5 DEF ResumeIndex, Override
  <1>7. QED
    BY <1>2, <1>4, <1>6 DEF new, p

\* What holds of a record or a call goes on holding while it stays as it is
\* and the completed phases grow.
LEMMA BackedKept ==
  ASSUME NEW r \in Run, done[r] \subseteq done'[r], ledger'[r] = ledger[r], Backed(r)
  PROVE  Backed(r)'
  BY DEF Backed, Covered

\* A call that stands still stays justified, because done only grows.
LEMMA JustifiedKept ==
  ASSUME NEW c \in Call, done[run[c]] \subseteq done'[run[c]], pc'[c] = pc[c],
         run'[c] = run[c], at'[c] = at[c], outcome'[c] = outcome[c], Justified(c)
  PROVE  Justified(c)'
  BY DEF Justified, Covered

\* A record may be replaced by one that resumes at the same phase.
LEMMA BackedAlike ==
  ASSUME NEW r \in Run, done' = done, ledger[r] # None, Backed(r),
         ledger'[r].cursor = ledger[r].cursor, ledger'[r].phase = ledger[r].phase,
         ledger'[r].state = "complete" => Covered(r, N + 1)
  PROVE  Backed(r)'
  <1>1. ResumeIndex(ledger'[r]) = ResumeIndex(ledger[r])
    BY SameIndex
  <1>2. QED
    BY <1>1 DEF Backed, Covered

\* The steps that touch neither the ledger nor the completed phases.
LEMMA QuietStep ==
  ASSUME Progress, NEW c \in Call, UNCHANGED <<ledger, done, run>>,
         \A d \in Call : d # c => pc'[d] = pc[d] /\ at'[d] = at[d] /\ outcome'[d] = outcome[d],
         pc'[c] \notin {"idle", "mark"}, Covered(run[c], at'[c])
  PROVE  Progress'
  <1>1. ASSUME NEW r \in Run PROVE Backed(r)'
    BY BackedKept DEF Progress
  <1>2. ASSUME NEW d \in Call, d # c PROVE Justified(d)'
    BY <1>2, JustifiedKept DEF Progress
  <1>3. Justified(c)'
    BY DEF Justified, Covered
  <1>4. QED
    BY <1>1, <1>2, <1>3 DEF Progress

\* The steps in which call c rewrites the record of its run.
LEMMA RewriteStep ==
  ASSUME Progress, NEW c \in Call, NEW q \in Run, UNCHANGED <<done, run, at>>,
         \A r \in Run : r # q => ledger'[r] = ledger[r],
         Backed(q)',
         \A d \in Call : d # c => pc'[d] = pc[d] /\ outcome'[d] = outcome[d],
         pc[c] # "idle", pc'[c] # "mark"
  PROVE  Progress'
  <1>1. ASSUME NEW r \in Run PROVE Backed(r)'
    BY BackedKept DEF Progress
  <1>2. ASSUME NEW d \in Call, d # c PROVE Justified(d)'
    BY <1>2, JustifiedKept DEF Progress
  <1>3. Justified(c)'
    BY DEF Progress, Justified, Covered
  <1>4. QED
    BY <1>1, <1>2, <1>3 DEF Progress

\* Every step keeps Progress with the durable ledger.
LEMMA ProgressInductive ==
  ASSUME Durable, TypeOK, Placed, Progress, [Next]_vars
  PROVE  Progress'
  <1> USE SequenceType
  <1>1. ASSUME NEW c \in Call, NEW r \in Run, ResumeRun(c, r) PROVE Progress'
    <2>1. \A q \in Run : Backed(q)'
      BY <1>1, BackedKept DEF ResumeRun, Progress, history
    <2>2. ASSUME NEW d \in Call, d # c PROVE Justified(d)'
      BY <1>1, <2>2, JustifiedKept DEF ResumeRun, Step, TypeOK, Progress, history
    <2>3. at'[c] = 1 /\ pc'[c] = "resume"
      BY <1>1 DEF ResumeRun, Step, TypeOK, Placed
    <2>4. Justified(c)'
      BY <2>3 DEF Justified, Covered
    <2>5. QED
      BY <2>1, <2>2, <2>4 DEF Progress
  <1>2. ASSUME NEW c \in Call, NEW r \in Run, NEW k \in Key \cup {None}, StartRun(c, r, k)
        PROVE  Progress'
    <2>1. \A q \in Run : Backed(q)'
      BY <1>2, BackedKept DEF StartRun, Progress, history
    <2>2. ASSUME NEW d \in Call, d # c PROVE Justified(d)'
      BY <1>2, <2>2, JustifiedKept DEF StartRun, Step, TypeOK, Progress, history
    <2>3. at'[c] = 1 /\ pc'[c] = "record"
      BY <1>2 DEF StartRun, Step, TypeOK, Placed
    <2>4. Justified(c)'
      BY <2>3 DEF Justified, Covered
    <2>5. QED
      BY <2>1, <2>2, <2>4 DEF Progress
  <1>3. ASSUME NEW c \in Call, MarkResume(c) PROVE Progress'
    <2>1. PICK q \in Run : q = run[c]
      BY <1>3 DEF MarkResume, Step, Placed
    <2> DEFINE rec == Marked(ledger[run[c]], "running")
    <2>2. /\ pc[c] = "resume"
          /\ ledger[q] \in RunRecord /\ ledger[q] # None
      BY <1>3, <2>1 DEF MarkResume, Step, TypeOK, Placed
    <2>3. /\ rec \in RunRecord
          /\ rec.cursor = ledger[q].cursor /\ rec.phase = ledger[q].phase
          /\ rec.state = "complete" => Covered(q, N + 1)
      BY <2>1, <2>2, MarkedType DEF RunState
    <2>4. Store(c, rec) /\ done' = done
      BY <1>3, <2>1 DEF MarkResume, history
    <2> HIDE DEF rec
    <2>5. /\ ledger'[q] = rec
          /\ \A r \in Run : r # q => ledger'[r] = ledger[r]
      BY <2>1, <2>2, <2>3, <2>4, StoreType
    <2>6. Backed(q)
      BY <2>1, <2>2 DEF Progress
    <2>7. Backed(q)'
      BY <2>1, <2>2, <2>3, <2>4, <2>5, <2>6, BackedAlike
    <2>8. QED
      BY <1>3, <2>1, <2>2, <2>5, <2>7, RewriteStep DEF MarkResume, Step, TypeOK, local, history
  <1>4. ASSUME NEW c \in Call, Lookup(c) PROVE Progress'
    <2>1. pc[c] = "lookup" /\ run[c] \in Run /\ ledger[run[c]] # None
      BY <1>4 DEF Lookup, Step, TypeOK, Placed
    <2>2. Covered(run[c], ResumeIndex(ledger[run[c]]))
      BY <2>1 DEF Progress, Backed
    <2>3. at'[c] = ResumeIndex(ledger[run[c]])
      BY <1>4 DEF Lookup, TypeOK
    <2>4. QED
      BY <1>4, <2>2, <2>3, QuietStep DEF Lookup, Step, TypeOK, history
  <1>5. ASSUME NEW c \in Call, RecordStart(c) PROVE Progress'
    <2>1. PICK q \in Run : q = run[c]
      BY <1>5 DEF RecordStart, Step, Placed
    <2> DEFINE rec == Started(ledger[q], key[c])
    <2>2. /\ pc[c] = "record"
          /\ ledger[q] \in RunRecord \cup {None} /\ key[c] \in Key \cup {None}
      BY <1>5, <2>1 DEF RecordStart, Step, TypeOK, Placed
    <2>3. /\ rec \in RunRecord /\ rec.state = "running"
          /\ ledger[q] = None => rec.cursor = None /\ rec.phase = None
          /\ ledger[q] # None =>
               rec.cursor = ledger[q].cursor /\ rec.phase = ledger[q].phase
      BY <2>1, <2>2, StartedType
    <2>4. Store(c, rec) /\ done' = done
      BY <1>5, <2>1 DEF RecordStart, history
    <2> HIDE DEF rec
    <2>5. /\ ledger'[q] = rec
          /\ \A r \in Run : r # q => ledger'[r] = ledger[r]
      BY <2>1, <2>2, <2>3, <2>4, StoreType
    <2>6. Backed(q)
      BY <2>1, <2>2 DEF Progress
    <2>7. CASE ledger[q] # None
      <3>1. Backed(q)'
        BY <2>1, <2>2, <2>3, <2>4, <2>5, <2>6, <2>7, BackedAlike
      <3>2. QED
        BY <1>5, <2>1, <2>2, <2>5, <3>1, RewriteStep DEF RecordStart, Step, TypeOK, local, history
    <2>8. CASE ledger[q] = None
      <3>1. ResumeIndex(rec) = 1
        BY <2>3, <2>8 DEF ResumeIndex
      <3>2. Backed(q)'
        BY <2>3, <2>5, <2>8, <3>1 DEF Backed, Covered
      <3>3. QED
        BY <1>5, <2>1, <2>2, <2>5, <3>2, RewriteStep DEF RecordStart, Step, TypeOK, local, history
    <2>9. QED
      BY <2>7, <2>8
  <1>6. ASSUME NEW c \in Call, RecordStartFails(c) PROVE Progress'
    <2>1. Covered(run[c], at[c])
      BY <1>6 DEF RecordStartFails, Step, Progress, Justified
    <2>2. QED
      BY <1>6, <2>1, QuietStep DEF RecordStartFails, Step, TypeOK, local, history
  <1>7. ASSUME NEW c \in Call, RegisterToken(c) PROVE Progress'
    <2>1. Covered(run[c], at[c])
      BY <1>7 DEF RegisterToken, Step, Progress, Justified
    <2>2. QED
      BY <1>7, <2>1, QuietStep DEF RegisterToken, Step, TypeOK, local, history
  <1>8. ASSUME NEW c \in Call, Acquire(c) PROVE Progress'
    <2>1. Covered(run[c], at[c])
      BY <1>8 DEF Acquire, Step, Progress, Justified
    <2>2. QED
      BY <1>8, <2>1, QuietStep DEF Acquire, Step, TypeOK, local, history
  <1>9. ASSUME NEW c \in Call, AcquireFails(c) PROVE Progress'
    <2>1. Covered(run[c], at[c])
      BY <1>9 DEF AcquireFails, Step, Progress, Justified
    <2>2. QED
      BY <1>9, <2>1, QuietStep DEF AcquireFails, Step, TypeOK, local, history
  <1>10. ASSUME NEW c \in Call, BeginPhase(c) PROVE Progress'
    <2>1. Covered(run[c], at[c])
      BY <1>10 DEF BeginPhase, Step, Progress, Justified
    <2>2. QED
      BY <1>10, <2>1, QuietStep DEF BeginPhase, Step, TypeOK, local, history
  <1>11. ASSUME NEW c \in Call, RenewFails(c) PROVE Progress'
    <2>1. Covered(run[c], at[c])
      BY <1>11 DEF RenewFails, Step, Progress, Justified
    <2>2. QED
      BY <1>11, <2>1, QuietStep DEF RenewFails, Step, TypeOK, local, history
  <1>12. ASSUME NEW c \in Call, NEW o \in Outcomes, NEW has \in BOOLEAN, EndPhase(c, o, has)
         PROVE  Progress'
    <2>1. Covered(run[c], at[c])
      BY <1>12 DEF EndPhase, Step, Progress, Justified
    <2>2. QED
      BY <1>12, <2>1, QuietStep DEF EndPhase, Step, TypeOK, history
  <1>13. ASSUME NEW c \in Call, RecordPhase(c) PROVE Progress'
    <2>1. PICK q \in Run : q = run[c]
      BY <1>13 DEF RecordPhase, Step, Placed
    <2> DEFINE i == at[c]
               o == outcome[c]
               rec == PhaseRecorded(ledger[q], PhaseSequence[i], o, head[c])
    <2>2. /\ pc[c] = "recorded" /\ i \in 1..N
          /\ ledger[q] \in RunRecord /\ ledger[q] # None
          /\ o \in PhaseOutcome /\ head[c] \in Ctx
      <3>1. /\ pc[c] = "recorded" /\ i \in 1..N
            /\ ledger[q] \in RunRecord /\ ledger[q] # None
        BY <1>13, <2>1 DEF RecordPhase, Step, TypeOK, Placed
      <3>2. o \in PhaseOutcome /\ head[c] \in Ctx
        BY OrchestratorAssumption DEF TypeOK
      <3>3. QED
        BY <3>1, <3>2
    <2>3. /\ rec \in RunRecord /\ rec.state = "running" /\ rec.cursor # None
          /\ ResumeIndex(rec) = IF o \in Completing THEN i + 1 ELSE i
      BY <2>1, <2>2, PhaseRecordedType, RecordedIndex
    <2>4. /\ Store(c, rec) /\ run' = run /\ outcome' = outcome
          /\ done' = [done EXCEPT ![q] = IF o \in Completing
                                         THEN @ \cup {PhaseSequence[i]} ELSE @]
      BY <1>13, <2>1 DEF RecordPhase
    <2> HIDE DEF rec
    <2>5. /\ ledger'[q] = rec
          /\ \A r \in Run : r # q => ledger'[r] = ledger[r]
      BY <2>1, <2>2, <2>3, <2>4, StoreType
    <2>6. /\ \A r \in Run : done[r] \subseteq done'[r]
          /\ o \in Completing => PhaseSequence[i] \in done'[q]
      BY <2>1, <2>2, <2>4 DEF TypeOK
    <2>7. Covered(q, i)
      BY <2>1, <2>2 DEF Progress, Justified
    <2>8. /\ \A j \in 1..N : j < i => PhaseSequence[j] \in done'[q]
          /\ o \in Completing => \A j \in 1..N : j < i + 1 => PhaseSequence[j] \in done'[q]
      BY <2>1, <2>2, <2>6, <2>7 DEF Covered
    <2>9. ASSUME NEW r \in Run PROVE Backed(r)'
      <3>1. CASE r = q
        <4>1. /\ ledger'[r].cursor # None /\ ledger'[r].state = "running"
              /\ ResumeIndex(ledger'[r]) = IF o \in Completing THEN i + 1 ELSE i
          BY <2>3, <2>5, <3>1
        <4>2. \A j \in 1..N : j < ResumeIndex(ledger'[r]) => PhaseSequence[j] \in done'[r]
          BY <2>8, <3>1, <4>1
        <4>3. QED
          BY <4>1, <4>2 DEF Backed, Covered
      <3>2. CASE r # q
        BY <2>5, <2>6, <3>2, BackedKept DEF Progress
      <3>3. QED
        BY <3>1, <3>2
    <2>10. ASSUME NEW d \in Call, d # c PROVE Justified(d)'
      <3>1. pc'[d] = pc[d] /\ at'[d] = at[d]
        BY <1>13, <2>10 DEF RecordPhase, Step, TypeOK
      <3>2. CASE pc[d] = "idle"
        BY <3>1, <3>2 DEF Justified
      <3>3. CASE pc[d] # "idle"
        BY <2>4, <2>6, <3>1, <3>3, JustifiedKept DEF Progress, Placed
      <3>4. QED
        BY <3>2, <3>3
    <2>11. Justified(c)'
      <3>1. \/ o \in Completing /\ i < N /\ at'[c] = i + 1 /\ pc'[c] = "boundary"
            \/ o \in Completing /\ i = N /\ at'[c] = i /\ pc'[c] = "mark"
            \/ o \notin Completing /\ at'[c] = i /\ pc'[c] = "mark"
        BY <1>13, <2>1, <2>2 DEF RecordPhase, Step, TypeOK
      <3>2. run'[c] = q /\ outcome'[c] = o
        BY <2>1, <2>4
      <3>3. QED
        BY <2>1, <2>2, <2>8, <3>1, <3>2 DEF Justified, Covered
    <2>12. QED
      BY <2>9, <2>10, <2>11 DEF Progress
  <1>14. ASSUME NEW c \in Call, MarkEnd(c) PROVE Progress'
    <2>1. PICK q \in Run : q = run[c]
      BY <1>14 DEF MarkEnd, Step, Placed
    <2> DEFINE rec == Marked(ledger[run[c]],
                             IF outcome[c] \in Completing THEN "complete" ELSE outcome[c])
    <2>2. /\ pc[c] = "mark"
          /\ ledger[q] \in RunRecord /\ ledger[q] # None
      BY <1>14, <2>1 DEF MarkEnd, Step, TypeOK, Placed
    <2>3. /\ rec \in RunRecord
          /\ rec.cursor = ledger[q].cursor /\ rec.phase = ledger[q].phase
          /\ rec.state = "complete" => Covered(q, N + 1)
      <3>1. (IF outcome[c] \in Completing THEN "complete" ELSE outcome[c]) \in RunState
        BY DEF TypeOK, PhaseOutcome, Completing, RunState
      <3>2. outcome[c] \in Completing => Covered(q, N + 1)
        BY <2>1, <2>2 DEF Progress, Justified
      <3>3. outcome[c] # "complete"
        BY DEF TypeOK, PhaseOutcome
      <3>4. QED
        BY <2>1, <2>2, <3>1, <3>2, <3>3, MarkedType
    <2>4. Store(c, rec) /\ done' = done
      BY <1>14, <2>1 DEF MarkEnd, history
    <2> HIDE DEF rec
    <2>5. /\ ledger'[q] = rec
          /\ \A r \in Run : r # q => ledger'[r] = ledger[r]
      BY <2>1, <2>2, <2>3, <2>4, StoreType
    <2>6. Backed(q)
      BY <2>1, <2>2 DEF Progress
    <2>7. Backed(q)'
      BY <2>1, <2>2, <2>3, <2>4, <2>5, <2>6, BackedAlike
    <2>8. QED
      BY <1>14, <2>1, <2>2, <2>5, <2>7, RewriteStep DEF MarkEnd, Step, TypeOK, local, history
  <1>15. ASSUME NEW c \in Call, Fail(c) PROVE Progress'
    <2>1. PICK q \in Run : q = run[c]
      BY <1>15 DEF Fail, Step, Placed
    <2> DEFINE rec == Marked(ledger[run[c]], "failed")
    <2>2. /\ pc[c] = "fail"
          /\ ledger[q] \in RunRecord /\ ledger[q] # None
      BY <1>15, <2>1 DEF Fail, Step, TypeOK, Placed
    <2>3. /\ rec \in RunRecord
          /\ rec.cursor = ledger[q].cursor /\ rec.phase = ledger[q].phase
          /\ rec.state = "complete" => Covered(q, N + 1)
      BY <2>1, <2>2, MarkedType DEF RunState
    <2>4. Store(c, rec) /\ done' = done
      BY <1>15, <2>1 DEF Fail, history
    <2> HIDE DEF rec
    <2>5. /\ ledger'[q] = rec
          /\ \A r \in Run : r # q => ledger'[r] = ledger[r]
      BY <2>1, <2>2, <2>3, <2>4, StoreType
    <2>6. Backed(q)
      BY <2>1, <2>2 DEF Progress
    <2>7. Backed(q)'
      BY <2>1, <2>2, <2>3, <2>4, <2>5, <2>6, BackedAlike
    <2>8. QED
      BY <1>15, <2>1, <2>2, <2>5, <2>7, RewriteStep DEF Fail, Step, TypeOK, local, history
  <1>16. ASSUME NEW c \in Call, Release(c) PROVE Progress'
    <2>1. Covered(run[c], at[c])
      BY <1>16 DEF Release, Step, Progress, Justified
    <2>2. QED
      BY <1>16, <2>1, QuietStep DEF Release, Step, TypeOK, local, history
  <1>17. ASSUME NEW c \in Call, Deregister(c) PROVE Progress'
    <2>1. Covered(run[c], at[c])
      BY <1>17 DEF Deregister, Step, Progress, Justified
    <2>2. QED
      BY <1>17, <2>1, QuietStep DEF Deregister, Step, TypeOK, local, history
  <1>18. ASSUME NEW r \in Run, CancelRun(r) PROVE Progress'
    BY <1>18, BackedKept, JustifiedKept DEF CancelRun, Progress, local
  <1>19. ASSUME NEW r \in Run, MarkCancelled(r) PROVE Progress'
    <2> DEFINE rec == Marked(ledger[r], "cancelled")
    <2>1. ledger[r] \in RunRecord /\ ledger[r] # None
      BY <1>19 DEF MarkCancelled, TypeOK, Placed
    <2>2. /\ rec.cursor = ledger[r].cursor /\ rec.phase = ledger[r].phase
          /\ rec.state = "cancelled"
      BY <2>1, MarkedType DEF RunState
    <2>3. ledger'[r] = rec /\ \A q \in Run : q # r => ledger'[q] = ledger[q]
      BY <1>19 DEF MarkCancelled, TypeOK
    <2> HIDE DEF rec
    <2>4. done' = done /\ Backed(r)
      BY <1>19 DEF MarkCancelled, Progress, history
    <2>5. Backed(r)'
      BY <2>1, <2>2, <2>3, <2>4, BackedAlike
    <2>6. \A q \in Run : Backed(q)'
      BY <2>3, <2>4, <2>5, BackedKept DEF Progress
    <2>7. \A d \in Call : Justified(d)'
      BY <1>19, JustifiedKept DEF MarkCancelled, Progress, local, history
    <2>8. QED
      BY <2>6, <2>7 DEF Progress
  <1>20. ASSUME NEW r \in Run, Expire(r) PROVE Progress'
    BY <1>20, BackedKept, JustifiedKept DEF Expire, Progress, local, history
  <1>21. ASSUME Crash PROVE Progress'
    <2>1. \A q \in Run : Backed(q)'
      BY <1>21, BackedKept DEF Crash, Progress
    <2>2. ASSUME NEW d \in Call PROVE Justified(d)'
      <3>1. pc'[d] = pc[d] \/ (pc[d] # "idle" /\ pc'[d] = "over")
        BY <1>21 DEF Crash, Active
      <3>2. UNCHANGED <<run, at, outcome, done>>
        BY <1>21 DEF Crash, local
      <3>3. QED
        BY <3>1, <3>2 DEF Progress, Justified, Covered
    <2>3. QED
      BY <2>1, <2>2 DEF Progress
  <1>22. CASE UNCHANGED vars
    BY <1>22, BackedKept, JustifiedKept DEF vars, history, local, Progress
  <1>23. ASSUME NEW c \in Call, Check(c) PROVE Progress'
    <2>1. Covered(run[c], at[c])
      BY <1>23 DEF Check, Step, Progress, Justified
    <2>2. QED
      BY <1>23, <2>1, QuietStep DEF Check, Step, TypeOK, local, history
  <1>24. ASSUME NEW c \in Call, Raises(c) PROVE Progress'
    <2>1. Covered(run[c], at[c])
      BY <1>24 DEF Raises, Progress, Justified
    <2>2. QED
      BY <1>24, <2>1, QuietStep DEF Raises, TypeOK, local, history
  <1>25. ASSUME NEW c \in Call, Escapes(c) PROVE Progress'
    <2>1. Covered(run[c], at[c])
      BY <1>25 DEF Escapes, Active, Progress, Justified
    <2>2. QED
      BY <1>25, <2>1, QuietStep DEF Escapes, TypeOK, local
  <1>26. QED
    BY <1>1, <1>2, <1>3, <1>4, <1>5, <1>6, <1>7, <1>8, <1>9, <1>10, <1>11, <1>12, <1>13,
       <1>14, <1>15, <1>16, <1>17, <1>18, <1>19, <1>20, <1>21, <1>22, <1>23, <1>24,
       <1>25 DEF Next

\* Progress holds at the start.
LEMMA ProgressInit == Init => Progress
  BY DEF Init, Progress, Backed, Justified

\* With the durable ledger, the progress that records and calls claim is real.
LEMMA ProgressInvariant ==
  ASSUME Durable
  PROVE  Spec => [](TypeOK /\ Placed /\ Progress)
  <1>1. Init => TypeOK /\ Placed /\ Progress
    BY PlacedInit, ProgressInit
  <1>2. TypeOK /\ Placed /\ Progress /\ [Next]_vars => TypeOK' /\ Placed' /\ Progress'
    BY PlacedInductive, ProgressInductive
  <1>3. QED
    BY <1>1, <1>2, PTL DEF Spec

\* With the durable ledger no phase starts before all earlier ones completed.
THEOREM PhaseOrderCorrect ==
  ASSUME Durable
  PROVE  Spec => []PhaseOrder
  <1>1. TypeOK /\ Placed /\ Progress => PhaseOrder
    <2> SUFFICES ASSUME TypeOK, Placed, Progress, NEW c \in Call, pc[c] = "phase",
                        NEW j \in 1..(at[c] - 1)
                 PROVE  PhaseSequence[j] \in done[run[c]]
      BY DEF PhaseOrder
    <2>1. Covered(run[c], at[c]) /\ at[c] \in 1..N
      BY SequenceType DEF TypeOK, Placed, Progress, Justified
    <2>2. j \in 1..N /\ j < at[c]
      BY <2>1, SequenceType
    <2>3. QED
      BY <2>1, <2>2 DEF Covered
  <1>2. QED
    BY <1>1, ProgressInvariant, PTL

\* With the durable ledger a complete run has completed every phase.
THEOREM CompleteAfterAllCorrect ==
  ASSUME Durable
  PROVE  Spec => []CompleteAfterAll
  <1>1. Progress => CompleteAfterAll
    BY SequenceType DEF Progress, Backed, Covered, CompleteAfterAll
  <1>2. QED
    BY <1>1, ProgressInvariant, PTL

-----------------------------------------------------------------------------
(* Leases. A call between acquire and release that is neither late nor in a *)
(* race has a live lease of its own, that nobody is about to write over;   *)
(* every lease belongs to a call between acquire and release, late or not, *)
(* or to one that was cut short.                                           *)

Clear(c) == c \notin late \cup raced

Fenced ==
  \A c \in Call : pc[c] \in Holding /\ Clear(c) =>
    lease[run[c]] # None /\ lease[run[c]].owner = c /\ lease[run[c]].live

NoRival ==
  \A c, d \in Call :
    pc[c] = "take" /\ pc[d] \in Holding /\ run[c] = run[d] => ~Clear(d)

Owned ==
  \A r \in Run : lease[r] # None =>
    /\ run[lease[r].owner] = r
    /\ lease[r].owner \in crashed \cup escaped \/ pc[lease[r].owner] \in Holding

Gone == \A c \in crashed \cup escaped : pc[c] = "over"

\* The steps that keep Fenced and Owned apart from what is said of takers.
LeaseInv == Fenced /\ Owned

\* A call that is over stays over.
LEMMA GoneInductive ==
  ASSUME TypeOK, Gone, [Next]_vars
  PROVE  Gone'
  <1> USE DEF Gone, TypeOK
  <1>1. ASSUME NEW c \in Call, NEW l \in Label, NEW m \in Label,
               Step(c, l, m), l # "over", UNCHANGED <<crashed, escaped>>
        PROVE  Gone'
    BY <1>1 DEF Step
  <1>2. ASSUME NEW c \in Call, NEW l \in Label, NEW m \in Label,
               Step(c, l, m), l # "over", UNCHANGED history
        PROVE  Gone'
    BY <1>1, <1>2 DEF history
  <1>3. ASSUME NEW c \in Call, \E r \in Run : ResumeRun(c, r) PROVE Gone'
    BY <1>3, <1>1 DEF ResumeRun, Label
  <1>4. ASSUME NEW c \in Call, \E r \in Run, k \in Key \cup {None} : StartRun(c, r, k)
        PROVE  Gone'
    BY <1>4, <1>2 DEF StartRun, Label
  <1>5. ASSUME NEW c \in Call,
               MarkResume(c) \/ Lookup(c) \/ RecordStart(c) \/ RecordStartFails(c) \/ RegisterToken(c)
        PROVE  Gone'
    BY <1>5, <1>2 DEF MarkResume, Lookup, RecordStart, RecordStartFails, RegisterToken, Label
  <1>6. ASSUME NEW c \in Call,
               Check(c) \/ AcquireFails(c) \/ RenewFails(c)
        PROVE  Gone'
    BY <1>6, <1>2 DEF Check, AcquireFails, RenewFails, Label
  <1>7. ASSUME NEW c \in Call, NEW o \in Outcomes, NEW has \in BOOLEAN, EndPhase(c, o, has)
        PROVE  Gone'
    BY <1>7, <1>2 DEF EndPhase, Label
  <1>8. ASSUME NEW c \in Call, RecordPhase(c) PROVE Gone'
    BY <1>8, <1>1 DEF RecordPhase, Label
  <1>9. ASSUME NEW c \in Call, MarkEnd(c) \/ Fail(c) \/ Release(c) \/ Deregister(c) PROVE Gone'
    BY <1>9, <1>2 DEF MarkEnd, Fail, Release, Deregister, Label
  <1>10. ASSUME NEW r \in Run, CancelRun(r) \/ MarkCancelled(r) \/ Expire(r) PROVE Gone'
    BY <1>10 DEF CancelRun, MarkCancelled, Expire, history
  <1>11. ASSUME Crash PROVE Gone'
    BY <1>11 DEF Crash
  <1>12. CASE UNCHANGED vars
    BY <1>12 DEF vars, history
  <1>13. ASSUME NEW c \in Call, Acquire(c) \/ BeginPhase(c) PROVE Gone'
    <2>1. pc[c] # "over" /\ \A d \in Call : d # c => pc'[d] = pc[d]
      BY <1>13 DEF Acquire, BeginPhase, Step
    <2>2. UNCHANGED <<crashed, escaped>>
      BY <1>13 DEF Acquire, BeginPhase
    <2>3. QED
      BY <2>1, <2>2
  <1>14. ASSUME NEW c \in Call, Raises(c) PROVE Gone'
    BY <1>14 DEF Raises, history
  <1>15. ASSUME NEW c \in Call, Escapes(c) PROVE Gone'
    BY <1>15 DEF Escapes
  <1>16. QED
    BY <1>3, <1>4, <1>5, <1>6, <1>7, <1>8, <1>9, <1>10, <1>11, <1>12, <1>13,
       <1>14, <1>15 DEF Next

\* The steps that leave leases alone and keep their call on its side of
\* acquire and release.
LEMMA SameSide ==
  ASSUME TypeOK, Gone, LeaseInv, NEW c \in Call,
         UNCHANGED <<lease, late, raced, crashed, escaped>>,
         pc[c] = "idle" \/ run'[c] = run[c],
         \A d \in Call : d # c => pc'[d] = pc[d] /\ run'[d] = run[d],
         \/ pc[c] \notin Holding /\ pc'[c] \notin Holding
         \/ pc[c] \in Holding /\ pc'[c] \in Holding /\ run'[c] = run[c]
  PROVE  LeaseInv'
  <1>1. Fenced'
    BY DEF LeaseInv, Fenced, Clear
  <1>2. ASSUME NEW r \in Run, lease[r] # None
        PROVE  /\ run'[lease[r].owner] = r
               /\ lease[r].owner \in crashed \cup escaped \/ pc'[lease[r].owner] \in Holding
    <2>1. PICK d \in Call : d = lease[r].owner
      BY <1>2 DEF TypeOK, Lease
    <2>2. run[d] = r /\ (d \in crashed \cup escaped \/ pc[d] \in Holding)
      BY <1>2, <2>1 DEF LeaseInv, Owned
    <2>3. pc[d] # "idle"
      BY <2>2 DEF Gone, Holding
    <2>4. run'[d] = r /\ (d \in crashed \cup escaped \/ pc'[d] \in Holding)
      BY <2>2, <2>3
    <2>5. QED
      BY <2>1, <2>4
  <1>3. QED
    BY <1>1, <1>2 DEF LeaseInv, Owned

\* Every step keeps the lease invariant.
LEMMA LeaseInductive ==
  ASSUME TypeOK, Placed, Gone, NoRival, LeaseInv, [Next]_vars
  PROVE  LeaseInv'
  <1> USE DEF Holding, Lease, Clear
  <1>1. ASSUME NEW c \in Call, NEW r \in Run, ResumeRun(c, r) PROVE LeaseInv'
    BY <1>1, SameSide DEF ResumeRun, Step, TypeOK
  <1>2. ASSUME NEW c \in Call, NEW r \in Run, NEW k \in Key \cup {None}, StartRun(c, r, k)
        PROVE  LeaseInv'
    BY <1>2, SameSide DEF StartRun, Step, TypeOK, history
  <1>3. ASSUME NEW c \in Call, MarkResume(c) PROVE LeaseInv'
    BY <1>3, SameSide DEF MarkResume, Step, TypeOK, local, history
  <1>4. ASSUME NEW c \in Call, Lookup(c) PROVE LeaseInv'
    BY <1>4, SameSide DEF Lookup, Step, TypeOK, history
  <1>5. ASSUME NEW c \in Call, RecordStart(c) PROVE LeaseInv'
    BY <1>5, SameSide DEF RecordStart, Step, TypeOK, local, history
  <1>6. ASSUME NEW c \in Call, RecordStartFails(c) PROVE LeaseInv'
    BY <1>6, SameSide DEF RecordStartFails, Step, TypeOK, local, history
  <1>7. ASSUME NEW c \in Call, RegisterToken(c) PROVE LeaseInv'
    BY <1>7, SameSide DEF RegisterToken, Step, TypeOK, local, history
  <1>8. ASSUME NEW c \in Call, Acquire(c) PROVE LeaseInv'
    <2> DEFINE mine == [owner |-> c, live |-> TRUE]
    <2>1. /\ pc[c] = "take" /\ pc'[c] \in {"release", "boundary"}
          /\ \A d \in Call : d # c => pc'[d] = pc[d]
          /\ UNCHANGED <<run, late, crashed, escaped>> /\ raced \subseteq raced'
          /\ run[c] \in Run /\ lease' = [lease EXCEPT ![run[c]] = mine]
      BY <1>8 DEF Acquire, Step, TypeOK, Placed, local
    <2>a. mine \in Lease
      OBVIOUS
    <2>2. mine # None
      BY ONLY <2>a, OrchestratorAssumption
    <2>3. \A d \in Call : pc[d] \in Holding => run[d] \in Run
      BY DEF Placed
    <2>4. Fenced'
      <3>1. ASSUME NEW d \in Call, pc'[d] \in Holding, Clear(d)'
            PROVE  lease'[run'[d]] # None /\ lease'[run'[d]].owner = d /\ lease'[run'[d]].live
        <4>1. CASE d = c
          BY <2>1, <2>2, <4>1 DEF TypeOK
        <4>2. CASE d # c
          <5>1. /\ run'[d] = run[d] /\ run[d] \in Run /\ pc[d] \in Holding
                /\ lease[run[d]] # None /\ lease[run[d]].owner = d /\ lease[run[d]].live
            BY <2>1, <2>3, <3>1, <4>2 DEF LeaseInv, Fenced
          <5>2. run[d] # run[c]
            BY <2>1, <3>1, <5>1 DEF NoRival
          <5>3. lease'[run[d]] = lease[run[d]]
            BY <2>1, <5>1, <5>2 DEF TypeOK
          <5>4. QED
            BY <5>1, <5>3
        <4>3. QED
          BY <4>1, <4>2
      <3>2. QED
        BY <3>1 DEF Fenced
    <2>5. Owned'
      <3>1. ASSUME NEW r \in Run, lease'[r] # None
            PROVE  /\ run'[lease'[r].owner] = r
                   /\ \/ lease'[r].owner \in crashed' \cup escaped'
                      \/ pc'[lease'[r].owner] \in Holding
        <4>1. CASE r = run[c]
          BY <2>1, <4>1 DEF TypeOK
        <4>2. CASE r # run[c]
          <5>1. lease'[r] = lease[r] /\ lease[r] # None
            BY <2>1, <3>1, <4>2 DEF TypeOK
          <5>2. lease[r].owner \in Call
            BY <5>1 DEF TypeOK, Lease
          <5>3. QED
            BY <2>1, <5>1, <5>2 DEF LeaseInv, Owned
        <4>3. QED
          BY <4>1, <4>2
      <3>2. QED
        BY <3>1 DEF Owned
    <2>6. QED
      BY <2>4, <2>5 DEF LeaseInv
  <1>9. ASSUME NEW c \in Call, Check(c) \/ AcquireFails(c) PROVE LeaseInv'
    <2>1. /\ pc[c] = "acquire" /\ pc'[c] \in {"over", "take"}
          /\ \A d \in Call : d # c => pc'[d] = pc[d]
          /\ UNCHANGED <<run, late, raced, crashed, escaped>>
          /\ lease' = [r \in Run |-> IF Live(r) THEN lease[r] ELSE None]
      BY <1>9 DEF Check, AcquireFails, Unexpired, Step, TypeOK, local, history
    <2>2. \A d \in Call : pc[d] \in Holding => run[d] \in Run
      BY DEF Placed
    <2>3. Fenced'
      BY <2>1, <2>2 DEF LeaseInv, Fenced, Live
    <2>4. \A r \in Run : lease[r] # None => lease[r].owner \in Call
      BY DEF TypeOK, Lease
    <2>5. Owned'
      BY <2>1, <2>4 DEF LeaseInv, Owned
    <2>6. QED
      BY <2>3, <2>5 DEF LeaseInv
  <1>10. ASSUME NEW c \in Call, BeginPhase(c) PROVE LeaseInv'
    <2>1. /\ pc[c] = "boundary" /\ pc'[c] = "phase"
          /\ \A d \in Call : d # c => pc'[d] = pc[d]
          /\ UNCHANGED <<run, late, crashed, escaped>> /\ raced \subseteq raced'
          /\ run[c] \in Run /\ Owns(c)
          /\ lease' = [lease EXCEPT ![run[c]].live = TRUE]
      BY <1>10 DEF BeginPhase, Step, TypeOK, Placed
    <2>2. lease[run[c]] \in Lease /\ lease[run[c]].owner = c
      BY <2>1 DEF Owns, TypeOK, Lease
    <2>3. /\ lease'[run[c]] \in Lease
          /\ lease'[run[c]].owner = c /\ lease'[run[c]].live
          /\ \A r \in Run : r # run[c] => lease'[r] = lease[r]
      BY <2>1, <2>2 DEF TypeOK, Lease
    <2>4. lease'[run[c]] # None
      BY <2>3, OrchestratorAssumption
    <2>5. \A d \in Call : pc[d] \in Holding => run[d] \in Run
      BY DEF Placed
    <2>6. Fenced'
      BY <2>1, <2>2, <2>3, <2>4, <2>5 DEF LeaseInv, Fenced
    <2>7. \A r \in Run : lease[r] # None => lease[r].owner \in Call
      BY DEF TypeOK, Lease
    <2>8. Owned'
      BY <2>1, <2>2, <2>3, <2>7 DEF LeaseInv, Owned
    <2>9. QED
      BY <2>6, <2>8 DEF LeaseInv
  <1>11. ASSUME NEW c \in Call, RenewFails(c) PROVE LeaseInv'
    BY <1>11, SameSide DEF RenewFails, Step, TypeOK, local, history
  <1>12. ASSUME NEW c \in Call, NEW o \in Outcomes, NEW has \in BOOLEAN, EndPhase(c, o, has)
         PROVE  LeaseInv'
    BY <1>12, SameSide DEF EndPhase, Step, TypeOK, history
  <1>13. ASSUME NEW c \in Call, RecordPhase(c) PROVE LeaseInv'
    BY <1>13, SameSide DEF RecordPhase, Step, TypeOK
  <1>14. ASSUME NEW c \in Call, MarkEnd(c) PROVE LeaseInv'
    BY <1>14, SameSide DEF MarkEnd, Step, TypeOK, local, history
  <1>15. ASSUME NEW c \in Call, Fail(c) PROVE LeaseInv'
    BY <1>15, SameSide DEF Fail, Step, TypeOK, history
  <1>16. ASSUME NEW c \in Call, Release(c) PROVE LeaseInv'
    <2>1. /\ pc[c] = "release" /\ pc'[c] = "deregister"
          /\ \A d \in Call : d # c => pc'[d] = pc[d]
          /\ UNCHANGED <<run, late, raced, crashed, escaped>>
          /\ run[c] \in Run
          /\ lease' = IF Owns(c) THEN [lease EXCEPT ![run[c]] = None] ELSE lease
      BY <1>16 DEF Release, Step, TypeOK, Placed, local, history
    <2>2. /\ \A r \in Run : r # run[c] => lease'[r] = lease[r]
          /\ lease'[run[c]] = None \/ (lease'[run[c]] = lease[run[c]] /\ ~Owns(c))
      BY <2>1 DEF TypeOK, Lease
    <2>3. \A d \in Call : pc[d] \in Holding => run[d] \in Run
      BY DEF Placed
    <2>4. ASSUME NEW d \in Call, pc'[d] \in Holding, Clear(d)'
          PROVE  lease'[run'[d]] # None /\ lease'[run'[d]].owner = d /\ lease'[run'[d]].live
      <3>1. /\ d # c /\ run'[d] = run[d] /\ run[d] \in Run
            /\ lease[run[d]] # None /\ lease[run[d]].owner = d /\ lease[run[d]].live
        BY <2>1, <2>3, <2>4 DEF LeaseInv, Fenced
      <3>2. lease'[run[d]] = lease[run[d]]
        BY <2>1, <2>2, <3>1 DEF Owns
      <3>3. QED
        BY <3>1, <3>2
    <2>5. ASSUME NEW r \in Run, lease'[r] # None
          PROVE  /\ run'[lease'[r].owner] = r
                 /\ \/ lease'[r].owner \in crashed' \cup escaped'
                    \/ pc'[lease'[r].owner] \in Holding
      <3>1. lease'[r] = lease[r] /\ (r = run[c] => ~Owns(c))
        BY <2>2, <2>5
      <3>2. lease[r].owner \in Call
        BY <2>5, <3>1 DEF TypeOK, Lease
      <3>3. /\ run[lease[r].owner] = r
            /\ lease[r].owner \in crashed \cup escaped \/ lease[r].owner # c
        BY <2>5, <3>1 DEF LeaseInv, Owned, Owns
      <3>4. QED
        BY <2>1, <2>5, <3>1, <3>2, <3>3 DEF LeaseInv, Owned
    <2>6. QED
      BY <2>4, <2>5 DEF LeaseInv, Fenced, Owned
  <1>17. ASSUME NEW c \in Call, Deregister(c) PROVE LeaseInv'
    BY <1>17, SameSide DEF Deregister, Step, TypeOK, local, history
  <1>18. ASSUME NEW r \in Run, CancelRun(r) PROVE LeaseInv'
    BY <1>18 DEF CancelRun, LeaseInv, Fenced, Owned, local
  <1>19. ASSUME NEW r \in Run, MarkCancelled(r) PROVE LeaseInv'
    BY <1>19 DEF MarkCancelled, LeaseInv, Fenced, Owned, local, history
  <1>20. ASSUME NEW r \in Run, Expire(r) PROVE LeaseInv'
    <2>1. /\ lease[r] # None
          /\ lease' = [lease EXCEPT ![r].live = FALSE]
          /\ late' = late \cup ({lease[r].owner} \ (crashed \cup escaped))
          /\ UNCHANGED <<pc, run, raced, crashed, escaped>>
      BY <1>20 DEF Expire, Live, local
    <2>2. /\ lease[r] \in Lease
          /\ \A q \in Run : lease[q] # None => lease[q].owner \in Call
      BY <2>1 DEF TypeOK, Lease
    <2>3. /\ lease'[r] \in Lease /\ lease'[r].owner = lease[r].owner
          /\ \A q \in Run : q # r => lease'[q] = lease[q]
      BY <2>1, <2>2 DEF TypeOK, Lease
    <2>4. ASSUME NEW d \in Call, pc'[d] \in Holding, Clear(d)'
          PROVE  lease'[run'[d]] # None /\ lease'[run'[d]].owner = d /\ lease'[run'[d]].live
      <3>1. /\ run'[d] = run[d] /\ run[d] \in Run
            /\ lease[run[d]] # None /\ lease[run[d]].owner = d /\ lease[run[d]].live
        BY <2>1, <2>4 DEF LeaseInv, Fenced, Placed
      <3>2. d \notin crashed \cup escaped
        BY <2>1, <2>4 DEF Gone
      <3>3. run[d] # r
        BY <2>1, <2>4, <3>1, <3>2
      <3>4. QED
        BY <2>3, <3>1, <3>3
    <2>5. Owned'
      BY <2>1, <2>2, <2>3 DEF LeaseInv, Owned
    <2>6. QED
      BY <2>4, <2>5 DEF LeaseInv, Fenced
  <1>21. ASSUME Crash PROVE LeaseInv'
    <2> DEFINE dead == {c \in Call : Active(c)}
    <2>1. /\ pc' = [c \in Call |-> IF c \in dead THEN "over" ELSE pc[c]]
          /\ crashed' = crashed \cup dead
          /\ UNCHANGED <<lease, run, late, raced, escaped>>
      BY <1>21 DEF Crash, local
    <2>2. \A c \in Call : pc'[c] \notin Holding
      BY <2>1 DEF Active
    <2>3. \A r \in Run : lease[r] # None => lease[r].owner \in crashed' \cup escaped'
      <3>1. \A r \in Run : lease[r] # None => lease[r].owner \in Call
        BY DEF TypeOK, Lease
      <3>2. QED
        BY <2>1, <3>1 DEF LeaseInv, Owned, Active
    <2>4. QED
      BY <2>1, <2>2, <2>3 DEF LeaseInv, Fenced, Owned
  <1>22. CASE UNCHANGED vars
    BY <1>22 DEF vars, history, local, LeaseInv, Fenced, Owned
  <1>23. ASSUME NEW c \in Call, Raises(c) PROVE LeaseInv'
    BY <1>23, SameSide DEF Raises, TypeOK, local, history
  <1>24. ASSUME NEW c \in Call, Escapes(c) PROVE LeaseInv'
    <2>1. /\ pc'[c] = "over" /\ escaped' = escaped \cup {c}
          /\ \A d \in Call : d # c => pc'[d] = pc[d]
          /\ UNCHANGED <<lease, run, late, raced, crashed>>
      BY <1>24 DEF Escapes, TypeOK, local
    <2>2. \A r \in Run : lease[r] # None => lease[r].owner \in Call
      BY DEF TypeOK, Lease
    <2>3. QED
      BY <2>1, <2>2 DEF LeaseInv, Fenced, Owned
  <1>25. QED
    BY <1>1, <1>2, <1>3, <1>4, <1>5, <1>6, <1>7, <1>8, <1>9, <1>10, <1>11, <1>12, <1>13,
       <1>14, <1>15, <1>16, <1>17, <1>18, <1>19, <1>20, <1>21, <1>22, <1>23,
       <1>24 DEF Next

\* How a call gets between the check and the write of acquire, and behind it;
\* its run does not change once it has one.
LEMMA Moves ==
  ASSUME TypeOK, [Next]_vars, NEW d \in Call
  PROVE  /\ pc[d] # "idle" => run'[d] = run[d]
         /\ pc'[d] = "take" /\ pc[d] # "take" => Check(d)
         /\ pc'[d] \in Holding /\ pc[d] \notin Holding => Acquire(d)
  <1> DEFINE Q == /\ pc[d] # "idle" => run'[d] = run[d]
                  /\ pc'[d] = "take" /\ pc[d] # "take" => Check(d)
                  /\ pc'[d] \in Holding /\ pc[d] \notin Holding => Acquire(d)
  <1> USE DEF Holding
  <1>1. ASSUME pc'[d] = pc[d], run'[d] = run[d] PROVE Q
    BY <1>1
  <1>2. ASSUME NEW c \in Call, \/ \E r \in Run : ResumeRun(c, r)
                               \/ \E r \in Run, k \in Key \cup {None} : StartRun(c, r, k)
        PROVE  Q
    BY <1>1, <1>2 DEF ResumeRun, StartRun, Step, TypeOK
  <1>3. ASSUME NEW c \in Call, MarkResume(c) \/ Lookup(c) \/ RecordStart(c) \/ RecordStartFails(c)
                                 \/ RegisterToken(c) \/ AcquireFails(c) \/ RenewFails(c)
        PROVE  Q
    BY <1>1, <1>3 DEF MarkResume, Lookup, RecordStart, RecordStartFails, RegisterToken,
                      AcquireFails, RenewFails, Step, TypeOK, local
  <1>4. ASSUME NEW c \in Call, Check(c) \/ Acquire(c) PROVE Q
    BY <1>1, <1>4 DEF Check, Acquire, Step, TypeOK, local
  <1>5. ASSUME NEW c \in Call, BeginPhase(c) \/ RecordPhase(c)
                                 \/ \E o \in Outcomes, has \in BOOLEAN : EndPhase(c, o, has)
        PROVE  Q
    BY <1>1, <1>5 DEF BeginPhase, RecordPhase, EndPhase, Step, TypeOK
  <1>6. ASSUME NEW c \in Call, MarkEnd(c) \/ Fail(c) \/ Release(c) \/ Deregister(c) PROVE Q
    BY <1>1, <1>6 DEF MarkEnd, Fail, Release, Deregister, Step, TypeOK, local
  <1>7. ASSUME NEW c \in Call, Raises(c) \/ Escapes(c) PROVE Q
    BY <1>1, <1>7 DEF Raises, Escapes, TypeOK, local
  <1>8. ASSUME NEW r \in Run, CancelRun(r) \/ MarkCancelled(r) \/ Expire(r) PROVE Q
    BY <1>1, <1>8 DEF CancelRun, MarkCancelled, Expire, local
  <1>9. ASSUME Crash PROVE Q
    BY <1>9 DEF Crash, TypeOK, local
  <1>10. CASE UNCHANGED vars
    BY <1>1, <1>10 DEF vars, local
  <1>11. QED
    BY <1>2, <1>3, <1>4, <1>5, <1>6, <1>7, <1>8, <1>9, <1>10 DEF Next

\* The histories of lateness and races only grow.
LEMMA Marks == [Next]_vars => late \subseteq late' /\ raced \subseteq raced'
  BY DEF Next, ResumeRun, StartRun, MarkResume, Lookup, RecordStart, RecordStartFails,
         RegisterToken, Check, Acquire, AcquireFails, BeginPhase, RenewFails, EndPhase,
         RecordPhase, MarkEnd, Fail, Release, Deregister, Raises, Escapes, CancelRun,
         MarkCancelled, Expire, Crash, vars, history

\* Nobody is about to write over a punctual call that raced nobody.
LEMMA NoRivalInductive ==
  ASSUME TypeOK, Placed, LeaseInv, NoRival, [Next]_vars
  PROVE  NoRival'
  <1>1. SUFFICES ASSUME NEW c \in Call, NEW d \in Call, pc'[c] = "take", pc'[d] \in Holding,
                        run'[c] = run'[d], Clear(d)'
                 PROVE  FALSE
    BY DEF NoRival
  <1>2. Clear(d)
    BY <1>1, Marks DEF Clear
  <1>3. CASE pc[c] # "take"
    <2>1. Check(c)
      BY <1>1, <1>3, Moves
    <2>2. ~Live(run[c]) /\ pc'[d] = pc[d] /\ run' = run
      BY <1>1, <2>1 DEF Check, Step, TypeOK, Holding, local
    <2>3. QED
      BY <1>1, <1>2, <2>2 DEF LeaseInv, Fenced, Live
  <1>4. CASE pc[c] = "take" /\ pc[d] \notin Holding
    <2>1. Acquire(d)
      BY <1>1, <1>4, Moves
    <2>2. c # d /\ run' = run /\ raced' = raced \cup Race(d)
      BY <1>1, <2>1 DEF Acquire, Holding, local
    <2>3. d \in Race(d)
      BY <1>1, <1>4, <2>2 DEF Race
    <2>4. QED
      BY <1>1, <2>2, <2>3 DEF Clear
  <1>5. CASE pc[c] = "take" /\ pc[d] \in Holding
    <2>1. run'[c] = run[c] /\ run'[d] = run[d]
      BY <1>5, Moves DEF Holding
    <2>2. QED
      BY <1>1, <1>2, <1>5, <2>1 DEF NoRival
  <1>6. QED
    BY <1>3, <1>4, <1>5

\* In every reachable state leases belong to the calls that hold them.
LEMMA LeaseInvariant == Spec => [](TypeOK /\ Placed /\ Gone /\ NoRival /\ LeaseInv)
  <1>1. Init => TypeOK /\ Placed /\ Gone /\ NoRival /\ LeaseInv
    BY PlacedInit DEF Init, Gone, NoRival, LeaseInv, Fenced, Owned, Holding
  <1>2. TypeOK /\ Placed /\ Gone /\ NoRival /\ LeaseInv /\ [Next]_vars
        => TypeOK' /\ Placed' /\ Gone' /\ NoRival' /\ LeaseInv'
    BY PlacedInductive, GoneInductive, NoRivalInductive, LeaseInductive
  <1>3. QED
    BY <1>1, <1>2, PTL DEF Spec

\* However many calls overlap, die and are left by exceptions, only a call whose
\* lease has expired, or was written in a race, can find another one driving its
\* run.
THEOREM OneAdvancesCorrect == Spec => []OneAdvances
  <1>1. LeaseInv => OneAdvances
    BY DEF LeaseInv, Fenced, Clear, Holding, OneAdvances
  <1>2. QED
    BY <1>1, LeaseInvariant, PTL

\* A start_run that returns leaves no lease behind, however its phases ended and
\* whatever they raised.
THEOREM LeaseReturnedCorrect == Spec => []LeaseReturned
  <1>1. TypeOK /\ LeaseInv => LeaseReturned
    BY DEF TypeOK, Lease, LeaseInv, Owned, Holding, LeaseReturned, Active
  <1>2. QED
    BY <1>1, LeaseInvariant, PTL

-----------------------------------------------------------------------------
(* Keys. record_start checks the key in the step that stores it, so it     *)
(* does not matter what happened since start_run checked it.               *)

\* The memory ledger never holds two runs with one key. (The durable one has
\* no key index: there the statement is false.)
THEOREM KeysDistinctCorrect ==
  ASSUME ~Durable
  PROVE  Spec => []KeysDistinct
  <1>1. Init => KeysDistinct
    BY DEF Init, KeysDistinct
  <1>2. ASSUME TypeOK, KeysDistinct,
               \A r \in Run : ledger'[r] # None => ledger[r] # None /\ ledger'[r].key = ledger[r].key
        PROVE  KeysDistinct'
    BY <1>2 DEF KeysDistinct
  <1>3. ASSUME TypeOK, NEW c \in Call, run[c] \in Run, ledger[run[c]] \in RunRecord,
               NEW s \in RunState, Store(c, Marked(ledger[run[c]], s))
        PROVE  \A r \in Run : ledger'[r] # None => ledger[r] # None /\ ledger'[r].key = ledger[r].key
    <2>1. /\ Marked(ledger[run[c]], s) \in RunRecord
          /\ Marked(ledger[run[c]], s).key = ledger[run[c]].key
      BY <1>3, MarkedType
    <2>2. /\ ledger'[run[c]] = Marked(ledger[run[c]], s)
          /\ \A r \in Run : r # run[c] => ledger'[r] = ledger[r]
      BY <1>3, <2>1, StoreType
    <2>3. QED
      BY <1>3, <2>1, <2>2, NoneIsNoValue
  <1>4. TypeOK /\ Placed /\ KeysDistinct /\ [Next]_vars => KeysDistinct'
    <2> SUFFICES ASSUME TypeOK, Placed, KeysDistinct, [Next]_vars PROVE KeysDistinct'
      OBVIOUS
    <2>1. CASE UNCHANGED ledger
      BY <1>2, <2>1
    <2>2. ASSUME NEW c \in Call, MarkResume(c) PROVE KeysDistinct'
      <3>1. run[c] \in Run /\ ledger[run[c]] \in RunRecord /\ "running" \in RunState
        BY <2>2 DEF MarkResume, Step, TypeOK, Placed, RunState
      <3>2. QED
        BY <1>2, <1>3, <2>2, <3>1 DEF MarkResume
    <2>3. ASSUME NEW c \in Call, RecordStart(c) PROVE KeysDistinct'
      <3> DEFINE rec == Started(ledger[run[c]], key[c])
      <3>1. /\ run[c] \in Run /\ key[c] \in Key \cup {None}
            /\ ledger[run[c]] \in RunRecord \cup {None}
        BY <2>3 DEF RecordStart, Step, TypeOK, Placed
      <3>2. rec \in RunRecord
        BY <3>1, StartedType
      <3>3. rec.key = key[c]
        BY <3>1 DEF Started, NewRecord, RunRecord
      <3>4. Store(c, rec)
        BY <2>3 DEF RecordStart
      <3> HIDE DEF rec
      <3>5. ledger'[run[c]] = rec /\ \A r \in Run : r # run[c] => ledger'[r] = ledger[r]
        BY <3>1, <3>2, <3>4, StoreType
      <3>6. \A q \in Run : q # run[c] /\ key[c] # None /\ ledger[q] # None => ledger[q].key # key[c]
        BY <2>3 DEF RecordStart, InUse
      <3>7. QED
        BY <3>1, <3>3, <3>5, <3>6 DEF KeysDistinct
    <2>4. ASSUME NEW c \in Call, RecordPhase(c) PROVE KeysDistinct'
      <3> DEFINE p == PhaseSequence[at[c]]
                 rec == PhaseRecorded(ledger[run[c]], p, outcome[c], head[c])
      <3>1. /\ run[c] \in Run /\ ledger[run[c]] \in RunRecord /\ at[c] \in 1..N
            /\ outcome[c] \in PhaseOutcome /\ head[c] \in BOOLEAN
        BY <2>4, SequenceType DEF RecordPhase, Step, TypeOK, Placed
      <3>2. p \in Phase /\ head[c] \in Ctx \cup {None}
        BY <3>1, SequenceType, OrchestratorAssumption
      <3>3. rec \in RunRecord /\ rec.key = ledger[run[c]].key
        BY <3>1, <3>2, PhaseRecordedType
      <3>4. Store(c, rec)
        BY <2>4 DEF RecordPhase
      <3> HIDE DEF rec
      <3>5. ledger'[run[c]] = rec /\ \A r \in Run : r # run[c] => ledger'[r] = ledger[r]
        BY <3>1, <3>3, <3>4, StoreType
      <3>6. QED
        BY <1>2, <3>1, <3>3, <3>5, NoneIsNoValue
    <2>5. ASSUME NEW c \in Call, MarkEnd(c) PROVE KeysDistinct'
      <3>1. /\ run[c] \in Run /\ ledger[run[c]] \in RunRecord
            /\ (IF outcome[c] \in Completing THEN "complete" ELSE outcome[c]) \in RunState
        BY <2>5 DEF MarkEnd, Step, TypeOK, Placed, PhaseOutcome, Completing, RunState
      <3>2. QED
        BY <1>2, <1>3, <2>5, <3>1 DEF MarkEnd
    <2>6. ASSUME NEW c \in Call, Fail(c) PROVE KeysDistinct'
      <3>1. run[c] \in Run /\ ledger[run[c]] \in RunRecord /\ "failed" \in RunState
        BY <2>6 DEF Fail, Step, TypeOK, Placed, RunState
      <3>2. QED
        BY <1>2, <1>3, <2>6, <3>1 DEF Fail
    <2>7. ASSUME NEW r \in Run, MarkCancelled(r) PROVE KeysDistinct'
      <3>1. ledger[r] \in RunRecord /\ ledger[r] # None
        BY <2>7 DEF MarkCancelled, TypeOK, Placed
      <3>2. Marked(ledger[r], "cancelled").key = ledger[r].key
        BY <3>1, MarkedType DEF RunState
      <3>3. /\ ledger'[r] = Marked(ledger[r], "cancelled")
            /\ \A q \in Run : q # r => ledger'[q] = ledger[q]
        BY <2>7 DEF MarkCancelled, TypeOK
      <3>4. QED
        BY <1>2, <3>1, <3>2, <3>3
    <2>8. ASSUME Crash PROVE KeysDistinct'
      BY <1>2, <2>8 DEF Crash
    <2>9. QED
      BY <2>1, <2>2, <2>3, <2>4, <2>5, <2>6, <2>7, <2>8
      DEF Next, vars, local, history, StartRun, ResumeRun, Lookup, RecordStartFails,
          RegisterToken, Check, Acquire, AcquireFails, BeginPhase, RenewFails, EndPhase,
          Raises, Release, Deregister, Escapes, CancelRun, Expire
  <1>5. QED
    BY <1>1, <1>4, PlacedInit, PlacedInductive, PTL DEF Spec

-----------------------------------------------------------------------------
(* The leases implement LeaseTable: a call takes its lease when it starts   *)
(* to drive its run, and gives it back when it stops.                       *)

\* A step of one call that keeps its side changes nothing the table shows.
LEMMA TableQuiet ==
  ASSUME TypeOK, NEW c \in Call, NEW l, NEW m, Step(c, l, m), l \in Holding <=> m \in Holding,
         lease' = lease, \A d \in Call : d # c \/ l \in Holding => run'[d] = run[d]
  PROVE  UNCHANGED <<Owners, LiveRuns, Driven>>
  <1>1. \A d \in Call : pc'[d] = IF d = c THEN m ELSE pc[d]
    BY DEF Step, TypeOK
  <1>2. Owners' = Owners /\ LiveRuns' = LiveRuns
    BY DEF Owners, LiveRuns, Live
  <1>3. \A d \in Call : (IF pc'[d] \in Holding THEN run'[d] ELSE None)
                          = (IF pc[d] \in Holding THEN run[d] ELSE None)
    BY <1>1 DEF Step
  <1>4. Driven' = Driven
    BY <1>3 DEF Driven
  <1>5. QED
    BY <1>2, <1>4

\* What a step does to the calls that drive a run.
LEMMA DrivenMoves ==
  ASSUME TypeOK, NEW c \in Call, NEW m, pc' = [pc EXCEPT ![c] = m], run' = run
  PROVE  Driven' = [Driven EXCEPT ![c] = IF m \in Holding THEN run[c] ELSE None]
  <1>1. \A d \in Call : pc'[d] = IF d = c THEN m ELSE pc[d]
    BY DEF TypeOK
  <1>2. QED
    BY <1>1 DEF Driven

\* A call that raced nobody is about to write a lease that is not live.
TakeFree == \A c \in Call : pc[c] = "take" /\ c \notin raced => ~Live(run[c])

\* A lease comes to life by a call that takes or renews it.
LEMMA Wakes ==
  ASSUME TypeOK, [Next]_vars, NEW r \in Run, ~Live(r), Live(r)'
  PROVE  \E d \in Call : run[d] = r /\ (Acquire(d) \/ BeginPhase(d))
  <1>1. lease' # lease
    BY DEF Live
  <1>2. ASSUME NEW c \in Call, Check(c) \/ AcquireFails(c) PROVE FALSE
    BY <1>2 DEF Check, AcquireFails, Unexpired, Live
  <1>3. ASSUME NEW c \in Call, Release(c) PROVE FALSE
    BY <1>3 DEF Release, Live, TypeOK
  <1>4. ASSUME NEW q \in Run, Expire(q) PROVE FALSE
    <2>1. q # r /\ lease'[r] = lease[r]
      BY <1>4 DEF Expire, TypeOK
    <2>2. QED
      BY <2>1 DEF Live
  <1>5. ASSUME NEW c \in Call, Acquire(c) \/ BeginPhase(c) PROVE run[c] = r
    <2>1. run[c] # r => lease'[r] = lease[r]
      BY <1>5 DEF Acquire, BeginPhase, TypeOK
    <2>2. QED
      BY <2>1 DEF Live
  <1>6. QED
    BY <1>1, <1>2, <1>3, <1>4, <1>5 DEF Next, vars, local, history, ResumeRun, StartRun, MarkResume,
       Lookup, RecordStart, RecordStartFails, RegisterToken, RenewFails, EndPhase, RecordPhase,
       MarkEnd, Fail, Deregister, Raises, Escapes, CancelRun, MarkCancelled, Crash

\* Every step keeps TakeFree.
LEMMA TakeFreeInductive ==
  ASSUME TypeOK, Placed, TakeFree, [Next]_vars
  PROVE  TakeFree'
  <1>1. SUFFICES ASSUME NEW c \in Call, pc'[c] = "take", c \notin raced', Live(run[c])'
                 PROVE  FALSE
    BY DEF TakeFree
  <1>2. CASE pc[c] # "take"
    <2>1. Check(c)
      BY <1>1, <1>2, Moves
    <2>2. run' = run /\ lease' = Unexpired /\ ~Live(run[c]) /\ run[c] \in Run
      BY <2>1 DEF Check, Step, Placed, local
    <2>3. QED
      BY <1>1, <2>2 DEF Unexpired, Live
  <1>3. CASE pc[c] = "take"
    <2>1. run'[c] = run[c] /\ c \notin raced /\ run[c] \in Run
      BY <1>1, <1>3, Moves, Marks DEF Placed
    <2>a. PICK r \in Run : r = run[c]
      BY <2>1
    <2>2. ~Live(r) /\ Live(r)'
      BY <1>1, <1>3, <2>1, <2>a DEF TakeFree, Live
    <2>3. PICK d \in Call : run[d] = run[c] /\ (Acquire(d) \/ BeginPhase(d))
      BY <2>a, <2>2, Wakes
    <2>4. d # c /\ raced' = raced \cup Race(d)
      BY <1>1, <2>3 DEF Acquire, BeginPhase, Step, TypeOK
    <2>5. c \in Race(d)
      BY <1>3, <2>3, <2>4 DEF Race
    <2>6. QED
      BY <1>1, <2>4, <2>5
  <1>4. QED
    BY <1>2, <1>3

\* Every step of the driver is one of the table, until two calls race.
LEMMA TableStep ==
  ASSUME TypeOK, Placed, Gone, LeaseInv, TakeFree, raced = {}, [Next]_vars
  PROVE  [Table!Next]_<<Owners, LiveRuns, Driven>>
  <1> USE DEF Holding
  <1> DEFINE Quiet == UNCHANGED <<Owners, LiveRuns, Driven>>
  <1>1. /\ lease \in [Run -> Lease \cup {None}] /\ pc \in [Call -> Label]
        /\ run \in [Call -> Run \cup {None}]
        /\ None \notin Run /\ None \notin Call /\ None \notin Lease
    BY OrchestratorAssumption DEF TypeOK
  <1>2. ASSUME NEW r \in Run, lease[r] # None
        PROVE  lease[r].owner \in Call /\ lease[r].live \in BOOLEAN
    BY <1>1, <1>2 DEF Lease
  <1>3. ASSUME NEW c \in Call, NEW r \in Run, ResumeRun(c, r) PROVE Quiet
    BY <1>1, <1>3, TableQuiet DEF ResumeRun
  <1>4. ASSUME NEW c \in Call, NEW r \in Run, NEW k \in Key \cup {None}, StartRun(c, r, k)
        PROVE  Quiet
    BY <1>1, <1>4, TableQuiet DEF StartRun
  <1>5. ASSUME NEW c \in Call, MarkResume(c) \/ Lookup(c) \/ RecordStart(c) \/ RecordStartFails(c)
                                 \/ RegisterToken(c) \/ RenewFails(c) \/ MarkEnd(c) \/ Fail(c)
                                 \/ Deregister(c) \/ RecordPhase(c)
        PROVE  Quiet
    BY <1>5, TableQuiet DEF MarkResume, Lookup, RecordStart, RecordStartFails, RegisterToken,
                            RenewFails, MarkEnd, Fail, Deregister, RecordPhase, local
  <1>6. ASSUME NEW c \in Call, NEW o \in Outcomes, NEW has \in BOOLEAN, EndPhase(c, o, has)
        PROVE  Quiet
    BY <1>6, TableQuiet DEF EndPhase
  <1>7. ASSUME NEW c \in Call, Acquire(c) PROVE run[c] \in Run /\ Table!Take(c, run[c])
    <2>1. PICK r \in Run : r = run[c]
      BY <1>7 DEF Acquire, Step, Placed
    <2>2. /\ pc[c] = "take" /\ run' = run /\ ~Live(r)
          /\ \A q \in Run : lease'[q] = IF q = r THEN [owner |-> c, live |-> TRUE] ELSE lease[q]
      BY <1>1, <1>7, <2>1 DEF Acquire, Step, TakeFree, local
    <2>3. lease'[r] # None /\ lease'[r].owner = c /\ lease'[r].live
      <3>1. [owner |-> c, live |-> TRUE] \in Lease
        BY DEF Lease
      <3>2. QED
        BY <1>1, <2>2, <3>1
    <2>4. \E gone \in SUBSET (Run \ LiveRuns) : Owners' = [Table!Without(gone) EXCEPT ![r] = c]
      <3>1. {} \in SUBSET (Run \ LiveRuns) /\ Owners' = [Table!Without({}) EXCEPT ![r] = c]
        BY <2>2, <2>3 DEF Owners, Table!Without
      <3>2. QED
        BY <3>1
    <2>5. r \notin LiveRuns /\ LiveRuns' = LiveRuns \cup {r}
      BY <2>2, <2>3 DEF LiveRuns, Live
    <2>6. \A q \in Run : Owners[q] # c
      <3>1. ASSUME NEW q \in Run, lease[q] # None, lease[q].owner = c PROVE FALSE
        BY <2>2, <3>1 DEF LeaseInv, Owned, Gone
      <3>2. QED
        BY <1>1, <3>1 DEF Owners
    <2>7. Driven[c] = None /\ Driven' = [Driven EXCEPT ![c] = r]
      <3>1. Driven[c] = None
        BY <2>2 DEF Driven
      <3>2. CASE at[c] > N
        BY <1>7, <2>1, <2>2, <3>1, <3>2, DrivenMoves DEF Acquire, Step
      <3>3. CASE ~(at[c] > N)
        BY <1>7, <2>1, <2>2, <3>1, <3>3, DrivenMoves DEF Acquire, Step
      <3>4. QED
        BY <3>1, <3>2, <3>3
    <2>8. QED
      BY <2>1, <2>4, <2>5, <2>6, <2>7 DEF Table!Take
  <1>8. ASSUME NEW c \in Call, Check(c) \/ AcquireFails(c) PROVE Table!Forget
    <2>1. PICK gone : gone = {q \in Run : ~Live(q)}
      OBVIOUS
    <2>2. \A q \in Run : lease'[q] = IF q \in gone THEN None ELSE lease[q]
      BY <1>8, <2>1 DEF Check, AcquireFails, Unexpired
    <2>3. Owners' = Table!Without(gone) /\ LiveRuns' = LiveRuns
      BY <2>1, <2>2 DEF Owners, LiveRuns, Live, Table!Without
    <2>4. gone \in SUBSET (Run \ LiveRuns)
      BY <2>1 DEF LiveRuns
    <2>5. Driven' = Driven
      <3>1. Driven' = [Driven EXCEPT ![c] = None] /\ pc[c] = "acquire"
        BY <1>8, DrivenMoves DEF Check, AcquireFails, Step, local
      <3>2. QED
        BY <3>1 DEF Driven
    <2>6. QED
      BY <2>3, <2>4, <2>5 DEF Table!Forget
  <1>9. ASSUME NEW c \in Call, BeginPhase(c) PROVE Table!Renew(c)
    <2>1. PICK r \in Run : r = run[c]
      BY <1>9 DEF BeginPhase, Step, Placed
    <2>2. /\ pc[c] = "boundary" /\ lease[r] # None /\ lease[r].owner = c
          /\ lease'[r] = [lease[r] EXCEPT !.live = TRUE]
          /\ \A q \in Run : q # r => lease'[q] = lease[q]
      BY <1>1, <1>9, <2>1 DEF BeginPhase, Step, Owns
    <2>3. lease'[r] # None /\ lease'[r].owner = c /\ lease'[r].live
      <3>1. lease[r] \in Lease
        BY <1>1, <2>2
      <3>2. lease'[r] \in Lease /\ lease'[r].owner = c /\ lease'[r].live
        BY <2>2, <3>1 DEF Lease
      <3>3. QED
        BY <1>1, <3>2
    <2>4. Owners' = Owners /\ LiveRuns' = LiveRuns \cup {r}
      <3>1. Owners' = Owners
        BY <2>2, <2>3 DEF Owners
      <3>2. Live(r)'
        BY <2>3 DEF Live
      <3>3. \A q \in Run : q # r => (Live(q)' <=> Live(q))
        BY <2>2 DEF Live
      <3>4. LiveRuns' = LiveRuns \cup {r}
        BY <3>2, <3>3 DEF LiveRuns
      <3>5. QED
        BY <3>1, <3>4
    <2>5. Driven[c] = r /\ Driven' = Driven
      <3>1. Driven[c] = r /\ Driven' = [Driven EXCEPT ![c] = r]
        BY <1>9, <2>1, <2>2, DrivenMoves DEF BeginPhase, Step, Driven
      <3>2. QED
        BY <3>1 DEF Driven
    <2>6. Owners[r] = c
      BY <2>2 DEF Owners
    <2>7. QED
      BY <1>1, <2>4, <2>5, <2>6 DEF Table!Renew
  <1>10. ASSUME NEW c \in Call, Release(c) PROVE Table!Leave(c)
    <2>1. PICK r \in Run : r = run[c]
      BY <1>10 DEF Release, Step, Placed
    <2>2. PICK own : own = IF Owners[r] = c THEN {r} ELSE {}
      OBVIOUS
    <2>3. Owns(c) <=> Owners[r] = c
      BY <1>1, <2>1 DEF Owns, Owners
    <2>4. \A q \in Run : lease'[q] = IF q \in own THEN None ELSE lease[q]
      BY <1>1, <1>10, <2>1, <2>2, <2>3 DEF Release
    <2>5. Owners' = Table!Without(own) /\ LiveRuns' = LiveRuns \ own
      BY <2>4 DEF Owners, LiveRuns, Live, Table!Without
    <2>6. Driven[c] = r /\ Driven' = [Driven EXCEPT ![c] = None]
      BY <1>10, <2>1, DrivenMoves DEF Release, Step, Driven, local
    <2>7. QED
      BY <1>1, <2>2, <2>5, <2>6 DEF Table!Leave
  <1>11. ASSUME NEW r \in Run, CancelRun(r) \/ MarkCancelled(r) PROVE Quiet
    BY <1>11 DEF CancelRun, MarkCancelled, local, Owners, LiveRuns, Live, Driven
  <1>12. ASSUME NEW r \in Run, Expire(r) PROVE Table!Lapse
    <2>1. /\ lease[r] # None /\ UNCHANGED <<pc, run>>
          /\ lease'[r] = [lease[r] EXCEPT !.live = FALSE]
          /\ \A q \in Run : q # r => lease'[q] = lease[q]
      BY <1>1, <1>12 DEF Expire, Live, local
    <2>2. lease'[r] # None /\ lease'[r].owner = lease[r].owner /\ ~lease'[r].live
      <3>1. lease[r] \in Lease
        BY <1>1, <2>1
      <3>2. lease'[r] \in Lease /\ lease'[r].owner = lease[r].owner /\ ~lease'[r].live
        BY <2>1, <3>1 DEF Lease
      <3>3. QED
        BY <1>1, <3>2
    <2>3. Owners' = Owners /\ LiveRuns' \subseteq LiveRuns /\ Driven' = Driven
      BY <2>1, <2>2 DEF Owners, LiveRuns, Live, Driven
    <2>4. QED
      BY <2>3 DEF Table!Lapse
  <1>13. CASE Crash
    <2>1. PICK dead \in SUBSET Call : dead = {c \in Call : Active(c)}
      OBVIOUS
    <2>2. /\ \A c \in Call : pc'[c] = IF c \in dead THEN "over" ELSE pc[c]
          /\ UNCHANGED <<lease, run>>
      BY <1>13, <2>1 DEF Crash, local
    <2>3. Driven' = [c \in Call |-> IF c \in dead THEN None ELSE Driven[c]]
      BY <2>2 DEF Driven
    <2>4. Table!Die(dead)
      BY <2>2, <2>3 DEF Table!Die, Owners, LiveRuns, Live
    <2>5. QED
      BY <2>4 DEF Table!Next
  <1>14. CASE UNCHANGED vars
    BY <1>14 DEF vars, local, Owners, LiveRuns, Live, Driven
  <1>15. ASSUME NEW c \in Call, Raises(c) PROVE Quiet
    <2>1. \A d \in Call : (IF pc'[d] \in Holding THEN run'[d] ELSE None)
                            = (IF pc[d] \in Holding THEN run[d] ELSE None)
      BY <1>1, <1>15 DEF Raises, local
    <2>2. Driven' = Driven
      BY <2>1 DEF Driven
    <2>3. QED
      BY <1>15, <2>2 DEF Raises, Owners, LiveRuns, Live
  <1>16. ASSUME NEW c \in Call, Escapes(c) PROVE Table!Die({c})
    <2>1. Driven' = [Driven EXCEPT ![c] = None]
      BY <1>16, DrivenMoves DEF Escapes, local
    <2>2. Driven' = [d \in Call |-> IF d \in {c} THEN None ELSE Driven[d]]
      BY <2>1 DEF Driven
    <2>3. QED
      BY <1>16, <2>2 DEF Escapes, Table!Die, Owners, LiveRuns, Live
  <1>17. QED
    <2>1. ASSUME NEW c \in Call, Acquire(c) PROVE Table!Next
      BY <1>7, <2>1 DEF Table!Next
    <2>2. QED
      BY <1>3, <1>4, <1>5, <1>6, <1>8, <1>9, <1>10, <1>11, <1>12, <1>13, <1>14,
         <1>15, <1>16, <2>1 DEF Next, Table!Next

\* The leases of start_run, resume_run, an exception and a crash are a table of
\* leases, for any calls and runs, until two calls race for one lease.
THEOREM TableCorrect == Spec => ImplementsTable
  <1>1. Init => Table!Init /\ TakeFree
    BY DEF Init, Table!Init, Owners, LiveRuns, Live, Driven, Holding, TakeFree
  <1>2. TypeOK /\ Placed /\ Gone /\ LeaseInv /\ TakeFree /\ [Next]_vars
        => [Table!Next \/ raced' # {}]_<<Owners, LiveRuns, Driven>>
    BY TableStep, Marks
  <1>3. QED
    BY <1>1, <1>2, TakeFreeInductive, LeaseInvariant, PTL DEF Spec, ImplementsTable

-----------------------------------------------------------------------------
(* Runs that one call at a time drives. Such a call is the only one to     *)
(* write its record, its token and its phases, so what it and the record   *)
(* say stays exact from step to step.                                      *)

Alone ==
  \A c, d \in Call :
    Active(c) /\ Active(d) /\ run[c] = run[d] /\ run[c] \notin shared => c = d

\* A call that has not begun has neither a run nor a key.
Unstarted == \A c \in Call : pc[c] = "idle" => run[c] = None /\ key[c] = None

\* No phase from index i on has been recorded as completed.
Fresh(r, i) == \A j \in 1..N : i <= j => PhaseSequence[j] \notin done[r]

\* Where a resume would start if the record had lost its cursor.
PhaseIndex(rec) == IF rec.phase # None THEN IndexOf(rec.phase) + 1 ELSE 1

\* Nothing a resume could start from lies before a completed phase: neither
\* the cursor nor, when record_start has dropped it, the phase, nor the
\* completed phase that the next cursor inherits.
Exact(r) ==
  /\ Fresh(r, ResumeIndex(ledger[r]))
  /\ Fresh(r, PhaseIndex(ledger[r]))
  /\ ledger[r].cursor # None /\ ledger[r].cursor.last # None
       => Fresh(r, IndexOf(ledger[r].cursor.last) + 1)

\* Nothing that Settled excepts has happened to run r.
Calm(r) == crashed = {} /\ \A c \in Call : run[c] = r => c \notin escaped /\ at[c] <= N

RunSolo(r) ==
  /\ (\A c \in Call : run[c] # r) => ledger[r] = None /\ Fresh(r, 1)
  /\ ledger[r] # None => Exact(r)
  /\ Calm(r) /\ Driving(r) = {} /\ ledger[r] # None => ledger[r].state # "running"

Approaching == {"record", "register", "acquire", "take", "boundary", "phase", "recorded"}

Registered == {"acquire", "take", "boundary", "phase", "recorded", "mark", "fail", "release",
               "deregister"}

\* What a call knows of its run, its record and its token.
CallSolo(c) ==
  /\ pc[c] \in Registered => token[run[c]] = c
  /\ pc[c] = "phase" => watch[c] = c
  /\ pc[c] \in Approaching => Fresh(run[c], at[c])
  /\ ledger[run[c]] = None => Fresh(run[c], 1)
  /\ pc[c] \in {"resume", "lookup"} => key[c] = None
  /\ pc[c] = "record" /\ key[c] # None => ledger[run[c]] = None
  /\ pc[c] \in {"release", "deregister"} /\ Calm(run[c]) => ledger[run[c]].state # "running"

SoloInv ==
  /\ Alone /\ Unstarted
  /\ \A r \in Run : r \notin shared => RunSolo(r)
  /\ \A c \in Call : Active(c) /\ run[c] \notin shared => CallSolo(c)

\* The record of a run that is not shared goes on being exact while its
\* cursor, its phase and the completed phases stay.
LEMMA ExactAlike ==
  ASSUME NEW r \in Run, done'[r] = done[r], Exact(r),
         ledger'[r].cursor = ledger[r].cursor, ledger'[r].phase = ledger[r].phase
  PROVE  Exact(r)'
  <1>1. ResumeIndex(ledger'[r]) = ResumeIndex(ledger[r])
    BY SameIndex
  <1>2. PhaseIndex(ledger'[r]) = PhaseIndex(ledger[r])
    BY DEF PhaseIndex
  <1>3. QED
    BY <1>1, <1>2 DEF Exact, Fresh

\* A step of call c disturbs nothing but its own run, so only what is said of
\* the call and of its run has to be shown anew.
LEMMA SoloStep ==
  ASSUME TypeOK, Placed, SoloInv, NEW c \in Call, Active(c), pc'[c] # "idle",
         UNCHANGED <<run, key, crashed, shared>>,
         \A d \in Call : d # c => /\ pc'[d] = pc[d] /\ at'[d] = at[d] /\ watch'[d] = watch[d]
                                  /\ d \in escaped' <=> d \in escaped,
         \A r \in Run : r # run[c] => /\ ledger'[r] = ledger[r] /\ token'[r] = token[r]
                                      /\ done'[r] = done[r],
         run[c] \notin shared =>
           /\ ledger'[run[c]] # None => Exact(run[c])'
           /\ pc'[c] # "over" => CallSolo(c)'
           /\ pc'[c] = "over" /\ Calm(run[c])' /\ ledger'[run[c]] # None
                => ledger'[run[c]].state # "running"
  PROVE  SoloInv'
  <1>1. run[c] \in Run /\ pc[c] # "idle"
    BY DEF Active, Placed
  <1>2. \A d \in Call : d # c => Active(d)' = Active(d)
    BY DEF Active
  <1>3. Alone' /\ Unstarted'
    BY <1>2 DEF SoloInv, Alone, Unstarted
  <1>4. ASSUME NEW r \in Run, r \notin shared PROVE RunSolo(r)'
    <2>1. CASE r # run[c]
      <3>1. /\ ledger'[r] = ledger[r] /\ done'[r] = done[r] /\ RunSolo(r)
        BY <1>4, <2>1 DEF SoloInv
      <3>2. Driving(r)' = Driving(r)
        BY <1>2, <2>1 DEF Driving
      <3>3. Fresh(r, 1)' = Fresh(r, 1)
        BY <3>1 DEF Fresh
      <3>4. ledger[r] # None => Exact(r)'
        BY <3>1, ExactAlike DEF RunSolo
      <3>5. Calm(r)' => Calm(r)
        BY <2>1 DEF Calm
      <3>6. QED
        BY <3>1, <3>2, <3>3, <3>4, <3>5 DEF RunSolo
    <2>2. CASE r = run[c]
      <3>1. pc'[c] # "over" => c \in Driving(r)'
        BY <2>2 DEF Driving, Active
      <3>2. QED
        BY <1>1, <1>4, <2>2, <3>1 DEF RunSolo
    <2>3. QED
      BY <2>1, <2>2
  <1>5. ASSUME NEW d \in Call, Active(d)', run[d] \notin shared PROVE CallSolo(d)'
    <2>1. CASE d = c
      BY <1>5, <2>1 DEF Active
    <2>2. CASE d # c
      <3>1. Active(d) /\ run[d] \in Run /\ run[d] # run[c] /\ CallSolo(d)
        BY <1>2, <1>5, <2>2 DEF SoloInv, Alone, Active, Placed
      <3>2. /\ ledger'[run[d]] = ledger[run[d]] /\ token'[run[d]] = token[run[d]]
            /\ done'[run[d]] = done[run[d]]
        BY <3>1
      <3>3. \A i : Fresh(run[d], i)' = Fresh(run[d], i)
        BY <3>2 DEF Fresh
      <3>4. Calm(run[d])' => Calm(run[d])
        BY <3>1 DEF Calm
      <3>5. QED
        BY <2>2, <3>1, <3>2, <3>3, <3>4 DEF CallSolo, Fresh
    <2>3. QED
      BY <2>1, <2>2
  <1>6. QED
    BY <1>3, <1>4, <1>5 DEF SoloInv

\* The steps of a call that leave the ledger and the completed phases alone.
LEMMA SoloQuiet ==
  ASSUME TypeOK, Placed, SoloInv, NEW c \in Call, Active(c), pc'[c] # "idle",
         UNCHANGED <<run, key, crashed, shared, ledger, done>>,
         \A d \in Call : d # c => /\ pc'[d] = pc[d] /\ at'[d] = at[d] /\ watch'[d] = watch[d]
                                  /\ d \in escaped' <=> d \in escaped,
         \A r \in Run : r # run[c] => token'[r] = token[r],
         run[c] \notin shared =>
           /\ pc'[c] # "over" => CallSolo(c)'
           /\ pc'[c] = "over" /\ Calm(run[c])' /\ ledger[run[c]] # None
                => ledger[run[c]].state # "running"
  PROVE  SoloInv'
  <1>1. run[c] \in Run
    BY DEF Active, Placed
  <1>2. run[c] \notin shared /\ ledger[run[c]] # None => Exact(run[c])'
    BY <1>1, ExactAlike DEF SoloInv, RunSolo
  <1>3. QED
    BY <1>2, SoloStep

\* The steps that only put another record for the run of a call.
LEMMA SoloWrite ==
  ASSUME TypeOK, Placed, SoloInv, NEW c \in Call, Active(c), pc'[c] \notin {"idle", "over"},
         UNCHANGED <<run, key, crashed, escaped, shared, token, done, at, watch>>,
         \A d \in Call : d # c => pc'[d] = pc[d],
         NEW rec \in RunRecord, Store(c, rec),
         run[c] \notin shared =>
           /\ ledger[run[c]] # None => rec.cursor = ledger[run[c]].cursor
                                       /\ rec.phase = ledger[run[c]].phase
           /\ ledger[run[c]] = None => Exact(run[c])'
           /\ pc'[c] \in Registered => pc[c] \in Registered
           /\ pc'[c] \notin {"phase", "resume", "record"}
           /\ pc'[c] \in Approaching => pc[c] \in Approaching
           /\ pc'[c] = "lookup" => pc[c] = "resume"
           /\ pc'[c] \in {"release", "deregister"} => rec.state # "running"
  PROVE  SoloInv'
  <1>1. run[c] \in Run
    BY DEF Active, Placed
  <1>2. ledger'[run[c]] = rec /\ rec # None /\ \A r \in Run : r # run[c] => ledger'[r] = ledger[r]
    BY <1>1, StoreType
  <1>3. run[c] \notin shared => Exact(run[c])'
    BY <1>1, <1>2, ExactAlike DEF SoloInv, RunSolo
  <1>4. ASSUME run[c] \notin shared PROVE CallSolo(c)'
    <2>1. CallSolo(c)
      BY <1>4 DEF SoloInv
    <2>2. Fresh(run[c], at[c])' = Fresh(run[c], at[c])
      BY DEF Fresh
    <2>3. QED
      BY <1>1, <1>2, <1>4, <2>1, <2>2 DEF CallSolo
  <1>5. QED
    BY <1>2, <1>3, <1>4, SoloStep

\* A call that begins to drive a run: alone, or the run is shared from now on.
LEMMA SoloBegin ==
  ASSUME TypeOK, Placed, SoloInv, NEW c \in Call, NEW r \in Run, pc[c] = "idle",
         pc'[c] \notin {"idle", "over"}, run' = [run EXCEPT ![c] = r],
         UNCHANGED <<ledger, token, done, crashed, escaped, at, watch>>,
         \A d \in Call : d # c => pc'[d] = pc[d] /\ key'[d] = key[d],
         shared' = IF Driving(r) = {} THEN shared ELSE shared \cup {r},
         r \notin shared' => CallSolo(c)'
  PROVE  SoloInv'
  <1>1. /\ run[c] = None /\ run'[c] = r /\ ~Active(c) /\ Active(c)'
        /\ \A d \in Call : d # c => run'[d] = run[d] /\ Active(d)' = Active(d)
    BY DEF SoloInv, Unstarted, Active, TypeOK
  <1>2. None \notin Run
    BY OrchestratorAssumption
  <1>3. ASSUME NEW d \in Call, NEW e \in Call, Active(d)', Active(e)', run'[d] = run'[e],
               run'[d] \notin shared'
        PROVE  d = e
    <2>1. r \notin shared' => \A x \in Call : Active(x) => run[x] # r
      BY DEF Driving
    <2>2. QED
      BY <1>1, <1>3, <2>1 DEF SoloInv, Alone
  <1>4. Alone' /\ Unstarted' /\ \A q \in Run : Calm(q)' => Calm(q)
    BY <1>1, <1>2, <1>3 DEF SoloInv, Alone, Unstarted, Calm
  <1>5. ASSUME NEW q \in Run, q \notin shared' PROVE RunSolo(q)'
    <2>1. RunSolo(q)
      BY <1>5 DEF SoloInv
    <2>2. (\A d \in Call : run'[d] # q) => \A d \in Call : run[d] # q
      BY <1>1, <1>2
    <2>3. Driving(q)' = {} => Driving(q) = {}
      BY <1>1 DEF Driving
    <2>4. Fresh(q, 1)' = Fresh(q, 1) /\ Exact(q)' = Exact(q)
      BY DEF Fresh, Exact
    <2>5. QED
      BY <1>4, <2>1, <2>2, <2>3, <2>4 DEF RunSolo
  <1>6. ASSUME NEW d \in Call, Active(d)', run'[d] \notin shared' PROVE CallSolo(d)'
    <2>1. CASE d = c
      BY <1>1, <1>6, <2>1
    <2>2. CASE d # c
      <3>1. CallSolo(d)
        BY <1>1, <1>6, <2>2 DEF SoloInv
      <3>2. \A i : Fresh(run[d], i)' = Fresh(run[d], i)
        BY <1>1, <2>2 DEF Fresh
      <3>3. run[d] \in Run
        BY <1>1, <1>6, <2>2 DEF Active, Placed
      <3>4. QED
        BY <1>1, <1>4, <2>2, <3>1, <3>2, <3>3 DEF CallSolo, Fresh
    <2>3. QED
      BY <2>1, <2>2
  <1>7. QED
    BY <1>4, <1>5, <1>6 DEF SoloInv

\* Every step keeps the invariant of runs that are not shared.
LEMMA SoloInductive ==
  ASSUME TypeOK, Placed, LeaseInv, SoloInv, [Next]_vars
  PROVE  SoloInv'
  <1> USE SequenceType
  <1>1. ASSUME NEW c \in Call, NEW r \in Run, ResumeRun(c, r) PROVE SoloInv'
    <2>1. /\ pc[c] = "idle" /\ pc'[c] = "resume" /\ run'[c] = r /\ key'[c] = None
          /\ ledger[r] # None /\ ledger[r].state \notin {"complete", "cancelled"}
      BY <1>1 DEF ResumeRun, Step, TypeOK, SoloInv, Unstarted
    <2>2. ASSUME r \notin shared' PROVE CallSolo(c)'
      <3>1. ledger'[r] # None
        BY <1>1, <2>1 DEF ResumeRun
      <3>2. QED
        BY <2>1, <3>1 DEF CallSolo, Registered, Approaching
    <2>3. QED
      BY <1>1, <2>1, <2>2, SoloBegin DEF ResumeRun, Step, TypeOK, history
  <1>2. ASSUME NEW c \in Call, NEW r \in Run, NEW k \in Key \cup {None}, StartRun(c, r, k)
        PROVE  SoloInv'
    <2>1. /\ pc[c] = "idle" /\ pc'[c] = "record" /\ run'[c] = r /\ at'[c] = 1
          /\ ledger[r] = None /\ \A d \in Call : run[d] # r
          /\ UNCHANGED <<ledger, crashed, done, shared>>
      BY <1>2 DEF StartRun, Step, TypeOK, Placed, history
    <2>2. ASSUME r \notin shared' PROVE CallSolo(c)'
      <3>1. Fresh(r, 1)'
        BY <2>1, <2>2 DEF SoloInv, RunSolo, Fresh
      <3>2. QED
        BY <2>1, <3>1 DEF CallSolo, Registered
    <2>3. Driving(r) = {}
      BY <2>1 DEF Driving
    <2>4. QED
      BY <1>2, <2>1, <2>2, <2>3, SoloBegin DEF StartRun, Step, TypeOK, history
  <1>3. ASSUME NEW c \in Call, MarkResume(c) PROVE SoloInv'
    <2>a. PICK rec : rec = Marked(ledger[run[c]], "running")
      OBVIOUS
    <2>1. /\ pc[c] = "resume" /\ pc'[c] = "lookup" /\ run[c] \in Run
          /\ ledger[run[c]] \in RunRecord /\ ledger[run[c]] # None
      BY <1>3 DEF MarkResume, Step, TypeOK, Placed
    <2>2. /\ rec \in RunRecord
          /\ rec.cursor = ledger[run[c]].cursor /\ rec.phase = ledger[run[c]].phase
      BY <2>a, <2>1, MarkedType DEF RunState
    <2>3. Store(c, rec)
      BY <1>3, <2>a DEF MarkResume
    <2>4. QED
      BY <1>3, <2>1, <2>2, <2>3, SoloWrite
      DEF MarkResume, Step, TypeOK, local, history, Active, Registered, Approaching
  <1>4. ASSUME NEW c \in Call, Lookup(c) PROVE SoloInv'
    <2>1. /\ pc[c] = "lookup" /\ pc'[c] = "record" /\ run[c] \in Run
          /\ ledger[run[c]] \in RunRecord /\ ledger[run[c]] # None
          /\ at'[c] = ResumeIndex(ledger[run[c]])
          /\ UNCHANGED <<run, key, crashed, escaped, shared, ledger, done, token>>
      BY <1>4 DEF Lookup, Step, TypeOK, Placed, history
    <2>2. ASSUME run[c] \notin shared PROVE CallSolo(c)'
      <3>1. CallSolo(c) /\ Fresh(run[c], ResumeIndex(ledger[run[c]]))
        BY <2>1, <2>2 DEF SoloInv, RunSolo, Exact, Active
      <3>2. Fresh(run[c], at[c])'
        BY <2>1, <3>1 DEF Fresh
      <3>3. QED
        BY <2>1, <3>1, <3>2 DEF CallSolo, Fresh, Registered
    <2>3. QED
      BY <1>4, <2>1, <2>2, SoloQuiet DEF Lookup, Step, TypeOK, Active, history
  <1>5. ASSUME NEW c \in Call, RecordStart(c) PROVE SoloInv'
    <2>a. PICK rec : rec = Started(ledger[run[c]], key[c])
      OBVIOUS
    <2>1. /\ pc[c] = "record" /\ pc'[c] = "register" /\ run[c] \in Run
          /\ ledger[run[c]] \in RunRecord \cup {None} /\ key[c] \in Key \cup {None}
          /\ UNCHANGED <<run, key, crashed, escaped, shared, done, token, at, watch>>
      BY <1>5 DEF RecordStart, Step, TypeOK, Placed, local, history
    <2>b. PICK r \in Run : r = run[c]
      BY <2>1
    <2>2. /\ rec \in RunRecord
          /\ ledger[run[c]] = None => rec.cursor = None /\ rec.phase = None
          /\ ledger[run[c]] # None =>
               /\ rec.phase = ledger[run[c]].phase
               /\ rec.cursor = IF Durable THEN ledger[run[c]].cursor ELSE None
      <3>1. CASE ledger[run[c]] = None
        BY <2>a, <2>1, <3>1, StartedType
      <3>2. CASE ledger[run[c]] # None
        <4>1. ledger[run[c]] \in RunRecord
          BY <2>1, <3>2
        <4>2. rec \in RunRecord
          BY <2>a, <2>1, StartedType
        <4>3. /\ rec.phase = ledger[run[c]].phase
              /\ rec.cursor = IF Durable THEN ledger[run[c]].cursor ELSE None
          BY <2>a, <3>2, <4>1 DEF Started, RunRecord
        <4>4. QED
          BY <3>2, <4>2, <4>3
      <3>3. QED
        BY <3>1, <3>2
    <2>3. Store(c, rec)
      BY <1>5, <2>a DEF RecordStart
    <2>4. /\ ledger'[run[c]] = rec /\ rec # None
          /\ \A q \in Run : q # run[c] => ledger'[q] = ledger[q]
      BY <2>1, <2>2, <2>3, StoreType
    <2>5. ASSUME run[c] \notin shared PROVE Exact(r)' /\ CallSolo(c)'
      <3>1. CallSolo(c) /\ (ledger[run[c]] # None => Exact(run[c]))
        BY <2>1, <2>5 DEF SoloInv, RunSolo, Active
      <3>2. Exact(r)'
        <4>1. CASE rec.cursor = None
          <5>1. Fresh(run[c], PhaseIndex(rec))
            BY <2>1, <2>2, <3>1 DEF CallSolo, Exact, PhaseIndex
          <5>2. ResumeIndex(rec) = PhaseIndex(rec)
            BY <4>1 DEF ResumeIndex, PhaseIndex
          <5>3. Fresh(r, ResumeIndex(rec))' /\ Fresh(r, PhaseIndex(rec))'
            BY <2>1, <2>b, <5>1, <5>2 DEF Fresh
          <5>4. QED
            BY <2>4, <2>b, <4>1, <5>3 DEF Exact
        <4>2. CASE rec.cursor # None
          <5>1. rec.cursor = ledger[run[c]].cursor /\ rec.phase = ledger[run[c]].phase
            BY <2>2, <4>2
          <5>2. Exact(run[c])
            BY <2>2, <3>1, <4>2
          <5>3. QED
            BY <2>1, <2>4, <2>b, <5>1, <5>2, ExactAlike
        <4>3. QED
          BY <4>1, <4>2
      <3>3. Fresh(run[c], at[c])'
        BY <2>1, <3>1 DEF CallSolo, Fresh, Approaching
      <3>4. QED
        BY <2>1, <2>4, <3>1, <3>2, <3>3 DEF CallSolo, Registered
    <2>6. QED
      BY <1>5, <2>1, <2>b, <2>4, <2>5, SoloStep
      DEF RecordStart, Step, TypeOK, Active, local, history
  <1>6. ASSUME NEW c \in Call, RecordStartFails(c) PROVE SoloInv'
    <2>1. /\ pc[c] = "record" /\ pc'[c] = "over" /\ key[c] # None
          /\ UNCHANGED <<run, key, crashed, escaped, shared, ledger, done, token, at, watch>>
      BY <1>6 DEF RecordStartFails, InUse, Step, TypeOK, local, history
    <2>2. run[c] \notin shared => ledger[run[c]] = None
      BY <2>1 DEF SoloInv, CallSolo, Active
    <2>3. QED
      BY <1>6, <2>1, <2>2, SoloQuiet
      DEF RecordStartFails, Step, TypeOK, Active, history
  <1>7. ASSUME NEW c \in Call, RegisterToken(c) PROVE SoloInv'
    <2>1. /\ pc[c] = "register" /\ pc'[c] = "acquire" /\ run[c] \in Run
          /\ token' = [token EXCEPT ![run[c]] = c]
          /\ UNCHANGED <<run, key, crashed, escaped, shared, ledger, done, at, watch>>
      BY <1>7 DEF RegisterToken, Step, TypeOK, Placed, local, history
    <2>2. ASSUME run[c] \notin shared PROVE CallSolo(c)'
      <3>1. CallSolo(c)
        BY <2>1, <2>2 DEF SoloInv, Active
      <3>2. token'[run[c]] = c
        BY <2>1 DEF TypeOK
      <3>3. QED
        BY <2>1, <3>1, <3>2 DEF CallSolo, Fresh, Approaching
    <2>3. QED
      BY <1>7, <2>1, <2>2, SoloQuiet DEF RegisterToken, Step, TypeOK, Active, history
  <1>8. ASSUME NEW c \in Call, Check(c) \/ Acquire(c) PROVE SoloInv'
    <2>1. /\ \/ pc[c] = "acquire" /\ pc'[c] = "take"
             \/ pc[c] = "take" /\ pc'[c] = "release" /\ at[c] > N
             \/ pc[c] = "take" /\ pc'[c] = "boundary"
          /\ run[c] \in Run
          /\ UNCHANGED <<run, key, crashed, escaped, shared, ledger, done, token, at, watch>>
      BY <1>8 DEF Check, Acquire, Step, TypeOK, Placed, local, history
    <2>2. ASSUME run[c] \notin shared PROVE CallSolo(c)'
      <3>1. CallSolo(c)
        BY <2>1, <2>2 DEF SoloInv, Active
      <3>2. pc'[c] = "release" => ~Calm(run[c])'
        BY <2>1 DEF Calm, TypeOK
      <3>3. QED
        BY <2>1, <3>1, <3>2 DEF CallSolo, Fresh, Approaching, Registered
    <2>3. QED
      BY <1>8, <2>1, <2>2, SoloQuiet DEF Check, Acquire, Step, TypeOK, Active
  <1>9. ASSUME NEW c \in Call, AcquireFails(c) PROVE SoloInv'
    <2>1. /\ pc[c] = "acquire" /\ pc'[c] = "over" /\ run[c] \in Run /\ Live(run[c])
          /\ UNCHANGED <<run, key, crashed, escaped, shared, ledger, done, token, at, watch>>
      BY <1>9 DEF AcquireFails, Step, TypeOK, Placed, local, history
    <2>2. run[c] \notin shared => ~Calm(run[c])
      <3>1. SUFFICES ASSUME run[c] \notin shared, Calm(run[c]) PROVE FALSE
        OBVIOUS
      <3>2. PICK d \in Call : d = lease[run[c]].owner
        BY <2>1 DEF Live, TypeOK, Lease
      <3>3. run[d] = run[c] /\ pc[d] \in Holding
        BY <2>1, <3>1, <3>2 DEF Live, LeaseInv, Owned, Calm
      <3>4. d = c
        BY <2>1, <3>1, <3>2, <3>3 DEF SoloInv, Alone, Active, Holding
      <3>5. QED
        BY <2>1, <3>3, <3>4 DEF Holding
    <2>3. Calm(run[c])' => Calm(run[c])
      BY <1>9, <2>1 DEF AcquireFails, Calm, history
    <2>4. QED
      BY <1>9, <2>1, <2>2, <2>3, SoloQuiet DEF AcquireFails, Step, TypeOK, Active, history
  <1>10. ASSUME NEW c \in Call, BeginPhase(c) PROVE SoloInv'
    <2>1. /\ pc[c] = "boundary" /\ pc'[c] = "phase" /\ run[c] \in Run
          /\ watch'[c] = token[run[c]]
          /\ UNCHANGED <<run, key, crashed, escaped, shared, ledger, done, token, at>>
      BY <1>10 DEF BeginPhase, Step, TypeOK, Placed, history
    <2>2. ASSUME run[c] \notin shared PROVE CallSolo(c)'
      <3>1. CallSolo(c)
        BY <2>1, <2>2 DEF SoloInv, Active
      <3>2. QED
        BY <2>1, <3>1 DEF CallSolo, Fresh, Approaching, Registered
    <2>3. QED
      BY <1>10, <2>1, <2>2, SoloQuiet DEF BeginPhase, Step, TypeOK, Active, history
  <1>11. ASSUME NEW c \in Call, RenewFails(c) PROVE SoloInv'
    <2>1. /\ pc[c] = "boundary" /\ pc'[c] = "fail" /\ run[c] \in Run /\ at[c] <= N /\ ~Owns(c)
          /\ ledger[run[c]] # None
          /\ UNCHANGED <<run, key, crashed, escaped, shared, ledger, done, token, at, watch>>
      BY <1>11 DEF RenewFails, Step, TypeOK, Placed, local, history
    <2>2. ASSUME run[c] \notin shared PROVE CallSolo(c)'
      <3>1. CallSolo(c)
        BY <2>1, <2>2 DEF SoloInv, Active
      <3>2. QED
        BY <2>1, <3>1 DEF CallSolo, Fresh, Approaching, Registered
    <2>3. QED
      BY <1>11, <2>1, <2>2, SoloQuiet DEF RenewFails, Step, TypeOK, Active, history
  <1>12. ASSUME NEW c \in Call, NEW o \in Outcomes, NEW has \in BOOLEAN, EndPhase(c, o, has)
         PROVE  SoloInv'
    <2>1. /\ pc[c] = "phase" /\ pc'[c] = "recorded" /\ run[c] \in Run
          /\ UNCHANGED <<run, key, crashed, escaped, shared, ledger, done, token, at>>
      BY <1>12 DEF EndPhase, Step, TypeOK, Placed, history
    <2>2. ASSUME run[c] \notin shared PROVE CallSolo(c)'
      <3>1. CallSolo(c)
        BY <2>1, <2>2 DEF SoloInv, Active
      <3>2. QED
        BY <2>1, <3>1 DEF CallSolo, Fresh, Approaching, Registered
    <2>3. QED
      BY <1>12, <2>1, <2>2, SoloQuiet DEF EndPhase, Step, TypeOK, Active, history
  <1>13. ASSUME NEW c \in Call, RecordPhase(c) PROVE SoloInv'
    <2>a. PICK r, i, o, old : r = run[c] /\ i = at[c] /\ o = outcome[c] /\ old = ledger[r]
      OBVIOUS
    <2>b. PICK p, cursor, rec : /\ p = PhaseSequence[i] /\ cursor = NextCursor(old.cursor, p, o)
                                /\ rec = PhaseRecorded(old, p, o, head[c])
      OBVIOUS
    <2>1. /\ pc[c] = "recorded" /\ r \in Run /\ i \in 1..N
          /\ old \in RunRecord /\ old # None
          /\ o \in PhaseOutcome /\ head[c] \in Ctx \cup {None}
      <3>1. /\ pc[c] = "recorded" /\ r \in Run /\ i \in 1..N /\ old \in RunRecord /\ old # None
        BY <1>13, <2>a DEF RecordPhase, Step, TypeOK, Placed
      <3>2. o \in PhaseOutcome /\ head[c] \in Ctx \cup {None}
        BY <2>a, OrchestratorAssumption DEF TypeOK
      <3>3. QED
        BY <3>1, <3>2
    <2>2. p \in Phase /\ IndexOf(p) = i /\ p # None
      BY <2>b, <2>1, NoneIsNoValue
    <2>3. /\ rec \in RunRecord /\ rec.cursor = cursor /\ rec.phase = PhaseView(cursor)
          /\ rec.cursor # None
          /\ ResumeIndex(rec) = IF o \in Completing THEN i + 1 ELSE i
      BY <2>b, <2>1, <2>2, PhaseRecordedType, RecordedIndex
    <2>4. /\ cursor.current = p
          /\ o \in Completing => cursor.last = p
          /\ o \notin Completing => cursor.last = IF old.cursor = None THEN None ELSE old.cursor.last
      BY <2>b DEF NextCursor
    <2>5. /\ Store(c, rec)
          /\ UNCHANGED <<run, key, outcome, watch, token, crashed, late, shared>>
          /\ done' = [done EXCEPT ![r] = IF o \in Completing THEN @ \cup {p} ELSE @]
      BY <1>13, <2>a, <2>b DEF RecordPhase
    <2>6. \/ o \in Completing /\ at'[c] = i + 1 /\ i < N /\ pc'[c] = "boundary"
          \/ at'[c] = i /\ pc'[c] = "mark"
      BY <1>13, <2>a, <2>1 DEF RecordPhase, Step, TypeOK
    <2>7. /\ ledger'[r] = rec /\ rec # None
          /\ \A q \in Run : q # r => ledger'[q] = ledger[q]
      BY <2>a, <2>1, <2>3, <2>5, StoreType
    <2>8. /\ done'[r] = IF o \in Completing THEN done[r] \cup {p} ELSE done[r]
          /\ \A q \in Run : q # r => done'[q] = done[q]
      BY <2>1, <2>5 DEF TypeOK
    <2>9. ASSUME r \notin shared PROVE Exact(r)' /\ CallSolo(c)'
      <3>1. CallSolo(c) /\ Exact(r)
        BY <2>a, <2>1, <2>9 DEF SoloInv, RunSolo, Active
      <3>2. Fresh(r, i)
        BY <2>a, <2>1, <3>1 DEF CallSolo, Approaching
      <3>3. Fresh(r, i + 1)'
        <4>1. ASSUME NEW j \in 1..N, i + 1 <= j PROVE PhaseSequence[j] \notin done'[r]
          <5>1. i <= j /\ j # i
            BY <2>1, <4>1
          <5>2. PhaseSequence[j] # p
            BY <2>2, <2>b, <5>1
          <5>3. QED
            BY <2>8, <3>2, <5>1, <5>2 DEF Fresh
        <4>2. QED
          BY <4>1 DEF Fresh
      <3>4. o \notin Completing => Fresh(r, i)'
        BY <2>8, <3>2 DEF Fresh
      <3>5. Fresh(r, ResumeIndex(rec))'
        BY <2>3, <3>3, <3>4
      <3>6. cursor.last # None => Fresh(r, IndexOf(cursor.last) + 1)'
        <4>1. CASE o \in Completing
          BY <2>2, <2>4, <3>3, <4>1
        <4>2. CASE o \notin Completing
          <5>1. cursor.last # None =>
                  /\ old.cursor # None /\ cursor.last = old.cursor.last
                  /\ Fresh(r, IndexOf(old.cursor.last) + 1)
            BY <2>a, <2>1, <2>4, <3>1, <4>2 DEF Exact
          <5>2. QED
            BY <2>8, <4>2, <5>1 DEF Fresh
        <4>3. QED
          BY <4>1, <4>2
      <3>7. Fresh(r, PhaseIndex(rec))'
        <4>1. CASE cursor.last # None
          BY <2>3, <3>6, <4>1 DEF PhaseView, Override, PhaseIndex
        <4>2. CASE cursor.last = None
          BY <2>2, <2>3, <2>4, <3>3, <4>2 DEF PhaseView, Override, PhaseIndex
        <4>3. QED
          BY <4>1, <4>2
      <3>8. Exact(r)'
        BY <2>3, <2>7, <3>5, <3>6, <3>7 DEF Exact
      <3>9. pc'[c] \in Approaching => Fresh(r, at[c])'
        BY <2>6, <3>3 DEF Fresh, Approaching
      <3>10. token'[r] = c
        BY <2>a, <2>1, <2>5, <3>1 DEF CallSolo, Registered
      <3>11. QED
        BY <2>a, <2>5, <2>6, <2>7, <3>8, <3>9, <3>10 DEF CallSolo
    <2>10. QED
      BY <1>13, <2>a, <2>1, <2>5, <2>6, <2>7, <2>8, <2>9, SoloStep DEF RecordPhase, Step, TypeOK, Active
  <1>14. ASSUME NEW c \in Call, MarkEnd(c) PROVE SoloInv'
    <2>a. PICK s, rec : /\ s = IF outcome[c] \in Completing THEN "complete" ELSE outcome[c]
                        /\ rec = Marked(ledger[run[c]], s)
      OBVIOUS
    <2>1. /\ pc[c] = "mark" /\ pc'[c] = "release" /\ run[c] \in Run
          /\ ledger[run[c]] \in RunRecord /\ ledger[run[c]] # None
          /\ UNCHANGED <<run, key, crashed, escaped, shared, token, done, at, watch>>
      BY <1>14 DEF MarkEnd, Step, TypeOK, Placed, local, history
    <2>2. /\ s \in RunState /\ s # "running"
          /\ outcome[c] \in Completing => s = "complete"
      BY <2>a DEF TypeOK, PhaseOutcome, Completing, RunState
    <2>3. /\ rec \in RunRecord /\ rec.state = s
          /\ rec.cursor = ledger[run[c]].cursor /\ rec.phase = ledger[run[c]].phase
      BY <2>a, <2>1, <2>2, MarkedType
    <2>4. Store(c, rec)
      BY <1>14, <2>a DEF MarkEnd
    <2>5. QED
      BY <1>14, <2>1, <2>2, <2>3, <2>4, SoloWrite
      DEF MarkEnd, Step, TypeOK, Active, Registered, Approaching
  <1>15. ASSUME NEW c \in Call, Fail(c) PROVE SoloInv'
    <2>a. PICK rec : rec = Marked(ledger[run[c]], "failed")
      OBVIOUS
    <2>1. /\ pc[c] = "fail" /\ pc'[c] = "release" /\ run[c] \in Run
          /\ ledger[run[c]] \in RunRecord /\ ledger[run[c]] # None
          /\ UNCHANGED <<run, key, crashed, escaped, shared, token, done, at, watch>>
      BY <1>15 DEF Fail, Step, TypeOK, Placed, history
    <2>2. /\ rec \in RunRecord /\ rec.state = "failed"
          /\ rec.cursor = ledger[run[c]].cursor /\ rec.phase = ledger[run[c]].phase
      BY <2>a, <2>1, MarkedType DEF RunState
    <2>3. Store(c, rec)
      BY <1>15, <2>a DEF Fail
    <2>4. QED
      BY <1>15, <2>1, <2>2, <2>3, SoloWrite
      DEF Fail, Step, TypeOK, Active, Registered, Approaching
  <1>16. ASSUME NEW c \in Call, Release(c) PROVE SoloInv'
    <2>1. /\ pc[c] = "release" /\ pc'[c] = "deregister" /\ run[c] \in Run
          /\ UNCHANGED <<run, key, crashed, escaped, shared, ledger, done, token, at, watch>>
      BY <1>16 DEF Release, Step, TypeOK, Placed, local, history
    <2>2. ASSUME run[c] \notin shared PROVE CallSolo(c)'
      <3>1. CallSolo(c)
        BY <2>1, <2>2 DEF SoloInv, Active
      <3>2. Calm(run[c])' => Calm(run[c])
        BY <2>1 DEF Calm
      <3>3. QED
        BY <2>1, <3>1, <3>2 DEF CallSolo, Fresh, Approaching, Registered
    <2>3. QED
      BY <1>16, <2>1, <2>2, SoloQuiet DEF Release, Step, TypeOK, Active, history
  <1>17. ASSUME NEW c \in Call, Deregister(c) PROVE SoloInv'
    <2>1. /\ pc[c] = "deregister" /\ pc'[c] = "over" /\ run[c] \in Run
          /\ token' = [token EXCEPT ![run[c]] = None]
          /\ UNCHANGED <<run, key, crashed, escaped, shared, ledger, done, at, watch>>
      BY <1>17 DEF Deregister, Step, TypeOK, Placed, local, history
    <2>2. Calm(run[c])' => Calm(run[c])
      BY <1>17, <2>1 DEF Deregister, Calm, history
    <2>3. run[c] \notin shared /\ Calm(run[c]) => ledger[run[c]].state # "running"
      BY <2>1 DEF SoloInv, CallSolo, Active
    <2>4. QED
      BY <1>17, <2>1, <2>2, <2>3, SoloQuiet DEF Deregister, Step, TypeOK, Active, history
  <1>18. ASSUME UNCHANGED <<ledger, token, pc, local, done, crashed, escaped, shared>>
         PROVE  SoloInv'
    <2>1. /\ Alone' = Alone /\ Unstarted' = Unstarted
          /\ \A d \in Call : Active(d)' = Active(d)
      BY <1>18 DEF local, Alone, Unstarted, Active
    <2>2. ASSUME NEW r \in Run PROVE RunSolo(r)' = RunSolo(r)
      BY <1>18 DEF local, RunSolo, Calm, Driving, Active, Exact, Fresh
    <2>3. ASSUME NEW d \in Call PROVE CallSolo(d)' = CallSolo(d)
      BY <1>18 DEF local, CallSolo, Calm, Fresh
    <2>4. QED
      BY <1>18, <2>1, <2>2, <2>3 DEF SoloInv, local
  <1>19. ASSUME NEW r \in Run, CancelRun(r) PROVE SoloInv'
    BY <1>18, <1>19 DEF CancelRun
  <1>20. ASSUME NEW r \in Run, MarkCancelled(r) PROVE SoloInv'
    <2>a. PICK rec : rec = Marked(ledger[r], "cancelled")
      OBVIOUS
    <2>1. ledger[r] \in RunRecord /\ ledger[r] # None
      BY <1>20 DEF MarkCancelled, TypeOK, Placed
    <2>2. /\ rec \in RunRecord /\ rec.state = "cancelled"
          /\ rec.cursor = ledger[r].cursor /\ rec.phase = ledger[r].phase
      BY <2>a, <2>1, MarkedType DEF RunState
    <2>3. /\ ledger'[r] = rec /\ \A q \in Run : q # r => ledger'[q] = ledger[q]
          /\ UNCHANGED <<token, pc, run, key, at, watch, done, crashed, escaped, shared>>
      BY <1>20, <2>a DEF MarkCancelled, TypeOK, local, history
    <2>4. rec # None /\ rec.state # "running"
      BY <2>2, NoneIsNoValue
    <2>5. /\ Alone' /\ Unstarted' /\ \A q : Calm(q)' = Calm(q)
          /\ \A d \in Call : Active(d)' = Active(d)
      BY <2>3 DEF SoloInv, Alone, Unstarted, Active, Calm
    <2>6. ASSUME NEW q \in Run, q \notin shared PROVE RunSolo(q)'
      <3>1. RunSolo(q) /\ Driving(q)' = Driving(q) /\ Fresh(q, 1)' = Fresh(q, 1)
        BY <2>3, <2>6 DEF SoloInv, Driving, Active, Fresh
      <3>2. ledger[q] # None => Exact(q)'
        BY <2>2, <2>3, <3>1, ExactAlike DEF RunSolo
      <3>3. QED
        BY <2>1, <2>3, <2>4, <2>5, <3>1, <3>2 DEF RunSolo
    <2>7. ASSUME NEW d \in Call, Active(d), run[d] \notin shared PROVE CallSolo(d)'
      <3>1. CallSolo(d) /\ run[d] \in Run
        BY <2>7 DEF SoloInv, Active, Placed
      <3>2. /\ (ledger'[run[d]] = None) = (ledger[run[d]] = None)
            /\ \/ ledger'[run[d]] = ledger[run[d]]
               \/ ledger'[run[d]].state # "running"
        BY <2>1, <2>3, <2>4, <3>1
      <3>3. \A i : Fresh(run[d], i)' = Fresh(run[d], i)
        BY <2>3 DEF Fresh
      <3>4. QED
        BY <2>3, <2>5, <3>1, <3>2, <3>3 DEF CallSolo, Fresh
    <2>8. QED
      BY <2>3, <2>5, <2>6, <2>7 DEF SoloInv
  <1>21. ASSUME NEW r \in Run, Expire(r) PROVE SoloInv'
    BY <1>18, <1>21 DEF Expire
  <1>22. ASSUME Crash PROVE SoloInv'
    <2>1. /\ \A d \in Call : pc'[d] = (IF Active(d) THEN "over" ELSE pc[d])
          /\ crashed' # {}
          /\ UNCHANGED <<run, key, done, shared>>
          /\ ledger' = ledger \/ ledger' = [r \in Run |-> None]
      BY <1>22 DEF Crash, local
    <2>2. (\A r : ~Calm(r)') /\ \A d \in Call : ~Active(d)'
      BY <2>1 DEF Calm, Active
    <2>3. Alone' /\ Unstarted'
      BY <2>1, <2>2 DEF SoloInv, Alone, Unstarted, Active
    <2>4. ASSUME NEW r \in Run, r \notin shared PROVE RunSolo(r)'
      <3>1. RunSolo(r) /\ Fresh(r, 1)' = Fresh(r, 1)
        BY <2>1, <2>4 DEF SoloInv, Fresh
      <3>2. ledger'[r] # None => Exact(r)'
        BY <2>1, <3>1, ExactAlike DEF RunSolo
      <3>3. ledger[r] = None => ledger'[r] = None
        BY <2>1
      <3>4. QED
        BY <2>1, <2>2, <3>1, <3>2, <3>3 DEF RunSolo
    <2>5. QED
      BY <2>1, <2>2, <2>3, <2>4 DEF SoloInv
  <1>23. CASE UNCHANGED vars
    BY <1>18, <1>23 DEF vars, history
  <1>24. ASSUME NEW c \in Call, Raises(c) PROVE SoloInv'
    <2>1. /\ pc[c] \in {"boundary", "recorded", "mark", "release"} /\ pc'[c] = "fail"
          /\ UNCHANGED <<run, key, crashed, escaped, shared, ledger, done, token, at, watch>>
      BY <1>24 DEF Raises, TypeOK, local, history
    <2>2. ASSUME run[c] \notin shared PROVE CallSolo(c)'
      <3>1. CallSolo(c)
        BY <2>1, <2>2 DEF SoloInv, Active
      <3>2. QED
        BY <2>1, <3>1 DEF CallSolo, Fresh, Approaching, Registered
    <2>3. QED
      BY <1>24, <2>1, <2>2, SoloQuiet DEF Raises, TypeOK, Active
  <1>25. ASSUME NEW c \in Call, Escapes(c) PROVE SoloInv'
    <2>1. /\ Active(c) /\ pc'[c] = "over" /\ escaped' = escaped \cup {c}
          /\ UNCHANGED <<run, key, crashed, shared, ledger, done, token, at, watch>>
      BY <1>25 DEF Escapes, TypeOK, local
    <2>2. ~Calm(run[c])'
      BY <2>1 DEF Calm
    <2>3. QED
      BY <1>25, <2>1, <2>2, SoloQuiet DEF Escapes, TypeOK
  <1>26. QED
    BY <1>1, <1>2, <1>3, <1>4, <1>5, <1>6, <1>7, <1>8, <1>9, <1>10, <1>11, <1>12, <1>13, <1>14,
       <1>15, <1>16, <1>17, <1>19, <1>20, <1>21, <1>22, <1>23, <1>24, <1>25 DEF Next

\* The invariant of runs that are not shared holds in every reachable state.
LEMMA SoloInvariant == Spec => [](TypeOK /\ Placed /\ SoloInv)
  <1>1. Init => SoloInv
    <2> SUFFICES ASSUME Init PROVE SoloInv
      OBVIOUS
    <2>1. \A c \in Call : ~Active(c)
      BY DEF Init, Active
    <2>2. Alone /\ Unstarted
      BY <2>1 DEF Init, Alone, Unstarted
    <2>3. \A r \in Run : RunSolo(r)
      BY DEF Init, RunSolo, Fresh
    <2>4. QED
      BY <2>1, <2>2, <2>3 DEF SoloInv
  <1>2. TypeOK /\ Placed /\ LeaseInv /\ SoloInv /\ [Next]_vars => SoloInv'
    BY SoloInductive
  <1>3. QED
    BY <1>1, <1>2, LeaseInvariant, PTL DEF Spec

\* Where calls for a run do not overlap, no completed phase runs again: with
\* either ledger, and whatever crashes, expires or is cancelled.
THEOREM NoRerunCorrect == Spec => []NoRerun
  <1>1. TypeOK /\ Placed /\ SoloInv => NoRerun
    <2> SUFFICES ASSUME TypeOK, Placed, SoloInv, NEW c \in Call, pc[c] = "phase",
                        run[c] \notin shared
                 PROVE  PhaseSequence[at[c]] \notin done[run[c]]
      BY DEF NoRerun
    <2>1. Fresh(run[c], at[c])
      BY DEF SoloInv, Active, CallSolo, Approaching
    <2>2. at[c] \in 1..N
      BY SequenceType DEF TypeOK, Placed
    <2>3. QED
      BY <2>1, <2>2 DEF Fresh
  <1>2. QED
    BY <1>1, SoloInvariant, PTL

\* When calls for a run do not overlap, the process stays up, no exception leaves
\* a call of the run and no resume of it finds every phase done already, start_run
\* does not leave the run in state "running", with either ledger.
THEOREM SettledCorrect == Spec => []Settled
  <1>1. SoloInv => Settled
    BY DEF SoloInv, RunSolo, Calm, Settled
  <1>2. QED
    BY <1>1, SoloInvariant, PTL

\* As long as calls for a run have not overlapped, cancel_run sets the token that
\* the current phase of the run watches. (After an overlap the table may hold the
\* token of another call, or none.)
THEOREM CancelReachesCorrect == Spec => CancelReaches
  <1>1. TypeOK /\ Placed /\ SoloInv /\ [Next]_vars =>
          [\A c \in Call :
             pc[c] = "phase" /\ run[c] \in wanted' \ wanted /\ run[c] \notin shared
               => watch[c] \in flipped']_vars
    <2> SUFFICES ASSUME TypeOK, Placed, SoloInv, [Next]_vars, NEW c \in Call, pc[c] = "phase",
                        run[c] \in wanted' \ wanted, run[c] \notin shared
                 PROVE  watch[c] \in flipped'
      OBVIOUS
    <2>1. watch[c] = c /\ token[run[c]] = c
      BY DEF SoloInv, Active, CallSolo, Registered
    <2>2. CancelRun(run[c])
      BY DEF Next, vars, history, local, StartRun, ResumeRun, MarkResume, Lookup, RecordStart,
             RecordStartFails, RegisterToken, Check, Acquire, AcquireFails, BeginPhase,
             RenewFails, EndPhase, RecordPhase, MarkEnd, Raises, Fail, Release, Deregister,
             Escapes, CancelRun, MarkCancelled, Expire, Crash
    <2>3. c # None
      BY OrchestratorAssumption
    <2>4. QED
      BY <2>1, <2>2, <2>3 DEF CancelRun
  <1>2. QED
    BY <1>1, SoloInvariant, PTL DEF Spec, CancelReaches

=============================================================================
