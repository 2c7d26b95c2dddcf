-------------------------- MODULE RunLedgerProofs --------------------------
(***************************************************************************)
(* The in-memory run ledger for any sets of runs, keys and clients and any *)
(* capacity: type correctness, the agreement of records, key index and     *)
(* insertion order, and revisions that count every write.                  *)
(***************************************************************************)
EXTENDS RunLedger, TLAPS

-----------------------------------------------------------------------------
(* The functions on records.                                               *)

\* A mark keeps a record a record, with the next revision and the same key.
LEMMA MarkedType ==
  ASSUME NEW rec \in RunRecord, NEW s \in RunState
  PROVE  /\ Marked(rec, s) \in RunRecord
         /\ Marked(rec, s).rev = rec.rev + 1
         /\ Marked(rec, s).key = rec.key
         /\ Marked(rec, s).state = s
         /\ Marked(rec, s).cursor = rec.cursor
         /\ Marked(rec, s).phase = rec.phase
  <1>1. rec.rev + 1 \in Nat \ {0}
    BY DEF RunRecord
  <1>2. QED
    BY <1>1 DEF Marked, RunRecord

\* The cursor a phase leaves behind is a cursor.
LEMMA CursorType ==
  ASSUME NEW old \in PhaseCursor \cup {None}, NEW p \in Phase, NEW o \in PhaseOutcome
  PROVE  /\ NextCursor(old, p, o) \in PhaseCursor
         /\ PhaseView(NextCursor(old, p, o)) \in Phase \cup {None}
  BY DEF NextCursor, PhaseCursor, PhaseView, Override

\* So does recording a phase.
LEMMA PhaseRecordedType ==
  ASSUME NEW rec \in RunRecord, NEW p \in Phase, NEW o \in PhaseOutcome,
         NEW c \in Ctx \cup {None}
  PROVE  /\ PhaseRecorded(rec, p, o, c) \in RunRecord
         /\ PhaseRecorded(rec, p, o, c).rev = rec.rev + 1
         /\ PhaseRecorded(rec, p, o, c).key = rec.key
         /\ PhaseRecorded(rec, p, o, c).state = "running"
         /\ PhaseRecorded(rec, p, o, c).cursor = NextCursor(rec.cursor, p, o)
         /\ PhaseRecorded(rec, p, o, c).phase = PhaseView(NextCursor(rec.cursor, p, o))
  <1> DEFINE cursor == NextCursor(rec.cursor, p, o)
  <1>1. cursor \in PhaseCursor /\ PhaseView(cursor) \in Phase \cup {None}
    BY CursorType DEF RunRecord
  <1>2. Override(c, rec.ctx) \in Ctx \cup {None}
    BY DEF Override, RunRecord
  <1> DEFINE m == Marked(rec, "running")
  <1>3. /\ m \in RunRecord /\ m.rev = rec.rev + 1 /\ m.key = rec.key
        /\ m.state = "running"
    BY MarkedType DEF RunState
  <1>4. PhaseRecorded(rec, p, o, c) =
          [m EXCEPT !.phase = PhaseView(cursor), !.cursor = cursor,
                    !.ctx = Override(c, rec.ctx)]
    BY DEF PhaseRecorded
  <1> DEFINE x == [m EXCEPT !.phase = PhaseView(cursor), !.cursor = cursor,
                            !.ctx = Override(c, rec.ctx)]
  <1> HIDE DEF cursor, m
  <1>5. /\ x \in RunRecord /\ x.rev = m.rev /\ x.key = m.key /\ x.state = m.state
        /\ x.cursor = cursor /\ x.phase = PhaseView(cursor)
    BY <1>1, <1>2, <1>3 DEF RunRecord
  <1> HIDE DEF x
  <1>6. QED
    BY <1>3, <1>4, <1>5 DEF x, cursor

\* So does attributing a cost.
LEMMA CostRecordedType ==
  ASSUME NEW rec \in RunRecord, NEW amount \in Cost \cup {None}
  PROVE  /\ CostRecorded(rec, amount) \in RunRecord
         /\ CostRecorded(rec, amount).rev = rec.rev + 1
         /\ CostRecorded(rec, amount).key = rec.key
         /\ CostRecorded(rec, amount).cursor = rec.cursor
         /\ CostRecorded(rec, amount).phase = rec.phase
  <1>1. rec.rev + 1 \in Nat \ {0} /\ Override(amount, rec.cost) \in Cost \cup {None}
    BY DEF Override, RunRecord
  <1>2. QED
    BY <1>1 DEF CostRecorded, RunRecord

\* A new or replaced record is a record.
LEMMA StartedType ==
  ASSUME NEW old \in RunRecord \cup {None}, NEW k \in Key \cup {None}
  PROVE  Started(old, k) \in RunRecord
  <1>1. CASE old = None
    BY <1>1 DEF Started, NewRecord, RunRecord, RunState
  <1>2. CASE old # None
    <2>1. old.rev + 1 \in Nat \ {0}
      BY <1>2 DEF RunRecord
    <2>2. "running" \in RunState
      BY DEF RunState
    <2>3. QED
      BY <1>2, <2>1, <2>2 DEF Started, RunRecord
  <1>3. QED
    BY <1>1, <1>2

\* What befalls the runs that clients hold keeps the reads well typed.
LEMMA SinceType ==
  ASSUME NEW h \in [Client -> Held \cup {None}], NEW S, NEW e \in {"write", "eviction"}
  PROVE  Since(h, S, e) \in [Client -> Held \cup {None}]
  BY DEF Since, Held

-----------------------------------------------------------------------------
(* The insertion order.                                                    *)

Distinct(o) == \A i, j \in 1..Len(o) : o[i] = o[j] => i = j

Lists(o, q) == \E i \in 1..Len(o) : o[i] = q

\* Evicting from a list that is at most one too long leaves a list that fits
\* and holds everything but the victim.
LEMMA EvictionFits ==
  ASSUME NEW o \in Seq(RunId), Distinct(o), Len(o) <= MaxRecords + 1
  PROVE  /\ Victims(o) \in SUBSET RunId
         /\ Survivors(o) \in Seq(RunId)
         /\ Len(Survivors(o)) <= MaxRecords
         /\ Distinct(Survivors(o))
         /\ \A q \in RunId : Lists(Survivors(o), q) <=> Lists(o, q) /\ q \notin Victims(o)
  <1>1. CASE Len(o) <= MaxRecords
    BY <1>1, LedgerAssumption DEF Victims, Survivors
  <1>2. CASE Len(o) > MaxRecords
    <2>1. Len(o) = MaxRecords + 1 /\ o # <<>> /\ Len(o) \in Nat
      BY <1>2, LedgerAssumption
    <2>2. Survivors(o) = Tail(o) /\ Victims(o) = {o[1]}
      BY <1>2, <2>1 DEF Victims, Survivors
    <2>3. /\ Tail(o) \in Seq(RunId)
          /\ Len(Tail(o)) = MaxRecords
          /\ \A i \in 1..MaxRecords : Tail(o)[i] = o[i + 1]
      BY <2>1, LedgerAssumption
    <2>4. Distinct(Tail(o))
      BY <2>1, <2>3, LedgerAssumption DEF Distinct
    <2>5. ASSUME NEW q \in RunId
          PROVE  Lists(Tail(o), q) <=> Lists(o, q) /\ q # o[1]
      <3>1. ASSUME Lists(Tail(o), q) PROVE Lists(o, q) /\ q # o[1]
        <4>1. PICK i \in 1..MaxRecords : Tail(o)[i] = q
          BY <2>3, <3>1 DEF Lists
        <4>2. o[i + 1] = q /\ i + 1 \in 1..Len(o) /\ 1 \in 1..Len(o) /\ i + 1 # 1
          BY <2>1, <2>3, <4>1, LedgerAssumption
        <4>3. QED
          BY <4>2 DEF Lists, Distinct
      <3>2. ASSUME Lists(o, q), q # o[1] PROVE Lists(Tail(o), q)
        <4>1. PICK i \in 1..Len(o) : o[i] = q
          BY <3>2 DEF Lists
        <4>2. i - 1 \in 1..MaxRecords /\ (i - 1) + 1 = i
          BY <2>1, <3>2, <4>1, LedgerAssumption
        <4>3. QED
          BY <2>3, <4>1, <4>2 DEF Lists
      <3>3. QED
        BY <3>1, <3>2
    <2>6. o[1] \in RunId
      BY <2>1
    <2>7. QED
      BY <2>2, <2>3, <2>4, <2>5, <2>6, LedgerAssumption
  <1>3. QED
    BY <1>1, <1>2, LedgerAssumption

-----------------------------------------------------------------------------
(* The invariant: typing, the key index and the insertion order support one *)
(* another. record_start is the one operation that touches all three.       *)

LedgerInv == TypeOK /\ KeyIndexExact /\ OrderExact

\* record_start preserves the invariant.
LEMMA RecordStartInv ==
  ASSUME LedgerInv, NEW r \in RunId, NEW k \in Key \cup {None}, RecordStart(r, k)
  PROVE  LedgerInv'
  <1> DEFINE rec   == Started(records[r], k)
             index == Rekeyed(r, records[r], k)
             queue == IF records[r] = None THEN Append(order, r) ELSE order
             gone  == Victims(queue)
             Free(j) == \E v \in gone : records[v] # None /\ records[v].key = j
  <1>1. /\ k # None => keyIndex[k] = None
        /\ order' = Survivors(queue)
        /\ records' = [q \in RunId |-> IF q \in gone THEN None
                                       ELSE IF q = r THEN rec ELSE records[q]]
        /\ keyIndex' = [j \in Key |-> IF Free(j) THEN None ELSE index[j]]
        /\ held' = Since(Since(held, {r}, "write"), gone, "eviction")
    BY DEF RecordStart
  <1>2. rec \in RunRecord /\ rec.key = k /\ rec # None
    <2>1. records[r] \in RunRecord \cup {None}
      BY DEF LedgerInv, TypeOK
    <2>2. rec \in RunRecord
      BY <2>1, StartedType
    <2>3. rec.key = k
      BY <2>1 DEF Started, NewRecord, RunRecord
    <2>4. QED
      BY <2>2, <2>3, NoneIsNoValue
  <1>3. /\ queue \in Seq(RunId)
        /\ Distinct(queue)
        /\ Len(queue) <= MaxRecords + 1
        /\ \A q \in RunId : Lists(queue, q) <=> records[q] # None \/ q = r
        /\ r \notin gone
    <2>1. /\ order \in Seq(RunId) /\ Distinct(order) /\ Len(order) <= MaxRecords
          /\ \A q \in RunId : Lists(order, q) <=> records[q] # None
      BY DEF LedgerInv, TypeOK, OrderExact, Distinct, Lists
    <2>2. CASE records[r] # None
      <3>1. queue = order
        BY <2>2
      <3>2. gone = {}
        BY <2>1, <3>1, LedgerAssumption DEF Victims
      <3>3. QED
        BY <2>1, <2>2, <3>1, <3>2, LedgerAssumption
    <2>3. CASE records[r] = None
      <3>1. /\ queue = Append(order, r) /\ queue \in Seq(RunId)
            /\ Len(queue) = Len(order) + 1
            /\ \A i \in 1..Len(order) : queue[i] = order[i]
            /\ queue[Len(order) + 1] = r
            /\ Len(order) \in Nat
        BY <2>1, <2>3
      <3>2. \A i \in 1..Len(order) : order[i] # r
        BY <2>1, <2>3 DEF Lists
      <3>3. Distinct(queue)
        BY <2>1, <3>1, <3>2 DEF Distinct
      <3>4. \A q \in RunId : Lists(queue, q) <=> Lists(order, q) \/ q = r
        BY <3>1 DEF Lists
      <3>5. r \notin gone
        <4>1. CASE Len(queue) > MaxRecords
          BY <2>1, <3>1, <3>2, <4>1, LedgerAssumption DEF Victims
        <4>2. CASE Len(queue) <= MaxRecords
          BY <3>1, <4>2, LedgerAssumption DEF Victims
        <4>3. QED
          BY <3>1, <4>1, <4>2, LedgerAssumption
      <3>6. QED
        BY <2>1, <3>1, <3>3, <3>4, <3>5, LedgerAssumption
    <2>4. QED
      BY <2>2, <2>3
  <1>4. /\ gone \in SUBSET RunId
        /\ order' \in Seq(RunId)
        /\ Len(order') <= MaxRecords
        /\ Distinct(order')
        /\ \A q \in RunId : Lists(order', q) <=> (records[q] # None \/ q = r) /\ q \notin gone
    BY <1>1, <1>3, EvictionFits
  <1>5. index \in [Key -> RunId \cup {None}]
    BY DEF LedgerInv, TypeOK, Rekeyed
  <1>6. held' \in [Client -> Held \cup {None}]
    BY <1>1, SinceType DEF LedgerInv, TypeOK
  <1>7. /\ \A q \in RunId : q \in gone => records'[q] = None
        /\ records'[r] = rec
        /\ \A q \in RunId : q \notin gone /\ q # r => records'[q] = records[q]
        /\ \A j \in Key : keyIndex'[j] = IF Free(j) THEN None ELSE index[j]
        /\ \A j \in Key : index[j] = IF j = k THEN r
                                     ELSE IF records[r] # None /\ records[r].key = j
                                          THEN None ELSE keyIndex[j]
    BY <1>1, <1>3 DEF Rekeyed
  <1>8. TypeOK'
    <2>1. records' \in [RunId -> RunRecord \cup {None}]
      BY <1>1, <1>2 DEF LedgerInv, TypeOK
    <2>2. keyIndex' \in [Key -> RunId \cup {None}]
      BY <1>1, <1>5
    <2>3. QED
      BY <1>4, <1>6, <2>1, <2>2 DEF TypeOK
  <1> HIDE DEF rec, index, queue, gone
  <1>9. OrderExact'
    <2>1. \A q \in RunId : records'[q] # None <=> Lists(order', q)
      BY <1>2, <1>3, <1>4, <1>7
    <2>2. QED
      BY <1>4, <2>1 DEF OrderExact, Distinct, Lists
  <1>10. /\ \A j \in Key : keyIndex[j] # None =>
                keyIndex[j] \in RunId /\ records[keyIndex[j]] # None
                  /\ records[keyIndex[j]].key = j
         /\ \A q \in RunId : records[q] # None /\ records[q].key # None =>
                records[q].key \in Key /\ keyIndex[records[q].key] = q
    BY DEF LedgerInv, TypeOK, KeyIndexExact, RunRecord
  <1>11. ASSUME NEW j \in Key, keyIndex'[j] # None
         PROVE  records'[keyIndex'[j]] # None /\ records'[keyIndex'[j]].key = j
    <2>1. ~Free(j) /\ keyIndex'[j] = index[j]
      BY <1>7, <1>11
    <2>2. CASE j = k
      BY <1>2, <1>7, <2>1, <2>2
    <2>3. CASE j # k
      <3>1. keyIndex'[j] = keyIndex[j] /\ keyIndex[j] # None
        BY <1>7, <1>11, <2>1, <2>3
      <3>2. keyIndex[j] # r
        BY <1>7, <1>10, <1>11, <2>1, <2>3, <3>1
      <3>3. keyIndex[j] \notin gone
        BY <1>10, <2>1, <3>1
      <3>4. QED
        BY <1>7, <1>10, <3>1, <3>2, <3>3
    <2>4. QED
      BY <2>2, <2>3
  <1>12. ASSUME NEW q \in RunId, records'[q] # None, records'[q].key # None
         PROVE  keyIndex'[records'[q].key] = q
    <2>1. q \notin gone
      BY <1>7, <1>12
    <2>2. CASE q = r
      <3>1. records'[q].key = k /\ k \in Key /\ keyIndex[k] = None
        BY <1>1, <1>2, <1>7, <1>12, <2>2
      <3>2. ~Free(k)
        BY <1>4, <1>10, <3>1, NoneIsNoValue, LedgerAssumption
      <3>3. QED
        BY <1>7, <2>2, <3>1, <3>2
    <2>3. CASE q # r
      <3>1. records'[q] = records[q]
        BY <1>7, <2>1, <2>3
      <3>2. records[q].key \in Key /\ keyIndex[records[q].key] = q
        BY <1>10, <1>12, <3>1
      <3>3. records[q].key # k
        BY <1>1, <3>2, NoneIsNoValue, LedgerAssumption
      <3>4. ~(records[r] # None /\ records[r].key = records[q].key)
        BY <1>10, <2>3, <3>2, NoneIsNoValue
      <3>5. ~Free(records[q].key)
        BY <1>4, <1>10, <2>1, <3>2, NoneIsNoValue
      <3>6. QED
        BY <1>7, <3>1, <3>2, <3>3, <3>4, <3>5
    <2>4. QED
      BY <2>2, <2>3
  <1>13. KeyIndexExact'
    BY <1>11, <1>12 DEF KeyIndexExact
  <1>14. QED
    BY <1>8, <1>9, <1>13 DEF LedgerInv

\* So does writing a record of the same key with the next revision.
LEMMA WriteInv ==
  ASSUME LedgerInv, NEW w \in Client \cup {None}, NEW r \in RunId, MayWrite(w, r),
         NEW rec \in RunRecord, rec.key = records[r].key, Write(w, r, rec)
  PROVE  LedgerInv'
  <1>1. /\ records' = [records EXCEPT ![r] = rec]
        /\ order' = order /\ keyIndex' = keyIndex
        /\ records[r] # None /\ rec # None
    BY NoneIsNoValue DEF Write, MayWrite
  <1>2. Since(held, {r}, "write") \in [Client -> Held \cup {None}]
    BY SinceType DEF LedgerInv, TypeOK
  <1>3. held' \in [Client -> Held \cup {None}]
    BY <1>2 DEF Write
  <1>4. TypeOK'
    BY <1>1, <1>3 DEF LedgerInv, TypeOK
  <1>5. \A q \in RunId : /\ records'[q] # None <=> records[q] # None
                         /\ records[q] # None => records'[q].key = records[q].key
    BY <1>1 DEF LedgerInv, TypeOK
  <1>6. OrderExact'
    BY <1>1, <1>5 DEF LedgerInv, OrderExact
  <1>7. KeyIndexExact'
    BY <1>1, <1>5, LedgerAssumption DEF LedgerInv, KeyIndexExact, TypeOK
  <1>8. QED
    BY <1>4, <1>6, <1>7 DEF LedgerInv

\* The invariant is inductive.
LEMMA LedgerInvInductive == LedgerInv /\ [Next]_vars => LedgerInv'
  <1> SUFFICES ASSUME LedgerInv, [Next]_vars PROVE LedgerInv'
    OBVIOUS
  <1>1. \A r \in RunId : records[r] # None => records[r] \in RunRecord
    BY DEF LedgerInv, TypeOK
  <1>2. ASSUME NEW r \in RunId, NEW k \in Key \cup {None}, RecordStart(r, k)
        PROVE  LedgerInv'
    BY <1>2, RecordStartInv
  <1>3. ASSUME NEW r \in RunId, NEW c \in Client, Read(c, r)
        PROVE  LedgerInv'
    <2>1. held' \in [Client -> Held \cup {None}]
      BY <1>1, <1>3 DEF LedgerInv, TypeOK, Read, Held, RunRecord
    <2>2. records' = records /\ order' = order /\ keyIndex' = keyIndex
      BY <1>3 DEF Read
    <2>3. QED
      BY <2>1, <2>2 DEF LedgerInv, TypeOK, KeyIndexExact, OrderExact
  <1>4. ASSUME NEW r \in RunId, NEW w \in Client \cup {None}, NEW s \in Marks,
               NEW es \in RunState \cup {None}, Mark(w, r, s, es)
        PROVE  LedgerInv'
    BY <1>1, <1>4, MarkedType, WriteInv, LedgerAssumption DEF Mark, MayWrite
  <1>5. ASSUME NEW r \in RunId, NEW w \in Client \cup {None}, NEW p \in Phase,
               NEW o \in Outcomes, NEW c \in Ctx \cup {None},
               RecordPhase(w, r, p, o, c)
        PROVE  LedgerInv'
    BY <1>1, <1>5, PhaseRecordedType, WriteInv, LedgerAssumption DEF RecordPhase, MayWrite
  <1>6. ASSUME NEW r \in RunId, NEW w \in Client \cup {None},
               NEW amount \in Cost \cup {None}, RecordCostAttribution(w, r, amount)
        PROVE  LedgerInv'
    BY <1>1, <1>6, CostRecordedType, WriteInv DEF RecordCostAttribution, MayWrite
  <1>7. CASE UNCHANGED vars
    BY <1>7 DEF vars, LedgerInv, TypeOK, KeyIndexExact, OrderExact
  <1>8. QED
    BY <1>2, <1>3, <1>4, <1>5, <1>6, <1>7 DEF Next

\* The empty ledger satisfies it.
LEMMA LedgerInvInit == Init => LedgerInv
  <1> SUFFICES ASSUME Init PROVE LedgerInv
    OBVIOUS
  <1>1. TypeOK
    BY DEF Init, TypeOK
  <1>2. KeyIndexExact /\ OrderExact
    BY LedgerAssumption DEF Init, KeyIndexExact, OrderExact
  <1>3. QED
    BY <1>1, <1>2 DEF LedgerInv

\* The ledger's invariant holds always.
LEMMA LedgerInvariant == Spec => []LedgerInv
  BY LedgerInvInit, LedgerInvInductive, PTL DEF Spec

-----------------------------------------------------------------------------
\* The state is always well typed.
THEOREM TypeCorrect == Spec => []TypeOK
  <1>1. LedgerInv => TypeOK
    BY DEF LedgerInv
  <1>2. QED
    BY <1>1, LedgerInvariant, PTL

\* The key index never dangles and never misses a record, whatever sequence
\* of starts, re-keyings and evictions the callers produce.
THEOREM KeyIndexCorrect == Spec => []KeyIndexExact
  <1>1. LedgerInv => KeyIndexExact
    BY DEF LedgerInv
  <1>2. QED
    BY <1>1, LedgerInvariant, PTL

\* The insertion order lists the held runs exactly once, within capacity.
THEOREM OrderCorrect == Spec => []OrderExact
  <1>1. LedgerInv => OrderExact
    BY DEF LedgerInv
  <1>2. QED
    BY <1>1, LedgerInvariant, PTL

-----------------------------------------------------------------------------
(* Revisions. RevisionCountsWrites is [][RevisionStep]_vars.               *)

RevisionStep ==
  \A r \in RunId :
    records[r] # None /\ records'[r] # None /\ records'[r] # records[r]
      => records'[r].rev = records[r].rev + 1

\* A write through Write bumps the revision of its run and of no other.
LEMMA WriteRevision ==
  ASSUME TypeOK, NEW w, NEW r \in RunId, NEW rec, rec.rev = records[r].rev + 1,
         Write(w, r, rec)
  PROVE  RevisionStep
  BY DEF Write, TypeOK, RevisionStep

\* Every step bumps the revision of what it changes.
LEMMA StepRevision == TypeOK /\ [Next]_vars => RevisionStep
  <1> SUFFICES ASSUME TypeOK, [Next]_vars PROVE RevisionStep
    OBVIOUS
  <1>1. \A r \in RunId : records[r] # None => records[r] \in RunRecord
    BY DEF TypeOK
  <1>2. ASSUME NEW r \in RunId, NEW k \in Key \cup {None}, RecordStart(r, k)
        PROVE  RevisionStep
    <2>1. ASSUME NEW q \in RunId, records[q] # None, records'[q] # None,
                 records'[q] # records[q]
          PROVE  records'[q].rev = records[q].rev + 1
      <3>1. q = r /\ records'[q] = Started(records[r], k)
        BY <1>2, <2>1 DEF RecordStart
      <3>2. QED
        BY <1>1, <2>1, <3>1 DEF Started, RunRecord
    <2>2. QED
      BY <2>1 DEF RevisionStep
  <1>3. ASSUME NEW r \in RunId, NEW c \in Client, Read(c, r)
        PROVE  RevisionStep
    BY <1>3 DEF Read, RevisionStep
  <1>4. ASSUME NEW r \in RunId, NEW w \in Client \cup {None}, NEW s \in Marks,
               NEW es \in RunState \cup {None}, Mark(w, r, s, es)
        PROVE  RevisionStep
    BY <1>1, <1>4, MarkedType, WriteRevision, LedgerAssumption DEF Mark, MayWrite
  <1>5. ASSUME NEW r \in RunId, NEW w \in Client \cup {None}, NEW p \in Phase,
               NEW o \in Outcomes, NEW c \in Ctx \cup {None},
               RecordPhase(w, r, p, o, c)
        PROVE  RevisionStep
    BY <1>1, <1>5, PhaseRecordedType, WriteRevision, LedgerAssumption DEF RecordPhase, MayWrite
  <1>6. ASSUME NEW r \in RunId, NEW w \in Client \cup {None},
               NEW amount \in Cost \cup {None}, RecordCostAttribution(w, r, amount)
        PROVE  RevisionStep
    BY <1>1, <1>6, CostRecordedType, WriteRevision DEF RecordCostAttribution, MayWrite
  <1>7. CASE UNCHANGED vars
    BY <1>7 DEF vars, RevisionStep
  <1>8. QED
    BY <1>2, <1>3, <1>4, <1>5, <1>6, <1>7 DEF Next

\* No write of a held record goes uncounted: the basis of expected_revision.
THEOREM RevisionCorrect == Spec => RevisionCountsWrites
  <1>1. TypeOK /\ [Next]_vars => [RevisionStep]_vars
    BY StepRevision
  <1>2. Spec => [][RevisionStep]_vars
    BY <1>1, TypeCorrect, PTL DEF Spec
  <1>3. QED
    BY <1>2 DEF RevisionCountsWrites, RevisionStep

-----------------------------------------------------------------------------
(* Compared writes. What a client holds is, until the run is evicted, no   *)
(* newer than the record, and older as soon as somebody has written it.    *)

HeldKnown ==
  \A c \in Client : held[c] # None /\ held[c].since # "eviction" =>
    /\ records[held[c].run] # None
    /\ held[c].since = "nothing" => records[held[c].run].rev = held[c].rev
    /\ held[c].since = "write" => records[held[c].run].rev > held[c].rev

\* A write of the next revision keeps what is held known.
LEMMA WriteHeld ==
  ASSUME TypeOK, HeldKnown, NEW w \in Client \cup {None}, NEW r \in RunId, MayWrite(w, r),
         NEW rec \in RunRecord, rec.rev = records[r].rev + 1, Write(w, r, rec)
  PROVE  HeldKnown'
  <1>1. /\ records' = [records EXCEPT ![r] = rec] /\ records[r] \in RunRecord
        /\ \A c \in Client : held'[c] = None \/ held'[c] = Since(held, {r}, "write")[c]
    BY DEF Write, MayWrite, TypeOK
  <1>2. SUFFICES ASSUME NEW c \in Client, held'[c] # None, held'[c].since # "eviction"
                 PROVE  /\ records'[held'[c].run] # None
                        /\ held'[c].since = "nothing" =>
                             records'[held'[c].run].rev = held'[c].rev
                        /\ held'[c].since = "write" =>
                             records'[held'[c].run].rev > held'[c].rev
    BY DEF HeldKnown
  <1>3. held'[c] = Since(held, {r}, "write")[c]
    BY <1>1, <1>2
  <1>4. held[c] \in Held
    BY <1>2, <1>3 DEF Since, TypeOK
  <1>5. rec # None /\ rec.rev > records[r].rev /\ records[r].rev \in Nat
    BY <1>1, NoneIsNoValue DEF RunRecord
  <1>6. CASE held[c].run = r
    <2>1. held'[c].run = r /\ held'[c].rev = held[c].rev /\ held'[c].since = "write"
      BY <1>2, <1>3, <1>4, <1>6 DEF Since, Held
    <2>2. held[c].since # "eviction" /\ held[c].rev \in Nat /\ held[c] # None
      BY <1>2, <1>3, <1>4, <1>6 DEF Since, Held
    <2>3. records[r].rev >= held[c].rev
      BY <1>4, <1>5, <1>6, <2>2 DEF HeldKnown, Held
    <2>4. records'[r] = rec
      BY <1>1 DEF TypeOK
    <2>5. QED
      BY <1>5, <2>1, <2>2, <2>3, <2>4
  <1>7. CASE held[c].run # r
    <2>1. held'[c] = held[c] /\ held[c] # None /\ held[c].run \in RunId
      BY <1>2, <1>3, <1>4, <1>7 DEF Since, Held
    <2>2. records'[held[c].run] = records[held[c].run]
      BY <1>1, <1>7, <2>1 DEF TypeOK
    <2>3. QED
      BY <1>2, <2>1, <2>2 DEF HeldKnown
  <1>8. QED
    BY <1>6, <1>7

\* So does record_start, with the run it writes and the one it may evict.
LEMMA RecordStartHeld ==
  ASSUME LedgerInv, HeldKnown, NEW r \in RunId, NEW k \in Key \cup {None}, RecordStart(r, k)
  PROVE  HeldKnown'
  <1> DEFINE rec   == Started(records[r], k)
             queue == IF records[r] = None THEN Append(order, r) ELSE order
             gone  == Victims(queue)
             mid   == Since(held, {r}, "write")
  <1>1. /\ records' = [q \in RunId |-> IF q \in gone THEN None
                                       ELSE IF q = r THEN rec ELSE records[q]]
        /\ held' = Since(mid, gone, "eviction")
    BY DEF RecordStart
  <1>2. /\ records \in [RunId -> RunRecord \cup {None}]
        /\ held \in [Client -> Held \cup {None}]
        /\ mid \in [Client -> Held \cup {None}]
    BY SinceType DEF LedgerInv, TypeOK
  <1>3. records[r] # None => rec.rev = records[r].rev + 1 /\ records[r].rev \in Nat
    BY <1>2 DEF Started, RunRecord
  <1>4. rec # None
    BY <1>2, StartedType, NoneIsNoValue
  <1> HIDE DEF rec, queue, gone, mid
  <1>5. SUFFICES ASSUME NEW c \in Client, held'[c] # None, held'[c].since # "eviction"
                 PROVE  /\ records'[held'[c].run] # None
                        /\ held'[c].since = "nothing" =>
                             records'[held'[c].run].rev = held'[c].rev
                        /\ held'[c].since = "write" =>
                             records'[held'[c].run].rev > held'[c].rev
    BY DEF HeldKnown
  <1>6. held'[c] = mid[c] /\ mid[c] # None /\ mid[c] \in Held /\ mid[c].run \notin gone
    BY <1>1, <1>2, <1>5 DEF Since, Held
  <1>7. held[c] # None /\ held[c] \in Held
    BY <1>2, <1>6 DEF Since, mid
  <1>8. CASE held[c].run = r
    <2>1. mid[c].run = r /\ mid[c].rev = held[c].rev /\ mid[c].since = "write"
      BY <1>5, <1>6, <1>7, <1>8 DEF Since, Held, mid
    <2>2. held[c].since # "eviction" /\ held[c].rev \in Nat
      BY <1>5, <1>6, <1>7, <1>8 DEF Since, Held, mid
    <2>3. records[r] # None /\ records[r].rev >= held[c].rev
      <3>1. /\ records[r] # None
            /\ held[c].since = "nothing" => records[r].rev = held[c].rev
            /\ held[c].since = "write" => records[r].rev > held[c].rev
        BY <1>7, <1>8, <2>2 DEF HeldKnown
      <3>2. records[r].rev \in Nat
        BY <1>3, <3>1
      <3>3. QED
        BY <1>7, <2>2, <3>1, <3>2 DEF Held
    <2>4. records'[r] = rec
      BY <1>1, <1>6, <2>1
    <2>5. QED
      BY <1>3, <1>4, <1>6, <2>1, <2>2, <2>3, <2>4
  <1>9. CASE held[c].run # r
    <2>1. mid[c] = held[c] /\ held[c].run \in RunId
      BY <1>2, <1>7, <1>9 DEF Since, Held, mid
    <2>2. records'[held[c].run] = records[held[c].run]
      BY <1>1, <1>6, <1>9, <2>1
    <2>3. QED
      BY <1>5, <1>6, <1>7, <2>1, <2>2 DEF HeldKnown
  <1>10. QED
    BY <1>8, <1>9

\* Every step keeps HeldKnown.
LEMMA HeldKnownInductive ==
  ASSUME LedgerInv, HeldKnown, [Next]_vars
  PROVE  HeldKnown'
  <1>1. TypeOK /\ (\A r \in RunId : records[r] # None => records[r] \in RunRecord)
    BY DEF LedgerInv, TypeOK
  <1>2. ASSUME NEW r \in RunId, NEW k \in Key \cup {None}, RecordStart(r, k)
        PROVE  HeldKnown'
    BY <1>2, RecordStartHeld
  <1>3. ASSUME NEW r \in RunId, NEW d \in Client, Read(d, r)
        PROVE  HeldKnown'
    <2>1. /\ records' = records /\ records[r] # None
          /\ held' = [held EXCEPT ![d] = [run |-> r, rev |-> records[r].rev,
                                          since |-> "nothing"]]
      BY <1>3 DEF Read
    <2>2. QED
      BY <1>1, <2>1 DEF HeldKnown, TypeOK
  <1>4. ASSUME NEW r \in RunId, NEW w \in Client \cup {None}, NEW s \in Marks,
               NEW es \in RunState \cup {None}, Mark(w, r, s, es)
        PROVE  HeldKnown'
    BY <1>1, <1>4, MarkedType, WriteHeld, LedgerAssumption DEF Mark, MayWrite
  <1>5. ASSUME NEW r \in RunId, NEW w \in Client \cup {None}, NEW p \in Phase,
               NEW o \in Outcomes, NEW c \in Ctx \cup {None},
               RecordPhase(w, r, p, o, c)
        PROVE  HeldKnown'
    BY <1>1, <1>5, PhaseRecordedType, WriteHeld, LedgerAssumption DEF RecordPhase, MayWrite
  <1>6. ASSUME NEW r \in RunId, NEW w \in Client \cup {None},
               NEW amount \in Cost \cup {None}, RecordCostAttribution(w, r, amount)
        PROVE  HeldKnown'
    BY <1>1, <1>6, CostRecordedType, WriteHeld DEF RecordCostAttribution, MayWrite
  <1>7. CASE UNCHANGED vars
    BY <1>7 DEF vars, HeldKnown
  <1>8. QED
    BY <1>2, <1>3, <1>4, <1>5, <1>6, <1>7 DEF Next

\* A client that has used up its read has passed the comparison of MayWrite.
LEMMA UsedUp ==
  ASSUME LedgerInv, [Next]_vars, NEW c \in Client, held[c] # None, held'[c] = None
  PROVE  records[held[c].run] # None /\ held[c].rev = records[held[c].run].rev
  <1>1. /\ held \in [Client -> Held \cup {None}] /\ c # None
        /\ \A r \in RunId : records[r] # None => records[r] \in RunRecord
    BY LedgerAssumption DEF LedgerInv, TypeOK
  <1>2. ASSUME NEW h \in [Client -> Held \cup {None}], NEW S, NEW e \in {"write", "eviction"},
               h[c] # None
        PROVE  Since(h, S, e)[c] # None
    <2>1. h[c] \in Held
      BY <1>2
    <2>2. [h[c] EXCEPT !.since = e] \in Held
      BY <2>1 DEF Held
    <2>3. QED
      BY <1>2, <2>2, LedgerAssumption DEF Since
  <1>3. ASSUME NEW r \in RunId, NEW k \in Key \cup {None}, RecordStart(r, k)
        PROVE  FALSE
    <2> DEFINE mid == Since(held, {r}, "write")
    <2>1. mid \in [Client -> Held \cup {None}] /\ mid[c] # None
      BY <1>1, <1>2, SinceType
    <2>2. \E S : held' = Since(mid, S, "eviction")
      BY <1>3 DEF RecordStart
    <2> HIDE DEF mid
    <2>3. QED
      BY <1>2, <2>1, <2>2
  <1>4. ASSUME NEW r \in RunId, NEW d \in Client, Read(d, r)
        PROVE  FALSE
    <2>1. /\ held' = [held EXCEPT ![d] = [run |-> r, rev |-> records[r].rev,
                                          since |-> "nothing"]]
          /\ records[r].rev \in Nat \ {0}
      BY <1>1, <1>4 DEF Read, RunRecord
    <2>2. [run |-> r, rev |-> records[r].rev, since |-> "nothing"] # None
      BY <2>1, LedgerAssumption DEF Held
    <2>3. QED
      BY <1>1, <2>1, <2>2
  <1>5. ASSUME NEW w \in Client \cup {None}, NEW r \in RunId, NEW rec, MayWrite(w, r),
               Write(w, r, rec)
        PROVE  records[held[c].run] # None /\ held[c].rev = records[held[c].run].rev
    <2>1. held'[c] = IF c = w THEN None ELSE Since(held, {r}, "write")[c]
      BY <1>5 DEF Write
    <2>2. c = w
      BY <1>1, <1>2, <2>1
    <2>3. QED
      BY <1>1, <1>5, <2>2 DEF MayWrite
  <1>6. CASE UNCHANGED vars
    BY <1>6 DEF vars
  <1>7. QED
    BY <1>3, <1>4, <1>5, <1>6 DEF Next, Mark, RecordPhase, RecordCostAttribution

\* While a run stays in the ledger, expected_revision excludes lost updates
\* among any number of clients.
THEOREM NoStaleWriteCorrect == Spec => NoStaleWrite
  <1> DEFINE Unseen(c) == held[c] # None /\ held'[c] = None /\ held[c].since = "write"
  <1>1. Init => HeldKnown
    BY DEF Init, HeldKnown
  <1>2. LedgerInv /\ HeldKnown /\ [Next]_vars => HeldKnown'
    BY HeldKnownInductive
  <1>3. LedgerInv /\ HeldKnown /\ [Next]_vars => \A c \in Client : ~Unseen(c)
    <2> SUFFICES ASSUME LedgerInv, HeldKnown, [Next]_vars, NEW c \in Client, Unseen(c)
                 PROVE  FALSE
      OBVIOUS
    <2>1. held[c].rev = records[held[c].run].rev
      BY UsedUp
    <2>2. records[held[c].run].rev > held[c].rev
      BY DEF HeldKnown
    <2>3. held[c] \in Held
      BY DEF LedgerInv, TypeOK
    <2>4. QED
      BY <2>1, <2>2, <2>3 DEF Held
  <1>4. LedgerInv /\ HeldKnown /\ [Next]_vars
          => [\A c \in Client :
                held[c] # None /\ held'[c] = None => held[c].since # "write"]_vars
    BY <1>3
  <1>5. QED
    BY <1>1, <1>2, <1>4, LedgerInvariant, PTL DEF Spec, NoStaleWrite

-----------------------------------------------------------------------------
(* The cursor.                                                             *)

\* A cursor that a phase has just left agrees with itself.
LEMMA CursorAgrees ==
  ASSUME NEW old, NEW p, NEW o, NEW cur, cur = NextCursor(old, p, o)
  PROVE  /\ cur.outcome \in Completing => cur.last = cur.current /\ cur.failed = None
         /\ cur.outcome \notin Completing => cur.failed = cur.current
  BY DEF NextCursor

\* Every step keeps cursor and phase string coherent.
LEMMA CursorInductive ==
  ASSUME TypeOK, CursorCoherent, [Next]_vars
  PROVE  CursorCoherent'
  <1>1. \A r \in RunId : records[r] # None => records[r] \in RunRecord
    BY DEF TypeOK
  <1> DEFINE Coherent(rec) ==
        rec.cursor # None =>
          /\ rec.cursor.outcome \in Completing =>
               rec.cursor.last = rec.cursor.current /\ rec.cursor.failed = None
          /\ rec.cursor.outcome \notin Completing => rec.cursor.failed = rec.cursor.current
          /\ rec.phase = PhaseView(rec.cursor)
  <1>2. \A r \in RunId : records[r] # None => Coherent(records[r])
    BY DEF CursorCoherent
  <1>3. ASSUME \A r \in RunId : records'[r] = None \/ records'[r] = records[r]
                                  \/ Coherent(records'[r])
        PROVE  CursorCoherent'
    BY <1>2, <1>3 DEF CursorCoherent
  <1>4. ASSUME NEW w, NEW r \in RunId, NEW rec, Coherent(rec), Write(w, r, rec)
        PROVE  CursorCoherent'
    <2>1. records' = [records EXCEPT ![r] = rec]
      BY <1>4 DEF Write
    <2> HIDE DEF Coherent
    <2>2. QED
      BY <1>3, <1>4, <2>1 DEF TypeOK
  <1>5. ASSUME NEW r \in RunId, NEW k \in Key \cup {None}, RecordStart(r, k)
        PROVE  CursorCoherent'
    <2>1. Started(records[r], k).cursor = None
      BY <1>1 DEF Started, NewRecord, RunRecord
    <2>2. \A q \in RunId : records'[q] = None \/ records'[q] = records[q]
                             \/ records'[q] = Started(records[r], k)
      BY <1>5 DEF RecordStart
    <2>3. QED
      BY <1>3, <2>1, <2>2
  <1>6. ASSUME NEW r \in RunId, NEW w \in Client \cup {None}, NEW s \in Marks,
               NEW es \in RunState \cup {None}, Mark(w, r, s, es)
        PROVE  CursorCoherent'
    <2>1. Coherent(Marked(records[r], s))
      BY <1>1, <1>2, <1>6, MarkedType, LedgerAssumption DEF Mark, MayWrite
    <2> HIDE DEF Coherent
    <2>2. QED
      BY <1>4, <1>6, <2>1 DEF Mark
  <1>7. ASSUME NEW r \in RunId, NEW w \in Client \cup {None}, NEW p \in Phase,
               NEW o \in Outcomes, NEW c \in Ctx \cup {None},
               RecordPhase(w, r, p, o, c)
        PROVE  CursorCoherent'
    <2>1. records[r] \in RunRecord
      BY <1>1, <1>7 DEF RecordPhase, MayWrite
    <2>2. Coherent(PhaseRecorded(records[r], p, o, c))
      BY <2>1, PhaseRecordedType, CursorAgrees, LedgerAssumption
    <2> HIDE DEF Coherent
    <2>3. QED
      BY <1>4, <1>7, <2>2 DEF RecordPhase
  <1>8. ASSUME NEW r \in RunId, NEW w \in Client \cup {None},
               NEW amount \in Cost \cup {None}, RecordCostAttribution(w, r, amount)
        PROVE  CursorCoherent'
    <2>1. Coherent(CostRecorded(records[r], amount))
      BY <1>1, <1>2, <1>8, CostRecordedType DEF RecordCostAttribution, MayWrite
    <2> HIDE DEF Coherent
    <2>2. QED
      BY <1>4, <1>8, <2>1 DEF RecordCostAttribution
  <1>9. ASSUME UNCHANGED records PROVE CursorCoherent'
    BY <1>9 DEF CursorCoherent
  <1>10. QED
    BY <1>5, <1>6, <1>7, <1>8, <1>9 DEF Next, Read, vars

\* Cursor and phase string agree after any sequence of calls.
THEOREM CursorCorrect == Spec => []CursorCoherent
  <1>1. Init => CursorCoherent
    BY DEF Init, CursorCoherent
  <1>2. QED
    BY <1>1, CursorInductive, TypeCorrect, PTL DEF Spec

=============================================================================
