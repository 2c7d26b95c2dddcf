-------------------------- MODULE FileLedgerProofs --------------------------
(***************************************************************************)
(* The durable ledger for any runs and any length of the file: what a      *)
(* replay returns after each way an append may change the file, which      *)
(* gives type correctness, durability and, for one process, that the       *)
(* ledger implements DurableLedger until an append fails or tears.         *)
(***************************************************************************)
EXTENDS FileLedger, WellFoundedInduction, TLAPS

-----------------------------------------------------------------------------
(* Replaying a file. The library's induction theorems need an operator as  *)
(* parameter; a least counterexample does without.                         *)

\* A set of numbers that is not empty has a least element.
LEMMA LeastElement ==
  ASSUME NEW T \in SUBSET Nat, T # {}
  PROVE  \E n \in T : \A m \in T : n <= m
  <1> DEFINE Less == {ss \in Nat \X Nat : ss[1] < ss[2]}
  <1>1. IsWellFoundedOn(Less, Nat)
    BY NatLessThanWellFounded DEF OpToRel
  <1>2. PICK n \in T : \A m \in T : <<m, n>> \notin Less
    BY <1>1, WFMin
  <1>3. ASSUME NEW m \in T PROVE n <= m
    <2>1. n \in Nat /\ m \in Nat /\ <<m, n>> \in Nat \X Nat /\ <<m, n>> \notin Less
      BY <1>2
    <2>2. ~(m < n)
      BY <2>1
    <2>3. QED
      BY <2>1, <2>2
  <1>4. QED
    BY <1>3

Empty == [r \in RunId |-> None]

\* g is the sequence of indexes after each of the first m lines of f.
Steps(g, f, m) ==
  g = [n \in 0..m |-> IF n = 0 THEN Empty ELSE Applied(g[n - 1], f[n])]

\* There is such a sequence for every file.
LEMMA StepsExist ==
  ASSUME NEW f, Len(f) \in Nat
  PROVE  \E g : Steps(g, f, Len(f))
  <1> DEFINE T == {m \in 0..Len(f) : ~\E g : Steps(g, f, m)}
  <1>1. CASE T = {}
    BY <1>1
  <1>2. CASE T # {}
    <2> HIDE DEF T
    <2>1. PICK m \in T : \A k \in T : m <= k
      <3>1. T \in SUBSET Nat
        BY DEF T
      <3>2. QED
        BY <1>2, <3>1, LeastElement
    <2> USE DEF T
    <2>2. CASE m = 0
      <3>1. \A n \in 0..0 : n = 0
        OBVIOUS
      <3>2. Steps([n \in 0..0 |-> Empty], f, 0)
        BY <3>1 DEF Steps
      <3>3. QED
        BY <2>1, <2>2, <3>2
    <2>3. CASE m # 0
      <3>1. m - 1 \in 0..Len(f) /\ m - 1 \notin T
        BY <2>1, <2>3
      <3>2. PICK g : Steps(g, f, m - 1)
        BY <3>1
      <3> DEFINE h == [n \in 0..m |-> IF n < m THEN g[n] ELSE Applied(g[m - 1], f[m])]
      <3>3. ASSUME NEW n \in 0..m
            PROVE  h[n] = IF n = 0 THEN Empty ELSE Applied(h[n - 1], f[n])
        <4>1. CASE n = 0
          BY <2>3, <3>2, <4>1 DEF Steps
        <4>2. CASE n # 0
          <5>1. n - 1 \in 0..m /\ n - 1 < m /\ h[n - 1] = g[n - 1]
            BY <4>2
          <5>2. CASE n < m
            <6>1. n \in 0..(m - 1)
              BY <3>1, <5>2
            <6>2. g[n] = Applied(g[n - 1], f[n])
              BY <3>2, <4>2, <6>1 DEF Steps
            <6>3. QED
              BY <4>2, <5>1, <5>2, <6>2
          <5>3. CASE n = m
            BY <4>2, <5>1, <5>3
          <5>4. QED
            BY <5>2, <5>3
        <4>3. QED
          BY <4>1, <4>2
      <3>4. Steps(h, f, m)
        BY <3>3 DEF Steps
      <3>5. QED
        BY <2>1, <3>4
    <2>4. QED
      BY <2>2, <2>3
  <1>3. QED
    BY <1>1, <1>2

\* Two files with the same first n lines have the same indexes after them.
LEMMA StepsAgree ==
  ASSUME NEW f, NEW g, NEW a, NEW b, NEW m \in Nat, NEW k \in Nat, NEW n \in Nat,
         Steps(a, f, m), Steps(b, g, k), n <= m, n <= k,
         \A i \in 1..n : f[i] = g[i]
  PROVE  a[n] = b[n]
  <1> DEFINE T == {j \in 0..n : a[j] # b[j]}
  <1>1. CASE T = {}
    BY <1>1
  <1>2. CASE T # {}
    <2> HIDE DEF T
    <2>1. PICK j \in T : \A i \in T : j <= i
      <3>1. T \in SUBSET Nat
        BY DEF T
      <3>2. QED
        BY <1>2, <3>1, LeastElement
    <2> USE DEF T
    <2>2. j \in 0..m /\ j \in 0..k
      OBVIOUS
    <2>3. CASE j = 0
      BY <2>1, <2>2, <2>3 DEF Steps
    <2>4. CASE j # 0
      <3>1. j - 1 \in 0..n /\ j - 1 \notin T
        BY <2>1, <2>4
      <3>2. a[j - 1] = b[j - 1] /\ f[j] = g[j]
        BY <2>1, <2>4, <3>1
      <3>3. a[j] = Applied(a[j - 1], f[j]) /\ b[j] = Applied(b[j - 1], g[j])
        BY <2>2, <2>4 DEF Steps
      <3>4. QED
        BY <2>1, <3>2, <3>3
    <2>5. QED
      BY <2>3, <2>4
  <1>3. QED
    BY <1>1, <1>2

\* So After is what it looks like: the recursion it is defined by has a solution.
LEMMA AfterSteps ==
  ASSUME NEW f, Len(f) \in Nat
  PROVE  /\ Steps(After(f), f, Len(f))
         /\ After(f)[0] = Empty
         /\ \A n \in 1..Len(f) : After(f)[n] = Applied(After(f)[n - 1], f[n])
  <1>1. After(f) = CHOOSE g : Steps(g, f, Len(f))
    BY DEF After, Steps, Empty
  <1>2. Steps(After(f), f, Len(f))
    BY <1>1, StepsExist
  <1>3. QED
    BY <1>2 DEF Steps

\* The replay of a file is the index after its n readable lines.
LEMMA ReplayIs ==
  ASSUME NEW f, Len(f) \in Nat, NEW n \in Readable(f),
         n = Len(f) \/ f[n + 1] = Garbage
  PROVE  Replay(f) = After(f)[n]
  <1>1. \A m \in Readable(f) : m <= n
    BY DEF Readable
  <1>2. \A k \in Readable(f) : (\A m \in Readable(f) : m <= k) => k = n
    BY <1>1 DEF Readable
  <1>3. (CHOOSE k \in Readable(f) : \A m \in Readable(f) : m <= k) = n
    BY <1>1, <1>2
  <1>4. QED
    BY <1>3 DEF Replay

\* There is such an n.
LEMMA ReadableEnd ==
  ASSUME NEW f, Len(f) \in Nat
  PROVE  \E n \in Readable(f) : n = Len(f) \/ f[n + 1] = Garbage
  <1> DEFINE T == {m \in 1..Len(f) : f[m] = Garbage}
  <1>1. CASE T = {}
    <2>1. Len(f) \in Readable(f)
      BY <1>1 DEF Readable
    <2>2. QED
      BY <2>1
  <1>2. CASE T # {}
    <2> HIDE DEF T
    <2>1. PICK m \in T : \A k \in T : m <= k
      <3>1. T \in SUBSET Nat
        BY DEF T
      <3>2. QED
        BY <1>2, <3>1, LeastElement
    <2> USE DEF T
    <2>2. m - 1 \in Readable(f)
      BY <2>1 DEF Readable
    <2>3. QED
      BY <2>1, <2>2
  <1>3. QED
    BY <1>1, <1>2

\* A new ledger knows no run.
LEMMA ReplayEmpty == Replay(<<>>) = Empty
  <1>1. Len(<<>>) = 0 /\ 0 \in Readable(<<>>)
    BY DEF Readable
  <1>2. QED
    BY <1>1, AfterSteps, ReplayIs

Clean(f) == \A i \in 1..Len(f) : f[i] # Garbage

\* A line that is appended counts unless it, or a line before it, does not decode.
LEMMA ReplayAppend ==
  ASSUME NEW S, NEW f \in Seq(S), NEW line \in S
  PROVE  Replay(Append(f, line)) =
           IF Clean(f) /\ line # Garbage THEN Applied(Replay(f), line) ELSE Replay(f)
  <1> DEFINE g == Append(f, line)
  <1>1. /\ Len(f) \in Nat /\ Len(g) = Len(f) + 1 /\ g[Len(f) + 1] = line
        /\ \A i \in 1..Len(f) : g[i] = f[i]
    OBVIOUS
  <1> HIDE DEF g
  <1>2. PICK n \in Readable(f) : n = Len(f) \/ f[n + 1] = Garbage
    BY <1>1, ReadableEnd
  <1>3. n \in Nat /\ n <= Len(f) /\ \A i \in 1..n : f[i] = g[i]
    BY <1>1, <1>2 DEF Readable
  <1>4. n \in Readable(g)
    BY <1>1, <1>2, <1>3 DEF Readable
  <1>5. Replay(f) = After(f)[n]
    BY <1>1, <1>2, ReplayIs
  <1>6. After(f)[n] = After(g)[n]
    <2>1. Steps(After(f), f, Len(f)) /\ Steps(After(g), g, Len(g)) /\ Len(g) \in Nat
      BY <1>1, AfterSteps
    <2>2. n <= Len(g)
      BY <1>1, <1>3
    <2>3. QED
      BY <1>1, <1>3, <2>1, <2>2, StepsAgree
  <1>7. CASE Clean(f) /\ line # Garbage
    <2>1. n = Len(f)
      BY <1>1, <1>2, <1>3, <1>7 DEF Clean
    <2>2. Len(g) \in Readable(g)
      BY <1>1, <1>7 DEF Readable, Clean
    <2>3. Replay(g) = After(g)[Len(g)]
      BY <1>1, <2>2, ReplayIs
    <2>4. After(g)[Len(g)] = Applied(After(g)[n], line)
      BY <1>1, <2>1, AfterSteps
    <2>5. QED
      BY <1>5, <1>6, <1>7, <2>3, <2>4 DEF g
  <1>8. CASE ~(Clean(f) /\ line # Garbage)
    <2>1. g[n + 1] = Garbage
      <3>1. CASE n = Len(f)
        BY <1>1, <1>2, <1>8, <3>1 DEF Clean, Readable
      <3>2. CASE n # Len(f)
        BY <1>1, <1>2, <1>3, <3>2
      <3>3. QED
        BY <3>1, <3>2
    <2>2. Replay(g) = After(g)[n]
      BY <1>1, <1>4, <2>1, ReplayIs
    <2>3. QED
      BY <1>5, <1>6, <1>8, <2>2 DEF g
  <1>9. QED
    BY <1>7, <1>8

\* The file without its last line.
Butlast(f) == [i \in 1..(Len(f) - 1) |-> f[i]]

\* What an append leaves of an unterminated last line replays as if that line
\* had never been there.
LEMMA ReplaySpoilt ==
  ASSUME NEW S, NEW f \in Seq(S), f # <<>>
  PROVE  /\ Replay([f EXCEPT ![Len(f)] = Garbage]) = Replay(Butlast(f))
         /\ Butlast([f EXCEPT ![Len(f)] = Garbage]) = Butlast(f)
         /\ ~Clean([f EXCEPT ![Len(f)] = Garbage])
  <1> DEFINE g == [f EXCEPT ![Len(f)] = Garbage]
             b == Butlast(f)
  <1>1. /\ Len(f) \in Nat \ {0} /\ Len(g) = Len(f) /\ g[Len(f)] = Garbage
        /\ \A i \in 1..(Len(f) - 1) : g[i] = f[i]
    OBVIOUS
  <1>2. /\ Len(b) = Len(f) - 1
        /\ \A i \in 1..(Len(f) - 1) : b[i] = f[i]
    <2> HIDE DEF g
    <2>1. Len(f) - 1 \in Nat /\ b \in [1..(Len(f) - 1) -> S]
      <3>1. Len(f) - 1 \in Nat /\ \A i \in 1..(Len(f) - 1) : f[i] \in S
        BY <1>1
      <3>2. QED
        BY <3>1 DEF Butlast
    <2>2. b \in Seq(S)
      BY <2>1
    <2>3. DOMAIN b = 1..(Len(f) - 1) /\ DOMAIN b = 1..Len(b) /\ Len(b) \in Nat
      BY <2>1, <2>2
    <2>4. QED
      BY <2>1, <2>3 DEF Butlast
  <1>3. Butlast(g) = b
    BY <1>1, <1>2 DEF Butlast
  <1> HIDE DEF g, b
  <1>4. PICK n \in Readable(b) : n = Len(b) \/ b[n + 1] = Garbage
    BY <1>1, <1>2, ReadableEnd
  <1>5. n \in Nat /\ n <= Len(b) /\ \A i \in 1..n : b[i] = g[i]
    BY <1>1, <1>2, <1>4 DEF Readable
  <1>6. n \in Readable(g)
    BY <1>1, <1>2, <1>4, <1>5 DEF Readable
  <1>7. g[n + 1] = Garbage
    BY <1>1, <1>2, <1>4, <1>5
  <1>8. After(b)[n] = After(g)[n]
    <2>1. Steps(After(b), b, Len(b)) /\ Steps(After(g), g, Len(g))
      BY <1>1, <1>2, AfterSteps
    <2>2. n <= Len(g) /\ Len(b) \in Nat /\ Len(g) \in Nat
      BY <1>1, <1>2, <1>5
    <2>3. QED
      BY <1>5, <2>1, <2>2, StepsAgree
  <1>9. Replay(b) = After(b)[n] /\ Replay(g) = After(g)[n]
    BY <1>1, <1>2, <1>4, <1>6, <1>7, ReplayIs
  <1>10. ~Clean(g)
    BY <1>1 DEF Clean
  <1>11. QED
    BY <1>3, <1>8, <1>9, <1>10 DEF g, b

-----------------------------------------------------------------------------
(* What a call writes.                                                     *)

Map  == [RunId -> RunRecord \cup {None}]
Text == Line \cup {Garbage}

\* rec follows old: it has the next revision and forgets nothing that a
\* replay would not bring back.
Follows(rec, old) ==
  IF old = None
  THEN rec.rev = 1 /\ rec.state = "running" /\ rec.phase = None
  ELSE /\ rec.rev = old.rev + 1
       /\ old.phase # None => rec.phase # None
       /\ old.ctx # None => rec.ctx # None
       /\ old.cursor # None => rec.cursor # None

\* A mark writes a record that follows the old one and has its key.
LEMMA MarkedFollows ==
  ASSUME NEW rec \in RunRecord, NEW s \in RunState
  PROVE  /\ Marked(rec, s) \in RunRecord
         /\ Follows(Marked(rec, s), rec)
         /\ Marked(rec, s).key = rec.key
         /\ Marked(rec, s).ctx = rec.ctx
  <1>1. rec # None /\ rec.rev + 1 \in Nat \ {0}
    BY NoneIsNoValue DEF RunRecord
  <1>2. QED
    BY <1>1 DEF Marked, RunRecord, Follows

\* So does recording a phase.
LEMMA PhaseRecordedFollows ==
  ASSUME NEW rec \in RunRecord, NEW p \in Phase, NEW o \in PhaseOutcome,
         NEW c \in Ctx \cup {None}
  PROVE  /\ PhaseRecorded(rec, p, o, c) \in RunRecord
         /\ Follows(PhaseRecorded(rec, p, o, c), rec)
         /\ PhaseRecorded(rec, p, o, c).key = rec.key
  <1> DEFINE cursor == NextCursor(rec.cursor, p, o)
             m == Marked(rec, "running")
             ctx == Override(c, rec.ctx)
  <1>1. /\ cursor \in PhaseCursor /\ PhaseView(cursor) \in Phase /\ rec # None
        /\ ctx \in Ctx \cup {None} /\ (rec.ctx # None => ctx # None)
    <2>1. rec.cursor \in PhaseCursor \cup {None} /\ rec.ctx \in Ctx \cup {None}
      BY DEF RunRecord
    <2>2. cursor \in PhaseCursor
      BY <2>1 DEF NextCursor, PhaseCursor
    <2>3. PhaseView(cursor) \in Phase
      BY <2>2 DEF PhaseView, PhaseCursor, Override, NextCursor
    <2>4. QED
      BY <2>1, <2>2, <2>3, NoneIsNoValue DEF Override
  <1>2. /\ m \in RunRecord /\ m.rev = rec.rev + 1 /\ m.key = rec.key
        /\ m.ctx = rec.ctx
    BY <1>1, MarkedFollows DEF RunState, Follows
  <1>3. PhaseRecorded(rec, p, o, c) =
          [m EXCEPT !.phase = PhaseView(cursor), !.cursor = cursor, !.ctx = ctx]
    BY DEF PhaseRecorded
  <1>4. None \notin Phase /\ None \notin PhaseCursor
    BY NoneIsNoValue
  <1> HIDE DEF cursor, m, ctx
  <1> DEFINE x == [m EXCEPT !.phase = PhaseView(cursor), !.cursor = cursor, !.ctx = ctx]
  <1>5. /\ x \in RunRecord /\ x.rev = m.rev /\ x.key = m.key
        /\ x.phase = PhaseView(cursor) /\ x.cursor = cursor /\ x.ctx = ctx
    BY <1>1, <1>2 DEF RunRecord
  <1>6. x.phase # None /\ x.cursor # None
    BY <1>1, <1>4, <1>5
  <1> HIDE DEF x
  <1>7. Follows(x, rec)
    BY <1>1, <1>2, <1>5, <1>6 DEF Follows
  <1>8. QED
    BY <1>2, <1>3, <1>5, <1>7 DEF x

\* So does attributing a cost.
LEMMA CostRecordedFollows ==
  ASSUME NEW rec \in RunRecord, NEW amount \in Cost \cup {None}
  PROVE  /\ CostRecorded(rec, amount) \in RunRecord
         /\ Follows(CostRecorded(rec, amount), rec)
         /\ CostRecorded(rec, amount).key = rec.key
  <1>1. rec # None /\ rec.rev + 1 \in Nat \ {0} /\ Override(amount, rec.cost) \in Cost \cup {None}
    BY NoneIsNoValue DEF Override, RunRecord
  <1>2. QED
    BY <1>1 DEF CostRecorded, RunRecord, Follows

\* So does record_start, for an old record or none.
LEMMA StartedFollows ==
  ASSUME NEW old \in RunRecord \cup {None}, NEW k \in Key \cup {None}
  PROVE  Started(old, k) \in RunRecord /\ Follows(Started(old, k), old)
  <1>1. CASE old = None
    BY <1>1 DEF Started, NewRecord, RunRecord, RunState, Follows
  <1>2. CASE old # None
    <2>1. old \in RunRecord /\ old.rev + 1 \in Nat \ {0} /\ "running" \in RunState
      BY <1>2 DEF RunRecord, RunState
    <2>2. QED
      BY <1>2, <2>1 DEF Started, RunRecord, Follows
  <1>3. QED
    BY <1>1, <1>2

\* A replayed transition has the revision of its line, and of the other fields
\* those of the line where it has any.
LEMMA CarriedType ==
  ASSUME NEW line \in Line, NEW old \in RunRecord
  PROVE  Carried(line, old) \in RunRecord /\ Carried(line, old).rev = line.rec.rev
  <1>1. line.rec \in RunRecord
    BY DEF Line
  <1>2. /\ old.key \in Key \cup {None}
        /\ Override(line.rec.phase, old.phase) \in Phase \cup {None}
        /\ Override(line.rec.ctx, old.ctx) \in Ctx \cup {None}
        /\ Override(line.rec.cursor, old.cursor) \in PhaseCursor \cup {None}
        /\ Override(line.rec.cost, old.cost) \in Cost \cup {None}
    BY <1>1 DEF RunRecord, Override
  <1>3. QED
    BY <1>1, <1>2 DEF Carried, RunRecord

\* A replayed line changes the record of its run only.
LEMMA AppliedType ==
  ASSUME NEW map \in Map, NEW line \in Line
  PROVE  /\ Applied(map, line) \in Map
         /\ \A r \in RunId : r # line.run => Applied(map, line)[r] = map[r]
         /\ line.kind = "start" => Applied(map, line)[line.run] = line.rec
         /\ line.kind # "start" /\ map[line.run] # None =>
              Applied(map, line)[line.run] = Carried(line, map[line.run])
         /\ line.kind # "start" /\ map[line.run] = None =>
              Applied(map, line)[line.run] = None
  <1>1. line.run \in RunId /\ line.rec \in RunRecord
    BY DEF Line
  <1>2. map[line.run] # None => Carried(line, map[line.run]) \in RunRecord
    BY <1>1, CarriedType DEF Map
  <1>3. QED
    BY <1>1, <1>2 DEF Applied, Map

\* Every file replays to an index.
LEMMA ReplayType ==
  ASSUME NEW f \in Seq(Text)
  PROVE  Replay(f) \in Map
  <1>1. Len(f) \in Nat
    OBVIOUS
  <1>2. PICK n \in Readable(f) : n = Len(f) \/ f[n + 1] = Garbage
    BY <1>1, ReadableEnd
  <1>3. n \in Nat /\ n <= Len(f) /\ \A i \in 1..n : f[i] \in Line
    BY <1>1, <1>2 DEF Readable, Text
  <1> DEFINE T == {j \in 0..n : After(f)[j] \notin Map}
  <1>4. CASE T = {}
    <2>1. After(f)[n] \in Map
      BY <1>3, <1>4
    <2>2. QED
      BY <1>1, <1>2, <2>1, ReplayIs
  <1>5. CASE T # {}
    <2> HIDE DEF T
    <2>1. PICK j \in T : \A i \in T : j <= i
      <3>1. T \in SUBSET Nat
        BY <1>3 DEF T
      <3>2. QED
        BY <1>5, <3>1, LeastElement
    <2> USE DEF T
    <2>2. CASE j = 0
      BY <1>1, <2>2, AfterSteps DEF Map, Empty
    <2>3. CASE j # 0
      <3>1. j - 1 \in 0..n /\ j - 1 \notin T
        BY <1>3, <2>1, <2>3
      <3>2. After(f)[j - 1] \in Map /\ f[j] \in Line /\ j \in 1..Len(f)
        BY <1>1, <1>3, <2>1, <2>3, <3>1
      <3>3. After(f)[j] = Applied(After(f)[j - 1], f[j])
        BY <1>1, <3>2, AfterSteps
      <3>4. QED
        BY <2>1, <3>2, <3>3, AppliedType
    <2>4. QED
      BY <2>2, <2>3
  <1>6. QED
    BY <1>4, <1>5

-----------------------------------------------------------------------------
(* What a step does.                                                       *)

\* The ways a call of process p that writes the line can end: it returns, it
\* raises with nothing written, or a part of the line or all of it but the
\* newline is written and the call raises or the process dies.
Updated(p, line) == [index EXCEPT ![p] = [@ EXCEPT ![line.run] = line.rec]]

Returns(p, line) ==
  /\ index' = Updated(p, line)
  /\ file' = Extended(file, line) /\ unterminated' = FALSE
  /\ acked' = [acked EXCEPT ![line.run] = line.rec.rev]
  /\ raised' = raised

Raises(p, line) ==
  /\ index' = Updated(p, line)
  /\ file' = file /\ unterminated' = unterminated /\ acked' = acked
  /\ raised' = TRUE

Tears(p, line, text) ==
  /\ file' = Extended(file, text) /\ unterminated' = TRUE /\ acked' = acked
  /\ \/ index' = Updated(p, line) /\ raised' = TRUE /\ text = Garbage
     \/ index' = [index EXCEPT ![p] = Down] /\ raised' = raised

Writes(p, line) ==
  /\ index[p] # Down /\ opened' = opened
  /\ line.kind # "start" =>
       index[p][line.run] # None /\ line.rec.key = index[p][line.run].key
  /\ Follows(line.rec, index[p][line.run])
  /\ Returns(p, line) \/ Raises(p, line) \/ \E text \in {Garbage, line} : Tears(p, line, text)

\* Commit ends in one of these ways.
LEMMA CommitEnds ==
  ASSUME NEW p, NEW line, Commit(p, line, line.rec)
  PROVE  /\ opened' = opened
         /\ \/ Returns(p, line) \/ Raises(p, line)
            \/ \E text \in {Garbage, line} : Tears(p, line, text)
  BY DEF Commit, Returns, Raises, Tears, Updated

\* Every step that is not a restart or a death writes one line.
LEMMA StepWrites ==
  ASSUME TypeOK, Next
  PROVE  \E p \in Proc : Open(p) \/ Crash(p) \/ \E line \in Line : Writes(p, line)
  <1>1. PICK p \in Proc :
          \/ Open(p) \/ Crash(p)
          \/ \E r \in RunId :
               \/ \E k \in Key \cup {None} : RecordStart(p, r, k)
               \/ \E s \in Marks : Mark(p, r, s)
               \/ \E ph \in Phase, o \in Outcomes, c \in Ctx \cup {None} :
                    RecordPhase(p, r, ph, o, c)
               \/ \E amount \in Cost \cup {None} : RecordCostAttribution(p, r, amount)
    BY DEF Next
  <1>2. index[p] = Down \/ index[p] \in Map
    BY DEF TypeOK, Map
  <1>3. ASSUME NEW r \in RunId, NEW k \in Key \cup {None}, RecordStart(p, r, k)
        PROVE  \E line \in Line : Writes(p, line)
    <2> DEFINE rec == Started(index[p][r], k)
               line == [kind |-> "start", run |-> r, rec |-> rec]
    <2>1. index[p] # Down /\ index[p][r] \in RunRecord \cup {None} /\ Commit(p, line, rec)
      BY <1>2, <1>3 DEF RecordStart, Map
    <2>2. rec \in RunRecord /\ Follows(rec, index[p][r])
      BY <2>1, StartedFollows
    <2> HIDE DEF rec
    <2>3. line \in Line /\ line.run = r /\ line.rec = rec /\ line.kind = "start"
      BY <2>2 DEF Line
    <2> HIDE DEF line
    <2>4. QED
      BY <2>1, <2>2, <2>3, CommitEnds DEF Writes
  <1>4. ASSUME NEW r \in RunId, NEW rec \in RunRecord, Known(p, r),
               Follows(rec, index[p][r]), rec.key = index[p][r].key,
               Commit(p, [kind |-> "transition", run |-> r, rec |-> rec], rec)
        PROVE  \E line \in Line : Writes(p, line)
    <2> DEFINE line == [kind |-> "transition", run |-> r, rec |-> rec]
    <2>1. line \in Line /\ line.run = r /\ line.rec = rec
      BY DEF Line
    <2>2. Commit(p, line, rec)
      BY <1>4
    <2> HIDE DEF line
    <2>3. index[p] # Down /\ index[p][r] # None
      BY <1>4 DEF Known
    <2>4. QED
      BY <1>4, <2>1, <2>2, <2>3, CommitEnds DEF Writes
  <1>5. ASSUME NEW r \in RunId, Known(p, r) PROVE index[p][r] \in RunRecord
    BY <1>2, <1>5 DEF Known, Map
  <1>6. ASSUME NEW r \in RunId, NEW s \in Marks, Mark(p, r, s)
        PROVE  \E line \in Line : Writes(p, line)
    <2>1. Known(p, r) /\ s \in RunState
      BY <1>6, FileAssumption DEF Mark
    <2>2. QED
      BY <1>4, <1>5, <1>6, <2>1, MarkedFollows DEF Mark
  <1>7. ASSUME NEW r \in RunId, NEW ph \in Phase, NEW o \in Outcomes,
               NEW c \in Ctx \cup {None}, RecordPhase(p, r, ph, o, c)
        PROVE  \E line \in Line : Writes(p, line)
    <2>1. Known(p, r) /\ o \in PhaseOutcome
      BY <1>7, FileAssumption DEF RecordPhase
    <2>2. QED
      BY <1>4, <1>5, <1>7, <2>1, PhaseRecordedFollows DEF RecordPhase
  <1>8. ASSUME NEW r \in RunId, NEW amount \in Cost \cup {None},
               RecordCostAttribution(p, r, amount)
        PROVE  \E line \in Line : Writes(p, line)
    <2>1. Known(p, r)
      BY <1>8 DEF RecordCostAttribution
    <2>2. QED
      BY <1>4, <1>5, <1>8, <2>1, CostRecordedFollows DEF RecordCostAttribution
  <1>9. QED
    BY <1>1, <1>3, <1>6, <1>7, <1>8

Prior == Replay(Butlast(file))

\* What an append of any text does to the file: on a terminated file the text
\* becomes a line of its own, on another one the last line is lost with it.
LEMMA ExtendedIs ==
  ASSUME TypeOK, NEW text \in Text
  PROVE  /\ Extended(file, text) \in Seq(Text)
         /\ Extended(file, text) # <<>>
         /\ ~unterminated =>
              /\ Replay(Extended(file, text)) =
                   IF Clean(file) /\ text # Garbage THEN Applied(Replay(file), text)
                   ELSE Replay(file)
              /\ Replay(Butlast(Extended(file, text))) = Replay(file)
              /\ Clean(Extended(file, text)) => Clean(file) /\ text # Garbage
         /\ unterminated =>
              /\ Replay(Extended(file, text)) = Prior
              /\ Replay(Butlast(Extended(file, text))) = Prior
              /\ ~Clean(Extended(file, text))
  <1>1. file \in Seq(Text) /\ (unterminated => file # <<>>)
    BY DEF TypeOK, Text
  <1>2. CASE unterminated
    <2>1. Extended(file, text) = [file EXCEPT ![Len(file)] = Garbage]
      BY <1>2 DEF Extended
    <2>2. Garbage \in Text /\ file # <<>>
      BY <1>1, <1>2 DEF Text
    <2>3. /\ [file EXCEPT ![Len(file)] = Garbage] \in Seq(Text)
          /\ [file EXCEPT ![Len(file)] = Garbage] # <<>>
      BY <1>1, <2>2
    <2>4. QED
      BY <1>1, <1>2, <2>1, <2>2, <2>3, ReplaySpoilt DEF Prior
  <1>3. CASE ~unterminated
    <2>1. Extended(file, text) = Append(file, text)
      BY <1>3 DEF Extended
    <2>2. Append(file, text) \in Seq(Text) /\ Append(file, text) # <<>>
      BY <1>1
    <2>3. Butlast(Append(file, text)) = file
      BY <1>1 DEF Butlast
    <2>4. Clean(Append(file, text)) => Clean(file) /\ text # Garbage
      <3> DEFINE g == Append(file, text)
      <3>1. /\ Len(file) \in Nat /\ Len(g) = Len(file) + 1 /\ g[Len(file) + 1] = text
            /\ \A i \in 1..Len(file) : g[i] = file[i]
        BY <1>1
      <3> HIDE DEF g
      <3>2. Clean(g) => Clean(file) /\ text # Garbage
        BY <3>1 DEF Clean
      <3>3. QED
        BY <3>2 DEF g
    <2>5. QED
      BY <1>1, <1>3, <2>1, <2>2, <2>3, <2>4, ReplayAppend
  <1>4. QED
    BY <1>2, <1>3

\* The index a call leaves differs from the old one in one record.
LEMMA UpdatedIs ==
  ASSUME TypeOK, NEW p \in Proc, index[p] # Down, NEW line \in Line
  PROVE  /\ Updated(p, line) \in [Proc -> Map \cup {Down}]
         /\ Updated(p, line)[p] \in Map
         /\ Updated(p, line)[p][line.run] = line.rec
         /\ \A r \in RunId : r # line.run => Updated(p, line)[p][r] = index[p][r]
         /\ \A q \in Proc : q # p => Updated(p, line)[q] = index[q]
  <1>1. index \in [Proc -> Map \cup {Down}] /\ index[p] \in Map
    BY DEF TypeOK, Map
  <1>2. line.run \in RunId /\ line.rec \in RunRecord
    BY DEF Line
  <1>3. [index[p] EXCEPT ![line.run] = line.rec] \in Map
    BY <1>1, <1>2 DEF Map
  <1>4. Updated(p, line) = [index EXCEPT ![p] = [index[p] EXCEPT ![line.run] = line.rec]]
    BY DEF Updated
  <1>5. QED
    BY <1>1, <1>2, <1>3, <1>4 DEF Map

\* A map is not the index of a process that is down.
LEMMA MapUp == Down \notin Map
  BY FileAssumption DEF Map

\* Every step keeps the types.
LEMMA StepType == TypeOK /\ [Next]_vars => TypeOK'
  <1> SUFFICES ASSUME TypeOK, [Next]_vars PROVE TypeOK'
    OBVIOUS
  <1>1. /\ file \in Seq(Text) /\ index \in [Proc -> Map \cup {Down}]
        /\ unterminated \in BOOLEAN /\ raised \in BOOLEAN /\ acked \in [RunId -> Nat]
        /\ opened \subseteq Proc
        /\ unterminated => file # <<>>
    BY DEF TypeOK, Text, Map
  <1> DEFINE Typed == /\ file' \in Seq(Text) /\ index' \in [Proc -> Map \cup {Down}]
                      /\ unterminated' \in BOOLEAN /\ raised' \in BOOLEAN
                      /\ acked' \in [RunId -> Nat] /\ opened' \subseteq Proc
                      /\ unterminated' => file' # <<>>
  <1>2. SUFFICES Typed
    BY DEF TypeOK, Text, Map
  <1>3. CASE UNCHANGED vars
    BY <1>1, <1>3 DEF vars
  <1>4. ASSUME NEW p \in Proc, Open(p)
        PROVE  Typed
    <2>1. Replay(file) \in Map
      BY <1>1, ReplayType
    <2>2. QED
      BY <1>1, <1>4, <2>1 DEF Open
  <1>5. ASSUME NEW p \in Proc, Crash(p)
        PROVE  Typed
    BY <1>1, <1>5 DEF Crash
  <1>6. ASSUME NEW p \in Proc, NEW line \in Line, Writes(p, line)
        PROVE  Typed
    <2>1. /\ line.rec.rev \in Nat /\ line \in Text /\ Garbage \in Text
      BY DEF Line, RunRecord, Text
    <2>2. Updated(p, line) \in [Proc -> Map \cup {Down}] /\ opened' = opened
      BY <1>6, UpdatedIs DEF Writes
    <2>3. CASE Returns(p, line)
      BY <1>1, <2>1, <2>2, <2>3, ExtendedIs DEF Returns
    <2>4. CASE Raises(p, line)
      BY <1>1, <2>2, <2>4 DEF Raises
    <2>5. ASSUME NEW text \in {Garbage, line}, Tears(p, line, text)
          PROVE  Typed
      <3>1. text \in Text
        BY <2>1
      <3>2. index' \in [Proc -> Map \cup {Down}] /\ raised' \in BOOLEAN
        BY <1>1, <2>2, <2>5 DEF Tears
      <3>3. QED
        BY <1>1, <2>2, <2>5, <3>1, <3>2, ExtendedIs DEF Tears
    <2>6. QED
      BY <1>6, <2>3, <2>4, <2>5 DEF Writes
  <1>7. QED
    BY <1>3, <1>4, <1>5, <1>6, StepWrites

\* So does the initial state.
LEMMA InitType == Init => TypeOK
  <1> SUFFICES ASSUME Init PROVE TypeOK
    OBVIOUS
  <1>1. file \in Seq(Text) /\ index \in [Proc -> Map \cup {Down}]
    BY DEF Init
  <1>2. QED
    BY <1>1 DEF Init, TypeOK, Text, Map

\* Type correctness of the durable ledger: a file of any length replays to an
\* index of well-formed records, torn and spoilt lines included (class
\* FileRunLedger, _replay and _append).
THEOREM TypeCorrect == Spec => []TypeOK
  BY InitType, StepType, PTL DEF Spec

-----------------------------------------------------------------------------
(* What a restart finds, for any number of processes.                      *)

\* A process knows of no run that the file does not hold.
KnownOnDisk ==
  Calm => \A p \in Proc : index[p] # Down =>
            \A r \in RunId : index[p][r] # None => Replay(file)[r] # None

\* Calm, with the lines counted.
LEMMA CalmIs ==
  TypeOK => (Calm <=> ~raised /\ ~unterminated /\ Clean(file))
  <1>1. TypeOK => DOMAIN file = 1..Len(file)
    BY DEF TypeOK
  <1>2. QED
    BY <1>1 DEF Calm, Clean

\* Only a call that returns keeps the ledger calm, and only when it was.
LEMMA CalmWrite ==
  ASSUME TypeOK, TypeOK', NEW p \in Proc, NEW line \in Line, Writes(p, line), Calm'
  PROVE  /\ Returns(p, line) /\ Calm
         /\ Replay(file') = Applied(Replay(file), line)
  <1>1. line \in Text /\ Garbage \in Text
    BY DEF Text
  <1>2. ~raised' /\ ~unterminated' /\ Clean(file')
    <2>1. DOMAIN file' = 1..Len(file')
      BY DEF TypeOK
    <2>2. QED
      BY <2>1 DEF Calm, Clean
  <1>3. Returns(p, line)
    BY <1>2 DEF Writes, Raises, Tears
  <1>4. ~unterminated /\ ~raised /\ Clean(file) /\ line # Garbage
    BY <1>1, <1>2, <1>3, ExtendedIs DEF Returns
  <1>5. QED
    BY <1>1, <1>3, <1>4, ExtendedIs, CalmIs DEF Returns

\* Then the line's run has the line's revision.
LEMMA AppliedRevision ==
  ASSUME NEW map \in Map, NEW line \in Line,
         line.kind # "start" => map[line.run] # None
  PROVE  /\ Applied(map, line)[line.run] \in RunRecord
         /\ Applied(map, line)[line.run] # None
         /\ Applied(map, line)[line.run].rev = line.rec.rev
  <1>1. line.run \in RunId /\ line.rec \in RunRecord
    BY DEF Line
  <1>2. CASE line.kind = "start"
    BY <1>1, <1>2, AppliedType, NoneIsNoValue
  <1>3. CASE line.kind # "start"
    <2>1. map[line.run] \in RunRecord
      BY <1>1, <1>3 DEF Map
    <2>2. QED
      BY <1>1, <1>3, <2>1, AppliedType, CarriedType, NoneIsNoValue
  <1>4. QED
    BY <1>2, <1>3

\* What is known and what was returned stays on disk.
LEMMA StepKept ==
  TypeOK /\ TypeOK' /\ KnownOnDisk /\ AckKept /\ [Next]_vars => KnownOnDisk' /\ AckKept'
  <1> DEFINE Holds == /\ \A p \in Proc : index'[p] # Down =>
                           \A r \in RunId : index'[p][r] # None => Replay(file')[r] # None
                      /\ \A r \in RunId : acked'[r] > 0 =>
                           Replay(file')[r] # None /\ Replay(file')[r].rev >= acked'[r]
  <1> SUFFICES ASSUME TypeOK, TypeOK', KnownOnDisk, AckKept, [Next]_vars, Calm'
               PROVE  Holds
    BY DEF KnownOnDisk, AckKept, AckDurable, Kept
  <1>1. /\ file \in Seq(Text) /\ index \in [Proc -> Map \cup {Down}]
        /\ acked \in [RunId -> Nat]
    BY DEF TypeOK, Text, Map
  <1>2. Replay(file) \in Map
    BY <1>1, ReplayType
  <1>3. ASSUME Calm
        PROVE  /\ \A q \in Proc : index[q] # Down =>
                    \A r \in RunId : index[q][r] # None => Replay(file)[r] # None
               /\ \A r \in RunId : acked[r] > 0 =>
                    Replay(file)[r] # None /\ Replay(file)[r].rev >= acked[r]
    BY <1>3 DEF KnownOnDisk, AckKept, AckDurable, Kept
  <1>4. ASSUME UNCHANGED <<file, unterminated, raised>> PROVE Calm
    BY <1>4 DEF Calm
  <1>5. CASE UNCHANGED vars
    BY <1>3, <1>4, <1>5 DEF vars
  <1>6. ASSUME NEW p \in Proc, Open(p)
        PROVE  Holds
    <2>1. /\ UNCHANGED <<file, acked>> /\ Calm
          /\ index'[p] = Replay(file)
          /\ \A q \in Proc : q # p => index'[q] = index[q]
      BY <1>1, <1>4, <1>6 DEF Open
    <2>2. QED
      BY <1>3, <2>1
  <1>7. ASSUME NEW p \in Proc, Crash(p)
        PROVE  Holds
    <2>1. /\ UNCHANGED <<file, acked>> /\ Calm
          /\ index'[p] = Down
          /\ \A q \in Proc : q # p => index'[q] = index[q]
      BY <1>1, <1>4, <1>7 DEF Crash
    <2>2. QED
      BY <1>3, <2>1
  <1>8. ASSUME NEW p \in Proc, NEW line \in Line, Writes(p, line)
        PROVE  Holds
    <2>1. Returns(p, line) /\ Calm /\ Replay(file') = Applied(Replay(file), line)
      BY <1>8, CalmWrite
    <2>2. line.run \in RunId /\ line.rec \in RunRecord
      BY DEF Line
    <2>3. line.kind # "start" => Replay(file)[line.run] # None
      BY <1>3, <1>8, <2>1, <2>2 DEF Writes
    <2>4. /\ Replay(file')[line.run] # None /\ Replay(file')[line.run].rev = line.rec.rev
          /\ \A r \in RunId : r # line.run => Replay(file')[r] = Replay(file)[r]
      BY <1>2, <2>1, <2>3, AppliedRevision, AppliedType
    <2>5. /\ \A r \in RunId : r # line.run => index'[p][r] = index[p][r]
          /\ \A q \in Proc : q # p => index'[q] = index[q]
      BY <1>8, <2>1, UpdatedIs DEF Writes, Returns
    <2>6. /\ acked'[line.run] = line.rec.rev /\ line.rec.rev \in Nat
          /\ \A r \in RunId : r # line.run => acked'[r] = acked[r]
      BY <1>1, <2>1, <2>2 DEF Returns, RunRecord
    <2>7. ASSUME NEW q \in Proc, index'[q] # Down, NEW r \in RunId, index'[q][r] # None
          PROVE  Replay(file')[r] # None
      BY <1>3, <1>8, <2>1, <2>4, <2>5, <2>7 DEF Writes
    <2>8. ASSUME NEW r \in RunId, acked'[r] > 0
          PROVE  Replay(file')[r] # None /\ Replay(file')[r].rev >= acked'[r]
      BY <1>3, <2>1, <2>4, <2>6, <2>8
    <2>9. QED
      BY <2>7, <2>8
  <1>9. QED
    BY <1>5, <1>6, <1>7, <1>8, StepWrites

\* As long as no append has failed or torn, the file replays to at least the
\* revision that the run's last call returned, wherever processes crash and
\* however many share the file ("Crashes between writes do not corrupt prior
\* records"). What earlier calls of other processes returned may be rolled back:
\* OnlyStaleRollsBack says by whom.
THEOREM AckKeptCorrect == Spec => []AckKept
  <1>1. Init => KnownOnDisk /\ AckKept
    BY DEF Init, KnownOnDisk, AckKept, AckDurable
  <1>2. QED
    BY <1>1, StepKept, StepType, InitType, PTL DEF Spec

-----------------------------------------------------------------------------
(* One process. With a second one little of what follows holds: its index  *)
(* is not told of what the other appends.                                  *)

\* A process that is up has opened the file.
UpOpened == \A p \in Proc : index[p] # Down => p \in opened

\* b knows every run that a knows, and no older revision of it.
Below(a, b) ==
  \A r \in RunId : a[r] # None => b[r] # None /\ b[r].rev >= a[r].rev

\* What a torn last line hides is not newer than what it shows.
TornNewer == Alone /\ unterminated => Below(Prior, Replay(file))

\* As long as no append raised, a line that lacks its newline does not hold
\* the only record of a call that returned.
TornUnneeded ==
  Alone /\ ~raised /\ unterminated =>
    \A r \in RunId : Kept(r) => Prior[r] # None /\ Prior[r].rev >= acked[r]

SoloInv ==
  /\ TypeOK /\ AckKept /\ UpOpened
  /\ IndexNotBehind /\ ReplayAgrees
  /\ TornNewer /\ TornUnneeded

\* Revisions are ordered.
LEMMA BelowTransitive ==
  ASSUME NEW a \in Map, NEW b \in Map, NEW c \in Map, Below(a, b), Below(b, c)
  PROVE  Below(a, c)
  <1>1. ASSUME NEW r \in RunId, a[r] # None
        PROVE  c[r] # None /\ c[r].rev >= a[r].rev
    <2>1. b[r] # None /\ b[r].rev >= a[r].rev
      BY <1>1 DEF Below
    <2>2. c[r] # None /\ c[r].rev >= b[r].rev
      BY <2>1 DEF Below
    <2>3. a[r].rev \in Nat /\ b[r].rev \in Nat /\ c[r].rev \in Nat
      BY <1>1, <2>1, <2>2 DEF Map, RunRecord
    <2>4. QED
      BY <2>1, <2>2, <2>3
  <1>2. QED
    BY <1>1 DEF Below

\* A map is not older than itself.
LEMMA BelowReflexive ==
  ASSUME NEW a \in Map
  PROVE  Below(a, a)
  <1>1. ASSUME NEW r \in RunId, a[r] # None PROVE a[r].rev \in Nat
    BY <1>1 DEF Map, RunRecord
  <1>2. QED
    BY <1>1 DEF Below

\* What the file replays to before and after, and their types.
LEMMA ReplaysTyped ==
  ASSUME TypeOK
  PROVE  Replay(file) \in Map /\ Prior \in Map
  <1>1. file \in Seq(Text)
    BY DEF TypeOK, Text
  <1>2. Butlast(file) \in Seq(Text)
    <2>1. CASE file = <<>>
      <3>1. 1..(Len(file) - 1) = {}
        BY <2>1
      <3>2. Butlast(file) = <<>>
        BY <3>1 DEF Butlast
      <3>3. QED
        BY <3>2
    <2>2. CASE file # <<>>
      <3>1. Len(file) - 1 \in Nat /\ \A i \in 1..(Len(file) - 1) : file[i] \in Text
        BY <1>1, <2>2
      <3>2. QED
        BY <3>1 DEF Butlast
    <2>3. QED
      BY <2>1, <2>2
  <1>3. QED
    BY <1>1, <1>2, ReplayType DEF Prior

\* The line a call writes is newer than the file, and the index is as new as
\* the line.
LEMMA LineNewer ==
  ASSUME TypeOK, IndexNotBehind, Alone, NEW p \in Proc, NEW line \in Line, Writes(p, line)
  PROVE  /\ Below(Replay(file), Applied(Replay(file), line))
         /\ Below(Applied(Replay(file), line), Updated(p, line)[p])
         /\ Below(Replay(file), Updated(p, line)[p])
  <1> DEFINE old == Replay(file)
             new == Applied(Replay(file), line)
             idx == index[p]
             upd == Updated(p, line)[p]
  <1>1. old \in Map /\ new \in Map
    BY ReplaysTyped, AppliedType
  <1>2. /\ idx \in Map /\ upd \in Map /\ upd[line.run] = line.rec
        /\ \A r \in RunId : r # line.run => upd[r] = idx[r]
    <2>1. index[p] # Down
      BY DEF Writes
    <2>2. QED
      BY <2>1, UpdatedIs DEF TypeOK, Map
  <1>3. line.run \in RunId /\ line.rec \in RunRecord /\ line.rec.rev \in Nat /\ line.rec # None
    BY NoneIsNoValue DEF Line, RunRecord
  <1>4. Below(old, idx)
    BY DEF IndexNotBehind, Below, Writes
  <1>5. \A r \in RunId : r # line.run => new[r] = old[r]
    BY <1>1, AppliedType
  <1>6. old[line.run] # None => line.rec.rev >= old[line.run].rev
    <2>1. ASSUME old[line.run] # None PROVE line.rec.rev >= old[line.run].rev
      <3>1. idx[line.run] # None /\ idx[line.run].rev >= old[line.run].rev
        BY <1>3, <1>4, <2>1 DEF Below
      <3>2. line.rec.rev = idx[line.run].rev + 1
        BY <3>1 DEF Writes, Follows
      <3>3. idx[line.run].rev \in Nat /\ old[line.run].rev \in Nat
        BY <1>1, <1>2, <1>3, <2>1, <3>1 DEF Map, RunRecord
      <3>4. QED
        BY <3>1, <3>2, <3>3
    <2>2. QED
      BY <2>1
  <1>7. /\ new[line.run] # None => new[line.run].rev = line.rec.rev
        /\ old[line.run] # None => new[line.run] # None
    <2>1. CASE line.kind = "start"
      BY <1>1, <1>3, <2>1, AppliedType
    <2>2. CASE line.kind # "start" /\ old[line.run] = None
      BY <1>1, <2>2, AppliedType
    <2>3. CASE line.kind # "start" /\ old[line.run] # None
      BY <1>1, <2>3, AppliedRevision
    <2>4. QED
      BY <2>1, <2>2, <2>3
  <1> HIDE DEF old, new, idx, upd
  <1>8. ASSUME NEW r \in RunId
        PROVE  /\ old[r] # None => new[r] # None /\ new[r].rev >= old[r].rev
               /\ new[r] # None => upd[r] # None /\ upd[r].rev >= new[r].rev
    <2>1. CASE r = line.run
      BY <1>2, <1>3, <1>6, <1>7, <2>1
    <2>2. CASE r # line.run
      <3>1. new[r] = old[r] /\ upd[r] = idx[r]
        BY <1>2, <1>5, <2>2
      <3>2. old[r] # None => old[r].rev \in Nat
        BY <1>1 DEF Map, RunRecord
      <3>3. QED
        BY <1>4, <3>1, <3>2 DEF Below
    <2>3. QED
      BY <2>1, <2>2
  <1>9. Below(old, new) /\ Below(new, upd)
    BY <1>8 DEF Below
  <1>10. QED
    BY <1>1, <1>2, <1>9, BelowTransitive DEF old, new, upd

\* A record with the cost left out.
Strip(rec) == [rec EXCEPT !.cost = None]

\* It is the record in every other field.
LEMMA StripIs ==
  ASSUME NEW rec \in RunRecord
  PROVE  /\ Strip(rec) \in RunRecord /\ Strip(rec) # None
         /\ Strip(rec).state = rec.state /\ Strip(rec).rev = rec.rev
         /\ Strip(rec).key = rec.key /\ Strip(rec).phase = rec.phase
         /\ Strip(rec).ctx = rec.ctx /\ Strip(rec).cursor = rec.cursor
  <1>1. Strip(rec) \in RunRecord
    BY DEF Strip, RunRecord
  <1>2. QED
    BY <1>1, NoneIsNoValue DEF Strip, RunRecord

\* Costless, record by record.
LEMMA CostlessIs ==
  ASSUME NEW a \in Map
  PROVE  /\ Costless(a) \in Map
         /\ \A r \in RunId : Costless(a)[r] = IF a[r] = None THEN None ELSE Strip(a[r])
  <1>1. \A r \in RunId : Costless(a)[r] = IF a[r] = None THEN None ELSE Strip(a[r])
    BY DEF Costless, Strip
  <1>2. \A r \in RunId : Costless(a)[r] \in RunRecord \cup {None}
    BY <1>1, StripIs DEF Map
  <1>3. QED
    BY <1>1, <1>2 DEF Costless, Map

\* Maps that agree but for their costs agree on every other field.
LEMMA CostlessEqual ==
  ASSUME NEW a \in Map, NEW b \in Map, NEW r \in RunId, Costless(a)[r] = Costless(b)[r]
  PROVE  /\ a[r] = None <=> b[r] = None
         /\ a[r] # None =>
              /\ a[r].key = b[r].key /\ a[r].phase = b[r].phase
              /\ a[r].ctx = b[r].ctx /\ a[r].cursor = b[r].cursor
  <1>1. a[r] \in RunRecord \cup {None} /\ b[r] \in RunRecord \cup {None}
    BY DEF Map
  <1>2. a[r] = None <=> b[r] = None
    BY <1>1, CostlessIs, StripIs
  <1>3. CASE a[r] # None
    <2>1. a[r] \in RunRecord /\ b[r] \in RunRecord /\ Strip(a[r]) = Strip(b[r])
      BY <1>1, <1>2, <1>3, CostlessIs
    <2>2. QED
      BY <1>2, <2>1, StripIs
  <1>4. QED
    BY <1>2, <1>3

\* From an index that agrees with the file, a line leads to an index that
\* agrees with its replay: it carries every field that the replay needs.
LEMMA LineAgrees ==
  ASSUME TypeOK, NEW p \in Proc, NEW line \in Line, Writes(p, line),
         Costless(index[p]) = Costless(Replay(file))
  PROVE  Costless(Updated(p, line)[p]) = Costless(Applied(Replay(file), line))
  <1> DEFINE old == Replay(file)
             new == Applied(Replay(file), line)
             idx == index[p]
             upd == Updated(p, line)[p]
  <1>1. old \in Map /\ new \in Map
    BY ReplaysTyped, AppliedType
  <1>2. /\ idx \in Map /\ upd \in Map /\ upd[line.run] = line.rec
        /\ \A r \in RunId : r # line.run => upd[r] = idx[r]
    <2>1. index[p] # Down
      BY DEF Writes
    <2>2. QED
      BY <2>1, UpdatedIs DEF TypeOK, Map
  <1>3. line.run \in RunId /\ line.rec \in RunRecord /\ line.rec # None
    BY NoneIsNoValue DEF Line
  <1>4. \A r \in RunId : r # line.run => new[r] = old[r]
    BY <1>1, AppliedType
  <1>5. CASE line.kind = "start"
    <2>1. new[line.run] = line.rec
      BY <1>1, <1>5, AppliedType
    <2> HIDE DEF old, new, idx, upd
    <2>2. \A r \in RunId : Costless(upd)[r] = Costless(new)[r]
      <3>1. Costless(idx) = Costless(old)
        BY DEF idx, old
      <3>2. QED
        BY <1>1, <1>2, <1>3, <1>4, <2>1, <3>1, CostlessIs
    <2>3. QED
      BY <1>1, <1>2, <2>2, CostlessIs DEF upd, new, Map
  <1>6. CASE line.kind # "start"
    <2>1. /\ idx[line.run] # None /\ line.rec.key = idx[line.run].key
          /\ Follows(line.rec, idx[line.run])
      BY <1>6 DEF Writes
    <2>2. /\ old[line.run] # None /\ idx[line.run] \in RunRecord /\ old[line.run] \in RunRecord
          /\ idx[line.run].key = old[line.run].key /\ idx[line.run].phase = old[line.run].phase
          /\ idx[line.run].ctx = old[line.run].ctx
          /\ idx[line.run].cursor = old[line.run].cursor
      <3>1. Costless(idx)[line.run] = Costless(old)[line.run]
        OBVIOUS
      <3> HIDE DEF old, idx
      <3>2. old[line.run] # None
        BY <1>1, <1>2, <1>3, <2>1, <3>1, CostlessEqual
      <3>3. QED
        BY <1>1, <1>2, <1>3, <2>1, <3>1, <3>2, CostlessEqual DEF Map
    <2>3. new[line.run] = Carried(line, old[line.run])
      BY <1>1, <1>6, <2>2, AppliedType
    <2> HIDE DEF old, new, idx, upd
    <2>4. /\ Override(line.rec.phase, old[line.run].phase) = line.rec.phase
          /\ Override(line.rec.ctx, old[line.run].ctx) = line.rec.ctx
          /\ Override(line.rec.cursor, old[line.run].cursor) = line.rec.cursor
      BY <2>1, <2>2 DEF Override, Follows
    <2>5. Strip(Carried(line, old[line.run])) = Strip(line.rec)
      <3> DEFINE c == Override(line.rec.cost, old[line.run].cost)
      <3>1. Carried(line, old[line.run]) = [line.rec EXCEPT !.cost = c]
        <4>1. Carried(line, old[line.run]) =
                [line.rec EXCEPT !.key = line.rec.key, !.phase = line.rec.phase,
                                 !.ctx = line.rec.ctx, !.cursor = line.rec.cursor, !.cost = c]
          BY <2>1, <2>2, <2>4 DEF Carried
        <4> HIDE DEF c
        <4>2. QED
          BY <1>3, <4>1 DEF RunRecord
      <3> HIDE DEF c
      <3>2. QED
        BY <1>3, <3>1 DEF Strip, RunRecord
    <2>6. Carried(line, old[line.run]) # None
      BY <2>2, CarriedType, NoneIsNoValue
    <2>7. \A r \in RunId : Costless(upd)[r] = Costless(new)[r]
      <3>1. Costless(idx) = Costless(old)
        BY DEF idx, old
      <3>2. ASSUME NEW r \in RunId PROVE Costless(upd)[r] = Costless(new)[r]
        <4>1. CASE r = line.run
          BY <1>1, <1>2, <1>3, <2>3, <2>5, <2>6, <4>1, CostlessIs
        <4>2. CASE r # line.run
          BY <1>1, <1>2, <1>4, <3>1, <4>2, CostlessIs
        <4>3. QED
          BY <4>1, <4>2
      <3>3. QED
        BY <3>2
    <2>8. QED
      BY <1>1, <1>2, <2>7, CostlessIs DEF upd, new, Map
  <1>7. QED
    BY <1>5, <1>6

\* The replay after an append of a line, or of a part of it, lies between the
\* replay before, or what a torn last line had hidden, and the new index.
LEMMA AppendBetween ==
  ASSUME TypeOK, IndexNotBehind, TornNewer, Alone, NEW p \in Proc, NEW line \in Line,
         Writes(p, line), NEW text \in {Garbage, line}
  PROVE  /\ Below(Replay(Extended(file, text)), Updated(p, line)[p])
         /\ Below(Replay(Butlast(Extended(file, text))), Replay(Extended(file, text)))
  <1>1. text \in Text
    BY DEF Text
  <1>2. Replay(file) \in Map /\ Prior \in Map /\ Updated(p, line)[p] \in Map
    BY ReplaysTyped, UpdatedIs DEF Writes
  <1>3. CASE unterminated
    <2>1. Below(Prior, Replay(file)) /\ Below(Prior, Prior)
      BY <1>2, <1>3, BelowReflexive DEF TornNewer
    <2>2. QED
      BY <1>1, <1>2, <1>3, <2>1, ExtendedIs, LineNewer, BelowTransitive
  <1>4. CASE ~unterminated
    <2>1. Below(Replay(file), Replay(file))
      BY <1>2, BelowReflexive
    <2>2. \/ Replay(Extended(file, text)) = Replay(file)
          \/ text = line /\ Replay(Extended(file, text)) = Applied(Replay(file), line)
      BY <1>1, <1>4, ExtendedIs
    <2>3. Replay(Butlast(Extended(file, text))) = Replay(file)
      BY <1>1, <1>4, ExtendedIs
    <2>4. QED
      BY <2>1, <2>2, <2>3, LineNewer
  <1>5. QED
    BY <1>3, <1>4

\* A process that acts has opened the file; nobody closes it.
LEMMA StepOpens ==
  ASSUME TypeOK, UpOpened, NEW p \in Proc,
         Open(p) \/ Crash(p) \/ \E line \in Line : Writes(p, line)
  PROVE  /\ opened \subseteq opened' /\ p \in opened'
         /\ \A q \in Proc : q # p => index'[q] = index[q]
         /\ UpOpened'
  <1>1. index \in [Proc -> [RunId -> RunRecord \cup {None}] \cup {Down}]
    BY DEF TypeOK
  <1>2. opened \subseteq opened' /\ p \in opened'
    BY DEF Open, Crash, Writes, UpOpened
  <1>3. ASSUME NEW q \in Proc, q # p PROVE index'[q] = index[q]
    <2>1. CASE Open(p) \/ Crash(p)
      BY <1>1, <1>3, <2>1 DEF Open, Crash
    <2>2. ASSUME NEW line \in Line, Writes(p, line) PROVE index'[q] = index[q]
      <3>1. index[p] # Down
        BY <2>2 DEF Writes
      <3>2. index' = Updated(p, line) \/ index' = [index EXCEPT ![p] = Down]
        BY <2>2 DEF Writes, Returns, Raises, Tears
      <3>3. QED
        BY <1>1, <1>3, <3>1, <3>2, UpdatedIs
    <2>3. QED
      BY <2>1, <2>2
  <1>4. UpOpened'
    BY <1>2, <1>3 DEF UpOpened
  <1>5. QED
    BY <1>2, <1>3, <1>4

\* A step of the one process keeps what is claimed of it.
LEMMA SoloStep ==
  ASSUME SoloInv, TypeOK', AckKept', Alone', NEW p \in Proc,
         Open(p) \/ Crash(p) \/ \E line \in Line : Writes(p, line)
  PROVE  IndexNotBehind' /\ ReplayAgrees' /\ TornNewer' /\ TornUnneeded'
  <1>2. /\ TypeOK /\ AckKept /\ UpOpened /\ IndexNotBehind /\ ReplayAgrees
        /\ TornNewer /\ TornUnneeded
    BY DEF SoloInv
  <1>1. Alone /\ \A q \in Proc : index'[q] # Down => q = p
    <2>1. opened \subseteq opened' /\ p \in opened' /\ UpOpened'
      BY <1>2, StepOpens
    <2>2. QED
      BY <2>1 DEF Alone, UpOpened
  <1>3. index \in [Proc -> Map \cup {Down}] /\ Replay(file) \in Map
    BY <1>2, ReplaysTyped DEF TypeOK, Map
  <1> DEFINE Fresh == index'[p] # Down => Below(Replay(file'), index'[p])
             Same  == Calm' /\ index'[p] # Down => Costless(index'[p]) = Costless(Replay(file'))
  <1>4. SUFFICES Fresh /\ Same /\ TornNewer' /\ TornUnneeded'
    BY <1>1 DEF IndexNotBehind, ReplayAgrees, Below
  <1>5. /\ index[p] # Down => Below(Replay(file), index[p])
        /\ Calm /\ index[p] # Down => Costless(index[p]) = Costless(Replay(file))
    BY <1>1, <1>2 DEF IndexNotBehind, ReplayAgrees, Below
  <1>6. ASSUME UNCHANGED <<file, unterminated, acked, raised>>
        PROVE  TornNewer' /\ TornUnneeded' /\ (Calm' => Calm)
    BY <1>1, <1>2, <1>6 DEF TornNewer, TornUnneeded, Kept, Calm, Prior
  <1>8. CASE Open(p)
    <2>1. index'[p] = Replay(file) /\ UNCHANGED <<file, unterminated, acked, raised>>
      BY <1>2, <1>3, <1>8 DEF Open
    <2>2. QED
      BY <1>3, <1>6, <2>1, BelowReflexive
  <1>9. CASE Crash(p)
    <2>1. index'[p] = Down /\ UNCHANGED <<file, unterminated, acked, raised>>
      BY <1>2, <1>3, <1>9 DEF Crash
    <2>2. QED
      BY <1>6, <2>1
  <1>10. ASSUME NEW line \in Line, Writes(p, line)
         PROVE  Fresh /\ Same /\ TornNewer' /\ TornUnneeded'
    <2>1. line \in Text /\ Garbage \in Text /\ index[p] # Down
      BY <1>10 DEF Text, Writes
    <2>2. CASE Returns(p, line)
      <3>1. Fresh
        BY <1>1, <1>2, <1>10, <2>2, AppendBetween DEF Returns
      <3>2. Same
        BY <1>2, <1>5, <1>10, <2>1, <2>2, CalmWrite, LineAgrees DEF Returns
      <3>3. QED
        BY <2>2, <3>1, <3>2 DEF Returns, TornNewer, TornUnneeded
    <2>3. CASE Raises(p, line)
      <3>1. Fresh
        BY <1>1, <1>2, <1>10, <2>3, LineNewer DEF Raises
      <3>2. ~Calm' /\ TornUnneeded'
        BY <2>3 DEF Raises, Calm, TornUnneeded
      <3>3. TornNewer'
        BY <1>1, <1>2, <2>3 DEF Raises, TornNewer, Prior
      <3>4. QED
        BY <3>1, <3>2, <3>3
    <2>4. ASSUME NEW text \in {Garbage, line}, Tears(p, line, text)
          PROVE  Fresh /\ Same /\ TornNewer' /\ TornUnneeded'
      <3>1. index'[p] = Updated(p, line)[p] \/ index'[p] = Down
        BY <1>2, <1>3, <2>4 DEF Tears
      <3>2. /\ file' = Extended(file, text) /\ unterminated' = TRUE /\ acked' = acked
            /\ text \in Text /\ (~raised' => ~raised)
        BY <2>1, <2>4 DEF Tears
      <3>3. Fresh /\ TornNewer'
        BY <1>1, <1>2, <1>10, <3>1, <3>2, AppendBetween DEF TornNewer, Prior
      <3>4. ~Calm'
        BY <3>2 DEF Calm
      <3>5. ASSUME ~raised', NEW r \in RunId, Kept(r)'
            PROVE  Prior'[r] # None /\ Prior'[r].rev >= acked'[r]
        <4>1. /\ acked[r] > 0 /\ Replay(file')[r] # None
              /\ Replay(file')[r].rev >= acked[r] /\ ~raised
          BY <3>2, <3>5 DEF Kept
        <4>2. CASE unterminated
          BY <1>2, <3>2, <4>1, <4>2, ExtendedIs DEF Prior
        <4>3. CASE ~unterminated /\ Replay(file') = Replay(file)
          BY <1>2, <3>2, <4>1, <4>3, ExtendedIs DEF Prior
        <4>4. CASE ~unterminated /\ Replay(file') # Replay(file)
          <5>1. Clean(file)
            BY <1>2, <3>2, <4>4, ExtendedIs
          <5>2. Calm
            BY <1>2, <4>1, <4>4, <5>1, CalmIs
          <5>3. Replay(file)[r] # None /\ Replay(file)[r].rev >= acked[r]
            BY <1>2, <4>1, <5>2 DEF AckKept, AckDurable, Kept
          <5>4. QED
            BY <1>2, <3>2, <4>4, <5>3, ExtendedIs DEF Prior
        <4>5. QED
          BY <4>2, <4>3, <4>4
      <3>6. QED
        BY <3>3, <3>4, <3>5 DEF TornUnneeded
    <2>5. QED
      BY <1>10, <2>2, <2>3, <2>4 DEF Writes
  <1>11. QED
    BY <1>8, <1>9, <1>10

\* The invariant.
LEMMA SoloInductive == SoloInv /\ TypeOK' /\ AckKept' /\ [Next]_vars => SoloInv'
  <1> SUFFICES ASSUME SoloInv, TypeOK', AckKept', [Next]_vars PROVE SoloInv'
    OBVIOUS
  <1>1. TypeOK /\ AckKept /\ UpOpened /\ IndexNotBehind /\ ReplayAgrees
        /\ TornNewer /\ TornUnneeded
    BY DEF SoloInv
  <1>2. CASE UNCHANGED vars
    BY <1>1, <1>2 DEF SoloInv, vars, UpOpened, IndexNotBehind, ReplayAgrees, TornNewer,
                      TornUnneeded, Alone, Calm, Kept, Prior
  <1>3. CASE Next
    <2>1. PICK p \in Proc : Open(p) \/ Crash(p) \/ \E line \in Line : Writes(p, line)
      BY <1>1, <1>3, StepWrites
    <2>2. UpOpened'
      BY <1>1, <2>1, StepOpens
    <2>3. CASE ~Alone'
      BY <2>2, <2>3 DEF SoloInv, IndexNotBehind, ReplayAgrees, TornNewer, TornUnneeded
    <2>4. CASE Alone'
      BY <1>1, <2>1, <2>2, <2>4, SoloStep DEF SoloInv
    <2>5. QED
      BY <2>3, <2>4
  <1>4. QED
    BY <1>2, <1>3

\* The invariant holds of a new ledger, whose process has not been started.
LEMMA SoloInit == Init => SoloInv
  <1> SUFFICES ASSUME Init PROVE SoloInv
    OBVIOUS
  <1>1. TypeOK /\ AckKept
    BY InitType DEF Init, AckKept, AckDurable
  <1>2. QED
    BY <1>1 DEF Init, SoloInv, UpOpened, IndexNotBehind, ReplayAgrees, TornNewer, TornUnneeded

\* So it holds of every ledger.
LEMMA SoloInvariant == Spec => []SoloInv
  <1>1. Init => TypeOK /\ AckKept /\ SoloInv
    BY InitType, SoloInit DEF SoloInv
  <1>2. QED
    BY <1>1, SoloInductive, TypeCorrect, AckKeptCorrect, PTL DEF Spec

\* As long as one process uses the file and no append has failed or torn, what it
\* shows of a run is what a restart would rebuild, costs aside: each of the four
\* calls that build a record writes a line from which the replay builds the same.
THEOREM ReplayAgreesCorrect == Spec => []ReplayAgrees
  <1>1. SoloInv => ReplayAgrees
    BY DEF SoloInv
  <1>2. QED
    BY <1>1, SoloInvariant, PTL

\* As long as one process uses the file, it never shows an older state of a run
\* than a restart would, also when appends fail and tear.
THEOREM IndexNotBehindCorrect == Spec => []IndexNotBehind
  <1>1. SoloInv => IndexNotBehind
    BY DEF SoloInv
  <1>2. QED
    BY <1>1, SoloInvariant, PTL

\* Of any number of processes only one that has missed a line of another rolls a
\* run back, as long as no append fails or tears (_replay lets the last line win,
\* and a process reads the file only when it starts).
THEOREM OnlyStaleRollsBackCorrect == Spec => OnlyStaleRollsBack
  <1>1. ASSUME SoloInv, TypeOK', [Next]_vars, NEW r \in RunId, Calm', RolledBack(r)
        PROVE  \E p, q \in opened :
                 /\ p # q /\ index'[p] # index[p]
                 /\ index[p][r] # None => index[p][r].rev < Replay(file)[r].rev
    <2>1. TypeOK /\ UpOpened /\ IndexNotBehind
      BY <1>1 DEF SoloInv
    <2>2. /\ Replay(file) \in Map /\ Replay(file)[r] # None
          /\ Replay(file)[r] \in RunRecord /\ Replay(file)[r].rev \in Nat
      BY <1>1, <2>1, ReplaysTyped DEF RolledBack, Map, RunRecord
    <2>3. CASE UNCHANGED file
      <3>1. Replay(file') = Replay(file)
        BY <2>3
      <3>2. Replay(file)[r].rev < Replay(file)[r].rev
        BY <1>1, <2>2, <3>1 DEF RolledBack
      <3>3. QED
        BY <2>2, <3>2
    <2>4. ASSUME NEW p \in Proc, NEW line \in Line, Writes(p, line)
          PROVE  \E a, q \in opened :
                   /\ a # q /\ index'[a] # index[a]
                   /\ index[a][r] # None => index[a][r].rev < Replay(file)[r].rev
      <3>1. Returns(p, line) /\ Replay(file') = Applied(Replay(file), line)
        BY <1>1, <2>1, <2>4, CalmWrite
      <3>2. line.run \in RunId /\ line.rec \in RunRecord
        BY DEF Line
      <3>3. line.run = r
        BY <1>1, <2>2, <3>1, <3>2, AppliedType DEF RolledBack
      <3>4. Replay(file')[r] # None /\ Replay(file')[r].rev = line.rec.rev
        BY <2>2, <3>1, <3>3, AppliedRevision
      <3>5. line.rec.rev < Replay(file)[r].rev /\ line.rec.rev \in Nat
        BY <1>1, <3>2, <3>4 DEF RolledBack, RunRecord
      <3>6. /\ p \in opened /\ index[p] # Down /\ index[p] \in Map
            /\ Follows(line.rec, index[p][r])
        BY <2>1, <2>4, <3>3 DEF Writes, UpOpened, TypeOK, Map
      <3>7. index[p][r] # None =>
              index[p][r].rev \in Nat /\ index[p][r].rev < line.rec.rev
        BY <3>6 DEF Follows, Map, RunRecord
      <3>8. index[p][r] # None => index[p][r].rev < Replay(file)[r].rev
        BY <2>2, <3>5, <3>7
      <3>9. ~Alone
        BY <2>1, <2>2, <3>6, <3>7, <3>8 DEF IndexNotBehind
      <3>10. PICK q \in opened : q # p
        BY <3>9 DEF Alone
      <3>11. index'[p][r] = line.rec /\ line.rec # index[p][r]
        BY <2>1, <2>4, <3>1, <3>3, <3>5, <3>6, <3>7, UpdatedIs, NoneIsNoValue, <3>2 DEF Returns
      <3>12. QED
        BY <3>6, <3>8, <3>10, <3>11
    <2>5. QED
      BY <1>1, <2>1, <2>3, <2>4, StepWrites DEF Open, Crash, vars
  <1>2. SoloInv /\ TypeOK' /\ [Next]_vars =>
          [\A r \in RunId : Calm' /\ RolledBack(r) =>
             \E p, q \in opened :
               /\ p # q /\ index'[p] # index[p]
               /\ index[p][r] # None => index[p][r].rev < Replay(file)[r].rev]_vars
    BY <1>1
  <1>3. QED
    BY <1>2, SoloInvariant, TypeCorrect, PTL DEF Spec, OnlyStaleRollsBack

\* As long as no append has raised and one process uses the file, no crash, be it
\* inside an append, loses what a call returned and the file still had.
THEOREM CrashKeepsAckedCorrect == Spec => CrashKeepsAcked
  <1>1. ASSUME SoloInv, [Next]_vars, ~raised, Alone, NEW q \in Proc, index[q] # Down, index'[q] = Down,
               NEW r \in RunId, Kept(r)
        PROVE  Kept(r)'
    <2>1. TypeOK /\ IndexNotBehind /\ TornUnneeded
      BY <1>1 DEF SoloInv
    <2>2. index \in [Proc -> Map \cup {Down}] /\ Replay(file) \in Map
      BY <2>1, ReplaysTyped DEF TypeOK, Map
    <2>3. CASE UNCHANGED <<file, acked>>
      BY <1>1, <2>3 DEF Kept
    <2>4. ASSUME NEW p \in Proc, NEW line \in Line, Writes(p, line)
          PROVE  Kept(r)'
      <3>1. Updated(p, line) \in [Proc -> Map \cup {Down}] /\ Updated(p, line)[p] # Down
        BY <2>1, <2>4, UpdatedIs, MapUp DEF Writes
      <3>2. index' # Updated(p, line)
        <4>1. CASE q = p
          BY <1>1, <3>1, <4>1
        <4>2. CASE q # p
          BY <1>1, <2>1, <2>4, <4>2, UpdatedIs DEF Writes
        <4>3. QED
          BY <4>1, <4>2
      <3>3. PICK text \in {Garbage, line} : Tears(p, line, text)
        BY <2>4, <3>2 DEF Writes, Returns, Raises
      <3>4. file' = Extended(file, text) /\ acked' = acked /\ text \in Text
        BY <3>3 DEF Tears, Text
      <3>5. CASE unterminated
        <4>1. Replay(file') = Prior
          BY <2>1, <3>4, <3>5, ExtendedIs
        <4>2. QED
          BY <1>1, <2>1, <3>4, <3>5, <4>1 DEF TornUnneeded, Kept
      <3>6. CASE ~unterminated
        <4>1. \/ Replay(file') = Replay(file)
              \/ Replay(file') = Applied(Replay(file), line)
          BY <2>1, <3>4, <3>6, ExtendedIs
        <4>2. Below(Replay(file), Replay(file'))
          BY <1>1, <2>1, <2>2, <2>4, <4>1, BelowReflexive, LineNewer
        <4>3. /\ acked[r] \in Nat /\ acked[r] > 0 /\ Replay(file)[r] # None
              /\ Replay(file)[r].rev \in Nat /\ Replay(file)[r].rev >= acked[r]
          BY <1>1, <2>1, <2>2 DEF Kept, TypeOK, Map, RunRecord
        <4>4. /\ Replay(file')[r] # None /\ Replay(file')[r].rev >= Replay(file)[r].rev
              /\ Replay(file')[r].rev \in Nat
          <5>1. Replay(file') \in Map
            BY <2>1, <2>2, <4>1, AppliedType
          <5>2. QED
            BY <4>2, <4>3, <5>1 DEF Below, Map, RunRecord
        <4>5. QED
          BY <3>4, <4>3, <4>4 DEF Kept
      <3>7. QED
        BY <3>5, <3>6
    <2>5. QED
      BY <1>1, <2>1, <2>3, <2>4, StepWrites DEF Open, Crash, vars
  <1>2. SoloInv /\ [Next]_vars =>
          [~raised /\ Alone /\ (\E p \in Proc : index[p] # Down /\ index'[p] = Down)
             => \A r \in RunId : Kept(r) => Kept(r)']_vars
    BY <1>1
  <1>3. QED
    BY <1>2, SoloInvariant, PTL DEF Spec, CrashKeepsAcked

-----------------------------------------------------------------------------
(* The refinement.                                                         *)

\* The new ledger is the new abstract ledger.
LEMMA DurableInit == Init => Durable!Init
  <1> SUFFICES ASSUME Init PROVE Durable!Init
    OBVIOUS
  <1>3. TheView = Down
    BY DEF Init, TheView
  <1>4. Replay(file) = Empty
    BY ReplayEmpty DEF Init
  <1>5. Costless(Empty) = Empty
    BY DEF Costless, Empty
  <1>6. QED
    BY <1>3, <1>4, <1>5 DEF Durable!Init, Empty

\* Every step up to the first append that fails or tears is a step of the
\* abstract ledger or changes nothing it can see.
LEMMA DurableStep ==
  ASSUME SoloInv, TypeOK', Calm', Alone', NEW p \in Proc,
         Open(p) \/ Crash(p) \/ \E line \in Line : Writes(p, line)
  PROVE  Durable!Next
  <1>1. Alone /\ \A q \in Proc : index[q] # Down \/ index'[q] # Down => q = p
    <2>1. TypeOK /\ UpOpened
      BY DEF SoloInv
    <2>2. opened \subseteq opened' /\ p \in opened' /\ UpOpened'
      BY <2>1, StepOpens
    <2>3. QED
      BY <2>1, <2>2 DEF Alone, UpOpened
  <1>2. p \in Proc
    OBVIOUS
  <1>3. /\ TheView = IF index[p] = Down THEN Down ELSE Costless(index[p])
        /\ TheView' = IF index'[p] = Down THEN Down ELSE Costless(index'[p])
    <2>1. TheView' = IF index'[p] = Down THEN Down ELSE Costless(index'[p])
      <3>1. CASE index'[p] # Down
        <4>1. (CHOOSE q \in Proc : index'[q] # Down) = p
          BY <1>1, <3>1
        <4>2. QED
          BY <3>1, <4>1 DEF TheView
      <3>2. CASE index'[p] = Down
        BY <1>1, <3>2 DEF TheView
      <3>3. QED
        BY <3>1, <3>2
    <2>2. CASE index[p] # Down
      <3>1. (CHOOSE q \in Proc : index[q] # Down) = p
        BY <1>1, <2>2
      <3>2. QED
        BY <2>1, <2>2, <3>1 DEF TheView
    <2>3. CASE index[p] = Down
      BY <1>1, <2>1, <2>3 DEF TheView
    <2>4. QED
      BY <2>2, <2>3
  <1>4. TypeOK /\ ReplayAgrees /\ IndexNotBehind
    BY DEF SoloInv
  <1>5. /\ index \in [Proc -> Map \cup {Down}] /\ index' \in [Proc -> Map \cup {Down}]
        /\ Replay(file) \in Map
    BY <1>4, ReplaysTyped DEF TypeOK, Map
  <1>7. CASE Open(p)
    <2>1. index[p] = Down /\ index'[p] = Replay(file) /\ file' = file
      BY <1>2, <1>5, <1>7 DEF Open
    <2>2. TheView = Down /\ TheView' = Costless(Replay(file))
      BY <1>3, <1>5, <2>1, MapUp
    <2>3. Durable!Open
      BY <2>1, <2>2 DEF Durable!Open
    <2>4. QED
      BY <2>3 DEF Durable!Next
  <1>8. CASE Crash(p)
    <2>1. index[p] # Down /\ index[p] \in Map /\ index'[p] = Down /\ file' = file
      BY <1>2, <1>5, <1>8 DEF Crash
    <2>2. TheView # Down /\ TheView' = Down
      BY <1>3, <2>1, MapUp, CostlessIs
    <2>3. Durable!Crash
      BY <2>1, <2>2 DEF Durable!Crash
    <2>4. QED
      BY <2>3 DEF Durable!Next
  <1>9. ASSUME NEW line \in Line, Writes(p, line)
        PROVE  \E r \in RunId : Durable!Put(r)
    <2> DEFINE r == line.run
               stored == Costless(Replay(file))
               next == Costless(Replay(file'))
               old == index[p][r]
    <2>1. r \in RunId /\ line.rec \in RunRecord
      BY DEF Line
    <2>2. /\ Returns(p, line) /\ Calm /\ Replay(file') = Applied(Replay(file), line)
          /\ Applied(Replay(file), line) \in Map
      BY <1>2, <1>4, <1>5, <1>9, CalmWrite, AppliedType
    <2>3. /\ index[p] # Down /\ index[p] \in Map /\ Costless(index[p]) = stored
          /\ Follows(line.rec, old)
      BY <1>1, <1>2, <1>4, <1>5, <1>9, <2>2 DEF ReplayAgrees, Writes
    <2>4. /\ index'[p] \in Map /\ index'[p][r] = line.rec
          /\ index'[p] # Down /\ Costless(index'[p]) = next
      BY <1>1, <1>2, <1>4, <1>9, <2>2, <2>3, UpdatedIs, LineAgrees, MapUp DEF Returns
    <2>5. ASSUME NEW q \in RunId, q # r PROVE next[q] = stored[q]
      <3>1. Replay(file')[q] = Replay(file)[q]
        BY <1>5, <2>2, <2>5, AppliedType
      <3>2. QED
        BY <1>5, <2>2, <3>1, CostlessIs
    <2>6. next[r] = Strip(line.rec)
      <3>1. next[r] = Costless(index'[p])[r]
        BY <2>4
      <3>2. line.rec # None
        BY <2>1, NoneIsNoValue
      <3>3. QED
        BY <2>1, <2>4, <3>1, <3>2, CostlessIs
    <2>7. old \in RunRecord \cup {None} /\ stored[r] = IF old = None THEN None ELSE Strip(old)
      BY <2>1, <2>3, CostlessIs DEF Map
    <2>8. stored \in Map /\ next \in Map
      BY <1>5, <2>2, CostlessIs
    <2>9. TheView # Down /\ TheView' = next
      BY <1>3, <2>3, <2>4, <2>8, MapUp
    <2> HIDE DEF stored, next, old, r
    <2>10. next = [stored EXCEPT ![r] = next[r]]
      BY <2>1, <2>5, <2>8 DEF Map
    <2>11. /\ next[r] # None
           /\ next[r].rev = IF stored[r] = None THEN 1 ELSE stored[r].rev + 1
           /\ stored[r] = None => next[r].state = "running" /\ next[r].phase = None
           /\ stored[r] # None /\ stored[r].cursor # None => next[r].cursor # None
           /\ stored[r] # None /\ stored[r].ctx # None => next[r].ctx # None
      <3>1. CASE old = None
        BY <2>1, <2>3, <2>6, <2>7, <3>1, StripIs DEF Follows
      <3>2. CASE old # None
        BY <2>1, <2>3, <2>6, <2>7, <3>2, StripIs DEF Follows
      <3>3. QED
        BY <3>1, <3>2
    <2>12. Durable!Put(r)
      BY <2>9, <2>10, <2>11 DEF Durable!Put, stored, next
    <2>13. QED
      BY <2>1, <2>12
  <1>10. QED
    BY <1>7, <1>8, <1>9 DEF Durable!Next

\* As long as one process uses the file and no append has failed or torn, the
\* ledger implements DurableLedger: a completed call changes one record in one
\* step, a crash between calls changes nothing, a restart shows what is stored.
\* Behind the first append that fails or tears nothing is claimed.
THEOREM DurableCorrect == Spec => ImplementsDurable
  <1>1. Init => Durable!Init
    BY DurableInit
  <1>2. ASSUME SoloInv, TypeOK', [Next]_vars
        PROVE  [Durable!Next \/ ~Calm' \/ ~Alone']_<<Costless(Replay(file)), TheView>>
    <2>1. CASE UNCHANGED vars
      BY <2>1 DEF vars, TheView
    <2>2. CASE Next
      <3>1. TypeOK
        BY <1>2 DEF SoloInv
      <3>2. PICK p \in Proc : Open(p) \/ Crash(p) \/ \E line \in Line : Writes(p, line)
        BY <2>2, <3>1, StepWrites
      <3>3. QED
        BY <1>2, <3>2, DurableStep
    <2>3. QED
      BY <1>2, <2>1, <2>2
  <1>3. SoloInv /\ TypeOK' /\ [Next]_vars =>
          [Durable!Next \/ ~Calm' \/ ~Alone']_<<Costless(Replay(file)), TheView>>
    BY <1>2
  <1>4. QED
    BY <1>1, <1>3, SoloInvariant, TypeCorrect, PTL DEF Spec, ImplementsDurable

=============================================================================
