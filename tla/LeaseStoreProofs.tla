-------------------------- MODULE LeaseStoreProofs --------------------------
(***************************************************************************)
(* Leases, for any sets of runs, workers and processes and any TTL: typing,*)
(* no theft before expiry, and mutual exclusion of the workers of one      *)
(* process that renew in time.                                             *)
(***************************************************************************)
EXTENDS LeaseStore, TLAPS

\* A map of leases.
Leases == [RunId -> Lease \cup {None}]

\* What a lease in a map consists of.
LEMMA LeaseFields ==
  ASSUME NEW m \in Leases, NEW r \in RunId, m[r] # None
  PROVE  m[r] \in Lease /\ m[r].owner \in Worker /\ m[r].left \in 0..TTL
  BY DEF Leases, Lease

\* The lease functions keep maps of leases.
LEMMA MapTypes ==
  ASSUME NEW m \in Leases
  PROVE  Unexpired(m) \in Leases /\ Older(m) \in Leases
  <1>1. Unexpired(m) \in Leases
    BY DEF Unexpired, Leases
  <1>2. ASSUME NEW r \in RunId, m[r] # None, ~Expired(m[r])
        PROVE  [m[r] EXCEPT !.left = @ - 1] \in Lease
    BY <1>2, LeaseFields, LeaseAssumption DEF Expired, Lease
  <1>3. Older(m) \in Leases
    BY <1>2 DEF Older, Leases
  <1>4. QED
    BY <1>1, <1>3

\* What a process sees is a map of leases.
LEMMA SeenType ==
  ASSUME TypeOK, NEW p \in Proc
  PROVE  Seen(p) \in Leases
  BY DEF TypeOK, Seen, Leases

\* Every step preserves typing.
LEMMA TypeInductive == TypeOK /\ [Next]_vars => TypeOK'
  <1> SUFFICES ASSUME TypeOK, [Next]_vars PROVE TypeOK'
    OBVIOUS
  <1>1. /\ disk \in Leases /\ cache \in [Proc -> Leases]
        /\ loaded \in [Proc -> BOOLEAN]
        /\ taking \in [Worker -> RunId \cup {None}]
        /\ holds \in [Worker -> RunId \cup {None}]
        /\ over \in SUBSET Worker /\ late \in SUBSET Worker /\ raced \in SUBSET Worker
        /\ home \in [Worker -> Proc]
        /\ \A w \in Worker : home[w] \in Proc
    BY DEF TypeOK, Leases
  <1>2. ASSUME NEW p \in Proc, NEW m \in Leases, Keep(p, m)
        PROVE  /\ cache' \in [Proc -> Leases] /\ loaded' \in [Proc -> BOOLEAN]
               /\ home' = home /\ late' = late
    BY <1>1, <1>2 DEF Keep
  <1>3. ASSUME NEW w \in Worker, NEW r \in RunId, NEW n \in 0..TTL
        PROVE  /\ [owner |-> w, left |-> n] \in Lease
               /\ \A lease \in Lease : [lease EXCEPT !.left = n] \in Lease
    BY DEF Lease
  <1>4. TTL \in 0..TTL
    BY LeaseAssumption
  <1>5. CASE Tick
    BY <1>1, <1>5, MapTypes DEF Tick, TypeOK, Leases
  <1>6. ASSUME NEW w \in Worker, RecoverExpired(w) PROVE TypeOK'
    <2>1. Unexpired(Seen(home[w])) \in Leases
      BY <1>1, SeenType, MapTypes
    <2>2. QED
      BY <1>1, <1>2, <1>6, <2>1 DEF RecoverExpired, Flush, TypeOK, Leases
  <1>7. ASSUME NEW p \in Proc, Crash(p) PROVE TypeOK'
    <2>1. NoLeases \in Leases
      BY DEF NoLeases, Leases
    <2>2. QED
      BY <1>1, <1>7, <2>1 DEF Crash, TypeOK, Leases
  <1>8. ASSUME NEW w \in Worker, NEW r \in RunId, Acquire(w, r) PROVE TypeOK'
    <2> DEFINE m == [cache[home[w]] EXCEPT ![r] = [owner |-> w, left |-> TTL]]
    <2>1. m \in Leases
      BY <1>1, <1>3, <1>4 DEF Leases
    <2>2. Keep(home[w], m) /\ disk' = m
      BY <1>8 DEF Acquire, Flush
    <2>3. Race(w, r) \in SUBSET Worker
      BY DEF Race
    <2> HIDE DEF m
    <2>4. QED
      BY <1>1, <1>2, <1>8, <2>1, <2>2, <2>3 DEF Acquire, TypeOK, Leases
  <1>9. ASSUME NEW w \in Worker, NEW r \in RunId, Check(w, r) \/ AcquireConflict(w, r)
        PROVE  TypeOK'
    <2>1. Seen(home[w]) \in Leases /\ Keep(home[w], Seen(home[w]))
      BY <1>1, <1>9, SeenType DEF Check, AcquireConflict
    <2>2. /\ cache' \in [Proc -> Leases] /\ loaded' \in [Proc -> BOOLEAN]
          /\ home' = home /\ late' = late
      BY <1>1, <1>2, <2>1
    <2>3. /\ taking' \in [Worker -> RunId \cup {None}]
          /\ UNCHANGED <<disk, holds, over, raced>>
      BY <1>1, <1>9 DEF Check, AcquireConflict
    <2>4. QED
      BY <1>1, <2>2, <2>3 DEF TypeOK, Leases
  <1>10. ASSUME NEW w \in Worker, Renew(w) PROVE TypeOK'
    <2> DEFINE m == [cache[home[w]] EXCEPT ![holds[w]].left = TTL]
    <2>1. holds[w] \in RunId /\ cache[home[w]] \in Leases /\ cache[home[w]][holds[w]] # None
      BY <1>1, <1>10 DEF Renew
    <2>2. m \in Leases
      BY <1>3, <1>4, <2>1, LeaseFields DEF Leases
    <2>3. Keep(home[w], m) /\ disk' = m
      BY <1>10 DEF Renew, Flush
    <2>4. Race(w, holds[w]) \in SUBSET Worker
      BY DEF Race
    <2> HIDE DEF m
    <2>5. QED
      BY <1>1, <1>2, <1>10, <2>2, <2>3, <2>4 DEF Renew, TypeOK, Leases
  <1>11. ASSUME NEW w \in Worker, RenewFails(w) PROVE TypeOK'
    BY <1>1, <1>11 DEF RenewFails, TypeOK, Leases
  <1>12. ASSUME NEW w \in Worker, Release(w) PROVE TypeOK'
    <2> DEFINE m == [cache[home[w]] EXCEPT ![holds[w]] = None]
    <2>1. m \in Leases
      BY <1>1 DEF Leases
    <2> HIDE DEF m
    <2>2. \/ Keep(home[w], m) /\ disk' = m
          \/ UNCHANGED <<home, disk, cache, loaded, late>>
      BY <1>12 DEF Release, Flush, m
    <2>3. QED
      BY <1>1, <1>2, <1>12, <2>1, <2>2 DEF Release, TypeOK, Leases
  <1>13. ASSUME NEW w \in Worker, Escape(w) PROVE TypeOK'
    BY <1>1, <1>13 DEF Escape, TypeOK, Leases
  <1>14. CASE UNCHANGED vars
    BY <1>14 DEF vars, TypeOK
  <1>15. QED
    BY <1>5, <1>6, <1>7, <1>8, <1>9, <1>10, <1>11, <1>12, <1>13, <1>14 DEF Next

\* The state is always well typed.
THEOREM TypeCorrect == Spec => []TypeOK
  <1>1. Init => TypeOK
    BY DEF Init, TypeOK, NoLeases
  <1>2. QED
    BY <1>1, TypeInductive, PTL DEF Spec

-----------------------------------------------------------------------------
(* What keeps another worker of the process away is its cache: a live lease *)
(* it shows stays its owner's through every step of anybody, for as long as *)
(* the owner believes that it holds it.                                     *)

\* Process p shows a lease of worker v on run r that has not expired.
Shows(p, r, v) ==
  loaded[p] /\ cache[p][r] # None /\ cache[p][r].owner = v /\ cache[p][r].left # 0

\* A step under which v goes on holding r, and nobody of its process writes a new
\* lease of r, keeps its live lease its own; it expires only by a tick that puts
\* v among the late.
LEMMA LeaseKept ==
  ASSUME TypeOK, [Next]_vars,
         NEW v \in Worker, NEW p \in Proc, NEW r \in RunId,
         p = home[v], holds[v] = r, holds'[v] = r, Shows(p, r, v),
         \A w \in Worker : home[w] = p => ~Acquire(w, r)
  PROVE  /\ loaded'[p] /\ cache'[p][r] # None /\ cache'[p][r].owner = v
         /\ v \notin late' => cache'[p][r].left # 0
  <1>1. /\ disk \in Leases /\ cache \in [Proc -> Leases]
        /\ loaded \in [Proc -> BOOLEAN]
        /\ holds \in [Worker -> RunId \cup {None}]
        /\ \A w \in Worker : home[w] \in Proc
        /\ \A q \in Proc : Seen(q) \in Leases
    BY SeenType DEF TypeOK, Leases
  <1>2. /\ loaded[p] /\ Seen(p) = cache[p] /\ r # None
        /\ cache[p][r] # None /\ cache[p][r] \in Lease
        /\ cache[p][r].owner = v /\ cache[p][r].left \in 1..TTL
    BY <1>1, LeaseFields, LeaseAssumption DEF Shows, Seen
  <1> DEFINE Kept == /\ loaded'[p] /\ cache'[p][r] # None
                     /\ cache'[p][r].owner = v /\ cache'[p][r].left # 0
  <1>3. SUFFICES ASSUME ~Tick PROVE Kept
    <2>1. CASE Tick
      <3>1. /\ loaded'[p] = loaded[p]
            /\ cache'[p][r] = [cache[p][r] EXCEPT !.left = @ - 1]
        <4>1. loaded'[p] = loaded[p] /\ cache'[p] = Older(cache[p])
          BY <2>1 DEF Tick
        <4>2. cache'[p][r] = Older(cache[p])[r]
          BY <4>1
        <4>3. QED
          BY <1>2, <4>1, <4>2 DEF Older, Expired
      <3>2. cache[p][r].left = 1 => v \in late'
        BY <1>2, <2>1 DEF Tick, Due
      <3>3. cache'[p][r] \in Lease
        BY <1>2, <3>1, LeaseAssumption DEF Lease
      <3>4. cache'[p][r].left = cache[p][r].left - 1 /\ cache'[p][r].owner = v
        BY <1>2, <3>1 DEF Lease
      <3>5. QED
        BY <1>2, <3>1, <3>2, <3>3, <3>4, LeaseAssumption
    <2>2. QED
      BY <2>1
  <1>4. ASSUME NEW w \in Worker, RecoverExpired(w) PROVE Kept
    <2>1. /\ cache' = [cache EXCEPT ![home[w]] = Unexpired(Seen(home[w]))]
          /\ loaded' = [loaded EXCEPT ![home[w]] = TRUE]
      BY <1>4 DEF RecoverExpired, Flush, Keep
    <2>2. Unexpired(Seen(p))[r] = cache[p][r]
      BY <1>2 DEF Unexpired, Expired
    <2>3. cache'[p][r] = cache[p][r] /\ loaded'[p]
      BY <1>1, <1>2, <2>1, <2>2
    <2>4. QED
      BY <1>2, <2>3
  <1>5. ASSUME NEW q \in Proc, Crash(q) PROVE Kept
    <2> DEFINE dead == {w \in Worker : home[w] = q /\ (taking[w] # None \/ holds[w] # None)}
    <2>1. holds'[v] = IF v \in dead THEN None ELSE holds[v]
      BY <1>5 DEF Crash
    <2>2. p # q
      BY <1>2, <2>1
    <2>3. cache'[p] = cache[p] /\ loaded'[p] = loaded[p]
      BY <1>5, <2>2 DEF Crash
    <2>4. QED
      BY <1>2, <2>3
  <1>6. ASSUME NEW w \in Worker, NEW q \in RunId, Acquire(w, q) PROVE Kept
    <2> DEFINE m == [cache[home[w]] EXCEPT ![q] = [owner |-> w, left |-> TTL]]
    <2>1. /\ cache' = [cache EXCEPT ![home[w]] = m]
          /\ loaded' = [loaded EXCEPT ![home[w]] = TRUE]
      BY <1>6 DEF Acquire, Flush, Keep
    <2>2. ~(home[w] = p /\ q = r)
      BY <1>6
    <2>3. cache'[p][r] = cache[p][r] /\ loaded'[p]
      BY <1>1, <1>2, <2>1, <2>2
    <2>4. QED
      BY <1>2, <2>3
  <1>7. ASSUME NEW w \in Worker, NEW q \in RunId, Check(w, q) \/ AcquireConflict(w, q)
        PROVE  Kept
    <2>1. /\ cache' = [cache EXCEPT ![home[w]] = Seen(home[w])]
          /\ loaded' = [loaded EXCEPT ![home[w]] = TRUE]
      BY <1>7 DEF Check, AcquireConflict, Keep
    <2>2. QED
      BY <1>1, <1>2, <2>1
  <1>8. ASSUME NEW w \in Worker, Renew(w) PROVE Kept
    <2>1. /\ cache' = [cache EXCEPT ![home[w]] = [cache[home[w]] EXCEPT ![holds[w]].left = TTL]]
          /\ loaded' = [loaded EXCEPT ![home[w]] = TRUE]
      BY <1>8 DEF Renew, Flush, Keep
    <2>2. loaded'[p]
      BY <1>1, <1>2, <2>1
    <2>3. CASE home[w] = p /\ holds[w] = r
      <3>1. cache'[p][r] = [cache[p][r] EXCEPT !.left = TTL]
        BY <1>1, <2>1, <2>3 DEF Leases
      <3>2. cache'[p][r] \in Lease /\ cache'[p][r].owner = v /\ cache'[p][r].left = TTL
        BY <1>2, <3>1, LeaseAssumption DEF Lease
      <3>3. QED
        BY <2>2, <3>2, LeaseAssumption
    <2>4. CASE ~(home[w] = p /\ holds[w] = r)
      <3>1. cache'[p][r] = cache[p][r]
        BY <1>1, <1>2, <2>1, <2>4 DEF Leases
      <3>2. QED
        BY <1>2, <2>2, <3>1
    <2>5. QED
      BY <2>3, <2>4
  <1>9. ASSUME NEW w \in Worker, RenewFails(w) PROVE Kept
    BY <1>1, <1>2, <1>9 DEF RenewFails
  <1>10. ASSUME NEW w \in Worker, Release(w) PROVE Kept
    <2>1. v # w
      BY <1>1, <1>2, <1>10 DEF Release
    <2>2. CASE cache[home[w]][holds[w]] # None /\ cache[home[w]][holds[w]].owner = w
      <3>1. /\ cache' = [cache EXCEPT ![home[w]] = [cache[home[w]] EXCEPT ![holds[w]] = None]]
            /\ loaded' = [loaded EXCEPT ![home[w]] = TRUE]
        BY <1>10, <2>2 DEF Release, Flush, Keep
      <3>2. ~(home[w] = p /\ holds[w] = r)
        BY <1>2, <2>1, <2>2
      <3>3. cache'[p][r] = cache[p][r] /\ loaded'[p]
        BY <1>1, <1>2, <3>1, <3>2 DEF Leases
      <3>4. QED
        BY <1>2, <3>3
    <2>3. CASE ~(cache[home[w]][holds[w]] # None /\ cache[home[w]][holds[w]].owner = w)
      BY <1>2, <1>10, <2>3 DEF Release
    <2>4. QED
      BY <2>2, <2>3
  <1>11. ASSUME NEW w \in Worker, Escape(w) PROVE Kept
    BY <1>1, <1>2, <1>11 DEF Escape
  <1>12. CASE UNCHANGED vars
    BY <1>2, <1>12 DEF vars
  <1>13. QED
    BY <1>3, <1>4, <1>5, <1>6, <1>7, <1>8, <1>9, <1>10, <1>11, <1>12 DEF Next

-----------------------------------------------------------------------------
(* Mutual exclusion. Exclusive is not inductive by itself: a worker that is *)
(* neither late nor in a race is backed by a live lease in the cache of its *)
(* process, that lease has one owner, and nobody is about to write over it. *)

Clear(w) == w \notin late \cup raced

HoldersBacked ==
  \A w \in Worker : holds[w] # None /\ Clear(w) => Shows(home[w], holds[w], w)

\* What a worker between the check and the write of acquire can rely on.
TakersSound ==
  \A w \in Worker : taking[w] # None =>
    /\ w \notin over /\ holds[w] = None /\ loaded[home[w]]
    /\ w \notin raced => Free(cache[home[w]], taking[w])

NoRival ==
  \A w, v \in Worker :
    home[w] = home[v] /\ taking[w] # None /\ holds[v] = taking[w] => ~Clear(v)

\* The variables that never change, or only grow.
LEMMA Frozen == [Next]_vars => home' = home /\ late \subseteq late' /\ raced \subseteq raced'
  BY DEF Next, Tick, RecoverExpired, Crash, Check, Acquire, AcquireConflict, Renew,
         RenewFails, Release, Escape, Flush, Keep, vars

\* A worker comes to hold a run only by acquiring its lease.
LEMMA HoldingStarts ==
  ASSUME TypeOK, [Next]_vars, NEW v \in Worker, holds'[v] # None, holds'[v] # holds[v]
  PROVE  \E r \in RunId : Acquire(v, r)
  <1>1. holds \in [Worker -> RunId \cup {None}]
    BY DEF TypeOK
  <1>2. ASSUME NEW w \in Worker, NEW r \in RunId, Acquire(w, r) PROVE w = v
    BY <1>1, <1>2 DEF Acquire
  <1>3. ASSUME NEW p \in Proc, Crash(p) PROVE FALSE
    BY <1>1, <1>3 DEF Crash
  <1>4. QED
    BY <1>1, <1>2, <1>3 DEF Next, Tick, RecoverExpired, Check, AcquireConflict, Renew,
                            RenewFails, Release, Escape, vars

\* A worker comes to be about to take a run only by its check.
LEMMA TakingStarts ==
  ASSUME TypeOK, [Next]_vars, NEW v \in Worker, taking'[v] # None, taking'[v] # taking[v]
  PROVE  \E r \in RunId : Check(v, r)
  <1>1. taking \in [Worker -> RunId \cup {None}]
    BY DEF TypeOK
  <1>2. ASSUME NEW w \in Worker, NEW r \in RunId, Check(w, r) PROVE w = v
    BY <1>1, <1>2 DEF Check
  <1>3. ASSUME NEW p \in Proc, Crash(p) PROVE FALSE
    BY <1>1, <1>3 DEF Crash
  <1>4. ASSUME NEW w \in Worker, NEW r \in RunId, Acquire(w, r) PROVE FALSE
    BY <1>1, <1>4 DEF Acquire
  <1>5. QED
    BY <1>1, <1>2, <1>3, <1>4 DEF Next, Tick, RecoverExpired, AcquireConflict, Renew,
                                  RenewFails, Release, Escape, vars

\* A worker goes on taking its run, or holding it, only if its process lives.
LEMMA Survives ==
  ASSUME TypeOK, [Next]_vars, NEW v \in Worker, loaded[home[v]],
         \/ taking[v] # None /\ taking'[v] = taking[v]
         \/ holds[v] # None /\ holds'[v] = holds[v]
  PROVE  loaded'[home[v]]
  <1>1. loaded \in [Proc -> BOOLEAN] /\ \A w \in Worker : home[w] \in Proc
    BY DEF TypeOK
  <1>2. ASSUME NEW p \in Proc, NEW m, Keep(p, m) PROVE loaded'[home[v]]
    BY <1>1, <1>2 DEF Keep
  <1>3. ASSUME NEW p \in Proc, Crash(p) PROVE loaded'[home[v]]
    <2>1. p # home[v]
      BY <1>3 DEF Crash
    <2>2. QED
      BY <1>1, <1>3, <2>1 DEF Crash
  <1>4. ASSUME UNCHANGED loaded PROVE loaded'[home[v]]
    BY <1>4
  <1>5. QED
    BY <1>1, <1>2, <1>3, <1>4
       DEF Next, Tick, RecoverExpired, Check, Acquire, AcquireConflict, Renew, RenewFails,
           Release, Escape, Flush, vars

\* A run that is free stays so for whoever is about to take it, unless the one
\* who writes its lease marks him.
LEMMA FreeKept ==
  ASSUME TypeOK, [Next]_vars, NEW v \in Worker, NEW r \in RunId, taking[v] = r, holds[v] = None,
         taking'[v] = r, v \notin raced', loaded[home[v]], Free(cache[home[v]], r)
  PROVE  Free(cache[home[v]], r)'
  <1>1. /\ cache \in [Proc -> Leases] /\ loaded \in [Proc -> BOOLEAN]
        /\ taking \in [Worker -> RunId \cup {None}]
        /\ holds \in [Worker -> RunId \cup {None}]
        /\ \A w \in Worker : home[w] \in Proc
        /\ None \notin RunId /\ home' = home
    BY Frozen, LeaseAssumption DEF TypeOK, Leases
  <1>2. PICK p \in Proc : p = home[v]
    BY <1>1
  <1>3. loaded[p] /\ Seen(p) = cache[p] /\ cache[p] \in Leases
    BY <1>1, <1>2 DEF Seen
  <1>4. Free(cache[p], r)
    BY <1>2
  <1>5. SUFFICES Free(cache'[p], r)
    BY <1>1, <1>2 DEF Free, Expired
  <1>6. ASSUME cache'[p][r] = cache[p][r] PROVE Free(cache'[p], r)
    BY <1>4, <1>6 DEF Free, Expired
  <1>7. ASSUME NEW q \in Proc, NEW m, Keep(q, m)
        PROVE  cache'[p] = IF q = p THEN m ELSE cache[p]
    BY <1>1, <1>7 DEF Keep
  <1>8. CASE Tick
    <2>1. cache'[p] = Older(cache[p])
      BY <1>8 DEF Tick
    <2>2. cache'[p][r] = cache[p][r]
      BY <1>4, <2>1 DEF Older, Free, Expired
    <2>3. QED
      BY <1>6, <2>2
  <1>9. ASSUME NEW w \in Worker, RecoverExpired(w) PROVE Free(cache'[p], r)
    <2>1. Keep(home[w], Unexpired(Seen(home[w])))
      BY <1>9 DEF RecoverExpired, Flush
    <2>2. CASE home[w] = p
      <3>1. cache'[p][r] = Unexpired(cache[p])[r]
        BY <1>3, <1>7, <2>1, <2>2
      <3>2. QED
        BY <1>4, <3>1 DEF Unexpired, Free
    <2>3. CASE home[w] # p
      BY <1>1, <1>6, <1>7, <2>1, <2>3
    <2>4. QED
      BY <2>2, <2>3
  <1>10. ASSUME NEW q \in Proc, Crash(q) PROVE Free(cache'[p], r)
    <2>1. q # p
      BY <1>1, <1>2, <1>10 DEF Crash
    <2>2. QED
      BY <1>6, <1>10, <2>1 DEF Crash
  <1>11. ASSUME NEW w \in Worker, NEW q \in RunId, Check(w, q) \/ AcquireConflict(w, q)
         PROVE  Free(cache'[p], r)
    <2>1. Keep(home[w], Seen(home[w]))
      BY <1>11 DEF Check, AcquireConflict
    <2>2. cache'[p] = cache[p]
      BY <1>1, <1>3, <1>7, <2>1
    <2>3. QED
      BY <1>6, <2>2
  <1>12. ASSUME NEW w \in Worker, w # v, home[w] = p, raced' = raced \cup Race(w, r)
         PROVE  FALSE
    BY <1>2, <1>12 DEF Race
  <1>13. ASSUME NEW w \in Worker, NEW q \in RunId, Acquire(w, q) PROVE Free(cache'[p], r)
    <2>1. w # v
      BY <1>1, <1>13 DEF Acquire
    <2>2. ~(home[w] = p /\ q = r)
      BY <1>12, <1>13, <2>1 DEF Acquire
    <2>3. Keep(home[w], [cache[home[w]] EXCEPT ![q] = [owner |-> w, left |-> TTL]])
      BY <1>13 DEF Acquire, Flush
    <2>4. cache'[p][r] = cache[p][r]
      BY <1>1, <1>3, <1>7, <2>2, <2>3 DEF Leases
    <2>5. QED
      BY <1>6, <2>4
  <1>14. ASSUME NEW w \in Worker, Renew(w) PROVE Free(cache'[p], r)
    <2>1. w # v
      BY <1>14 DEF Renew
    <2>2. ~(home[w] = p /\ holds[w] = r)
      BY <1>12, <1>14, <2>1 DEF Renew
    <2>3. Keep(home[w], [cache[home[w]] EXCEPT ![holds[w]].left = TTL])
      BY <1>14 DEF Renew, Flush
    <2>4. cache'[p][r] = cache[p][r]
      BY <1>1, <1>3, <1>7, <2>2, <2>3 DEF Leases
    <2>5. QED
      BY <1>6, <2>4
  <1>15. ASSUME NEW w \in Worker, Release(w) PROVE Free(cache'[p], r)
    <2>1. CASE UNCHANGED cache
      BY <1>6, <2>1
    <2>2. CASE Keep(home[w], [cache[home[w]] EXCEPT ![holds[w]] = None])
      <3>1. cache'[p][r] = None \/ cache'[p][r] = cache[p][r]
        BY <1>1, <1>3, <1>7, <2>2 DEF Leases
      <3>2. QED
        BY <1>6, <3>1 DEF Free
    <2>3. QED
      BY <1>15, <2>1, <2>2 DEF Release, Flush
  <1>16. CASE UNCHANGED cache
    BY <1>6, <1>16
  <1>17. QED
    BY <1>8, <1>9, <1>10, <1>11, <1>13, <1>14, <1>15, <1>16 DEF Next, RenewFails, Escape, vars

\* What a taker relies on stays so.
LEMMA TakersInductive ==
  ASSUME TypeOK, TakersSound, [Next]_vars
  PROVE  TakersSound'
  <1>1. /\ taking \in [Worker -> RunId \cup {None}] /\ holds \in [Worker -> RunId \cup {None}]
        /\ cache \in [Proc -> Leases] /\ loaded \in [Proc -> BOOLEAN]
        /\ \A w \in Worker : home[w] \in Proc
        /\ home' = home /\ raced \subseteq raced' /\ None \notin RunId
    BY Frozen, LeaseAssumption DEF TypeOK, Leases
  <1>2. SUFFICES ASSUME NEW v \in Worker, taking'[v] # None
                 PROVE  /\ v \notin over' /\ holds'[v] = None /\ loaded'[home[v]]
                        /\ v \notin raced' => Free(cache[home[v]], taking[v])'
    BY <1>1 DEF TakersSound
  <1>3. CASE taking'[v] = taking[v]
    <2>1. /\ v \notin over /\ holds[v] = None /\ loaded[home[v]]
          /\ v \notin raced => Free(cache[home[v]], taking[v])
      BY <1>2, <1>3 DEF TakersSound
    <2>2. v \notin over' /\ holds'[v] = None
      BY <1>1, <1>2, <1>3, <2>1
         DEF Next, Tick, RecoverExpired, Crash, Check, Acquire, AcquireConflict, Renew,
             RenewFails, Release, Escape, vars
    <2>3. loaded'[home[v]]
      BY <1>2, <1>3, <2>1, Survives
    <2>4. PICK r \in RunId : r = taking[v]
      BY <1>1, <1>2, <1>3
    <2>5. ASSUME v \notin raced' PROVE Free(cache[home[v]], taking[v])'
      <3>1. Free(cache[home[v]], r)
        BY <1>1, <2>1, <2>4, <2>5
      <3>2. Free(cache[home[v]], r)'
        BY <1>3, <2>1, <2>4, <2>5, <3>1, FreeKept
      <3>3. taking'[v] = r
        BY <1>3, <2>4
      <3>4. QED
        BY <3>2, <3>3 DEF Free, Expired
    <2>6. QED
      BY <2>2, <2>3, <2>5
  <1>4. CASE taking'[v] # taking[v]
    <2>1. PICK r \in RunId : Check(v, r)
      BY <1>2, <1>4, TakingStarts
    <2>2. /\ cache' = [cache EXCEPT ![home[v]] = Seen(home[v])] /\ taking'[v] = r
          /\ loaded' = [loaded EXCEPT ![home[v]] = TRUE] /\ Free(Seen(home[v]), r)
          /\ v \notin over /\ holds[v] = None /\ UNCHANGED <<over, holds, home>>
      BY <1>1, <2>1 DEF Check, Asking, Keep
    <2>3. cache'[home[v]] = Seen(home[v]) /\ loaded'[home[v]]
      BY <1>1, <2>2
    <2>4. Free(cache'[home'[v]], taking'[v])
      BY <1>1, <2>2, <2>3
    <2>5. Free(cache[home[v]], taking[v])'
      BY <2>4 DEF Free, Expired
    <2>6. QED
      BY <2>2, <2>3, <2>5
  <1>5. QED
    BY <1>3, <1>4

\* Nobody is about to write over a worker that renews in time and raced nobody.
LEMMA NoRivalInductive ==
  ASSUME TypeOK, HoldersBacked, NoRival, [Next]_vars
  PROVE  NoRival'
  <1>1. /\ taking \in [Worker -> RunId \cup {None}] /\ holds \in [Worker -> RunId \cup {None}]
        /\ \A w \in Worker : home[w] \in Proc
        /\ home' = home /\ raced \subseteq raced' /\ late \subseteq late' /\ None \notin RunId
    BY Frozen, LeaseAssumption DEF TypeOK
  <1>2. SUFFICES ASSUME NEW w \in Worker, NEW v \in Worker, home[w] = home[v],
                        taking'[w] # None, holds'[v] = taking'[w], Clear(v)'
                 PROVE  FALSE
    BY <1>1 DEF NoRival
  <1>3. Clear(v)
    BY <1>1, <1>2 DEF Clear
  <1>4. CASE taking'[w] # taking[w]
    <2>1. PICK r \in RunId : Check(w, r)
      BY <1>2, <1>4, TakingStarts
    <2>2. taking'[w] = r /\ holds[v] = r /\ Free(Seen(home[w]), r)
      BY <1>1, <1>2, <2>1 DEF Check
    <2>3. Shows(home[v], r, v)
      BY <1>1, <1>3, <2>2 DEF HoldersBacked
    <2>4. QED
      BY <1>2, <2>2, <2>3 DEF Shows, Seen, Free, Expired
  <1>5. CASE taking'[w] = taking[w] /\ holds'[v] # holds[v]
    <2>1. PICK r \in RunId : Acquire(v, r)
      BY <1>2, <1>5, HoldingStarts
    <2>2. taking'[v] = None /\ holds'[v] = r /\ raced' = raced \cup Race(v, r)
      BY <1>1, <2>1 DEF Acquire
    <2>3. w # v /\ taking[w] = r
      BY <1>2, <1>5, <2>2
    <2>4. v \in Race(v, r)
      BY <1>2, <2>3 DEF Race
    <2>5. QED
      BY <1>2, <2>2, <2>4 DEF Clear
  <1>6. CASE taking'[w] = taking[w] /\ holds'[v] = holds[v]
    BY <1>2, <1>3, <1>6 DEF NoRival
  <1>7. QED
    BY <1>4, <1>5, <1>6

\* Workers that renew in time and raced nobody stay backed by the cache of their
\* process.
LEMMA BackedInductive ==
  ASSUME TypeOK, HoldersBacked, NoRival, [Next]_vars
  PROVE  HoldersBacked'
  <1>1. /\ holds \in [Worker -> RunId \cup {None}] /\ None \notin RunId
        /\ cache \in [Proc -> Leases] /\ loaded \in [Proc -> BOOLEAN]
        /\ \A w \in Worker : home[w] \in Proc
        /\ home' = home /\ raced \subseteq raced' /\ late \subseteq late'
    BY Frozen, LeaseAssumption DEF TypeOK, Leases
  <1>2. SUFFICES ASSUME NEW v \in Worker, holds'[v] # None, Clear(v)'
                 PROVE  Shows(home[v], holds[v], v)'
    BY DEF HoldersBacked
  <1>3. home'[v] = home[v] /\ Clear(v) /\ v \notin late'
    BY <1>1, <1>2 DEF Clear
  <1>4. PICK p \in Proc : p = home[v]
    BY <1>1
  <1>5. CASE holds'[v] = holds[v]
    <2>1. PICK r \in RunId : r = holds[v]
      BY <1>1, <1>2, <1>5
    <2>2. Shows(p, r, v)
      BY <1>2, <1>3, <1>4, <1>5, <2>1 DEF HoldersBacked
    <2>3. ASSUME NEW w \in Worker, home[w] = p PROVE ~Acquire(w, r)
      BY <1>1, <1>3, <1>4, <2>1, <2>3 DEF NoRival, Acquire
    <2>4. QED
      BY <1>2, <1>3, <1>4, <1>5, <2>1, <2>2, <2>3, LeaseKept DEF Shows
  <1>6. CASE holds'[v] # holds[v]
    <2>1. PICK r \in RunId : Acquire(v, r)
      BY <1>2, <1>6, HoldingStarts
    <2> DEFINE l == [owner |-> v, left |-> TTL]
    <2>2. /\ cache' = [cache EXCEPT ![p] = [cache[p] EXCEPT ![r] = l]]
          /\ loaded' = [loaded EXCEPT ![p] = TRUE]
          /\ holds'[v] = r
      BY <1>1, <1>4, <2>1 DEF Acquire, Flush, Keep
    <2>3. cache'[p][r] = l /\ loaded'[p]
      BY <1>1, <2>2 DEF Leases
    <2>4. l \in Lease /\ l # None
      BY LeaseAssumption DEF Lease
    <2>5. QED
      BY <1>3, <1>4, <2>2, <2>3, <2>4, LeaseAssumption DEF Shows
  <1>7. QED
    BY <1>5, <1>6

\* Workers of one process that renew in time hold different runs, however many
\* workers, processes and crashes there are, unless they raced for the lease.
THEOREM ExclusiveCorrect == Spec => []Exclusive
  <1>1. Init => TypeOK /\ HoldersBacked /\ NoRival
    BY DEF Init, TypeOK, NoLeases, HoldersBacked, NoRival
  <1>2. TypeOK /\ HoldersBacked /\ NoRival /\ [Next]_vars
          => TypeOK' /\ HoldersBacked' /\ NoRival'
    BY TypeInductive, BackedInductive, NoRivalInductive
  <1>3. HoldersBacked => Exclusive
    BY DEF HoldersBacked, Clear, Shows, Exclusive
  <1>4. QED
    BY <1>1, <1>2, <1>3, PTL DEF Spec

-----------------------------------------------------------------------------
(* No theft, late workers included. A lease in a cache can only be there    *)
(* once the cache was loaded, and from then on LeaseKept applies.           *)

NothingCached == \A p \in Proc : ~loaded[p] => cache[p] = NoLeases

\* Every step keeps NothingCached.
LEMMA NothingCachedInductive ==
  ASSUME TypeOK, NothingCached, [Next]_vars
  PROVE  NothingCached'
  <1>1. /\ cache \in [Proc -> Leases] /\ loaded \in [Proc -> BOOLEAN]
        /\ \A w \in Worker : home[w] \in Proc
    BY DEF TypeOK, Leases
  <1>2. Older(NoLeases) = NoLeases
    BY DEF Older, NoLeases
  <1>3. CASE Tick
    BY <1>1, <1>2, <1>3 DEF Tick, NothingCached
  <1>4. ASSUME NEW p \in Proc, Crash(p) PROVE NothingCached'
    BY <1>1, <1>4 DEF Crash, NothingCached
  <1>5. ASSUME NEW p \in Proc, NEW m, Keep(p, m) PROVE NothingCached'
    BY <1>1, <1>5 DEF Keep, NothingCached
  <1>6. ASSUME UNCHANGED <<cache, loaded>> PROVE NothingCached'
    BY <1>6 DEF NothingCached
  <1>7. QED
    BY <1>1, <1>3, <1>4, <1>5, <1>6
       DEF Next, RecoverExpired, Check, Acquire, AcquireConflict, Renew, RenewFails, Release,
           Escape, Flush, vars

\* Nobody takes away an unexpired lease that its owner's process knows, unless
\* his check is older than the lease.
THEOREM NoTheftCorrect == Spec => NoTheft
  <1> DEFINE Theft(w) ==
        /\ holds[w] # None /\ holds'[w] = holds[w]
        /\ cache[home[w]][holds[w]] # None /\ cache[home[w]][holds[w]].owner = w
        /\ ~Expired(cache[home[w]][holds[w]])
        /\ ~(/\ cache'[home[w]][holds[w]] # None
             /\ cache'[home[w]][holds[w]].owner \in {w} \cup raced')
  <1>1. Init => TypeOK /\ NothingCached /\ TakersSound
    BY DEF Init, TypeOK, NoLeases, NothingCached, TakersSound
  <1>2. TypeOK /\ NothingCached /\ TakersSound /\ [Next]_vars
          => TypeOK' /\ NothingCached' /\ TakersSound'
    BY TypeInductive, NothingCachedInductive, TakersInductive
  <1>3. TypeOK /\ NothingCached /\ TakersSound /\ [Next]_vars => \A w \in Worker : ~Theft(w)
    <2> SUFFICES ASSUME TypeOK, NothingCached, TakersSound, [Next]_vars,
                        NEW w \in Worker, Theft(w)
                 PROVE  FALSE
      OBVIOUS
    <2>1. PICK p \in Proc : p = home[w]
      BY DEF TypeOK
    <2>2. PICK r \in RunId : r = holds[w]
      BY DEF TypeOK
    <2>3. loaded[p]
      BY <2>1, <2>2 DEF NothingCached, NoLeases
    <2>4. Shows(p, r, w)
      BY <2>1, <2>2, <2>3 DEF Shows, Expired
    <2>5. ASSUME NEW v \in Worker, home[v] = p, Acquire(v, r) PROVE FALSE
      <3>1. taking[v] = r /\ ~Free(cache[p], r) /\ None \notin RunId
        BY <2>4, <2>5, LeaseAssumption DEF Acquire, Shows, Free, Expired
      <3>2. v \in raced'
        BY <2>5, <3>1, Frozen DEF TakersSound
      <3> DEFINE l == [owner |-> v, left |-> TTL]
      <3>3. cache' = [cache EXCEPT ![p] = [cache[p] EXCEPT ![r] = l]]
        BY <2>5 DEF Acquire, Flush, Keep
      <3>4. cache'[p][r] = l
        BY <3>3 DEF TypeOK
      <3>5. l \in Lease /\ l # None
        BY LeaseAssumption DEF Lease
      <3>6. QED
        BY <2>1, <2>2, <3>2, <3>4, <3>5
    <2>6. cache'[p][r] # None /\ cache'[p][r].owner = w
      BY <2>1, <2>2, <2>4, <2>5, LeaseKept
    <2>7. QED
      BY <2>1, <2>2, <2>6
  <1>4. TypeOK /\ NothingCached /\ TakersSound /\ [Next]_vars
          => [\A w \in Worker :
                LET p == home[w]
                    r == holds[w]
                IN  r # None /\ holds'[w] = r /\ cache[p][r] # None
                      /\ cache[p][r].owner = w /\ ~Expired(cache[p][r])
                    => cache'[p][r] # None /\ cache'[p][r].owner \in {w} \cup raced']_vars
    BY <1>3
  <1>5. QED
    BY <1>1, <1>2, <1>4, PTL DEF Spec, NoTheft

-----------------------------------------------------------------------------
(* One process. Its cache, once loaded, says what the file says, and every *)
(* lease in it belongs to a worker that drives the run or is over. So the  *)
(* steps of the store are steps on the file.                               *)

HoldersLoaded == \A w \in Worker : holds[w] # None => loaded[home[w]]

Written == \A w \in Worker : loaded[home[w]] => cache[home[w]] = disk

LeasesHeld ==
  \A r \in RunId : disk[r] # None =>
    holds[disk[r].owner] = r \/ disk[r].owner \in over

TableInv == TakersSound /\ HoldersLoaded /\ (OneHome => Written /\ LeasesHeld)

Owned(w) == disk[holds[w]] # None /\ disk[holds[w]].owner = w

Aged == disk' = Older(disk) /\ UNCHANGED <<holds, over>>

Recovered == disk' = Unexpired(disk) /\ UNCHANGED <<holds, over>>

Taken(w, r) ==
  /\ w \notin over /\ holds[w] = None
  /\ w \notin raced => Free(disk, r)
  /\ disk' = [disk EXCEPT ![r] = [owner |-> w, left |-> TTL]]
  /\ holds' = [holds EXCEPT ![w] = r]
  /\ UNCHANGED over

Renewed(w) ==
  /\ holds[w] # None /\ Owned(w)
  /\ disk' = [disk EXCEPT ![holds[w]].left = TTL]
  /\ UNCHANGED <<holds, over>>

Left(w) ==
  /\ holds[w] # None
  /\ disk' = IF Owned(w) THEN [disk EXCEPT ![holds[w]] = None] ELSE disk
  /\ holds' = [holds EXCEPT ![w] = None]
  /\ over' = over \cup {w}

Died(dead) ==
  /\ holds' = [w \in Worker |-> IF w \in dead THEN None ELSE holds[w]]
  /\ over' = over \cup dead
  /\ UNCHANGED disk

\* The process sees what the file says.
LEMMA SeenIsDisk ==
  ASSUME TableInv, OneHome, NEW w \in Worker
  PROVE  /\ Seen(home[w]) = disk
         /\ holds[w] # None \/ taking[w] # None => cache[home[w]] = disk
  BY DEF TableInv, TakersSound, Written, HoldersLoaded, Seen

\* Every step of its workers is one on the file.
LEMMA StepsOnDisk ==
  ASSUME TypeOK, TableInv, OneHome, [Next]_vars
  PROVE  \/ Aged \/ Recovered \/ UNCHANGED <<disk, holds, over>>
         \/ \E w \in Worker : Renewed(w) \/ Left(w) \/ \E r \in RunId : Taken(w, r)
         \/ \E dead \in SUBSET Worker : Died(dead)
  <1>1. CASE Tick
    BY <1>1 DEF Tick, Aged
  <1>2. ASSUME NEW w \in Worker, RecoverExpired(w)
        PROVE  Recovered \/ UNCHANGED <<disk, holds, over>>
    BY <1>2, SeenIsDisk DEF RecoverExpired, Flush, Recovered
  <1>3. ASSUME NEW p \in Proc, Crash(p) PROVE \E dead \in SUBSET Worker : Died(dead)
    <2> DEFINE dead == {w \in Worker : home[w] = p /\ (taking[w] # None \/ holds[w] # None)}
    <2>1. Died(dead)
      BY <1>3 DEF Crash, Died
    <2>2. QED
      BY <2>1
  <1>4. ASSUME NEW w \in Worker, NEW r \in RunId, Acquire(w, r) PROVE Taken(w, r)
    <2>1. taking[w] = r /\ r # None
      BY <1>4, LeaseAssumption DEF Acquire
    <2>2. cache[home[w]] = disk
      BY <2>1, SeenIsDisk
    <2>3. /\ w \notin over /\ holds[w] = None
          /\ w \notin raced => Free(disk, r)
      BY <2>1, <2>2 DEF TableInv, TakersSound
    <2>4. QED
      BY <1>4, <2>2, <2>3 DEF Acquire, Flush, Taken
  <1>5. ASSUME NEW w \in Worker, NEW r \in RunId, Check(w, r) \/ AcquireConflict(w, r)
        PROVE  UNCHANGED <<disk, holds, over>>
    BY <1>5 DEF Check, AcquireConflict
  <1>6. ASSUME NEW w \in Worker, Renew(w) PROVE Renewed(w)
    BY <1>6, SeenIsDisk DEF Renew, Flush, Renewed, Owned
  <1>7. ASSUME NEW w \in Worker, RenewFails(w) PROVE Left(w)
    BY <1>7, SeenIsDisk DEF RenewFails, Left, Owned
  <1>8. ASSUME NEW w \in Worker, Release(w) PROVE Left(w)
    BY <1>8, SeenIsDisk DEF Release, Flush, Left, Owned
  <1>9. ASSUME NEW w \in Worker, Escape(w) PROVE \E dead \in SUBSET Worker : Died(dead)
    <2>1. Died({w})
      BY <1>9 DEF Escape, Died, TypeOK
    <2>2. QED
      BY <2>1
  <1>10. CASE UNCHANGED vars
    BY <1>10 DEF vars
  <1>11. QED
    BY <1>1, <1>2, <1>3, <1>4, <1>5, <1>6, <1>7, <1>8, <1>9, <1>10 DEF Next

\* A worker that holds a run has used its store.
LEMMA LoadedInductive ==
  ASSUME TypeOK, HoldersLoaded, [Next]_vars
  PROVE  HoldersLoaded'
  <1>1. /\ holds \in [Worker -> RunId \cup {None}] /\ loaded \in [Proc -> BOOLEAN]
        /\ \A w \in Worker : home[w] \in Proc /\ home'[w] = home[w]
    BY Frozen DEF TypeOK
  <1>2. SUFFICES ASSUME NEW v \in Worker, holds'[v] # None PROVE loaded'[home[v]]
    BY <1>1 DEF HoldersLoaded
  <1>3. CASE holds'[v] = holds[v]
    <2>1. loaded[home[v]] /\ holds[v] # None
      BY <1>2, <1>3 DEF HoldersLoaded
    <2>2. QED
      BY <1>2, <1>3, <2>1, Survives
  <1>4. CASE holds'[v] # holds[v]
    <2>1. PICK r \in RunId : Acquire(v, r)
      BY <1>2, <1>4, HoldingStarts
    <2>2. QED
      BY <1>1, <2>1 DEF Acquire, Flush, Keep
  <1>5. QED
    BY <1>3, <1>4

\* A cache that was loaded goes on saying what the file says.
LEMMA WrittenInductive ==
  ASSUME TypeOK, TableInv, OneHome, [Next]_vars
  PROVE  Written'
  <1>1. /\ cache \in [Proc -> Leases] /\ loaded \in [Proc -> BOOLEAN]
        /\ \A w \in Worker : home[w] \in Proc /\ home'[w] = home[w]
    BY Frozen DEF TypeOK, Leases
  <1>2. SUFFICES ASSUME NEW v \in Worker, loaded'[home[v]] PROVE cache'[home[v]] = disk'
    BY <1>1 DEF Written
  <1>3. PICK p \in Proc : \A w \in Worker : home[w] = p
    BY <1>1 DEF OneHome
  <1>4. loaded[p] => cache[p] = disk
    BY <1>3 DEF TableInv, Written
  <1>5. ASSUME NEW w \in Worker, NEW m, Keep(home[w], m), disk' = m
        PROVE  cache'[home[v]] = disk'
    BY <1>1, <1>3, <1>5 DEF Keep
  <1>6. CASE Tick
    BY <1>1, <1>2, <1>3, <1>4, <1>6 DEF Tick
  <1>7. ASSUME NEW w \in Worker, RecoverExpired(w) PROVE cache'[home[v]] = disk'
    BY <1>5, <1>7, SeenIsDisk DEF RecoverExpired, Flush
  <1>8. ASSUME NEW q \in Proc, Crash(q) PROVE cache'[home[v]] = disk'
    BY <1>1, <1>2, <1>3, <1>4, <1>8 DEF Crash
  <1>9. ASSUME NEW w \in Worker, NEW r \in RunId,
               Check(w, r) \/ Acquire(w, r) \/ AcquireConflict(w, r)
        PROVE  cache'[home[v]] = disk'
    BY <1>5, <1>9, SeenIsDisk DEF Check, Acquire, AcquireConflict, Flush
  <1>10. ASSUME UNCHANGED <<cache, loaded, disk>> PROVE cache'[home[v]] = disk'
    BY <1>2, <1>3, <1>4, <1>10
  <1>11. ASSUME NEW w \in Worker,
                Renew(w) \/ RenewFails(w) \/ Release(w) \/ Escape(w)
         PROVE  cache'[home[v]] = disk'
    BY <1>5, <1>10, <1>11 DEF Renew, RenewFails, Release, Escape, Flush
  <1>12. QED
    BY <1>6, <1>7, <1>8, <1>9, <1>10, <1>11 DEF Next, vars

\* A lease goes on belonging to a worker that drives its run or is over.
LEMMA HeldInductive ==
  ASSUME TypeOK, TableInv, OneHome, [Next]_vars
  PROVE  LeasesHeld'
  <1>1. /\ disk \in Leases /\ holds \in [Worker -> RunId \cup {None}] /\ LeasesHeld
        /\ None \notin RunId
    BY LeaseAssumption DEF TypeOK, Leases, TableInv
  <1>2. ASSUME NEW r \in RunId, disk[r] # None
        PROVE  /\ disk[r] \in Lease /\ disk[r].owner \in Worker
               /\ holds[disk[r].owner] = r \/ disk[r].owner \in over
    BY <1>1, <1>2, LeaseFields DEF LeasesHeld
  <1>3. SUFFICES ASSUME NEW r \in RunId, disk'[r] # None
                 PROVE  holds'[disk'[r].owner] = r \/ disk'[r].owner \in over'
    BY DEF LeasesHeld
  <1>4. ASSUME disk[r] # None, disk'[r].owner = disk[r].owner, UNCHANGED <<holds, over>>
        PROVE  holds'[disk'[r].owner] = r \/ disk'[r].owner \in over'
    BY <1>2, <1>4
  <1>5. CASE Aged
    <2>1. disk'[r] = Older(disk)[r]
      BY <1>5 DEF Aged
    <2>2. disk[r] # None /\ disk'[r].owner = disk[r].owner
      BY <1>2, <1>3, <2>1 DEF Older, Lease
    <2>3. QED
      BY <1>4, <1>5, <2>2 DEF Aged
  <1>6. CASE Recovered
    <2>1. disk'[r] = Unexpired(disk)[r]
      BY <1>6 DEF Recovered
    <2>2. disk[r] # None /\ disk'[r].owner = disk[r].owner
      BY <1>3, <2>1 DEF Unexpired
    <2>3. QED
      BY <1>4, <1>6, <2>2 DEF Recovered
  <1>7. ASSUME NEW w \in Worker, NEW q \in RunId, Taken(w, q)
        PROVE  holds'[disk'[r].owner] = r \/ disk'[r].owner \in over'
    <2>1. CASE r = q
      BY <1>1, <1>7, <2>1 DEF Taken, Leases
    <2>2. CASE r # q
      <3>1. disk'[r] = disk[r]
        BY <1>1, <1>7, <2>2 DEF Taken, Leases
      <3>2. disk[r].owner # w \/ disk[r].owner \in over
        BY <1>1, <1>2, <1>3, <1>7, <3>1 DEF Taken
      <3>3. QED
        BY <1>1, <1>2, <1>3, <1>7, <3>1, <3>2 DEF Taken
    <2>3. QED
      BY <2>1, <2>2
  <1>8. ASSUME NEW w \in Worker, Renewed(w)
        PROVE  holds'[disk'[r].owner] = r \/ disk'[r].owner \in over'
    <2>1. disk'[r] = disk[r] \/ disk'[r] = [disk[r] EXCEPT !.left = TTL]
      BY <1>1, <1>8 DEF Renewed, Leases
    <2>2. disk[r] # None
      BY <1>1, <1>3, <1>8 DEF Renewed, Owned, Leases
    <2>3. disk'[r].owner = disk[r].owner
      BY <1>2, <2>1, <2>2 DEF Lease
    <2>4. QED
      BY <1>4, <1>8, <2>2, <2>3 DEF Renewed
  <1>9. ASSUME NEW w \in Worker, Left(w)
        PROVE  holds'[disk'[r].owner] = r \/ disk'[r].owner \in over'
    <2>1. disk'[r] = disk[r]
      BY <1>1, <1>3, <1>9 DEF Left, Leases
    <2>2. QED
      BY <1>1, <1>2, <1>3, <1>9, <2>1 DEF Left
  <1>10. ASSUME NEW dead \in SUBSET Worker, Died(dead)
         PROVE  holds'[disk'[r].owner] = r \/ disk'[r].owner \in over'
    BY <1>2, <1>3, <1>10 DEF Died
  <1>11. CASE UNCHANGED <<disk, holds, over>>
    BY <1>2, <1>3, <1>11
  <1>12. QED
    BY <1>5, <1>6, <1>7, <1>8, <1>9, <1>10, <1>11, StepsOnDisk

\* The invariant of one process.
LEMMA TableInductive == TypeOK /\ TableInv /\ [Next]_vars => TableInv'
  <1>1. [Next]_vars => (OneHome' <=> OneHome)
    BY Frozen DEF OneHome
  <1>2. QED
    BY <1>1, TakersInductive, LoadedInductive, WrittenInductive, HeldInductive DEF TableInv

\* Every step of one process is one of the table, as long as nobody raced.
LEMMA TableStep ==
  ASSUME TypeOK, TableInv, OneHome, [Next]_vars, raced' = {}
  PROVE  [Table!Next]_<<Owners, LiveRuns, holds>>
  <1>1. /\ disk \in Leases /\ holds \in [Worker -> RunId \cup {None}] /\ LeasesHeld
        /\ None \notin RunId /\ None \notin Worker /\ TTL # 0 /\ raced = {}
    BY Frozen, LeaseAssumption DEF TypeOK, Leases, TableInv
  <1>2. ASSUME NEW r \in RunId, disk[r] # None
        PROVE  /\ disk[r] \in Lease /\ disk[r].owner \in Worker
               /\ holds[disk[r].owner] = r \/ disk[r].owner \in over
    BY <1>1, <1>2, LeaseFields DEF LeasesHeld
  <1>3. CASE Aged
    <2>1. ASSUME NEW r \in RunId
          PROVE  /\ disk'[r] = None <=> disk[r] = None
                 /\ disk[r] # None => disk'[r].owner = disk[r].owner
                 /\ disk[r] # None /\ Expired(disk[r]) => disk'[r] = disk[r]
      <3>1. disk'[r] = Older(disk)[r]
        BY <1>3 DEF Aged
      <3>2. disk[r] # None /\ ~Expired(disk[r]) =>
              /\ [disk[r] EXCEPT !.left = @ - 1] \in Lease
              /\ [disk[r] EXCEPT !.left = @ - 1].owner = disk[r].owner
        BY <1>2, LeaseAssumption DEF Lease, Expired
      <3>3. QED
        BY <1>2, <3>1, <3>2, LeaseAssumption DEF Older
    <2>2. Owners' = Owners /\ LiveRuns' \subseteq LiveRuns
      BY <2>1 DEF Owners, LiveRuns
    <2>3. QED
      BY <1>3, <2>2 DEF Aged, Table!Next, Table!Lapse
  <1>4. CASE Recovered
    <2> DEFINE gone == {r \in RunId : disk[r] # None /\ Expired(disk[r])}
    <2>1. \A r \in RunId : disk'[r] = IF r \in gone THEN None ELSE disk[r]
      BY <1>4 DEF Recovered, Unexpired
    <2>2. LiveRuns' = LiveRuns /\ Owners' = Table!Without(gone)
      BY <2>1 DEF Owners, LiveRuns, Table!Without
    <2>3. gone \in SUBSET (RunId \ LiveRuns)
      BY DEF LiveRuns
    <2>4. Table!Forget
      BY <1>4, <2>2, <2>3 DEF Recovered, Table!Forget
    <2>5. QED
      BY <2>4 DEF Table!Next
  <1>5. ASSUME NEW w \in Worker, NEW r \in RunId, Taken(w, r) PROVE Table!Take(w, r)
    <2>1. disk'[r] = [owner |-> w, left |-> TTL] /\ \A q \in RunId : q # r => disk'[q] = disk[q]
      BY <1>1, <1>5 DEF Taken, Leases
    <2>2. disk'[r] # None /\ disk'[r].owner = w /\ ~Expired(disk'[r])
      <3>1. [owner |-> w, left |-> TTL] \in Lease
        BY LeaseAssumption DEF Lease
      <3>2. QED
        BY <1>1, <2>1, <3>1, LeaseAssumption DEF Expired
    <2>3. r \notin LiveRuns /\ LiveRuns' = LiveRuns \cup {r}
      BY <1>1, <1>5, <2>1, <2>2 DEF Taken, Free, LiveRuns
    <2>4. Table!Without({}) = Owners
      BY DEF Table!Without, Owners
    <2>5. Owners' = [Owners EXCEPT ![r] = w]
      BY <2>1, <2>2 DEF Owners
    <2>6. \A q \in RunId : Owners[q] # w
      BY <1>1, <1>2, <1>5 DEF Owners, Taken
    <2>7. QED
      BY <1>5, <2>3, <2>4, <2>5, <2>6 DEF Taken, Table!Take
  <1>6. ASSUME NEW w \in Worker, Renewed(w) PROVE Table!Renew(w)
    <2>1. PICK r \in RunId : r = holds[w]
      BY <1>1, <1>6 DEF Renewed
    <2>2. /\ disk[r] # None /\ disk[r].owner = w
          /\ disk'[r] = [disk[r] EXCEPT !.left = TTL]
          /\ \A q \in RunId : q # r => disk'[q] = disk[q]
      BY <1>1, <1>6, <2>1 DEF Renewed, Owned, Leases
    <2>3. disk'[r] # None /\ disk'[r].owner = w /\ ~Expired(disk'[r])
      <3>1. disk'[r] \in Lease /\ disk'[r].owner = w /\ disk'[r].left = TTL
        BY <1>2, <2>2, LeaseAssumption DEF Lease
      <3>2. QED
        BY <1>1, <3>1, LeaseAssumption DEF Expired
    <2>4. Owners' = Owners /\ LiveRuns' = LiveRuns \cup {r}
      BY <2>2, <2>3 DEF Owners, LiveRuns
    <2>5. QED
      BY <1>1, <1>6, <2>1, <2>2, <2>4 DEF Renewed, Owners, Table!Renew
  <1>7. ASSUME NEW w \in Worker, Left(w) PROVE Table!Leave(w)
    <2>1. PICK r \in RunId : r = holds[w]
      BY <1>1, <1>7 DEF Left
    <2>2. PICK own : own = IF Owners[r] = w THEN {r} ELSE {}
      OBVIOUS
    <2>3. Owned(w) <=> Owners[r] = w
      BY <1>1, <2>1 DEF Owned, Owners
    <2>4. \A q \in RunId : disk'[q] = IF q \in own THEN None ELSE disk[q]
      BY <1>1, <1>7, <2>1, <2>2, <2>3 DEF Left, Leases
    <2>5. Owners' = Table!Without(own) /\ LiveRuns' = LiveRuns \ own
      BY <2>4 DEF Owners, LiveRuns, Table!Without
    <2>6. QED
      BY <1>7, <2>1, <2>2, <2>5 DEF Left, Table!Leave
  <1>8. ASSUME NEW dead \in SUBSET Worker, Died(dead) PROVE Table!Die(dead)
    BY <1>8 DEF Died, Table!Die, Owners, LiveRuns
  <1>9. CASE UNCHANGED <<disk, holds, over>>
    BY <1>9 DEF Owners, LiveRuns
  <1>10. QED
    BY <1>3, <1>4, <1>5, <1>6, <1>7, <1>8, <1>9, StepsOnDisk DEF Table!Next

\* The cached lease file of one process is a table of leases that outlives
\* the process, for any workers and runs and any TTL, until two workers race for
\* one run (class LeaseStore).
THEOREM TableCorrect == Spec => ImplementsTable
  <1>1. Init => TypeOK /\ TableInv
    BY DEF Init, TypeOK, NoLeases, TableInv, TakersSound, HoldersLoaded, Written, LeasesHeld
  <1>2. TypeOK /\ TableInv /\ [Next]_vars => TypeOK' /\ TableInv'
    BY TypeInductive, TableInductive
  <1>3. Init => Table!Init
    BY DEF Init, NoLeases, Table!Init, Owners, LiveRuns
  <1>4. TypeOK /\ TableInv /\ [Next]_vars
          => [Table!Next \/ ~OneHome \/ raced' # {}]_<<Owners, LiveRuns, holds>>
    BY TableStep
  <1>5. QED
    BY <1>1, <1>2, <1>3, <1>4, PTL DEF Spec, ImplementsTable

=============================================================================
