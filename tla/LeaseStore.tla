----------------------------- MODULE LeaseStore -----------------------------
(***************************************************************************)
(* Worker leases (orchestrator/leases.py) as start_run uses them. A worker *)
(* is one start_run call; its owner token is fresh, so the worker stands   *)
(* for it. Every process has one LeaseStore: a cache of the lease file,    *)
(* filled on first use only and written back as a whole. Workers may be    *)
(* spread over the processes in any way.                                   *)
(*                                                                         *)
(* A lease keeps the time it has left instead of expires_at, so time need  *)
(* not be bounded. acquire with a token that already owns the lease        *)
(* changes nothing and start_run never does it: it is left out, with the   *)
(* fields worker_id, revision (always 0) and acquired_at, which no check   *)
(* reads. An operation updates the cache and replaces the file in one step:*)
(* a crash between the two loses the cache, as a crash before both does.   *)
(*                                                                         *)
(* The store has no lock, and calls may run in threads of one process: the *)
(* check of acquire and its write are two steps, and what the check has    *)
(* seen may be stale by the time of the write. renew and release are one   *)
(* step each: nobody else writes a lease between their check and their     *)
(* write unless it has expired or two acquires race, and both are kept in  *)
(* the histories below.                                                    *)
(***************************************************************************)
EXTENDS Naturals

CONSTANTS
  RunId,
  Worker,     \* start_run calls
  Proc,       \* orchestrator processes
  TTL,        \* lease_ttl_seconds, in ticks
  None

Lease == [owner : Worker, left : 0..TTL]

ASSUME LeaseAssumption ==
  /\ None \notin RunId \cup Worker \cup Lease
  /\ TTL \in Nat \ {0}

VARIABLES
  home,     \* the process every worker runs in
  disk,     \* leases.jsonl: run -> lease, None when absent
  cache,    \* _leases of every process
  loaded,   \* _loaded of every process
  taking,   \* the run whose lease a worker found free and is about to write
  holds,    \* the run whose lease a worker believes it holds
  over,     \* workers that have released, failed or died
  late,     \* history: workers that let their lease run out
  raced     \* history: workers that wrote a lease another one was about to write

vars == <<home, disk, cache, loaded, taking, holds, over, late, raced>>

NoLeases == [r \in RunId |-> None]

Init ==
  /\ home \in [Worker -> Proc]
  /\ disk = NoLeases
  /\ cache = [p \in Proc |-> NoLeases]
  /\ loaded = [p \in Proc |-> FALSE]
  /\ taking = [w \in Worker |-> None]
  /\ holds = [w \in Worker |-> None]
  /\ over = {}
  /\ late = {}
  /\ raced = {}

-----------------------------------------------------------------------------
\* _ensure_loaded: what process p sees at the start of an operation.
Seen(p) == IF loaded[p] THEN cache[p] ELSE disk

\* Mutant of Expired: a lease is taken for expired one tick early.
ExpiredEarly(lease) == lease.left <= 1

Expired(lease) == lease.left = 0

\* The end of an operation of p that leaves it with the leases m, and _flush.
Keep(p, m) ==
  /\ loaded' = [loaded EXCEPT ![p] = TRUE]
  /\ cache' = [cache EXCEPT ![p] = m]
  /\ UNCHANGED <<home, late>>

Flush(p, m) == Keep(p, m) /\ disk' = m

\* Worker w has not asked for its lease successfully yet.
Asking(w) == w \notin over /\ holds[w] = None /\ taking[w] = None

\* recover_expired, which start_run calls first: expired leases are dropped;
\* the file is written only if there was one.
Unexpired(m) ==
  [r \in RunId |-> IF m[r] # None /\ Expired(m[r]) THEN None ELSE m[r]]

RecoverExpired(w) ==
  LET p == home[w]
      m == Unexpired(Seen(p))
  IN  /\ Asking(w)
      /\ IF m # Seen(p) THEN Flush(p, m) ELSE Keep(p, m) /\ UNCHANGED disk
      /\ UNCHANGED <<taking, holds, over, raced>>

Free(m, r) == m[r] # None => Expired(m[r])

\* Mutants of Check: whoever asks gets the lease; only a run without any lease
\* can be had, be the one in the way expired or not.
CheckNothing(w, r) ==
  /\ Asking(w)
  /\ Keep(home[w], Seen(home[w]))
  /\ taking' = [taking EXCEPT ![w] = r]
  /\ UNCHANGED <<disk, holds, over, raced>>

CheckOnlyFree(w, r) == Seen(home[w])[r] = None /\ CheckNothing(w, r)

\* The first half of acquire, called by start_run of worker w for run r: no live
\* lease is in the way.
Check(w, r) ==
  LET p == home[w]
  IN  /\ Asking(w)
      /\ Free(Seen(p), r)
      /\ Keep(p, Seen(p))
      /\ taking' = [taking EXCEPT ![w] = r]
      /\ UNCHANGED <<disk, holds, over, raced>>

\* History: worker w writes the lease of r while others of its process are inside
\* acquire for it, whose check is stale from now on.
Race(w, r) ==
  LET rivals == {v \in Worker \ {w} : home[v] = home[w] /\ taking[v] = r}
  IN  IF rivals = {} THEN {} ELSE rivals \cup {w}

\* The other half: the lease is written, whatever is there by now.
Acquire(w, r) ==
  LET p == home[w]
  IN  /\ taking[w] = r
      /\ Flush(p, [cache[p] EXCEPT ![r] = [owner |-> w, left |-> TTL]])
      /\ taking' = [taking EXCEPT ![w] = None]
      /\ holds' = [holds EXCEPT ![w] = r]
      /\ raced' = raced \cup Race(w, r)
      /\ UNCHANGED over

\* acquire raises LeaseConflict; the caller may try again.
AcquireConflict(w, r) ==
  LET p == home[w]
  IN  /\ Asking(w)
      /\ ~Free(Seen(p), r)
      /\ Keep(p, Seen(p))
      /\ UNCHANGED <<disk, taking, holds, over, raced>>

\* renew succeeds for the owner, be the lease expired or not.
Renew(w) ==
  LET p == home[w]
      r == holds[w]
  IN  /\ r # None
      /\ cache[p][r] # None /\ cache[p][r].owner = w
      /\ Flush(p, [cache[p] EXCEPT ![r].left = TTL])
      /\ raced' = raced \cup Race(w, r)
      /\ UNCHANGED <<taking, holds, over>>

\* renew raises LeaseNotFound or LeaseConflict; start_run gives up, and its
\* release of a lease it does not own is suppressed.
RenewFails(w) ==
  LET p == home[w]
      r == holds[w]
  IN  /\ r # None
      /\ cache[p][r] # None => cache[p][r].owner # w
      /\ holds' = [holds EXCEPT ![w] = None]
      /\ over' = over \cup {w}
      /\ UNCHANGED <<home, disk, cache, loaded, taking, late, raced>>

\* Mutant of Release: the lease of the run is dropped, whoever owns it.
ReleaseAnyone(w) ==
  /\ holds[w] # None
  /\ Flush(home[w], [cache[home[w]] EXCEPT ![holds[w]] = None])
  /\ holds' = [holds EXCEPT ![w] = None]
  /\ over' = over \cup {w}
  /\ UNCHANGED <<taking, raced>>

\* release at the end of start_run; a lease that is gone or owned by another
\* worker stays as it is.
Release(w) ==
  LET p == home[w]
      r == holds[w]
  IN  /\ r # None
      /\ IF cache[p][r] # None /\ cache[p][r].owner = w
         THEN Flush(p, [cache[p] EXCEPT ![r] = None])
         ELSE UNCHANGED <<home, disk, cache, loaded, late>>
      /\ holds' = [holds EXCEPT ![w] = None]
      /\ over' = over \cup {w}
      /\ UNCHANGED <<taking, raced>>

\* An exception leaves start_run past the release, which is in no finally: the
\* worker is gone, its process and its lease stay.
Escape(w) ==
  /\ taking[w] # None \/ holds[w] # None
  /\ taking' = [taking EXCEPT ![w] = None]
  /\ holds' = [holds EXCEPT ![w] = None]
  /\ over' = over \cup {w}
  /\ UNCHANGED <<home, disk, cache, loaded, late, raced>>

-----------------------------------------------------------------------------
\* The process dies with its workers; a new one starts with an empty cache.
Crash(p) ==
  LET dead == {w \in Worker : home[w] = p /\ (taking[w] # None \/ holds[w] # None)}
  IN  /\ dead # {}
      /\ taking' = [w \in Worker |-> IF w \in dead THEN None ELSE taking[w]]
      /\ holds' = [w \in Worker |-> IF w \in dead THEN None ELSE holds[w]]
      /\ over' = over \cup dead
      /\ cache' = [cache EXCEPT ![p] = NoLeases]
      /\ loaded' = [loaded EXCEPT ![p] = FALSE]
      /\ UNCHANGED <<home, disk, late, raced>>

Older(m) ==
  [r \in RunId |-> IF m[r] = None \/ Expired(m[r]) THEN m[r]
                   ELSE [m[r] EXCEPT !.left = @ - 1]]

\* The lease of worker w runs out with the next tick, unless w renews it now.
Due(w) ==
  LET m == cache[home[w]]
      r == holds[w]
  IN  r # None /\ m[r] # None /\ m[r].owner = w /\ m[r].left = 1

\* Time passes; a worker in the middle of a long phase cannot renew.
Tick ==
  /\ disk' = Older(disk)
  /\ cache' = [p \in Proc |-> Older(cache[p])]
  /\ late' = late \cup {w \in Worker : Due(w)}
  /\ UNCHANGED <<home, loaded, taking, holds, over, raced>>

Next ==
  \/ Tick
  \/ \E p \in Proc : Crash(p)
  \/ \E w \in Worker :
       \/ RecoverExpired(w)
       \/ \E r \in RunId : Check(w, r) \/ Acquire(w, r) \/ AcquireConflict(w, r)
       \/ Renew(w) \/ RenewFails(w) \/ Release(w) \/ Escape(w)

Spec == Init /\ [][Next]_vars

\* Time passes, a worker that wants a run keeps asking for it, acquire returns,
\* and every start_run ends, be it by an exception.
Fairness ==
  /\ WF_vars(Tick)
  /\ \A w \in Worker :
       /\ \A r \in RunId : WF_vars(Check(w, r)) /\ WF_vars(Acquire(w, r))
       /\ WF_vars(Release(w))

FairSpec == Spec /\ Fairness

-----------------------------------------------------------------------------
TypeOK ==
  /\ home \in [Worker -> Proc]
  /\ disk \in [RunId -> Lease \cup {None}]
  /\ cache \in [Proc -> [RunId -> Lease \cup {None}]]
  /\ loaded \in [Proc -> BOOLEAN]
  /\ taking \in [Worker -> RunId \cup {None}]
  /\ holds \in [Worker -> RunId \cup {None}]
  /\ over \in SUBSET Worker
  /\ late \in SUBSET Worker
  /\ raced \in SUBSET Worker

\* Two workers of one process believe that they hold the same run only if one
\* of them has let its lease run out, or wrote a lease while another worker was
\* inside acquire for the same run (module docstring: "Two workers cannot
\* advance the same run revision simultaneously").
Exclusive ==
  \A w, v \in Worker :
    w # v /\ home[w] = home[v] /\ holds[w] # None /\ holds[w] = holds[v]
      => {w, v} \cap (late \cup raced) # {}

\* While a worker in process p holds run r and p knows its lease, nobody else
\* in p takes the lease away before it has expired, unless his check is older
\* than the lease.
NoTheft ==
  [][\A w \in Worker :
       LET p == home[w]
           r == holds[w]
       IN  r # None /\ holds'[w] = r /\ cache[p][r] # None /\ cache[p][r].owner = w
             /\ ~Expired(cache[p][r])
           => cache'[p][r] # None /\ cache'[p][r].owner \in {w} \cup raced']_vars

\* A run is never locked out for ever: whoever keeps asking for a lease gets
\* one, whatever crashed holders left behind ("A dead worker's run becomes
\* recoverable after lease expiry").
Recoverable ==
  \A w \in Worker : <>(w \in over \/ holds[w] # None)

-----------------------------------------------------------------------------
(* As long as all workers share one process and no two of them race for a  *)
(* lease, its cache, the file and the clock implement LeaseTable.          *)

OneHome == \A w, v \in Worker : home[w] = home[v]

Owners == [r \in RunId |-> IF disk[r] = None THEN None ELSE disk[r].owner]

LiveRuns == {r \in RunId : disk[r] # None /\ ~Expired(disk[r])}

Table == INSTANCE LeaseTable WITH owner <- Owners, live <- LiveRuns, driving <- holds

\* In one process what the file says is one table that all operations agree on,
\* and it survives the process: a restart finds every lease as it was (module
\* docstring: "Single lease per run_id at any moment"). It is claimed until two
\* workers have been inside acquire for one run at once.
ImplementsTable ==
  Table!Init /\ [][Table!Next \/ ~OneHome \/ raced' # {}]_<<Owners, LiveRuns, holds>>

=============================================================================
