----------------------------- MODULE LeaseTable -----------------------------
(***************************************************************************)
(* What leases promise: one table that all workers see and that outlives   *)
(* them. A run belongs to one worker until the worker leaves it or its     *)
(* lease runs out; a worker that died keeps its leases until they do.      *)
(* There are no files, caches and clocks here (LeaseStore has them), nor   *)
(* what a worker does with its run (Orchestrator).                         *)
(***************************************************************************)

CONSTANTS RunId, Worker, None

VARIABLES
  owner,    \* per run, the worker its lease belongs to, or None
  live,     \* the runs whose lease has not run out
  driving   \* per worker, the run it drives, or None

tableVars == <<owner, live, driving>>

Init ==
  /\ owner = [r \in RunId |-> None]
  /\ live = {}
  /\ driving = [w \in Worker |-> None]

\* The owners when the leases of the runs in gone are dropped.
Without(gone) == [r \in RunId |-> IF r \in gone THEN None ELSE owner[r]]

\* A worker without a lease takes a run that has no live one; leases that have
\* run out may go on this occasion.
Take(w, r) ==
  /\ driving[w] = None /\ \A q \in RunId : owner[q] # w
  /\ r \notin live
  /\ \E gone \in SUBSET (RunId \ live) : owner' = [Without(gone) EXCEPT ![r] = w]
  /\ live' = live \cup {r}
  /\ driving' = [driving EXCEPT ![w] = r]

\* A worker that still has its lease, run out or not, makes it live again.
Renew(w) ==
  /\ driving[w] # None /\ owner[driving[w]] = w
  /\ live' = live \cup {driving[w]}
  /\ UNCHANGED <<owner, driving>>

\* A worker leaves its run and gives back the lease, if it is still its own.
Leave(w) ==
  LET r == driving[w]
      own == IF owner[r] = w THEN {r} ELSE {}
  IN  /\ r # None
      /\ owner' = Without(own) /\ live' = live \ own
      /\ driving' = [driving EXCEPT ![w] = None]

\* Workers die; their leases stay.
Die(dead) ==
  /\ driving' = [w \in Worker |-> IF w \in dead THEN None ELSE driving[w]]
  /\ UNCHANGED <<owner, live>>

\* Leases run out.
Lapse == live' \in SUBSET live /\ UNCHANGED <<owner, driving>>

\* Leases that have run out are dropped.
Forget ==
  /\ \E gone \in SUBSET (RunId \ live) : owner' = Without(gone)
  /\ UNCHANGED <<live, driving>>

Next ==
  \/ Lapse \/ Forget
  \/ \E dead \in SUBSET Worker : Die(dead)
  \/ \E w \in Worker : Renew(w) \/ Leave(w) \/ \E r \in RunId : Take(w, r)

Spec == Init /\ [][Next]_tableVars

=============================================================================
