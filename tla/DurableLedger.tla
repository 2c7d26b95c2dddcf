--------------------------- MODULE DurableLedger ---------------------------
(***************************************************************************)
(* What a durable ledger promises its one user: a map of run records that  *)
(* every completed call changes in one step and that a crash never touches.*)
(* The view is what get() shows; while the process is up it is the map.    *)
(* Costs are left out of the promise (see FileLedger).                     *)
(***************************************************************************)
EXTENDS RunRecords

CONSTANTS RunId, Down

VARIABLES stored, view

durableVars == <<stored, view>>

Init ==
  /\ stored = [r \in RunId |-> None]
  /\ view = Down

\* The record of one run advances by exactly one revision, or is created.
Put(r) ==
  /\ view # Down
  /\ \E rec \in {stored'[r]} :
       /\ stored' = [stored EXCEPT ![r] = rec]
       /\ rec # None
       /\ rec.rev = IF stored[r] = None THEN 1 ELSE stored[r].rev + 1
       /\ stored[r] = None => rec.state = "running" /\ rec.phase = None
       /\ stored[r] # None /\ stored[r].cursor # None => rec.cursor # None
       /\ stored[r] # None /\ stored[r].ctx # None => rec.ctx # None
  /\ view' = stored'

Open == view = Down /\ view' = stored /\ UNCHANGED stored

Crash == view # Down /\ view' = Down /\ UNCHANGED stored

Next == Open \/ Crash \/ \E r \in RunId : Put(r)

Spec == Init /\ [][Next]_durableVars

=============================================================================
