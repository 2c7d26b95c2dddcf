---------------------------- MODULE MCLeaseStore ----------------------------
(* Finite instances of LeaseStore.                                         *)
EXTENDS LeaseStore
=============================================================================
