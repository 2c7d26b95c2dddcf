---------------------------- MODULE MCRunLedger ----------------------------
(* Finite instances of RunLedger.                                          *)
EXTENDS RunLedger, TLC

Symmetry == Permutations(RunId) \cup Permutations(Key) \cup Permutations(Client)

=============================================================================
