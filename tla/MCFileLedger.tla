---------------------------- MODULE MCFileLedger ----------------------------
(* Finite instances of FileLedger.                                         *)
EXTENDS FileLedger
=============================================================================
