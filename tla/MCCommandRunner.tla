-------------------------- MODULE MCCommandRunner --------------------------
(* Finite instances of CommandRunner.                                      *)
EXTENDS CommandRunner
=============================================================================
