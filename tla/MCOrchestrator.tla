--------------------------- MODULE MCOrchestrator ---------------------------
(* Finite instances of Orchestrator: delivery and ci, with or without a     *)
(* phase before them.                                                       *)
EXTENDS Orchestrator, TLC

CONSTANTS build, pr, ci

TwoPhases == <<pr, ci>>

ThreePhases == <<build, pr, ci>>

Symmetry == Permutations(Call) \cup Permutations(Run)

=============================================================================
