SPECIFICATION Spec
CONSTANTS
  None = None
  build = build
  pr = pr
  ci = ci
  Run = {r1}
  Call = {c1, c2, c3}
  Key = {}
  Ctx = {TRUE, FALSE}
  Cost = {}
  Phase = {pr, ci}
  PhaseSequence <- TwoPhases
  DraftPr = pr
  Ci = ci
  Outcomes = {"ok", "failed"}
  Durable = TRUE
  Overlapping = TRUE
  Slow = TRUE
  Crashes = TRUE
  Faults = FALSE
  Cancels = FALSE
SYMMETRY Symmetry
CHECK_DEADLOCK FALSE
INVARIANTS
  PhaseOrder
  CompleteAfterAll
  OneAdvances
  NoRerun
