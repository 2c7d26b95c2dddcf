SPECIFICATION Spec
CONSTANTS
  None = None
  build = build
  pr = pr
  ci = ci
  Run = {r1, r2}
  Call = {c1, c2}
  Key = {k1}
  Ctx = {TRUE, FALSE}
  Cost = {}
  Phase = {pr, ci}
  PhaseSequence <- TwoPhases
  DraftPr = pr
  Ci = ci
  Outcomes = {"ok", "paused"}
  Durable = FALSE
  Overlapping = TRUE
  Slow = FALSE
  Crashes = TRUE
  Faults = TRUE
  Cancels = TRUE
SYMMETRY Symmetry
CHECK_DEADLOCK FALSE
INVARIANTS
  Settled
  LeaseReturned
  KeysDistinct
PROPERTIES
  CancelReaches
