SPECIFICATION Spec
CONSTANTS
  None = None
  build = build
  pr = pr
  ci = ci
  Run = {r1}
  Call = {c1, c2, c3}
  Key = {}
  Ctx = {TRUE, FALSE}
  Cost = {}
  Phase = {build, pr, ci}
  PhaseSequence <- ThreePhases
  DraftPr = pr
  Ci = ci
  Outcomes = {"ok", "failed"}
  Durable = TRUE
  Overlapping = FALSE
  Slow = FALSE
  Crashes = FALSE
  Faults = FALSE
  Cancels = TRUE
CHECK_DEADLOCK FALSE
PROPERTIES
  CancelSticks
