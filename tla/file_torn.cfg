SPECIFICATION Spec
CONSTANTS
  None = None
  Down = Down
  Garbage = Garbage
  RunId = {r1}
  Proc = {w1}
  Key = {}
  Phase = {p1}
  Ctx = {}
  Cost = {}
  Marks = {"complete"}
  Outcomes = {"ok"}
  TornWrites = TRUE
  FailedWrites = FALSE
  MaxLines = 4
  MaxRevision = 4
INVARIANTS
  AckDurable
