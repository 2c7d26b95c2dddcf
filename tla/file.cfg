SPECIFICATION Spec
CONSTANTS
  None = None
  Down = Down
  Garbage = Garbage
  RunId = {r1}
  Proc = {w1, w2}
  Key = {}
  Phase = {p1}
  Ctx = {}
  Cost = {}
  Marks = {"complete"}
  Outcomes = {"ok"}
  TornWrites = TRUE
  FailedWrites = TRUE
  MaxLines = 3
  MaxRevision = 3
INVARIANTS
  ReplayAgrees
  AckKept
  IndexNotBehind
PROPERTIES
  OnlyStaleRollsBack
  CrashKeepsAcked
  ImplementsDurable
