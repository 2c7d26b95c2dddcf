SPECIFICATION Spec
CONSTANTS
  None = None
  RunId = {r1, r2, r3}
  Key = {k1, k2}
  Client = {c1}
  Marks = {"paused"}
  Outcomes = {"ok", "failed"}
  Phase = {p1, p2}
  Ctx = {}
  Cost = {d1}
  MaxRecords = 2
  MaxRevision = 3
SYMMETRY Symmetry
INVARIANTS
  KeyIndexExact
  OrderExact
  CursorCoherent
PROPERTIES
  NoStaleWrite
