SPECIFICATION FairSpec
CONSTANTS
  None = None
  RunId = {r1}
  Worker = {w1, w2, w3}
  Proc = {p1, p2}
  TTL = 2
INVARIANTS
  Exclusive
PROPERTIES
  NoTheft
  ImplementsTable
  Recoverable
