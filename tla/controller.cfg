SPECIFICATION Spec
CONSTANTS
  None = None
  Board <- MCBoard
  Demanded = {"test", "lint"}
  Conclusions = {"success", "stale", "timed_out"}
  Interval = 1
  MaxAttempts = 3
  MaxTotal = 3
  StopEarly = None
  FetchTime = 1
  Sources = {"factory", "client", "github", "nothing"}
  Transition = "stub"
  MaxEvents = 3
  Chat = {c1, c2}
  Allowed = {c1}
  RunId = {r1, r2}
  Compositions <- MCCompositions
INVARIANTS
  PollBounded
  ReadyBacked
  Reported
  CancelHolds
