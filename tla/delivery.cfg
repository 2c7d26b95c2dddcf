SPECIFICATION FairSpec
CONSTANTS
  None = None
  Garbage = Garbage
  Main = Main
  Run = {r1, r2}
  File = {f1, f2, tests}
  Tests = tests
  MaxPrs = 2
INVARIANTS
  RecordTrue
  OnePr
  OwnFiles
PROPERTIES
  Delivered
