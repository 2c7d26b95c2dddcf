SPECIFICATION FairSpec
CONSTANTS
  None = None
  Leader = leader
  Kid = {kid}
CHECK_DEADLOCK FALSE
INVARIANTS
  GroupGone
  OwnStatus
PROPERTIES
  Returns
