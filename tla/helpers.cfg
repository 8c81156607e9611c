SPECIFICATION FairSpec
CONSTANTS
  Cpus = 2
  Threshold = 2
INVARIANTS
  OwnResults
PROPERTIES
  RunEnds
CHECK_DEADLOCK FALSE
