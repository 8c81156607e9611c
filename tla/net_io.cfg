SPECIFICATION FairSpec
CONSTANTS
  FirstSize = 2
  Iterations = 2
  Threshold = 2
  MaxRetry = 1
  MaxSize = 4
  MaxRuns = 2
INVARIANTS
  WholeMessages
  SafeRelease
  HonestTimes
PROPERTIES
  RunEnds
CHECK_DEADLOCK FALSE
