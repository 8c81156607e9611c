SPECIFICATION FairSpec
CONSTANTS
  Threshold = 2
  Width = 6
  FirstRate = 5
  FirstArray = 4
  BlockSize = 2
  Speeds = {8, 16}
  FirstQuantum = 1
  LongSleep = 4
  MaxTests = 3
INVARIANTS
  LeastQuantum
  ResultsMeasured
  FairlyJudged
  AbortsExplained
PROPERTIES
  Ends
CHECK_DEADLOCK FALSE
