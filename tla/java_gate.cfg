SPECIFICATION FairSpec
CONSTANTS
  g1 = g1
  g2 = g2
  Last = last
  Gated <- MCGated
  MaxRuns = 3
INVARIANTS
  WorkInTurn
  FinishedWhenRead
PROPERTIES
  RunsEnd
CHECK_DEADLOCK FALSE
