SPECIFICATION Spec
CONSTANTS
  g1 = g1
  g2 = g2
  Last = last
  Gated <- MCGated
  MaxRuns = 1
INVARIANTS
  StopTimesSet
CHECK_DEADLOCK FALSE
