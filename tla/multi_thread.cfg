SPECIFICATION FairSpec
CONSTANTS
  NCpus = 3
  Gated <- MCGated
  Solo <- MCSolo
  Nobody <- MCNobody
  Iterations = 2
  Threshold = 2
INVARIANTS
  BroadcastReachesAll
  LastRunsAlone
  SafeTeardown
  PassMeansMeasured
  OnlyLostWakeupBlocks
PROPERTIES
  GateOpens
CHECK_DEADLOCK FALSE
