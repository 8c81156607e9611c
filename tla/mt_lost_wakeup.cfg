SPECIFICATION FairSpec
CONSTANTS
  NCpus = 2
  Gated <- MCGated
  Solo <- MCSolo
  Nobody <- MCNobody
  Iterations = 1
  Threshold = 1
PROPERTIES
  ParentNotices
CHECK_DEADLOCK FALSE
