SPECIFICATION FairSpec
CONSTANTS
  Events = 2
  Threshold = 3
INVARIANTS
  OwnEvents
  StoresInside
  QuietAtEnd
PROPERTIES
  WaitEnds
CHECK_DEADLOCK FALSE
