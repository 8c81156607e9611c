SPECIFICATION FairSpec
CONSTANTS
  Majors = 3
  Threshold = 2
  MaxSubs = 4
INVARIANTS
  SignalsFindWaiters
  TimedRoundTrips
  CleanBetweenRuns
  SenderAwaitsAnnouncement
PROPERTIES
  Alternates
  RunsEnd
CHECK_DEADLOCK FALSE
