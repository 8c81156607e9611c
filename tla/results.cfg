SPECIFICATION ResultsSpec
CONSTANTS
  Times = {4, 5, 6, 9}
  Sizes = {2, 3}
  Ranges = {20, 50}
  Accepts = {60, 100}
  MaxTries = 2
INVARIANTS
  StatsDescribeValues
  PassedWhatIsPublished
  PassMeansConsistent
  ScoreOfPublished
CHECK_DEADLOCK FALSE
