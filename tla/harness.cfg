SPECIFICATION Spec
CONSTANTS
  Files <- MCFiles
  NameLists <- MCNameLists
  Iterations = 3
  Multiplier <- MCMultiplier
  Strays = {7}
  Parallel = {"rate"}
INVARIANTS
  ConfigFirst
  CrashNeedsFailure
  RunAsAsked
  FactorsWithinMean
CHECK_DEADLOCK FALSE
