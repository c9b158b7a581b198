SPECIFICATION Spec
CONSTANTS
  What <- MCWhat
  Asks <- MCAsks
  Codes = {"A"}
  Keys = {"k1", "k2", "k3", "k4", "k5"}
  Contents = {"x", "y", "wrong"}
  Valid = {"x", "y"}
  MaxBatch = 2
  Attempt <- MCAttempt
  MaxFailures = 1
  MaxCrashes = 1
  MaxFallbacks = 1
INVARIANTS TypeOK NothingTwice AnswersStand RefusedNeverHappened NoFalseConflict DryRunPredicts VersionCountsBatches
CHECK_DEADLOCK FALSE
