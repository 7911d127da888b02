SPECIFICATION FairSpec
CONSTANTS
  t1 = t1
  t2 = t2
  Txns = {t1, t2}
  EventDay <- MCTwoPartitions
  FirstDay <- MCFirstDay
  LastDay = 2
  RawLabels = {"Yes", "No"}
  BaselineFirst = {TRUE}
  IngestDuringRuns = FALSE
  Retries = 1
  MaxIngests = 2
  MaxCrashes = 2
  MaxOps = 0
INVARIANTS NoDetectedChangeLost
PROPERTIES RestateSettles AppliedMeansStaged
CHECK_DEADLOCK FALSE
