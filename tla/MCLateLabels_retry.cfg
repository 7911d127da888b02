SPECIFICATION Spec
CONSTANTS
  t1 = t1
  t2 = t2
  Txns = {t1, t2}
  EventDay <- MCTwoPartitions
  FirstDay <- MCFirstDay
  LastDay = 1
  RawLabels = {"Yes", "No", "Blank"}
  BaselineFirst = {TRUE}
  IngestDuringRuns = FALSE
  Retries = 1
  MaxIngests = 1
  MaxCrashes = 1
  MaxOps = 0
INVARIANTS NoDetectedChangeLost
CHECK_DEADLOCK FALSE
