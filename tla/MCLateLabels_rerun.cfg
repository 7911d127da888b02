SPECIFICATION Spec
CONSTANTS
  t1 = t1
  t2 = t2
  Txns = {t1, t2}
  EventDay <- MCNewDay
  FirstDay = 0
  LastDay = 1
  RawLabels = {"Yes", "No", "Blank"}
  BaselineFirst = {TRUE, FALSE}
  IngestDuringRuns = TRUE
  Retries = 1
  MaxIngests = 2
  MaxCrashes = 1
  MaxOps = 1
INVARIANTS TypeOK LedgerOnce RestateInv
PROPERTIES AppliedAfterReported OnlyListedChangesRestate RecordedIsListed StoreSpec
CHECK_DEADLOCK FALSE
