SPECIFICATION Spec
CONSTANTS
  t1 = t1
  t2 = t2
  Txns = {t1, t2}
  EventDay <- MCEventDay
  LastDay = 1
  Loaded = {t1}
  FirstLabels <- MCFirstLabels
  YearOf <- MCYearOf
  BackfillYears = {2017, 2018}
  Batches = {0, 1}
  BatchOf <- MCBatchOf
  MaxReloads = 2
  MaxAtWork = 2
INVARIANTS TypeOK AppliedStays
PROPERTIES RowsKept
CHECK_DEADLOCK FALSE
