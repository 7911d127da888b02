SPECIFICATION Spec
CONSTANTS
  a = a
  b = b
  d = d
  n = n
  Rows <- MCRows
  IdOf <- MCIdOf
  NullIds = {n}
  FirstRows = {a, b, n}
  NumPartitions = 3
  DailyTasks = {"transactions", "users"}
  TierTasks = {"tier"}
  Retries = 1
  MaxChanges = 1
  MaxCrashes = 1
INVARIANTS TypeOK ReadOnce RawComplete StagedComplete
CHECK_DEADLOCK FALSE
