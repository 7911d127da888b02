SPECIFICATION Spec
CONSTANTS
  Transactions <- MCTransactions
  LastDay = 3
  Hour = 1
  DayLength = 4
  Lookback = 1
  MaxLoads = 3
  MaxReading = 2
  Null = Null
INVARIANTS TypeOK VelocityOfOthers AverageOfPast
CHECK_DEADLOCK FALSE
