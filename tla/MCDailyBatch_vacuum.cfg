SPECIFICATION Spec
CONSTANTS
  a1 = a1
  a2 = a2
  b1 = b1
  Rows <- MCRows
  Id <- MCId
  DayOf <- MCDayOf
  LoadedAt <- MCLoadedAt
  AtFirst <- MCAtFirst
  Corrections <- MCCorrections
  Valid = {a2}
  LastDay = 2
  Retries = 1
  MaxActiveRuns = 4
  MaxEvents = 3
PROPERTIES VacuumKeepsUnresolved
CHECK_DEADLOCK FALSE
