SPECIFICATION Spec
CONSTANTS
  u1 = u1
  u2 = u2
  x = x
  y = y
  Null = Null
  NoRow = NoRow
  Users = {u1}
  Values = {x, y, Null}
  MaxBuilds = 3
PROPERTIES HistoryKept
CHECK_DEADLOCK FALSE
