SPECIFICATION Spec
CONSTANTS
  u1 = u1
  u2 = u2
  x = x
  y = y
  Null = Null
  NoRow = NoRow
  Users = {u1, u2}
  Values = {x, y, Null}
  MaxBuilds = 3
SYMMETRY MCSymmetry
INVARIANTS TypeOK AsOfUnique
PROPERTIES CurrentIsStaged
CHECK_DEADLOCK FALSE
