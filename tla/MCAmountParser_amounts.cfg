SPECIFICATION Spec
CONSTANTS
  Texts <- MCTexts
  IntegerDigits = 7
  Null = Null
  Digits = {4, 5, 8}
  MaxMarks = 3
  DigitsWorded = {0, 4}
  MaxMarksWorded = 2
INVARIANTS TypeOK NeverGuesses OneReadingIsStaged RefundIsNegative
CHECK_DEADLOCK FALSE
