SPECIFICATION Spec
CONSTANTS
  Browsers = {b1, b2}
  Size = 3
  Interval = 1
  CellOf <- MCDuplicate
  Deletable = {1}
  Live = {b1}
INVARIANTS
  TypeOK
  DeadlineFollows
  FilledAreCounted
  CursorRight
PROPERTIES
  ImplementsContract
  DiesForGood
  ReportedAndReleased
