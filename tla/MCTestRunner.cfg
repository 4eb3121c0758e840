SPECIFICATION Spec
CONSTANTS
  Pages <- MCPages
  BatchPages <- MCBatchPages
  MaxItems = 4
INVARIANTS
  TypeOK
  TestsInTurn
  TimeoutIsOwn
  CountedRight
  DoneComplete
PROPERTIES
  DoneAfterAll
  DoneInTheEnd
CHECK_DEADLOCK FALSE
