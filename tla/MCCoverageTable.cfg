SPECIFICATION CoverSpec
CONSTANTS
  b1 = b1
  b2 = b2
  Browsers = {b1, b2}
  Size = 1
  Interval = 0
  CellOf <- MCCellOf
  Deletable = {}
  Live = {}
  Scenarios <- MCScenarios
  MaxReports = 3
  MaxMerges = 2
INVARIANTS
  CoverTypeOK
  MergeRight
  FailsOnlyByLines
  TotalRight
SYMMETRY Swaps
CHECK_DEADLOCK FALSE
