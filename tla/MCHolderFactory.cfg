SPECIFICATION Safety
CONSTANTS
  ff = ff
  ie = ie
  op = op
  r1 = r1
  r2 = r2
  r3 = r3
  r4 = r4
  None = None
  Browsers = {ff, ie, op}
  Configured = {ff}
  Calls = {r1, r2, r3, r4}
INVARIANTS
  AnswersRight
PROPERTIES
  StaysOnceSeen
