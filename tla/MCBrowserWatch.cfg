SPECIFICATION Safety
CONSTANTS
  a = a
  d1 = d1
  d2 = d2
  p1 = p1
  p2 = p2
  i1 = i1
  i2 = i2
  Watch = watch
  None = None
  Ids = {d1, d2}
  DeclaredIds = {d1, d2}
  Pages = {}
  Invokers = {i1, i2}
  Staf = TRUE
INVARIANTS
  TypeOK
  OneProcess
  OneDeclared
SYMMETRY Swaps
