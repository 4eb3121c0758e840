SPECIFICATION Spec
CONSTANTS
  a = a
  d1 = d1
  d2 = d2
  p1 = p1
  p2 = p2
  i1 = i1
  i2 = i2
  Watch = watch
  None = None
  Ids = {a, d1}
  DeclaredIds = {d1}
  Pages = {p1}
  Invokers = {i1}
  Staf = FALSE
PROPERTIES
  RemovesOnlySilent
  WatchKeepsUp
