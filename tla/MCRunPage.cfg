SPECIFICATION Spec
CONSTANTS
  q1 = q1
  q2 = q2
  q3 = q3
  r1 = r1
  c1 = c1
  c2 = c2
  a1 = a1
  a2 = a2
  Main = main
  Pages = {q1, q2, q3, r1, c1, c2}
  TaskAdds = {a1, a2}
  Crowds <- MCCrowds
  NameOf <- MCNameOf
  ModeOf <- MCModeOf
  Files <- MCFiles
  Written = 1
  Capacity = 4
  Sources = {"a", "b", "c", "d", "e"}
  Imports <- MCImports
  NoCase = {"b"}
  NoCovDir = {c2}
INVARIANTS
  TypeOK
  StructureWhole
  FailsOnlyByParse
  ServedRight
PROPERTIES
  PageLoads
CHECK_DEADLOCK FALSE
