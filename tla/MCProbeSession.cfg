SPECIFICATION Spec
CONSTANTS
  Probes = {p1}
  Registered = {}
  KissList <- MCKissList
  Ours <- MCOurs
  Calls <- MCCalls
  Slots = {1, 2}
INVARIANTS
  TypeOK
  HeardAsItself
  NoneForgotten
  StrayTaskShort
PROPERTIES
  AllEnds
CHECK_DEADLOCK FALSE
