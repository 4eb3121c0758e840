SPECIFICATION Spec
CONSTANTS
  ff = ff
  ie = ie
  c1 = c1
  c2 = c2
  c3 = c3
  t1 = t1
  t2 = t2
  t3 = t3
  k1 = k1
  k2 = k2
  None = None
  Names = {k1, k2}
  Tasks = {t1, t2, t3}
  Browsers = {ff, ie}
  Clients = {c1, c2, c3}
  Live = {c1, c3}
  BrowserOf <- MCBrowserOf
  BrowserList <- MCListed
  KissList <- MCKissList
INVARIANTS
  TypeOK
  QueueRight
  HoldersRight
PROPERTIES
  CallsReturn
  StartsUnlessStranded
