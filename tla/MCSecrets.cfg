SPECIFICATION FairSpec
CONSTANTS
  n1 = n1
  n2 = n2
  c1 = c1
  c2 = c2
  Nobody = nobody
  Names = {n1, n2}
  Probe = n1
  MaxId = 1
  Calls = {c1, c2}
  MaxMints = 2
  MaxOperators = 1
  MaxEvents = 1
INVARIANTS
  TypeOK
  CacheBacked
  RowWhole
  ServedBacked
PROPERTIES
  LockReturns
  WindowCloses
CHECK_DEADLOCK FALSE
