SPECIFICATION Spec
CONSTANTS
  n1 = n1
  n2 = n2
  a1 = a1
  f1 = f1
  f2 = f2
  NoFlow = noflow
  Names = {n1, n2}
  Addrs = {a1}
  Flows = {f1}
  AddrOf <- MCAddrOf
  MaxPins = 1
  MaxEvents = 4
SYMMETRY Symmetric
INVARIANTS
  TypeOK
  SharedUnpinned
  RevokeClears
  HeldIsOwned
CHECK_DEADLOCK FALSE
