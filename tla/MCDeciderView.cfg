SPECIFICATION Spec
CONSTANTS
  Requests = {r1}
  Revokes = {revoke}
  Switches = {switch}
  Own = own
  Elsewhere = there
  Stray = stray
  QueueMax = 2
  MaxConnects = 2
  MaxOutside = 1
CHECK_DEADLOCK FALSE
INVARIANTS
  TypeOK
  HoldsShown
  GhostsLeave
  RulesTold
