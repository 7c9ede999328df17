SPECIFICATION Spec
CONSTANTS
  w1 = w1
  r1 = r1
  r2 = r2
  Nobody = nobody
  Workspaces = {w1}
  Requests = {r1}
  Ops = {"start", "stop"}
  MaxRequests = 3
  MaxEvents = 1
  MaxCrashes = 0
INVARIANT
  StopLands
CHECK_DEADLOCK FALSE
