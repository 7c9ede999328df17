SPECIFICATION Spec
CONSTANTS
  w1 = w1
  d1 = d1
  d2 = d2
  f1 = f1
  f2 = f2
  f3 = f3
  r1 = r1
  Daemon = daemon
  NoFlow = none
  Workspaces = {w1}
  Dests = {d1, d2}
  Flows = {f1}
  Resolvers = {r1}
  WsOf <- MCWsOf
  DestOf <- MCDestOf
  HostOf <- MCHostOf
  Offered = {"once"}
  RateLimit = 1
  StartModes = {"interactive"}
  SwitchModes = {}
  MaxFaults = 0
  MaxRestarts = 0
  CancelRequests = FALSE
INVARIANT
  NoOrphanRow
CHECK_DEADLOCK FALSE
