SPECIFICATION FairSpec
CONSTANTS
  w1 = w1
  d1 = d1
  d2 = d2
  f1 = f1
  f2 = f2
  f3 = f3
  r1 = r1
  Daemon = daemon
  NoFlow = none
  Workspaces = {w1}
  Dests = {d1, d2}
  Flows = {f1}
  Resolvers = {r1}
  WsOf <- MCWsOf
  DestOf <- MCDestOf
  HostOf <- MCHostOf
  Offered = {"forever"}
  RateLimit = 1
  StartModes = {"interactive"}
  SwitchModes = {"allow", "static", "interactive"}
  MaxFaults = 1
  MaxRestarts = 1
  CancelRequests = FALSE
INVARIANTS
  ExpiredMeansUnruled
  NoneHeldUngated
PROPERTIES
  EveryFlowEnds
  EveryRowCloses
CHECK_DEADLOCK FALSE
