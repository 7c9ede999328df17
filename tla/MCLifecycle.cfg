SPECIFICATION FairSpec
CONSTANTS
  w1 = w1
  r1 = r1
  r2 = r2
  Nobody = nobody
  Workspaces = {w1}
  Requests = {r1, r2}
  Ops = {"start", "stop", "reset", "delete", "move"}
  MaxRequests = 2
  MaxEvents = 1
  MaxCrashes = 1
INVARIANTS
  TypeOK
  NoOrphanVm
  GuestHasNet
PROPERTIES
  LeasesVolumes
  OneVmm
  RowSettles
  EveryRequestEnds
CHECK_DEADLOCK FALSE
