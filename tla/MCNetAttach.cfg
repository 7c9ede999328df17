SPECIFICATION FairSpec
CONSTANTS
  w1 = w1
  w2 = w2
  t1 = t1
  t2 = t2
  s1 = s1
  Nobody = nobody
  NoSlice = noslice
  Workspaces = {w1, w2}
  Tasks = {t1, t2}
  Slices = {s1}
  Modes <- MCModes
  Changing = {w1}
  MaxFaults = 1
INVARIANTS
  TypeOK
  QueueServed
  PostureAgrees
  AttachedIsWhole
  SliceExclusive
  NoResidue
  Redirected
PROPERTY
  CallsEnd
CHECK_DEADLOCK FALSE
