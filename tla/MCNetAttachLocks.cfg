SPECIFICATION Spec
CONSTANTS
  w1 = w1
  w2 = w2
  t1 = t1
  t2 = t2
  s1 = s1
  Nobody = nobody
  NoSlice = noslice
  Workspaces = {w1, w2}
  Tasks = {t1, t2}
  Slices = {s1}
  Modes <- MCModes
  Changing = {w1}
  MaxFaults = 0
INVARIANT
  NoLockCycle
CHECK_DEADLOCK FALSE
