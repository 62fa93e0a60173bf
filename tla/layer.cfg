SPECIFICATION FairSpec
CONSTANTS
  CPUs = {c1, c2}
  NoCPU = NoCPU
  Pids = {1, 2}
  pid = 5
  PidMod = 4
  attachOrder <- AllProbes
  MaxRecords = 2
INVARIANTS StrayOnce
PROPERTIES Drains FilterSettles
CHECK_DEADLOCK FALSE
