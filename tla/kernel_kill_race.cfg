SPECIFICATION Spec
CONSTANTS
  NPROC = 4
  NSEM = 2
  QUANTUM = 2
  Counts = {0, 2}
  PHMOD = 3
  MaxCount = 2
  MaxDefer = 2
  Workloads <- KinLoads
CHECK_DEADLOCK FALSE
INVARIANTS
  NumprocCountsLive
