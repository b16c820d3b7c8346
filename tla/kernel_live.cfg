SPECIFICATION FairSpec
CONSTANTS
  NPROC = 4
  NSEM = 2
  QUANTUM = 1
  Counts = {0, 2}
  PHMOD = 3
  MaxCount = 2
  MaxDefer = 2
  Workloads <- LivenessLoads
PROPERTIES
  ReadyEventuallyRuns
  TimedWaitEnds
