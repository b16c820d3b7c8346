SPECIFICATION FairSpec
CONSTANTS
  Proc = {"r", "v", "w"}
  NSEM = 2
  IBUFLEN = 4
  OBUFLEN = 5
  EBUFLEN = 3
  OBMINSP = 2
  Workloads <- SafetyLoads
CHECK_DEADLOCK FALSE
INVARIANTS
  CharactersAccounted
PROPERTIES
  BlockedWriterReleased
