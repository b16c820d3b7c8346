SPECIFICATION ServicesSpec
CONSTANTS
  MEMSIZE = 52
  HeapSizes <- MCHeapSizes
  StackSizes <- MCStackSizes
  NumDnodes = 3
  NumQjobs = 2
  SzData = 2
  MaxJobid = 4
  SpoolUser = {"lp0", "lp1", "lp2", "tftp", "page"}
  Despooler = "despool"
  Nobody = "nobody"
  SpoolLoads <- ServiceLoads
  LPD_NSLOTS = 3
  SlotUser <- MCSlotUser
  TftpUser = "tftp"
  SEGSIZE = 2
  MaxTimeouts = 2
  MaxReads = 3
  CR <- MCCR
  LF <- MCLF
  NUL <- MCNUL
  PageUser = "page"
  PAGE = 3
CHECK_DEADLOCK FALSE
INVARIANTS
  MemoryPartitioned
  SpoolerConsistent
  TftpSpoolsTheFile
PROPERTIES
  ImplementsHeap
  ImplementsPrintQueue
  SpoolerDrains
