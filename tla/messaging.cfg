SPECIFICATION Spec
CONSTANTS
  Proc = {p1, p2, p3}
  NSEM = 4
  NBPOOLS = 2
  NBUFS = 2
  NPORTS = 2
  MAXMSGS = 4
  Msgs <- MCMsgs
  Caps = {1, 2}
  MaxSeq = 3
  Workloads <- MCWorkloads
CHECK_DEADLOCK FALSE
INVARIANTS
  PoolsAccounted
  PortsAccounted
PROPERTIES
  ImplementsMailbox
SYMMETRY Symmetry
