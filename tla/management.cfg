SPECIFICATION ManagementSpec
CONSTANTS
  A = A
  B = B
  C = C
  X = X
  Machines = {A, B, C}
  Peers = {X}
  Nobody = Nobody
  Nets <- NetsDef
  Loads <- RoutingLoads
  RT_INF = 9
  RTM_INF = 4
  RIPRTTL = 3
  RIPZTIME = 2
  IC_RDTTL = 4
  UPPLEN = 3
  IP_TTL = 4
  S = S
  K = K
  Agent = Agent
  Client = Client
  NoUser = NoUser
  Users = {Agent, Client}
  Systems = {S, K}
  Home <- HomeDef
  UPPS = 2
  UPPLEN_DG = 2
  ULPORT = 5
  SNMPPORT = 2
  MaxBinds = 2
  CHAR_BITS = 3
  Plans <- SnmpPlans
CHECK_DEADLOCK FALSE
INVARIANTS
  RoutesCounted
  WalkExact
  ReplyBelongs
  CodecReadsBack
PROPERTIES
  RoutesConverge
  QueryEnds
