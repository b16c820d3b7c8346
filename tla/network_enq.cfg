SPECIFICATION InternetSpec
CONSTANTS
  Buf <- MCBuf
  Hosts = {"h1", "h2", "h3"}
  ARP_TSIZE = 2
  ARP_QSIZE = 2
  ARP_TIMEOUT = 1
  ARP_RESEND = 1
  ARP_MAXRETRY = 1
  IP_FQSIZE = 3
  IP_FTTL = 2
  MAXLRGBUF = 3
  Datagrams = {1, 2, 3, 4}
  Length <- MCLength
  NI_INQSZ = 1
  Senders = {"a", "b"}
  Workloads <- InternetRaceLoads
  TCPSBS = 3
  TCPRBS = 3
  TCPMSS = 1
  TCPQLEN = 4
  NTCPFRAG = 2
  TCP_MAXRETRIES = 2
  Host = {"c", "s"}
  Ntcp <- MCNtcp
  NetSize = 5
  MaxOpens = 2
  TcpLoads <- NoTcpLoads
CHECK_DEADLOCK FALSE
INVARIANTS
  PacketInOnePlace
