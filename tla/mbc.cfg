SPECIFICATION FairMbcSpec
CONSTANTS
  MAX_SHARE_MEM = 40
  HEADER = 2
  MAILBOXES = 1
  SIZE_READ_PACK = 6
  SIZE_WRITE_PACK = 2
  MIN_PRGP_SIZE = 2
  MIN_IOGP_SIZE = 2
  PERCENT_READ = 50
  MESS_LIST_SIZE = 9
  INTERRUPTS_AHEAD = 3
  MbcLoads <- BoardLoads
CHECK_DEADLOCK FALSE
INVARIANTS
  MailAccounted
  PrintedInOrder
PROPERTIES
  PacketsComeBack
