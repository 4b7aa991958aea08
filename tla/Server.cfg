SPECIFICATION FairSpec
CONSTANTS
  PBUF_POOL_SIZE = 3
  Clients = {c1, c2, c3}
  NoClient = NoClient
  TCP_WND = 4
  MEMP_NUM_TCP_PCB = 2
  MaxSegment = 3
  MaxBlock = 1
CHECK_DEADLOCK FALSE
INVARIANTS NoUseAfterFree PoolComplete ReplyToOpen AcceptIffFree
  ReplyToSender
PROPERTIES PacketsProcessed ExecuteServed
