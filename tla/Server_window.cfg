SPECIFICATION Spec
CONSTANTS
  PBUF_POOL_SIZE = 3
  Clients = {c1, c2, c3}
  NoClient = NoClient
  TCP_WND = 3
  MEMP_NUM_TCP_PCB = 2
  MaxSegment = 2
  MaxBlock = 1
CHECK_DEADLOCK FALSE
INVARIANT WindowReopened
