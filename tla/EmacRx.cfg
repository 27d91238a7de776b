SPECIFICATION FairSpec
CONSTANTS
  EMAC_NUM_RX_FRAG = 3
  PBUF_POOL_SIZE = 2
  TCPIP_MBOX_SIZE = 1
  MEMP_NUM_TCPIP_MSG_INPKT = 2
  MEMP_NUM_TCPIP_MSG_API = 1
  Frames <- MCFrames
  Garbage = Garbage
INVARIANTS
  PoolsConserved
PROPERTIES
  ImplementsLossyQueue
  RingDrains
