SPECIFICATION FairSpec
CONSTANTS
  a = a
  b = b
  Payload <- MCPayload
  Frames <- MCFrames
  EMAC_NUM_TX_FRAG = 2
  EMAC_ETH_MAX_FLEN = 3
  netifMAX_TX_ATTEMPTS = 2
INVARIANTS
  BufferStaysFree
  BufferBounds
PROPERTIES
  ImplementsQueue
  OutputReturns
