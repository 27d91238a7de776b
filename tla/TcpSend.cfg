SPECIFICATION FairSpec
CONSTANTS
  N = 4
  TCP_MSS = 2
  TCP_SND_BUF = 3
  TCP_SND_QUEUELEN = 5
  U16 = 13
  PeerBuf = 3
  HalfClosed = TRUE
  NetMax = 1
  AckMax = 2
  Copies = {TRUE, FALSE}
  WriteSizes = {2, 3}
CHECK_DEADLOCK FALSE
INVARIANTS
  StreamIntact
  NothingDropped
  
  WindowRespected

  
