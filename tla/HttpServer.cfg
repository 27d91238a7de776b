SPECIFICATION FairSpec
CONSTANTS
  MEMP_NUM_NETCONN = 3
  MEMP_NUM_TCP_PCB = 2
  DEFAULT_ACCEPTMBOX_SIZE = 2
  DEFAULT_TCP_RECVMBOX_SIZE = 1
  TCP_WND = 2
  MaxFail = 1
CHECK_DEADLOCK FALSE
INVARIANTS
  NoLostWakeup
  CallAnswered
  NetconnsConserved
PROPERTIES
  ServerStays
  ServerReturns
