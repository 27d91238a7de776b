SPECIFICATION Spec
CONSTANTS
  MEMP_NUM_NETCONN = 3
  MEMP_NUM_TCP_PCB = 2
  DEFAULT_ACCEPTMBOX_SIZE = 2
  DEFAULT_TCP_RECVMBOX_SIZE = 1
  TCP_WND = 2
  MaxFail = 1
INVARIANT
  FileBufferIntact
CHECK_DEADLOCK FALSE
