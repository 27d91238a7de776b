SPECIFICATION Spec
CONSTANTS
  EMAC_PHY_RESP_TOUT = 1
  TCPIP_MBOX_SIZE = 1
  MEMP_NUM_TCPIP_MSG_API = 3
INVARIANT
  InitFinishedFirst
