SPECIFICATION FairSpec
CONSTANTS
  Addr <- MCAddr
  Taken <- MCTaken
  ServerIds = {TRUE}
  Leases <- MCLeases
  U8 = 10
  U16 = 4
  INFINITE = 7
  DHCP_COARSE_TIMER_SECS = 2
  MaxNoMem = 1
INVARIANTS
  GrantedAndProbed
  NeverWaitsUnwatched
PROPERTIES
  AddressStable
  GetsBound
  
