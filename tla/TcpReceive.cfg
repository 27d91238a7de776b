SPECIFICATION FairSpec
CONSTANTS
  N = 10
  SEQ = 64
  ISS = 2
  TCP_WND = 8
  TCP_MSS = 3
  MboxSize = 2
INVARIANTS
  AckedIsHeld
  OoseqOrdered
  WindowConserved
PROPERTIES
  AllDelivered
