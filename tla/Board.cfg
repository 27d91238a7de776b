SPECIFICATION FairSpec
CONSTANTS
  RETRY_COUNT = 3
  TABLE_LEN = 3
  MaxNoise = 11
INVARIANTS
  BootConfigures
  RightChip
PROPERTIES
  PowerFollows
