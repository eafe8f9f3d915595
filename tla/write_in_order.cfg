CONSTANTS
  Port <- Ordered
  Capacity = 3
  MaxBytes = 8
SPECIFICATION FairSpec
INVARIANTS TypeOK OneWriteInv
PROPERTIES InOrderOnce EveryByteLeaves
CHECK_DEADLOCK FALSE
