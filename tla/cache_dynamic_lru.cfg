SPECIFICATION FairSpec
CONSTANTS
  MemorySize = 8
  MinPartition = 2
  Frequency = 2
  Dynamic = TRUE
  FirstFit = FALSE
  Fifo = FALSE
  Lens = {1, 3, 8, 9}
  NMessages = 4
  MaxClock = 3
INVARIANT ContentIntact
 
PROPERTY SaveEnds
CHECK_DEADLOCK FALSE
