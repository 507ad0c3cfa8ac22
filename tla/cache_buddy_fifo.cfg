SPECIFICATION Spec
CONSTANTS
  MemorySize = 8
  MinPartition = 1
  Frequency = 1
  Dynamic = FALSE
  FirstFit = TRUE
  Fifo = TRUE
  Lens = {1, 2, 3, 5, 9}
  NMessages = 6
  MaxClock = 0
INVARIANT NoNullDereference
INVARIANT BuddySystem
PROPERTY ImplementsStore
CHECK_DEADLOCK FALSE
