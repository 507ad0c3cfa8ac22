SPECIFICATION Spec
CONSTANTS
  MemorySize = 8
  MinPartition = 1
  Frequency = 1
  Dynamic = TRUE
  FirstFit = TRUE
  Fifo = TRUE
  Lens = {1, 2, 3, 5}
  NMessages = 5
  MaxClock = 0
INVARIANT TypeOK
INVARIANT PartitionsDisjoint
INVARIANT NoMemoryLost
INVARIANT BusyIsCached
INVARIANT FreeNeighboursMerged
PROPERTY ImplementsStore
