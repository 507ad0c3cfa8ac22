SPECIFICATION Spec
CONSTANTS
  MemorySize = 6
  MinPartition = 1
  Frequency = 0
  Dynamic = TRUE
  FirstFit = TRUE
  Fifo = TRUE
  Lens = {1, 3, 5}
  NMessages = 4
  MaxClock = 0
INVARIANT ZeroFrequencyDeactivated
