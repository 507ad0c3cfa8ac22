CONSTANTS
  pikachu = pikachu
  squirtle = squirtle
  gengar = gengar
  Species = {pikachu, squirtle, gengar}
  ShortNames = {gengar}
  Trainers = {0, 1}
  Objectives <- MCObjectives
  StartHeld <- MCStartHeld
  StartPos <- MCStartPos
  Arrivals <- MCArrivals
  Algorithms = {"FIFO", "RR", "SJF-SD", "SJF-CD"}
  Quantum = 1
  Scale = 4
  AlphaParts = 2
  InitialEstimate = 2
SPECIFICATION Spec
CHECK_DEADLOCK FALSE
INVARIANT SemaphoresCountLists
 
INVARIANT RoomIsMissing
INVARIANT DetectsWhenAllFull
