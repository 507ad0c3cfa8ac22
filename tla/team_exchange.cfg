CONSTANTS
  pikachu = pikachu
  squirtle = squirtle
  gengar = gengar
  Species = {pikachu, squirtle, gengar}
  ShortNames = {}
  Trainers = {0, 1, 2}
  Objectives <- MCObjectives
  StartHeld <- MCStartHeld
  StartPos <- MCStartPos
  Arrivals <- MCArrivals
  Algorithms = {"RR"}
  Quantum = 1
  Scale = 4
  AlphaParts = 2
  InitialEstimate = 2
SPECIFICATION TeamSpec
CHECK_DEADLOCK FALSE
INVARIANT PartnerWaits
INVARIANT TradersInOneList
 
 
PROPERTY PlannedCatches
