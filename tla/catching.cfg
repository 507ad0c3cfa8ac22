CONSTANTS
  pikachu = pikachu
  squirtle = squirtle
  Species = {pikachu, squirtle}
  ShortNames = {}
  Trainers = {0, 1}
  Objectives <- MCObjectives
  StartHeld <- MCStartHeld
  StartPos <- MCStartPos
  Arrivals <- MCArrivals
  Algorithms = {"FIFO"}
  Quantum = 1
  Scale = 4
  AlphaParts = 2
  InitialEstimate = 2
  Wanted <- MCWanted
  StartStock <- MCStartStock
  OthersWant = {pikachu}
  Faults = {"outage", "CAUGHT"}
SPECIFICATION CatchingSpec
CHECK_DEADLOCK FALSE
INVARIANT AnswerReachesItsTrainer
INVARIANT NothingFromNothing
INVARIANT MissesWhatItDidNotGet
INVARIANT TokensCountFreeTrainers
