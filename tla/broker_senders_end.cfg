CONSTANTS
  NEW_POKEMON = NEW_POKEMON
  APPEARED_POKEMON = APPEARED_POKEMON
  Queues = {NEW_POKEMON, APPEARED_POKEMON}
  AckedQueues = {NEW_POKEMON}
  NSubscribers = 1
  NMessages = 2
  NSilent = 0
SPECIFICATION FairSpec
CHECK_DEADLOCK FALSE
INVARIANT ListedStillCached
PROPERTY SendersEnd
