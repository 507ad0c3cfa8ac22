CONSTANTS
  NEW_POKEMON = NEW_POKEMON
  APPEARED_POKEMON = APPEARED_POKEMON
  Queues = {NEW_POKEMON}
  AckedQueues = {NEW_POKEMON}
  NSubscribers = 2
  NMessages = 1
  NSilent = 0
SPECIFICATION Spec
CHECK_DEADLOCK FALSE
INVARIANT NewSubscriberCatchesUp
