CONSTANTS
  one_one = one_one
  eleven_one = eleven_one
  Threads = {t1, t2, t3}
  Coords = {one_one, eleven_one}
  Contains <- MCContains
  Amounts = {9}
  StartAmounts = {1}
  MaxRestarts = 1
SPECIFICATION FairSpec
CHECK_DEADLOCK FALSE
INVARIANT OneHolder
INVARIANT NothingLost
INVARIANT CrashNeedsRemoval
INVARIANT SemaphoreComesBack
PROPERTY OpsEnd
