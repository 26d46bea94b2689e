CONSTANTS
  N = 2
  MaxFaults = 1
SPECIFICATION FairSpec
INVARIANTS
  AsyncExceptionRollsBack
