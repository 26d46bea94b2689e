CONSTANTS
  Size = 2
  MaxMade = 3
  MaxErr = 2
  PipeCap = 1
  Chunk = 2
  MaxFaults = 1
SPECIFICATION FairSpec
INVARIANTS
  FailureIsWrapped
