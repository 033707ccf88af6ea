SPECIFICATION FairSpec
CONSTANTS
  Handles = {h1, h2}
  Owner = owner
  OwnedByHandles = TRUE
  Ops = {"with", "launch"}
  Panicking = {"launch"}
  MaxRepeat = 1
  Values <- UnitValues
  InitValue = 0
  NoValue = 0
  Mutate <- UnitMutate
  DrainPeriod = 2
  DrainChunk = 1
  WordSize = 8
CHECK_DEADLOCK FALSE
PROPERTIES CallsReturn DropReturns
