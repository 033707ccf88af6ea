SPECIFICATION BusySpec
CONSTANTS
  Handles = {h1, h2, h3}
  Owner = owner
  OwnedByHandles = TRUE
  Ops = {"apply"}
  Panicking = {}
  MaxRepeat = 1
  Values <- UnitValues
  InitValue = 0
  NoValue = 0
  Mutate <- UnitMutate
  DrainPeriod = 1
  DrainChunk = 3
  WordSize = 8
CHECK_DEADLOCK FALSE
PROPERTIES CallsReturn
