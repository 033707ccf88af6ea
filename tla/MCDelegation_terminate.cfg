SPECIFICATION Spec
CONSTANTS
  Handles = {h1, h2}
  Owner = owner
  OwnedByHandles = FALSE
  Ops = {"launch"}
  Panicking = {"launch"}
  MaxRepeat = 1
  Values <- UnitValues
  InitValue = 0
  NoValue = none
  Mutate <- UnitMutate
  DrainPeriod = 1
  DrainChunk = 1
  WordSize = 8
CHECK_DEADLOCK FALSE
SYMMETRY HandleSymmetry
PROPERTY ImplementsJobs
