SPECIFICATION Spec
CONSTANTS
  Handles = {h1, h2}
  Owner = owner
  OwnedByHandles = TRUE
  Ops = {"apply", "apply_with", "launch"}
  Panicking = {}
  MaxRepeat = 1
  Values <- Mod2Values
  InitValue = 0
  NoValue = none
  Mutate <- Mod2Mutate
  DrainPeriod = 2
  DrainChunk = 1
  WordSize = 8
CHECK_DEADLOCK FALSE
SYMMETRY HandleSymmetry
INVARIANTS TypeOK SlotExclusion RunsExactlyAsAsked RuntimeOutlivesHandles
PROPERTIES AnswersOutstandingOnly ImplementsTrust ImplementsJobs
