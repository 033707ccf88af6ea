SPECIFICATION Spec
CONSTANTS
  Handles = {h1, h2}
  Owner = owner
  OwnedByHandles = FALSE
  Ops = {"apply_batch_mut", "into_inner"}
  Panicking = {"apply_batch_mut"}
  MaxRepeat = 2
  Values <- UnitValues
  InitValue = 0
  NoValue = none
  Mutate <- UnitMutate
  DrainPeriod = 1
  DrainChunk = 1
  WordSize = 8
CHECK_DEADLOCK FALSE
SYMMETRY HandleSymmetry
INVARIANTS SlotExclusion RunsExactlyAsAsked
PROPERTIES AnswersOutstandingOnly ImplementsTrust
