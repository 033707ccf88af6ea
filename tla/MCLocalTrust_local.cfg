SPECIFICATION FairSpec
CONSTANTS
  Owner = owner
  Ops = {"apply", "apply_with", "with", "apply_batch_mut", "launch", "into_inner"}
  MaxRepeat = 3
  Values <- Mod3Values
  InitValue = 0
  NoValue = none
  Mutate <- Mod3Mutate
  Panics = TRUE
CHECK_DEADLOCK FALSE
PROPERTIES ImplementsTrust CallsReturn
