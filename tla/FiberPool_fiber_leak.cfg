SPECIFICATION FairSpec
CONSTANTS
  Callers = {c1}
  Fibers = {f1}
  NoOne = none
  Panics = FALSE
  Endings = {"into_inner", "panic"}
CHECK_DEADLOCK FALSE
PROPERTY FibersExit
