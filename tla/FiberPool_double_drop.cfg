SPECIFICATION Spec
CONSTANTS
  Callers = {c1}
  Fibers = {f1}
  NoOne = none
  Panics = FALSE
  Endings = {"into_inner"}
CHECK_DEADLOCK FALSE
INVARIANT OneOwnerOfT
