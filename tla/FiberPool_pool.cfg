SPECIFICATION FairSpec
CONSTANTS
  Callers = {c1, c2}
  Fibers = {f1, f2, f3}
  NoOne = none
  Panics = TRUE
  Endings = {"terminate", "into_inner", "panic"}
CHECK_DEADLOCK FALSE
INVARIANTS TypeOK SendersAreIdleFibers CellOutlivesClosures TerminateLeavesNothing
PROPERTIES ImplementsJobs TerminateReturns LaunchesAnswered
