SPECIFICATION FairSpec
CONSTANTS
  Waiters = {w1, w2}
  Setters = {s1, s2, s3}
  Goal = 2
  Panicking = {s3}
CHECK_DEADLOCK FALSE
INVARIANT ReturnsWhenMet
PROPERTY WaitersComeBack
