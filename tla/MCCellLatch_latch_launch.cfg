SPECIFICATION Spec
CONSTANTS
  u1 = u1
  u2 = u2
  u3 = u3
  t1 = t1
  t2 = t2
  Users = {u1, u2}
  Threads = {t1, t2}
  ThreadOf <- TwoThreads
  MaxUpdates = 6
CHECK_DEADLOCK FALSE
INVARIANT MutualExclusion
