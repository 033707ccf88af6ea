SPECIFICATION Spec
CONSTANTS
  u1 = u1
  u2 = u2
  u3 = u3
  t1 = t1
  t2 = t2
  Users = {u1, u2, u3}
  Threads = {t1}
  ThreadOf <- OneThread
  MaxUpdates = 6
CHECK_DEADLOCK FALSE
INVARIANTS MutualExclusion LockedMeansHeld
