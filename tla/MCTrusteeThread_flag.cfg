SPECIFICATION Spec
CONSTANTS
  w1 = w1
  w2 = w2
  f1 = f1
  f2 = f2
  t1 = t1
  t2 = t2
  t3 = t3
  Nobody = nobody
  Clients = {c1}
  Trustees = {w1}
  Fibers = {f1}
  Threads = {t1, t2}
  MayRunOn <- AnyThread
  ClientOps = {"apply", "launch"}
  InnerOps = {"apply"}
  FiberOps = {"apply"}
CHECK_DEADLOCK FALSE
INVARIANT FlagIsExact
