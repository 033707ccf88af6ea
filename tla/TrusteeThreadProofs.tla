------------------------- MODULE TrusteeThreadProofs -------------------------
(* Machine-checked proofs about TrusteeThread.                              *)
EXTENDS TrusteeThread, TLAPS

(* Who is called what: clients only run user code and wait, fibers are free *)
(* when they do neither, workers have their loop.                           *)
PcKinds ==
  /\ \A a \in Clients  : pc[a] \in {"user", "wait"}
  /\ \A f \in Fibers   : pc[f] \in {"user", "wait", "free"}
  /\ \A w \in Trustees : pc[w] \in {"new", "loop", "user", "wait", "ended"}

(* A closure has one coroutine that runs it and a caller that waits for it: *)
(* an answer goes to someone who waits, and to nobody twice.                *)
ServedWaits ==
  /\ \A a \in Actors : taken[a] => pc[a] = "wait"
  /\ \A x \in Coroutines : pc[x] \in {"user", "wait"} => served[x] # Nobody
  /\ \A x \in Coroutines : served[x] # Nobody => taken[served[x]]
  /\ \A a \in Actors : pc[a] = "wait" => target[a] \in Trustees
  /\ \A x \in Coroutines : pc[x] \in {"new", "loop", "free"} => served[x] = Nobody
  /\ \A x, y \in Coroutines :
       served[x] # Nobody /\ served[x] = served[y] => x = y

(* T is used by the shortcut from running user code only, and a worker that *)
(* has a T is one between its loop and its end.                             *)
DirectRuns ==
  /\ \A a \in Actors : direct[a] # Nobody => pc[a] = "user"
  /\ \A w \in Trustees : cell[w] <=> pc[w] \in {"loop", "user", "wait"}

ThreadInv == TypeOK /\ PcKinds /\ ServedWaits /\ DirectRuns

(* No coroutine has run yet.                                                *)
LEMMA ThreadInit == Init => ThreadInv
  BY ThreadAssumption
     DEF Init, ThreadInv, TypeOK, PcKinds, ServedWaits, DirectRuns, Actors, Coroutines

(* Every step keeps types, control states and the bookkeeping of requests.  *)
LEMMA ThreadStep == ThreadInv /\ [Next]_vars => ThreadInv'
<1> SUFFICES ASSUME ThreadInv, [Next]_vars PROVE ThreadInv'
  OBVIOUS
<1> USE ThreadAssumption
    DEF ThreadInv, TypeOK, PcKinds, ServedWaits, DirectRuns, Actors, Coroutines
<1>1. ASSUME NEW x \in Coroutines, NEW t \in Threads, Resume(x, t) PROVE ThreadInv'
  BY <1>1 DEF Resume, callVars
<1>2. ASSUME NEW x \in Coroutines, ReturnToLoop(x) PROVE ThreadInv'
  <2>1. pc[x] = "user" /\ direct[x] = Nobody /\ served[x] \in Actors /\ served[x] # x
    BY <1>2 DEF ReturnToLoop
  <2>2. pc' = [pc EXCEPT ![x] = IF x \in Trustees THEN "loop" ELSE "free",
                         ![served[x]] = "user"]
    BY <1>2 DEF ReturnToLoop
  <2>3. TypeOK'
    BY <1>2, <2>1 DEF ReturnToLoop, Answered
  <2>4. PcKinds'
    BY <2>1, <2>2
  <2>5. ServedWaits'
    BY <1>2, <2>1, <2>2 DEF ReturnToLoop, Answered
  <2>6. DirectRuns'
    BY <1>2, <2>1, <2>2 DEF ReturnToLoop
  <2> QED
    BY <2>3, <2>4, <2>5, <2>6
<1>3. ASSUME NEW x \in Coroutines, EndDirect(x) PROVE ThreadInv'
  BY <1>3 DEF EndDirect, callVars
<1>4. ASSUME NEW w \in Trustees, EnterLoop(w) PROVE ThreadInv'
  BY <1>4 DEF EnterLoop, callVars, Running
<1>5. ASSUME NEW w \in Trustees, YieldNow(w) PROVE ThreadInv'
  BY <1>5 DEF YieldNow, callVars
<1>6. ASSUME NEW w \in Trustees, NEW a \in Actors, RunClosure(w, a) PROVE ThreadInv'
  BY <1>6 DEF RunClosure, Pending
<1>7. ASSUME NEW w \in Trustees, NEW a \in Actors, GiveAway(w, a) PROVE ThreadInv'
  <2>1. a # w /\ ~taken[a] /\ pc[a] = "wait" /\ pc[w] = "loop" /\ on[w] \in Threads
    BY <1>7 DEF GiveAway, Pending, Running
  <2>2. pc' = [pc EXCEPT ![w] = "ended", ![a] = "user"]
    BY <1>7 DEF GiveAway
  <2>3. TypeOK'
    BY <1>7, <2>1 DEF GiveAway, Answered, Leave
  <2>4. PcKinds'
    BY <2>1, <2>2
  <2>5. ServedWaits'
    BY <1>7, <2>1, <2>2 DEF GiveAway, Answered
  <2>6. DirectRuns'
    BY <1>7, <2>1, <2>2 DEF GiveAway, Leave
  <2> QED
    BY <2>3, <2>4, <2>5, <2>6
<1>8. ASSUME NEW w \in Trustees, NEW a \in Actors, NEW f \in Fibers, StartFiber(w, a, f)
      PROVE  ThreadInv'
  BY <1>8 DEF StartFiber, Pending
<1>9. ASSUME NEW a \in Actors, NEW w \in Trustees, NEW o \in OpsOf(a), CallDirect(a, w, o)
      PROVE  ThreadInv'
  BY <1>9 DEF CallDirect, InUserCode, callVars
<1>10. ASSUME NEW a \in Actors, NEW w \in Trustees, NEW o \in OpsOf(a), CallRemote(a, w, o)
       PROVE  ThreadInv'
  BY <1>10 DEF CallRemote, InUserCode, OpsOf
<1>11. ASSUME NEW w \in Trustees, NEW v \in Trustees, NEW o \in OpsOf(w), RefuseWorker(w, v, o)
       PROVE  ThreadInv'
  BY <1>11 DEF RefuseWorker, InUserCode, Leave, callVars, Running
<1>12. ASSUME NEW f \in Fibers, NEW v \in Trustees, NEW o \in OpsOf(f), RefuseFiber(f, v, o)
       PROVE  ThreadInv'
  <2>1. pc[f] = "user" /\ direct[f] = Nobody /\ served[f] \in Actors /\ served[f] # f
    BY <1>12 DEF RefuseFiber, InUserCode
  <2>2. pc' = [pc EXCEPT ![f] = "free", ![served[f]] = "user"]
    BY <1>12 DEF RefuseFiber
  <2>3. TypeOK'
    BY <1>12, <2>1 DEF RefuseFiber, Answered
  <2>4. PcKinds'
    <3>1. \A a \in Actors :
            pc'[a] = IF a = served[f] THEN "user" ELSE IF a = f THEN "free" ELSE pc[a]
      BY <2>1, <2>2
    <3>2. pc[served[f]] = "wait"
      BY <2>1
    <3> QED
      BY <3>1, <3>2
  <2>5. ServedWaits'
    BY <1>12, <2>1, <2>2 DEF RefuseFiber, Answered
  <2>6. DirectRuns'
    BY <1>12, <2>1, <2>2 DEF RefuseFiber
  <2> QED
    BY <2>3, <2>4, <2>5, <2>6
<1>13. ASSUME NEW x \in Coroutines, YieldInClosure(x) PROVE ThreadInv'
  BY <1>13 DEF YieldInClosure, callVars
<1>14. CASE UNCHANGED vars
  BY <1>14 DEF vars, callVars
<1> QED
  BY <1>1, <1>2, <1>3, <1>4, <1>5, <1>6, <1>7, <1>8, <1>9, <1>10, <1>11, <1>12, <1>13, <1>14
     DEF Next, Poll, Call, Refuse, Schedule

(* Every variable stays in its type, whatever threads, coroutines and       *)
(* operations there are.                                                    *)
THEOREM ThreadTypeCorrect == Spec => []TypeOK
<1>1. ThreadInv => TypeOK
  BY DEF ThreadInv
<1> QED
  BY ThreadInit, ThreadStep, <1>1, PTL DEF Spec

-----------------------------------------------------------------------------
(* Calls that never return.                                                 *)

(* A thread runs one coroutine at a time.                                   *)
OneAtATime ==
  \A x, y \in Coroutines : on[x] # Nobody /\ on[x] = on[y] => x = y

(* The scheduler takes a free thread, and nothing else puts a coroutine on  *)
(* one.                                                                     *)
LEMMA OneAtATimeStep == ThreadInv /\ OneAtATime /\ [Next]_vars => OneAtATime'
<1> SUFFICES ASSUME ThreadInv, OneAtATime, [Next]_vars PROVE OneAtATime'
  OBVIOUS
<1>0. on \in [Coroutines -> Threads \cup {Nobody}] /\ Nobody \notin Threads
  BY ThreadAssumption DEF ThreadInv, TypeOK
<1>1. ASSUME NEW x \in Coroutines, NEW t \in Threads, Resume(x, t) PROVE OneAtATime'
  BY <1>0, <1>1 DEF OneAtATime, Resume, Running
<1>2. ASSUME NEW x \in Coroutines, on' = [on EXCEPT ![x] = Nobody] PROVE OneAtATime'
  BY <1>0, <1>2 DEF OneAtATime
<1>3. CASE on' = on
  BY <1>3 DEF OneAtATime
<1> QED
  BY <1>1, <1>2, <1>3
     DEF Next, vars, callVars, Schedule, YieldInClosure, ReturnToLoop, EndDirect, Poll,
         EnterLoop, YieldNow, RunClosure, GiveAway, Leave, StartFiber, Call, CallDirect,
         CallRemote, Refuse, RefuseWorker, RefuseFiber, Coroutines

(* Whoever waits while none of its servers acts goes on waiting, for the    *)
(* same servers; whoever has ended stays so.                                *)
LEMMA WaitStep ==
  ASSUME ThreadInv, [Next]_vars, NEW b \in Actors
  PROVE  /\ pc[b] = "ended" => pc'[b] = "ended"
         /\ pc[b] = "wait" /\ (\A x \in ServersOf(b) : pc[x] \in {"ended", "wait"} \/ on[x] = Nobody)
              => pc'[b] = "wait" /\ ServersOf(b)' = ServersOf(b)
<1> DEFINE Still(x) == pc[x] \in {"ended", "wait"} \/ on[x] = Nobody
           Goal == /\ pc[b] = "ended" => pc'[b] = "ended"
                   /\ pc[b] = "wait" /\ (taken[b] \/ Still(target[b]))
                        /\ (\A x \in Coroutines : served[x] = b => Still(x))
                        => /\ pc'[b] = "wait"
                           /\ taken'[b] = taken[b]
                           /\ target'[b] = target[b]
                           /\ \A x \in Coroutines : served'[x] = b <=> served[x] = b
<1>0. ASSUME Goal
      PROVE  /\ pc[b] = "ended" => pc'[b] = "ended"
             /\ pc[b] = "wait" /\ (\A x \in ServersOf(b) : Still(x))
                  => pc'[b] = "wait" /\ ServersOf(b)' = ServersOf(b)
  <2>1. \A x \in Coroutines : served[x] = b => taken[b]
    BY ThreadAssumption DEF ThreadInv, ServedWaits
  <2>2. (\A x \in ServersOf(b) : Still(x))
          => (taken[b] \/ Still(target[b])) /\ \A x \in Coroutines : served[x] = b => Still(x)
    BY <2>1 DEF ServersOf
  <2>3. ASSUME taken'[b] = taken[b], target'[b] = target[b],
               \A x \in Coroutines : served'[x] = b <=> served[x] = b
        PROVE  ServersOf(b)' = ServersOf(b)
    BY <2>3 DEF ServersOf
  <2> QED
    BY <1>0, <2>2, <2>3
<1> SUFFICES Goal
  BY <1>0
<1> USE ThreadAssumption
    DEF ThreadInv, TypeOK, PcKinds, ServedWaits, Actors, Coroutines
<1>1. ASSUME NEW x \in Coroutines, NEW t \in Threads, Resume(x, t) PROVE Goal
  BY <1>1 DEF Resume, callVars
<1>2. ASSUME NEW x \in Coroutines, ReturnToLoop(x) PROVE Goal
  <2>1. served[x] \in Actors /\ pc[served[x]] = "wait" /\ pc[x] = "user" /\ ~Still(x)
    BY <1>2 DEF ReturnToLoop, Running
  <2>2. CASE b = served[x]
    BY <2>1, <2>2
  <2>3. CASE b # served[x]
    BY <1>2, <2>1, <2>3 DEF ReturnToLoop, Answered
  <2> QED
    BY <2>2, <2>3
<1>3. ASSUME NEW x \in Coroutines, EndDirect(x) PROVE Goal
  BY <1>3 DEF EndDirect, callVars
<1>4. ASSUME NEW w \in Trustees, EnterLoop(w) PROVE Goal
  BY <1>4 DEF EnterLoop, callVars, Running
<1>5. ASSUME NEW w \in Trustees, YieldNow(w) PROVE Goal
  BY <1>5 DEF YieldNow, callVars
<1>6. ASSUME NEW w \in Trustees, NEW a \in Actors, RunClosure(w, a) PROVE Goal
  <2>1. ~taken[a] /\ target[a] = w /\ pc[w] = "loop" /\ ~Still(w) /\ pc[a] = "wait"
    BY <1>6 DEF RunClosure, Pending, Running
  <2>2. CASE b = a
    BY <2>1, <2>2
  <2>3. CASE b # a
    <3>1. served[w] # b
      BY <2>1
    <3> QED
      BY <1>6, <2>1, <2>3, <3>1 DEF RunClosure
  <2> QED
    BY <2>2, <2>3
<1>7. ASSUME NEW w \in Trustees, NEW a \in Actors, GiveAway(w, a) PROVE Goal
  <2>1. ~taken[a] /\ target[a] = w /\ pc[w] = "loop" /\ ~Still(w) /\ pc[a] = "wait"
    BY <1>7 DEF GiveAway, Pending, Running
  <2>2. CASE b = a
    BY <2>1, <2>2
  <2>3. CASE b # a
    BY <1>7, <2>1, <2>3 DEF GiveAway, Answered
  <2> QED
    BY <2>2, <2>3
<1>8. ASSUME NEW w \in Trustees, NEW a \in Actors, NEW f \in Fibers, StartFiber(w, a, f)
      PROVE  Goal
  <2>1. /\ ~taken[a] /\ target[a] = w /\ pc[a] = "wait"
        /\ pc[w] = "loop" /\ ~Still(w) /\ pc[f] = "free"
    BY <1>8 DEF StartFiber, Pending, Running
  <2>2. CASE b = a
    BY <2>1, <2>2
  <2>3. CASE b # a
    <3>1. served[f] # b
      BY <2>1
    <3> QED
      BY <1>8, <2>1, <2>3, <3>1 DEF StartFiber
  <2> QED
    BY <2>2, <2>3
<1>9. ASSUME NEW a \in Actors, NEW w \in Trustees, NEW o \in OpsOf(a), CallDirect(a, w, o)
      PROVE  Goal
  BY <1>9 DEF CallDirect, callVars
<1>10. ASSUME NEW a \in Actors, NEW w \in Trustees, NEW o \in OpsOf(a), CallRemote(a, w, o)
       PROVE  Goal
  BY <1>10 DEF CallRemote, InUserCode
<1>11. ASSUME NEW w \in Trustees, NEW v \in Trustees, NEW o \in OpsOf(w), RefuseWorker(w, v, o)
       PROVE  Goal
  BY <1>11 DEF RefuseWorker, InUserCode, callVars
<1>12. ASSUME NEW f \in Fibers, NEW v \in Trustees, NEW o \in OpsOf(f), RefuseFiber(f, v, o)
       PROVE  Goal
  <2>1. served[f] \in Actors /\ pc[served[f]] = "wait" /\ pc[f] = "user" /\ ~Still(f)
    BY <1>12 DEF RefuseFiber, InUserCode, Running
  <2>2. CASE b = served[f]
    BY <2>1, <2>2
  <2>3. CASE b # served[f]
    BY <1>12, <2>1, <2>3 DEF RefuseFiber, Answered
  <2> QED
    BY <2>2, <2>3
<1>13. ASSUME NEW x \in Coroutines, YieldInClosure(x) PROVE Goal
  BY <1>13 DEF YieldInClosure, callVars
<1>14. CASE UNCHANGED vars
  BY <1>14 DEF vars, callVars
<1> QED
  BY <1>1, <1>2, <1>3, <1>4, <1>5, <1>6, <1>7, <1>8, <1>9, <1>10, <1>11, <1>12, <1>13, <1>14
     DEF Next, Poll, Call, Refuse, Schedule

(* A coroutine that waits in a call stays on its thread until it returns.   *)
LEMMA WaiterHoldsThread ==
  ASSUME ThreadInv, [Next]_vars, NEW x \in Coroutines, pc[x] = "wait", on[x] # Nobody
  PROVE  on'[x] = on[x]
<1> USE ThreadAssumption
    DEF ThreadInv, TypeOK, PcKinds, Actors, Coroutines
<1>1. ASSUME NEW y \in Coroutines, NEW t \in Threads, Resume(y, t) PROVE on'[x] = on[x]
  BY <1>1 DEF Resume, Running
<1>2. ASSUME NEW y \in Coroutines, on' = [on EXCEPT ![y] = Nobody], pc[y] # "wait"
      PROVE  on'[x] = on[x]
  BY <1>2
<1>3. CASE on' = on
  BY <1>3
<1> QED
  BY <1>1, <1>2, <1>3
     DEF Next, vars, callVars, Schedule, YieldInClosure, ReturnToLoop, EndDirect, Poll,
         EnterLoop, YieldNow, RunClosure, GiveAway, Leave, StartFiber, Call, CallDirect,
         CallRemote, Refuse, RefuseWorker, RefuseFiber, InUserCode

(* A caller whose chain of calls ends at a worker that is gone, or closes   *)
(* on itself, waits for good; and waiting calls that hold every thread hold *)
(* them for good.  No timeout, wake-up or migration resolves either.        *)
THEOREM StuckIsForGood == Spec => StuckForGood
<1>1. Init => OneAtATime
  BY ThreadAssumption DEF Init, OneAtATime
<1>2. ASSUME ThreadInv, [Next]_vars, NEW a \in Actors, Doomed(a) PROVE Doomed(a)'
  <2>1. PICK S \in SUBSET Actors :
          /\ a \in S
          /\ \A b \in S :
               pc[b] = "ended" \/ (pc[b] = "wait" /\ ServersOf(b) \in (SUBSET S) \ {{}})
    BY <1>2 DEF Doomed
  <2>2. ASSUME NEW b \in S
        PROVE  pc'[b] = "ended" \/ (pc'[b] = "wait" /\ ServersOf(b)' \in (SUBSET S) \ {{}})
    BY <1>2, <2>1, WaitStep
  <2> QED
    BY <2>1, <2>2 DEF Doomed
<1>3. ASSUME ThreadInv, OneAtATime, [Next]_vars, EveryThreadWaits PROVE EveryThreadWaits'
  <2> SUFFICES ASSUME NEW t \in Threads
               PROVE  \E x \in Coroutines : on'[x] = t /\ pc'[x] = "wait"
    BY DEF EveryThreadWaits
  <2>1. PICK x \in Coroutines : on[x] = t /\ pc[x] = "wait"
    BY <1>3 DEF EveryThreadWaits
  <2>2. \A y \in Coroutines : pc[y] = "wait" \/ on[y] = Nobody
    BY <1>3 DEF EveryThreadWaits, ThreadInv, TypeOK, OneAtATime
  <2>3. ServersOf(x) \subseteq Coroutines
    BY <1>3, <2>1 DEF ServersOf, ThreadInv, TypeOK, ServedWaits, Coroutines, Actors
  <2>4. pc'[x] = "wait"
    BY <1>3, <2>1, <2>2, <2>3, WaitStep DEF Actors
  <2>5. on'[x] = t
    BY <1>3, <2>1, WaiterHoldsThread, ThreadAssumption
  <2> QED
    BY <2>4, <2>5
<1>4. ThreadInv /\ OneAtATime /\ [Next]_vars
        => [/\ \A a \in Actors : Doomed(a) => Doomed(a)'
            /\ EveryThreadWaits => EveryThreadWaits']_vars
  BY <1>2, <1>3
<1> QED
  BY ThreadInit, ThreadStep, OneAtATimeStep, <1>1, <1>4, PTL DEF Spec, StuckForGood

=============================================================================
