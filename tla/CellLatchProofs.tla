--------------------------- MODULE CellLatchProofs ---------------------------
(* Machine-checked proofs about CellLatch, for users that all run on one    *)
(* thread, which is what a type that is not Sync is for.  Launch fibers on  *)
(* several threads are the other case, and MCCellLatch_latch_launch.cfg     *)
(* shows that the theorems do not hold for them.                            *)
EXTENDS CellLatch, TLAPS

PcType == [Users -> {"out", "set", "held", "read", "drop"}]

Inside(u) == pc[u] \in {"set", "held", "read", "drop"}

(* What makes the test and the setting of the Cell one step: a user between *)
(* the two, or inside drop, is the one that runs.                           *)
NoYieldInside ==
  \A u \in Users : pc[u] \in {"set", "drop"} => OnThread(u)

(* One user at a time is past the test, and locked says whether there is    *)
(* one past the setting; a value read in the critical section is current,   *)
(* so that no update is lost.                                               *)
LatchInv ==
  /\ locked \in BOOLEAN
  /\ inner \in Nat
  /\ updates = inner
  /\ entered \in Nat
  /\ pc \in PcType
  /\ seen \in [Users -> Nat]
  /\ current \in [Threads -> Users]
  /\ NoYieldInside
  /\ \A u, v \in Users : Inside(u) /\ Inside(v) => u = v
  /\ \A u \in Users : pc[u] \in {"held", "read", "drop"} => locked
  /\ locked => \E u \in Users : pc[u] \in {"held", "read", "drop"}
  /\ \A u \in Users : pc[u] = "read" => seen[u] = inner

(* The latch starts unlocked, and nobody is inside.                         *)
LEMMA LatchInit == Init => LatchInv
<1> SUFFICES ASSUME Init PROVE LatchInv
  OBVIOUS
<1>1. \A u \in Users : pc[u] = "out"
  BY DEF Init
<1>2. pc \in PcType /\ seen \in [Users -> Nat]
  BY DEF Init, PcType
<1>3. current \in [Threads -> Users]
  BY DEF Init
<1>4. locked \in BOOLEAN /\ ~locked
  BY DEF Init
<1>5. inner \in Nat /\ updates = inner /\ entered \in Nat
  BY DEF Init
<1> QED
  BY <1>1, <1>2, <1>3, <1>4, <1>5 DEF LatchInv, NoYieldInside, Inside

(* On one thread every step keeps the invariant.                            *)
LEMMA LatchStep ==
  ASSUME NEW t, Threads = {t}
  PROVE  LatchInv /\ [Next]_vars => LatchInv'
<1> SUFFICES ASSUME LatchInv, [Next]_vars PROVE LatchInv'
  OBVIOUS
<1> USE LatchAssumption
    DEF LatchInv, PcType, NoYieldInside, Inside, OnThread
<1>1. ASSUME NEW u \in Users, SwitchTo(u) PROVE LatchInv'
  BY <1>1 DEF SwitchTo
<1>2. ASSUME NEW u \in Users, TestFree(u) PROVE LatchInv'
  BY <1>2 DEF TestFree
<1>3. ASSUME NEW u \in Users, SetLocked(u) PROVE LatchInv'
  BY <1>3 DEF SetLocked
<1>4. ASSUME NEW u \in Users, Deref(u) PROVE LatchInv'
  BY <1>4 DEF Deref
<1>5. ASSUME NEW u \in Users, DerefMut(u) PROVE LatchInv'
  BY <1>5 DEF DerefMut
<1>6. ASSUME NEW u \in Users, LeaveEarly(u) PROVE LatchInv'
  BY <1>6 DEF LeaveEarly
<1>7. ASSUME NEW u \in Users, DropGuard(u) PROVE LatchInv'
  BY <1>7 DEF DropGuard
<1>8. CASE UNCHANGED vars
  BY <1>8 DEF vars
<1> QED
  BY <1>1, <1>2, <1>3, <1>4, <1>5, <1>6, <1>7, <1>8 DEF Next, Step

(* A Cell<bool> is enough for mutual exclusion on one thread, however many  *)
(* users take turns on it and wherever they yield: no two guards exist at a *)
(* time, and no update through a guard is lost.                             *)
THEOREM OneThreadExcludes ==
  ASSUME NEW t, Threads = {t}
  PROVE  Spec => []MutualExclusion
<1>1. LatchInv => MutualExclusion
  BY DEF LatchInv, MutualExclusion, Holders, Inside
<1>2. LatchInv /\ [Next]_vars => LatchInv'
  BY LatchStep
<1> QED
  BY LatchInit, <1>1, <1>2, PTL DEF Spec

(* The Cell is set exactly while a guard exists: the debug_assert in the    *)
(* guard's drop holds, and a panic in a critical section leaves no latch    *)
(* locked behind it.                                                        *)
THEOREM OneThreadLockedMeansHeld ==
  ASSUME NEW t, Threads = {t}
  PROVE  Spec => []LockedMeansHeld
<1>1. LatchInv => LockedMeansHeld
  BY DEF LatchInv, LockedMeansHeld, Holders
<1>2. LatchInv /\ [Next]_vars => LatchInv'
  BY LatchStep
<1> QED
  BY LatchInit, <1>1, <1>2, PTL DEF Spec

=============================================================================
