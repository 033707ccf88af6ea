--------------------------- MODULE CondLatchProofs ---------------------------
(* Machine-checked proofs about CondLatch.                                  *)
EXTENDS CondLatch, TLAPS

PcType == [Users -> {"lock", "held", "notify", "returned", "panicked"}]

(* The Mutex excludes: whoever is inside is its owner, and it has at most   *)
(* one.  This is why a value read under the guard is still the value when   *)
(* wait decides on it.                                                      *)
GuardIsOwner ==
  /\ \A u \in Users : pc[u] = "held" <=> u \in owner
  /\ \A u, v \in owner : u = v

(* The inductive invariant: types, the mutex, who can be asleep, and the    *)
(* promise of wait.  Sleepers are inside wait and are not the owner, so     *)
(* that no wake-up can be taken by someone who has already returned.        *)
CondInv ==
  /\ val \in Nat
  /\ owner \subseteq Users
  /\ pc \in PcType
  /\ GuardIsOwner
  /\ \A w \in asleep : w \in Waiters /\ pc[w] = "lock"
  /\ ReturnsWhenMet

(* Nobody waits at first.                                                   *)
LEMMA CondInit == Init => CondInv
  BY CondAssumption
     DEF Init, CondInv, PcType, GuardIsOwner, ReturnsWhenMet, Users

(* Every step of a waiter or a setter, and every wake-up, keeps it.         *)
LEMMA CondStep == CondInv /\ [Next]_vars => CondInv'
<1> SUFFICES ASSUME CondInv, [Next]_vars PROVE CondInv'
  OBVIOUS
<1> USE CondAssumption
    DEF CondInv, PcType, GuardIsOwner, ReturnsWhenMet, Users, Goto, Unlock
<1>1. ASSUME NEW u \in Users, Lock(u) PROVE CondInv'
  BY <1>1 DEF Lock
<1>2. ASSUME NEW w \in Waiters, Leave(w) PROVE CondInv'
  BY <1>2 DEF Leave
<1>3. ASSUME NEW w \in Waiters, Sleep(w) PROVE CondInv'
  BY <1>3 DEF Sleep
<1>4. ASSUME NEW w \in Waiters, WakeUp(w) PROVE CondInv'
  BY <1>4 DEF WakeUp
<1>5. ASSUME NEW s \in Setters, Set(s) PROVE CondInv'
  BY <1>5 DEF Set
<1>6. ASSUME NEW s \in Setters, PanicHolding(s) PROVE CondInv'
  BY <1>6 DEF PanicHolding
<1>7. ASSUME NEW s \in Setters, notify_all(s) PROVE CondInv'
  BY <1>7 DEF notify_all
<1>8. CASE UNCHANGED vars
  BY <1>8 DEF vars
<1> QED
  BY <1>1, <1>2, <1>3, <1>4, <1>5, <1>6, <1>7, <1>8 DEF Next, Waiter, Setter

(* Latch::wait comes back only when the condition is met, for any number of *)
(* waiters and setters: spurious wake-ups, early and late notify_alls and   *)
(* setters that panic under the lock make no difference.                    *)
THEOREM WaitReturnsWhenMet == Spec => []ReturnsWhenMet
<1>1. CondInv => ReturnsWhenMet
  BY DEF CondInv
<1> QED
  BY CondInit, CondStep, <1>1, PTL DEF Spec

=============================================================================
