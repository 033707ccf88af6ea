------------------------------ MODULE CellLatch ------------------------------
(***************************************************************************)
(* single_thread::Latch (src/single_thread/latch.rs) and its use through   *)
(* Local<Latch<U>> (src/single_thread/launch.rs) or from launch closures.  *)
(*                                                                         *)
(* The lock is a Cell<bool>: try_lock reads it and then sets it.  Users on *)
(* one thread change places only where one of them yields, which is never  *)
(* inside try_lock or drop; users on several threads interleave anywhere.  *)
(* The value is a counter that a critical section reads and then writes.   *)
(***************************************************************************)
EXTENDS Integers, FiniteSets

CONSTANTS
  Users,        (* closures and fibers that have a &Latch                  *)
  Threads,
  ThreadOf,     (* the thread each of them runs on                         *)
  MaxUpdates    (* bound of the model on the number of critical sections   *)

ASSUME LatchAssumption ==
  /\ ThreadOf \in [Users -> Threads]
  /\ MaxUpdates \in Nat

VARIABLES
  locked,   (* Latch::locked                                               *)
  inner,    (* Latch::inner                                                *)
  pc,       (* per user                                                    *)
  seen,     (* per user, what it read of inner in its critical section     *)
  current,  (* per thread, the user that runs on it                        *)
  entered,  (* history: critical sections entered,                         *)
  updates   (* and those that have written inner                           *)

vars == <<locked, inner, pc, seen, current, entered, updates>>

Init ==
  /\ locked = FALSE
  /\ inner = 0
  /\ pc = [u \in Users |-> "out"]
  /\ seen = [u \in Users |-> 0]
  /\ current \in {f \in [Threads -> Users] : \A t \in Threads : ThreadOf[f[t]] = t}
  /\ entered = 0
  /\ updates = 0

OnThread(u) == current[ThreadOf[u]] = u

(* The user that runs on u's thread yields, between two operations or      *)
(* inside its critical section, and u goes on.                             *)
SwitchTo(u) ==
  /\ ~OnThread(u)
  /\ pc[current[ThreadOf[u]]] \in {"out", "held", "read"}
  /\ current' = [current EXCEPT ![ThreadOf[u]] = u]
  /\ UNCHANGED <<locked, inner, pc, seen, entered, updates>>

(* Mutant: the test is left out.                                           *)
TestNothing(u) ==
  /\ OnThread(u)
  /\ pc[u] = "out"
  /\ entered < MaxUpdates
  /\ pc' = [pc EXCEPT ![u] = "set"]
  /\ entered' = entered + 1
  /\ UNCHANGED <<locked, inner, seen, current, updates>>

(* try_lock, first half: locked.get().  If it is locked try_lock returns   *)
(* None, and lock panics; either way the user is where it was.             *)
TestFree(u) ==
  /\ OnThread(u)
  /\ pc[u] = "out"
  /\ ~locked
  /\ entered < MaxUpdates
  /\ pc' = [pc EXCEPT ![u] = "set"]
  /\ entered' = entered + 1
  /\ UNCHANGED <<locked, inner, seen, current, updates>>

(* try_lock, second half: locked.set(true), and the guard.                 *)
SetLocked(u) ==
  /\ OnThread(u)
  /\ pc[u] = "set"
  /\ locked' = TRUE
  /\ pc' = [pc EXCEPT ![u] = "held"]
  /\ UNCHANGED <<inner, seen, current, entered, updates>>

(* The critical section reads inner through the guard ...                  *)
Deref(u) ==
  /\ OnThread(u)
  /\ pc[u] = "held"
  /\ seen' = [seen EXCEPT ![u] = inner]
  /\ pc' = [pc EXCEPT ![u] = "read"]
  /\ UNCHANGED <<locked, inner, current, entered, updates>>

(* ... and writes it.                                                      *)
DerefMut(u) ==
  /\ OnThread(u)
  /\ pc[u] = "read"
  /\ inner' = seen[u] + 1
  /\ updates' = updates + 1
  /\ pc' = [pc EXCEPT ![u] = "drop"]
  /\ UNCHANGED <<locked, seen, current, entered>>

(* It panics, or only looked (lock_with): the guard is dropped.            *)
LeaveEarly(u) ==
  /\ OnThread(u)
  /\ pc[u] \in {"held", "read"}
  /\ pc' = [pc EXCEPT ![u] = "drop"]
  /\ UNCHANGED <<locked, inner, seen, current, entered, updates>>

(* Mutant: a guard that does not unlock.                                   *)
DropGuardOnly(u) ==
  /\ OnThread(u)
  /\ pc[u] = "drop"
  /\ seen' = [seen EXCEPT ![u] = 0]
  /\ pc' = [pc EXCEPT ![u] = "out"]
  /\ UNCHANGED <<locked, inner, current, entered, updates>>

(* Drop for LatchGuard.                                                    *)
DropGuard(u) ==
  /\ OnThread(u)
  /\ pc[u] = "drop"
  /\ locked' = FALSE
  /\ seen' = [seen EXCEPT ![u] = 0]
  /\ pc' = [pc EXCEPT ![u] = "out"]
  /\ UNCHANGED <<inner, current, entered, updates>>

Step(u) ==
  \/ SetLocked(u) \/ Deref(u) \/ DerefMut(u) \/ LeaveEarly(u) \/ DropGuard(u)

Next == \E u \in Users : SwitchTo(u) \/ TestFree(u) \/ Step(u)

Spec == Init /\ [][Next]_vars

-----------------------------------------------------------------------------
(* Properties.                                                             *)

Holders == {u \in Users : pc[u] \in {"held", "read", "drop"}}

(* "mutual exclusion" (latch.rs): no two guards at a time, and no update   *)
(* of the value is lost.                                                   *)
MutualExclusion ==
  /\ \A u, v \in Holders : u = v
  /\ inner = updates

(* The Cell tells the truth about the guards: the debug_assert of drop     *)
(* holds, and a latch whose users have all left, by a panic or otherwise,  *)
(* can be locked again.                                                    *)
LockedMeansHeld == locked <=> Holders # {}

=============================================================================
