------------------------------ MODULE CondLatch ------------------------------
(***************************************************************************)
(* util::latch::Latch (src/util/latch.rs): a Mutex and a Condvar behind    *)
(* Arcs.  Waiters call wait(condition); setters lock(), change the value,  *)
(* drop the guard and call notify_all().  Mutex and Condvar are those of   *)
(* the standard library: wait releases the mutex and blocks in one step,   *)
(* may wake up for no reason, and takes the mutex again; a panic with a    *)
(* guard in scope poisons the mutex, and unwrap() of a poisoned lock       *)
(* panics.                                                                 *)
(***************************************************************************)
EXTENDS Integers, FiniteSets

CONSTANTS
  Waiters, Setters,
  Goal,        (* the condition: the value has reached Goal                *)
  Panicking    (* the setters that may panic inside their critical section *)

ASSUME CondAssumption ==
  /\ Waiters \cap Setters = {}
  /\ Goal \in Nat
  /\ Panicking \subseteq Setters

Users == Waiters \cup Setters

VARIABLES
  val,       (* the value in the Mutex: how many setters have been there   *)
  owner,     (* the users that hold the Mutex                              *)
  poisoned,  (* its poison flag                                            *)
  asleep,    (* the waiters blocked in cvar.wait                           *)
  pc         (* per user                                                   *)

vars == <<val, owner, poisoned, asleep, pc>>

Init ==
  /\ val = 0
  /\ owner = {}
  /\ poisoned = FALSE
  /\ asleep = {}
  /\ pc = [u \in Users |-> "lock"]

Goto(u, to) == pc' = [pc EXCEPT ![u] = to]

(* self.lock.lock().unwrap(): by lock(), by wait(), and by cvar.wait on    *)
(* its way out.  The guard inside the error goes with the panic.           *)
Lock(u) ==
  /\ pc[u] = "lock"
  /\ u \notin asleep
  /\ owner = {}
  /\ IF poisoned THEN Goto(u, "panicked") /\ UNCHANGED owner
                 ELSE Goto(u, "held") /\ owner' = {u}
  /\ UNCHANGED <<val, poisoned, asleep>>

Unlock(u) == owner' = owner \ {u}

(* Mutant: whoever has the lock again takes the wake-up for the condition. *)
LeaveOnceWoken(w) ==
  /\ pc[w] = "held"
  /\ Unlock(w)
  /\ Goto(w, "returned")
  /\ UNCHANGED <<val, poisoned, asleep>>

(* wait: the condition holds.                                              *)
Leave(w) ==
  /\ pc[w] = "held"
  /\ val >= Goal
  /\ Unlock(w)
  /\ Goto(w, "returned")
  /\ UNCHANGED <<val, poisoned, asleep>>

(* wait: it does not, cvar.wait(guard).                                    *)
Sleep(w) ==
  /\ pc[w] = "held"
  /\ val < Goal
  /\ Unlock(w)
  /\ asleep' = asleep \cup {w}
  /\ Goto(w, "lock")
  /\ UNCHANGED <<val, poisoned>>

(* The Condvar may wake a waiter without a notification.                   *)
WakeUp(w) ==
  /\ w \in asleep
  /\ asleep' = asleep \ {w}
  /\ UNCHANGED <<val, owner, poisoned, pc>>

Set(s) ==
  /\ pc[s] = "held"
  /\ val' = val + 1
  /\ Unlock(s)
  /\ Goto(s, "notify")
  /\ UNCHANGED <<poisoned, asleep>>

(* A setter panics while it has the guard.                                 *)
PanicHolding(s) ==
  /\ pc[s] = "held"
  /\ s \in Panicking
  /\ poisoned' = TRUE
  /\ Unlock(s)
  /\ Goto(s, "panicked")
  /\ UNCHANGED <<val, asleep>>

(* Mutant: notify_one.                                                     *)
notify_one(s) ==
  /\ pc[s] = "notify"
  /\ IF asleep = {} THEN UNCHANGED asleep
                    ELSE \E w \in asleep : asleep' = asleep \ {w}
  /\ Goto(s, "returned")
  /\ UNCHANGED <<val, owner, poisoned>>

notify_all(s) ==
  /\ pc[s] = "notify"
  /\ asleep' = {}
  /\ Goto(s, "returned")
  /\ UNCHANGED <<val, owner, poisoned>>

Waiter(w) == Lock(w) \/ Leave(w) \/ Sleep(w)
Setter(s) == Lock(s) \/ Set(s) \/ notify_all(s)

Next ==
  \/ \E w \in Waiters : Waiter(w) \/ WakeUp(w)
  \/ \E s \in Setters : Setter(s) \/ PanicHolding(s)

Spec == Init /\ [][Next]_vars

(* Threads run, and the mutex is handed on (strongly fair: it is free      *)
(* again and again); nothing obliges the Condvar to wake anyone by itself. *)
Fairness ==
  /\ \A w \in Waiters : SF_vars(Waiter(w))
  /\ \A s \in Setters : SF_vars(Setter(s))

FairSpec == Spec /\ Fairness

-----------------------------------------------------------------------------
(* Properties.                                                             *)

(* "Wait until the condition is met" (latch.rs): a waiter that is back has *)
(* seen the goal, spurious wake-ups or not, and a panicking setter or not. *)
ReturnsWhenMet == \A w \in Waiters : pc[w] = "returned" => val >= Goal

(* No wake-up is lost: once the goal is reached every waiter comes back,   *)
(* whether it came before or after the last notify_all; a waiter may be    *)
(* told of a poisoned lock instead.                                        *)
WaitersComeBack ==
  val >= Goal ~> \A w \in Waiters : pc[w] \in {"returned", "panicked"}

=============================================================================
