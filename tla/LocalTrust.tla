------------------------------ MODULE LocalTrust -----------------------------
(***************************************************************************)
(* The local trust, Local<T> (src/trust/local.rs), behind the same trait   *)
(* as the remote one.  The value is in an UnsafeCell of the caller; every  *)
(* operation runs its closure in the call itself, except launch, which     *)
(* runs it on a scoped fiber and joins that fiber.  Local<T> is not Sync:  *)
(* one owner at a time.  A panic of a closure unwinds to the owner, which  *)
(* may catch it and go on.                                                 *)
(***************************************************************************)
EXTENDS Integers

CONSTANTS
  Owner,      (* the one who has the Local<T>                              *)
  Ops, MaxRepeat, Values, InitValue, NoValue, Mutate,  (* see TrustObject  *)
  Panics      (* whether closures may panic                                *)

ASSUME LocalAssumption ==
  /\ Ops \subseteq {"apply", "apply_with", "with", "apply_batch_mut", "launch", "into_inner"}
  /\ MaxRepeat \in Nat
  /\ InitValue \in Values
  /\ Mutate \in [Values -> Values]
  /\ Panics \in BOOLEAN

VARIABLES
  inner,  (* the UnsafeCell                                                *)
  pc,     (* the owner: "idle", "call", "scope" (joining a fiber), "then", *)
          (* "taken", "gone"                                               *)
  fiber,  (* the scoped fiber: "none", "spawned", "finished", "panicked"   *)
  op, n, i,  (* the operation, its repeat count and the loop counter       *)
  result  (* what the last closure returned                                *)

vars == <<inner, pc, fiber, op, n, i, result>>

Mutating == {"apply", "apply_with", "apply_batch_mut"}

Outcome(o, v) == IF o \in Mutating THEN Mutate[v] ELSE v

Init ==
  /\ inner = InitValue
  /\ pc = "idle"
  /\ fiber = "none"
  /\ op = "none"
  /\ n = 0
  /\ i = 0
  /\ result = NoValue

Call(o, k) ==
  /\ pc = "idle"
  /\ pc' = "call"
  /\ op' = o
  /\ n' = k
  /\ i' = 0
  /\ UNCHANGED <<inner, fiber, result>>

(* Mutant: for _ in 0..=n                                                  *)
RunOnceMore ==
  /\ pc = "call"
  /\ op \in Mutating \cup {"with"}
  /\ i <= n
  /\ i' = i + 1
  /\ inner' = Outcome(op, inner)
  /\ result' = IF op = "apply_batch_mut" THEN result ELSE Outcome(op, inner)
  /\ UNCHANGED <<pc, fiber, op, n>>

(* apply, apply_with, with: one run; apply_batch_mut: a loop of n runs.    *)
RunClosure ==
  /\ pc = "call"
  /\ op \in Mutating \cup {"with"}
  /\ i < n
  /\ i' = i + 1
  /\ inner' = Outcome(op, inner)
  /\ result' = IF op = "apply_batch_mut" THEN result ELSE Outcome(op, inner)
  /\ UNCHANGED <<pc, fiber, op, n>>

(* launch: scope spawns the fiber and waits for it.                        *)
SpawnScoped ==
  /\ pc = "call"
  /\ op = "launch"
  /\ i < n
  /\ pc' = "scope"
  /\ fiber' = "spawned"
  /\ UNCHANGED <<inner, op, n, i, result>>

FiberRun ==
  /\ fiber = "spawned"
  /\ fiber' = "finished"
  /\ i' = i + 1
  /\ result' = Outcome(op, inner)
  /\ UNCHANGED <<inner, pc, op, n>>

FiberPanic ==
  /\ Panics
  /\ fiber = "spawned"
  /\ fiber' = "panicked"
  /\ UNCHANGED <<inner, pc, op, n, i, result>>

(* Mutant: only a fiber that has a result is waited for.                   *)
JoinFinished ==
  /\ pc = "scope"
  /\ fiber = "finished"
  /\ pc' = "call"
  /\ fiber' = "none"
  /\ UNCHANGED <<inner, op, n, i, result>>

(* join: the fiber's result, or its panic again.                           *)
JoinScoped ==
  /\ pc = "scope"
  /\ fiber \in {"finished", "panicked"}
  /\ pc' = IF fiber = "finished" THEN "call" ELSE "idle"
  /\ op' = IF fiber = "finished" THEN op ELSE "none"
  /\ fiber' = "none"
  /\ UNCHANGED <<inner, n, i, result>>

(* The closure panics, before or after it has changed the value, and       *)
(* nothing undoes what it did.                                             *)
Panic ==
  /\ Panics
  /\ pc = "call"
  /\ op \in Mutating \cup {"with"}
  /\ i < n
  /\ inner' \in {inner, Outcome(op, inner)}
  /\ pc' = "idle"
  /\ op' = "none"
  /\ UNCHANGED <<fiber, n, i, result>>

(* into_inner takes the value, and the trust with it.                      *)
into_inner ==
  /\ pc = "call"
  /\ op = "into_inner"
  /\ pc' = "taken"
  /\ i' = i + 1
  /\ result' = inner
  /\ UNCHANGED <<inner, fiber, op, n>>

(* The closure has run: the call returns, or for apply_then and            *)
(* launch_then goes on to `then` with the result.                          *)
Return ==
  /\ pc \in {"call", "taken"}
  /\ i = n
  /\ op' = "none"
  /\ pc' \in IF pc = "taken" THEN {"gone"} ELSE {"idle", "then"}
  /\ UNCHANGED <<inner, fiber, n, i, result>>

RunThen ==
  /\ pc = "then"
  /\ pc' = "idle"
  /\ UNCHANGED <<inner, fiber, op, n, i, result>>

Repeats(o) == IF o = "apply_batch_mut" THEN 0 .. MaxRepeat ELSE {1}

Step ==
  \/ RunClosure \/ Panic
  \/ SpawnScoped \/ FiberRun \/ FiberPanic \/ JoinScoped
  \/ into_inner
  \/ Return \/ RunThen

Next == Step \/ \E o \in Ops : \E k \in Repeats(o) : Call(o, k)

Spec == Init /\ [][Next]_vars

(* Closures end and the fiber is scheduled; nobody is obliged to call.     *)
FairSpec == Spec /\ WF_vars(Step)

-----------------------------------------------------------------------------
(* Properties.                                                             *)

InCall == op # "none"

Trust == INSTANCE TrustObject WITH
  Handles <- {Owner},
  Unwinding <- {Owner},
  val <- inner,
  taken <- (pc \in {"taken", "gone"}),
  call <- [c \in {Owner} |->
             IF InCall /\ fiber # "panicked"
               THEN [op |-> op, total |-> n, left |-> n - i]
               ELSE [op |-> "none", total |-> 0, left |-> 0]],
  res <- [c \in {Owner} |-> result]

(* The local trust is a trust: the same promises to the caller as the      *)
(* remote one, and every panic leaves it usable.                           *)
ImplementsTrust == Trust!Spec

(* Every call comes back, by a return or by the panic of its closure.      *)
CallsReturn == InCall ~> ~InCall

=============================================================================
