----------------------------- MODULE TrustObject -----------------------------
(***************************************************************************)
(* What a trust promises its callers (trait TrustLike, src/trust/common.rs)*)
(* whatever the implementation: a value of type T that callers never touch *)
(* themselves.  A caller invokes an operation, the closure takes effect on *)
(* the value, and the caller gets the closure's result.                    *)
(*                                                                         *)
(*  - a closure runs exactly as often as the call asked for: once, or n    *)
(*    times for apply_batch_mut;                                           *)
(*  - the n runs of a batch are not interleaved with another caller's      *)
(*    closure, except with closures of launch, which run concurrently;     *)
(*  - the call returns after the last run, with that run's result;         *)
(*  - after into_inner has taken the value out no closure runs any more;   *)
(*  - a closure that panics ends its call with no result; the runs before  *)
(*    it count, its own changes to the value so far are not undone, and no *)
(*    run follows.                                                         *)
(***************************************************************************)
EXTENDS Integers

CONSTANTS
  Handles,    (* the callers, one per Remote handle                        *)
  Ops,        (* the operations they use                                   *)
  MaxRepeat,  (* largest n of apply_batch_mut; u8::MAX in the code         *)
  Values,     (* the values T can have                                     *)
  InitValue,  (* the value entrusted                                       *)
  NoValue,    (* what a result area holds before its first result          *)
  Mutate,     (* what one run of a mutating closure does to the value      *)
  Unwinding   (* the callers that a panic of their own closure comes back  *)
              (* to: the others are never answered                         *)

VARIABLES
  val,        (* the value held                                            *)
  taken,      (* whether into_inner has moved it out                       *)
  call,       (* per caller, the operation in progress                     *)
  res         (* per caller, the result area of its calls                  *)

vars == <<val, taken, call, res>>

NoCall == [op |-> "none", total |-> 0, left |-> 0]

(* A call whose closure panicked and whose caller does not get to know.    *)
Lost == [op |-> "lost", total |-> 0, left |-> 0]

(* Operations whose closure gets &mut T, and those that leave a result.    *)
Mutating == {"apply", "apply_with", "apply_batch_mut"}
WithResult == {"apply", "apply_with", "with", "launch", "into_inner"}

(* How often a call of op may ask for its closure to run.                  *)
Repeats(op) == IF op = "apply_batch_mut" THEN 0 .. MaxRepeat ELSE {1}

Outcome(op, v) == IF op \in Mutating THEN Mutate[v] ELSE v

(* The caller's batch has started and has runs left.                       *)
MidBatch(c) == call[c].left \in 1 .. (call[c].total - 1)

Init ==
  /\ val = InitValue
  /\ taken = FALSE
  /\ call = [c \in Handles |-> NoCall]
  /\ res = [c \in Handles |-> NoValue]

Invoke(c, op, n) ==
  /\ call[c] = NoCall
  /\ call' = [call EXCEPT ![c] = [op |-> op, total |-> n, left |-> n]]
  /\ UNCHANGED <<val, taken, res>>

(* The closure of c's call may be run.                                     *)
MayRun(c) ==
  /\ call[c].left > 0
  /\ ~taken
  /\ call[c].op # "launch" => \A d \in Handles \ {c} : ~MidBatch(d)

(* One run of the closure of c's call.                                     *)
Effect(c) ==
  /\ MayRun(c)
  /\ call' = [call EXCEPT ![c].left = @ - 1]
  /\ val' = Outcome(call[c].op, val)
  /\ res' = IF call[c].op \in WithResult
              THEN [res EXCEPT ![c] = Outcome(call[c].op, val)] ELSE res
  /\ taken' = (call[c].op = "into_inner")

Return(c) ==
  /\ call[c].op \notin {"none", "lost"}
  /\ call[c].left = 0
  /\ call' = [call EXCEPT ![c] = NoCall]
  /\ UNCHANGED <<val, taken, res>>

(* The closure panics, before or after it has changed the value.           *)
Unwind(c) ==
  /\ MayRun(c)
  /\ call' = [call EXCEPT ![c] = IF c \in Unwinding THEN NoCall ELSE Lost]
  /\ val' \in {val, Outcome(call[c].op, val)}
  /\ UNCHANGED <<taken, res>>

Next ==
  \E c \in Handles :
    \/ \E op \in Ops : \E n \in Repeats(op) : Invoke(c, op, n)
    \/ Effect(c)
    \/ Return(c)
    \/ Unwind(c)

Spec == Init /\ [][Next]_vars

=============================================================================
