--------------------------- MODULE LocalTrustProofs --------------------------
(* Machine-checked proofs about LocalTrust.                                 *)
EXTENDS LocalTrust, TLAPS

(* Where the owner is, its scoped fiber and how far its call has come.      *)
LocalInv ==
  /\ pc \in {"idle", "call", "scope", "then", "taken", "gone"}
  /\ fiber \in {"none", "spawned", "finished", "panicked"}
  /\ fiber # "none" <=> pc = "scope"
  /\ op \in Ops \cup {"none"}
  /\ op = "none" <=> pc \in {"idle", "then", "gone"}
  /\ n \in Nat /\ i \in Nat /\ i <= n
  /\ op \notin {"none", "apply_batch_mut"} => n = 1
  /\ pc = "scope" => op = "launch"
  /\ fiber \in {"spawned", "panicked"} => i < n
  /\ fiber = "finished" => i = n
  /\ pc = "taken" => op = "into_inner" /\ i = n
  /\ pc = "call" /\ op = "into_inner" => i = 0

(* Nothing has been called yet.                                             *)
LEMMA LocalInit == Init => LocalInv
  BY DEF Init, LocalInv

(* A step of the owner or of its fiber keeps LocalInv.                      *)
LEMMA LocalStep == LocalInv /\ [Next]_vars => LocalInv'
<1> SUFFICES ASSUME LocalInv, [Next]_vars PROVE LocalInv'
  OBVIOUS
<1> USE LocalAssumption DEF LocalInv, Mutating
<1>1. ASSUME NEW o \in Ops, NEW k \in Repeats(o), Call(o, k) PROVE LocalInv'
  BY <1>1 DEF Call, Repeats
<1>2. CASE RunClosure
  BY <1>2 DEF RunClosure
<1>3. CASE Panic
  BY <1>3 DEF Panic
<1>4. CASE SpawnScoped
  BY <1>4 DEF SpawnScoped
<1>5. CASE FiberRun
  BY <1>5 DEF FiberRun
<1>6. CASE FiberPanic
  BY <1>6 DEF FiberPanic
<1>7. CASE JoinScoped
  BY <1>7 DEF JoinScoped
<1>8. CASE into_inner
  BY <1>8 DEF into_inner
<1>9. CASE Return
  BY <1>9 DEF Return
<1>10. CASE RunThen
  BY <1>10 DEF RunThen
<1>11. CASE UNCHANGED vars
  BY <1>11 DEF vars
<1> QED
  BY <1>1, <1>2, <1>3, <1>4, <1>5, <1>6, <1>7, <1>8, <1>9, <1>10, <1>11 DEF Next, Step

-----------------------------------------------------------------------------
(* The refinement.                                                          *)

(* The call as TrustObject sees it: over once the fiber has panicked.       *)
TrustCall ==
  IF InCall /\ fiber # "panicked" THEN [op |-> op, total |-> n, left |-> n - i]
                                  ELSE [op |-> "none", total |-> 0, left |-> 0]
TrustTaken == pc \in {"taken", "gone"}

(* Each step is one of TrustObject's, or invisible to the caller.           *)
LEMMA TrustStep ==
  ASSUME LocalInv, [Next]_vars
  PROVE  [Trust!Next]_(Trust!vars)
<1> USE LocalAssumption
<1>0. LocalInv /\ LocalInv'
  BY LocalStep
<1>1. ASSUME UNCHANGED <<inner, TrustTaken, TrustCall, result>>
      PROVE  UNCHANGED Trust!vars
  BY <1>1 DEF Trust!vars, TrustTaken, TrustCall
<1>2. ASSUME NEW o \in Ops, NEW k \in Repeats(o), Call(o, k) PROVE Trust!Next
  <2>1. /\ TrustCall = [op |-> "none", total |-> 0, left |-> 0]
        /\ TrustCall' = [op |-> o, total |-> k, left |-> k]
        /\ UNCHANGED <<inner, TrustTaken, result>>
    BY <1>0, <1>2 DEF Call, LocalInv, TrustCall, TrustTaken, InCall, Repeats
  <2>2. Trust!Invoke(Owner, o, k)
    BY <2>1 DEF Trust!Invoke, Trust!NoCall, TrustCall, TrustTaken
  <2>3. k \in Trust!Repeats(o)
    BY DEF Repeats, Trust!Repeats
  <2> QED
    BY <2>2, <2>3 DEF Trust!Next
<1>3. ASSUME InCall, fiber # "panicked", i < n, pc \notin {"taken", "gone"},
             op' = op, fiber' # "panicked", n' = n, i' = i + 1,
             inner' = Outcome(op, inner),
             result' = IF op = "apply_batch_mut" THEN result ELSE Outcome(op, inner),
             TrustTaken' = (op = "into_inner")
      PROVE  Trust!Next
  <2>1. /\ TrustCall = [op |-> op, total |-> n, left |-> n - i]
        /\ TrustCall' = [op |-> op, total |-> n, left |-> (n - i) - 1]
        /\ n - i > 0 /\ n - i \in Int
    BY <1>0, <1>3 DEF TrustCall, InCall, LocalInv
  <2>2. op \in {"apply", "apply_with", "with", "apply_batch_mut", "launch", "into_inner"}
    BY <1>0, <1>3 DEF InCall, LocalInv
  <2>3. /\ \A v : Trust!Outcome(op, v) = Outcome(op, v)
        /\ op \in Trust!WithResult <=> op # "apply_batch_mut"
    BY <2>2 DEF Trust!Outcome, Outcome, Trust!Mutating, Mutating, Trust!WithResult
  <2>4. TrustTaken = FALSE
    BY <1>3 DEF TrustTaken
  <2>5. Trust!Effect(Owner)
    BY <1>3, <2>1, <2>3, <2>4 DEF Trust!Effect, Trust!MayRun, TrustCall, TrustTaken
  <2> QED
    BY <2>5 DEF Trust!Next
<1>4. CASE RunClosure
  BY <1>0, <1>3, <1>4 DEF RunClosure, LocalInv, InCall, Mutating, TrustTaken
<1>5. CASE FiberRun
  BY <1>0, <1>3, <1>5 DEF FiberRun, LocalInv, InCall, Outcome, Mutating, TrustTaken
<1>6. CASE into_inner
  BY <1>0, <1>3, <1>6 DEF into_inner, LocalInv, InCall, Outcome, Mutating, TrustTaken
<1>7. ASSUME InCall, fiber # "panicked", i < n, pc \notin {"taken", "gone"},
             op' = "none" \/ fiber' = "panicked",
             inner' \in {inner, Outcome(op, inner)}, UNCHANGED <<TrustTaken, result>>
      PROVE  Trust!Next
  <2>1. /\ TrustCall = [op |-> op, total |-> n, left |-> n - i]
        /\ TrustCall' = [op |-> "none", total |-> 0, left |-> 0]
        /\ n - i > 0
    BY <1>0, <1>7 DEF TrustCall, InCall, LocalInv
  <2>2. Trust!Outcome(op, inner) = Outcome(op, inner)
    BY DEF Trust!Outcome, Outcome, Trust!Mutating, Mutating
  <2>3. TrustTaken = FALSE
    BY <1>7 DEF TrustTaken
  <2>4. Trust!Unwind(Owner)
    BY <1>7, <2>1, <2>2, <2>3
    DEF Trust!Unwind, Trust!MayRun, Trust!NoCall, TrustCall, TrustTaken
  <2> QED
    BY <2>4 DEF Trust!Next
<1>8. CASE Panic
  BY <1>0, <1>7, <1>8 DEF Panic, LocalInv, InCall, Mutating, TrustTaken
<1>9. CASE FiberPanic
  BY <1>0, <1>7, <1>9 DEF FiberPanic, LocalInv, InCall, TrustTaken
<1>10. CASE Return
  <2>1. /\ TrustCall = [op |-> op, total |-> n, left |-> 0]
        /\ op \notin {"none", "lost"}
        /\ TrustCall' = [op |-> "none", total |-> 0, left |-> 0]
    BY <1>0, <1>10 DEF Return, TrustCall, InCall, LocalInv
  <2>2. UNCHANGED <<inner, TrustTaken, result>>
    BY <1>0, <1>10 DEF Return, TrustTaken, LocalInv
  <2>3. Trust!Return(Owner)
    BY <2>1, <2>2 DEF Trust!Return, Trust!NoCall, TrustCall, TrustTaken
  <2> QED
    BY <2>3 DEF Trust!Next
<1>11. CASE SpawnScoped \/ JoinScoped \/ RunThen \/ UNCHANGED vars
  <2>1. UNCHANGED <<inner, TrustTaken, TrustCall, result>>
    BY <1>0, <1>11
       DEF SpawnScoped, JoinScoped, RunThen, vars, LocalInv, TrustTaken, TrustCall, InCall
  <2> QED
    BY <1>1, <2>1
<1> QED
  BY <1>2, <1>4, <1>5, <1>6, <1>8, <1>9, <1>10, <1>11 DEF Next, Step

(* Local<T> is a trust: it makes its owner the promises of TrustLike, that  *)
(* closures run exactly as often as asked, with the result of the last run, *)
(* and that every panic leaves it usable, with the runs before the panic    *)
(* and nothing after it, whatever T, its mutation, the operations used and  *)
(* the repeat counts.                                                       *)
THEOREM LocalIsATrust == Spec => ImplementsTrust
<1>1. Init => Trust!Init
  BY DEF Init, Trust!Init, Trust!NoCall, InCall
<1>2. LocalInv /\ [Next]_vars => [Trust!Next]_(Trust!vars)
  BY TrustStep
<1> QED
  BY <1>1, <1>2, LocalInit, LocalStep, PTL DEF Spec, ImplementsTrust, Trust!Spec

=============================================================================
