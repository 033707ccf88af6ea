---------------------------- MODULE MCDelegation -----------------------------
(* Constants of Delegation for model checking.  T is a counter modulo 2, or *)
(* a unit value where only the control matters.                             *)
EXTENDS Delegation, TLC

Mod2Values == 0 .. 1
Mod2Mutate == [v \in Mod2Values |-> (v + 1) % 2]

UnitValues == {0}
UnitMutate == [v \in UnitValues |-> v]

HandleSymmetry == Permutations(Handles)

(* The fair behaviours of the system in which no handle is dropped, and     *)
(* every handle is created and registered before the first call.            *)
KeepHandles ==
  /\ \A h \in Handles : cpc'[h] # "gone"
  /\ (\E h \in Handles : cpc'[h] = "write") =>
       /\ \A h \in Handles : cpc'[h] # "absent"
       /\ reg' = <<>>

BusySpec == Init /\ [][Next /\ KeepHandles]_vars /\ Fairness

=============================================================================
