----------------------------- MODULE MCLocalTrust ----------------------------
(* Constants of LocalTrust for model checking: T is a counter modulo 3.     *)
EXTENDS LocalTrust

Mod3Values == 0 .. 2
Mod3Mutate == [v \in Mod3Values |-> (v + 1) % 3]

=============================================================================
