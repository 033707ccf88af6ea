----------------------------- MODULE MCCellLatch -----------------------------
(* Constants of CellLatch for model checking.                               *)
EXTENDS CellLatch, TLC

CONSTANTS u1, u2, u3, t1, t2

(* Fibers of one thread; and fibers of a launch, on the threads of may.     *)
OneThread == [u \in Users |-> t1]
TwoThreads == (u1 :> t1) @@ (u2 :> t2)

=============================================================================
