--------------------------- MODULE MCTrusteeThread ---------------------------
(* Constants of TrusteeThread for model checking.                           *)
EXTENDS TrusteeThread, TLC

CONSTANTS w1, w2, f1, f2, t1, t2, t3

(* The Miri build: every coroutine is a thread.                             *)
OwnThread == (w1 :> {t1}) @@ (w2 :> {t2}) @@ (f1 :> {t3})

(* The normal build: any thread of may's scheduler runs any coroutine.      *)
AnyThread == [x \in Coroutines |-> Threads]

=============================================================================
