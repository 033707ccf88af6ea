------------------------------ MODULE JobService -----------------------------
(***************************************************************************)
(* What the worker of a Runtime (src/runtime/runtime.rs) expects of        *)
(* whatever runs its launches: a job handed over runs once, on its own,    *)
(* and its caller is answered after it has run; and once the service has   *)
(* been closed there is no job left and none is taken.                     *)
(***************************************************************************)
CONSTANT Callers  (* each has at most one launch outstanding               *)

VARIABLES
  job,     (* per caller, the state of its launch                          *)
  closed   (* the worker has been told to terminate and has returned       *)

vars == <<job, closed>>

JobStates == {"none", "queued", "running", "done"}

Init ==
  /\ job = [c \in Callers |-> "none"]
  /\ closed = FALSE

Move(c, from, to) == job[c] = from /\ job' = [job EXCEPT ![c] = to]

Submit(c) == ~closed /\ Move(c, "none", "queued") /\ UNCHANGED closed
Start(c)  == Move(c, "queued", "running") /\ UNCHANGED closed
Finish(c) == Move(c, "running", "done") /\ UNCHANGED closed
Answer(c) == Move(c, "done", "none") /\ UNCHANGED closed

Close ==
  /\ \A c \in Callers : job[c] = "none"
  /\ closed' = TRUE
  /\ UNCHANGED job

Next ==
  \/ \E c \in Callers : Submit(c) \/ Start(c) \/ Finish(c) \/ Answer(c)
  \/ Close

Spec == Init /\ [][Next]_vars

=============================================================================
