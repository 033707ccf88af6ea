------------------------------ MODULE FiberPool ------------------------------
(***************************************************************************)
(* How a launch gets from the worker to a pooled fiber, and how the pool   *)
(* is wound up (src/runtime/runtime.rs, PropertyPtr::Launch and            *)
(* PropertyPtr::Terminate).                                                *)
(*                                                                         *)
(* A fiber owns both ends of its own job channel.  After each job it puts  *)
(* a sender into fiber_pool; the worker pops a sender to hand it the next  *)
(* job, and the terminator pops senders to tell the fibers to shut down.   *)
(* T lives in an Arc that the worker and every job in flight hold.         *)
(*                                                                         *)
(* The request and response words are Delegation's; here a caller simply   *)
(* asks and is answered.  Queues and channels are linearizable.  The Err   *)
(* arm of rx.recv() has no action: tx lives in the closure that calls      *)
(* recv, so the channel is never without a sender.                         *)
(***************************************************************************)
EXTENDS Integers, Sequences, FiniteSets

CONSTANTS
  Callers,     (* handles that launch                                      *)
  Fibers,      (* fibers that may be spawned: a bound of the model, the    *)
               (* code spawns one whenever the pool is empty               *)
  NoOne,       (* no caller, no fiber                                      *)
  Panics,      (* whether a launch closure may panic                       *)
  Endings      (* how the worker may end: "terminate", "into_inner",       *)
               (* "panic" of a closure it runs itself                      *)

ASSUME PoolAssumption ==
  /\ NoOne \notin Callers \cup Fibers
  /\ Panics \in BOOLEAN
  /\ Endings \subseteq {"terminate", "into_inner", "panic"}

Shutdown == NoOne   (* Job::Shutdown, as opposed to Job::Execute of a caller *)

VARIABLES
  call,       (* per caller: "idle", "asking", "launched"                  *)
  wpc,        (* the worker                                                *)
  wjob, wtx,  (* the job in its hands, and the sender it has popped        *)
  handles,    (* fiber_handles, those not yet joined                       *)
  pool,       (* fiber_pool                                                *)
  chan,       (* per fiber, the jobs in its channel                        *)
  fpc, fjob,  (* the fibers, and the caller whose job each has             *)
  panicking,  (* fibers that are unwinding                                 *)
  tpc, ttx,   (* the terminator and the sender it has popped               *)
  done,       (* what tells it to stop                                     *)
  refs,       (* strong count of the Arc around T                          *)
  given,      (* into_inner has read T out of the cell                     *)
  drops       (* how often the destructor of T has run                     *)

workerVars == <<wpc, wjob, wtx, handles>>
fiberVars  == <<chan, fpc, fjob, panicking>>
termVars   == <<tpc, ttx, done>>
cellVars   == <<refs, given, drops>>
vars == <<call, workerVars, pool, fiberVars, termVars, cellVars>>

Ended(f) == fpc[f] \in {"exited", "dead"}

-----------------------------------------------------------------------------
Init ==
  /\ call = [c \in Callers |-> "idle"]
  /\ wpc = "serve"
  /\ wjob = NoOne
  /\ wtx = NoOne
  /\ handles = <<>>
  /\ pool = <<>>
  /\ chan = [f \in Fibers |-> <<>>]
  /\ fpc = [f \in Fibers |-> "unborn"]
  /\ fjob = [f \in Fibers |-> NoOne]
  /\ panicking = [f \in Fibers |-> FALSE]
  /\ tpc = "unborn"
  /\ ttx = NoOne
  /\ done = FALSE
  /\ refs = 1
  /\ given = FALSE
  /\ drops = 0

(* Mutant: the cell stays allocated, T is dropped with the first Arc.      *)
DropEveryArc ==
  /\ refs' = refs - 1
  /\ drops' = 1
  /\ UNCHANGED given

(* Mutant: from_raw and an explicit decrement, the count goes down twice.  *)
DropArcTwice ==
  /\ refs' = refs - 2
  /\ drops' = IF refs = 1 THEN drops + 1 ELSE drops
  /\ UNCHANGED given

(* An Arc goes away, and with the last one the cell and the T in it.       *)
DropArc ==
  /\ refs' = refs - 1
  /\ drops' = IF refs = 1 THEN drops + 1 ELSE drops
  /\ UNCHANGED given

-----------------------------------------------------------------------------
(* The callers.                                                            *)

Ask(c) ==
  /\ call[c] = "idle"
  /\ call' = [call EXCEPT ![c] = "asking"]
  /\ UNCHANGED <<workerVars, pool, fiberVars, termVars, cellVars>>

-----------------------------------------------------------------------------
(* The worker: launches.                                                   *)

(* The bound of the model: a launch is taken when a fiber can be found for *)
(* it, in the pool or among those not yet spawned.                         *)
FiberLeft == pool # <<>> \/ \E f \in Fibers : fpc[f] = "unborn"

(* Mutant: pending_launch is not set, and the launch is dispatched again.  *)
BuildJobAgain(c) ==
  /\ wpc = "serve"
  /\ call[c] = "asking"
  /\ FiberLeft
  /\ wpc' = "pop"
  /\ wjob' = c
  /\ refs' = refs + 1
  /\ UNCHANGED <<call, wtx, handles, pool, fiberVars, termVars, given, drops>>

(* The job is built around a clone of the Arc, as a raw pointer.           *)
BuildJob(c) ==
  /\ wpc = "serve"
  /\ call[c] = "asking"
  /\ FiberLeft
  /\ wpc' = "pop"
  /\ wjob' = c
  /\ call' = [call EXCEPT ![c] = "launched"]
  /\ refs' = refs + 1
  /\ UNCHANGED <<wtx, handles, pool, fiberVars, termVars, given, drops>>

PopSender ==
  /\ wpc = "pop"
  /\ pool # <<>>
  /\ wpc' = "send"
  /\ wtx' = Head(pool)
  /\ pool' = Tail(pool)
  /\ UNCHANGED <<call, wjob, handles, fiberVars, termVars, cellVars>>

(* A failed send means a dead fiber: the job is recovered for the next.    *)
SendJob ==
  /\ wpc = "send"
  /\ IF Ended(wtx)
       THEN wpc' = "pop" /\ UNCHANGED <<wjob, chan>>
       ELSE /\ wpc' = "serve"
            /\ wjob' = NoOne
            /\ chan' = [chan EXCEPT ![wtx] = Append(@, wjob)]
  /\ wtx' = NoOne
  /\ UNCHANGED <<call, handles, pool, fpc, fjob, panicking, termVars, cellVars>>

(* An empty pool: a new fiber starts with the job in its channel.          *)
SpawnFiber(f) ==
  /\ wpc = "pop"
  /\ pool = <<>>
  /\ fpc[f] = "unborn"
  /\ wpc' = "serve"
  /\ wjob' = NoOne
  /\ chan' = [chan EXCEPT ![f] = <<wjob>>]
  /\ fpc' = [fpc EXCEPT ![f] = "recv"]
  /\ handles' = Append(handles, f)
  /\ UNCHANGED <<call, wtx, pool, fjob, panicking, termVars, cellVars>>

-----------------------------------------------------------------------------
(* The fibers.                                                             *)

(* Mutant: the fiber is back in the pool before it has run the job.        *)
RecvAndReturn(f) ==
  /\ fpc[f] = "recv"
  /\ chan[f] # <<>>
  /\ LET j == Head(chan[f])
     IN /\ fjob' = [fjob EXCEPT ![f] = j]
        /\ fpc' = [fpc EXCEPT ![f] = IF j = Shutdown THEN "exited" ELSE "run"]
        /\ pool' = IF j = Shutdown THEN pool ELSE Append(pool, f)
  /\ chan' = [chan EXCEPT ![f] = Tail(@)]
  /\ UNCHANGED <<call, workerVars, panicking, termVars, cellVars>>

(* rx.recv(): Job::Execute runs the job, Job::Shutdown leaves the loop.    *)
Recv(f) ==
  /\ fpc[f] = "recv"
  /\ chan[f] # <<>>
  /\ LET j == Head(chan[f])
     IN /\ fjob' = [fjob EXCEPT ![f] = j]
        /\ fpc' = [fpc EXCEPT ![f] = IF j = Shutdown THEN "exited" ELSE "run"]
  /\ chan' = [chan EXCEPT ![f] = Tail(@)]
  /\ UNCHANGED <<call, workerVars, pool, panicking, termVars, cellVars>>

(* The closure of the launch returns, or panics.                           *)
EndClosure(f, panic) ==
  /\ fpc[f] = "run"
  /\ fpc' = [fpc EXCEPT ![f] = "guard"]
  /\ panicking' = [panicking EXCEPT ![f] = panic]
  /\ UNCHANGED <<call, workerVars, pool, chan, fjob, termVars, cellVars>>

(* Mutant: the guard is dropped on the normal path only.                   *)
SignalIfReturned(f) ==
  /\ fpc[f] = "guard"
  /\ fpc' = [fpc EXCEPT ![f] = "arc"]
  /\ call' = IF panicking[f] THEN call ELSE [call EXCEPT ![fjob[f]] = "idle"]
  /\ fjob' = IF panicking[f] THEN fjob ELSE [fjob EXCEPT ![f] = NoOne]
  /\ UNCHANGED <<workerVars, pool, chan, panicking, termVars, cellVars>>

(* Locals go in reverse order: first _completion_guard, which answers the  *)
(* caller, whether returning or unwinding,                                 *)
Signal(f) ==
  /\ fpc[f] = "guard"
  /\ fpc' = [fpc EXCEPT ![f] = "arc"]
  /\ call' = [call EXCEPT ![fjob[f]] = "idle"]
  /\ fjob' = [fjob EXCEPT ![f] = NoOne]
  /\ UNCHANGED <<workerVars, pool, chan, panicking, termVars, cellVars>>

(* then prop_arc.  Unwinding ends the fiber.                               *)
ReleaseProp(f) ==
  /\ fpc[f] = "arc"
  /\ fpc' = [fpc EXCEPT ![f] = IF panicking[f] THEN "dead" ELSE "push"]
  /\ DropArc
  /\ UNCHANGED <<call, workerVars, pool, chan, fjob, panicking, termVars>>

(* "Job done. Return self to pool."                                        *)
ReturnSelf(f) ==
  /\ fpc[f] = "push"
  /\ fpc' = [fpc EXCEPT ![f] = "recv"]
  /\ pool' = Append(pool, f)
  /\ UNCHANGED <<call, workerVars, chan, fjob, panicking, termVars, cellVars>>

-----------------------------------------------------------------------------
(* The worker: how it ends.                                                *)

(* Terminate: the terminator is spawned, and the fibers are joined in the  *)
(* order they were spawned.                                                *)
BeginTerminate ==
  /\ wpc = "serve"
  /\ "terminate" \in Endings
  /\ wpc' = "join"
  /\ tpc' = "sweep"
  /\ UNCHANGED <<call, wjob, wtx, handles, pool, fiberVars, ttx, done, cellVars>>

JoinFiber ==
  /\ wpc = "join"
  /\ handles # <<>>
  /\ Ended(Head(handles))
  /\ handles' = Tail(handles)
  /\ UNCHANGED <<call, wpc, wjob, wtx, pool, fiberVars, termVars, cellVars>>

(* Mutant: done is stored without joining the fibers.                      *)
StoreDoneAtOnce ==
  /\ wpc = "join"
  /\ wpc' = "join_terminator"
  /\ done' = TRUE
  /\ UNCHANGED <<call, wjob, wtx, handles, pool, fiberVars, tpc, ttx, cellVars>>

StoreDone ==
  /\ wpc = "join"
  /\ handles = <<>>
  /\ wpc' = "join_terminator"
  /\ done' = TRUE
  /\ UNCHANGED <<call, wjob, wtx, handles, pool, fiberVars, tpc, ttx, cellVars>>

JoinTerminator ==
  /\ wpc = "join_terminator"
  /\ tpc = "exited"
  /\ wpc' = "returned"
  /\ DropArc
  /\ UNCHANGED <<call, wjob, wtx, handles, pool, fiberVars, termVars>>

(* IntoInner: T is read out of the cell and the caller answered ...        *)
MoveOut ==
  /\ wpc = "serve"
  /\ "into_inner" \in Endings
  /\ wpc' = "unwind"
  /\ given' = TRUE
  /\ UNCHANGED <<call, wjob, wtx, handles, pool, fiberVars, termVars, refs, drops>>

(* A closure the worker runs itself panics ...                             *)
PanicInCall ==
  /\ wpc = "serve"
  /\ "panic" \in Endings
  /\ wpc' = "unwind"
  /\ UNCHANGED <<call, wjob, wtx, handles, pool, fiberVars, termVars, cellVars>>

(* ... and either way the worker's locals go: its Arc, and fiber_handles,  *)
(* which detaches the fibers.                                              *)
LeaveWorker ==
  /\ wpc = "unwind"
  /\ wpc' = "left"
  /\ handles' = <<>>
  /\ DropArc
  /\ UNCHANGED <<call, wjob, wtx, pool, fiberVars, termVars>>

-----------------------------------------------------------------------------
(* The terminator.                                                         *)

(* Mutant: one pass over the pool, as if every fiber were already in it.   *)
SweepOnce ==
  /\ tpc = "sweep"
  /\ pool = <<>>
  /\ tpc' = "exited"
  /\ UNCHANGED <<call, workerVars, pool, fiberVars, ttx, done, cellVars>>

(* while !done: nothing in the pool, look again later; done: the last      *)
(* sweep, which ends when the pool is empty.                               *)
LeaveSweep ==
  /\ tpc = "sweep"
  /\ done
  /\ pool = <<>>
  /\ tpc' = "exited"
  /\ UNCHANGED <<call, workerVars, pool, fiberVars, ttx, done, cellVars>>

PopToShutdown ==
  /\ tpc = "sweep"
  /\ pool # <<>>
  /\ tpc' = "send"
  /\ ttx' = Head(pool)
  /\ pool' = Tail(pool)
  /\ UNCHANGED <<call, workerVars, fiberVars, done, cellVars>>

(* A failed send is ignored.                                               *)
SendShutdown ==
  /\ tpc = "send"
  /\ tpc' = "sweep"
  /\ ttx' = NoOne
  /\ chan' = IF Ended(ttx) THEN chan ELSE [chan EXCEPT ![ttx] = Append(@, Shutdown)]
  /\ UNCHANGED <<call, workerVars, pool, fpc, fjob, panicking, done, cellVars>>

-----------------------------------------------------------------------------
Fiber(f) ==
  \/ Recv(f)
  \/ EndClosure(f, FALSE)
  \/ Panics /\ EndClosure(f, TRUE)
  \/ Signal(f)
  \/ ReleaseProp(f)
  \/ ReturnSelf(f)

Worker ==
  \/ \E c \in Callers : BuildJob(c)
  \/ PopSender \/ SendJob \/ \E f \in Fibers : SpawnFiber(f)
  \/ JoinFiber \/ StoreDone \/ JoinTerminator
  \/ LeaveWorker

Terminator == LeaveSweep \/ PopToShutdown \/ SendShutdown

Next ==
  \/ \E c \in Callers : Ask(c)
  \/ Worker \/ BeginTerminate \/ MoveOut \/ PanicInCall
  \/ \E f \in Fibers : Fiber(f)
  \/ Terminator

Spec == Init /\ [][Next]_vars

(* Closures end, and the scheduler of may runs every coroutine again.      *)
Fairness ==
  /\ WF_vars(Worker)
  /\ WF_vars(Terminator)
  /\ \A f \in Fibers : WF_vars(Fiber(f))

FairSpec == Spec /\ Fairness

-----------------------------------------------------------------------------
(* Properties.                                                             *)

(* Every variable stays in its type.                                       *)
TypeOK ==
  /\ call \in [Callers -> {"idle", "asking", "launched"}]
  /\ wpc \in {"serve", "pop", "send", "join", "join_terminator", "returned",
              "unwind", "left"}
  /\ wjob \in Callers \cup {NoOne}
  /\ wtx \in Fibers \cup {NoOne}
  /\ handles \in Seq(Fibers)
  /\ pool \in Seq(Fibers)
  /\ chan \in [Fibers -> Seq(Callers \cup {Shutdown})]
  /\ fpc \in [Fibers -> {"unborn", "recv", "run", "guard", "arc", "push",
                         "exited", "dead"}]
  /\ fjob \in [Fibers -> Callers \cup {NoOne}]
  /\ panicking \in [Fibers -> BOOLEAN]
  /\ tpc \in {"unborn", "sweep", "send", "exited"}
  /\ ttx \in Fibers \cup {NoOne}
  /\ done \in BOOLEAN
  /\ refs \in Nat
  /\ given \in BOOLEAN
  /\ drops \in Nat

Idle(f) == fpc[f] = "recv" /\ chan[f] = <<>>

(* A sender in the pool, or popped by the worker or the terminator, is     *)
(* that of a fiber that waits in recv with nothing in its channel, and is  *)
(* there once: a send never fails, and no two jobs queue up behind one     *)
(* another while other fibers are free.                                    *)
SendersAreIdleFibers ==
  /\ \A i \in DOMAIN pool : Idle(pool[i]) /\ pool[i] # wtx /\ pool[i] # ttx
  /\ \A i, j \in DOMAIN pool : pool[i] = pool[j] => i = j
  /\ wtx # NoOne => Idle(wtx) /\ wtx # ttx
  /\ ttx # NoOne => Idle(ttx)

Executing(f) == fpc[f] \in {"run", "guard"}

(* "This prevents use-after-free if the worker exits while a fiber is      *)
(* still running" (runtime.rs): T is not destroyed while a closure can     *)
(* have a reference to it, whether the worker has terminated or unwound.   *)
CellOutlivesClosures ==
  (\E f \in Fibers : Executing(f)) \/ wpc \in {"serve", "pop", "send"} => drops = 0

(* A worker that was told to terminate returns with no job left behind,    *)
(* its fibers all gone, and T dropped - before Drop for Runtime returns.   *)
TerminateLeavesNothing ==
  wpc = "returned" =>
    /\ \A f \in Fibers : fpc[f] = "unborn" \/ Ended(f)
    /\ \A c \in Callers : call[c] # "launched"
    /\ pool = <<>>
    /\ refs = 0
    /\ drops = 1

(* "move out T" (remote.rs): T has one owner, so that it is either handed  *)
(* to the caller of into_inner or destroyed with its cell.                 *)
OneOwnerOfT == drops + (IF given THEN 1 ELSE 0) <= 1

(* The state of the launch of c, as Delegation has it.                     *)
JobOf(c) ==
  CASE wjob = c \/ (\E f \in Fibers : \E i \in DOMAIN chan[f] : chan[f][i] = c)
         -> "queued"
    [] \E f \in Fibers : fjob[f] = c /\ fpc[f] = "run"   -> "running"
    [] \E f \in Fibers : fjob[f] = c /\ fpc[f] = "guard" -> "done"
    [] OTHER -> "none"

Jobs == INSTANCE JobService WITH
  job <- [c \in Callers |-> JobOf(c)],
  closed <- (wpc = "returned")

(* The pool is the job service that Delegation abstracts it to.            *)
ImplementsJobs == Jobs!Spec

(* Terminate comes back, although each fiber can be told to shut down only *)
(* after it has returned itself to the pool, and dead ones never do.       *)
TerminateReturns == wpc = "join" ~> wpc = "returned"

(* A launch that was taken is answered, whatever becomes of the worker.    *)
LaunchesAnswered ==
  \A c \in Callers : call[c] = "launched" ~> call[c] = "idle"

(* "Sender dropped (runtime dropped?), exit." (runtime.rs): the fibers do  *)
(* not outlive the worker for good.                                        *)
FibersExit ==
  wpc = "left" ~> \A f \in Fibers : fpc[f] = "unborn" \/ Ended(f)

=============================================================================
