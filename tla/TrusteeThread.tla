---------------------------- MODULE TrusteeThread ----------------------------
(***************************************************************************)
(* How the code knows that it is on a trustee's thread, and what a call    *)
(* made from inside a closure does about it: the flag and its guard        *)
(* (src/util/fiber.rs), thread ids (src/util/thread_id.rs), the id that    *)
(* the worker publishes (src/runtime/runtime.rs), and the shortcut and the *)
(* refusal at the head of each operation (src/trust/remote.rs).            *)
(*                                                                         *)
(* Workers and launch fibers are coroutines.  The scheduler of may runs    *)
(* them on a few threads, and after a yield a coroutine may go on on       *)
(* another one; in the Miri build every coroutine has a thread to itself.  *)
(* MayRunOn says which.  A waiting call spins, or yields its thread to the *)
(* operating system (src/util/wait.rs): it never gives up its coroutine.   *)
(* Delegation has the protocol between caller and worker; here a call is   *)
(* taken and answered.                                                     *)
(***************************************************************************)
EXTENDS Integers, FiniteSets

CONSTANTS
  Clients,    (* threads of the program, each with a handle per trustee    *)
  Trustees,   (* workers, each with its own T                              *)
  Fibers,     (* launch fibers, a bound of the model                       *)
  Threads,    (* the threads that run coroutines                           *)
  MayRunOn,   (* per coroutine, the threads it may be resumed on           *)
  ClientOps,  (* operations used by the clients,                           *)
  InnerOps,   (* in closures that a worker runs,                           *)
  FiberOps,   (* and in closures that a fiber runs: "apply" (also for      *)
              (* apply_with and apply_batch_mut), "with", "launch",        *)
              (* "into_inner"                                              *)
  Nobody      (* no actor, no thread                                       *)

Coroutines == Trustees \cup Fibers
Actors == Clients \cup Coroutines

ASSUME ThreadAssumption ==
  /\ Nobody \notin Actors \cup Threads
  /\ MayRunOn \in [Coroutines -> SUBSET Threads]
  /\ Clients \cap Threads = {}
  /\ Clients \cap Coroutines = {}
  /\ Trustees \cap Fibers = {}
  /\ ClientOps \cup InnerOps \cup FiberOps
       \subseteq {"apply", "with", "launch", "into_inner"}

VARIABLES
  on,          (* per coroutine, the thread it is running on               *)
  pc,          (* per actor: "new", "loop", "user", "wait", "ended", "free" *)
  op, target,  (* the call an actor waits in                               *)
  taken,       (* whether the worker has taken it up                       *)
  served,      (* per coroutine, the caller whose closure it runs          *)
  direct,      (* per actor, the trustee whose T it uses by the shortcut   *)
  flag,        (* IS_TRUSTEE_THREAD of each thread                         *)
  trustee_id,  (* what each worker has published                           *)
  cell         (* whether the T of a trustee exists                        *)

callVars == <<op, target, taken>>
vars == <<on, pc, callVars, served, direct, flag, trustee_id, cell>>

Init ==
  /\ on = [x \in Coroutines |-> Nobody]
  /\ pc = [a \in Actors |-> CASE a \in Clients  -> "user"
                              [] a \in Trustees -> "new"
                              [] a \in Fibers   -> "free"]
  /\ op = [a \in Actors |-> "none"]
  /\ target = [a \in Actors |-> Nobody]
  /\ taken = [a \in Actors |-> FALSE]
  /\ served = [x \in Coroutines |-> Nobody]
  /\ direct = [a \in Actors |-> Nobody]
  /\ flag = [t \in Threads |-> FALSE]
  /\ trustee_id = [w \in Trustees |-> Nobody]
  /\ cell = [w \in Trustees |-> FALSE]

(* get_thread_id(): unique per thread, so the thread itself.               *)
ThreadOf(a) == IF a \in Clients THEN a ELSE on[a]

is_trustee_thread(a) == a \notin Clients /\ flag[on[a]]

Running(x) == on[x] # Nobody

-----------------------------------------------------------------------------
(* The scheduler (may, or one thread each).                                *)

Resume(x, t) ==
  /\ ~Running(x)
  /\ pc[x] \notin {"free", "ended"}
  /\ t \in MayRunOn[x]
  /\ \A y \in Coroutines : on[y] # t
  /\ on' = [on EXCEPT ![x] = t]
  /\ UNCHANGED <<pc, callVars, served, direct, flag, trustee_id, cell>>

Pending(w) == {a \in Actors : pc[a] = "wait" /\ target[a] = w /\ ~taken[a]}

(* Mutant: an idle worker spins for good.                                  *)
NeverYield(w) == Running(w) /\ pc[w] = "loop" /\ Pending(w) = {} /\ UNCHANGED vars

(* A worker without requests yields after a few rounds.                    *)
YieldNow(w) ==
  /\ Running(w)
  /\ pc[w] = "loop"
  /\ Pending(w) = {}
  /\ on' = [on EXCEPT ![w] = Nobody]
  /\ UNCHANGED <<pc, callVars, served, direct, flag, trustee_id, cell>>

(* A closure may yield its coroutine: it sleeps, or waits on a primitive   *)
(* of may.  One that runs by the shortcut does not (a bound of the model). *)
YieldInClosure(x) ==
  /\ Running(x)
  /\ pc[x] = "user"
  /\ direct[x] = Nobody
  /\ on' = [on EXCEPT ![x] = Nobody]
  /\ UNCHANGED <<pc, callVars, served, direct, flag, trustee_id, cell>>

-----------------------------------------------------------------------------
(* The worker.                                                             *)

(* Mutant: the id of the coroutine is published, not that of its thread.   *)
EnterLoopAsCoroutine(w) ==
  /\ Running(w)
  /\ pc[w] = "new"
  /\ pc' = [pc EXCEPT ![w] = "loop"]
  /\ flag' = [flag EXCEPT ![on[w]] = TRUE]
  /\ trustee_id' = [trustee_id EXCEPT ![w] = w]
  /\ cell' = [cell EXCEPT ![w] = TRUE]
  /\ UNCHANGED <<on, callVars, served, direct>>

(* TrusteeThreadGuard::enter, then id and pointer are published once.      *)
EnterLoop(w) ==
  /\ Running(w)
  /\ pc[w] = "new"
  /\ pc' = [pc EXCEPT ![w] = "loop"]
  /\ flag' = [flag EXCEPT ![on[w]] = TRUE]
  /\ trustee_id' = [trustee_id EXCEPT ![w] = on[w]]
  /\ cell' = [cell EXCEPT ![w] = TRUE]
  /\ UNCHANGED <<on, callVars, served, direct>>

(* The worker's locals are dropped, on whatever thread it has come to: the *)
(* guard clears the flag there.  Id and pointer stay published.            *)
Leave(w) ==
  /\ flag' = [flag EXCEPT ![on[w]] = FALSE]
  /\ cell' = [cell EXCEPT ![w] = FALSE]
  /\ on' = [on EXCEPT ![w] = Nobody]

Answered(a) ==
  /\ op' = [op EXCEPT ![a] = "none"]
  /\ target' = [target EXCEPT ![a] = Nobody]
  /\ taken' = [taken EXCEPT ![a] = FALSE]

(* A call of apply or with: the closure runs on the worker.                *)
RunClosure(w, a) ==
  /\ Running(w)
  /\ pc[w] = "loop"
  /\ a \in Pending(w)
  /\ op[a] \in {"apply", "with"}
  /\ pc' = [pc EXCEPT ![w] = "user"]
  /\ taken' = [taken EXCEPT ![a] = TRUE]
  /\ served' = [served EXCEPT ![w] = a]
  /\ UNCHANGED <<on, op, target, direct, flag, trustee_id, cell>>

(* A launch: the closure goes to a fiber, and the worker goes on.          *)
StartFiber(w, a, f) ==
  /\ Running(w)
  /\ pc[w] = "loop"
  /\ a \in Pending(w)
  /\ op[a] = "launch"
  /\ pc[f] = "free"
  /\ pc' = [pc EXCEPT ![f] = "user"]
  /\ taken' = [taken EXCEPT ![a] = TRUE]
  /\ served' = [served EXCEPT ![f] = a]
  /\ UNCHANGED <<on, op, target, direct, flag, trustee_id, cell>>

(* IntoInner: T is handed over, and the worker returns.                    *)
GiveAway(w, a) ==
  /\ Running(w)
  /\ pc[w] = "loop"
  /\ a \in Pending(w)
  /\ op[a] = "into_inner"
  /\ pc' = [pc EXCEPT ![w] = "ended", ![a] = "user"]
  /\ Answered(a)
  /\ Leave(w)
  /\ UNCHANGED <<served, direct, trustee_id>>

(* Mutant: the caller is answered while the closure's own call is pending. *)
ReturnToLoopEarly(x) ==
  /\ Running(x)
  /\ pc[x] \in {"user", "wait"}
  /\ direct[x] = Nobody
  /\ pc' = [pc EXCEPT ![x] = IF x \in Trustees THEN "loop" ELSE "free",
                      ![served[x]] = "user"]
  /\ on' = IF x \in Trustees THEN on ELSE [on EXCEPT ![x] = Nobody]
  /\ served' = [served EXCEPT ![x] = Nobody]
  /\ Answered(served[x])
  /\ UNCHANGED <<direct, flag, trustee_id, cell>>

(* A closure returns: its caller is answered, and the worker polls again;  *)
(* a fiber is done with its job.                                           *)
ReturnToLoop(x) ==
  /\ Running(x)
  /\ pc[x] = "user"
  /\ direct[x] = Nobody
  /\ pc' = [pc EXCEPT ![x] = IF x \in Trustees THEN "loop" ELSE "free",
                      ![served[x]] = "user"]
  /\ on' = IF x \in Trustees THEN on ELSE [on EXCEPT ![x] = Nobody]
  /\ served' = [served EXCEPT ![x] = Nobody]
  /\ Answered(served[x])
  /\ UNCHANGED <<direct, flag, trustee_id, cell>>

-----------------------------------------------------------------------------
(* Calls.                                                                  *)

(* a runs code of the user: a client, or a closure on a coroutine.         *)
InUserCode(a) ==
  /\ pc[a] = "user"
  /\ a \notin Clients => Running(a)
  /\ direct[a] = Nobody

OpsOf(a) ==
  CASE a \in Clients  -> ClientOps
    [] a \in Trustees -> InnerOps
    [] a \in Fibers   -> FiberOps

(* trustee_id != 0 && trustee_id == get_thread_id()                        *)
OnTrusteeThread(a, w) == trustee_id[w] # Nobody /\ trustee_id[w] = ThreadOf(a)

TakesShortcut(a, w, o) == o \in {"apply", "with"} /\ OnTrusteeThread(a, w)

(* "We are on the trustee thread!": the closure runs here, on T itself.    *)
CallDirect(a, w, o) ==
  /\ InUserCode(a)
  /\ TakesShortcut(a, w, o)
  /\ direct' = [direct EXCEPT ![a] = w]
  /\ UNCHANGED <<on, pc, callVars, served, flag, trustee_id, cell>>

EndDirect(a) ==
  /\ Running(a)
  /\ direct[a] # Nobody
  /\ direct' = [direct EXCEPT ![a] = Nobody]
  /\ UNCHANGED <<on, pc, callVars, served, flag, trustee_id, cell>>

IsRefused(a, w, o) ==
  /\ o \in {"apply", "into_inner"}
  /\ ~TakesShortcut(a, w, o)
  /\ is_trustee_thread(a)

(* "Blocking delegation is prohibited on trustee thread": the panic        *)
(* unwinds the worker, whose caller is not answered, or a fiber, whose     *)
(* caller is answered by the completion guard.                             *)
RefuseWorker(w, v, o) ==
  /\ InUserCode(w)
  /\ IsRefused(w, v, o)
  /\ pc' = [pc EXCEPT ![w] = "ended"]
  /\ Leave(w)
  /\ UNCHANGED <<callVars, served, direct, trustee_id>>

RefuseFiber(f, v, o) ==
  /\ InUserCode(f)
  /\ IsRefused(f, v, o)
  /\ pc' = [pc EXCEPT ![f] = "free", ![served[f]] = "user"]
  /\ on' = [on EXCEPT ![f] = Nobody]
  /\ served' = [served EXCEPT ![f] = Nobody]
  /\ Answered(served[f])
  /\ UNCHANGED <<direct, flag, trustee_id, cell>>

(* The request is published, and the caller spins where it is.             *)
CallRemote(a, w, o) ==
  /\ InUserCode(a)
  /\ ~TakesShortcut(a, w, o)
  /\ ~IsRefused(a, w, o)
  /\ pc' = [pc EXCEPT ![a] = "wait"]
  /\ op' = [op EXCEPT ![a] = o]
  /\ target' = [target EXCEPT ![a] = w]
  /\ UNCHANGED <<on, taken, served, direct, flag, trustee_id, cell>>

-----------------------------------------------------------------------------
Call(a) ==
  \E w \in Trustees, o \in OpsOf(a) : CallDirect(a, w, o) \/ CallRemote(a, w, o)

Refuse ==
  \E v \in Trustees :
    \/ \E w \in Trustees : \E o \in OpsOf(w) : RefuseWorker(w, v, o)
    \/ \E f \in Fibers : \E o \in OpsOf(f) : RefuseFiber(f, v, o)

Poll(w) ==
  \/ EnterLoop(w)
  \/ YieldNow(w)
  \/ \E a \in Actors : RunClosure(w, a) \/ GiveAway(w, a)
  \/ \E a \in Actors, f \in Fibers : StartFiber(w, a, f)

Schedule(x) == \E t \in Threads : Resume(x, t)

Next ==
  \/ \E x \in Coroutines :
       Schedule(x) \/ YieldInClosure(x) \/ ReturnToLoop(x) \/ EndDirect(x)
  \/ \E w \in Trustees : Poll(w)
  \/ \E a \in Actors : Call(a)
  \/ Refuse

Spec == Init /\ [][Next]_vars

(* A coroutine that can run somewhere is resumed again and again, workers  *)
(* poll, and closures end: they neither yield nor call for ever.           *)
Fairness ==
  /\ \A x \in Coroutines :
       SF_vars(Schedule(x)) /\ SF_vars(ReturnToLoop(x)) /\ WF_vars(EndDirect(x))
  /\ \A w \in Trustees : WF_vars(Poll(w))

FairSpec == Spec /\ Fairness

-----------------------------------------------------------------------------
(* Properties.                                                             *)

(* Every variable stays in its type.                                       *)
TypeOK ==
  /\ on \in [Coroutines -> Threads \cup {Nobody}]
  /\ pc \in [Actors -> {"new", "loop", "user", "wait", "ended", "free"}]
  /\ op \in [Actors -> {"none", "apply", "with", "launch", "into_inner"}]
  /\ target \in [Actors -> Trustees \cup {Nobody}]
  /\ taken \in [Actors -> BOOLEAN]
  /\ served \in [Coroutines -> Actors \cup {Nobody}]
  /\ direct \in [Actors -> Trustees \cup {Nobody}]
  /\ flag \in [Threads -> BOOLEAN]
  /\ trustee_id \in [Trustees -> Threads \cup {Nobody}]
  /\ cell \in [Trustees -> BOOLEAN]

(* "Returns true if the current thread is a trustee thread (running the    *)
(* runtime loop)" (fiber.rs), whoever asks.                                *)
FlagIsExact ==
  \A x \in Coroutines :
    Running(x) => (is_trustee_thread(x)
                     <=> x \in Trustees /\ pc[x] \in {"loop", "user", "wait"})

(* "We are on the trustee thread!" (remote.rs): T is touched directly only *)
(* from a closure that its own worker runs, and while it exists; anyone    *)
(* else would share a &mut T with the worker.                              *)
ShortcutIsOwn ==
  \A a \in Actors, w \in Trustees :
    direct[a] = w => a = w /\ cell[w]

(* "Blocking delegation is prohibited on trustee thread" (remote.rs): no   *)
(* worker waits in a call while its own clients wait for it.               *)
TrusteesNeverBlock == \A w \in Trustees : pc[w] # "wait"

(* Who has to act before the call of a can return.                         *)
ServersOf(a) ==
  IF taken[a] THEN {x \in Coroutines : served[x] = a} ELSE {target[a]}

(* a waits, directly or through the calls of others, for a worker that has *)
(* ended, or for itself.                                                   *)
Doomed(a) ==
  \E S \in SUBSET Actors :
    /\ a \in S
    /\ \A b \in S :
         pc[b] = "ended" \/ (pc[b] = "wait" /\ ServersOf(b) \in (SUBSET S) \ {{}})

(* Waiting calls hold every thread that could run a coroutine.             *)
EveryThreadWaits ==
  \A t \in Threads : \E x \in Coroutines : on[x] = t /\ pc[x] = "wait"

(* Every call returns, those from inside closures too, wherever coroutines *)
(* run and wherever they migrate to.  There are two ways out only: a chain *)
(* of calls that ends at a worker that is gone, or closes on itself; and   *)
(* waiting calls, which never give up their thread, on all the threads.    *)
CallsReturn ==
  \A a \in Actors :
    pc[a] = "wait" ~> pc[a] # "wait" \/ Doomed(a) \/ EveryThreadWaits

(* Nothing gets a caller out of either: calls have no timeout, and waiters *)
(* are not told that a worker has gone (remote.rs, wait.rs).               *)
StuckForGood ==
  [][ /\ \A a \in Actors : Doomed(a) => Doomed(a)'
      /\ EveryThreadWaits => EveryThreadWaits' ]_vars

(* "bounded spin then yield" (wait.rs): a coroutine that has work to do    *)
(* gets a thread, whatever waiting calls do with theirs.                   *)
WaitersGiveWay ==
  \A w \in Trustees : Pending(w) # {} ~> Running(w) \/ pc[w] = "ended"

=============================================================================
