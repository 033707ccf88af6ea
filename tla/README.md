# A TLA+ model of trust-tee

trust-tee gives several threads access to one value of type `T` without locks:
the value lives with a *trustee*, and callers send it closures.  This directory
models the trustee protocol and the parts around it, checks them with TLC on
small instances and proves their safety properties with TLAPS for every instance.

Paths below are relative to the repository (`src/...` is the crate's source).

## 1. The system

| Component | State | Operations | Interacts with |
|---|---|---|---|
| Trust interface (`src/trust/common.rs`) | none of its own; promises a value `T` | `apply`, `apply_then`, `apply_with`, `with`, `apply_batch_mut`, `launch`, `launch_then`, `into_inner` | implemented by Local and Remote |
| Remote handles (`src/trust/remote.rs`) | a `ChannelPair`, a `Registrar`, `_owner` (an `Arc` of the owning `Runtime`) | the operations above, `clone`, drop, `entrust` | writes the request slot, waits on the response slot |
| Runtime worker (`src/runtime/runtime.rs`) | vector of `ClientPair`s, `start_idx`, `loop_counter`, per client `pending_launch` and `launch_req_ready`, the value | polls, dispatches on `PropertyPtr`, responds, terminates | channels, registration queue, fibers |
| Slot header words (`src/runtime/slots.rs`, `mod header`) | an `AtomicU32` per slot: ready bit and record count | `pack_ready_count`, `ready`, `count` | the only synchronisation between client and worker |
| Slot layout and closure encoding (`src/runtime/slots.rs`, `serialization.rs`) | two data blocks per slot, a write cursor | `next_boundary_offset`, `SlotWriter`, `encode_closure`, `decode_and_call` | used by every request |
| Fiber pool (`src/runtime/runtime.rs`, `src/util/fiber.rs`) | a queue of senders of idle fibers, `fiber_handles` | reuse, spawn, terminate and join | runs the closures of `launch` |
| Trustee thread detection (`src/util/fiber.rs`, `thread_id.rs`) | a thread-local flag, a published thread id and pointer | `TrusteeThreadGuard`, local shortcut | decides whether `Remote` bypasses the channel |
| Local trust (`src/trust/local.rs`) | an `UnsafeCell<T>` | direct calls | - |
| Latches (`src/single_thread/latch.rs`, `src/util/latch.rs`) | a flag, or a mutex with a condition variable | lock, unlock, wait, notify | used inside launch closures |
| Wait budget (`src/util/wait.rs`) | a spin counter | spin, then yield | callers waiting for an answer |
| Affinity (`src/util/affinity.rs`) | none | operating-system calls | the worker ignores it |

### How a call travels

A handle and the worker share one `ChannelPair`: a request slot and a response
slot, each starting with a header word.  A request is outstanding while the two
ready bits differ.

1. The client writes its closure and a record header into the request slot,
   loads the response word, and stores a request word with the opposite bit.
2. The worker loads the request word, then - in a second access - the response
   word.  If the bits differ it reads the record, runs the closure and stores
   the request's bit into the response word.
3. For `launch` the worker only hands a job to a fiber.  The fiber stores the
   answering bit later; the worker remembers the pending launch so as not to
   dispatch the record again.
4. The client spins until the response bit is the one it asked for, and reads
   the result out of the response slot.

Everything but the two words is plain memory.  Handles are added by pushing
their channel on a queue which the worker drains every 16th round.  Dropping
the `Runtime` registers one more channel, with a terminate record in it, and
joins the worker.

### What is hard here

- Two one-bit words have to keep three parties apart (client, worker, fiber),
  and the worker's two loads are not atomic.
- An answer by a fiber comes arbitrarily late, with a bit captured earlier.
- A panic ends the worker in one case and is answered in the other.
- `into_inner`, dropping the last handle and dropping the `Runtime` all end the
  worker while others may be in the middle of a call.
- The polling order and the throttled registration decide about liveness.
- Fibers return themselves to the pool after they have answered, while the worker
  hands out jobs and the terminator collects the fibers.
- Workers and fibers are coroutines that may change threads, while the code
  remembers threads: a flag per thread, a thread id per trustee.
- A slot is two blocks, and what does not fit the first moves to the second; a
  request can fail halfway through being written.

### What makes each component correct

| Component | Properties |
|---|---|
| Channels and handles | slots are touched by one party at a time; a caller gets the answer to its own request, after its closure ran as often as asked; no answer is late or doubled |
| Worker | every call returns; a batch is not torn; indices stay in bounds; the operations implement the abstract trust |
| Ownership | the worker lives as long as a handle; dropping comes back; no closure uses a value that has been moved out |
| Fiber pool | a job goes to an idle fiber and to one only; every launch taken is answered; termination comes back and leaves nothing; the value outlives its users and is dropped once |
| Slot layout | an allocation is in one block, at the first place that fits; what is sent arrives whole; a capture that may own something is ended once |
| Trustee thread | calls from inside closures return, unless the chain of calls has reached a worker that ended or closed on itself, or waiters hold every thread; the shortcut is taken by the trustee's own worker only (violated, section 4) |
| Local trust | implements the same abstract trust; a call comes back, with a result or a panic |
| Latches | mutual exclusion, no lost update, no lost wake-up, no early return |

## 2. Modules

| Module | Content |
|---|---|
| `Slots` | the header word: `pack_ready_count`, `ready`, `count` on a word of `WordSize` values |
| `TrustObject` | the abstract specification: what `TrustLike` promises, as an object with invoke, effect, return and unwinding |
| `JobService` | the abstract specification of the fibers: submit, start, finish, answer, close |
| `Delegation` | handles, channels, worker and launch jobs; implements `TrustObject`, and uses its fibers as a `JobService` |
| `FiberPool` | how a launch gets to a fiber, the pool, the terminator, the `Arc` around `T`; implements `JobService` |
| `SlotLayout` | byte ranges in a slot: layout, writer, encoding, the reads of the other side |
| `TrusteeThread` | threads and coroutines, the flag, the published id, the shortcut, refusals, calls from inside closures |
| `LocalTrust` | `Local<T>`; implements `TrustObject` |
| `CellLatch` | `single_thread::Latch` on one thread or several |
| `CondLatch` | `util::latch::Latch` |
| `MCDelegation`, `MCSlotLayout`, `MCTrusteeThread`, `MCCellLatch`, `MCLocalTrust` | values of the constants for TLC; the others are run as they are |
| `DelegationProofs` | inductive invariants of the protocol and their proofs |
| `DelegationRefinement` | how the worker ends, and the proofs that `Delegation` implements `TrustObject` and uses a `JobService` |
| `FiberPoolProofs`, `SlotLayoutProofs`, `TrusteeThreadProofs`, `LocalTrustProofs`, `CellLatchProofs`, `CondLatchProofs` | the same for the other modules |

How they fit together.  `Delegation` has the order of all accesses to a channel
and treats two things as given: what lies in a slot (`SlotLayout` is one call
after the other on one slot, byte by byte) and how a job finds a fiber
(`FiberPool`).  The seam to the pool is `JobService`: in `Delegation` the
variable `job` behaves as the service's interface, and `FiberPool` implements
that interface.  `TrusteeThread` has what the three leave out, which thread the code
is on, and abstracts the handshake to "taken" and "answered".

### Delegation and the code

One action is one atomic access of the code, or one stretch of plain accesses
between two of them.

| Variable | Code |
|---|---|
| `req`, `resp` | the `flags` words of a `ChannelPair` |
| `slot`, `out` | the record in the request slot, the data bytes of the response slot |
| `reg` | the `SegQueue` of registrations |
| `cpc`, `want` | where a caller stands; its local `req_ready` |
| `has_owner` | `_owner.is_some()` |
| `wpc`, `clients`, `start_idx`, `offs`, `loop_counter`, `req_seen`, `left` | the worker's position and locals; `left` counts down the runs of the record being executed |
| `pending_launch`, `launch_req_ready` | the fields of `ClientPair` |
| `prop`, `moved` | the value; whether `into_inner` has moved it out |
| `job`, `job_ready` | the launch job of a channel; the bit in its `CompletionGuard` |
| `owed` | history variable: runs that a call still has coming |

| Actions | Code |
|---|---|
| `apply`, `apply_with`, `with`, `apply_batch_mut`, `launch`, `into_inner` | the methods of `Remote` up to the first atomic access: the record is written |
| `LoadRespWord`, `StoreReqWord`, `SeeAnswer`, `ReadResult` | the rest of each method, which they share; also the stores of `Drop for Runtime` |
| `Clone`, `Entrust`, `DropHandle`, `RefuseIntoInner`, `DropRuntime`, `JoinWorker` | the life of handles and `Runtime` |
| `RoundStart`, `LoadReqWord`, `CheckChannel` | the worker's loop: registration, the two loads, the decision to serve |
| `DispatchCall`, `CallClosure`, `PanicInCall`, `Respond` | records the worker executes itself |
| `DispatchLaunch`, `FiberStart`, `FiberCall`, `FiberPanic`, `FiberSignal` | a launch and its fiber |
| `MoveOut`, `ReturnAfterMove`, `DispatchTerminate`, `JoinFibers` | the two ways in which the worker returns |

`OwnedByHandles` chooses between the two ways of making a trust.  With
`Remote::entrust` the handles share the owning `Runtime`, and dropping the last
of them runs `Drop for Runtime` in the same step.  With `Runtime::spawn` the
caller keeps the `Runtime` and may drop it at any time.

Abstractions, and why they lose nothing the properties speak of:

- A record is its operation and repeat count.  A closure's effect is one
  function `Mutate` on the values; the result of a closure is the value it
  leaves, so a wrong or stale result shows.
- The acquire/release pairs make the plain accesses behave as if the words were
  sequentially consistent for this protocol (each word has one writer at a
  time, which `SlotExclusion` and `AnswersOutstandingOnly` confirm), so the
  model interleaves.
- A request word always carries the count 1 (no operation packs another), so
  the loop over records has one iteration.  The count is still packed and
  unpacked in the word.
- `loop_counter` is kept modulo the drain period.  It wraps at 2^64, which the
  period 16 divides.
- The pool of fibers is abstracted to the state of the jobs (`ImplementsJobs`).
- Handles are called from threads other than the trustee's; `TrusteeThread` has
  the others.
- `ReturnAfterMove` is the load of the request word and the store of the response
  word in one action.  The caller of `into_inner` waits between the two and nobody
  else writes these words, so a step in between would see nothing new.
- Idle spinning and yielding of the worker and of callers have no effect on the
  state and appear as stuttering.

### TrustObject

A call is one invocation, `n` effects and one return.  Effects are atomic, the
runs of a batch are not interleaved with another caller's closure (except with
those of `launch`, which are concurrent by design), the return comes after the
last run and with its result, and nothing runs after `into_inner`.  A closure that
panics, before or after it has changed the value, ends its call with no further
run (`Unwind`).  Only `Local` lets the panic reach the caller.  In `Delegation`
`Unwinding` is empty: the call is `Lost`, and its caller is never answered.
`ImplementsTrust` is `Trust!Spec` under the mapping: a caller is in a call from
the write of its record to the read of its result, `owed` is what is left, and
the call is lost when the worker panicked in it (`PanickedIn`).

### FiberPool and the code

| State, actions | Code (`src/runtime/runtime.rs`) |
|---|---|
| `call`, `Ask` | a caller in `launch`, abstracted to asked, taken, answered |
| `wjob`, `wtx`, `BuildJob`, `PopSender`, `SendJob`, `SpawnFiber` | the dispatch of `PropertyPtr::Launch`: the job is built around a clone of the `Arc`; a sender is popped, and a failed send tries the next; an empty pool spawns |
| `chan`, `fpc`, `fjob`, `Recv`, `EndClosure`, `Signal`, `ReleaseProp`, `ReturnSelf` | the loop of a fiber.  Locals go in reverse order of declaration: first the completion guard answers, then the `Arc` is dropped, and only then the fiber is back in the pool.  Unwinding does the first two and ends the fiber |
| `handles`, `BeginTerminate`, `JoinFiber`, `StoreDone`, `JoinTerminator` | `PropertyPtr::Terminate` |
| `tpc`, `ttx`, `done`, `PopToShutdown`, `SendShutdown`, `LeaveSweep` | the terminator coroutine |
| `refs`, `given`, `drops`, `DropArc`, `MoveOut`, `LeaveWorker` | the strong count of the `Arc`, `ptr::read` of `IntoInner`, the destructor of `T` |

`Fibers` bounds the fibers that are ever spawned; a launch that would need more
is not taken.  The `Err` arm of `rx.recv()` has no action: the closure that
calls `recv` owns a sender of the same channel, so it cannot fail.

### SlotLayout and the code

A slot is the set of byte ranges written in the current call.  Writing a range
destroys the ranges it overlaps; a read is good when it finds its range whole.
`next_boundary_offset`, `alloc_aligned` and `decode_and_call` have the code's
names, and so do the operations, which differ in what they send (`SetUp`, `Encoding`):
`apply` (also for `with`), `apply_with`, `launch`, `apply_batch_mut` and `into_inner`.
`AllocEnv` and `AllocArgs` are the two halves of `encode_closure`, each
with the panic of `alloc_aligned`; then comes `WriteRecord`.

The worker calls the closure of a record `TimesToCall` times: `repeat_count` times for
a unit batch, never for `into_inner`, else once.  Each `Execute` is one of these calls,
with its own `decode_and_call`, that is, its own `ptr::read` of the same capture.
`calls` counts them, and `ends` how often the capture was consumed or dropped.  `owns`
says whether the capture may own something: in the operations that take any `FnOnce`
it may, in a batch it is a function pointer.  `Answer` and `MoveOut` end the worker's
part, `Return` the caller's.  Contents, vtables and bincode are left out: no property
distinguishes them.

### TrusteeThread and the code

`on` says which thread runs a coroutine; `Resume` and `YieldNow` are the scheduler of
`may` (external) and the yield of an idle worker.  `YieldInClosure` is a closure that
sleeps or waits on a primitive of `may` (external); a closure that runs by the shortcut
does not, which is a bound of the model.  `EnterLoop` and `Leave` set and
clear `flag`, the thread-local of `src/util/fiber.rs`, on the thread where they happen, and
`EnterLoop` publishes `trustee_id`.  `CallDirect`, `RefuseWorker`, `RefuseFiber` and
`CallRemote` are the three things the head of an operation can decide:
`TakesShortcut` is the comparison of ids (not in `launch` and `into_inner`),
`IsRefused` the test of the flag (not in `with` and `launch`).  `MayRunOn` chooses the
build.  The runs have `AnyThread`, the normal build, in which every thread of `may`'s
scheduler runs every coroutine.  `OwnThread` is the Miri build, where a coroutine is
a thread; one instance of section 4 uses it.

`Doomed` and `EveryThreadWaits` name the two ways in which a call never returns.  A
caller is doomed if it is in a set of actors each of which has ended, or waits for
servers that are in the set: a chain that ends at a worker that is gone, or a cycle.
And waiting calls, which do not give up their coroutine, may hold all the threads.
`CallsReturn` says that there is no third way, `StuckForGood` that neither is ever left.

### LocalTrust, CellLatch, CondLatch and the code

`LocalTrust` runs a closure inside the call, one step per run; `launch` spawns a
scoped fiber (`SpawnScoped`, `FiberRun`) and joins it; `RunThen` is the continuation
of the `_then` forms.  A panic unwinds to the owner, which may go on, and finds what
the closure had changed by then: nothing is rolled back.

`CellLatch` splits `try_lock` into the read and the write of its `Cell`.
Users on one thread change places only where they yield (`SwitchTo`), never
inside the latch.  A failed `try_lock`, or the panic of `lock`, changes nothing.

`CondLatch` has `Mutex` and `Condvar` of the standard library as the code uses
them (external): waiting releases the mutex and sleeps in one step, a sleeper
may wake up for no reason, a panic with the guard poisons.

## 3. Runs

| Run | Instance | What it shows |
|---|---|---|
| `core` | `MCDelegation`: `Remote::entrust`; `apply`, `apply_with`, `launch`; clone and drop | slots exclusive, each closure run once, answers in time, refinement of trust and of job service, the worker outlives its handles |
| `inner` | `MCDelegation`: `Runtime::spawn`; `apply_batch_mut` with n = 0, 1, 2 that may panic, `into_inner`, the `Runtime` dropped under its handles | a batch runs n times and is not torn; what is answered is answered once and correctly; nothing runs after the move |
| `live` | `MCDelegation`, fair: `with` and `launch` that may panic | every call returns, the drop of the last handle returns |
| `layout` | `MCSlotLayout`: the code's sizes; every operation; captures, arguments and results around every edge, also empty ones | requests arrive whole, in one block, at the first fit; however often the worker calls a closure, a capture that may own something is ended at most once, and exactly once if its request was served |
| `pool` | `FiberPool`, fair: two callers, three fibers, panics, all three ends of the worker | senders in the pool are idle fibers; `T` outlives its users; termination leaves nothing and comes back; launches are answered; refinement of the job service |
| `threads` | `MCTrusteeThread`, fair: two trustees, two fibers and a client on two shared threads; closures call all operations on both trustees, yield and migrate; trustees end by refusals and `into_inner` | calls return unless they are doomed or waiters hold every thread, and both are for good |
| `latch` | `MCCellLatch`: three users of one thread | mutual exclusion, no lost update, the flag tells the truth |
| `cond` | `CondLatch`, fair: two waiters, three setters, one of which may panic | nobody returns early, no wake-up is lost |
| `local` | `MCLocalTrust`, fair: all operations, n up to 3, panics | `Local` implements the trust; every call comes back |
| `exclusive` (violation) | `MCDelegation`: `apply` and `launch` | a `&mut T` and a `&T` at the same time |
| `starve` (violation) | `MCDelegation`, fair: three registered handles | the polling order skips a channel forever |
| `shortcut` (violation) | `MCTrusteeThread`: a trustee and a launch fiber on two shared threads | a fiber passes for the worker and gets a `&mut T` |

Bounds.  In `Delegation` two handles and the channel of `Drop` make three channels: one that is
served, one that interferes, one that is registered late.  The words of a
channel are independent of those of other channels (no action relates two of
them), so a third handle adds nothing but polling order, and for that `starve`
has three: `CallsReturn` is true of `live` and false of three busy handles.
`DrainPeriod` is 1 or 2 instead of 16: with 2 there are rounds with
and without draining, and more rounds without only postpone it.  `DrainChunk` is 1
instead of 256, so that a queue longer than the chunk occurs.  `WordSize` is 8:
the model never packs a count above 1.  `MaxRepeat` is 2 instead of 255, the
first value at which a batch has an inside.  `T` is a counter modulo 2 in `core`,
where results are compared, and a unit in the other runs, where runs are counted
(`owed`); what a panicking closure leaves behind is compared in `local` and by the
theorem `RemoteIsATrust`, for every `T`.  Calls are not bounded: the state space is finite without.
`HandleSymmetry` is used in the runs that check no liveness; handles are
interchangeable (`Init` and `Next` quantify over all of them).

`SlotLayout` has the code's block sizes (128 and 1024), record size and alignment;
the record ends at 48, so that 80 bytes fill the primary block, 1024 the
trailing one, and one more than either does not fit.  Batches have n = 0, 1, 2 and
255, the ends of a `u8` and the first batch with an inside.  Results of 0, 8 and 1149
bytes are nothing, a word and the first size that leaves the slot.  The slot's address
matters to `EnvAligned` only, which is about other instances; the run has one.

`FiberPool` has three fibers: two at work and one spawned because a fiber that
has answered is not yet back in the pool.  With a third caller nothing new can
meet, since the worker handles one launch at a time.  In `TrusteeThread` one client
starts a chain: its closure calls a trustee, whose closure calls again, and so on.
The chain has at most two launches in progress: fibers do not launch in the run, and
a trustee's launch is only taken by a trustee that is not waiting itself.  So two
fibers are enough.  With the workers there are four coroutines for two threads, and
waiters can hold both.  `latch`
bounds the critical sections at 6 (`MaxUpdates`) because `inner` and `updates`
count them.

Deadlock is not checked, because the system may stop: after the last handle and
the `Runtime` are gone, after a worker that ended by a panic or `into_inner` (which
also uses up its handle), or when all waiters and setters are back, there is
nothing left to do.  That nobody waits in such a state is what the liveness
properties say.

Fairness (`FairSpec`).  Weak fairness of each caller inside a call, of the thread
inside `Drop for Runtime`, of the worker and of each launch fiber.  The callers
are OS threads that spin and yield and never park (`WaitBudget`); worker and
fibers are coroutines that are runnable throughout and scheduled by the `may`
workers, which run on OS threads.  A closure is assumed to return or to panic.
Nobody is obliged to start a call, to clone or to drop.  `BusySpec` restricts
the behaviours to those in which all handles are registered before the first
call and none is dropped; it only excludes other explanations for the
starvation.

The other modules: `FiberPool`, weak fairness of worker, terminator and each
fiber, for the same reason.  `TrusteeThread`, strong fairness of being resumed (a
free thread takes the next runnable coroutine, but the same one may be taken by
others in between) and of a closure's return (a closure makes no endless sequence of
calls or yields), weak fairness of a worker's polling while it runs and of the end of a
closure that runs by the shortcut.  `CondLatch`, strong
fairness of each user, since the mutex is free again and again; no fairness of
spurious wake-ups.  `LocalTrust`, weak fairness of the one thread and its fiber.

Every property of a passing run has a mutant: an operator next to the original
that changes it as a plausible bug would (a loop one too long, a forgotten
pending launch, an answer stored too early or twice, a batch run once too often,
a worker that goes on after the move).  TLC finds the property violated when the
mutant takes the original's place.

## 4. Where the code does something else

The three runs:

- `starve`: `start_idx` is assigned inside the loop that computes
  `idx = start_idx + offs`.  With three channels, serving 0 makes the next poll
  go to 2, and serving 2 makes it go to 2 again.  Channel 1 is not polled while
  the two others stay busy, although the loop is described as round robin.
- `exclusive`: nothing defers an `apply` while a launch runs.
- `shortcut`: the caller's thread is compared with the thread on which the worker
  started.  The worker yields, a launch fiber is resumed on that thread, and its call
  takes the shortcut ("We are on the trustee thread!", `remote.rs:72`) to a `&mut T`.

Further instances.  These configurations belong to the same modules and ask
about one more case each.  `tlc -config <cfg> <module>` finds the property
violated, except where the table says that it holds.

| Configuration | Property | What it shows |
|---|---|---|
| `MCDelegation_launch_panic` | `ReadsOwnResult` | the completion guard answers a panicked launch ("ensure we signal completion even if the closure panics", `runtime.rs:340`) and the caller goes on to "Read result" (`remote.rs:512`), which was never written |
| `MCDelegation_inner_launch` | `NoUseAfterMove` | `IntoInner` does not wait for launches: a launch closure goes on with a value that was moved out; the `Arc` of `runtime.rs:121` keeps the memory, not the value |
| `MCDelegation_inner_clone` | `RuntimeOutlivesHandles` | `_owner.is_some()` holds for every clone, so one clone can end the worker of the others ("keep the runtime alive until this handle drops", `remote.rs:20`); their next call spins forever |
| `MCDelegation_terminate` | `ImplementsJobs` (holds) | a Runtime dropped under launches that may panic: the worker closes the job service only when no job is left |
| `FiberPool_double_drop` | `OneOwnerOfT` | `IntoInner` copies `T` out with `ptr::read` (`runtime.rs:276`) and the last `Arc` drops the cell with `T` still in it |
| `FiberPool_fiber_leak` | `FibersExit` | after `into_inner` or a panic nobody tells the fibers to shut down, and "Sender dropped (runtime dropped?), exit." (`runtime.rs:414`) cannot happen, since a fiber owns a sender to itself |
| `MCSlotLayout_capture` | `CaptureConsumedOnce` (holds) | with arguments that fit, every capture is consumed once, sent or not |
| `MCSlotLayout_args_overflow` | `CaptureConsumedOnce` | arguments that do not fit panic after the capture was moved into the slot; it is never dropped (`serialization.rs:138` says it is) |
| `MCSlotLayout_zero_sized` | `CaptureConsumedOnce` | a zero-sized capture is dropped by `encode_closure` and again by the shim that conjures it (`serialization.rs:254`, `:291`) |
| `MCSlotLayout_env_align` | `EnvAligned` | offsets are aligned for a base "aligned to 64" (`slots.rs:54`), but a `ChannelPair` has no such alignment |
| `MCSlotLayout_response_straddle` | `ResponseInOneBlock` | a result of more than 124 bytes lies in both blocks ("each record is fully in primary or fully in trailing", `slots.rs:123`) |
| `MCSlotLayout_response_overflow` | `ResponseInSlot` | a result of more than 1148 bytes leaves the slot; only requests are "bounds-checked" (`serialization.rs:63`) |
| `MCTrusteeThread_flag` | `FlagIsExact` | on shared threads the flag stays with a thread while its worker moves on, so a fiber is taken for "a trustee thread" (`fiber.rs:19`), and a worker is not |
| `MCTrusteeThread_nested_with` | `TrusteesNeverBlock` | `with` does not ask whether it blocks a trustee ("Blocking delegation is prohibited on trustee thread", `remote.rs:87`) |
| `MCTrusteeThread_spinning` | `WaitersGiveWay` | a waiting call never yields its coroutine (`wait.rs:40`); on one thread the trustee it waits for never runs |
| `MCCellLatch_latch_launch` | `MutualExclusion` | the latch is `Send` (`latch.rs:35`) and "intended" for launch (`common.rs:45`), whose fibers run on several threads; read and write of the `Cell` interleave |

## 5. Proofs

TLAPS proves every safety property that a passing run checks, for every value of
the constants that satisfies the named `ASSUME` of the module and, where the
property is not true of all of them, the hypothesis that the theorem states.
Each `...Assumption` says only what the types of the code say (a set of
operations is one of the operations there are, a size is a natural number, two
kinds of actors are disjoint); TLC evaluates them in every run.

| Module | Theorem | States | Under |
|---|---|---|---|
| `DelegationProofs` | `TypeCorrect` | `[]TypeOK`; the worker's index arithmetic stays inside its growing vector | |
| | `SlotsAreExclusive` | `[]SlotExclusion` | |
| | `ClosuresRunExactlyAsAsked` | `[]RunsExactlyAsAsked` | |
| | `AnswersAreTimely` | `AnswersOutstandingOnly` | |
| `DelegationRefinement` | `HandlesKeepRuntimeAlive` | `[]RuntimeOutlivesHandles` | `Remote::entrust`; no `into_inner`; no panic in a closure run by the worker |
| | `WorkerUsesJobs` | `ImplementsJobs` | |
| | `RemoteIsATrust` | `ImplementsTrust` | `TrustworthyOps`: no launch panics, not both `launch` and `into_inner` |
| `FiberPoolProofs` | `PoolTypeCorrect` | `[]TypeOK`; the count of the `Arc` never underflows | |
| | `PoolSendersAreIdle` | `[]SendersAreIdleFibers` | |
| | `PoolCellOutlivesClosures` | `[]CellOutlivesClosures` | |
| | `PoolTerminateLeavesNothing` | `[]TerminateLeavesNothing` | |
| | `PoolImplementsJobs` | `ImplementsJobs` | |
| `SlotLayoutProofs` | `LayoutTypeCorrect` | `[]TypeOK` | |
| | `RequestNeverStraddles` | `[]RequestInOneBlock` | |
| | `RequestIsWhole` | `[]RequestArrivesWhole` | |
| | `LayoutFirstFit` | `AllocatesFirstFit` | |
| | `CaptureHasOneOwner` | `[]OwningCaptureEndedOnce` | |
| `TrusteeThreadProofs` | `ThreadTypeCorrect` | `[]TypeOK` | |
| | `StuckIsForGood` | `StuckForGood` | |
| `CellLatchProofs` | `OneThreadExcludes` | `[]MutualExclusion` | one thread |
| | `OneThreadLockedMeansHeld` | `[]LockedMeansHeld` | one thread |
| `CondLatchProofs` | `WaitReturnsWhenMet` | `[]ReturnsWhenMet` | |
| `LocalTrustProofs` | `LocalIsATrust` | `ImplementsTrust` | |

No hypothesis is there for the prover.  For each one section 4 has an instance
without it in which TLC finds the property violated: `MCDelegation_inner_clone`,
`_launch_panic` and `_inner_launch`, `MCCellLatch_latch_launch`.  (Two are plain to see: a
`Runtime` made by `Runtime::spawn` is dropped under its handles by `DropRuntime`, and
`PanicInCall` ends the worker under all of them.)  The passing run of the property
satisfies it.  Properties that hold only if the code is never used in the way a
comment or a type allows (aligned captures, results that fit, a thread per coroutine)
are not stated as theorems; section 4 shows where they fail.

### The protocol (`DelegationProofs`)

`SlotExclusion` speaks of control positions, the code of bits, so
it is not inductive.  The invariant says what the bits mean:

- `BitsInv`: the bits differ only while the client waits; the client moves the
  request word away from the response word, and nobody else moves it.
- `JobInv`: a job belongs to the outstanding request of its channel, carries the
  bit of that request, and the worker remembers it.
- `PollInv`: the worker's first load is current, or it is a request that has
  been answered by the time of the second load.  This is what makes the
  non-atomic pair of loads harmless: while a request is outstanding the client
  cannot publish another one, and a stale word equals the response bit.  (The
  comparison with `launch_req_ready` is there for liveness: without it a request
  that follows an answered launch is taken for the launch and skipped forever,
  which is the mutant of `CallsReturn`.)
- `ServeInv`: what is served is outstanding and no fiber has it.
- `OwnerInv`: the channel of `Drop` is never answered, and with shared ownership
  it is used only when all handles are gone.

Together they are `ProtocolInv`, inductive relative to `TypeInv`.  `AccountInv` adds how
many runs are owed at each stage of a call, and `AnswersAreTimely` follows from
the three.  `PackInverse` and `PackOne` are the facts about the header word:
unpacking and packing is the identity on words, so `Respond` stores exactly the
request word.

### What the protocol implements (`DelegationRefinement`)

`WorkInv` adds what the worker is doing and how it ends: by the terminate record,
which is in the owner's channel only and written once; by `into_inner`; or by a
panic in a closure of its own.  With shared ownership and neither of the last
two, the first is left, and `OwnerInv` says that then all handles are gone.

For `JobService` the mapping's `closed` looks at the record of the channel that was
polled last.  `ClosedStep` shows that nobody rewrites that record after the worker
returned, so `JoinFibers` is the only step that closes the service and it stays closed.

For `TrustObject`, `NoOtherMidBatch` is the heart: while the worker serves one
channel, every other call has all its runs owed, or none, or the single run of a
launch, so a batch is never torn.  `TrustEffect` then makes each run - of the
worker, of a fiber, of `into_inner` - one `Effect`.  A panic of the worker is an `Unwind`:
`LostInv` says that the caller whose closure panicked waits for a run it will not get,
and `PanickedForGood` that this stays so, so the mapping's "lost" never ends.  `TrustworthyOps` is needed in two
places: a launch that panicked returns with its run owed, and a fiber's run
after `into_inner` would be an effect on a value that was taken.

### The fiber pool (`FiberPoolProofs`)

`PoolInv` says where everything is.  `HandsOK`: what worker and terminator hold goes
with where they stand.  `ChannelsOK`: a channel has at most one message, and only
while its fiber waits.  `SendersAreIdleFibers` is then inductive: a fiber puts its own
sender back when its channel is empty and nobody else has that sender.  It
follows that no send fails (`SendJobDelivers`).  `PlacesOK` and `LaunchedOK`: a launch is in the
worker's hands, in one channel or in one fiber, and somewhere if and only if it
has not been answered; that is the refinement mapping (`JobOfPlace`).  `HandlesOK`: the
worker has the join handle of every living fiber, so that after the joins all
are gone.  `ArcsOK`: the strong count is the number of holders (fibers with a job,
the worker, the job it is building), as a cardinality, and `T` is dropped
once, at zero.

### Layout (`SlotLayoutProofs`)

The proofs rest on a small theory of rounding: `RoundUpIsLeast` (rounding up gives the
least multiple that is not below) and `OffsetIsFirstFit` (`next_boundary_offset` gives the
first aligned place that does not cross the boundary).  `PlaceInv` says that the
record's place is kept free while captures and arguments are written above it,
and that all that is written lies below the cursor, so no write of a call destroys
an earlier one; the reader finds every range whole.  `OwnedInv` counts the ends of a
capture along the call: none while it is in the slot and not yet called, one after
the only call that its record asks for.  A record that asks for other numbers of calls
is a batch, and a batch does not own.

### The others

`TrusteeThreadProofs`: `ThreadInv` relates control states to requests (only a served
caller is answered, a direct use is by the shortcut).  `WaitStep`: a waiter whose servers
have all ended, wait themselves or are not running stays a waiter with the same servers,
so the set that dooms it dooms it after the step too.  `WaiterHoldsThread`: a waiting coroutine stays
on its thread; with `OneAtATime`, no thread that waiters hold gets another coroutine.
`CellLatchProofs`: on one thread
whoever is between the test and the setting of the `Cell` is the one that runs
(`NoYieldInside`), so the two are one step.  `CondLatchProofs`: the mutex makes the value
that `wait` tested the value at its return, and sleepers are inside `wait`.
`LocalTrustProofs`: the runs left are `n - i`, and every panic is an `Unwind`, whatever
it leaves of the value.

### Model-checked only

The liveness properties (`CallsReturn` of three modules, `DropReturns`, `TerminateReturns`,
`LaunchesAnswered`, `WaitersComeBack`): they need fairness and `ENABLED`,
which this prover does not handle.  The violations of sections 3 and 4 are
counterexamples and need no proof.

## 6. Not modelled

- `apply_then` and `launch_then` of `Remote`: the call of `apply` or `launch`, followed by a
  continuation in the caller that touches no shared state.  (`LocalTrust` has the
  continuation, since it runs on the same cell.)
- Contents of requests: vtables, bincode, the bytes of arguments and results.
- `WaitBudget`: its counters are local to one wait and have no effect but time;
  what the models keep of it is that a wait neither parks nor gives up its
  coroutine.  `acquire_lock_with_budget` is not used by the crate.
- Weak memory: see the argument for interleaving in section 2.  The relaxed
  publication of the trustee's pointer is read only after its id matched, on
  the thread that wrote it.
- `util/affinity.rs`: operating-system calls; the worker ignores `PinConfig`.
- Benches and examples: clients of the library.

## 7. Plan

1. Done: all components but the ones in section 6; a theorem for every safety
   property of the passing runs, and for the refinements.
2. Still worth proving: what remains true without the hypotheses of section 5,
   such as which promises of a trust survive a launch that panics or an
   `into_inner` beside launches; further action properties of `Delegation` and
   `FiberPool` (a handle that is gone stays gone, `T` once dropped is not used).
