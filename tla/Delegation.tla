----------------------------- MODULE Delegation ------------------------------
(***************************************************************************)
(* Remote delegation: Remote<T> handles (src/trust/remote.rs) submit       *)
(* operations to the trustee worker of a Runtime<T>                        *)
(* (src/runtime/runtime.rs) through one ChannelPair per handle             *)
(* (src/runtime/slots.rs).                                                 *)
(*                                                                         *)
(* A handle writes a request record into the request slot and flips the    *)
(* ready bit of the request word away from that of the response word.  The *)
(* worker polls the channels, serves a channel whose two bits differ, and  *)
(* makes them equal again.  A launch is answered later, by a fiber.  The   *)
(* bits are atomics with acquire/release order; everything else in a slot  *)
(* is plain memory that only the bits protect.                             *)
(*                                                                         *)
(* One action is one atomic access, or one stretch of plain accesses       *)
(* between two of them.  How jobs travel to pooled fibers is abstracted to *)
(* the state of the job; handles are used from threads other than the      *)
(* trustee's, so the local shortcut is not taken.  A local variable of the *)
(* code that goes out of scope gets its initial value back.                *)
(***************************************************************************)
EXTENDS Slots, Sequences, FiniteSets

CONSTANTS
  Handles,        (* Remote handles, each with its ChannelPair             *)
  Owner,          (* the temporary channel of Drop for Runtime             *)
  OwnedByHandles, (* TRUE: Remote::entrust, the handles share the owning   *)
                  (* Runtime.  FALSE: Runtime::spawn, the caller holds it. *)
  Ops,            (* the operations the handles use in this instance       *)
  Panicking,      (* the operations whose closure may panic                *)
  MaxRepeat,      (* largest n of apply_batch_mut; u8::MAX in the code     *)
  Values, InitValue, NoValue, Mutate,    (* T: see TrustObject             *)
  DrainPeriod,    (* registrations are polled every so many rounds; 16     *)
  DrainChunk      (* and at most so many are taken at once; 256            *)

OpKinds ==
  {"apply", "apply_with", "with", "apply_batch_mut", "into_inner", "launch"}

ASSUME ConstantsAssumption ==
  /\ Owner \notin Handles
  /\ Handles # {}
  /\ OwnedByHandles \in BOOLEAN
  /\ Ops \subseteq OpKinds
  /\ Panicking \subseteq OpKinds
  /\ MaxRepeat \in Nat
  /\ InitValue \in Values
  /\ Mutate \in [Values -> Values]
  /\ DrainPeriod \in Nat \ {0}
  /\ DrainChunk \in Nat \ {0}

Channels == Handles \cup {Owner}

VARIABLES
  (* The channels: header words, request record, response data.            *)
  req, resp, slot, out,
  (* The registration queue.                                               *)
  reg,
  (* The client side: control state, the local req_ready, Remote::_owner.  *)
  cpc, want, has_owner,
  (* The worker: control state, its ClientPair vector, loop indices, the   *)
  (* request word it loaded, runs left of the record being served.         *)
  wpc, clients, start_idx, offs, loop_counter, req_seen, left,
  pending_launch, launch_req_ready,
  (* The property T, and whether into_inner has moved it out.              *)
  prop, moved,
  (* The launch job of each channel, and the req_ready it captured.        *)
  job, job_ready,
  (* History: runs of the closure that a channel's call still has coming.  *)
  owed

chanVars   == <<req, resp, slot, out>>
clientVars == <<cpc, want, has_owner>>
loopVars   == <<clients, start_idx, offs, loop_counter, req_seen, left>>
launchVars == <<pending_launch, launch_req_ready>>
propVars   == <<prop, moved>>
jobVars    == <<job, job_ready>>

vars == <<chanVars, reg, clientVars, wpc, loopVars, launchVars, propVars,
          jobVars, owed>>

-----------------------------------------------------------------------------
(* Request records.                                                        *)

(* The PropertyPtr each operation puts in its record.                      *)
PropertyPtr(op) ==
  CASE op \in {"apply", "with"}  -> "CallMutOutPtr"
    [] op = "apply_with"         -> "CallMutArgsOutPtr"
    [] op = "apply_batch_mut"    -> "CallMutRetUnit"
    [] op = "into_inner"         -> "IntoInner"
    [] op = "launch"             -> "Launch"
    [] op = "terminate"          -> "Terminate"
    [] OTHER                     -> "Uninit"

(* The repeat counts a record of op can have.                              *)
Repeats(op) == IF op = "apply_batch_mut" THEN 0 .. MaxRepeat ELSE {1}

Record(op, n) == [op |-> op, repeat_count |-> n]

Records == [op : OpKinds \cup {"terminate", "none"}, repeat_count : Nat]

(* Only apply, apply_with and apply_batch_mut hand the closure a &mut T.   *)
Mutating == {"apply", "apply_with", "apply_batch_mut"}

Outcome(op, v) == IF op \in Mutating THEN Mutate[v] ELSE v

-----------------------------------------------------------------------------
(* spawn_with_pin: the first handle's channel is registered; both words of *)
(* a ChannelPair are zero, and its data bytes hold no record and no result.*)

Init ==
  /\ req = [c \in Channels |-> 0]
  /\ resp = [c \in Channels |-> 0]
  /\ slot = [c \in Channels |-> Record("none", 0)]
  /\ out = [c \in Channels |-> NoValue]
  /\ \E h \in Handles :
       /\ reg = <<h>>
       /\ cpc = [c \in Channels |-> IF c = h THEN "idle" ELSE "absent"]
  /\ want = [c \in Channels |-> FALSE]
  /\ has_owner = [c \in Channels |-> TRUE]
  /\ wpc = "top"
  /\ clients = <<>>
  /\ start_idx = 0
  /\ offs = 0
  /\ loop_counter = 0
  /\ req_seen = 0
  /\ left = 0
  /\ pending_launch = [c \in Channels |-> FALSE]
  /\ launch_req_ready = [c \in Channels |-> FALSE]
  /\ prop = InitValue
  /\ moved = FALSE
  /\ job = [c \in Channels |-> "none"]
  /\ job_ready = [c \in Channels |-> FALSE]
  /\ owed = [c \in Channels |-> 0]

-----------------------------------------------------------------------------
(* The life of a handle.                                                   *)

(* Remote::clone: a fresh channel is registered; _owner is shared.         *)
Clone(h, d) ==
  /\ cpc[h] = "idle"
  /\ cpc[d] = "absent"
  /\ reg' = Append(reg, d)
  /\ cpc' = [cpc EXCEPT ![d] = "idle"]
  /\ has_owner' = [has_owner EXCEPT ![d] = has_owner[h]]
  /\ UNCHANGED <<chanVars, want, wpc, loopVars, launchVars, propVars, jobVars, owed>>

(* Runtime::entrust: the same, from the Runtime, with _owner = None.       *)
Entrust(d) ==
  /\ ~OwnedByHandles
  /\ cpc[Owner] = "absent"
  /\ cpc[d] = "absent"
  /\ reg' = Append(reg, d)
  /\ cpc' = [cpc EXCEPT ![d] = "idle"]
  /\ has_owner' = [has_owner EXCEPT ![d] = FALSE]
  /\ UNCHANGED <<chanVars, want, wpc, loopVars, launchVars, propVars, jobVars, owed>>

(* Drop for the Runtime that has the worker, up to its first atomic access:*)
(* a temporary channel is registered and holds a terminate record.         *)
ReleaseRuntime ==
  /\ reg' = Append(reg, Owner)
  /\ slot' = [slot EXCEPT ![Owner] = Record("terminate", 0)]

(* Mutant: a clone does not share the ownership of the Runtime.            *)
LastOwner_NotShared(h) == OwnedByHandles

(* h has the last of the Arcs that keep the owning Runtime alive.          *)
LastOwner(h) ==
  /\ OwnedByHandles
  /\ \A d \in Handles \ {h} : cpc[d] \in {"absent", "gone"}

(* The handle h is dropped, and with the last one its Runtime.             *)
Release(h) ==
  /\ cpc' = [c \in Channels |->
               IF c = h THEN "gone"
               ELSE IF c = Owner /\ LastOwner(h) THEN "write" ELSE cpc[c]]
  /\ IF LastOwner(h) THEN ReleaseRuntime ELSE UNCHANGED <<reg, slot>>

DropHandle(h) ==
  /\ cpc[h] = "idle"
  /\ Release(h)
  /\ UNCHANGED <<req, resp, out, want, has_owner, wpc, loopVars, launchVars,
                 propVars, jobVars, owed>>

(* The caller of Runtime::spawn drops its Runtime, whatever the handles do.*)
DropRuntime ==
  /\ ~OwnedByHandles
  /\ cpc[Owner] = "absent"
  /\ ReleaseRuntime
  /\ cpc' = [cpc EXCEPT ![Owner] = "write"]
  /\ UNCHANGED <<req, resp, out, want, has_owner, wpc, loopVars, launchVars,
                 propVars, jobVars, owed>>

-----------------------------------------------------------------------------
(* One call on a handle.                                                   *)

(* An operation of TrustLike writes its closure and a header into the      *)
(* request slot.                                                           *)
StartCall(h, op, n) ==
  /\ op \in Ops
  /\ cpc[h] = "idle"
  /\ slot' = [slot EXCEPT ![h] = Record(op, n)]
  /\ owed' = [owed EXCEPT ![h] = n]
  /\ cpc' = [cpc EXCEPT ![h] = "write"]
  /\ UNCHANGED <<req, resp, out, reg, want, has_owner, wpc, loopVars, launchVars,
                 propVars, jobVars>>

apply(h) == StartCall(h, "apply", 1)

apply_with(h) == StartCall(h, "apply_with", 1)

with(h) == StartCall(h, "with", 1)

(* The u8 n overwrites the repeat_count of 1 that encode_closure sets.     *)
apply_batch_mut(h, n) == StartCall(h, "apply_batch_mut", n)

launch(h) == StartCall(h, "launch", 1)

into_inner(h) == has_owner[h] /\ StartCall(h, "into_inner", 1)

(* into_inner panics, and drops the handle, when there is no _owner.       *)
RefuseIntoInner(h) ==
  /\ "into_inner" \in Ops
  /\ cpc[h] = "idle"
  /\ ~has_owner[h]
  /\ Release(h)
  /\ UNCHANGED <<req, resp, out, want, has_owner, wpc, loopVars, launchVars,
                 propVars, jobVars, owed>>

(* req_ready is the opposite of the response's ready bit.                  *)
LoadRespWord(c) ==
  /\ cpc[c] = "write"
  /\ want' = [want EXCEPT ![c] = ~ready(resp[c])]
  /\ cpc' = [cpc EXCEPT ![c] = "signal"]
  /\ UNCHANGED <<chanVars, reg, has_owner, wpc, loopVars, launchVars, propVars,
                 jobVars, owed>>

(* The store that publishes the request.  A handle then waits for the      *)
(* answer, Drop for Runtime for the end of the worker.                     *)
StoreReqWord(c) ==
  /\ cpc[c] = "signal"
  /\ req' = [req EXCEPT ![c] = pack_ready_count(want[c], 1)]
  /\ cpc' = [cpc EXCEPT ![c] = IF c = Owner THEN "join" ELSE "wait"]
  /\ UNCHANGED <<resp, slot, out, reg, want, has_owner, wpc, loopVars, launchVars,
                 propVars, jobVars, owed>>

(* The wait loop leaves when the response's ready bit equals req_ready.    *)
SeeAnswer(h) ==
  /\ cpc[h] = "wait"
  /\ ready(resp[h]) = want[h]
  /\ cpc' = [cpc EXCEPT ![h] = "read"]
  /\ UNCHANGED <<chanVars, reg, want, has_owner, wpc, loopVars, launchVars,
                 propVars, jobVars, owed>>

(* The result is read out of the response slot and the call returns;       *)
(* into_inner consumes the handle.                                         *)
ReadResult(h) ==
  /\ cpc[h] = "read"
  /\ IF slot[h].op = "into_inner"
       THEN Release(h)
       ELSE /\ cpc' = [cpc EXCEPT ![h] = "idle"]
            /\ UNCHANGED <<reg, slot>>
  /\ want' = [want EXCEPT ![h] = FALSE]
  /\ UNCHANGED <<req, resp, out, has_owner, wpc, loopVars, launchVars,
                 propVars, jobVars, owed>>

(* Drop for Runtime ends with the join of the worker.                      *)
WorkerEnded == wpc \in {"returned", "panicked"}

JoinWorker ==
  /\ cpc[Owner] = "join"
  /\ WorkerEnded
  /\ cpc' = [cpc EXCEPT ![Owner] = "gone"]
  /\ UNCHANGED <<chanVars, reg, want, has_owner, wpc, loopVars, launchVars,
                 propVars, jobVars, owed>>

-----------------------------------------------------------------------------
(* The worker's polling loop.                                              *)

Idx ==
  IF start_idx + offs >= Len(clients)
    THEN start_idx + offs - Len(clients) ELSE start_idx + offs

(* The channel being polled or served.                                     *)
Cur == clients[Idx + 1]

(* Mutant: the queue is polled only while there is no client.              *)
Drained_WhenEmpty(counter) ==
  IF clients # <<>> THEN 0
  ELSE IF Len(reg) <= DrainChunk THEN Len(reg) ELSE DrainChunk

(* How many registrations this round takes from the queue.                 *)
Drained(counter) ==
  IF clients = <<>> \/ counter = 0
    THEN IF Len(reg) <= DrainChunk THEN Len(reg) ELSE DrainChunk
    ELSE 0

(* A round starts: the queue is drained every DrainPeriod rounds, and      *)
(* always while there is no client.  loop_counter wraps at 2^64, which is  *)
(* a multiple of the period, so only its remainder is kept.                *)
RoundStart ==
  /\ wpc = "top"
  /\ loop_counter' = (loop_counter + 1) % DrainPeriod
  /\ LET k == Drained(loop_counter') IN
       /\ clients' = clients \o SubSeq(reg, 1, k)
       /\ reg' = SubSeq(reg, k + 1, Len(reg))
  /\ wpc' = IF clients' = <<>> THEN "top" ELSE "load_req"
  /\ UNCHANGED <<chanVars, clientVars, start_idx, offs, req_seen, left, launchVars,
                 propVars, jobVars, owed>>

LoadReqWord ==
  /\ wpc = "load_req"
  /\ req_seen' = req[Cur]
  /\ wpc' = "load_resp"
  /\ UNCHANGED <<chanVars, reg, clientVars, clients, start_idx, offs, loop_counter,
                 left, launchVars, propVars, jobVars, owed>>

(* Mutant: the loop runs over 0..=n.                                       *)
NextOffs_Inclusive ==
  IF offs < Len(clients)
    THEN offs' = offs + 1 /\ wpc' = "load_req"
    ELSE offs' = 0 /\ wpc' = "top"

(* The next iteration of the loop over offs, or the end of the round.      *)
NextOffs ==
  IF offs + 1 < Len(clients)
    THEN offs' = offs + 1 /\ wpc' = "load_req"
    ELSE offs' = 0 /\ wpc' = "top"

(* Mutants: the pending launch is not remembered; the request bit is not   *)
(* compared with the one the launch was made with.                         *)
LaunchInProgress_Forgotten(c) == FALSE

LaunchInProgress_AnyRequest(c) ==
  /\ pending_launch[c]
  /\ ready(req_seen) # ready(resp[c])

(* The launch on c has not been answered as far as the loaded words tell.  *)
LaunchInProgress(c) ==
  /\ pending_launch[c]
  /\ ready(req_seen) # ready(resp[c])
  /\ ready(req_seen) = launch_req_ready[c]

(* The second load, and the decision whether to serve the channel.         *)
CheckChannel ==
  /\ wpc = "load_resp"
  /\ pending_launch' = [pending_launch EXCEPT ![Cur] = LaunchInProgress(Cur)]
  /\ IF ready(req_seen) = ready(resp[Cur]) \/ LaunchInProgress(Cur)
       THEN /\ NextOffs
            /\ req_seen' = 0
       ELSE /\ wpc' = "dispatch"
            /\ UNCHANGED <<offs, req_seen>>
  /\ UNCHANGED <<chanVars, reg, clientVars, clients, start_idx, loop_counter, left,
                 launch_req_ready, propVars, jobVars, owed>>

(* The end of a served channel's iteration.  start_idx moves on at once,   *)
(* while the loop over offs goes on.                                       *)
Served ==
  /\ start_idx' = (Idx + 1) % Len(clients)
  /\ NextOffs
  /\ req_seen' = 0
  /\ UNCHANGED <<clients, loop_counter, left>>

(* Mutant: a unit batch runs 0..=n times.                                  *)
DispatchCall_Inclusive ==
  /\ wpc = "dispatch"
  /\ PropertyPtr(slot[Cur].op) \in {"CallMutRetUnit", "CallMutOutPtr", "CallMutArgsOutPtr"}
  /\ left' = IF PropertyPtr(slot[Cur].op) = "CallMutRetUnit"
              THEN slot[Cur].repeat_count + 1 ELSE 1
  /\ wpc' = "call"
  /\ UNCHANGED <<chanVars, reg, clientVars, clients, start_idx, offs, loop_counter,
                 req_seen, launchVars, propVars, jobVars, owed>>

(* A record executed by the worker itself: enter the closure.              *)
DispatchCall ==
  /\ wpc = "dispatch"
  /\ PropertyPtr(slot[Cur].op) \in {"CallMutRetUnit", "CallMutOutPtr", "CallMutArgsOutPtr"}
  /\ left' = IF PropertyPtr(slot[Cur].op) = "CallMutRetUnit"
              THEN slot[Cur].repeat_count ELSE 1
  /\ wpc' = IF left' = 0 THEN "respond" ELSE "call"
  /\ UNCHANGED <<chanVars, reg, clientVars, clients, start_idx, offs, loop_counter,
                 req_seen, launchVars, propVars, jobVars, owed>>

(* Mutant: the result is computed before the mutation.                     *)
CallClosure_OldResult ==
  /\ wpc = "call"
  /\ prop' = Outcome(slot[Cur].op, prop)
  /\ out' = [out EXCEPT ![Cur] = prop]
  /\ owed' = [owed EXCEPT ![Cur] = @ - 1]
  /\ left' = left - 1
  /\ wpc' = IF left' = 0 THEN "respond" ELSE "call"
  /\ UNCHANGED <<req, resp, slot, reg, clientVars, clients, start_idx, offs,
                 loop_counter, req_seen, launchVars, moved, jobVars>>

(* One run of the closure.  A unit batch leaves the response data alone.   *)
CallClosure ==
  /\ wpc = "call"
  /\ prop' = Outcome(slot[Cur].op, prop)
  /\ out' = IF PropertyPtr(slot[Cur].op) = "CallMutRetUnit" THEN out
              ELSE [out EXCEPT ![Cur] = Outcome(slot[Cur].op, prop)]
  /\ owed' = [owed EXCEPT ![Cur] = @ - 1]
  /\ left' = left - 1
  /\ wpc' = IF left' = 0 THEN "respond" ELSE "call"
  /\ UNCHANGED <<req, resp, slot, reg, clientVars, clients, start_idx, offs,
                 loop_counter, req_seen, launchVars, moved, jobVars>>

(* Mutant: a completion guard like that of a launch answers on unwinding.  *)
PanicInCall_Answers ==
  /\ wpc = "call"
  /\ slot[Cur].op \in Panicking
  /\ resp' = [resp EXCEPT ![Cur] = pack_ready_count(ready(req_seen), 1)]
  /\ wpc' = "panicked"
  /\ UNCHANGED <<req, slot, out, reg, clientVars, loopVars, launchVars, propVars,
                 jobVars, owed>>

(* A panic in the closure, before or after it has changed T, unwinds and   *)
(* ends the worker.                                                        *)
PanicInCall ==
  /\ wpc = "call"
  /\ slot[Cur].op \in Panicking
  /\ prop' \in {prop, Outcome(slot[Cur].op, prop)}
  /\ wpc' = "panicked"
  /\ UNCHANGED <<chanVars, reg, clientVars, loopVars, launchVars, moved,
                 jobVars, owed>>

(* The response word takes over the ready bit of the request word loaded,  *)
(* and the number of records processed, which is that word's count.        *)
Respond ==
  /\ wpc = "respond"
  /\ resp' = [resp EXCEPT ![Cur] = pack_ready_count(ready(req_seen), count(req_seen))]
  /\ Served
  /\ UNCHANGED <<req, slot, out, reg, clientVars, launchVars, propVars, jobVars, owed>>

(* Mutant: the response of a launch is not deferred.                       *)
DispatchLaunch_NotDeferred ==
  /\ wpc = "dispatch"
  /\ PropertyPtr(slot[Cur].op) = "Launch"
  /\ pending_launch' = [pending_launch EXCEPT ![Cur] = TRUE]
  /\ launch_req_ready' = [launch_req_ready EXCEPT ![Cur] = ready(req_seen)]
  /\ job' = [job EXCEPT ![Cur] = "queued"]
  /\ job_ready' = [job_ready EXCEPT ![Cur] = ready(req_seen)]
  /\ resp' = [resp EXCEPT ![Cur] = pack_ready_count(ready(req_seen), 1)]
  /\ Served
  /\ UNCHANGED <<req, slot, out, reg, clientVars, propVars, owed>>

(* Launch: a job with the header and req_ready goes to a fiber; the        *)
(* response is deferred.                                                   *)
DispatchLaunch ==
  /\ wpc = "dispatch"
  /\ PropertyPtr(slot[Cur].op) = "Launch"
  /\ pending_launch' = [pending_launch EXCEPT ![Cur] = TRUE]
  /\ launch_req_ready' = [launch_req_ready EXCEPT ![Cur] = ready(req_seen)]
  /\ job' = [job EXCEPT ![Cur] = "queued"]
  /\ job_ready' = [job_ready EXCEPT ![Cur] = ready(req_seen)]
  /\ Served
  /\ UNCHANGED <<chanVars, reg, clientVars, propVars, owed>>

(* Mutant: the answer is stored before T has been moved out.               *)
MoveOut_AnswersFirst ==
  /\ wpc = "dispatch"
  /\ PropertyPtr(slot[Cur].op) = "IntoInner"
  /\ resp' = [resp EXCEPT ![Cur] = pack_ready_count(ready(req[Cur]), 1)]
  /\ out' = [out EXCEPT ![Cur] = prop]
  /\ moved' = TRUE
  /\ owed' = [owed EXCEPT ![Cur] = @ - 1]
  /\ wpc' = "moved"
  /\ UNCHANGED <<req, slot, reg, clientVars, loopVars, launchVars, prop, jobVars>>

(* IntoInner: T is read out into the response slot ...                     *)
MoveOut ==
  /\ wpc = "dispatch"
  /\ PropertyPtr(slot[Cur].op) = "IntoInner"
  /\ out' = [out EXCEPT ![Cur] = prop]
  /\ moved' = TRUE
  /\ owed' = [owed EXCEPT ![Cur] = @ - 1]
  /\ wpc' = "moved"
  /\ UNCHANGED <<req, resp, slot, reg, clientVars, loopVars, launchVars, prop, jobVars>>

(* Mutant: the worker goes on after it has given T away.                   *)
ReturnAfterMove_GoesOn ==
  /\ wpc = "moved"
  /\ resp' = [resp EXCEPT ![Cur] = pack_ready_count(ready(req[Cur]), 1)]
  /\ Served
  /\ UNCHANGED <<req, slot, out, reg, clientVars, launchVars, propVars, jobVars, owed>>

(* ... and the worker answers with the request word's current bit and ends.*)
(* That load and the store are one action: the client, which waits, is the *)
(* only one that would write the request word between them.                *)
ReturnAfterMove ==
  /\ wpc = "moved"
  /\ resp' = [resp EXCEPT ![Cur] = pack_ready_count(ready(req[Cur]), 1)]
  /\ wpc' = "returned"
  /\ UNCHANGED <<req, slot, out, reg, clientVars, loopVars, launchVars, propVars,
                 jobVars, owed>>

(* Terminate: no answer; the worker joins its fibers and ends.             *)
DispatchTerminate ==
  /\ wpc = "dispatch"
  /\ PropertyPtr(slot[Cur].op) = "Terminate"
  /\ wpc' = "join"
  /\ UNCHANGED <<chanVars, reg, clientVars, loopVars, launchVars, propVars,
                 jobVars, owed>>

JoinFibers ==
  /\ wpc = "join"
  /\ \A c \in Channels : job[c] = "none"
  /\ wpc' = "returned"
  /\ UNCHANGED <<chanVars, reg, clientVars, loopVars, launchVars, propVars,
                 jobVars, owed>>

-----------------------------------------------------------------------------
(* A launch job on its fiber.                                              *)

FiberStart(c) ==
  /\ job[c] = "queued"
  /\ job' = [job EXCEPT ![c] = "running"]
  /\ UNCHANGED <<chanVars, reg, clientVars, wpc, loopVars, launchVars, propVars,
                 job_ready, owed>>

(* The closure gets &T and its result is written into the response slot.   *)
FiberCall(c) ==
  /\ job[c] = "running"
  /\ out' = [out EXCEPT ![c] = Outcome(slot[c].op, prop)]
  /\ owed' = [owed EXCEPT ![c] = @ - 1]
  /\ job' = [job EXCEPT ![c] = "done"]
  /\ UNCHANGED <<req, resp, slot, reg, clientVars, wpc, loopVars, launchVars,
                 propVars, job_ready>>

(* The closure panics before it has written a result.                      *)
FiberPanic(c) ==
  /\ job[c] = "running"
  /\ slot[c].op \in Panicking
  /\ job' = [job EXCEPT ![c] = "done"]
  /\ UNCHANGED <<chanVars, reg, clientVars, wpc, loopVars, launchVars, propVars,
                 job_ready, owed>>

(* Mutant: the guard signals a second time, when the fiber is reused.      *)
FiberSignal_Again(c) ==
  /\ job[c] = "done"
  /\ resp' = [resp EXCEPT ![c] = pack_ready_count(job_ready[c], 1)]
  /\ UNCHANGED <<req, slot, out, reg, clientVars, wpc, loopVars, launchVars,
                 propVars, jobVars, owed>>

(* CompletionGuard::drop, on return and on unwinding alike.                *)
FiberSignal(c) ==
  /\ job[c] = "done"
  /\ resp' = [resp EXCEPT ![c] = pack_ready_count(job_ready[c], 1)]
  /\ job' = [job EXCEPT ![c] = "none"]
  /\ job_ready' = [job_ready EXCEPT ![c] = FALSE]
  /\ UNCHANGED <<req, slot, out, reg, clientVars, wpc, loopVars, launchVars,
                 propVars, owed>>

-----------------------------------------------------------------------------
(* The system.                                                             *)

Lifecycle ==
  \/ \E h, d \in Handles : Clone(h, d)
  \/ \E d \in Handles : Entrust(d)
  \/ \E h \in Handles : DropHandle(h) \/ RefuseIntoInner(h)
  \/ DropRuntime

Call(h) ==
  \/ apply(h) \/ apply_with(h) \/ with(h) \/ launch(h) \/ into_inner(h)
  \/ \E n \in 0 .. MaxRepeat : apply_batch_mut(h, n)

(* What a thread inside a call does, and one inside Drop for Runtime.      *)
CallStep(h) ==
  LoadRespWord(h) \/ StoreReqWord(h) \/ SeeAnswer(h) \/ ReadResult(h)

DropStep == LoadRespWord(Owner) \/ StoreReqWord(Owner) \/ JoinWorker

Worker ==
  \/ RoundStart \/ LoadReqWord \/ CheckChannel
  \/ DispatchCall \/ CallClosure \/ PanicInCall \/ Respond
  \/ DispatchLaunch \/ MoveOut \/ ReturnAfterMove
  \/ DispatchTerminate \/ JoinFibers

Fiber(c) == FiberStart(c) \/ FiberCall(c) \/ FiberPanic(c) \/ FiberSignal(c)

Next ==
  \/ Lifecycle
  \/ \E h \in Handles : Call(h) \/ CallStep(h) \/ Fiber(h)
  \/ DropStep
  \/ Worker

Spec == Init /\ [][Next]_vars

(* Threads inside a call, the worker coroutine and the launch fibers keep  *)
(* running; nobody is obliged to start a call or to drop a handle.         *)
Fairness ==
  /\ \A h \in Handles : WF_vars(CallStep(h)) /\ WF_vars(Fiber(h))
  /\ WF_vars(DropStep)
  /\ WF_vars(Worker)

FairSpec == Spec /\ Fairness

-----------------------------------------------------------------------------
(* Properties.                                                             *)

ChannelType ==
  /\ req \in [Channels -> Word]
  /\ resp \in [Channels -> Word]
  /\ slot \in [Channels -> Records]
  /\ out \in [Channels -> Values \cup {NoValue}]
  /\ reg \in Seq(Channels)

ClientType ==
  /\ cpc \in [Channels -> {"absent", "idle", "write", "signal", "wait", "read",
                           "join", "gone"}]
  /\ want \in [Channels -> BOOLEAN]
  /\ has_owner \in [Channels -> BOOLEAN]

LoopType ==
  /\ wpc \in {"top", "load_req", "load_resp", "dispatch", "call", "respond",
              "moved", "join", "returned", "panicked"}
  /\ clients \in Seq(Channels)
  /\ start_idx \in 0 .. (IF clients = <<>> THEN 0 ELSE Len(clients) - 1)
  /\ offs \in Nat
  /\ IF wpc = "top" THEN offs = 0 ELSE offs < Len(clients)
  /\ loop_counter \in 0 .. (DrainPeriod - 1)
  /\ req_seen \in Word
  /\ left \in Nat

LaunchType ==
  /\ pending_launch \in [Channels -> BOOLEAN]
  /\ launch_req_ready \in [Channels -> BOOLEAN]
  /\ job \in [Channels -> {"none", "queued", "running", "done"}]
  /\ job_ready \in [Channels -> BOOLEAN]

PropType ==
  /\ prop \in Values
  /\ moved \in BOOLEAN
  /\ owed \in [Channels -> Int]

(* Every variable stays in its type; in particular the worker's indices    *)
(* stay inside its client vector, which grows between two rounds only.     *)
TypeOK == ChannelType /\ ClientType /\ LoopType /\ LaunchType /\ PropType

InCall(h) == cpc[h] \in {"write", "signal", "wait", "read"}

WorkerServes(c) == wpc \in {"dispatch", "call", "respond", "moved"} /\ Cur = c

(* No data race on the plain memory of a channel: the worker or a fiber    *)
(* touches the slots of c only while c's caller waits in its spin loop,    *)
(* and never both of them.  (The ready bits are all that keeps ptr::read   *)
(* of the closure and write_unaligned of the result apart from the         *)
(* caller's accesses.)                                                     *)
SlotExclusion ==
  \A c \in Channels :
    /\ WorkerServes(c) => cpc[c] \in {"wait", "join"} /\ job[c] = "none"
    /\ job[c] # "none" => cpc[c] = "wait"

LaunchPanicked(c) == slot[c].op = "launch" /\ "launch" \in Panicking

(* A caller that leaves its wait loop finds its closure run exactly as     *)
(* often as asked, and no closure ever runs once too often - although      *)
(* worker and fiber only see two bits, and the worker's two loads are not  *)
(* atomic.  Only a panicking launch is answered without a run.             *)
RunsExactlyAsAsked ==
  \A h \in Handles :
    /\ owed[h] >= 0
    /\ cpc[h] = "read" => owed[h] = 0 \/ LaunchPanicked(h)

(* "Read result" (remote.rs): what a caller of an operation with a result  *)
(* reads out of the response slot was written by its own closure.          *)
ReadsOwnResult == \A h \in Handles : cpc[h] = "read" => owed[h] = 0

(* A step that changes the response word of c answers c's request.         *)
Answers(c) ==
  resp'[c] # resp[c] =>
    /\ cpc[c] = "wait"
    /\ ready(resp[c]) # want[c]
    /\ ready(resp'[c]) = want[c]
    /\ owed[c] = 0 \/ LaunchPanicked(c)

(* A response bit changes only to answer the request its caller is waiting *)
(* on, after the closure has run; a late store never answers a request     *)
(* that came after it.                                                     *)
AnswersOutstandingOnly == [][\A c \in Channels : Answers(c)]_vars

(* "keep the runtime alive until this handle drops" (remote.rs): while a   *)
(* handle exists, other than one that is inside into_inner, the worker has *)
(* not ended.                                                              *)
RuntimeOutlivesHandles ==
  WorkerEnded =>
    \A h \in Handles :
      cpc[h] \in {"absent", "gone"} \/ (InCall(h) /\ slot[h].op = "into_inner")

(* "apply requires exclusive access" (remote.rs): while the worker runs a  *)
(* closure that holds &mut T no fiber runs one that holds &T.              *)
ApplyIsExclusive ==
  wpc = "call" /\ slot[Cur].op \in Mutating => \A c \in Channels : job[c] # "running"

(* No closure has a reference to T after into_inner has moved T out.       *)
NoUseAfterMove == moved => \A c \in Channels : job[c] # "running"

(* The worker has panicked in the closure of h.                            *)
PanickedIn(h) == wpc = "panicked" /\ h = Cur

(* The operations of the handles are those of a trust: every run of a      *)
(* closure is one atomic effect on the value, between call and return; a   *)
(* caller whose closure panics on the worker is never answered.            *)
Trust == INSTANCE TrustObject WITH
  Unwinding <- {},
  val <- prop,
  taken <- moved,
  call <- [h \in Handles |->
             IF ~InCall(h) THEN [op |-> "none", total |-> 0, left |-> 0]
             ELSE IF PanickedIn(h) THEN [op |-> "lost", total |-> 0, left |-> 0]
             ELSE [op |-> slot[h].op, total |-> slot[h].repeat_count, left |-> owed[h]]],
  res <- [h \in Handles |-> out[h]]

ImplementsTrust == Trust!Spec

Jobs == INSTANCE JobService WITH
  Callers <- Channels,
  closed <- (wpc = "returned" /\ slot[Cur].op = "terminate")

(* The worker uses its fibers as a job service (FiberPool is one): one job *)
(* per channel at a time, and none left when it has terminated.            *)
ImplementsJobs == Jobs!Spec

(* Every call returns: no request is lost, skipped or starved, whatever    *)
(* the other handles keep doing.                                           *)
CallsReturn == \A h \in Handles : InCall(h) ~> ~InCall(h)

(* Dropping the Runtime comes back: the terminate request is found in a    *)
(* channel registered late, and the worker ends after its fibers.          *)
DropReturns == cpc[Owner] = "write" ~> cpc[Owner] = "gone"

=============================================================================
