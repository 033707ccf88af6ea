-------------------------- MODULE DelegationProofs ---------------------------
(* Machine-checked proofs about Delegation.                                 *)
EXTENDS Delegation, SequenceTheorems, TLAPS

-----------------------------------------------------------------------------
(* The header word.                                                         *)

(* A number below the modulus is its own remainder.                         *)
LEMMA ModSmall ==
  ASSUME NEW x \in Nat, NEW n \in Nat, x < n
  PROVE  x % n = x
  BY SMT

(* Packing what was unpacked gives the word back.                           *)
LEMMA PackInverse ==
  ASSUME NEW w \in Word
  PROVE  pack_ready_count(ready(w), count(w)) = w
<1>1. w \in Nat /\ w < WordSize
  BY WordSizeAssumption DEF Word
<1>2. 2 * (w \div 2) \in Nat /\ 2 * (w \div 2) < WordSize
  BY <1>1, WordSizeAssumption
<1>3. (2 * (w \div 2)) % WordSize = 2 * (w \div 2)
  BY <1>2, ModSmall, WordSizeAssumption
<1>4. w = 2 * (w \div 2) + (IF w % 2 # 0 THEN 1 ELSE 0)
  BY <1>1
<1> QED
  BY <1>3, <1>4 DEF pack_ready_count, ready, count

(* What a client stores: the bit it chose, and one record.                  *)
LEMMA PackOne ==
  ASSUME NEW b \in BOOLEAN
  PROVE  /\ pack_ready_count(b, 1) \in Word
         /\ ready(pack_ready_count(b, 1)) = b
         /\ count(pack_ready_count(b, 1)) = 1
<1>1. 2 % WordSize = 2
  BY ModSmall, WordSizeAssumption
<1>2. pack_ready_count(TRUE, 1) = 3 /\ pack_ready_count(FALSE, 1) = 2
  BY <1>1 DEF pack_ready_count
<1>3. 2 \in Word /\ 3 \in Word
  BY WordSizeAssumption DEF Word
<1>4. ready(3) = TRUE /\ ready(2) = FALSE /\ count(3) = 1 /\ count(2) = 1
  BY DEF ready, count
<1>5. CASE b = TRUE
  BY <1>2, <1>3, <1>4, <1>5
<1>6. CASE b = FALSE
  BY <1>2, <1>3, <1>4, <1>6
<1> QED
  BY <1>5, <1>6

(* The ready bit is a Boolean, whatever the word.                           *)
LEMMA ReadyIsBoolean ==
  ASSUME NEW w
  PROVE  ready(w) \in BOOLEAN
  BY DEF ready

-----------------------------------------------------------------------------
(* Type correctness.                                                        *)

(* TypeOK and the reason why the runs left never become negative.           *)
TypeInv == TypeOK /\ (wpc = "call" => left > 0)

(* The conditional subtraction that replaces the modulo yields an index of  *)
(* the client vector, and so does the next start_idx.                       *)
LEMMA CurInChannels ==
  ASSUME TypeOK, wpc # "top"
  PROVE  /\ Len(clients) \in Nat \ {0}
         /\ Idx \in 0 .. (Len(clients) - 1)
         /\ Cur \in Channels
         /\ (Idx + 1) % Len(clients) \in 0 .. (Len(clients) - 1)
         /\ clients # <<>>
<1>1. /\ Len(clients) \in Nat
      /\ offs \in Nat
      /\ offs < Len(clients)
      /\ clients \in Seq(Channels)
  BY LenProperties DEF TypeOK, LoopType
<1>2. clients # <<>>
  BY <1>1, EmptySeq
<1>3. start_idx \in 0 .. (Len(clients) - 1)
  BY <1>2 DEF TypeOK, LoopType
<1>4. Idx \in 0 .. (Len(clients) - 1)
  BY <1>1, <1>3 DEF Idx
<1>5. Cur \in Channels
  BY <1>1, <1>4, ElementOfSeq DEF Cur
<1>6. (Idx + 1) % Len(clients) \in 0 .. (Len(clients) - 1)
  BY <1>1, <1>4
<1> QED
  BY <1>1, <1>2, <1>4, <1>5, <1>6

(* A freshly spawned runtime has its types.                                 *)
LEMMA TypeInit ==
  Init => TypeInv
<1> SUFFICES ASSUME Init PROVE TypeInv
  OBVIOUS
<1>1. 0 \in Word
  BY WordSizeAssumption DEF Word
<1>2. PICK h \in Handles :
        /\ reg = <<h>>
        /\ cpc = [c \in Channels |-> IF c = h THEN "idle" ELSE "absent"]
  BY DEF Init
<1>3. reg \in Seq(Channels) /\ clients \in Seq(Channels)
  BY <1>2 DEF Init, Channels
<1>4. slot \in [Channels -> Records]
  BY DEF Init, Record, Records
<1>5. /\ start_idx \in 0 .. (IF clients = <<>> THEN 0 ELSE Len(clients) - 1)
      /\ loop_counter \in 0 .. (DrainPeriod - 1)
      /\ offs \in Nat
      /\ IF wpc = "top" THEN offs = 0 ELSE offs < Len(clients)
      /\ left \in Nat
  BY ConstantsAssumption DEF Init
<1>6. /\ cpc \in [Channels -> {"absent", "idle", "write", "signal", "wait", "read",
                              "join", "gone"}]
      /\ prop \in Values
      /\ wpc = "top"
  BY <1>2, ConstantsAssumption DEF Init
<1>7. /\ want \in [Channels -> BOOLEAN]
      /\ has_owner \in [Channels -> BOOLEAN]
      /\ pending_launch \in [Channels -> BOOLEAN]
      /\ launch_req_ready \in [Channels -> BOOLEAN]
      /\ job_ready \in [Channels -> BOOLEAN]
      /\ moved \in BOOLEAN
  BY DEF Init
<1>8. /\ req \in [Channels -> Word]
      /\ resp \in [Channels -> Word]
      /\ out \in [Channels -> Values \cup {NoValue}]
      /\ job \in [Channels -> {"none", "queued", "running", "done"}]
      /\ owed \in [Channels -> Int]
      /\ req_seen \in Word
  BY <1>1 DEF Init
<1> QED
  BY <1>3, <1>4, <1>5, <1>6, <1>7, <1>8
  DEF TypeInv, TypeOK, ChannelType, ClientType, LoopType, LaunchType, PropType

(* Every operation of a handle starts by writing one record, with a repeat  *)
(* count that the operation allows.                                         *)
LEMMA CallStarts ==
  ASSUME NEW h \in Handles, Call(h)
  PROVE  \E op \in Ops : \E n \in Repeats(op) : StartCall(h, op, n)
<1>1. CASE \E n \in 0 .. MaxRepeat : apply_batch_mut(h, n)
  BY <1>1 DEF apply_batch_mut, StartCall, Repeats
<1>2. CASE apply(h) \/ apply_with(h) \/ with(h) \/ launch(h) \/ into_inner(h)
  <2>1. PICK op \in OpKinds \ {"apply_batch_mut"} : StartCall(h, op, 1)
    BY <1>2 DEF apply, apply_with, with, launch, into_inner, OpKinds
  <2>2. op \in Ops /\ 1 \in Repeats(op)
    BY <2>1 DEF StartCall, Repeats
  <2> QED
    BY <2>1, <2>2
<1> QED
  BY <1>1, <1>2 DEF Call

(* What a closure leaves behind is a T again.                               *)
LEMMA OutcomeType ==
  ASSUME NEW op, NEW v \in Values
  PROVE  Outcome(op, v) \in Values
  BY ConstantsAssumption DEF Outcome

(* Dropping a handle, and perhaps the Runtime, keeps the types.             *)
LEMMA ReleaseType ==
  ASSUME ChannelType, ClientType, NEW h \in Handles, Release(h)
  PROVE  /\ cpc' \in [Channels -> {"absent", "idle", "write", "signal", "wait", "read",
                                   "join", "gone"}]
         /\ reg' \in Seq(Channels)
         /\ slot' \in [Channels -> Records]
<1>1. Record("terminate", 0) \in Records /\ Owner \in Channels
  BY DEF Record, Records, Channels
<1>2. /\ reg' \in Seq(Channels)
      /\ slot' \in [Channels -> Records]
  <2>1. CASE LastOwner(h)
    <3>1. /\ reg' = Append(reg, Owner)
          /\ slot' = [slot EXCEPT ![Owner] = Record("terminate", 0)]
      BY <2>1 DEF Release, ReleaseRuntime
    <3>2. reg' \in Seq(Channels)
      BY <1>1, <3>1, AppendProperties DEF ChannelType
    <3> QED
      BY <1>1, <3>1, <3>2 DEF ChannelType
  <2>2. CASE ~LastOwner(h)
    BY <2>2 DEF Release, ChannelType
  <2> QED
    BY <2>1, <2>2
<1>3. cpc' \in [Channels -> {"absent", "idle", "write", "signal", "wait", "read",
                            "join", "gone"}]
  BY DEF Release, ClientType
<1> QED
  BY <1>2, <1>3

(* The end of a served channel's iteration keeps the loop variables in      *)
(* their types.                                                             *)
LEMMA ServedType ==
  ASSUME TypeOK, wpc # "top", Served
  PROVE  LoopType' /\ wpc' \in {"top", "load_req"}
<1>1. /\ start_idx' \in 0 .. (Len(clients) - 1)
      /\ clients # <<>>
  BY CurInChannels DEF Served
<1>2. 0 \in Word
  BY WordSizeAssumption DEF Word
<1> QED
  BY <1>1, <1>2, LenProperties DEF Served, NextOffs, TypeOK, LoopType

(* Every step keeps the types.                                              *)
LEMMA TypeStep ==
  TypeInv /\ [Next]_vars => TypeInv'
<1> SUFFICES ASSUME TypeInv, [Next]_vars PROVE TypeInv'
  OBVIOUS
<1> USE DEF TypeInv, TypeOK, ChannelType, ClientType, LoopType, LaunchType, PropType,
            chanVars, clientVars, loopVars, launchVars, propVars, jobVars
<1>1. ASSUME NEW h \in Handles, NEW d \in Handles, Clone(h, d) PROVE TypeInv'
  BY <1>1 DEF Clone, Channels
<1>2. ASSUME NEW d \in Handles, Entrust(d) PROVE TypeInv'
  BY <1>2 DEF Entrust, Channels
<1>3. ASSUME NEW h \in Handles, DropHandle(h) PROVE TypeInv'
  <2>1. Release(h) => /\ cpc' \in [Channels -> {"absent", "idle", "write", "signal",
                                            "wait", "read", "join", "gone"}]
                      /\ reg' \in Seq(Channels)
                      /\ slot' \in [Channels -> Records]
    BY ReleaseType
  <2> QED
    BY <1>3, <2>1 DEF DropHandle, Channels
<1>4. ASSUME NEW h \in Handles, RefuseIntoInner(h) PROVE TypeInv'
  <2>1. Release(h) => /\ cpc' \in [Channels -> {"absent", "idle", "write", "signal",
                                            "wait", "read", "join", "gone"}]
                      /\ reg' \in Seq(Channels)
                      /\ slot' \in [Channels -> Records]
    BY ReleaseType
  <2> QED
    BY <1>4, <2>1 DEF RefuseIntoInner, Channels
<1>5. ASSUME DropRuntime PROVE TypeInv'
  BY <1>5 DEF DropRuntime, ReleaseRuntime, Record, Records, Channels
<1>6. ASSUME NEW h \in Handles, NEW op \in Ops, NEW n \in Repeats(op), StartCall(h, op, n)
      PROVE TypeInv'
  <2>1. Record(op, n) \in Records /\ n \in Int
    BY ConstantsAssumption DEF Record, Records, Repeats
  <2> QED
    BY <1>6, <2>1 DEF StartCall, Channels
<1>7. ASSUME NEW c \in Channels, LoadRespWord(c) PROVE TypeInv'
  BY <1>7, ReadyIsBoolean DEF LoadRespWord
<1>8. ASSUME NEW c \in Channels, StoreReqWord(c) PROVE TypeInv'
  BY <1>8, PackOne DEF StoreReqWord
<1>9. ASSUME NEW h \in Handles, SeeAnswer(h) PROVE TypeInv'
  BY <1>9 DEF SeeAnswer, Channels
<1>10. ASSUME NEW h \in Handles, ReadResult(h) PROVE TypeInv'
  <2>1. Release(h) => /\ cpc' \in [Channels -> {"absent", "idle", "write", "signal",
                                            "wait", "read", "join", "gone"}]
                      /\ reg' \in Seq(Channels)
                      /\ slot' \in [Channels -> Records]
    BY ReleaseType
  <2> QED
    BY <1>10, <2>1 DEF ReadResult, Channels
<1>11. ASSUME JoinWorker PROVE TypeInv'
  BY <1>11 DEF JoinWorker, Channels
<1>12. ASSUME RoundStart PROVE TypeInv'
  <2>1. LoopType' /\ reg' \in Seq(Channels)
    <3> DEFINE k == Drained(loop_counter')
               taken == SubSeq(reg, 1, k)
    <3>1. k \in 0 .. Len(reg)
      BY <1>12, LenProperties, ConstantsAssumption DEF RoundStart, Drained
    <3>2. taken \in Seq(Channels) /\ SubSeq(reg, k + 1, Len(reg)) \in Seq(Channels)
      BY <3>1, LenProperties, ElementOfSeq, SubSeqProperties
    <3>3. /\ clients' = clients \o taken
          /\ reg' = SubSeq(reg, k + 1, Len(reg))
          /\ loop_counter' = (loop_counter + 1) % DrainPeriod
      BY <1>12 DEF RoundStart
    <3> HIDE DEF k, taken
    <3>4. /\ clients' \in Seq(Channels)
          /\ Len(clients') >= Len(clients)
          /\ Len(clients') \in Nat
      <4>1. clients \in Seq(Channels)
        OBVIOUS
      <4>2. /\ clients' \in Seq(Channels)
            /\ Len(clients') = Len(clients) + Len(taken)
        BY <3>2, <3>3, <4>1, ConcatProperties
      <4>3. Len(clients) \in Nat /\ Len(taken) \in Nat
        BY <3>2, <4>1, LenProperties
      <4> QED
        BY <4>2, <4>3
    <3>5. start_idx' \in 0 .. (IF clients' = <<>> THEN 0 ELSE Len(clients') - 1)
      <4>1. start_idx' = start_idx
        BY <1>12 DEF RoundStart
      <4>2. clients # <<>> => Len(clients) \in Nat \ {0}
        BY LenProperties, EmptySeq
      <4>3. clients' = <<>> => Len(clients') = 0
        OBVIOUS
      <4>4. clients' # <<>> => Len(clients') # 0
        BY <3>4
      <4>5. CASE clients = <<>>
        BY <4>1, <4>4, <4>5, <3>4
      <4>6. CASE clients # <<>>
        BY <4>1, <4>2, <4>3, <4>6, <3>4
      <4> QED
        BY <4>5, <4>6
    <3>6. loop_counter' \in 0 .. (DrainPeriod - 1)
      BY <3>3, ConstantsAssumption
    <3>7. /\ offs' = 0
          /\ wpc' \in {"top", "load_req"}
          /\ wpc' # "top" => Len(clients') > 0
      BY <1>12, <3>4, EmptySeq DEF RoundStart
    <3> QED
      BY <1>12, <3>2, <3>3, <3>4, <3>5, <3>6, <3>7 DEF RoundStart
  <2> QED
    BY <1>12, <2>1 DEF RoundStart
<1>13. ASSUME LoadReqWord PROVE TypeInv'
  BY <1>13, CurInChannels DEF LoadReqWord
<1>14. ASSUME CheckChannel PROVE TypeInv'
  <2>1. Cur \in Channels
    BY <1>14, CurInChannels DEF CheckChannel
  <2>2. LaunchInProgress(Cur) \in BOOLEAN
    BY DEF LaunchInProgress
  <2>3. pending_launch' \in [Channels -> BOOLEAN]
    BY <1>14, <2>1, <2>2 DEF CheckChannel
  <2>4. LoopType' /\ wpc' # "call"
    <3>1. /\ 0 \in Word
          /\ Len(clients) \in Nat
          /\ UNCHANGED <<clients, start_idx, loop_counter, left>>
      BY <1>14, LenProperties, WordSizeAssumption DEF CheckChannel, Word
    <3>2. \/ NextOffs /\ req_seen' = 0
          \/ wpc' = "dispatch" /\ offs' = offs /\ req_seen' = req_seen
      BY <1>14 DEF CheckChannel
    <3>3. CASE NextOffs /\ req_seen' = 0
      BY <3>1, <3>3 DEF NextOffs
    <3>4. CASE wpc' = "dispatch" /\ offs' = offs /\ req_seen' = req_seen
      BY <1>14, <3>1, <3>4 DEF CheckChannel
    <3> QED
      BY <3>2, <3>3, <3>4
  <2>5. UNCHANGED <<chanVars, reg, clientVars, launch_req_ready, propVars, jobVars, owed>>
    BY <1>14 DEF CheckChannel
  <2> QED
    BY <2>3, <2>4, <2>5
<1>15. ASSUME DispatchCall PROVE TypeInv'
  <2>1. Cur \in Channels
    BY <1>15, CurInChannels DEF DispatchCall
  <2>2. left' \in Nat
    BY <1>15, <2>1 DEF DispatchCall, Records
  <2> QED
    BY <1>15, <2>2 DEF DispatchCall
<1>16. ASSUME CallClosure PROVE TypeInv'
  <2>1. Cur \in Channels
    BY <1>16, CurInChannels DEF CallClosure
  <2>2. Outcome(slot[Cur].op, prop) \in Values
    BY OutcomeType
  <2>3. ChannelType' /\ PropType'
    BY <1>16, <2>1, <2>2 DEF CallClosure
  <2> QED
    BY <1>16, <2>3 DEF CallClosure
<1>17. ASSUME PanicInCall PROVE TypeInv'
  <2>1. prop' \in Values
    BY <1>17, OutcomeType DEF PanicInCall
  <2> QED
    BY <1>17, <2>1 DEF PanicInCall
<1>18. ASSUME Respond PROVE TypeInv'
  <2>1. Cur \in Channels
    BY <1>18, CurInChannels DEF Respond
  <2>2. LoopType' /\ wpc' # "call"
    BY <1>18, ServedType DEF Respond
  <2>3. resp' \in [Channels -> Word]
    BY <1>18, <2>1, PackInverse DEF Respond
  <2> QED
    BY <1>18, <2>2, <2>3 DEF Respond
<1>19. ASSUME DispatchLaunch PROVE TypeInv'
  <2>1. Cur \in Channels
    BY <1>19, CurInChannels DEF DispatchLaunch
  <2>2. LoopType' /\ wpc' # "call"
    BY <1>19, ServedType DEF DispatchLaunch
  <2>3. LaunchType'
    BY <1>19, <2>1, ReadyIsBoolean DEF DispatchLaunch
  <2> QED
    BY <1>19, <2>2, <2>3 DEF DispatchLaunch
<1>20. ASSUME MoveOut PROVE TypeInv'
  <2>1. Cur \in Channels
    BY <1>20, CurInChannels DEF MoveOut
  <2>2. ChannelType' /\ PropType'
    BY <1>20, <2>1 DEF MoveOut
  <2> QED
    BY <1>20, <2>2 DEF MoveOut
<1>21. ASSUME ReturnAfterMove PROVE TypeInv'
  BY <1>21, CurInChannels, PackOne, ReadyIsBoolean DEF ReturnAfterMove
<1>22. ASSUME DispatchTerminate PROVE TypeInv'
  BY <1>22 DEF DispatchTerminate
<1>23. ASSUME JoinFibers PROVE TypeInv'
  BY <1>23 DEF JoinFibers
<1>24. ASSUME NEW h \in Handles, FiberStart(h) PROVE TypeInv'
  BY <1>24 DEF FiberStart, Channels
<1>25. ASSUME NEW h \in Handles, FiberCall(h) PROVE TypeInv'
  BY <1>25, OutcomeType DEF FiberCall, Channels
<1>26. ASSUME NEW h \in Handles, FiberPanic(h) PROVE TypeInv'
  BY <1>26 DEF FiberPanic, Channels
<1>27. ASSUME NEW h \in Handles, FiberSignal(h) PROVE TypeInv'
  BY <1>27, PackOne DEF FiberSignal, Channels
<1>28. CASE UNCHANGED vars
  BY <1>28 DEF vars
<1> QED
  BY <1>1, <1>2, <1>3, <1>4, <1>5, <1>6, <1>7, <1>8, <1>9, <1>10, <1>11, <1>12, <1>13,
     <1>14, <1>15, <1>16, <1>17, <1>18, <1>19, <1>20, <1>21, <1>22, <1>23, <1>24,
     <1>25, <1>26, <1>27, <1>28, CallStarts
  DEF Next, Lifecycle, CallStep, DropStep, Worker, Fiber, Channels

(* The worker's indices, the header words and everything else stay in their *)
(* types, for any number of handles, any drain period and chunk, any T.     *)
THEOREM TypeCorrect ==
  Spec => []TypeOK
<1>1. TypeInv => TypeOK
  BY DEF TypeInv
<1> QED
  BY TypeInit, TypeStep, <1>1, PTL DEF Spec

-----------------------------------------------------------------------------
(* The inductive invariant: what the two ready bits say about a channel.    *)

(* A request has been published and not been answered.                      *)
Outstanding(c) == ready(req[c]) # ready(resp[c])

(* A channel has a request in it only while its client waits.  The client   *)
(* is the only one to move req, and it moves req away from resp.            *)
BitsInv(c) ==
  /\ \/ cpc[c] \in {"absent", "idle", "write", "signal", "read"}
     \/ cpc[c] = "gone" /\ c # Owner
     => ~Outstanding(c) /\ job[c] = "none"
  /\ cpc[c] = "signal" => want[c] = ~ready(resp[c])
  /\ cpc[c] \in {"wait", "join"} => req[c] = pack_ready_count(want[c], 1)

(* The temporary channel of Drop for Runtime is never answered.             *)
OwnerInv ==
  /\ cpc[Owner] \notin {"idle", "wait", "read"}
  /\ \A h \in Handles : cpc[h] # "join"
  /\ cpc[Owner] = "gone" => WorkerEnded
  /\ OwnedByHandles /\ cpc[Owner] # "absent" =>
       \A h \in Handles : cpc[h] \in {"absent", "gone"}
  /\ slot[Owner].op \in {"none", "terminate"}

(* The request word the worker has loaded is current, or it is one that has *)
(* been answered.                                                           *)
PollInv ==
  wpc = "load_resp" =>
    \/ req_seen = req[Cur]
    \/ ready(resp[Cur]) = ready(req_seen) /\ job[Cur] = "none"

(* The worker serves only outstanding requests that no fiber has.           *)
ServeInv ==
  /\ wpc \in {"dispatch", "call", "respond", "moved"} =>
       /\ cpc[Cur] \in {"wait", "join"}
       /\ req_seen = req[Cur]
       /\ Outstanding(Cur)
       /\ job[Cur] = "none"
  /\ wpc \in {"call", "respond", "moved"} => cpc[Cur] = "wait"

(* A job belongs to the outstanding request of its channel, and the worker  *)
(* remembers it.                                                            *)
JobInv(c) ==
  job[c] # "none" =>
    /\ cpc[c] = "wait"
    /\ Outstanding(c)
    /\ pending_launch[c]
    /\ launch_req_ready[c] = ready(req[c])
    /\ job_ready[c] = ready(req[c])
    /\ slot[c].op = "launch"

ProtocolInv ==
  /\ \A c \in Channels : BitsInv(c) /\ JobInv(c)
  /\ OwnerInv
  /\ PollInv
  /\ ServeInv

(* How many runs are still owed, at each stage of a call.                   *)
Untouched(h) ==
  /\ cpc[h] = "wait"
  /\ Outstanding(h)
  /\ job[h] = "none"
  /\ ~WorkerEnded
  /\ ~(wpc \in {"call", "respond", "moved"} /\ Cur = h)

RunInv(h) ==
  /\ owed[h] >= 0
  /\ InCall(h) => /\ slot[h].op \in OpKinds
                  /\ slot[h].repeat_count \in Repeats(slot[h].op)
  /\ cpc[h] \in {"write", "signal"} => owed[h] = slot[h].repeat_count
  /\ Untouched(h) => owed[h] = slot[h].repeat_count
  /\ wpc = "call" /\ Cur = h => owed[h] = left
  /\ wpc \in {"respond", "moved"} /\ Cur = h => owed[h] = 0
  /\ job[h] \in {"queued", "running"} => owed[h] = 1
  /\ job[h] = "done" => owed[h] = 0 \/ LaunchPanicked(h)
  /\ (cpc[h] = "wait" /\ ~Outstanding(h)) \/ cpc[h] = "read"
       => owed[h] = 0 \/ LaunchPanicked(h)

AccountInv == \A h \in Handles : RunInv(h)

(* The channel being served is fixed by the vector and the two indices.     *)
LEMMA CurStable ==
  ASSUME UNCHANGED <<clients, start_idx, offs>>
  PROVE  Cur' = Cur
  BY DEF Cur, Idx

(* The records that the worker answers are not those of the Owner channel.  *)
LEMMA PropertyPtrOf ==
  ASSUME NEW op
  PROVE  /\ PropertyPtr(op) = "Launch" <=> op = "launch"
         /\ PropertyPtr(op) = "IntoInner" <=> op = "into_inner"
         /\ PropertyPtr(op) = "CallMutRetUnit" <=> op = "apply_batch_mut"
         /\ op \in {"none", "terminate"} => PropertyPtr(op) \in {"Uninit", "Terminate"}
  BY DEF PropertyPtr

(* No request, no job and no answer in a freshly spawned runtime.           *)
LEMMA ProtocolInit ==
  Init => ProtocolInv
<1> SUFFICES ASSUME Init PROVE ProtocolInv
  OBVIOUS
<1>1. PICK h \in Handles : cpc = [c \in Channels |-> IF c = h THEN "idle" ELSE "absent"]
  BY DEF Init
<1>2. \A c \in Channels : BitsInv(c) /\ JobInv(c)
  BY <1>1 DEF Init, BitsInv, JobInv, Outstanding
<1>3. OwnerInv
  BY <1>1, ConstantsAssumption DEF Init, OwnerInv, Record, Channels
<1>4. PollInv /\ ServeInv
  BY DEF Init, PollInv, ServeInv
<1> QED
  BY <1>2, <1>3, <1>4 DEF ProtocolInv

(* Dropping a handle, and with the last one the Runtime.                    *)
LEMMA ReleaseProtocol ==
  ASSUME TypeOK, ProtocolInv, NEW h \in Handles, cpc[h] \in {"idle", "read"}, Release(h),
         UNCHANGED <<req, resp, wpc, loopVars, launchVars, jobVars>>,
         \A c \in Channels \ {h} : want'[c] = want[c]
  PROVE  ProtocolInv'
<1> USE DEF loopVars, launchVars, jobVars
<1>1. /\ h \in Channels /\ h # Owner
      /\ cpc'[h] = "gone"
      /\ \A c \in Channels \ {h, Owner} : cpc'[c] = cpc[c]
      /\ cpc'[Owner] = IF LastOwner(h) THEN "write" ELSE cpc[Owner]
      /\ LastOwner(h) => cpc[Owner] = "absent" /\ OwnedByHandles
  BY ConstantsAssumption DEF Release, Channels, LastOwner, ProtocolInv, OwnerInv
<1>2. \A c \in Channels \ {Owner} : slot'[c] = slot[c]
  BY DEF Release, ReleaseRuntime, TypeOK, ChannelType
<1>3. slot'[Owner].op \in {"none", "terminate"}
  <2>1. CASE LastOwner(h)
    BY <2>1 DEF Release, ReleaseRuntime, Record, Channels, TypeOK, ChannelType
  <2>2. CASE ~LastOwner(h)
    BY <2>2 DEF Release, ProtocolInv, OwnerInv
  <2> QED
    BY <2>1, <2>2
<1>4. ASSUME NEW c \in Channels PROVE BitsInv(c)' /\ JobInv(c)'
  BY <1>1, <1>2 DEF ProtocolInv, BitsInv, JobInv, OwnerInv, Outstanding
<1>5. OwnerInv'
  BY <1>1, <1>3, ConstantsAssumption
  DEF ProtocolInv, OwnerInv, LastOwner, WorkerEnded, Channels
<1>6. wpc # "top" => Cur' = Cur /\ Cur \in Channels
  BY CurStable, CurInChannels
<1>7. PollInv'
  BY <1>6 DEF ProtocolInv, PollInv
<1>8. ServeInv'
  BY <1>1, <1>6 DEF ProtocolInv, ServeInv, Outstanding
<1> QED
  BY <1>4, <1>5, <1>7, <1>8 DEF ProtocolInv

(* Every step keeps the protocol invariant.                                 *)
LEMMA ProtocolStep ==
  TypeInv /\ ProtocolInv /\ [Next]_vars => ProtocolInv'
<1> SUFFICES ASSUME TypeInv, ProtocolInv, [Next]_vars PROVE ProtocolInv'
  OBVIOUS
<1> USE DEF chanVars, clientVars, loopVars, launchVars, propVars, jobVars
<1>t. TypeOK
  BY DEF TypeInv
<1>b. \A w : ready(w) \in BOOLEAN
  BY ReadyIsBoolean
<1>1. ASSUME NEW h \in Handles, NEW d \in Handles, Clone(h, d) PROVE ProtocolInv'
  BY <1>1, <1>t, <1>b, CurStable, CurInChannels, ConstantsAssumption
  DEF Clone, ProtocolInv, BitsInv, JobInv, OwnerInv, PollInv, ServeInv, Outstanding,
      WorkerEnded, TypeOK, ChannelType, ClientType, LoopType, LaunchType, Channels
<1>2. ASSUME NEW d \in Handles, Entrust(d) PROVE ProtocolInv'
  BY <1>2, CurStable, ConstantsAssumption
  DEF Entrust, ProtocolInv, BitsInv, JobInv, OwnerInv, PollInv, ServeInv, Outstanding
<1>3. ASSUME NEW h \in Handles, DropHandle(h) PROVE ProtocolInv'
  BY <1>3, <1>t, ReleaseProtocol DEF DropHandle
<1>4. ASSUME NEW h \in Handles, RefuseIntoInner(h) PROVE ProtocolInv'
  BY <1>4, <1>t, ReleaseProtocol DEF RefuseIntoInner
<1>5. ASSUME DropRuntime PROVE ProtocolInv'
  BY <1>5, CurStable
  DEF DropRuntime, ReleaseRuntime, Record, ProtocolInv, BitsInv, JobInv, OwnerInv,
      PollInv, ServeInv, Outstanding
<1>6. ASSUME NEW h \in Handles, NEW op \in Ops, NEW n \in Repeats(op),
             StartCall(h, op, n)
      PROVE  ProtocolInv'
  BY <1>6, CurStable
  DEF StartCall, ProtocolInv, BitsInv, JobInv, OwnerInv, PollInv, ServeInv,
      Outstanding, WorkerEnded
<1>7. ASSUME NEW c \in Channels, LoadRespWord(c) PROVE ProtocolInv'
  BY <1>7, <1>t, CurStable
  DEF LoadRespWord, ProtocolInv, BitsInv, JobInv, OwnerInv, PollInv, ServeInv,
      Outstanding, WorkerEnded, TypeOK, ClientType
<1>8. ASSUME NEW c \in Channels, StoreReqWord(c) PROVE ProtocolInv'
  BY <1>8, <1>t, CurStable, ConstantsAssumption
  DEF StoreReqWord, ProtocolInv, BitsInv, JobInv, OwnerInv, PollInv, ServeInv,
      Outstanding, WorkerEnded, TypeOK, ChannelType, ClientType
<1>9. ASSUME NEW h \in Handles, SeeAnswer(h) PROVE ProtocolInv'
  BY <1>9, <1>b, CurStable, PackOne
  DEF SeeAnswer, ProtocolInv, BitsInv, JobInv, OwnerInv, PollInv, ServeInv,
      Outstanding, WorkerEnded, Channels
<1>10. ASSUME NEW h \in Handles, ReadResult(h) PROVE ProtocolInv'
  <2>1. CASE slot[h].op = "into_inner"
    <3>1. \A c \in Channels \ {h} : want'[c] = want[c]
      BY <1>10 DEF ReadResult, TypeOK, ClientType
    <3> QED
      BY <1>10, <1>t, <2>1, <3>1, ReleaseProtocol DEF ReadResult
  <2>2. CASE slot[h].op # "into_inner"
    <3>1. /\ cpc' = [cpc EXCEPT ![h] = "idle"]
          /\ cpc[h] = "read"
          /\ \A c \in Channels \ {h} : want'[c] = want[c]
          /\ UNCHANGED <<req, resp, slot, wpc, loopVars, launchVars, jobVars>>
      BY <1>10, <2>2 DEF ReadResult, TypeOK, ClientType
    <3>2. h \in Channels /\ h # Owner
      BY ConstantsAssumption DEF Channels
    <3>3. wpc # "top" => Cur' = Cur /\ Cur \in Channels
      BY <1>t, <3>1, CurStable, CurInChannels
    <3>4. ASSUME NEW c \in Channels PROVE BitsInv(c)' /\ JobInv(c)'
      BY <1>t, <3>1, <3>2
      DEF ProtocolInv, BitsInv, JobInv, Outstanding, TypeOK, ClientType
    <3>5. OwnerInv'
      BY <1>t, <3>1, <3>2
      DEF ProtocolInv, OwnerInv, WorkerEnded, TypeOK, ClientType, Channels
    <3>6. PollInv' /\ ServeInv'
      BY <1>t, <3>1, <3>3
      DEF ProtocolInv, PollInv, ServeInv, Outstanding, TypeOK, ClientType
    <3> QED
      BY <3>4, <3>5, <3>6 DEF ProtocolInv
  <2> QED
    BY <2>1, <2>2
<1>11. ASSUME JoinWorker PROVE ProtocolInv'
  BY <1>11
  DEF JoinWorker, ProtocolInv, BitsInv, JobInv, OwnerInv, PollInv, ServeInv,
      Outstanding, WorkerEnded
<1>12. ASSUME RoundStart PROVE ProtocolInv'
  BY <1>12
  DEF RoundStart, ProtocolInv, BitsInv, JobInv, OwnerInv, PollInv, ServeInv,
      Outstanding, WorkerEnded
<1>13. ASSUME LoadReqWord PROVE ProtocolInv'
  BY <1>13, CurStable
  DEF LoadReqWord, ProtocolInv, BitsInv, JobInv, OwnerInv, PollInv, ServeInv,
      Outstanding, WorkerEnded
<1>14. ASSUME CheckChannel PROVE ProtocolInv'
  BY <1>14, <1>t, CurStable, CurInChannels
  DEF CheckChannel, NextOffs, LaunchInProgress, ProtocolInv, BitsInv, JobInv,
      OwnerInv, PollInv, ServeInv, Outstanding, WorkerEnded, TypeOK, ClientType
<1>15. ASSUME DispatchCall PROVE ProtocolInv'
  BY <1>15, <1>t, <1>b, CurStable, CurInChannels, PropertyPtrOf, ConstantsAssumption
  DEF DispatchCall, ProtocolInv, BitsInv, JobInv, OwnerInv, PollInv, ServeInv,
      Outstanding, WorkerEnded, Channels
<1>16. ASSUME CallClosure PROVE ProtocolInv'
  BY <1>16, CurStable
  DEF CallClosure, ProtocolInv, BitsInv, JobInv, OwnerInv, PollInv, ServeInv,
      Outstanding, WorkerEnded
<1>17. ASSUME PanicInCall PROVE ProtocolInv'
  BY <1>17
  DEF PanicInCall, ProtocolInv, BitsInv, JobInv, OwnerInv, PollInv, ServeInv,
      Outstanding, WorkerEnded
<1>18. ASSUME Respond PROVE ProtocolInv'
  BY <1>18
  DEF Respond, Served, NextOffs, ProtocolInv, BitsInv, JobInv, OwnerInv, PollInv,
      ServeInv, Outstanding, WorkerEnded
<1>19. ASSUME DispatchLaunch PROVE ProtocolInv'
  BY <1>19, <1>t, PropertyPtrOf
  DEF DispatchLaunch, Served, NextOffs, ProtocolInv, BitsInv, JobInv, OwnerInv,
      PollInv, ServeInv, Outstanding, WorkerEnded, TypeOK, LaunchType, Channels
<1>20. ASSUME MoveOut PROVE ProtocolInv'
  BY <1>20, <1>t, CurStable, CurInChannels, PropertyPtrOf
  DEF MoveOut, ProtocolInv, BitsInv, JobInv, OwnerInv, PollInv, ServeInv, Outstanding,
      WorkerEnded, Channels
<1>21. ASSUME ReturnAfterMove PROVE ProtocolInv'
  BY <1>21
  DEF ReturnAfterMove, ProtocolInv, BitsInv, JobInv, OwnerInv, PollInv, ServeInv,
      Outstanding, WorkerEnded
<1>22. ASSUME DispatchTerminate PROVE ProtocolInv'
  BY <1>22
  DEF DispatchTerminate, ProtocolInv, BitsInv, JobInv, OwnerInv, PollInv, ServeInv,
      Outstanding, WorkerEnded
<1>23. ASSUME JoinFibers PROVE ProtocolInv'
  BY <1>23
  DEF JoinFibers, ProtocolInv, BitsInv, JobInv, OwnerInv, PollInv, ServeInv,
      Outstanding, WorkerEnded
<1>24. ASSUME NEW h \in Handles, FiberStart(h) PROVE ProtocolInv'
  BY <1>24, CurStable
  DEF FiberStart, ProtocolInv, BitsInv, JobInv, OwnerInv, PollInv, ServeInv,
      Outstanding, WorkerEnded
<1>25. ASSUME NEW h \in Handles, FiberCall(h) PROVE ProtocolInv'
  BY <1>25, CurStable
  DEF FiberCall, ProtocolInv, BitsInv, JobInv, OwnerInv, PollInv, ServeInv,
      Outstanding, WorkerEnded
<1>26. ASSUME NEW h \in Handles, FiberPanic(h) PROVE ProtocolInv'
  BY <1>26, CurStable
  DEF FiberPanic, ProtocolInv, BitsInv, JobInv, OwnerInv, PollInv, ServeInv,
      Outstanding, WorkerEnded
<1>27. ASSUME NEW h \in Handles, FiberSignal(h) PROVE ProtocolInv'
  <2>1. h \in Channels /\ job[h] = "done" /\ BitsInv(h) /\ JobInv(h)
    BY <1>27 DEF FiberSignal, Channels, ProtocolInv
  <2>2. /\ job' = [job EXCEPT ![h] = "none"]
        /\ job_ready' = [job_ready EXCEPT ![h] = FALSE]
        /\ UNCHANGED <<req, slot, clientVars, wpc, loopVars, launchVars>>
    BY <1>27 DEF FiberSignal
  <2>3. /\ resp'[h] = pack_ready_count(ready(req[h]), 1)
        /\ \A c \in Channels \ {h} : resp'[c] = resp[c]
    BY <1>27, <1>t, <2>1 DEF FiberSignal, JobInv, TypeOK, ChannelType
  <2>4. ready(resp'[h]) = ready(req[h])
    BY <1>b, <2>3, PackOne
  <2>5. wpc # "top" => Cur' = Cur /\ Cur \in Channels
    BY <1>t, <2>2, CurStable, CurInChannels
  <2>6. ASSUME NEW c \in Channels PROVE BitsInv(c)' /\ JobInv(c)'
    BY <1>t, <2>1, <2>2, <2>3, <2>4
    DEF ProtocolInv, BitsInv, JobInv, Outstanding, TypeOK, LaunchType
  <2>7. OwnerInv'
    BY <2>2 DEF ProtocolInv, OwnerInv, WorkerEnded
  <2>8. PollInv' /\ ServeInv'
    BY <1>t, <2>1, <2>2, <2>3, <2>5
    DEF ProtocolInv, PollInv, ServeInv, Outstanding, TypeOK, LaunchType
  <2> QED
    BY <2>6, <2>7, <2>8 DEF ProtocolInv
<1>28. CASE UNCHANGED vars
  BY <1>28, CurStable
  DEF vars, ProtocolInv, BitsInv, JobInv, OwnerInv, PollInv, ServeInv, Outstanding,
      WorkerEnded
<1> QED
  BY <1>1, <1>2, <1>3, <1>4, <1>5, <1>6, <1>7, <1>8, <1>9, <1>10, <1>11, <1>12, <1>13,
     <1>14, <1>15, <1>16, <1>17, <1>18, <1>19, <1>20, <1>21, <1>22, <1>23, <1>24,
     <1>25, <1>26, <1>27, <1>28, CallStarts
  DEF Next, Lifecycle, CallStep, DropStep, Worker, Fiber, Channels

(* The slots of a channel are never touched by two parties at once, for any *)
(* number of handles and fibers: worker and fibers stay out of them unless  *)
(* the client waits, and of one another's.                                  *)
THEOREM SlotsAreExclusive ==
  Spec => []SlotExclusion
<1>1. TypeInv /\ ProtocolInv => SlotExclusion
  BY DEF ProtocolInv, ServeInv, JobInv, SlotExclusion, WorkerServes
<1> QED
  BY TypeInit, TypeStep, ProtocolInit, ProtocolStep, <1>1, PTL DEF Spec

-----------------------------------------------------------------------------
(* Every closure runs as often as asked.                                    *)

(* Nothing is owed before the first call.                                   *)
LEMMA AccountInit ==
  Init => AccountInv
<1> SUFFICES ASSUME Init, NEW h \in Handles PROVE RunInv(h)
  BY DEF AccountInv
<1>1. /\ h \in Channels
      /\ cpc[h] \in {"absent", "idle"}
      /\ wpc = "top"
      /\ job[h] = "none"
      /\ owed[h] = 0
  BY DEF Init, Channels
<1> QED
  BY <1>1 DEF RunInv, InCall, Untouched

(* Every step keeps the accounts.                                           *)
LEMMA AccountStep ==
  TypeInv /\ ProtocolInv /\ AccountInv /\ [Next]_vars => AccountInv'
<1> SUFFICES ASSUME TypeInv, ProtocolInv, AccountInv, [Next]_vars, NEW g \in Handles
             PROVE  RunInv(g)'
  BY DEF AccountInv
<1> USE DEF chanVars, clientVars, loopVars, launchVars, propVars, jobVars
<1>t. TypeOK
  BY DEF TypeInv
<1>g. /\ g \in Channels /\ g # Owner /\ cpc[g] # "join"
      /\ RunInv(g) /\ BitsInv(g) /\ JobInv(g) /\ ServeInv
  BY ConstantsAssumption DEF Channels, AccountInv, ProtocolInv, OwnerInv
<1>b. \A w : ready(w) \in BOOLEAN
  BY ReadyIsBoolean
<1>1. ASSUME NEW h \in Handles, NEW d \in Handles, Clone(h, d) PROVE RunInv(g)'
  BY <1>1, <1>g, CurStable
  DEF Clone, RunInv, Untouched, InCall, LaunchPanicked, Outstanding, WorkerEnded
<1>2. ASSUME NEW d \in Handles, Entrust(d) PROVE RunInv(g)'
  BY <1>2, <1>g, CurStable
  DEF Entrust, RunInv, Untouched, InCall, LaunchPanicked, Outstanding, WorkerEnded
<1>3. ASSUME NEW h \in Handles, DropHandle(h) PROVE RunInv(g)'
  BY <1>3, <1>t, <1>g, CurStable
  DEF DropHandle, Release, ReleaseRuntime, RunInv, Untouched, InCall, LaunchPanicked,
      Outstanding, WorkerEnded, TypeOK, ChannelType
<1>4. ASSUME NEW h \in Handles, RefuseIntoInner(h) PROVE RunInv(g)'
  BY <1>4, <1>t, <1>g, <1>b, CurStable, CurInChannels, ConstantsAssumption
  DEF RefuseIntoInner, Release, ReleaseRuntime, Record, RunInv, Untouched, InCall,
      LaunchPanicked, BitsInv, JobInv, ServeInv, Outstanding, WorkerEnded, TypeOK,
      ChannelType, ClientType, LoopType, LaunchType, PropType, Channels
<1>5. ASSUME DropRuntime PROVE RunInv(g)'
  BY <1>5, <1>g, CurStable
  DEF DropRuntime, ReleaseRuntime, RunInv, Untouched, InCall, LaunchPanicked,
      Outstanding, WorkerEnded
<1>6. ASSUME NEW h \in Handles, NEW op \in Ops, NEW n \in Repeats(op),
             StartCall(h, op, n)
      PROVE  RunInv(g)'
  BY <1>6, <1>t, <1>g, <1>b, CurStable, ConstantsAssumption
  DEF StartCall, Record, Repeats, RunInv, Untouched, InCall, LaunchPanicked, JobInv,
      ServeInv, Outstanding, WorkerEnded, TypeOK, ChannelType, PropType
<1>7. ASSUME NEW c \in Channels, LoadRespWord(c) PROVE RunInv(g)'
  BY <1>7, <1>g, CurStable
  DEF LoadRespWord, RunInv, Untouched, InCall, LaunchPanicked, Outstanding,
      WorkerEnded
<1>8. ASSUME NEW c \in Channels, StoreReqWord(c) PROVE RunInv(g)'
  BY <1>8, <1>t, <1>g, CurStable, PackOne
  DEF StoreReqWord, RunInv, Untouched, InCall, LaunchPanicked, BitsInv, Outstanding,
      WorkerEnded, TypeOK, ChannelType, ClientType
<1>9. ASSUME NEW h \in Handles, SeeAnswer(h) PROVE RunInv(g)'
  BY <1>9, <1>g, <1>b, CurStable, PackOne
  DEF SeeAnswer, RunInv, Untouched, InCall, LaunchPanicked, BitsInv, Outstanding,
      WorkerEnded
<1>10. ASSUME NEW h \in Handles, ReadResult(h) PROVE RunInv(g)'
  BY <1>10, <1>t, <1>g, <1>b, CurStable, CurInChannels, ConstantsAssumption
  DEF ReadResult, Release, ReleaseRuntime, Record, RunInv, Untouched, InCall,
      LaunchPanicked, BitsInv, JobInv, ServeInv, Outstanding, WorkerEnded, TypeOK,
      ChannelType, ClientType, LoopType, LaunchType, PropType, Channels
<1>11. ASSUME JoinWorker PROVE RunInv(g)'
  BY <1>11, <1>g
  DEF JoinWorker, RunInv, Untouched, InCall, LaunchPanicked, Outstanding, WorkerEnded
<1>12. ASSUME RoundStart PROVE RunInv(g)'
  BY <1>12, <1>g
  DEF RoundStart, RunInv, Untouched, InCall, LaunchPanicked, Outstanding, WorkerEnded
<1>13. ASSUME LoadReqWord PROVE RunInv(g)'
  BY <1>13, <1>g
  DEF LoadReqWord, RunInv, Untouched, InCall, LaunchPanicked, Outstanding, WorkerEnded
<1>14. ASSUME CheckChannel PROVE RunInv(g)'
  BY <1>14, <1>g
  DEF CheckChannel, NextOffs, RunInv, Untouched, InCall, LaunchPanicked, Outstanding,
      WorkerEnded
<1>15. ASSUME DispatchCall PROVE RunInv(g)'
  <2>1. Cur \in Channels /\ Cur' = Cur
    BY <1>15, <1>t, CurStable, CurInChannels DEF DispatchCall
  <2>2. CASE Cur # g
    BY <1>15, <1>g, <2>1, <2>2
    DEF DispatchCall, RunInv, Untouched, InCall, LaunchPanicked, Outstanding,
        WorkerEnded
  <2>3. CASE Cur = g
    <3>1. /\ wpc = "dispatch" /\ cpc[g] = "wait" /\ Outstanding(g) /\ job[g] = "none"
          /\ owed[g] = slot[g].repeat_count
      BY <1>15, <1>g, <2>3 DEF DispatchCall, ServeInv, RunInv, Untouched, WorkerEnded
    <3>2. slot[g].op \in OpKinds /\ slot[g].repeat_count \in Repeats(slot[g].op)
      BY <1>g, <3>1 DEF RunInv, InCall
    <3>3. left' = owed[g]
      BY <1>15, <2>3, <3>1, <3>2, PropertyPtrOf DEF DispatchCall, Repeats
    <3> QED
      BY <1>15, <1>g, <3>1, <3>3 DEF DispatchCall, RunInv, InCall, Outstanding
  <2> QED
    BY <2>2, <2>3
<1>16. ASSUME CallClosure PROVE RunInv(g)'
  <2>1. Cur \in Channels /\ Cur' = Cur
    BY <1>16, <1>t, CurStable, CurInChannels DEF CallClosure
  <2>2. CASE Cur # g
    BY <1>16, <1>g, <2>1, <2>2
    DEF CallClosure, RunInv, Untouched, InCall, LaunchPanicked, Outstanding,
        WorkerEnded
  <2>3. CASE Cur = g
    <3>1. /\ owed[g] = left /\ left > 0 /\ left \in Nat
          /\ cpc[g] = "wait" /\ Outstanding(g) /\ job[g] = "none"
      BY <1>16, <1>t, <1>g, <2>3
      DEF CallClosure, RunInv, ServeInv, TypeInv, TypeOK, LoopType
    <3>2. owed'[g] = left - 1 /\ left' = left - 1
      BY <1>16, <1>t, <1>g, <2>3, <3>1 DEF CallClosure, TypeOK, PropType
    <3> QED
      BY <1>16, <1>g, <2>1, <3>1, <3>2
      DEF CallClosure, RunInv, Untouched, InCall, Outstanding
  <2> QED
    BY <2>2, <2>3
<1>17. ASSUME PanicInCall PROVE RunInv(g)'
  BY <1>17, <1>g
  DEF PanicInCall, RunInv, Untouched, InCall, LaunchPanicked, Outstanding, WorkerEnded
<1>18. ASSUME Respond PROVE RunInv(g)'
  BY <1>18, <1>t, <1>g, PackInverse
  DEF Respond, Served, NextOffs, RunInv, Untouched, InCall, LaunchPanicked, ServeInv,
      Outstanding, WorkerEnded, TypeOK, ChannelType
<1>19. ASSUME DispatchLaunch PROVE RunInv(g)'
  <2>1. Cur \in Channels /\ wpc' \in {"top", "load_req"}
    BY <1>19, <1>t, CurInChannels DEF DispatchLaunch, Served, NextOffs
  <2>2. CASE Cur # g
    BY <1>19, <1>g, <2>1, <2>2
    DEF DispatchLaunch, RunInv, Untouched, InCall, LaunchPanicked, Outstanding,
        WorkerEnded
  <2>3. CASE Cur = g
    <3>1. /\ wpc = "dispatch" /\ cpc[g] = "wait" /\ Outstanding(g) /\ job[g] = "none"
          /\ owed[g] = slot[g].repeat_count
      BY <1>19, <1>g, <2>3
      DEF DispatchLaunch, ServeInv, RunInv, Untouched, WorkerEnded
    <3>2. slot[g].op \in OpKinds /\ slot[g].repeat_count \in Repeats(slot[g].op)
      BY <1>g, <3>1 DEF RunInv, InCall
    <3>3. owed[g] = 1
      BY <1>19, <2>3, <3>1, <3>2, PropertyPtrOf DEF DispatchLaunch, Repeats
    <3>4. job'[g] = "queued" /\ UNCHANGED <<owed, slot, cpc, req, resp>>
      BY <1>19, <1>t, <1>g, <2>3 DEF DispatchLaunch, TypeOK, LaunchType
    <3>5. cpc'[g] = "wait" /\ Outstanding(g)' /\ owed'[g] = 1 /\ slot'[g] = slot[g]
      BY <3>1, <3>3, <3>4 DEF Outstanding
    <3>6. ~Untouched(g)'
      BY <3>4 DEF Untouched
    <3> QED
      BY <2>1, <3>2, <3>4, <3>5, <3>6 DEF RunInv
  <2> QED
    BY <2>2, <2>3
<1>20. ASSUME MoveOut PROVE RunInv(g)'
  <2>1. Cur \in Channels /\ Cur' = Cur
    BY <1>20, <1>t, CurStable, CurInChannels DEF MoveOut
  <2>2. CASE Cur # g
    BY <1>20, <1>g, <2>1, <2>2
    DEF MoveOut, RunInv, Untouched, InCall, LaunchPanicked, Outstanding, WorkerEnded
  <2>3. CASE Cur = g
    <3>1. /\ wpc = "dispatch" /\ cpc[g] = "wait" /\ Outstanding(g) /\ job[g] = "none"
          /\ owed[g] = slot[g].repeat_count
      BY <1>20, <1>g, <2>3 DEF MoveOut, ServeInv, RunInv, Untouched, WorkerEnded
    <3>2. slot[g].op \in OpKinds /\ slot[g].repeat_count \in Repeats(slot[g].op)
      BY <1>g, <3>1 DEF RunInv, InCall
    <3>3. owed'[g] = 0
      BY <1>20, <1>t, <1>g, <2>3, <3>1, <3>2, PropertyPtrOf
      DEF MoveOut, Repeats, TypeOK, PropType
    <3> QED
      BY <1>20, <2>1, <3>1, <3>2, <3>3 DEF MoveOut, RunInv, Untouched
  <2> QED
    BY <2>2, <2>3
<1>21. ASSUME ReturnAfterMove PROVE RunInv(g)'
  BY <1>21, <1>g
  DEF ReturnAfterMove, RunInv, Untouched, InCall, LaunchPanicked, Outstanding,
      WorkerEnded
<1>22. ASSUME DispatchTerminate PROVE RunInv(g)'
  BY <1>22, <1>g
  DEF DispatchTerminate, RunInv, Untouched, InCall, LaunchPanicked, Outstanding,
      WorkerEnded
<1>23. ASSUME JoinFibers PROVE RunInv(g)'
  BY <1>23, <1>g
  DEF JoinFibers, RunInv, Untouched, InCall, LaunchPanicked, Outstanding, WorkerEnded
<1>24. ASSUME NEW h \in Handles, FiberStart(h) PROVE RunInv(g)'
  BY <1>24, <1>g, CurStable
  DEF FiberStart, RunInv, Untouched, InCall, LaunchPanicked, Outstanding, WorkerEnded
<1>25. ASSUME NEW h \in Handles, FiberCall(h) PROVE RunInv(g)'
  BY <1>25, <1>t, <1>g, CurStable
  DEF FiberCall, RunInv, Untouched, InCall, LaunchPanicked, JobInv, ServeInv,
      Outstanding, WorkerEnded, TypeOK, LaunchType, PropType
<1>26. ASSUME NEW h \in Handles, FiberPanic(h) PROVE RunInv(g)'
  BY <1>26, <1>g, CurStable
  DEF FiberPanic, RunInv, Untouched, InCall, LaunchPanicked, JobInv, Outstanding,
      WorkerEnded
<1>27. ASSUME NEW h \in Handles, FiberSignal(h) PROVE RunInv(g)'
  BY <1>27, <1>t, <1>g, CurStable, PackOne
  DEF FiberSignal, RunInv, Untouched, InCall, LaunchPanicked, JobInv, Outstanding,
      WorkerEnded, TypeOK, ChannelType, LaunchType
<1>28. CASE UNCHANGED vars
  BY <1>28, <1>g, CurStable
  DEF vars, RunInv, Untouched, InCall, LaunchPanicked, Outstanding, WorkerEnded
<1> QED
  BY <1>1, <1>2, <1>3, <1>4, <1>5, <1>6, <1>7, <1>8, <1>9, <1>10, <1>11, <1>12, <1>13,
     <1>14, <1>15, <1>16, <1>17, <1>18, <1>19, <1>20, <1>21, <1>22, <1>23, <1>24,
     <1>25, <1>26, <1>27, <1>28, CallStarts
  DEF Next, Lifecycle, CallStep, DropStep, Worker, Fiber, Channels

(* A caller that leaves its wait loop finds its closure run exactly as often*)
(* as it asked, for every number of handles, every mix of operations and    *)
(* every repeat count.                                                      *)
THEOREM ClosuresRunExactlyAsAsked ==
  Spec => []RunsExactlyAsAsked
<1>1. AccountInv => RunsExactlyAsAsked
  BY DEF AccountInv, RunInv, RunsExactlyAsAsked
<1> QED
  BY TypeInit, TypeStep, ProtocolInit, ProtocolStep, AccountInit, AccountStep, <1>1,
     PTL
  DEF Spec

-----------------------------------------------------------------------------
(* Every store to a response word answers the request that is outstanding.  *)

(* Respond, ReturnAfterMove and FiberSignal make the only stores to it,     *)
(* and each answers the outstanding request.                                *)
LEMMA AnswerStep ==
  TypeInv /\ ProtocolInv /\ AccountInv /\ [Next]_vars
    => [\A c \in Channels : Answers(c)]_vars
<1> SUFFICES ASSUME TypeInv, ProtocolInv, AccountInv, Next, NEW c \in Channels,
                    resp'[c] # resp[c]
             PROVE  /\ cpc[c] = "wait"
                    /\ ready(resp[c]) # want[c]
                    /\ ready(resp'[c]) = want[c]
                    /\ owed[c] = 0 \/ LaunchPanicked(c)
  BY DEF Answers
<1>t. TypeOK
  BY DEF TypeInv
<1>b. \A w : ready(w) \in BOOLEAN
  BY ReadyIsBoolean
<1>c. BitsInv(c) /\ JobInv(c) /\ ServeInv /\ (cpc[c] = "wait" => c \in Handles /\ RunInv(c))
  BY DEF ProtocolInv, OwnerInv, AccountInv, Channels
<1>1. ASSUME cpc[c] = "wait", Outstanding(c)
      PROVE  ready(req[c]) = want[c] /\ ready(resp[c]) # want[c]
  BY <1>1, <1>t, <1>c, PackOne DEF BitsInv, Outstanding, TypeOK, ClientType
<1>2. CASE Respond
  <2>1. c = Cur /\ resp'[c] = req[c]
    BY <1>2, <1>t, <1>c, CurInChannels, PackInverse
    DEF Respond, ServeInv, TypeOK, ChannelType, LoopType
  <2>2. cpc[c] = "wait" /\ Outstanding(c) /\ owed[c] = 0
    BY <1>2, <1>c, <2>1 DEF Respond, ServeInv, RunInv
  <2> QED
    BY <1>1, <2>1, <2>2
<1>3. CASE ReturnAfterMove
  <2>1. c = Cur /\ resp'[c] = pack_ready_count(ready(req[c]), 1)
    BY <1>3, <1>t, CurInChannels DEF ReturnAfterMove, TypeOK, ChannelType
  <2>2. cpc[c] = "wait" /\ Outstanding(c) /\ owed[c] = 0
    BY <1>3, <1>c, <2>1 DEF ReturnAfterMove, ServeInv, RunInv
  <2>3. ready(resp'[c]) = ready(req[c])
    BY <1>b, <2>1, PackOne
  <2> QED
    BY <1>1, <2>2, <2>3
<1>4. ASSUME NEW h \in Handles, FiberSignal(h)
      PROVE  /\ cpc[c] = "wait"
             /\ ready(resp[c]) # want[c]
             /\ ready(resp'[c]) = want[c]
             /\ owed[c] = 0 \/ LaunchPanicked(c)
  <2>1. c = h /\ job[c] = "done" /\ resp'[c] = pack_ready_count(job_ready[c], 1)
    BY <1>4, <1>t DEF FiberSignal, TypeOK, ChannelType
  <2>2. /\ cpc[c] = "wait" /\ Outstanding(c)
        /\ job_ready[c] = ready(req[c])
        /\ owed[c] = 0 \/ LaunchPanicked(c)
    BY <1>c, <2>1 DEF JobInv, RunInv
  <2>3. ready(resp'[c]) = ready(req[c])
    BY <1>b, <2>1, <2>2, PackOne
  <2> QED
    BY <1>1, <2>2, <2>3
<1>5. resp' = resp \/ Respond \/ ReturnAfterMove \/ \E h \in Handles : FiberSignal(h)
  BY DEF Next, Lifecycle, Clone, Entrust, DropHandle, RefuseIntoInner, DropRuntime,
         StartCall, Call, apply, apply_with, with, launch, into_inner,
         apply_batch_mut, CallStep, LoadRespWord, StoreReqWord, SeeAnswer, ReadResult,
         DropStep, JoinWorker, Worker, RoundStart, LoadReqWord, CheckChannel,
         DispatchCall, CallClosure, PanicInCall, DispatchLaunch, MoveOut,
         DispatchTerminate, JoinFibers, Fiber, FiberStart, FiberCall, FiberPanic,
         chanVars
<1> QED
  BY <1>2, <1>3, <1>4, <1>5

(* A response bit changes only to answer the request its caller is waiting  *)
(* on, after the closure has run: no store is late or repeated.             *)
THEOREM AnswersAreTimely ==
  Spec => AnswersOutstandingOnly
  BY TypeInit, TypeStep, ProtocolInit, ProtocolStep, AccountInit, AccountStep,
     AnswerStep, PTL
  DEF Spec, AnswersOutstandingOnly

=============================================================================
