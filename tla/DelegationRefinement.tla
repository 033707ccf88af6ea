------------------------ MODULE DelegationRefinement -------------------------
(* How the worker of Delegation ends, and what Delegation implements: the   *)
(* trust that its handles promise (TrustObject), and the use of a job       *)
(* service for its launches (JobService).                                   *)
EXTENDS DelegationProofs

-----------------------------------------------------------------------------
(* How the worker ends.                                                     *)

(* The records whose closure the worker runs itself.                        *)
Inline == {"CallMutRetUnit", "CallMutOutPtr", "CallMutArgsOutPtr"}

(* The handles' records are those of their operations.                      *)
RecordInv ==
  \A h \in Handles :
    /\ slot[h].op # "terminate"
    /\ InCall(h) => slot[h].op \in Ops

(* What the worker has dispatched is what it is doing.                      *)
DispatchInv ==
  /\ wpc = "call" => PropertyPtr(slot[Cur].op) \in Inline
  /\ wpc = "moved" => slot[Cur].op = "into_inner" /\ moved

(* The worker has ended for one of three reasons: the terminate record of   *)
(* Drop for Runtime, an into_inner, or a closure of its own that panicked.  *)
EndInv ==
  /\ wpc = "join" => Cur = Owner
  /\ wpc \in {"join", "returned"} /\ Cur = Owner =>
       slot[Owner].op = "terminate" /\ cpc[Owner] \in {"join", "gone"}
  /\ wpc = "returned" /\ Cur # Owner => moved
  /\ moved => wpc \in {"moved", "returned"} /\ "into_inner" \in Ops
  /\ wpc = "panicked" => (Ops \cap Panicking) \ {"launch", "into_inner"} # {}

WorkInv == RecordInv /\ DispatchInv /\ EndInv

(* No record, and a worker that has not ended, in a fresh runtime.          *)
LEMMA WorkInit ==
  Init => WorkInv
<1> SUFFICES ASSUME Init PROVE WorkInv
  OBVIOUS
<1>1. RecordInv
  BY DEF Init, RecordInv, InCall, Record, Channels
<1> QED
  BY <1>1 DEF Init, WorkInv, DispatchInv, EndInv

(* Dropping a handle, and with the last one the Runtime, writes no record   *)
(* but the terminate record, and that one only once.                        *)
LEMMA ReleaseWork ==
  ASSUME TypeOK, ProtocolInv, WorkInv, NEW h \in Handles, cpc[h] \in {"idle", "read"},
         Release(h), UNCHANGED <<wpc, clients, start_idx, offs, moved>>
  PROVE  WorkInv'
<1>1. /\ h # Owner
      /\ \A c \in Channels \ {h, Owner} : cpc'[c] = cpc[c]
      /\ cpc'[h] = "gone"
      /\ \A c \in Handles : slot'[c] = slot[c]
  BY ConstantsAssumption
  DEF Release, ReleaseRuntime, Channels, TypeOK, ChannelType, LastOwner
<1>2. cpc[Owner] # "absent" => cpc'[Owner] = cpc[Owner] /\ slot'[Owner] = slot[Owner]
  BY ConstantsAssumption DEF Release, LastOwner, Channels, ProtocolInv, OwnerInv
<1>3. wpc # "top" => Cur' = Cur /\ Cur \in Channels
  BY CurStable, CurInChannels
<1>4. RecordInv'
  BY <1>1, ConstantsAssumption DEF WorkInv, RecordInv, InCall, Channels
<1>5. wpc \in {"call", "moved"} => Cur \in Handles
  BY <1>3 DEF ProtocolInv, ServeInv, OwnerInv, Channels
<1>6. DispatchInv'
  BY <1>1, <1>3, <1>5 DEF WorkInv, DispatchInv
<1>7. EndInv'
  BY <1>2, <1>3 DEF WorkInv, EndInv
<1> QED
  BY <1>4, <1>6, <1>7 DEF WorkInv

(* Every step keeps it.                                                     *)
LEMMA WorkStep ==
  TypeInv /\ ProtocolInv /\ AccountInv /\ WorkInv /\ [Next]_vars => WorkInv'
<1> SUFFICES ASSUME TypeInv, ProtocolInv, AccountInv, WorkInv, [Next]_vars PROVE WorkInv'
  OBVIOUS
<1> USE DEF chanVars, clientVars, loopVars, launchVars, propVars, jobVars
<1>t. TypeOK
  BY DEF TypeInv
<1>c. wpc # "top" => Cur \in Channels
  BY <1>t, CurInChannels
<1>s. wpc \in {"call", "respond", "moved"} => Cur \in Handles /\ cpc[Cur] = "wait"
  BY <1>c DEF ProtocolInv, ServeInv, OwnerInv, Channels
<1>d. wpc = "dispatch" => /\ cpc[Cur] = IF Cur = Owner THEN "join" ELSE "wait"
                          /\ Cur # Owner => Cur \in Handles /\ slot[Cur].op \in Ops
  BY <1>c DEF ProtocolInv, ServeInv, OwnerInv, Channels, WorkInv, RecordInv, InCall
(* A client's step that leaves records and the worker alone.                *)
<1>1. ASSUME UNCHANGED <<slot, wpc, clients, start_idx, offs, moved>>,
             \A h \in Handles : InCall(h)' => InCall(h),
             cpc[Owner] \in {"join", "gone"} => cpc'[Owner] \in {"join", "gone"}
      PROVE  WorkInv'
  BY <1>1, CurStable DEF WorkInv, RecordInv, DispatchInv, EndInv
<1>2. ASSUME NEW h \in Handles, NEW d \in Handles, Clone(h, d) PROVE WorkInv'
  BY <1>1, <1>2, <1>t, ConstantsAssumption DEF Clone, InCall, TypeOK, ClientType
<1>3. ASSUME NEW d \in Handles, Entrust(d) PROVE WorkInv'
  BY <1>1, <1>3, <1>t, ConstantsAssumption DEF Entrust, InCall, TypeOK, ClientType
<1>4. ASSUME NEW h \in Handles, DropHandle(h) \/ RefuseIntoInner(h) PROVE WorkInv'
  BY <1>4, <1>t, ReleaseWork DEF DropHandle, RefuseIntoInner
<1>5. ASSUME DropRuntime PROVE WorkInv'
  <2>1. /\ \A c \in Handles : slot'[c] = slot[c] /\ cpc'[c] = cpc[c]
        /\ cpc[Owner] = "absent"
        /\ UNCHANGED <<wpc, clients, start_idx, offs, moved>>
    BY <1>5, <1>t, ConstantsAssumption
    DEF DropRuntime, ReleaseRuntime, TypeOK, ChannelType, ClientType, Channels
  <2>2. RecordInv'
    BY <2>1 DEF WorkInv, RecordInv, InCall
  <2>3. DispatchInv' /\ EndInv'
    BY <1>s, <2>1, CurStable DEF WorkInv, DispatchInv, EndInv
  <2> QED
    BY <2>2, <2>3 DEF WorkInv
<1>6. ASSUME NEW h \in Handles, NEW op \in Ops, NEW n \in Repeats(op),
             StartCall(h, op, n)
      PROVE  WorkInv'
  <2>1. /\ \A c \in Channels \ {h} : slot'[c] = slot[c] /\ cpc'[c] = cpc[c]
        /\ cpc[h] = "idle" /\ slot'[h].op = op
        /\ h # Owner /\ h \in Channels /\ Owner \in Channels
        /\ op # "terminate"
        /\ UNCHANGED <<wpc, clients, start_idx, offs, moved>>
    BY <1>6, <1>t, ConstantsAssumption
    DEF StartCall, Record, TypeOK, ChannelType, ClientType, Channels, OpKinds
  <2>2. RecordInv'
    BY <2>1 DEF WorkInv, RecordInv, InCall, Channels
  <2>3. DispatchInv' /\ EndInv'
    BY <1>s, <2>1, CurStable DEF WorkInv, DispatchInv, EndInv, Channels
  <2> QED
    BY <2>2, <2>3 DEF WorkInv
<1>7. ASSUME NEW c \in Channels, LoadRespWord(c) \/ StoreReqWord(c) PROVE WorkInv'
  BY <1>1, <1>7, <1>t, ConstantsAssumption
  DEF LoadRespWord, StoreReqWord, InCall, TypeOK, ClientType, Channels
<1>8. ASSUME NEW h \in Handles, SeeAnswer(h) PROVE WorkInv'
  BY <1>1, <1>8, <1>t, ConstantsAssumption DEF SeeAnswer, InCall, TypeOK, ClientType
<1>9. ASSUME NEW h \in Handles, ReadResult(h) PROVE WorkInv'
  <2>1. CASE slot[h].op = "into_inner"
    BY <1>9, <1>t, <2>1, ReleaseWork DEF ReadResult
  <2>2. CASE slot[h].op # "into_inner"
    <3>1. /\ cpc' = [cpc EXCEPT ![h] = "idle"]
          /\ UNCHANGED <<slot, wpc, clients, start_idx, offs, moved>>
      BY <1>9, <2>2 DEF ReadResult
    <3> QED
      BY <1>1, <1>t, <3>1, ConstantsAssumption DEF InCall, TypeOK, ClientType
  <2> QED
    BY <2>1, <2>2
<1>10. ASSUME JoinWorker PROVE WorkInv'
  BY <1>1, <1>10, <1>t, ConstantsAssumption DEF JoinWorker, InCall, TypeOK, ClientType, Channels
(* A step of the worker that leaves records and clients alone.              *)
<1>11. ASSUME UNCHANGED <<slot, cpc>> PROVE RecordInv'
  BY <1>11 DEF WorkInv, RecordInv, InCall
<1>12. ASSUME UNCHANGED <<slot, cpc, moved>>,
              wpc \notin {"moved", "returned"},
              wpc' \notin {"call", "moved", "join", "returned", "panicked"}
       PROVE  WorkInv'
  BY <1>11, <1>12 DEF WorkInv, DispatchInv, EndInv
<1>13. CASE RoundStart \/ LoadReqWord \/ CheckChannel \/ Respond \/ DispatchLaunch
  BY <1>12, <1>13
  DEF RoundStart, LoadReqWord, CheckChannel, Respond, DispatchLaunch, Served, NextOffs
<1>14. CASE DispatchCall
  BY <1>11, <1>14, CurStable DEF DispatchCall, WorkInv, DispatchInv, EndInv, Inline
<1>15. CASE CallClosure
  BY <1>11, <1>15, CurStable DEF CallClosure, WorkInv, DispatchInv, EndInv
<1>16. CASE PanicInCall
  <2>1. slot[Cur].op \in Ops \cap Panicking
    BY <1>16, <1>s DEF PanicInCall, WorkInv, RecordInv, InCall
  <2>2. slot[Cur].op \notin {"launch", "into_inner"}
    BY <1>16, PropertyPtrOf DEF PanicInCall, WorkInv, DispatchInv, Inline
  <2> QED
    BY <1>11, <1>16, <2>1, <2>2 DEF PanicInCall, WorkInv, DispatchInv, EndInv
<1>17. CASE MoveOut
  <2>1. slot[Cur].op = "into_inner"
    BY <1>17, PropertyPtrOf DEF MoveOut
  <2>2. "into_inner" \in Ops
    BY <1>17, <1>d, <2>1 DEF MoveOut, ProtocolInv, OwnerInv
  <2> QED
    BY <1>11, <1>17, <2>1, <2>2, CurStable DEF MoveOut, WorkInv, DispatchInv, EndInv
<1>18. CASE ReturnAfterMove
  <2>1. Cur # Owner /\ Cur' = Cur
    BY <1>18, <1>s, CurStable, ConstantsAssumption DEF ReturnAfterMove
  <2>2. moved
    BY <1>18 DEF ReturnAfterMove, WorkInv, DispatchInv
  <2> QED
    BY <1>11, <1>18, <2>1, <2>2 DEF ReturnAfterMove, WorkInv, DispatchInv, EndInv
<1>19. CASE DispatchTerminate
  <2>1. slot[Cur].op = "terminate"
    BY <1>19 DEF DispatchTerminate, PropertyPtr
  <2>2. Cur = Owner /\ Cur' = Cur
    BY <1>19, <1>d, <2>1, CurStable DEF DispatchTerminate, WorkInv, RecordInv
  <2> QED
    BY <1>11, <1>19, <1>d, <2>1, <2>2 DEF DispatchTerminate, WorkInv, DispatchInv, EndInv
<1>20. CASE JoinFibers
  BY <1>11, <1>20, CurStable DEF JoinFibers, WorkInv, DispatchInv, EndInv
<1>21. ASSUME NEW h \in Handles, Fiber(h) PROVE WorkInv'
  BY <1>1, <1>21 DEF Fiber, FiberStart, FiberCall, FiberPanic, FiberSignal, InCall
<1>22. CASE UNCHANGED vars
  BY <1>1, <1>22 DEF vars, InCall
<1> QED
  BY <1>2, <1>3, <1>4, <1>5, <1>6, <1>7, <1>8, <1>9, <1>10, <1>13, <1>14, <1>15, <1>16,
     <1>17, <1>18, <1>19, <1>20, <1>21, <1>22, CallStarts
  DEF Next, Lifecycle, CallStep, DropStep, Worker, Channels

(* Only a panic in a closure makes the worker panic, and it stays so.       *)
LEMMA PanickedForGood ==
  ASSUME [Next]_vars, wpc = "panicked" \/ wpc' = "panicked"
  PROVE  \/ PanicInCall
         \/ wpc = "panicked" /\ wpc' = "panicked" /\ Cur' = Cur
<1> USE DEF chanVars, clientVars, loopVars, launchVars, propVars, jobVars
<1>1. ASSUME wpc = "panicked"
      PROVE  wpc' = "panicked" /\ UNCHANGED <<clients, start_idx, offs>>
  BY <1>1
  DEF Next, Lifecycle, Clone, Entrust, DropHandle, RefuseIntoInner, DropRuntime,
      StartCall, Call, apply, apply_with, with, launch, into_inner, apply_batch_mut,
      CallStep, LoadRespWord, StoreReqWord, SeeAnswer, ReadResult, DropStep, JoinWorker,
      Worker, RoundStart, LoadReqWord, CheckChannel, DispatchCall, CallClosure,
      PanicInCall, Respond, DispatchLaunch, MoveOut, ReturnAfterMove, DispatchTerminate,
      JoinFibers, Fiber, FiberStart, FiberCall, FiberPanic, FiberSignal, vars
<1>2. ASSUME wpc # "panicked", wpc' = "panicked" PROVE PanicInCall
  BY <1>2
  DEF Next, Lifecycle, Clone, Entrust, DropHandle, RefuseIntoInner, DropRuntime,
      StartCall, Call, apply, apply_with, with, launch, into_inner, apply_batch_mut,
      CallStep, LoadRespWord, StoreReqWord, SeeAnswer, ReadResult, DropStep, JoinWorker,
      Worker, RoundStart, LoadReqWord, CheckChannel, DispatchCall, CallClosure,
      Respond, DispatchLaunch, MoveOut, ReturnAfterMove, DispatchTerminate,
      Served, NextOffs,
      JoinFibers, Fiber, FiberStart, FiberCall, FiberPanic, FiberSignal, vars
<1> QED
  BY <1>1, <1>2, CurStable

(* The caller in whose closure the worker panicked waits for a run that it  *)
(* will not get.                                                            *)
LostInv ==
  wpc = "panicked" =>
    /\ Cur \in Handles /\ cpc[Cur] = "wait"
    /\ slot[Cur].op # "launch"
    /\ owed[Cur] > 0

(* Nobody answers that caller, takes its record or runs its closure.        *)
LEMMA LostStep ==
  TypeInv /\ ProtocolInv /\ AccountInv /\ WorkInv /\ LostInv /\ [Next]_vars => LostInv'
<1> SUFFICES ASSUME TypeInv, ProtocolInv, AccountInv, WorkInv, LostInv, [Next]_vars,
                    wpc' = "panicked"
             PROVE  LostInv'
  BY DEF LostInv
<1> USE DEF chanVars, clientVars, loopVars, launchVars, propVars, jobVars
<1>t. TypeOK /\ AccountInv'
  BY AccountStep DEF TypeInv
<1>1. CASE PanicInCall
  <2>1. Cur' = Cur /\ Cur \in Handles /\ cpc[Cur] = "wait" /\ UNCHANGED <<cpc, slot, owed>>
    BY <1>1, <1>t, CurStable, CurInChannels
    DEF PanicInCall, ProtocolInv, ServeInv, OwnerInv, Channels
  <2>2. owed[Cur] > 0
    BY <1>1, <2>1 DEF PanicInCall, AccountInv, RunInv, TypeInv
  <2>3. slot[Cur].op # "launch"
    BY <1>1, PropertyPtrOf DEF PanicInCall, WorkInv, DispatchInv, Inline
  <2> QED
    BY <2>1, <2>2, <2>3 DEF LostInv
<1>2. CASE wpc = "panicked" /\ Cur' = Cur
  <2> DEFINE g == Cur
  <2>1. /\ g \in Handles /\ g \in Channels /\ g # Owner
        /\ cpc[g] = "wait" /\ slot[g].op # "launch" /\ owed[g] > 0
        /\ job[g] = "none"
    BY <1>2, ConstantsAssumption DEF LostInv, Channels, ProtocolInv, JobInv
  <2>2. ASSUME cpc'[g] = "wait", slot'[g] = slot[g], owed'[g] = owed[g] PROVE LostInv'
    BY <1>2, <2>1, <2>2 DEF LostInv
  <2> HIDE DEF g
  <2>3. ASSUME NEW h \in Handles, NEW d \in Handles, Clone(h, d) \/ Entrust(d) PROVE LostInv'
    BY <2>1, <2>2, <2>3, <1>t DEF Clone, Entrust, TypeOK, ClientType
  <2>4. ASSUME NEW h \in Handles, h # g, Release(h), owed' = owed PROVE LostInv'
    BY <2>1, <2>2, <2>4, <1>t DEF Release, ReleaseRuntime, TypeOK, ChannelType
  <2>5. ASSUME NEW h \in Handles, DropHandle(h) \/ RefuseIntoInner(h) PROVE LostInv'
    BY <2>1, <2>4, <2>5 DEF DropHandle, RefuseIntoInner
  <2>6. CASE DropRuntime
    BY <2>1, <2>2, <2>6, <1>t DEF DropRuntime, ReleaseRuntime, TypeOK, ChannelType, ClientType
  <2>7. ASSUME NEW h \in Handles, NEW op \in Ops, NEW n \in Repeats(op), StartCall(h, op, n)
        PROVE  LostInv'
    BY <2>1, <2>2, <2>7, <1>t DEF StartCall, TypeOK, ChannelType, ClientType, PropType
  <2>8. ASSUME NEW c \in Channels, LoadRespWord(c) \/ StoreReqWord(c) PROVE LostInv'
    BY <2>1, <2>2, <2>8, <1>t DEF LoadRespWord, StoreReqWord, TypeOK, ClientType
  <2>9. ASSUME NEW h \in Handles, SeeAnswer(h) PROVE LostInv'
    <3>1. CASE h = g
      <4>1. cpc'[g] = "read" /\ slot'[g] = slot[g] /\ owed'[g] = owed[g]
        BY <2>1, <2>9, <3>1, <1>t DEF SeeAnswer, TypeOK, ClientType
      <4> QED
        BY <1>t, <2>1, <4>1 DEF AccountInv, RunInv, LaunchPanicked
    <3>2. CASE h # g
      BY <2>1, <2>2, <2>9, <3>2, <1>t DEF SeeAnswer, TypeOK, ClientType
    <3> QED
      BY <3>1, <3>2
  <2>10. ASSUME NEW h \in Handles, ReadResult(h) PROVE LostInv'
    <3>1. h # g /\ owed' = owed
      BY <2>1, <2>10 DEF ReadResult
    <3>2. CASE slot[h].op = "into_inner"
      BY <2>4, <2>10, <3>1, <3>2 DEF ReadResult
    <3>3. CASE slot[h].op # "into_inner"
      BY <2>1, <2>2, <2>10, <3>1, <3>3, <1>t DEF ReadResult, TypeOK, ClientType
    <3> QED
      BY <3>2, <3>3
  <2>11. CASE JoinWorker
    BY <2>1, <2>2, <2>11, <1>t DEF JoinWorker, TypeOK, ClientType
  <2>12. ASSUME NEW h \in Handles, Fiber(h) PROVE LostInv'
    BY <2>1, <2>2, <2>12, <1>t
    DEF Fiber, FiberStart, FiberCall, FiberPanic, FiberSignal, TypeOK, PropType
  <2>13. CASE UNCHANGED vars
    BY <2>1, <2>2, <2>13 DEF vars
  <2>14. ~Worker
    BY <1>2
    DEF Worker, RoundStart, LoadReqWord, CheckChannel, DispatchCall, CallClosure,
        PanicInCall, Respond, DispatchLaunch, MoveOut, ReturnAfterMove,
        DispatchTerminate, JoinFibers
  <2> QED
    BY <2>3, <2>5, <2>6, <2>7, <2>8, <2>9, <2>10, <2>11, <2>12, <2>13, <2>14, CallStarts
    DEF Next, Lifecycle, CallStep, DropStep, Channels
<1> QED
  BY <1>1, <1>2, PanickedForGood

(* All the invariants hold together.                                        *)
LEMMA Invariants ==
  Spec => [](TypeInv /\ ProtocolInv /\ AccountInv /\ WorkInv /\ LostInv)
<1>1. Init => LostInv
  BY DEF Init, LostInv
<1> QED
  BY <1>1, TypeInit, TypeStep, ProtocolInit, ProtocolStep, AccountInit, AccountStep,
     WorkInit, WorkStep, LostStep, PTL
  DEF Spec

(* Remote::entrust keeps its promise that the runtime lives until the last  *)
(* handle drops, if no handle uses into_inner and no closure that the       *)
(* worker runs itself panics: then the worker ends only by the terminate    *)
(* record, which the last handle's drop writes.                             *)
THEOREM HandlesKeepRuntimeAlive ==
  ASSUME OwnedByHandles, "into_inner" \notin Ops,
         Ops \cap Panicking \subseteq {"launch"}
  PROVE  Spec => []RuntimeOutlivesHandles
<1>1. ASSUME TypeInv, ProtocolInv, WorkInv PROVE RuntimeOutlivesHandles
  <2> SUFFICES ASSUME WorkerEnded, NEW h \in Handles PROVE cpc[h] \in {"absent", "gone"}
    BY DEF RuntimeOutlivesHandles
  <2>1. wpc = "returned" /\ Cur = Owner
    BY <1>1 DEF WorkerEnded, WorkInv, EndInv
  <2>2. cpc[Owner] # "absent"
    BY <1>1, <2>1 DEF WorkInv, EndInv
  <2> QED
    BY <1>1, <2>2 DEF ProtocolInv, OwnerInv
<1> QED
  BY <1>1, Invariants, PTL

-----------------------------------------------------------------------------
(* The launches are jobs of a job service.                                  *)

(* The worker has been told to terminate, and has returned.                 *)
JobsClosed == wpc = "returned" /\ slot[Cur].op = "terminate"

(* Nothing but JoinFibers closes the service, and nothing opens it again.   *)
LEMMA ClosedStep ==
  ASSUME TypeInv, ProtocolInv, AccountInv, WorkInv, [Next]_vars
  PROVE  \/ JobsClosed' = JobsClosed
         \/ JoinFibers /\ JobsClosed'
<1> USE DEF chanVars, clientVars, loopVars, launchVars, propVars, jobVars
<1>t. TypeOK /\ WorkInv'
  BY WorkStep DEF TypeInv
<1>c. wpc # "top" => Cur \in Channels
  BY <1>t, CurInChannels
(* Until it has returned, the worker has not closed the service.            *)
<1>1. ASSUME wpc # "returned", wpc' # "returned" PROVE JobsClosed' = JobsClosed
  BY <1>1 DEF JobsClosed
<1>2. CASE ReturnAfterMove
  BY <1>2, CurStable DEF ReturnAfterMove, JobsClosed, WorkInv, DispatchInv
<1>3. CASE JoinFibers
  BY <1>3, <1>t, <1>c, CurStable DEF JoinFibers, JobsClosed, WorkInv, EndInv
<1>4. ASSUME wpc = "returned"
      PROVE  wpc' = "returned" /\ UNCHANGED <<clients, start_idx, offs>>
  BY <1>4 DEF Next, Lifecycle, Clone, Entrust, DropHandle, RefuseIntoInner, DropRuntime,
         StartCall, Call, apply, apply_with, with, launch, into_inner,
         apply_batch_mut, CallStep, LoadRespWord, StoreReqWord, SeeAnswer, ReadResult,
         DropStep, JoinWorker, Worker, RoundStart, LoadReqWord, CheckChannel,
         DispatchCall, CallClosure, PanicInCall, Respond, DispatchLaunch, MoveOut,
         ReturnAfterMove, DispatchTerminate, JoinFibers, Fiber, FiberStart, FiberCall,
         FiberPanic, FiberSignal, vars
<1>5. ASSUME wpc # "returned", wpc' = "returned" PROVE ReturnAfterMove \/ JoinFibers
  BY <1>5 DEF Next, Lifecycle, Clone, Entrust, DropHandle, RefuseIntoInner, DropRuntime,
         StartCall, Call, apply, apply_with, with, launch, into_inner,
         apply_batch_mut, CallStep, LoadRespWord, StoreReqWord, SeeAnswer, ReadResult,
         DropStep, JoinWorker, Worker, RoundStart, LoadReqWord, CheckChannel,
         DispatchCall, CallClosure, PanicInCall, Respond, DispatchLaunch, MoveOut,
         DispatchTerminate, Served, NextOffs, Fiber, FiberStart, FiberCall,
         FiberPanic, FiberSignal, vars
(* Afterwards the record that made it return says which way it ended.       *)
<1>6. CASE wpc = "returned"
  <2>1. wpc' = "returned" /\ Cur' = Cur /\ Cur \in Channels
    BY <1>4, <1>6, <1>c, CurStable
  <2>2. JobsClosed <=> Cur = Owner
    BY <1>6, <2>1 DEF JobsClosed, WorkInv, EndInv, RecordInv, Channels
  <2>3. JobsClosed' <=> Cur = Owner
    BY <1>t, <2>1 DEF JobsClosed, WorkInv, EndInv, RecordInv, Channels
  <2> QED
    BY <2>2, <2>3 DEF JobsClosed
<1> QED
  BY <1>1, <1>2, <1>3, <1>5, <1>6

(* Each step is one of JobService's, or invisible to it.                    *)
LEMMA JobsStep ==
  ASSUME TypeInv, ProtocolInv, AccountInv, WorkInv, [Next]_vars
  PROVE  [Jobs!Next]_(Jobs!vars)
<1> USE DEF chanVars, clientVars, loopVars, launchVars, propVars, jobVars
<1>t. TypeOK
  BY DEF TypeInv
<1>v. ASSUME UNCHANGED <<job, JobsClosed>> PROVE UNCHANGED Jobs!vars
  BY <1>v DEF Jobs!vars, JobsClosed
<1>m. ASSUME NEW c \in Channels, NEW from, NEW to, job[c] = from,
             job' = [job EXCEPT ![c] = to]
      PROVE  Jobs!Move(c, from, to)
  BY <1>m DEF Jobs!Move
<1>1. CASE JoinFibers
  <2>1. JobsClosed' = JobsClosed \/ JobsClosed' = TRUE
    BY ClosedStep DEF JobsClosed
  <2>2. CASE JobsClosed' = JobsClosed
    BY <1>1, <1>v, <2>2 DEF JoinFibers
  <2>3. CASE JobsClosed' = TRUE
    <3>1. Jobs!Close
      BY <1>1, <2>3 DEF JoinFibers, Jobs!Close, JobsClosed
    <3> QED
      BY <3>1 DEF Jobs!Next
  <2> QED
    BY <2>1, <2>2, <2>3
<1>2. CASE DispatchLaunch
  <2>1. Cur \in Channels /\ job[Cur] = "none" /\ ~JobsClosed /\ JobsClosed' = JobsClosed
    BY <1>2, <1>t, CurInChannels
    DEF DispatchLaunch, Served, NextOffs, ProtocolInv, ServeInv, JobsClosed
  <2>2. Jobs!Submit(Cur)
    BY <1>2, <1>m, <2>1 DEF DispatchLaunch, Jobs!Submit, JobsClosed
  <2> QED
    BY <2>1, <2>2 DEF Jobs!Next
<1>3. ASSUME NEW h \in Handles, Fiber(h) PROVE Jobs!Next
  <2>1. h \in Channels /\ UNCHANGED JobsClosed
    BY <1>3, CurStable
    DEF Fiber, FiberStart, FiberCall, FiberPanic, FiberSignal, JobsClosed, Channels
  <2>2. Jobs!Start(h) \/ Jobs!Finish(h) \/ Jobs!Answer(h)
    BY <1>3, <1>m, <2>1
    DEF Fiber, FiberStart, FiberCall, FiberPanic, FiberSignal, Jobs!Start, Jobs!Finish,
        Jobs!Answer, JobsClosed
  <2> QED
    BY <2>1, <2>2 DEF Jobs!Next
<1>4. \/ JoinFibers \/ DispatchLaunch \/ \E h \in Handles : Fiber(h)
      \/ job' = job /\ ~JoinFibers
  BY DEF Next, Lifecycle, Clone, Entrust, DropHandle, RefuseIntoInner, DropRuntime,
         StartCall, Call, apply, apply_with, with, launch, into_inner,
         apply_batch_mut, CallStep, LoadRespWord, StoreReqWord, SeeAnswer, ReadResult,
         DropStep, JoinWorker, Worker, RoundStart, LoadReqWord, CheckChannel,
         DispatchCall, CallClosure, PanicInCall, Respond, MoveOut, ReturnAfterMove,
         DispatchTerminate, vars
<1>5. CASE job' = job /\ ~JoinFibers
  BY <1>5, <1>v, ClosedStep
<1> QED
  BY <1>1, <1>2, <1>3, <1>4, <1>5

(* The worker and the launches it hands out use a job service properly: one *)
(* job per channel at a time, none after it has been terminated, and it     *)
(* terminates with no job left - whatever the handles do, panics included.  *)
THEOREM WorkerUsesJobs == Spec => ImplementsJobs
<1>1. Init => Jobs!Init
  BY DEF Init, Jobs!Init
<1>2. TypeInv /\ ProtocolInv /\ AccountInv /\ WorkInv /\ [Next]_vars
        => [Jobs!Next]_(Jobs!vars)
  BY JobsStep
<1> QED
  BY <1>1, <1>2, Invariants, PTL DEF Spec, ImplementsJobs, Jobs!Spec

-----------------------------------------------------------------------------
(* The handles are those of a trust.                                        *)

(* The refinement mapping, by handle.                                       *)
TrustCall(h) ==
  IF ~InCall(h) THEN [op |-> "none", total |-> 0, left |-> 0]
  ELSE IF PanickedIn(h) THEN [op |-> "lost", total |-> 0, left |-> 0]
  ELSE [op |-> slot[h].op, total |-> slot[h].repeat_count, left |-> owed[h]]
TrustCalls == [h \in Handles |-> TrustCall(h)]
TrustResults == [h \in Handles |-> out[h]]

(* Two kinds of use a trust does not cover: a launch that panics is         *)
(* answered without a result, and a launch may run on after into_inner.     *)
TrustworthyOps ==
  /\ "launch" \notin Ops \cap Panicking
  /\ ~({"launch", "into_inner"} \subseteq Ops)

(* While the worker serves one handle, no other has a batch half done: runs *)
(* are owed in full or not at all, or the one run of a launch is.           *)
LEMMA NoOtherMidBatch ==
  ASSUME TypeInv, ProtocolInv, AccountInv, ~WorkerEnded, NEW d \in Handles, InCall(d),
         ~(wpc \in {"call", "respond", "moved"} /\ Cur = d)
  PROVE  owed[d] \notin 1 .. (slot[d].repeat_count - 1)
<1>1. /\ d \in Channels /\ owed[d] \in Int
      /\ slot[d].repeat_count \in Nat
      /\ RunInv(d) /\ JobInv(d)
  BY DEF Channels, TypeInv, TypeOK, ChannelType, PropType, Records, AccountInv, ProtocolInv
<1>2. slot[d].op = "launch" => slot[d].repeat_count = 1
  BY <1>1 DEF RunInv, Repeats
<1>3. \/ owed[d] = slot[d].repeat_count
      \/ owed[d] = 0
      \/ slot[d].op = "launch"
  <2>1. CASE job[d] # "none"
    BY <1>1, <2>1 DEF JobInv
  <2>2. CASE job[d] = "none"
    BY <1>1, <2>2 DEF RunInv, Untouched, InCall, LaunchPanicked
  <2> QED
    BY <2>1, <2>2
<1> QED
  BY <1>1, <1>2, <1>3

(* A step that no caller can tell from a stuttering one.                    *)
LEMMA TrustStutters ==
  ASSUME UNCHANGED <<prop, moved>>,
         \A h \in Handles : /\ InCall(h)' <=> InCall(h)
                            /\ PanickedIn(h)' <=> PanickedIn(h)
                            /\ InCall(h) => slot'[h] = slot[h] /\ owed'[h] = owed[h]
                            /\ out'[h] = out[h]
  PROVE  UNCHANGED Trust!vars
<1>1. \A h \in Handles : TrustCall(h)' = TrustCall(h)
  BY DEF TrustCall
<1>2. TrustCalls' = TrustCalls /\ TrustResults' = TrustResults
  BY <1>1 DEF TrustCalls, TrustResults
<1> QED
  BY <1>2 DEF TrustCalls, TrustResults, TrustCall, Trust!vars

(* One run of the closure of h's call is one effect on the value.           *)
LEMMA TrustEffect ==
  ASSUME TypeOK, NEW h \in Handles, InCall(h), slot[h].op \in OpKinds, owed[h] > 0, ~moved,
         slot[h].op # "launch" =>
           \A d \in Handles \ {h} :
             InCall(d) => owed[d] \notin 1 .. (slot[d].repeat_count - 1),
         UNCHANGED <<cpc, slot>>, ~PanickedIn(h),
         \A d \in Handles : PanickedIn(d)' <=> PanickedIn(d),
         owed' = [owed EXCEPT ![h] = @ - 1],
         prop' = Outcome(slot[h].op, prop),
         out' = IF slot[h].op = "apply_batch_mut" THEN out
                ELSE [out EXCEPT ![h] = Outcome(slot[h].op, prop)],
         moved' = (slot[h].op = "into_inner")
  PROVE  Trust!Next
<1>1. /\ h \in Channels
      /\ owed \in [Channels -> Int]
      /\ out \in [Channels -> Values \cup {NoValue}]
  BY DEF Channels, TypeOK, ChannelType, PropType
<1>2. /\ TrustCalls[h] = [op |-> slot[h].op, total |-> slot[h].repeat_count, left |-> owed[h]]
      /\ TrustCalls' = [TrustCalls EXCEPT ![h].left = @ - 1]
  <2>1. \A d \in Handles \ {h} : TrustCall(d)' = TrustCall(d)
    BY <1>1 DEF TrustCall, InCall, Channels
  <2>2. TrustCall(h)' = [TrustCall(h) EXCEPT !.left = @ - 1]
    BY <1>1 DEF TrustCall, InCall
  <2>3. TrustCalls' = [TrustCalls EXCEPT ![h].left = @ - 1]
    BY <2>1, <2>2 DEF TrustCalls
  <2> QED
    BY <2>3 DEF TrustCalls, TrustCall
<1>3. slot[h].op \in Trust!WithResult <=> slot[h].op # "apply_batch_mut"
  BY DEF Trust!WithResult, OpKinds
<1>4. \A v : Trust!Outcome(slot[h].op, v) = Outcome(slot[h].op, v)
  BY DEF Trust!Outcome, Outcome, Trust!Mutating, Mutating
<1>5. TrustResults' = IF slot[h].op \in Trust!WithResult
                        THEN [TrustResults EXCEPT ![h] = Outcome(slot[h].op, prop)]
                        ELSE TrustResults
  BY <1>1, <1>3 DEF TrustResults, Channels
<1>6. slot[h].op # "launch" => \A d \in Handles \ {h} : ~Trust!MidBatch(d)
  BY DEF Trust!MidBatch
<1>7. moved = FALSE
  BY DEF TypeOK, PropType
<1>8. Trust!Effect(h)
  BY <1>2, <1>4, <1>5, <1>6, <1>7
  DEF Trust!Effect, Trust!MayRun, TrustCalls, TrustCall, TrustResults
<1> QED
  BY <1>8 DEF Trust!Next

(* Each step is one of TrustObject's, or invisible to the callers.          *)
LEMMA TrustStep ==
  ASSUME TrustworthyOps, TypeInv, ProtocolInv, AccountInv, WorkInv, LostInv, [Next]_vars
  PROVE  [Trust!Next]_(Trust!vars)
<1> USE DEF chanVars, clientVars, loopVars, launchVars, propVars, jobVars
<1>t. TypeOK
  BY DEF TypeInv
<1>c. wpc # "top" => Cur \in Channels
  BY <1>t, CurInChannels
<1>h. \A h \in Handles : h \in Channels /\ h # Owner
  BY ConstantsAssumption DEF Channels
<1>p. \A h \in Handles : InCall(h) => slot[h].op \in Ops /\ ~LaunchPanicked(h)
  BY DEF WorkInv, RecordInv, TrustworthyOps, LaunchPanicked
(* A closure that panics on the worker: its caller is lost.                 *)
<1>q. CASE PanicInCall
  <2>1. /\ Cur \in Handles /\ InCall(Cur) /\ owed[Cur] = left /\ left > 0
        /\ moved = FALSE /\ ~WorkerEnded /\ wpc = "call"
    BY <1>q, <1>c, <1>t
    DEF PanicInCall, ProtocolInv, OwnerInv, ServeInv, AccountInv, RunInv, TypeInv,
        WorkInv, EndInv, InCall, Channels, WorkerEnded, TypeOK, PropType
  <2>2. \A d \in Handles \ {Cur} :
          InCall(d) => owed[d] \notin 1 .. (slot[d].repeat_count - 1)
    BY <2>1, NoOtherMidBatch
  <2>3. /\ UNCHANGED <<cpc, slot, owed, out, moved>>
        /\ wpc' = "panicked" /\ Cur' = Cur
        /\ prop' \in {prop, Outcome(slot[Cur].op, prop)}
    BY <1>q, CurStable DEF PanicInCall
  <2>0. PICK g \in Handles : g = Cur
    BY <2>1
  <2>4. /\ \A d \in Handles \ {g} : TrustCall(d)' = TrustCall(d)
        /\ TrustCall(g)' = [op |-> "lost", total |-> 0, left |-> 0]
        /\ TrustCall(g) = [op |-> slot[g].op, total |-> slot[g].repeat_count,
                           left |-> owed[g]]
    BY <2>0, <2>1, <2>3 DEF TrustCall, PanickedIn, InCall
  <2>5. TrustCalls' = [TrustCalls EXCEPT ![g] = [op |-> "lost", total |-> 0, left |-> 0]]
    BY <2>4 DEF TrustCalls
  <2>6. \A d \in Handles \ {g} : ~Trust!MidBatch(d)
    BY <2>0, <2>2 DEF Trust!MidBatch
  <2>7. Trust!Outcome(slot[g].op, prop) = Outcome(slot[g].op, prop)
    BY DEF Trust!Outcome, Outcome, Trust!Mutating, Mutating
  <2>8. Trust!MayRun(g)
    BY <2>0, <2>1, <2>4, <2>6 DEF Trust!MayRun, TrustCalls, TrustCall
  <2>9. Trust!Unwind(g)
    BY <2>0, <2>1, <2>3, <2>4, <2>5, <2>7, <2>8
    DEF Trust!Unwind, Trust!Lost, TrustCalls, TrustCall
  <2> QED
    BY <2>9 DEF Trust!Next
<1> SUFFICES ASSUME ~PanicInCall PROVE [Trust!Next]_(Trust!vars)
  BY <1>q
<1>l. \A h \in Handles : PanickedIn(h)' <=> PanickedIn(h)
  BY PanickedForGood DEF PanickedIn
<1>n. \A h \in Handles :
        PanickedIn(h) => cpc[h] = "wait" /\ slot[h].op # "launch" /\ owed[h] > 0
  BY DEF PanickedIn, LostInv
(* A client that moves inside a call or outside of one.                     *)
<1>1. ASSUME UNCHANGED <<out, owed, prop, moved>>,
             \A h \in Handles : /\ InCall(h)' <=> InCall(h)
                                /\ InCall(h) => slot'[h] = slot[h]
      PROVE  UNCHANGED Trust!vars
  BY <1>1, <1>l, TrustStutters
<1>2. ASSUME NEW h \in Handles, NEW d \in Handles, Clone(h, d) PROVE UNCHANGED Trust!vars
  BY <1>1, <1>2, <1>t DEF Clone, InCall, TypeOK, ClientType
<1>3. ASSUME NEW d \in Handles, Entrust(d) PROVE UNCHANGED Trust!vars
  BY <1>1, <1>3, <1>t DEF Entrust, InCall, TypeOK, ClientType
<1>4. ASSUME NEW h \in Handles, Release(h)
      PROVE  /\ ~InCall(h)'
             /\ \A d \in Handles \ {h} : InCall(d)' <=> InCall(d)
             /\ \A d \in Handles : slot'[d] = slot[d]
  BY <1>4, <1>h, <1>t DEF Release, ReleaseRuntime, InCall, TypeOK, ChannelType
<1>5. ASSUME NEW h \in Handles, DropHandle(h) \/ RefuseIntoInner(h)
      PROVE  UNCHANGED Trust!vars
  <2>1. ~InCall(h) /\ Release(h) /\ UNCHANGED <<out, owed, prop, moved>>
    BY <1>5 DEF DropHandle, RefuseIntoInner, InCall
  <2> QED
    BY <1>1, <1>4, <2>1
<1>6. ASSUME DropRuntime PROVE UNCHANGED Trust!vars
  BY <1>1, <1>6, <1>h, <1>t
  DEF DropRuntime, ReleaseRuntime, InCall, TypeOK, ChannelType, ClientType
<1>7. ASSUME NEW h \in Handles, NEW op \in Ops, NEW n \in Repeats(op),
             StartCall(h, op, n)
      PROVE  Trust!Next
  <2>1. \A d \in Handles \ {h} : TrustCall(d)' = TrustCall(d)
    BY <1>7, <1>h, <1>t, <1>l
    DEF StartCall, TrustCall, InCall, TypeOK, ChannelType, ClientType, PropType
  <2>2. /\ TrustCall(h) = [op |-> "none", total |-> 0, left |-> 0]
        /\ TrustCall(h)' = [op |-> op, total |-> n, left |-> n]
    BY <1>7, <1>h, <1>t, <1>l, <1>n
    DEF StartCall, Record, TrustCall, InCall, TypeOK, ChannelType, ClientType, PropType
  <2>3. TrustCalls' = [TrustCalls EXCEPT ![h] = [op |-> op, total |-> n, left |-> n]]
    BY <2>1, <2>2 DEF TrustCalls
  <2>4. Trust!Invoke(h, op, n)
    BY <1>7, <2>2, <2>3
    DEF StartCall, Trust!Invoke, Trust!NoCall, TrustCalls, TrustCall
  <2>5. n \in Trust!Repeats(op)
    BY DEF Repeats, Trust!Repeats
  <2> QED
    BY <2>4, <2>5 DEF Trust!Next
<1>8. ASSUME NEW c \in Channels, LoadRespWord(c) \/ StoreReqWord(c)
      PROVE  UNCHANGED Trust!vars
  BY <1>1, <1>8, <1>h, <1>t
  DEF LoadRespWord, StoreReqWord, InCall, TypeOK, ClientType, ProtocolInv, OwnerInv
<1>9. ASSUME NEW h \in Handles, SeeAnswer(h) PROVE UNCHANGED Trust!vars
  BY <1>1, <1>9, <1>h, <1>t DEF SeeAnswer, InCall, TypeOK, ClientType
<1>10. ASSUME NEW h \in Handles, ReadResult(h) PROVE Trust!Next
  <2>1. /\ InCall(h) /\ ~PanickedIn(h) /\ owed[h] = 0
        /\ slot[h].op \notin {"none", "lost"}
        /\ UNCHANGED <<out, owed, prop, moved>>
    BY <1>10, <1>n, <1>p DEF ReadResult, InCall, AccountInv, RunInv, OpKinds
  <2>2. /\ ~InCall(h)'
        /\ \A d \in Handles \ {h} : InCall(d)' <=> InCall(d)
        /\ \A d \in Handles : slot'[d] = slot[d]
    BY <1>4, <1>10, <1>h, <1>t DEF ReadResult, InCall, TypeOK, ClientType
  <2>3. /\ \A d \in Handles \ {h} : TrustCall(d)' = TrustCall(d)
        /\ TrustCall(h) = [op |-> slot[h].op, total |-> slot[h].repeat_count, left |-> 0]
        /\ TrustCall(h)' = [op |-> "none", total |-> 0, left |-> 0]
    BY <1>l, <2>1, <2>2 DEF TrustCall
  <2>4. TrustCalls' = [TrustCalls EXCEPT ![h] = [op |-> "none", total |-> 0, left |-> 0]]
    BY <2>3 DEF TrustCalls
  <2>5. Trust!Return(h)
    BY <2>1, <2>3, <2>4 DEF Trust!Return, Trust!NoCall, TrustCalls, TrustCall
  <2> QED
    BY <2>5 DEF Trust!Next
(* The worker's runs.                                                       *)
<1>11. CASE CallClosure
  <2>1. /\ Cur \in Handles /\ cpc[Cur] = "wait" /\ InCall(Cur)
        /\ slot[Cur].op \in OpKinds
        /\ owed[Cur] = left /\ left > 0
        /\ ~moved /\ ~WorkerEnded /\ wpc = "call" /\ ~PanickedIn(Cur)
    BY <1>11, <1>c
    DEF CallClosure, ProtocolInv, OwnerInv, ServeInv, AccountInv, RunInv, TypeInv,
        WorkInv, EndInv, InCall, Channels, WorkerEnded, PanickedIn
  <2>2. \A d \in Handles \ {Cur} :
          InCall(d) => owed[d] \notin 1 .. (slot[d].repeat_count - 1)
    BY <2>1, NoOtherMidBatch
  <2>3. slot[Cur].op # "into_inner"
    BY <2>1, PropertyPtrOf DEF WorkInv, DispatchInv, Inline
  <2>4. /\ UNCHANGED <<cpc, slot>>
        /\ owed' = [owed EXCEPT ![Cur] = @ - 1]
        /\ prop' = Outcome(slot[Cur].op, prop)
        /\ out' = IF slot[Cur].op = "apply_batch_mut" THEN out
                  ELSE [out EXCEPT ![Cur] = Outcome(slot[Cur].op, prop)]
        /\ moved' = moved
    BY <1>11, PropertyPtrOf DEF CallClosure
  <2>5. moved' = (slot[Cur].op = "into_inner")
    BY <1>t, <2>1, <2>3, <2>4 DEF TypeOK, PropType
  <2> QED
    BY <1>l, <1>t, <2>1, <2>2, <2>4, <2>5, TrustEffect
<1>12. CASE MoveOut
  <2>1. slot[Cur].op = "into_inner"
    BY <1>12, PropertyPtrOf DEF MoveOut
  <2>2. /\ Cur \in Handles /\ cpc[Cur] = "wait" /\ InCall(Cur)
        /\ ~moved /\ ~WorkerEnded /\ wpc = "dispatch" /\ ~PanickedIn(Cur)
    BY <1>12, <1>c, <2>1
    DEF MoveOut, ProtocolInv, OwnerInv, ServeInv, WorkInv, EndInv, InCall, Channels,
        WorkerEnded, PanickedIn
  <2>3. owed[Cur] > 0
    <3>1. Untouched(Cur)
      BY <2>2 DEF Untouched, ProtocolInv, ServeInv
    <3>2. slot[Cur].repeat_count = 1
      BY <2>1, <2>2 DEF AccountInv, RunInv, Repeats
    <3> QED
      BY <2>2, <3>1, <3>2 DEF AccountInv, RunInv
  <2>4. \A d \in Handles \ {Cur} :
          InCall(d) => owed[d] \notin 1 .. (slot[d].repeat_count - 1)
    BY <2>2, NoOtherMidBatch
  <2>5. Outcome(slot[Cur].op, prop) = prop
    BY <2>1 DEF Outcome, Mutating
  <2>6. /\ UNCHANGED <<cpc, slot>>
        /\ owed' = [owed EXCEPT ![Cur] = @ - 1]
        /\ prop' = Outcome(slot[Cur].op, prop)
        /\ out' = IF slot[Cur].op = "apply_batch_mut" THEN out
                  ELSE [out EXCEPT ![Cur] = Outcome(slot[Cur].op, prop)]
        /\ moved' = (slot[Cur].op = "into_inner")
        /\ slot[Cur].op \in OpKinds
    BY <1>12, <2>1, <2>5 DEF MoveOut, OpKinds
  <2> QED
    BY <1>l, <1>t, <2>2, <2>3, <2>4, <2>6, TrustEffect
<1>13. CASE \/ RoundStart \/ LoadReqWord \/ CheckChannel \/ DispatchCall
            \/ Respond \/ DispatchLaunch \/ ReturnAfterMove \/ DispatchTerminate
            \/ JoinFibers \/ JoinWorker
  BY <1>1, <1>13, <1>h, <1>t
  DEF RoundStart, LoadReqWord, CheckChannel, DispatchCall, Respond,
      DispatchLaunch, ReturnAfterMove, DispatchTerminate, JoinFibers, JoinWorker,
      InCall, TypeOK, ClientType
(* The launches.                                                            *)
<1>14. ASSUME NEW h \in Handles, job[h] # "none"
       PROVE  InCall(h) /\ slot[h].op = "launch" /\ ~moved
  BY <1>14, <1>h, <1>p
  DEF ProtocolInv, JobInv, InCall, WorkInv, EndInv, TrustworthyOps
<1>15. ASSUME NEW h \in Handles, FiberCall(h) PROVE Trust!Next
  <2>1. InCall(h) /\ slot[h].op = "launch" /\ ~moved /\ owed[h] = 1 /\ ~PanickedIn(h)
    BY <1>14, <1>15, <1>n DEF FiberCall, AccountInv, RunInv
  <2>2. Outcome(slot[h].op, prop) = prop
    BY <2>1 DEF Outcome, Mutating
  <2>3. /\ UNCHANGED <<cpc, slot>>
        /\ owed' = [owed EXCEPT ![h] = @ - 1]
        /\ prop' = Outcome(slot[h].op, prop)
        /\ out' = IF slot[h].op = "apply_batch_mut" THEN out
                  ELSE [out EXCEPT ![h] = Outcome(slot[h].op, prop)]
        /\ moved' = (slot[h].op = "into_inner")
        /\ slot[h].op \in OpKinds
    BY <1>15, <1>t, <2>1, <2>2 DEF FiberCall, OpKinds, TypeOK, PropType
  <2>4. /\ owed[h] > 0
        /\ slot[h].op # "launch" =>
             \A d \in Handles \ {h} :
               InCall(d) => owed[d] \notin 1 .. (slot[d].repeat_count - 1)
    BY <2>1
  <2> QED
    BY <1>l, <1>t, <2>1, <2>3, <2>4, TrustEffect
<1>16. ASSUME NEW h \in Handles, FiberPanic(h) PROVE FALSE
  BY <1>14, <1>16, <1>p DEF FiberPanic, LaunchPanicked
<1>17. ASSUME NEW h \in Handles, FiberStart(h) \/ FiberSignal(h)
       PROVE  UNCHANGED Trust!vars
  BY <1>1, <1>17 DEF FiberStart, FiberSignal, InCall
<1>18. CASE UNCHANGED vars
  BY <1>1, <1>18 DEF vars, InCall
<1> QED
  BY <1>2, <1>3, <1>5, <1>6, <1>7, <1>8, <1>9, <1>10, <1>11, <1>12, <1>13, <1>15, <1>16,
     <1>17, <1>18, CallStarts
  DEF Next, Lifecycle, CallStep, DropStep, Worker, Fiber, Channels

(* Remote handles are a trust: however many there are, whatever T, its      *)
(* mutation, the repeat counts and the polling constants, a closure run on  *)
(* the trustee is one atomic effect on the value, as often as asked,        *)
(* batches uninterrupted, between call and return, with its own result;     *)
(* after into_inner none runs; a caller whose closure panics on the worker  *)
(* is never answered.  Excepted are launches that panic, and launches       *)
(* together with into_inner, which break it.                                *)
THEOREM RemoteIsATrust ==
  ASSUME TrustworthyOps
  PROVE  Spec => ImplementsTrust
<1>1. Init => Trust!Init
  <2> SUFFICES ASSUME Init PROVE Trust!Init
    OBVIOUS
  <2>1. \A h \in Handles : ~InCall(h) /\ out[h] = NoValue
    BY DEF Init, InCall, Channels
  <2> QED
    BY <2>1 DEF Init, Trust!Init, Trust!NoCall
<1>2. TypeInv /\ ProtocolInv /\ AccountInv /\ WorkInv /\ LostInv /\ [Next]_vars
        => [Trust!Next]_(Trust!vars)
  BY TrustStep
<1> QED
  BY <1>1, <1>2, Invariants, PTL DEF Spec, ImplementsTrust, Trust!Spec

=============================================================================
