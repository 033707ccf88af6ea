--------------------------- MODULE FiberPoolProofs ---------------------------
(* Machine-checked proofs about FiberPool.                                  *)
EXTENDS FiberPool, SequenceTheorems, FiniteSetTheorems, TLAPS

-----------------------------------------------------------------------------
(* The inductive invariant, in parts.                                       *)

(* What the worker and the terminator have in their hands goes with where   *)
(* they are.                                                                *)
HandsOK ==
  /\ wjob # NoOne <=> wpc \in {"pop", "send"}
  /\ wtx # NoOne <=> wpc = "send"
  /\ ttx # NoOne <=> tpc = "send"
  /\ tpc = "unborn" <=> wpc \notin {"join", "join_terminator", "returned"}

(* A channel has room for one job at most, and only a fiber that waits in   *)
(* recv has one; a fiber has a caller's job from Recv to Signal.            *)
ChannelsOK ==
  /\ \A f \in Fibers : chan[f] # <<>> => fpc[f] = "recv" /\ Len(chan[f]) = 1
  /\ \A f \in Fibers : fjob[f] # NoOne <=> fpc[f] \in {"run", "guard"}

(* A launch is in one place: in the worker's hands, in one channel, or in   *)
(* one fiber; and there is a place for each one that was taken.             *)
InChan(c, f) == chan[f] # <<>> /\ Head(chan[f]) = c

PlacesOK ==
  /\ \A f \in Fibers : fjob[f] # NoOne => fjob[f] # wjob
  /\ \A f \in Fibers, c \in Callers : InChan(c, f) => c # wjob
  /\ \A f, g \in Fibers : fjob[f] # NoOne /\ fjob[f] = fjob[g] => f = g
  /\ \A f, g \in Fibers, c \in Callers : InChan(c, f) => fjob[g] # c
  /\ \A f, g \in Fibers, c \in Callers : InChan(c, f) /\ InChan(c, g) => f = g

LaunchedOK ==
  \A c \in Callers :
    call[c] = "launched" <=> \/ wjob = c
                             \/ \E f \in Fibers : InChan(c, f) \/ fjob[f] = c

(* The worker has the handle of every fiber that is alive, until it has     *)
(* joined them all.                                                         *)
HandlesOK ==
  /\ wpc \in {"serve", "pop", "send", "join"} =>
       \A f \in Fibers : fpc[f] = "unborn" \/ Ended(f)
                           \/ \E i \in DOMAIN handles : handles[i] = f
  /\ wpc \in {"join_terminator", "returned"} =>
       \A f \in Fibers : fpc[f] = "unborn" \/ Ended(f)

(* The count of the Arc: one for the worker until it goes, one for the job  *)
(* in its hands, one for each fiber with a job in its channel or in its     *)
(* hands.  T is dropped when the count gets to zero, and it stays there.    *)
ArcHolders ==
  {f \in Fibers : \/ fpc[f] \in {"run", "guard", "arc"}
                  \/ chan[f] # <<>> /\ Head(chan[f]) # Shutdown}

WorkerArcs ==
  (IF wpc \in {"returned", "left"} THEN 0 ELSE 1) + (IF wjob = NoOne THEN 0 ELSE 1)

ArcsOK ==
  /\ IsFiniteSet(ArcHolders)
  /\ refs = Cardinality(ArcHolders) + WorkerArcs
  /\ drops = IF refs = 0 THEN 1 ELSE 0

(* TypeOK but for the two counts, which ArcsOK accounts for.                *)
ShapeOK ==
  /\ call \in [Callers -> {"idle", "asking", "launched"}]
  /\ wpc \in {"serve", "pop", "send", "join", "join_terminator", "returned",
              "unwind", "left"}
  /\ wjob \in Callers \cup {NoOne}
  /\ wtx \in Fibers \cup {NoOne}
  /\ handles \in Seq(Fibers)
  /\ pool \in Seq(Fibers)
  /\ chan \in [Fibers -> Seq(Callers \cup {Shutdown})]
  /\ fpc \in [Fibers -> {"unborn", "recv", "run", "guard", "arc", "push",
                         "exited", "dead"}]
  /\ fjob \in [Fibers -> Callers \cup {NoOne}]
  /\ panicking \in [Fibers -> BOOLEAN]
  /\ tpc \in {"unborn", "sweep", "send", "exited"}
  /\ ttx \in Fibers \cup {NoOne}
  /\ done \in BOOLEAN
  /\ given \in BOOLEAN

PoolInv ==
  /\ ShapeOK
  /\ HandsOK
  /\ ChannelsOK
  /\ SendersAreIdleFibers
  /\ PlacesOK
  /\ LaunchedOK
  /\ HandlesOK
  /\ ArcsOK

-----------------------------------------------------------------------------
(* Sequences, and the two sends.                                            *)

(* What is left of a queue after a pop: the same elements, one place up.    *)
LEMMA TailShifts ==
  ASSUME NEW S, NEW q \in Seq(S), q # <<>>
  PROVE  /\ Head(q) = q[1] /\ 1 \in DOMAIN q /\ Head(q) \in S
         /\ Tail(q) \in Seq(S)
         /\ \A i \in DOMAIN Tail(q) : i + 1 \in DOMAIN q /\ i + 1 # 1 /\ Tail(q)[i] = q[i + 1]
  OBVIOUS

(* Taking the head off a queue loses nothing but the head.                  *)
LEMMA TailKeeps ==
  ASSUME NEW S, NEW q \in Seq(S), NEW i \in DOMAIN q, q[i] # Head(q)
  PROVE  \E j \in DOMAIN Tail(q) : Tail(q)[j] = q[i]
<1>1. i - 1 \in DOMAIN Tail(q) /\ Tail(q)[i - 1] = q[i]
  OBVIOUS
<1> QED
  BY <1>1

(* Appending to a queue keeps its elements where they are.                  *)
LEMMA AppendKeeps ==
  ASSUME NEW S, NEW q \in Seq(S), NEW x \in S
  PROVE  /\ \A i \in DOMAIN q : i \in DOMAIN Append(q, x) /\ Append(q, x)[i] = q[i]
         /\ Len(q) + 1 \in DOMAIN Append(q, x) /\ Append(q, x)[Len(q) + 1] = x
  OBVIOUS

(* A send to an empty channel puts the job there and nothing else; what the *)
(* other channels hold does not change.                                     *)
Put(f, j) ==
  /\ chan' \in [Fibers -> Seq(Callers \cup {Shutdown})]
  /\ chan'[f] # <<>> /\ Len(chan'[f]) = 1 /\ Head(chan'[f]) = j
  /\ \A g \in Fibers \ {f} : chan'[g] = chan[g]

(* A message to an idle fiber is the only one in its channel.               *)
LEMMA SendPuts ==
  ASSUME ShapeOK, NEW f \in Fibers, NEW j \in Callers \cup {Shutdown},
         Idle(f), chan' = [chan EXCEPT ![f] = Append(@, j)]
  PROVE  Put(f, j)
<1>1. chan \in [Fibers -> Seq(Callers \cup {Shutdown})] /\ chan[f] = <<>>
  BY DEF ShapeOK, Idle
<1>2. DEFINE q == Append(chan[f], j)
<1>3. q \in Seq(Callers \cup {Shutdown}) /\ Len(q) = 1 /\ q[1] = j
  BY <1>1
<1>4. chan' = [chan EXCEPT ![f] = q]
  OBVIOUS
<1> HIDE DEF q
<1>5. q # <<>>
  BY <1>3
<1>6. Head(q) = j
  BY <1>3, <1>5, TailShifts
<1> QED
  BY <1>1, <1>3, <1>4, <1>5, <1>6 DEF Put

(* The worker's send never fails, and finds the channel empty.              *)
JobDelivered ==
  /\ wtx \in Fibers /\ wjob \in Callers
  /\ wpc = "send" /\ fpc[wtx] = "recv" /\ chan[wtx] = <<>>
  /\ Put(wtx, wjob)
  /\ wpc' = "serve" /\ wjob' = NoOne /\ wtx' = NoOne
  /\ UNCHANGED <<call, handles, pool, fpc, fjob, panicking, termVars, cellVars>>

(* The worker's send never fails: the sender it popped is that of an idle   *)
(* fiber, so the fallback of the send is dead code.                         *)
LEMMA SendJobDelivers ==
  ASSUME ShapeOK, HandsOK, SendersAreIdleFibers, SendJob
  PROVE  JobDelivered
<1>1. wtx \in Fibers /\ wjob \in Callers /\ Idle(wtx)
  BY DEF ShapeOK, HandsOK, SendersAreIdleFibers, SendJob
<1>2. ~Ended(wtx)
  BY <1>1 DEF Idle, Ended
<1>3. Put(wtx, wjob)
  BY <1>1, <1>2, SendPuts DEF SendJob
<1> QED
  BY <1>1, <1>2, <1>3 DEF SendJob, Idle, JobDelivered

(* Nor does the terminator's.                                               *)
ShutdownDelivered ==
  /\ ttx \in Fibers
  /\ tpc = "send" /\ fpc[ttx] = "recv" /\ chan[ttx] = <<>>
  /\ Put(ttx, Shutdown)
  /\ tpc' = "sweep" /\ ttx' = NoOne
  /\ UNCHANGED <<call, workerVars, pool, fpc, fjob, panicking, done, cellVars>>

(* Nor does the terminator's send of Shutdown.                              *)
LEMMA SendShutdownDelivers ==
  ASSUME ShapeOK, HandsOK, SendersAreIdleFibers, SendShutdown
  PROVE  ShutdownDelivered
<1>1. ttx \in Fibers /\ Idle(ttx)
  BY DEF ShapeOK, HandsOK, SendersAreIdleFibers, SendShutdown
<1>2. ~Ended(ttx)
  BY <1>1 DEF Idle, Ended
<1>3. Put(ttx, Shutdown)
  BY <1>1, <1>2, SendPuts DEF SendShutdown
<1> QED
  BY <1>1, <1>2, <1>3 DEF SendShutdown, Idle, ShutdownDelivered

(* A fiber that receives empties its channel.                               *)
JobReceived(f) ==
  /\ fpc[f] = "recv" /\ chan[f] # <<>> /\ fjob[f] = NoOne
  /\ Head(chan[f]) \in Callers \cup {NoOne}
  /\ chan' \in [Fibers -> Seq(Callers \cup {Shutdown})]
  /\ chan'[f] = <<>>
  /\ \A g \in Fibers \ {f} : chan'[g] = chan[g]
  /\ fjob' = [fjob EXCEPT ![f] = Head(chan[f])]
  /\ fpc' = [fpc EXCEPT ![f] = IF Head(chan[f]) = NoOne THEN "exited" ELSE "run"]
  /\ UNCHANGED <<call, workerVars, pool, panicking, termVars, cellVars>>

(* A fiber takes the only message out of its channel.                       *)
LEMMA RecvEmpties ==
  ASSUME ShapeOK, ChannelsOK, NEW f \in Fibers, Recv(f)
  PROVE  JobReceived(f)
<1>1. chan[f] \in Seq(Callers \cup {NoOne}) /\ chan[f] # <<>> /\ Len(chan[f]) = 1
  BY DEF ShapeOK, ChannelsOK, Recv, Shutdown
<1>2. Head(chan[f]) \in Callers \cup {NoOne}
  BY <1>1
<1>3. Tail(chan[f]) \in Seq(Callers \cup {NoOne}) /\ Len(Tail(chan[f])) = 0
  BY <1>1
<1>4. Tail(chan[f]) = <<>>
  BY <1>3, EmptySeq
<1>5. fjob[f] = NoOne
  BY DEF ChannelsOK, Recv
<1>6. /\ chan' = [chan EXCEPT ![f] = Tail(chan[f])]
      /\ chan \in [Fibers -> Seq(Callers \cup {Shutdown})]
  BY DEF Recv, ShapeOK
<1>7. /\ chan' \in [Fibers -> Seq(Callers \cup {Shutdown})]
      /\ chan'[f] = <<>>
      /\ \A g \in Fibers \ {f} : chan'[g] = chan[g]
  BY <1>3, <1>4, <1>6 DEF Shutdown
<1> QED
  BY <1>1, <1>2, <1>5, <1>7 DEF Recv, JobReceived, Shutdown

(* Where the callers' jobs are after each of the three.                     *)
LEMMA InChanMoves ==
  ASSUME ShapeOK
  PROVE  /\ JobDelivered => \A c \in Callers, g \in Fibers :
              /\ InChan(c, g)' <=> IF g = wtx THEN c = wjob ELSE InChan(c, g)
              /\ ~InChan(c, wtx)
         /\ ShutdownDelivered => \A c \in Callers, g \in Fibers :
              InChan(c, g)' <=> InChan(c, g)
         /\ \A f \in Fibers : JobReceived(f) => \A c \in Callers, g \in Fibers :
              /\ InChan(c, g)' <=> g # f /\ InChan(c, g)
              /\ InChan(c, f) <=> Head(chan[f]) = c
<1>1. JobDelivered => \A c \in Callers, g \in Fibers :
        /\ InChan(c, g)' <=> IF g = wtx THEN c = wjob ELSE InChan(c, g)
        /\ ~InChan(c, wtx)
  BY DEF JobDelivered, Put, InChan
<1>2. ShutdownDelivered => \A c \in Callers, g \in Fibers : InChan(c, g)' <=> InChan(c, g)
  BY PoolAssumption DEF ShutdownDelivered, Put, InChan, Shutdown
<1>3. \A f \in Fibers : JobReceived(f) => \A c \in Callers, g \in Fibers :
        /\ InChan(c, g)' <=> g # f /\ InChan(c, g)
        /\ InChan(c, f) <=> Head(chan[f]) = c
  BY DEF JobReceived, InChan
<1> QED
  BY <1>1, <1>2, <1>3

-----------------------------------------------------------------------------
(* Each part is preserved.                                                  *)

(* Every step keeps the types.                                              *)
LEMMA ShapeStep ==
  ASSUME ShapeOK, HandsOK, SendersAreIdleFibers, [Next]_vars
  PROVE  ShapeOK'
<1>a. SendJob => JobDelivered
  BY SendJobDelivers
<1>b. SendShutdown => ShutdownDelivered
  BY SendShutdownDelivers
<1> USE PoolAssumption
    DEF ShapeOK, HandsOK, Shutdown, workerVars, fiberVars, termVars, cellVars
<1>1. ASSUME NEW c \in Callers, Ask(c) PROVE ShapeOK'
  BY <1>1 DEF Ask
<1>2. ASSUME NEW c \in Callers, BuildJob(c) PROVE ShapeOK'
  BY <1>2 DEF BuildJob
<1>3. CASE PopSender
  BY <1>3 DEF PopSender
<1>4. CASE SendJob
  <2>1. JobDelivered
    BY ONLY <1>4, <1>a
  <2> QED
    BY <2>1 DEF JobDelivered, Put
<1>5. ASSUME NEW f \in Fibers, SpawnFiber(f) PROVE ShapeOK'
  BY <1>5 DEF SpawnFiber
<1>6. CASE JoinFiber
  BY <1>6 DEF JoinFiber
<1>7. CASE StoreDone
  BY <1>7 DEF StoreDone
<1>8. CASE JoinTerminator
  BY <1>8 DEF JoinTerminator, DropArc
<1>9. CASE LeaveWorker
  BY <1>9 DEF LeaveWorker, DropArc
<1>10. CASE BeginTerminate
  BY <1>10 DEF BeginTerminate
<1>11. CASE MoveOut
  BY <1>11 DEF MoveOut
<1>12. CASE PanicInCall
  BY <1>12 DEF PanicInCall
<1>13. ASSUME NEW f \in Fibers, Recv(f) PROVE ShapeOK'
  BY <1>13 DEF Recv
<1>14. ASSUME NEW f \in Fibers, NEW p \in BOOLEAN, EndClosure(f, p) PROVE ShapeOK'
  BY <1>14 DEF EndClosure
<1>15. ASSUME NEW f \in Fibers, Signal(f) PROVE ShapeOK'
  BY <1>15 DEF Signal
<1>16. ASSUME NEW f \in Fibers, ReleaseProp(f) PROVE ShapeOK'
  BY <1>16 DEF ReleaseProp, DropArc
<1>17. ASSUME NEW f \in Fibers, ReturnSelf(f) PROVE ShapeOK'
  BY <1>17 DEF ReturnSelf
<1>18. CASE LeaveSweep
  BY <1>18 DEF LeaveSweep
<1>19. CASE PopToShutdown
  BY <1>19 DEF PopToShutdown
<1>20. CASE SendShutdown
  <2>1. ShutdownDelivered
    BY ONLY <1>20, <1>b
  <2> QED
    BY <2>1 DEF ShutdownDelivered, Put
<1>21. CASE UNCHANGED vars
  BY <1>21 DEF vars
<1> QED
  BY <1>1, <1>2, <1>3, <1>4, <1>5, <1>6, <1>7, <1>8, <1>9, <1>10, <1>11,
     <1>12, <1>13, <1>14, <1>15, <1>16, <1>17, <1>18, <1>19, <1>20, <1>21
     DEF Next, Worker, Fiber, Terminator

(* Worker and terminator hold a sender or a job only while they are about   *)
(* to send it.                                                              *)
LEMMA HandsStep ==
  ASSUME ShapeOK, HandsOK, SendersAreIdleFibers, [Next]_vars
  PROVE  HandsOK'
<1>a. SendJob => JobDelivered
  BY SendJobDelivers
<1>b. SendShutdown => ShutdownDelivered
  BY SendShutdownDelivers
<1> USE PoolAssumption
    DEF ShapeOK, HandsOK, SendersAreIdleFibers, Idle, Ended, workerVars, fiberVars,
        termVars, cellVars
<1>1. ASSUME NEW c \in Callers, Ask(c) PROVE HandsOK'
  BY <1>1 DEF Ask
<1>2. ASSUME NEW c \in Callers, BuildJob(c) PROVE HandsOK'
  BY <1>2 DEF BuildJob
<1>3. CASE PopSender
  BY <1>3 DEF PopSender
<1>4. CASE SendJob
  <2>1. JobDelivered
    BY ONLY <1>4, <1>a
  <2> QED
    BY <2>1 DEF JobDelivered, Put
<1>5. ASSUME NEW f \in Fibers, SpawnFiber(f) PROVE HandsOK'
  BY <1>5 DEF SpawnFiber
<1>6. CASE JoinFiber
  BY <1>6 DEF JoinFiber
<1>7. CASE StoreDone
  BY <1>7 DEF StoreDone
<1>8. CASE JoinTerminator
  BY <1>8 DEF JoinTerminator, DropArc
<1>9. CASE LeaveWorker
  BY <1>9 DEF LeaveWorker, DropArc
<1>10. CASE BeginTerminate
  BY <1>10 DEF BeginTerminate
<1>11. CASE MoveOut
  BY <1>11 DEF MoveOut
<1>12. CASE PanicInCall
  BY <1>12 DEF PanicInCall
<1>13. ASSUME NEW f \in Fibers, Recv(f) PROVE HandsOK'
  BY <1>13 DEF Recv
<1>14. ASSUME NEW f \in Fibers, NEW p \in BOOLEAN, EndClosure(f, p) PROVE HandsOK'
  BY <1>14 DEF EndClosure
<1>15. ASSUME NEW f \in Fibers, Signal(f) PROVE HandsOK'
  BY <1>15 DEF Signal
<1>16. ASSUME NEW f \in Fibers, ReleaseProp(f) PROVE HandsOK'
  BY <1>16 DEF ReleaseProp, DropArc
<1>17. ASSUME NEW f \in Fibers, ReturnSelf(f) PROVE HandsOK'
  BY <1>17 DEF ReturnSelf
<1>18. CASE LeaveSweep
  BY <1>18 DEF LeaveSweep
<1>19. CASE PopToShutdown
  BY <1>19 DEF PopToShutdown
<1>20. CASE SendShutdown
  <2>1. ShutdownDelivered
    BY ONLY <1>20, <1>b
  <2> QED
    BY <2>1 DEF ShutdownDelivered, Put
<1>21. CASE UNCHANGED vars
  BY <1>21 DEF vars
<1> QED
  BY <1>1, <1>2, <1>3, <1>4, <1>5, <1>6, <1>7, <1>8, <1>9, <1>10, <1>11,
     <1>12, <1>13, <1>14, <1>15, <1>16, <1>17, <1>18, <1>19, <1>20, <1>21
     DEF Next, Worker, Fiber, Terminator

(* A channel has at most one message, and only while its fiber waits.       *)
LEMMA ChannelsStep ==
  ASSUME ShapeOK, HandsOK, SendersAreIdleFibers, ChannelsOK, [Next]_vars
  PROVE  ChannelsOK'
<1>a. SendJob => JobDelivered
  BY SendJobDelivers
<1>b. SendShutdown => ShutdownDelivered
  BY SendShutdownDelivers
<1>c. \A f \in Fibers : Recv(f) => JobReceived(f)
  BY RecvEmpties
<1> USE PoolAssumption
    DEF ShapeOK, HandsOK, SendersAreIdleFibers, ChannelsOK, Shutdown, Idle, Ended,
        workerVars, fiberVars, termVars, cellVars
<1>1. ASSUME NEW c \in Callers, Ask(c) PROVE ChannelsOK'
  BY <1>1 DEF Ask
<1>2. ASSUME NEW c \in Callers, BuildJob(c) PROVE ChannelsOK'
  BY <1>2 DEF BuildJob
<1>3. CASE PopSender
  BY <1>3 DEF PopSender
<1>4. CASE SendJob
  <2>1. JobDelivered
    BY ONLY <1>4, <1>a
  <2> QED
    BY <2>1 DEF JobDelivered, Put
<1>5. ASSUME NEW f \in Fibers, SpawnFiber(f) PROVE ChannelsOK'
  BY <1>5 DEF SpawnFiber
<1>6. CASE JoinFiber
  BY <1>6 DEF JoinFiber
<1>7. CASE StoreDone
  BY <1>7 DEF StoreDone
<1>8. CASE JoinTerminator
  BY <1>8 DEF JoinTerminator, DropArc
<1>9. CASE LeaveWorker
  BY <1>9 DEF LeaveWorker, DropArc
<1>10. CASE BeginTerminate
  BY <1>10 DEF BeginTerminate
<1>11. CASE MoveOut
  BY <1>11 DEF MoveOut
<1>12. CASE PanicInCall
  BY <1>12 DEF PanicInCall
<1>13. ASSUME NEW f \in Fibers, Recv(f) PROVE ChannelsOK'
  <2>1. JobReceived(f)
    BY ONLY f \in Fibers, <1>13, <1>c
  <2> QED
    BY <2>1 DEF JobReceived
<1>14. ASSUME NEW f \in Fibers, NEW p \in BOOLEAN, EndClosure(f, p) PROVE ChannelsOK'
  BY <1>14 DEF EndClosure
<1>15. ASSUME NEW f \in Fibers, Signal(f) PROVE ChannelsOK'
  BY <1>15 DEF Signal
<1>16. ASSUME NEW f \in Fibers, ReleaseProp(f) PROVE ChannelsOK'
  BY <1>16 DEF ReleaseProp, DropArc
<1>17. ASSUME NEW f \in Fibers, ReturnSelf(f) PROVE ChannelsOK'
  BY <1>17 DEF ReturnSelf
<1>18. CASE LeaveSweep
  BY <1>18 DEF LeaveSweep
<1>19. CASE PopToShutdown
  BY <1>19 DEF PopToShutdown
<1>20. CASE SendShutdown
  <2>1. ShutdownDelivered
    BY ONLY <1>20, <1>b
  <2> QED
    BY <2>1 DEF ShutdownDelivered, Put
<1>21. CASE UNCHANGED vars
  BY <1>21 DEF vars
<1> QED
  BY <1>1, <1>2, <1>3, <1>4, <1>5, <1>6, <1>7, <1>8, <1>9, <1>10, <1>11,
     <1>12, <1>13, <1>14, <1>15, <1>16, <1>17, <1>18, <1>19, <1>20, <1>21
     DEF Next, Worker, Fiber, Terminator

(* A sender is in the pool, or in a hand, only if its fiber is idle; no     *)
(* fiber's sender is in two places.                                         *)
LEMMA SendersStep ==
  ASSUME ShapeOK, HandsOK, SendersAreIdleFibers, ChannelsOK, [Next]_vars
  PROVE  SendersAreIdleFibers'
<1>a. SendJob => JobDelivered
  BY SendJobDelivers
<1>b. SendShutdown => ShutdownDelivered
  BY SendShutdownDelivers
<1>c. \A f \in Fibers : Recv(f) => JobReceived(f)
  BY RecvEmpties
<1> USE PoolAssumption
    DEF ShapeOK, HandsOK, SendersAreIdleFibers, ChannelsOK, Idle, Ended, workerVars,
        fiberVars, termVars, cellVars
<1>1. ASSUME NEW c \in Callers, Ask(c) PROVE SendersAreIdleFibers'
  BY <1>1 DEF Ask
<1>2. ASSUME NEW c \in Callers, BuildJob(c) PROVE SendersAreIdleFibers'
  BY <1>2 DEF BuildJob
<1>3. CASE PopSender
  <2>1. /\ Head(pool) = pool[1] /\ 1 \in DOMAIN pool
        /\ \A i \in DOMAIN Tail(pool) :
             i + 1 \in DOMAIN pool /\ i + 1 # 1 /\ Tail(pool)[i] = pool[i + 1]
    BY <1>3, TailShifts DEF PopSender
  <2>2. pool' = Tail(pool) /\ wtx' = Head(pool)
    BY <1>3 DEF PopSender
  <2> QED
    BY <1>3, <2>1, <2>2 DEF PopSender
<1>4. CASE SendJob
  <2>1. JobDelivered
    BY ONLY <1>4, <1>a
  <2> QED
    BY <2>1 DEF JobDelivered, Put
<1>5. ASSUME NEW f \in Fibers, SpawnFiber(f) PROVE SendersAreIdleFibers'
  BY <1>5 DEF SpawnFiber
<1>6. CASE JoinFiber
  BY <1>6 DEF JoinFiber
<1>7. CASE StoreDone
  BY <1>7 DEF StoreDone
<1>8. CASE JoinTerminator
  BY <1>8 DEF JoinTerminator, DropArc
<1>9. CASE LeaveWorker
  BY <1>9 DEF LeaveWorker, DropArc
<1>10. CASE BeginTerminate
  BY <1>10 DEF BeginTerminate
<1>11. CASE MoveOut
  BY <1>11 DEF MoveOut
<1>12. CASE PanicInCall
  BY <1>12 DEF PanicInCall
<1>13. ASSUME NEW f \in Fibers, Recv(f) PROVE SendersAreIdleFibers'
  <2>1. JobReceived(f)
    BY ONLY f \in Fibers, <1>13, <1>c
  <2> QED
    BY <2>1 DEF JobReceived
<1>14. ASSUME NEW f \in Fibers, NEW p \in BOOLEAN, EndClosure(f, p) PROVE SendersAreIdleFibers'
  BY <1>14 DEF EndClosure
<1>15. ASSUME NEW f \in Fibers, Signal(f) PROVE SendersAreIdleFibers'
  BY <1>15 DEF Signal
<1>16. ASSUME NEW f \in Fibers, ReleaseProp(f) PROVE SendersAreIdleFibers'
  BY <1>16 DEF ReleaseProp, DropArc
<1>17. ASSUME NEW f \in Fibers, ReturnSelf(f) PROVE SendersAreIdleFibers'
  BY <1>17 DEF ReturnSelf
<1>18. CASE LeaveSweep
  BY <1>18 DEF LeaveSweep
<1>19. CASE PopToShutdown
  <2>1. /\ Head(pool) = pool[1] /\ 1 \in DOMAIN pool
        /\ \A i \in DOMAIN Tail(pool) :
             i + 1 \in DOMAIN pool /\ i + 1 # 1 /\ Tail(pool)[i] = pool[i + 1]
    BY <1>19, TailShifts DEF PopToShutdown
  <2>2. pool' = Tail(pool) /\ ttx' = Head(pool)
    BY <1>19 DEF PopToShutdown
  <2> QED
    BY <1>19, <2>1, <2>2 DEF PopToShutdown
<1>20. CASE SendShutdown
  <2>1. ShutdownDelivered
    BY ONLY <1>20, <1>b
  <2> QED
    BY <2>1 DEF ShutdownDelivered, Put
<1>21. CASE UNCHANGED vars
  BY <1>21 DEF vars
<1> QED
  BY <1>1, <1>2, <1>3, <1>4, <1>5, <1>6, <1>7, <1>8, <1>9, <1>10, <1>11,
     <1>12, <1>13, <1>14, <1>15, <1>16, <1>17, <1>18, <1>19, <1>20, <1>21
     DEF Next, Worker, Fiber, Terminator

(* A launch is in at most one place.                                        *)
LEMMA PlacesStep ==
  ASSUME ShapeOK, HandsOK, SendersAreIdleFibers, ChannelsOK, PlacesOK, LaunchedOK, [Next]_vars
  PROVE  PlacesOK'
<1>a. SendJob => JobDelivered
  BY SendJobDelivers
<1>b. SendShutdown => ShutdownDelivered
  BY SendShutdownDelivers
<1>c. \A f \in Fibers : Recv(f) => JobReceived(f)
  BY RecvEmpties
<1> USE PoolAssumption
    DEF ShapeOK, HandsOK, ChannelsOK, Shutdown, InChan, workerVars, fiberVars,
        termVars, cellVars, PlacesOK, LaunchedOK
<1>1. ASSUME NEW c \in Callers, Ask(c) PROVE PlacesOK'
  BY <1>1 DEF Ask
<1>2. ASSUME NEW c \in Callers, BuildJob(c) PROVE PlacesOK'
  BY <1>2 DEF BuildJob
<1>3. CASE PopSender
  BY <1>3 DEF PopSender
<1>4. CASE SendJob
  <2>1. JobDelivered
    BY ONLY <1>4, <1>a
  <2>2. \A c \in Callers, g \in Fibers :
                /\ InChan(c, g)' <=> IF g = wtx THEN c = wjob ELSE InChan(c, g)
                /\ ~InChan(c, wtx)
    BY ONLY ShapeOK, <2>1, InChanMoves
  <2> HIDE DEF InChan
  <2>3. wtx \in Fibers /\ wjob \in Callers /\ wjob' = NoOne /\ UNCHANGED <<call, fjob>>
    BY <2>1 DEF JobDelivered
  <2> QED
    BY ONLY <2>2, <2>3, PoolAssumption, PlacesOK, LaunchedOK DEF PlacesOK, LaunchedOK
<1>5. ASSUME NEW f \in Fibers, SpawnFiber(f) PROVE PlacesOK'
  BY <1>5 DEF SpawnFiber
<1>6. CASE JoinFiber
  BY <1>6 DEF JoinFiber
<1>7. CASE StoreDone
  BY <1>7 DEF StoreDone
<1>8. CASE JoinTerminator
  BY <1>8 DEF JoinTerminator, DropArc
<1>9. CASE LeaveWorker
  BY <1>9 DEF LeaveWorker, DropArc
<1>10. CASE BeginTerminate
  BY <1>10 DEF BeginTerminate
<1>11. CASE MoveOut
  BY <1>11 DEF MoveOut
<1>12. CASE PanicInCall
  BY <1>12 DEF PanicInCall
<1>13. ASSUME NEW f \in Fibers, Recv(f) PROVE PlacesOK'
  <2>1. JobReceived(f)
    BY ONLY f \in Fibers, <1>13, <1>c
  <2>2. \A c \in Callers, g \in Fibers :
                /\ InChan(c, g)' <=> g # f /\ InChan(c, g)
                /\ InChan(c, f) <=> Head(chan[f]) = c
    BY ONLY ShapeOK, f \in Fibers, <2>1, InChanMoves
  <2> HIDE DEF InChan
  <2>3. /\ f \in Fibers /\ fjob[f] = NoOne /\ Head(chan[f]) \in Callers \cup {NoOne}
        /\ \A g \in Fibers : fjob'[g] = IF g = f THEN Head(chan[f]) ELSE fjob[g]
        /\ UNCHANGED <<call, wjob>>
    BY <2>1 DEF JobReceived
  <2> QED
    BY ONLY <2>2, <2>3, PoolAssumption, PlacesOK, LaunchedOK DEF PlacesOK, LaunchedOK
<1>14. ASSUME NEW f \in Fibers, NEW p \in BOOLEAN, EndClosure(f, p) PROVE PlacesOK'
  BY <1>14 DEF EndClosure
<1>15. ASSUME NEW f \in Fibers, Signal(f) PROVE PlacesOK'
  BY <1>15 DEF Signal
<1>16. ASSUME NEW f \in Fibers, ReleaseProp(f) PROVE PlacesOK'
  BY <1>16 DEF ReleaseProp, DropArc
<1>17. ASSUME NEW f \in Fibers, ReturnSelf(f) PROVE PlacesOK'
  BY <1>17 DEF ReturnSelf
<1>18. CASE LeaveSweep
  BY <1>18 DEF LeaveSweep
<1>19. CASE PopToShutdown
  BY <1>19 DEF PopToShutdown
<1>20. CASE SendShutdown
  <2>1. ShutdownDelivered
    BY ONLY <1>20, <1>b
  <2>2. \A c \in Callers, g \in Fibers :
                /\ InChan(c, g)' <=> InChan(c, g)
    BY ONLY ShapeOK, <2>1, InChanMoves
  <2> HIDE DEF InChan
  <2>3. UNCHANGED <<call, wjob, fjob>>
    BY <2>1 DEF ShutdownDelivered
  <2> QED
    BY ONLY <2>2, <2>3, PoolAssumption, PlacesOK, LaunchedOK DEF PlacesOK, LaunchedOK
<1>21. CASE UNCHANGED vars
  BY <1>21 DEF vars
<1> QED
  BY <1>1, <1>2, <1>3, <1>4, <1>5, <1>6, <1>7, <1>8, <1>9, <1>10, <1>11,
     <1>12, <1>13, <1>14, <1>15, <1>16, <1>17, <1>18, <1>19, <1>20, <1>21
     DEF Next, Worker, Fiber, Terminator

(* A launch is somewhere if and only if its caller waits for it.            *)
LEMMA LaunchedStep ==
  ASSUME ShapeOK, HandsOK, SendersAreIdleFibers, ChannelsOK, PlacesOK, LaunchedOK, [Next]_vars
  PROVE  LaunchedOK'
<1>a. SendJob => JobDelivered
  BY SendJobDelivers
<1>b. SendShutdown => ShutdownDelivered
  BY SendShutdownDelivers
<1>c. \A f \in Fibers : Recv(f) => JobReceived(f)
  BY RecvEmpties
<1> USE PoolAssumption
    DEF ShapeOK, HandsOK, ChannelsOK, Shutdown, InChan, workerVars, fiberVars,
        termVars, cellVars, PlacesOK, LaunchedOK
<1>1. ASSUME NEW c \in Callers, Ask(c) PROVE LaunchedOK'
  BY <1>1 DEF Ask
<1>2. ASSUME NEW c \in Callers, BuildJob(c) PROVE LaunchedOK'
  BY <1>2 DEF BuildJob
<1>3. CASE PopSender
  BY <1>3 DEF PopSender
<1>4. CASE SendJob
  <2>1. JobDelivered
    BY ONLY <1>4, <1>a
  <2>2. \A c \in Callers, g \in Fibers :
                /\ InChan(c, g)' <=> IF g = wtx THEN c = wjob ELSE InChan(c, g)
                /\ ~InChan(c, wtx)
    BY ONLY ShapeOK, <2>1, InChanMoves
  <2> HIDE DEF InChan
  <2>3. wtx \in Fibers /\ wjob \in Callers /\ wjob' = NoOne /\ UNCHANGED <<call, fjob>>
    BY <2>1 DEF JobDelivered
  <2> QED
    BY ONLY <2>2, <2>3, PoolAssumption, PlacesOK, LaunchedOK DEF PlacesOK, LaunchedOK
<1>5. ASSUME NEW f \in Fibers, SpawnFiber(f) PROVE LaunchedOK'
  BY <1>5 DEF SpawnFiber
<1>6. CASE JoinFiber
  BY <1>6 DEF JoinFiber
<1>7. CASE StoreDone
  BY <1>7 DEF StoreDone
<1>8. CASE JoinTerminator
  BY <1>8 DEF JoinTerminator, DropArc
<1>9. CASE LeaveWorker
  BY <1>9 DEF LeaveWorker, DropArc
<1>10. CASE BeginTerminate
  BY <1>10 DEF BeginTerminate
<1>11. CASE MoveOut
  BY <1>11 DEF MoveOut
<1>12. CASE PanicInCall
  BY <1>12 DEF PanicInCall
<1>13. ASSUME NEW f \in Fibers, Recv(f) PROVE LaunchedOK'
  <2>1. JobReceived(f)
    BY ONLY f \in Fibers, <1>13, <1>c
  <2>2. \A c \in Callers, g \in Fibers :
                /\ InChan(c, g)' <=> g # f /\ InChan(c, g)
                /\ InChan(c, f) <=> Head(chan[f]) = c
    BY ONLY ShapeOK, f \in Fibers, <2>1, InChanMoves
  <2> HIDE DEF InChan
  <2>3. /\ f \in Fibers /\ fjob[f] = NoOne /\ Head(chan[f]) \in Callers \cup {NoOne}
        /\ \A g \in Fibers : fjob'[g] = IF g = f THEN Head(chan[f]) ELSE fjob[g]
        /\ UNCHANGED <<call, wjob>>
    BY <2>1 DEF JobReceived
  <2> QED
    BY ONLY <2>2, <2>3, PoolAssumption, PlacesOK, LaunchedOK DEF PlacesOK, LaunchedOK
<1>14. ASSUME NEW f \in Fibers, NEW p \in BOOLEAN, EndClosure(f, p) PROVE LaunchedOK'
  BY <1>14 DEF EndClosure
<1>15. ASSUME NEW f \in Fibers, Signal(f) PROVE LaunchedOK'
  BY <1>15 DEF Signal
<1>16. ASSUME NEW f \in Fibers, ReleaseProp(f) PROVE LaunchedOK'
  BY <1>16 DEF ReleaseProp, DropArc
<1>17. ASSUME NEW f \in Fibers, ReturnSelf(f) PROVE LaunchedOK'
  BY <1>17 DEF ReturnSelf
<1>18. CASE LeaveSweep
  BY <1>18 DEF LeaveSweep
<1>19. CASE PopToShutdown
  BY <1>19 DEF PopToShutdown
<1>20. CASE SendShutdown
  <2>1. ShutdownDelivered
    BY ONLY <1>20, <1>b
  <2>2. \A c \in Callers, g \in Fibers :
                /\ InChan(c, g)' <=> InChan(c, g)
    BY ONLY ShapeOK, <2>1, InChanMoves
  <2> HIDE DEF InChan
  <2>3. UNCHANGED <<call, wjob, fjob>>
    BY <2>1 DEF ShutdownDelivered
  <2> QED
    BY ONLY <2>2, <2>3, PoolAssumption, PlacesOK, LaunchedOK DEF PlacesOK, LaunchedOK
<1>21. CASE UNCHANGED vars
  BY <1>21 DEF vars
<1> QED
  BY <1>1, <1>2, <1>3, <1>4, <1>5, <1>6, <1>7, <1>8, <1>9, <1>10, <1>11,
     <1>12, <1>13, <1>14, <1>15, <1>16, <1>17, <1>18, <1>19, <1>20, <1>21
     DEF Next, Worker, Fiber, Terminator

(* The worker has the join handle of every fiber that is alive, until it    *)
(* has joined them all.                                                     *)
LEMMA HandlesStep ==
  ASSUME ShapeOK, HandsOK, SendersAreIdleFibers, ChannelsOK, HandlesOK, [Next]_vars
  PROVE  HandlesOK'
<1>a. SendJob => JobDelivered
  BY SendJobDelivers
<1>b. SendShutdown => ShutdownDelivered
  BY SendShutdownDelivers
<1>c. \A f \in Fibers : Recv(f) => JobReceived(f)
  BY RecvEmpties
<1> USE PoolAssumption
    DEF ShapeOK, HandsOK, HandlesOK, Ended, workerVars, fiberVars, termVars, cellVars
<1>1. ASSUME NEW c \in Callers, Ask(c) PROVE HandlesOK'
  BY <1>1 DEF Ask
<1>2. ASSUME NEW c \in Callers, BuildJob(c) PROVE HandlesOK'
  BY <1>2 DEF BuildJob
<1>3. CASE PopSender
  BY <1>3 DEF PopSender
<1>4. CASE SendJob
  <2>1. JobDelivered
    BY ONLY <1>4, <1>a
  <2> QED
    BY <2>1 DEF JobDelivered, Put
<1>5. ASSUME NEW f \in Fibers, SpawnFiber(f) PROVE HandlesOK'
  <2>1. /\ \A i \in DOMAIN handles : i \in DOMAIN handles' /\ handles'[i] = handles[i]
        /\ Len(handles) + 1 \in DOMAIN handles' /\ handles'[Len(handles) + 1] = f
    BY <1>5, AppendKeeps DEF SpawnFiber
  <2> QED
    BY <1>5, <2>1 DEF SpawnFiber
<1>6. CASE JoinFiber
  <2>1. \A i \in DOMAIN handles :
          Ended(handles[i]) \/ \E j \in DOMAIN handles' : handles'[j] = handles[i]
    BY ONLY <1>6, ShapeOK, TailKeeps DEF ShapeOK, JoinFiber
  <2>2. wpc = "join" /\ wpc' = wpc /\ fpc' = fpc
    BY <1>6 DEF JoinFiber
  <2> QED
    BY <2>1, <2>2
<1>7. CASE StoreDone
  BY <1>7 DEF StoreDone
<1>8. CASE JoinTerminator
  BY <1>8 DEF JoinTerminator, DropArc
<1>9. CASE LeaveWorker
  BY <1>9 DEF LeaveWorker, DropArc
<1>10. CASE BeginTerminate
  BY <1>10 DEF BeginTerminate
<1>11. CASE MoveOut
  BY <1>11 DEF MoveOut
<1>12. CASE PanicInCall
  BY <1>12 DEF PanicInCall
<1>13. ASSUME NEW f \in Fibers, Recv(f) PROVE HandlesOK'
  BY <1>13 DEF Recv
<1>14. ASSUME NEW f \in Fibers, NEW p \in BOOLEAN, EndClosure(f, p) PROVE HandlesOK'
  BY <1>14 DEF EndClosure
<1>15. ASSUME NEW f \in Fibers, Signal(f) PROVE HandlesOK'
  BY <1>15 DEF Signal
<1>16. ASSUME NEW f \in Fibers, ReleaseProp(f) PROVE HandlesOK'
  BY <1>16 DEF ReleaseProp, DropArc
<1>17. ASSUME NEW f \in Fibers, ReturnSelf(f) PROVE HandlesOK'
  BY <1>17 DEF ReturnSelf
<1>18. CASE LeaveSweep
  BY <1>18 DEF LeaveSweep
<1>19. CASE PopToShutdown
  BY <1>19 DEF PopToShutdown
<1>20. CASE SendShutdown
  <2>1. ShutdownDelivered
    BY ONLY <1>20, <1>b
  <2> QED
    BY <2>1 DEF ShutdownDelivered, Put
<1>21. CASE UNCHANGED vars
  BY <1>21 DEF vars
<1> QED
  BY <1>1, <1>2, <1>3, <1>4, <1>5, <1>6, <1>7, <1>8, <1>9, <1>10, <1>11,
     <1>12, <1>13, <1>14, <1>15, <1>16, <1>17, <1>18, <1>19, <1>20, <1>21
     DEF Next, Worker, Fiber, Terminator

(* The count follows the holders: as they are, one more, or one fewer.      *)
LEMMA ArcsKept ==
  ASSUME ArcsOK, ArcHolders' = ArcHolders, WorkerArcs' = WorkerArcs, UNCHANGED <<refs, drops>>
  PROVE  ArcsOK'
  BY DEF ArcsOK

(* An Arc clone that moves from the worker's hand to a fiber leaves the     *)
(* count right.                                                             *)
LEMMA ArcHandedOn ==
  ASSUME ArcsOK, WorkerArcs \in Nat, NEW f \in Fibers,
         f \notin ArcHolders, ArcHolders' = ArcHolders \cup {f},
         WorkerArcs' = WorkerArcs - 1, UNCHANGED <<refs, drops>>
  PROVE  ArcsOK'
<1>1. /\ IsFiniteSet(ArcHolders \cup {f})
      /\ Cardinality(ArcHolders \cup {f}) = Cardinality(ArcHolders) + 1
  BY FS_AddElement DEF ArcsOK
<1>2. Cardinality(ArcHolders) \in Nat
  BY FS_CardinalityType DEF ArcsOK
<1>3. IsFiniteSet(ArcHolders') /\ refs' = Cardinality(ArcHolders') + WorkerArcs'
  BY <1>1, <1>2 DEF ArcsOK
<1> QED
  BY <1>3 DEF ArcsOK

(* The count of the Arc is the number of its holders, and the cell has been *)
(* dropped once that is zero.                                               *)
LEMMA ArcsStep ==
  ASSUME ShapeOK, HandsOK, SendersAreIdleFibers, ChannelsOK, ArcsOK, [Next]_vars
  PROVE  ArcsOK'
<1>a. SendJob => JobDelivered
  BY SendJobDelivers
<1>b. SendShutdown => ShutdownDelivered
  BY SendShutdownDelivers
<1>c. \A f \in Fibers : Recv(f) => JobReceived(f)
  BY RecvEmpties
<1>d. IsFiniteSet(ArcHolders) /\ Cardinality(ArcHolders) \in Nat
  BY FS_CardinalityType DEF ArcsOK
<1> USE PoolAssumption
    DEF ShapeOK, HandsOK, ChannelsOK, Shutdown, ArcHolders, WorkerArcs, workerVars,
        fiberVars, termVars, cellVars
<1>1. ASSUME NEW c \in Callers, Ask(c) PROVE ArcsOK'
  <2>1. ArcHolders' = ArcHolders /\ WorkerArcs' = WorkerArcs
    BY <1>1 DEF Ask
  <2>2. UNCHANGED <<refs, drops>>
    BY <1>1 DEF Ask
  <2> QED
    BY <2>1, <2>2, ArcsKept
<1>2. ASSUME NEW c \in Callers, BuildJob(c) PROVE ArcsOK'
  <2>1. ArcHolders' = ArcHolders /\ WorkerArcs' = WorkerArcs + 1 /\ WorkerArcs = 1
    BY <1>2 DEF BuildJob
  <2>2. refs' = refs + 1 /\ drops' = drops
    BY <1>2 DEF BuildJob
  <2> HIDE DEF ArcHolders, WorkerArcs
  <2> QED
    BY <2>1, <2>2, <1>d DEF ArcsOK
<1>3. CASE PopSender
  <2>1. ArcHolders' = ArcHolders /\ WorkerArcs' = WorkerArcs
    BY <1>3 DEF PopSender
  <2>2. UNCHANGED <<refs, drops>>
    BY <1>3 DEF PopSender
  <2> QED
    BY <2>1, <2>2, ArcsKept
<1>4. CASE SendJob
  <2>1. JobDelivered
    BY ONLY <1>4, <1>a
  <2>2. wtx \in Fibers /\ wtx \notin ArcHolders /\ ArcHolders' = ArcHolders \cup {wtx}
    BY <2>1 DEF JobDelivered, Put
  <2>3. WorkerArcs \in Nat /\ WorkerArcs' = WorkerArcs - 1 /\ UNCHANGED <<refs, drops>>
    BY <2>1 DEF JobDelivered
  <2> QED
    BY <2>2, <2>3, ArcHandedOn
<1>5. ASSUME NEW f \in Fibers, SpawnFiber(f) PROVE ArcsOK'
  <2>1. wjob \in Callers /\ chan[f] = <<>> /\ chan' = [chan EXCEPT ![f] = <<wjob>>]
    BY <1>5 DEF SpawnFiber
  <2>2. <<wjob>> # <<>> /\ Head(<<wjob>>) = wjob
    BY <2>1
  <2>3. chan'[f] # <<>> /\ Head(chan'[f]) = wjob
    BY <2>1, <2>2
  <2>4. f \notin ArcHolders /\ ArcHolders' = ArcHolders \cup {f}
    BY <1>5, <2>1, <2>3 DEF SpawnFiber
  <2>5. WorkerArcs \in Nat /\ WorkerArcs' = WorkerArcs - 1 /\ UNCHANGED <<refs, drops>>
    BY <1>5 DEF SpawnFiber
  <2> QED
    BY <2>4, <2>5, ArcHandedOn
<1>6. CASE JoinFiber
  <2>1. ArcHolders' = ArcHolders /\ WorkerArcs' = WorkerArcs
    BY <1>6 DEF JoinFiber
  <2>2. UNCHANGED <<refs, drops>>
    BY <1>6 DEF JoinFiber
  <2> QED
    BY <2>1, <2>2, ArcsKept
<1>7. CASE StoreDone
  <2>1. ArcHolders' = ArcHolders /\ WorkerArcs' = WorkerArcs
    BY <1>7 DEF StoreDone
  <2>2. UNCHANGED <<refs, drops>>
    BY <1>7 DEF StoreDone
  <2> QED
    BY <2>1, <2>2, ArcsKept
<1>8. CASE JoinTerminator
  <2>1. ArcHolders' = ArcHolders /\ WorkerArcs' = WorkerArcs - 1 /\ WorkerArcs = 1
    BY <1>8 DEF JoinTerminator
  <2>2. refs' = refs - 1 /\ drops' = IF refs = 1 THEN drops + 1 ELSE drops
    BY <1>8 DEF JoinTerminator, DropArc
  <2> HIDE DEF ArcHolders, WorkerArcs
  <2> QED
    BY <2>1, <2>2, <1>d DEF ArcsOK
<1>9. CASE LeaveWorker
  <2>1. ArcHolders' = ArcHolders /\ WorkerArcs' = WorkerArcs - 1 /\ WorkerArcs = 1
    BY <1>9 DEF LeaveWorker
  <2>2. refs' = refs - 1 /\ drops' = IF refs = 1 THEN drops + 1 ELSE drops
    BY <1>9 DEF LeaveWorker, DropArc
  <2> HIDE DEF ArcHolders, WorkerArcs
  <2> QED
    BY <2>1, <2>2, <1>d DEF ArcsOK
<1>10. CASE BeginTerminate
  <2>1. ArcHolders' = ArcHolders /\ WorkerArcs' = WorkerArcs
    BY <1>10 DEF BeginTerminate
  <2>2. UNCHANGED <<refs, drops>>
    BY <1>10 DEF BeginTerminate
  <2> QED
    BY <2>1, <2>2, ArcsKept
<1>11. CASE MoveOut
  <2>1. ArcHolders' = ArcHolders /\ WorkerArcs' = WorkerArcs
    BY <1>11 DEF MoveOut
  <2>2. UNCHANGED <<refs, drops>>
    BY <1>11 DEF MoveOut
  <2> QED
    BY <2>1, <2>2, ArcsKept
<1>12. CASE PanicInCall
  <2>1. ArcHolders' = ArcHolders /\ WorkerArcs' = WorkerArcs
    BY <1>12 DEF PanicInCall
  <2>2. UNCHANGED <<refs, drops>>
    BY <1>12 DEF PanicInCall
  <2> QED
    BY <2>1, <2>2, ArcsKept
<1>13. ASSUME NEW f \in Fibers, Recv(f) PROVE ArcsOK'
  <2>1. JobReceived(f)
    BY ONLY f \in Fibers, <1>13, <1>c
  <2>2. \A g \in Fibers : g \in ArcHolders' <=> g \in ArcHolders
    BY <2>1 DEF JobReceived
  <2>3. ArcHolders' = ArcHolders
    BY ONLY <2>2 DEF ArcHolders
  <2>4. WorkerArcs' = WorkerArcs /\ UNCHANGED <<refs, drops>>
    BY <2>1 DEF JobReceived
  <2> QED
    BY <2>3, <2>4, ArcsKept
<1>14. ASSUME NEW f \in Fibers, NEW p \in BOOLEAN, EndClosure(f, p) PROVE ArcsOK'
  <2>1. ArcHolders' = ArcHolders /\ WorkerArcs' = WorkerArcs
    BY <1>14 DEF EndClosure
  <2>2. UNCHANGED <<refs, drops>>
    BY <1>14 DEF EndClosure
  <2> QED
    BY <2>1, <2>2, ArcsKept
<1>15. ASSUME NEW f \in Fibers, Signal(f) PROVE ArcsOK'
  <2>1. ArcHolders' = ArcHolders /\ WorkerArcs' = WorkerArcs
    BY <1>15 DEF Signal
  <2>2. UNCHANGED <<refs, drops>>
    BY <1>15 DEF Signal
  <2> QED
    BY <2>1, <2>2, ArcsKept
<1>16. ASSUME NEW f \in Fibers, ReleaseProp(f) PROVE ArcsOK'
  <2>1. f \in ArcHolders /\ ArcHolders' = ArcHolders \ {f} /\ WorkerArcs' = WorkerArcs
    BY <1>16 DEF ReleaseProp
  <2>2. refs' = refs - 1 /\ drops' = IF refs = 1 THEN drops + 1 ELSE drops
    BY <1>16 DEF ReleaseProp, DropArc
  <2>3. /\ IsFiniteSet(ArcHolders \ {f})
        /\ Cardinality(ArcHolders \ {f}) = Cardinality(ArcHolders) - 1
    BY <2>1, FS_RemoveElement DEF ArcsOK
  <2>4. Cardinality(ArcHolders) - 1 \in Nat
    BY <2>3, FS_CardinalityType
  <2>5. WorkerArcs \in Nat
    OBVIOUS
  <2> HIDE DEF ArcHolders, WorkerArcs
  <2> QED
    BY <2>1, <2>2, <2>3, <2>4, <2>5, <1>d DEF ArcsOK
<1>17. ASSUME NEW f \in Fibers, ReturnSelf(f) PROVE ArcsOK'
  <2>1. ArcHolders' = ArcHolders /\ WorkerArcs' = WorkerArcs
    BY <1>17 DEF ReturnSelf
  <2>2. UNCHANGED <<refs, drops>>
    BY <1>17 DEF ReturnSelf
  <2> QED
    BY <2>1, <2>2, ArcsKept
<1>18. CASE LeaveSweep
  <2>1. ArcHolders' = ArcHolders /\ WorkerArcs' = WorkerArcs
    BY <1>18 DEF LeaveSweep
  <2>2. UNCHANGED <<refs, drops>>
    BY <1>18 DEF LeaveSweep
  <2> QED
    BY <2>1, <2>2, ArcsKept
<1>19. CASE PopToShutdown
  <2>1. ArcHolders' = ArcHolders /\ WorkerArcs' = WorkerArcs
    BY <1>19 DEF PopToShutdown
  <2>2. UNCHANGED <<refs, drops>>
    BY <1>19 DEF PopToShutdown
  <2> QED
    BY <2>1, <2>2, ArcsKept
<1>20. CASE SendShutdown
  <2>1. ShutdownDelivered
    BY ONLY <1>20, <1>b
  <2>2. \A g \in Fibers : g \in ArcHolders' <=> g \in ArcHolders
    BY <2>1 DEF ShutdownDelivered, Put
  <2>3. ArcHolders' = ArcHolders
    BY ONLY <2>2 DEF ArcHolders
  <2>4. WorkerArcs' = WorkerArcs /\ UNCHANGED <<refs, drops>>
    BY <2>1 DEF ShutdownDelivered
  <2> QED
    BY <2>3, <2>4, ArcsKept
<1>21. CASE UNCHANGED vars
  <2>1. ArcHolders' = ArcHolders /\ WorkerArcs' = WorkerArcs
    BY <1>21 DEF vars
  <2>2. UNCHANGED <<refs, drops>>
    BY <1>21 DEF vars
  <2> QED
    BY <2>1, <2>2, ArcsKept
<1> QED
  BY <1>1, <1>2, <1>3, <1>4, <1>5, <1>6, <1>7, <1>8, <1>9, <1>10, <1>11,
     <1>12, <1>13, <1>14, <1>15, <1>16, <1>17, <1>18, <1>19, <1>20, <1>21
     DEF Next, Worker, Fiber, Terminator

-----------------------------------------------------------------------------
(* The invariant.                                                           *)

(* A fresh runtime satisfies all of it.                                     *)
LEMMA PoolInit == Init => PoolInv
<1> SUFFICES ASSUME Init PROVE PoolInv
  OBVIOUS
<1> USE PoolAssumption DEF Init
<1>1. ShapeOK
  <2>1. handles \in Seq(Fibers) /\ pool \in Seq(Fibers)
    BY EmptySeq
  <2>2. chan \in [Fibers -> Seq(Callers \cup {Shutdown})]
    BY EmptySeq
  <2>3. panicking \in [Fibers -> BOOLEAN] /\ done \in BOOLEAN /\ given \in BOOLEAN
    OBVIOUS
  <2> QED
    BY <2>1, <2>2, <2>3 DEF ShapeOK
<1>2. HandsOK /\ ChannelsOK /\ SendersAreIdleFibers /\ PlacesOK /\ LaunchedOK /\ HandlesOK
  BY DEF HandsOK, ChannelsOK, SendersAreIdleFibers, PlacesOK, LaunchedOK, HandlesOK, InChan
<1>3. ArcHolders = {} /\ WorkerArcs = 1
  BY DEF ArcHolders, WorkerArcs
<1>4. ArcsOK
  BY <1>3, FS_EmptySet DEF ArcsOK
<1> QED
  BY <1>1, <1>2, <1>4 DEF PoolInv

(* Every step keeps all of it.                                              *)
LEMMA PoolStep == PoolInv /\ [Next]_vars => PoolInv'
  BY ShapeStep, HandsStep, ChannelsStep, SendersStep, PlacesStep, LaunchedStep, HandlesStep,
     ArcsStep DEF PoolInv

(* The pool's inductive invariant.                                          *)
LEMMA PoolInvariant == Spec => []PoolInv
  BY PoolInit, PoolStep, PTL DEF Spec

(* Every variable stays in its type; that refs is a natural number says     *)
(* that the count of the Arc never underflows.                              *)
THEOREM PoolTypeCorrect == Spec => []TypeOK
<1>1. PoolInv => TypeOK
  <2> SUFFICES ASSUME PoolInv PROVE TypeOK
    OBVIOUS
  <2>1. Cardinality(ArcHolders) \in Nat /\ WorkerArcs \in Nat
    BY FS_CardinalityType DEF PoolInv, ArcsOK, WorkerArcs
  <2>2. refs \in Nat /\ drops \in Nat
    BY <2>1 DEF PoolInv, ArcsOK
  <2> QED
    BY <2>2 DEF PoolInv, ShapeOK, TypeOK
<1> QED
  BY PoolInvariant, <1>1, PTL

(* A sender that is in the pool, or was popped from it, belongs to a fiber  *)
(* that waits with an empty channel: no send fails, and no job queues up    *)
(* behind another, with any number of callers and fibers.                   *)
THEOREM PoolSendersAreIdle == Spec => []SendersAreIdleFibers
<1>1. PoolInv => SendersAreIdleFibers
  BY DEF PoolInv
<1> QED
  BY PoolInvariant, <1>1, PTL

(* T outlives every launch closure that can refer to it, although the       *)
(* worker may unwind, hand T over or terminate while closures run: the Arc  *)
(* that each job holds is counted until the closure has ended.              *)
THEOREM PoolCellOutlivesClosures == Spec => []CellOutlivesClosures
<1>1. PoolInv => CellOutlivesClosures
  <2> SUFFICES ASSUME PoolInv,
                      (\E f \in Fibers : Executing(f)) \/ wpc \in {"serve", "pop", "send"}
               PROVE  drops = 0
    BY DEF CellOutlivesClosures
  <2>1. IsFiniteSet(ArcHolders) /\ Cardinality(ArcHolders) \in Nat
    BY FS_CardinalityType DEF PoolInv, ArcsOK
  <2>2. CASE \E f \in Fibers : Executing(f)
    <3>1. ArcHolders # {}
      BY <2>2 DEF ArcHolders, Executing
    <3>2. Cardinality(ArcHolders) # 0
      BY <2>1, <3>1, FS_EmptySet
    <3> QED
      BY <2>1, <3>2 DEF PoolInv, ArcsOK, WorkerArcs
  <2>3. CASE wpc \in {"serve", "pop", "send"}
    BY <2>1, <2>3 DEF PoolInv, ArcsOK, WorkerArcs
  <2> QED
    BY <2>2, <2>3
<1> QED
  BY PoolInvariant, <1>1, PTL

(* Once every fiber has been joined there is no job, no sender and no Arc   *)
(* of a fiber left.                                                         *)
LEMMA ReturnedIsEmpty ==
  ASSUME PoolInv, wpc \in {"join_terminator", "returned"}
  PROVE  /\ \A f \in Fibers : fpc[f] = "unborn" \/ Ended(f)
         /\ \A f \in Fibers : chan[f] = <<>> /\ fjob[f] = NoOne
         /\ wjob = NoOne
         /\ pool = <<>>
         /\ ArcHolders = {}
<1>1. \A f \in Fibers : fpc[f] \in {"unborn", "exited", "dead"}
  BY DEF PoolInv, HandlesOK, Ended
<1>2. \A f \in Fibers : chan[f] = <<>> /\ fjob[f] = NoOne
  BY <1>1 DEF PoolInv, ChannelsOK
<1>3. pool = <<>>
  <2>1. SUFFICES ASSUME pool # <<>> PROVE FALSE
    OBVIOUS
  <2>2. pool \in Seq(Fibers)
    BY DEF PoolInv, ShapeOK
  <2>3. 1 \in DOMAIN pool /\ pool[1] \in Fibers
    BY <2>1, <2>2, TailShifts
  <2> QED
    BY <1>1, <2>3 DEF PoolInv, SendersAreIdleFibers, Idle
<1>4. ArcHolders = {}
  BY <1>1, <1>2 DEF ArcHolders
<1> QED
  BY <1>1, <1>2, <1>3, <1>4 DEF PoolInv, HandsOK, Ended

(* Terminate leaves nothing behind: when the worker has returned after a    *)
(* terminate, no fiber is alive, no launch is unanswered, the pool is empty *)
(* and T has been dropped, once.                                            *)
THEOREM PoolTerminateLeavesNothing == Spec => []TerminateLeavesNothing
<1>1. PoolInv => TerminateLeavesNothing
  <2> SUFFICES ASSUME PoolInv, wpc = "returned"
               PROVE  /\ \A f \in Fibers : fpc[f] = "unborn" \/ Ended(f)
                      /\ \A c \in Callers : call[c] # "launched"
                      /\ pool = <<>> /\ refs = 0 /\ drops = 1
    BY DEF TerminateLeavesNothing
  <2>1. \A c \in Callers : call[c] # "launched"
    BY ReturnedIsEmpty, PoolAssumption DEF PoolInv, LaunchedOK, InChan
  <2>2. Cardinality(ArcHolders) = 0 /\ WorkerArcs = 0
    BY ReturnedIsEmpty, FS_EmptySet DEF WorkerArcs
  <2>3. refs = 0 /\ drops = 1
    BY <2>2 DEF PoolInv, ArcsOK
  <2> QED
    BY <2>1, <2>3, ReturnedIsEmpty
<1> QED
  BY PoolInvariant, <1>1, PTL

-----------------------------------------------------------------------------
(* The pool implements JobService.                                          *)

(* Where a launch is, by the places of PlacesOK.                            *)
Queued(c)    == wjob = c \/ \E f \in Fibers : InChan(c, f)
At(c, where) == \E f \in Fibers : fjob[f] = c /\ fpc[f] = where

(* The state of a launch in the refinement mapping is the place it is in.   *)
LEMMA JobOfPlace ==
  ASSUME PoolInv, NEW c \in Callers
  PROVE  JobOf(c) = IF Queued(c) THEN "queued"
                    ELSE IF At(c, "run") THEN "running"
                    ELSE IF At(c, "guard") THEN "done" ELSE "none"
<1>1. ASSUME NEW f \in Fibers
      PROVE  (\E i \in DOMAIN chan[f] : chan[f][i] = c) <=> InChan(c, f)
  <2>1. chan[f] \in Seq(Callers \cup {Shutdown}) /\ (chan[f] # <<>> => Len(chan[f]) = 1)
    BY DEF PoolInv, ShapeOK, ChannelsOK
  <2>2. CASE chan[f] = <<>>
    BY <2>2 DEF InChan
  <2>3. CASE chan[f] # <<>>
    <3>1. DOMAIN chan[f] = {1} /\ Head(chan[f]) = chan[f][1]
      BY <2>1, <2>3, TailShifts
    <3> QED
      BY <2>3, <3>1 DEF InChan
  <2> QED
    BY <2>2, <2>3
<1>2. (wjob = c \/ \E f \in Fibers : \E i \in DOMAIN chan[f] : chan[f][i] = c) <=> Queued(c)
  BY <1>1 DEF Queued
<1>3. Queued(c) => ~At(c, "run") /\ ~At(c, "guard")
  BY PoolAssumption DEF PoolInv, PlacesOK, Queued, At
<1>4. ~(At(c, "run") /\ At(c, "guard"))
  BY PoolAssumption DEF PoolInv, PlacesOK, At
<1> DEFINE P == wjob = c \/ \E f \in Fibers : \E i \in DOMAIN chan[f] : chan[f][i] = c
           R == \E f \in Fibers : fjob[f] = c /\ fpc[f] = "run"
           G == \E f \in Fibers : fjob[f] = c /\ fpc[f] = "guard"
<1>5. JobOf(c) = CASE P -> "queued" [] R -> "running" [] G -> "done" [] OTHER -> "none"
  BY DEF JobOf
<1>6. (P <=> Queued(c)) /\ (R <=> At(c, "run")) /\ (G <=> At(c, "guard"))
  BY <1>2 DEF At
<1> HIDE DEF P, R, G
<1> QED
  BY <1>3, <1>4, <1>5, <1>6

Place(c) ==
  IF Queued(c) THEN "queued"
  ELSE IF At(c, "run") THEN "running" ELSE IF At(c, "guard") THEN "done" ELSE "none"

(* The same by name, now ...                                                *)
LEMMA JobOfIsPlace == PoolInv => \A c \in Callers : JobOf(c) = Place(c)
  BY JobOfPlace DEF Place

(* ... and after the step.                                                  *)
LEMMA JobOfIsPlaceNext == PoolInv' => \A c \in Callers : JobOf(c)' = Place(c)'
<1>1. PoolInv' => (\A c \in Callers : JobOf(c) = Place(c))'
  BY JobOfIsPlace, PTL
<1> QED
  BY <1>1

(* A step that leaves every launch where it is, or moves one on.            *)
Stays ==
  /\ \A d \in Callers : Place(d)' = Place(d)
  /\ (wpc' = "returned") = (wpc = "returned")

Moves(c, from, to) ==
  /\ Place(c) = from
  /\ \A d \in Callers : Place(d)' = IF d = c THEN to ELSE Place(d)
  /\ (wpc' = "returned") = (wpc = "returned")

(* A step that moves no launch is invisible to the service.                 *)
LEMMA StaysIsStutter ==
  ASSUME PoolInv, PoolInv', Stays
  PROVE  UNCHANGED Jobs!vars
<1>1. \A d \in Callers : JobOf(d)' = JobOf(d)
  BY JobOfIsPlace, JobOfIsPlaceNext DEF Stays
<1>2. [d \in Callers |-> JobOf(d)]' = [d \in Callers |-> JobOf(d)]
  BY <1>1
<1> QED
  BY <1>2 DEF Jobs!vars, Stays

(* A step that moves one launch is a Move of the service.                   *)
LEMMA MovesIsMove ==
  ASSUME PoolInv, PoolInv', NEW c \in Callers, NEW from, NEW to, Moves(c, from, to)
  PROVE  Jobs!Move(c, from, to) /\ UNCHANGED (wpc = "returned")
<1>1. JobOf(c) = from /\ \A d \in Callers : JobOf(d)' = IF d = c THEN to ELSE JobOf(d)
  BY JobOfIsPlace, JobOfIsPlaceNext DEF Moves
<1>2. [d \in Callers |-> JobOf(d)]' = [[d \in Callers |-> JobOf(d)] EXCEPT ![c] = to]
  BY <1>1
<1> QED
  BY <1>1, <1>2 DEF Jobs!Move, Moves

(* What a step does to the places.                                          *)
LEMMA PlacesStay ==
  ASSUME wjob' = wjob, fjob' = fjob, fpc' = fpc, chan' = chan,
         (wpc' = "returned") = (wpc = "returned")
  PROVE  Stays
  BY DEF Stays, Place, Queued, At, InChan

(* A fiber that moves outside of a job moves no launch.                     *)
LEMMA PlacesStayButPc ==
  ASSUME PoolInv, NEW f \in Fibers, NEW to, to \notin {"run", "guard"},
         fpc[f] \notin {"run", "guard"},
         wjob' = wjob, fjob' = fjob, chan' = chan, fpc' = [fpc EXCEPT ![f] = to],
         (wpc' = "returned") = (wpc = "returned")
  PROVE  Stays
<1>1. \A c \in Callers : Queued(c)' <=> Queued(c)
  BY DEF Queued, InChan
<1>2. \A c \in Callers :
        (At(c, "run")' <=> At(c, "run")) /\ (At(c, "guard")' <=> At(c, "guard"))
  BY DEF At, PoolInv, ShapeOK
<1> QED
  BY <1>1, <1>2 DEF Stays, Place

(* Each step is one of JobService's, or invisible to it.                    *)
LEMMA JobStep ==
  ASSUME PoolInv, PoolInv', [Next]_vars
  PROVE  [Jobs!Next]_(Jobs!vars)
<1> USE PoolAssumption
<1>0. ShapeOK /\ HandsOK /\ SendersAreIdleFibers /\ ChannelsOK /\ PlacesOK /\ LaunchedOK
  BY DEF PoolInv
<1>1. CASE \E c \in Callers : BuildJob(c)
  <2>1. PICK c \in Callers : BuildJob(c)
    BY <1>1
  <2>2. \A g \in Fibers : ~InChan(c, g) /\ fjob[g] # c
    BY <1>0, <2>1 DEF LaunchedOK, BuildJob
  <2>3. /\ wjob = NoOne /\ wjob' = c /\ UNCHANGED <<chan, fjob, fpc>>
        /\ wpc = "serve" /\ wpc' = "pop"
    BY <1>0, <2>1 DEF BuildJob, HandsOK, fiberVars
  <2>4. Moves(c, "none", "queued")
    BY <2>2, <2>3 DEF Moves, Place, Queued, At, InChan
  <2>5. Jobs!Submit(c)
    BY <2>3, <2>4, MovesIsMove DEF Jobs!Submit
  <2> QED
    BY <2>5 DEF Jobs!Next
<1>2. CASE SendJob
  <2>1. JobDelivered
    BY <1>0, <1>2, SendJobDelivers
  <2>2. \A c \in Callers, g \in Fibers :
          /\ InChan(c, g)' <=> IF g = wtx THEN c = wjob ELSE InChan(c, g)
          /\ ~InChan(c, wtx)
    BY <1>0, <2>1, InChanMoves
  <2>3. /\ wtx \in Fibers /\ wjob' = NoOne /\ UNCHANGED <<fjob, fpc>>
        /\ wpc = "send" /\ wpc' = "serve"
    BY <2>1 DEF JobDelivered
  <2>4. \A c \in Callers : Queued(c)' <=> Queued(c)
    BY <2>2, <2>3 DEF Queued
  <2>5. Stays
    BY <2>3, <2>4 DEF Stays, Place, At
  <2> QED
    BY <2>5, StaysIsStutter
<1>3. CASE \E f \in Fibers : SpawnFiber(f)
  <2>1. PICK f \in Fibers : SpawnFiber(f)
    BY <1>3
  <2>2. /\ wjob \in Callers /\ chan[f] = <<>> /\ chan' = [chan EXCEPT ![f] = <<wjob>>]
        /\ wjob' = NoOne /\ wpc = "pop" /\ wpc' = "serve" /\ fjob' = fjob
        /\ fpc[f] = "unborn" /\ fpc' = [fpc EXCEPT ![f] = "recv"]
    BY <1>0, <2>1 DEF SpawnFiber, ShapeOK, HandsOK, ChannelsOK
  <2>3. <<wjob>> # <<>> /\ Head(<<wjob>>) = wjob
    BY <2>2
  <2>4. \A c \in Callers, g \in Fibers :
          /\ InChan(c, g)' <=> IF g = f THEN c = wjob ELSE InChan(c, g)
          /\ ~InChan(c, f)
    BY <1>0, <2>2, <2>3 DEF InChan, ShapeOK
  <2>5. \A c \in Callers : Queued(c)' <=> Queued(c)
    BY <2>2, <2>4 DEF Queued
  <2>6. \A c \in Callers :
          (At(c, "run")' <=> At(c, "run")) /\ (At(c, "guard")' <=> At(c, "guard"))
    BY <1>0, <2>2 DEF At, ShapeOK
  <2>7. Stays
    BY <2>2, <2>5, <2>6 DEF Stays, Place
  <2> QED
    BY <2>7, StaysIsStutter
<1>4. CASE \E f \in Fibers : Recv(f)
  <2>1. PICK f \in Fibers : Recv(f)
    BY <1>4
  <2>2. JobReceived(f)
    BY <1>0, <2>1, RecvEmpties
  <2>3. \A c \in Callers, g \in Fibers :
          /\ InChan(c, g)' <=> g # f /\ InChan(c, g)
          /\ InChan(c, f) <=> Head(chan[f]) = c
    BY <1>0, <2>2, InChanMoves
  <2>j. PICK j : j = Head(chan[f])
    OBVIOUS
  <2>4. /\ j \in Callers \cup {NoOne} /\ fjob[f] = NoOne /\ fpc[f] = "recv"
        /\ fjob' = [fjob EXCEPT ![f] = j]
        /\ fpc' = [fpc EXCEPT ![f] = IF j = NoOne THEN "exited" ELSE "run"]
        /\ UNCHANGED <<wpc, wjob>>
    BY <2>j, <2>2 DEF JobReceived, workerVars
  <2>5. fpc \in [Fibers -> {"unborn", "recv", "run", "guard", "arc", "push", "exited", "dead"}]
        /\ fjob \in [Fibers -> Callers \cup {NoOne}]
    BY <1>0 DEF ShapeOK
  <2>6. \A d \in Callers : d # j => (Queued(d)' <=> Queued(d))
    BY <2>j, <2>3, <2>4 DEF Queued
  <2>7. \A d \in Callers : d # j => /\ At(d, "run")' <=> At(d, "run")
                                    /\ At(d, "guard")' <=> At(d, "guard")
    BY <2>4, <2>5 DEF At
  <2>8. CASE j = NoOne
    <3>1. Stays
      BY <2>4, <2>6, <2>7, <2>8 DEF Stays, Place
    <3> QED
      BY <3>1, StaysIsStutter
  <2>9. CASE j \in Callers
    <3>1. Queued(j)
      BY <2>j, <2>3, <2>9 DEF Queued
    <3>2. ~Queued(j)'
      BY <1>0, <2>j, <2>3, <2>4, <2>9 DEF Queued, PlacesOK
    <3>3. At(j, "run")'
      BY <2>4, <2>5, <2>9 DEF At
    <3>4. Moves(j, "queued", "running")
      BY <2>4, <2>6, <2>7, <3>1, <3>2, <3>3 DEF Moves, Place
    <3>5. Jobs!Start(j)
      BY <2>9, <3>4, MovesIsMove DEF Jobs!Start
    <3> QED
      BY <2>9, <3>5 DEF Jobs!Next
  <2> QED
    BY <2>4, <2>8, <2>9
<1>5. CASE \E f \in Fibers, p \in BOOLEAN : EndClosure(f, p)
  <2>1. PICK f \in Fibers, p \in BOOLEAN : EndClosure(f, p)
    BY <1>5
  <2>j. PICK j : j = fjob[f]
    OBVIOUS
  <2>2. /\ fpc[f] = "run" /\ fpc' = [fpc EXCEPT ![f] = "guard"]
        /\ UNCHANGED <<wpc, wjob, chan, fjob>>
    BY <2>1 DEF EndClosure, workerVars
  <2>3. /\ fpc \in [Fibers -> {"unborn", "recv", "run", "guard", "arc", "push", "exited",
                              "dead"}]
        /\ j \in Callers
        /\ \A g \in Fibers : fjob[g] = j => g = f
        /\ j # wjob /\ \A g \in Fibers : ~InChan(j, g)
    BY <1>0, <2>j, <2>2 DEF ShapeOK, ChannelsOK, PlacesOK
  <2>4. \A d \in Callers : Queued(d)' <=> Queued(d)
    BY <2>2 DEF Queued, InChan
  <2>5. \A d \in Callers : d # j => /\ At(d, "run")' <=> At(d, "run")
                                    /\ At(d, "guard")' <=> At(d, "guard")
    BY <2>j, <2>2, <2>3 DEF At
  <2>6. ~Queued(j) /\ At(j, "run") /\ ~At(j, "run")' /\ At(j, "guard")'
    BY <2>j, <2>2, <2>3 DEF Queued, At
  <2>7. Moves(j, "running", "done")
    BY <2>2, <2>3, <2>4, <2>5, <2>6 DEF Moves, Place
  <2>8. Jobs!Finish(j)
    BY <2>3, <2>7, MovesIsMove DEF Jobs!Finish
  <2> QED
    BY <2>3, <2>8 DEF Jobs!Next
<1>6. CASE \E f \in Fibers : Signal(f)
  <2>1. PICK f \in Fibers : Signal(f)
    BY <1>6
  <2>j. PICK j : j = fjob[f]
    OBVIOUS
  <2>2. /\ fpc[f] = "guard" /\ fpc' = [fpc EXCEPT ![f] = "arc"]
        /\ fjob' = [fjob EXCEPT ![f] = NoOne]
        /\ UNCHANGED <<wpc, wjob, chan>>
    BY <2>1 DEF Signal, workerVars
  <2>3. /\ fpc \in [Fibers -> {"unborn", "recv", "run", "guard", "arc", "push", "exited",
                              "dead"}]
        /\ fjob \in [Fibers -> Callers \cup {NoOne}]
        /\ j \in Callers
        /\ \A g \in Fibers : fjob[g] = j => g = f
        /\ j # wjob /\ \A g \in Fibers : ~InChan(j, g)
    BY <1>0, <2>j, <2>2 DEF ShapeOK, ChannelsOK, PlacesOK
  <2>4. \A d \in Callers : Queued(d)' <=> Queued(d)
    BY <2>2 DEF Queued, InChan
  <2>5. \A d \in Callers : d # j => /\ At(d, "run")' <=> At(d, "run")
                                    /\ At(d, "guard")' <=> At(d, "guard")
    BY <2>j, <2>2, <2>3 DEF At
  <2>6. /\ ~Queued(j) /\ ~At(j, "run") /\ At(j, "guard")
        /\ ~At(j, "run")' /\ ~At(j, "guard")'
    BY <2>j, <2>2, <2>3 DEF Queued, At
  <2>7. Moves(j, "done", "none")
    BY <2>2, <2>3, <2>4, <2>5, <2>6 DEF Moves, Place
  <2>8. Jobs!Answer(j)
    BY <2>3, <2>7, MovesIsMove DEF Jobs!Answer
  <2> QED
    BY <2>3, <2>8 DEF Jobs!Next
<1>7. CASE JoinTerminator
  <2>1. \A c \in Callers : Place(c) = "none"
    BY <1>7, ReturnedIsEmpty DEF JoinTerminator, Place, Queued, At, InChan
  <2>2. \A c \in Callers : Place(c)' = Place(c)
    BY <1>7 DEF JoinTerminator, Place, Queued, At, InChan, fiberVars
  <2>3. \A c \in Callers : JobOf(c) = "none" /\ JobOf(c)' = JobOf(c)
    BY <2>1, <2>2, JobOfIsPlace, JobOfIsPlaceNext
  <2>4. [c \in Callers |-> JobOf(c)]' = [c \in Callers |-> JobOf(c)]
    BY <2>3
  <2>5. (wpc = "returned")' = TRUE
    BY <1>7 DEF JoinTerminator
  <2>6. Jobs!Close
    BY <2>3, <2>4, <2>5 DEF Jobs!Close
  <2> QED
    BY <2>6 DEF Jobs!Next
<1>8. CASE SendShutdown
  <2>1. ShutdownDelivered
    BY <1>0, <1>8, SendShutdownDelivers
  <2>2. \A c \in Callers, g \in Fibers : InChan(c, g)' <=> InChan(c, g)
    BY <1>0, <2>1, InChanMoves
  <2>3. UNCHANGED <<wpc, wjob, fjob, fpc>>
    BY <2>1 DEF ShutdownDelivered, workerVars
  <2>4. \A c \in Callers : Queued(c)' <=> Queued(c)
    BY <2>2, <2>3 DEF Queued
  <2>5. Stays
    BY <2>3, <2>4 DEF Stays, Place, At
  <2> QED
    BY <2>5, StaysIsStutter
<1>9. CASE \E f \in Fibers : ReleaseProp(f) \/ ReturnSelf(f)
  <2>1. PICK f \in Fibers : ReleaseProp(f) \/ ReturnSelf(f)
    BY <1>9
  <2>2. PICK to \in {"dead", "push", "recv"} : fpc' = [fpc EXCEPT ![f] = to]
    BY <2>1 DEF ReleaseProp, ReturnSelf
  <2>3. fpc[f] \notin {"run", "guard"} /\ UNCHANGED <<wpc, wjob, fjob, chan>>
    BY <2>1 DEF ReleaseProp, ReturnSelf, workerVars
  <2>4. Stays
    BY <2>2, <2>3, PlacesStayButPc
  <2> QED
    BY <2>4, StaysIsStutter
<1>10. CASE \/ \E c \in Callers : Ask(c)
            \/ PopSender \/ JoinFiber \/ StoreDone \/ LeaveWorker
            \/ BeginTerminate \/ MoveOut \/ PanicInCall
            \/ LeaveSweep \/ PopToShutdown \/ UNCHANGED vars
  <2>1. UNCHANGED <<wjob, fjob, fpc, chan>> /\ (wpc' = "returned") = (wpc = "returned")
    BY <1>10 DEF Ask, PopSender, JoinFiber, StoreDone, LeaveWorker, BeginTerminate, MoveOut,
       PanicInCall, LeaveSweep, PopToShutdown, vars, workerVars, fiberVars
  <2>2. Stays
    BY <2>1, PlacesStay
  <2> QED
    BY <2>2, StaysIsStutter
<1> QED
  BY <1>1, <1>2, <1>3, <1>4, <1>5, <1>6, <1>7, <1>8, <1>9, <1>10
     DEF Next, Worker, Fiber, Terminator

(* The pool is a JobService for any number of callers and fibers: a launch  *)
(* that the worker takes is queued, runs once on one fiber, is answered     *)
(* after it has run, whether it returned or panicked; and when Terminate    *)
(* has returned there is none left and none is taken.                       *)
THEOREM PoolImplementsJobs == Spec => ImplementsJobs
<1>1. Init => Jobs!Init
  <2> SUFFICES ASSUME Init PROVE Jobs!Init
    OBVIOUS
  <2>1. \A c \in Callers : Place(c) = "none"
    BY PoolAssumption DEF Init, Place, Queued, At, InChan
  <2>2. \A c \in Callers : JobOf(c) = "none"
    BY <2>1, PoolInit, JobOfIsPlace
  <2>3. (wpc = "returned") = FALSE
    BY DEF Init
  <2> QED
    BY <2>2, <2>3 DEF Jobs!Init
<1>2. PoolInv /\ PoolInv' /\ [Next]_vars => [Jobs!Next]_(Jobs!vars)
  BY JobStep
<1> QED
  BY <1>1, <1>2, PoolInvariant, PTL DEF Spec, ImplementsJobs, Jobs!Spec

=============================================================================
