-------------------------- MODULE ProcessorProofs --------------------------
(***************************************************************************)
(* Proofs about the processor's threads, for any number of RT threads,     *)
(* devices and events and any size of the event deques.                    *)
(***************************************************************************)
EXTENDS Processor, TLAPS

-----------------------------------------------------------------------------
(***************************************************************************)
(* What the operations of the triple buffer preserve.                      *)
(***************************************************************************)

(* push_back keeps a deque within its memory block. *)
LEMMA DequePushBounded ==
  ASSUME NEW d \in Seq(Event), Len(d) <= QueueSize, NEW e \in Event
  PROVE  DequePush(d, e) \in Seq(Event) /\ Len(DequePush(d, e)) <= QueueSize
<1>1. CASE HasRoom(d)
  <2>1. Append(d, e) \in Seq(Event) /\ Len(Append(d, e)) = Len(d) + 1
    OBVIOUS
  <2>2. Len(d) \in Nat /\ Len(d) < QueueSize
    BY <1>1 DEF HasRoom
  <2> QED  BY <1>1, <2>1, <2>2, QueueSizeAssumption DEF DequePush
<1>2. CASE ~HasRoom(d)
  BY <1>2, QueueSizeAssumption DEF DequePush
<1> QED  BY <1>1, <1>2

(* A push changes one deque and none of the three pointers. *)
LEMMA PushAtType ==
  ASSUME NEW b \in TripleBuffers, Bounded(b), NEW s \in Slot, NEW e \in Event
  PROVE  /\ PushAt(b, s, e) \in TripleBuffers
         /\ Bounded(PushAt(b, s, e))
         /\ PushAt(b, s, e).front = b.front
         /\ PushAt(b, s, e).back = b.back
         /\ PushAt(b, s, e).local = b.local
         /\ \A r \in Slot \ {s} : PushAt(b, s, e).store[r] = b.store[r]
<1>1. DequePush(b.store[s], e) \in Seq(Event) /\ Len(DequePush(b.store[s], e)) <= QueueSize
  BY DequePushBounded DEF TripleBuffers, Bounded
<1> QED  BY <1>1 DEF PushAt, TripleBuffers, Bounded

(* The reader takes from the front deque only. *)
LEMMA PopFrontType ==
  ASSUME NEW b \in TripleBuffers, Bounded(b), Front(b) # <<>>
  PROVE  /\ Head(Front(b)) \in Event
         /\ PopFront(b) \in TripleBuffers
         /\ Bounded(PopFront(b))
         /\ PopFront(b).front = b.front
         /\ PopFront(b).back = b.back
         /\ PopFront(b).local = b.local
         /\ \A r \in Slot \ {b.front} : PopFront(b).store[r] = b.store[r]
<1>1. Front(b) \in Seq(Event) /\ Len(Front(b)) <= QueueSize
  BY DEF TripleBuffers, Bounded, Front
<1>2. Tail(Front(b)) \in Seq(Event) /\ Len(Tail(Front(b))) <= QueueSize
  BY <1>1, QueueSizeAssumption
<1>3. Head(Front(b)) \in Event
  BY <1>1
<1> QED  BY <1>2, <1>3 DEF PopFront, Front, TripleBuffers, Bounded

LEMMA ClearFrontType ==
  ASSUME NEW b \in TripleBuffers, Bounded(b)
  PROVE  /\ ClearFront(b) \in TripleBuffers
         /\ Bounded(ClearFront(b))
         /\ Front(ClearFront(b)) = <<>>
         /\ ClearFront(b).front = b.front
         /\ ClearFront(b).back = b.back
         /\ ClearFront(b).local = b.local
         /\ \A r \in Slot \ {b.front} : ClearFront(b).store[r] = b.store[r]
<1>1. <<>> \in Seq(Event) /\ Len(<<>>) <= QueueSize
  BY QueueSizeAssumption
<1> QED  BY <1>1 DEF ClearFront, Front, TripleBuffers, Bounded

(* A flip exchanges two pointers and leaves the deques alone. *)
LEMMA FlipBackType ==
  ASSUME NEW b \in TripleBuffers, Bounded(b)
  PROVE  /\ FlipBack(b) \in TripleBuffers
         /\ Bounded(FlipBack(b))
         /\ FlipBack(b).store = b.store
         /\ FlipBack(b).front = b.back
         /\ FlipBack(b).back = b.front
         /\ FlipBack(b).local = b.local
BY DEF FlipBack, TripleBuffers, Bounded

LEMMA FlipLocalType ==
  ASSUME NEW b \in TripleBuffers, Bounded(b)
  PROVE  /\ FlipLocal(b) \in TripleBuffers
         /\ Bounded(FlipLocal(b))
         /\ FlipLocal(b).store = b.store
         /\ FlipLocal(b).front = b.local
         /\ FlipLocal(b).back = b.back
         /\ FlipLocal(b).local = b.front
BY DEF FlipLocal, TripleBuffers, Bounded

-----------------------------------------------------------------------------
(***************************************************************************)
(* Type correctness.                                                       *)
(***************************************************************************)
LEMMA QueuedPush ==
  ASSUME TypeOK, NEW p \in Pusher, pushing[p].queue \in {"rt", "async"}
  PROVE  pushing[p].slot \in Slot /\ pushing[p].event \in Event
BY DEF TypeOK, Pushes, NoPush

LEMMA FateOfPushType ==
  ASSUME TypeOK, NEW b, NEW s, NEW e
  PROVE  FateOfPush(b, s, e) \in [Event -> Fate]
BY DEF FateOfPush, TypeOK, Fate

LEMMA FateOfClearType ==
  ASSUME TypeOK
  PROVE  FateOfClear \in [Event -> Fate]
BY DEF FateOfClear, TypeOK, Fate

LEMMA TypeInit == Init => TypeOK
<1>1. InitBuffers \in TripleBuffers /\ Bounded(InitBuffers)
  <2>1. <<>> \in Seq(Event) /\ Len(<<>>) <= QueueSize
    BY QueueSizeAssumption
  <2> QED  BY <2>1 DEF InitBuffers, TripleBuffers, Bounded, Slot
<1> QED
  BY <1>1 DEF Init, TypeOK, Pusher, Pushes, NoPush, Owner, UserPcs, RtPcs, AsyncPcs, Fate

LEMMA TypeStep == TypeOK /\ [Next]_vars => TypeOK'
<1> SUFFICES ASSUME TypeOK, [Next]_vars PROVE TypeOK'
  OBVIOUS
<1> USE DEF userVars, rtVars, asyncVars, lockVars
<1>a. ASSUME NEW p \in Pusher, NEW e \in Event, LockRtBack(p, e) PROVE TypeOK'
  <2>1. [queue |-> "rt", slot |-> rtBuffers.back, event |-> e] \in Pushes
    BY DEF TypeOK, TripleBuffers, Pushes
  <2> QED
    BY <1>a, <2>1 DEF LockRtBack, TypeOK, Pusher, Owner, Fate
<1>b. ASSUME NEW p \in Pusher, NEW e \in Event, LockAsyncLocal(p, e) PROVE TypeOK'
  <2>1. [queue |-> "async", slot |-> asyncBuffers.local, event |-> e] \in Pushes
    BY DEF TypeOK, TripleBuffers, Pushes
  <2> QED
    BY <1>b, <2>1 DEF LockAsyncLocal, TypeOK, Pusher, Owner, Fate
<1>c. ASSUME NEW p \in Pusher, PushRt(p) PROVE TypeOK'
  <2>1. pushing[p].slot \in Slot /\ pushing[p].event \in Event
    BY <1>c, QueuedPush DEF PushRt
  <2>2. rtBuffers' \in TripleBuffers /\ Bounded(rtBuffers')
    BY <1>c, <2>1, PushAtType DEF PushRt, TypeOK
  <2>3. fate' \in [Event -> Fate]
    BY <1>c, FateOfPushType DEF PushRt
  <2> QED
    BY <1>c, <2>2, <2>3 DEF PushRt, TypeOK, Pushes, Owner
<1>d. ASSUME NEW p \in Pusher, PushAsync(p) PROVE TypeOK'
  <2>1. pushing[p].slot \in Slot /\ pushing[p].event \in Event
    BY <1>d, QueuedPush DEF PushAsync
  <2>2. asyncBuffers' \in TripleBuffers /\ Bounded(asyncBuffers')
    BY <1>d, <2>1, PushAtType DEF PushAsync, TypeOK
  <2>3. fate' \in [Event -> Fate]
    BY <1>d, FateOfPushType DEF PushAsync
  <2> QED
    BY <1>d, <2>2, <2>3 DEF PushAsync, TypeOK, Pushes, Owner
<1>e. ASSUME NEW t \in RtThread, RtRequest(t) \/ RtUnblock(t) PROVE TypeOK'
  BY <1>e DEF RtRequest, RtUnblock, RtGoto, TypeOK, RtPcs
<1>f. ASSUME NEW t \in RtThread, RtFlipBack(t) PROVE TypeOK'
  <2>1. rtBuffers' \in TripleBuffers /\ Bounded(rtBuffers')
    BY <1>f, FlipBackType DEF RtFlipBack, TypeOK
  <2> QED
    BY <1>f, <2>1 DEF RtFlipBack, RtGoto, TypeOK, RtPcs
<1>g. ASSUME NEW t \in RtThread, RtExecute(t) PROVE TypeOK'
  <2>1. rtBuffers' \in TripleBuffers /\ Bounded(rtBuffers')
    BY <1>g, PopFrontType DEF RtExecute, TypeOK
  <2>2. fate' \in [Event -> Fate]
    BY <1>g DEF RtExecute, TypeOK, Fate
  <2> QED
    BY <1>g, <2>1, <2>2 DEF RtExecute, RtGoto, TypeOK, RtPcs
<1>h. ASSUME NEW t \in RtThread, NEW e \in Event, RtPushSelf(t, e) PROVE TypeOK'
  <2>1. rtBuffers' \in TripleBuffers /\ Bounded(rtBuffers')
    BY <1>h, PushAtType DEF RtPushSelf, TypeOK, TripleBuffers
  <2>2. fate' \in [Event -> Fate]
    BY <1>h, FateOfPushType DEF RtPushSelf
  <2> QED
    BY <1>h, <2>1, <2>2 DEF RtPushSelf, TypeOK
<1>i. ASSUME NEW t \in RtThread, NEW e \in Event, RtPushAsync(t, e) PROVE TypeOK'
  <2>1. asyncBuffers' \in TripleBuffers /\ Bounded(asyncBuffers')
    BY <1>i, PushAtType DEF RtPushAsync, TypeOK, TripleBuffers
  <2>2. fate' \in [Event -> Fate]
    BY <1>i, FateOfPushType DEF RtPushAsync
  <2> QED
    BY <1>i, <2>1, <2>2 DEF RtPushAsync, TypeOK
<1>j. ASSUME NEW t \in RtThread, RtProcessSinks(t) \/ RtEndLocal(t) PROVE TypeOK'
  <2>1. rtBuffers' \in TripleBuffers /\ Bounded(rtBuffers')
    BY <1>j, ClearFrontType DEF RtProcessSinks, RtEndLocal, TypeOK
  <2> QED
    BY <1>j, <2>1 DEF RtProcessSinks, RtEndLocal, RtGoto, TypeOK, RtPcs
<1>k. ASSUME NEW t \in RtThread, RtFlipLocal(t) PROVE TypeOK'
  <2>1. rtBuffers' \in TripleBuffers /\ Bounded(rtBuffers')
    BY <1>k, FlipLocalType DEF RtFlipLocal, TypeOK
  <2> QED
    BY <1>k, <2>1 DEF RtFlipLocal, RtGoto, TypeOK, RtPcs
<1>l. ASSUME NEW t \in RtThread, RtHandoff(t) PROVE TypeOK'
  <2>1. asyncBuffers' \in TripleBuffers /\ Bounded(asyncBuffers')
    BY <1>l, FlipBackType DEF RtHandoff, TypeOK
  <2>2. asyncPc' \in AsyncPcs /\ asyncRequestFlip' \in BOOLEAN
    BY <1>l DEF RtHandoff, Notified, TypeOK, AsyncPcs
  <2> QED
    BY <1>l, <2>1, <2>2 DEF RtHandoff, RtGoto, TypeOK, RtPcs
<1>m. ASSUME AsyncTest \/ AsyncLock \/ AsyncEndLoop \/ AsyncCheck
             \/ AsyncRelock \/ AsyncSpuriousWake
      PROVE  TypeOK'
  BY <1>m DEF AsyncTest, AsyncLock, AsyncEndLoop, AsyncCheck, AsyncRelock,
              AsyncSpuriousWake, AsyncGoto, AsyncUnchanged, TypeOK, AsyncPcs
<1>n. ASSUME AsyncExecute PROVE TypeOK'
  <2>1. asyncBuffers' \in TripleBuffers /\ Bounded(asyncBuffers')
    BY <1>n, PopFrontType DEF AsyncExecute, TypeOK
  <2>2. fate' \in [Event -> Fate]
    BY <1>n DEF AsyncExecute, TypeOK, Fate
  <2> QED
    BY <1>n, <2>1, <2>2 DEF AsyncExecute, AsyncGoto, AsyncUnchanged, TypeOK, AsyncPcs
<1>o. ASSUME AsyncClearBack PROVE TypeOK'
  <2>1. asyncBuffers' \in TripleBuffers /\ Bounded(asyncBuffers')
    BY <1>o, ClearFrontType, FlipLocalType DEF AsyncClearBack, TypeOK
  <2>2. fate' \in [Event -> Fate]
    BY <1>o, FateOfClearType DEF AsyncClearBack
  <2> QED
    BY <1>o, <2>1, <2>2 DEF AsyncClearBack, AsyncGoto, AsyncUnchanged, TypeOK, AsyncPcs
<1>p. ASSUME AsyncClearLocal PROVE TypeOK'
  <2>1. asyncBuffers' \in TripleBuffers /\ Bounded(asyncBuffers')
    BY <1>p, ClearFrontType DEF AsyncClearLocal, TypeOK
  <2>2. fate' \in [Event -> Fate]
    BY <1>p, FateOfClearType DEF AsyncClearLocal
  <2> QED
    BY <1>p, <2>1, <2>2 DEF AsyncClearLocal, AsyncGoto, AsyncUnchanged, TypeOK, AsyncPcs
<1>q. ASSUME Start \/ Stop \/ UserStep PROVE TypeOK'
  BY <1>q DEF Start, Stop, UserStep, StartDevice, StopDevice, StartReturn, StopAsync,
              Join, Notified, UserIdle, UserUnchanged, TypeOK, UserPcs, AsyncPcs
<1>r. ASSUME UNCHANGED vars PROVE TypeOK'
  BY <1>r DEF vars, TypeOK
<1> QED
  BY <1>a, <1>b, <1>c, <1>d, <1>e, <1>f, <1>g, <1>h, <1>i, <1>j, <1>k, <1>l, <1>m,
     <1>n, <1>o, <1>p, <1>q, <1>r
  DEF Next, LockStep, PushStep, BlockStep, RtPush, AsyncStep

(* The variables keep their types; in particular no deque ever holds more  *)
(* events than fit in its memory block, whoever pushes and however fast.   *)
THEOREM TypeCorrect == Spec => []TypeOK
BY TypeInit, TypeStep, PTL DEF Spec

-----------------------------------------------------------------------------
(***************************************************************************)
(* Mutual exclusion of the blocks: the invariant is inductive.             *)
(***************************************************************************)
LEMMA OneBlockStep == TypeOK /\ OneBlockAtATime /\ [Next]_vars => OneBlockAtATime'
<1> SUFFICES ASSUME TypeOK, OneBlockAtATime, [Next]_vars PROVE OneBlockAtATime'
  OBVIOUS
<1> USE DEF userVars, rtVars, asyncVars, lockVars
<1>1. CASE UNCHANGED <<rtMutex, rtPc>>
  BY <1>1 DEF OneBlockAtATime
<1>2. ASSUME NEW t \in RtThread, RtRequest(t) PROVE OneBlockAtATime'
  <2>1. CASE rtMutex = "none"
    <3>1. \A u \in RtThread : rtPc[u] \in {"idle", "blocked"}
      BY <2>1, ThreadAssumption DEF OneBlockAtATime
    <3> QED
      BY <1>2, <2>1, <3>1 DEF RtRequest, RtGoto, OneBlockAtATime, TypeOK
  <2>2. CASE rtMutex # "none"
    BY <1>2, <2>2 DEF RtRequest, RtGoto, OneBlockAtATime, TypeOK
  <2> QED  BY <2>1, <2>2
<1>3. ASSUME NEW t \in RtThread, RtUnblock(t) PROVE OneBlockAtATime'
  BY <1>3 DEF RtUnblock, RtGoto, OneBlockAtATime, TypeOK
<1>4. ASSUME NEW t \in RtThread,
             RtFlipBack(t) \/ RtExecute(t) \/ RtProcessSinks(t)
               \/ RtFlipLocal(t) \/ RtEndLocal(t)
      PROVE  OneBlockAtATime'
  <2>1. rtMutex = t
    BY <1>4 DEF RtFlipBack, RtExecute, RtProcessSinks, RtFlipLocal, RtEndLocal,
                OneBlockAtATime
  <2> QED
    BY <1>4, <2>1 DEF RtFlipBack, RtExecute, RtProcessSinks, RtFlipLocal, RtEndLocal,
                      RtGoto, OneBlockAtATime, TypeOK
<1>5. ASSUME NEW t \in RtThread, RtHandoff(t) PROVE OneBlockAtATime'
  <2>1. rtMutex = t
    BY <1>5 DEF RtHandoff, OneBlockAtATime
  <2>2. \A u \in RtThread \ {t} : rtPc[u] \in {"idle", "blocked"}
    BY <2>1 DEF OneBlockAtATime
  <2> QED
    BY <1>5, <2>2 DEF RtHandoff, RtGoto, OneBlockAtATime, TypeOK
<1>6. ASSUME NEW t \in RtThread, RtPush(t) PROVE OneBlockAtATime'
  BY <1>6, <1>1 DEF RtPush, RtPushSelf, RtPushAsync
<1>7. ASSUME NEW p \in Pusher, LockStep(p) \/ PushStep(p) PROVE OneBlockAtATime'
  BY <1>7, <1>1 DEF LockStep, PushStep, LockRtBack, LockAsyncLocal, PushRt, PushAsync
<1>8. ASSUME AsyncStep \/ AsyncSpuriousWake PROVE OneBlockAtATime'
  BY <1>8, <1>1 DEF AsyncStep, AsyncTest, AsyncLock, AsyncExecute, AsyncEndLoop,
     AsyncClearBack, AsyncClearLocal, AsyncCheck, AsyncRelock, AsyncSpuriousWake,
     AsyncUnchanged
<1>9. ASSUME Start \/ Stop \/ UserStep PROVE OneBlockAtATime'
  BY <1>9, <1>1 DEF Start, Stop, UserStep, StartDevice, StopDevice, StartReturn,
     StopAsync, Join, UserUnchanged
<1>10. CASE UNCHANGED vars
  BY <1>10, <1>1 DEF vars
<1> QED
  BY <1>2, <1>3, <1>4, <1>5, <1>6, <1>7, <1>8, <1>9, <1>10 DEF Next, BlockStep

(* Audio blocks are serialised for any number of threads that request      *)
(* them: _rt_process_once() runs only in the holder of _rt_mutex.          *)
THEOREM BlocksSerialised == Spec => []OneBlockAtATime
<1>1. Init => OneBlockAtATime
  BY DEF Init, OneBlockAtATime
<1> QED  BY <1>1, OneBlockStep, TypeCorrect, PTL DEF Spec

-----------------------------------------------------------------------------
(***************************************************************************)
(* The deque that a pusher looked up stays the back buffer: the invariant  *)
(* is inductive, because it also says who holds the lock.                  *)
(***************************************************************************)
LEMMA PushesStep == TypeOK /\ PushesGoToTheBack /\ [Next]_vars => PushesGoToTheBack'
<1> SUFFICES ASSUME TypeOK, PushesGoToTheBack, [Next]_vars PROVE PushesGoToTheBack'
  OBVIOUS
<1> USE DEF userVars, rtVars, asyncVars, lockVars
<1>1. CASE /\ UNCHANGED <<pushing, rtBackLock>>
           /\ rtBuffers'.front = rtBuffers.front
           /\ rtBuffers'.back = rtBuffers.back
           /\ rtBuffers'.local = rtBuffers.local
  BY <1>1 DEF PushesGoToTheBack, Distinct
<1>2. ASSUME NEW p \in Pusher, NEW e \in Event, LockRtBack(p, e)
      PROVE  PushesGoToTheBack'
  <2>1. \A q \in Pusher : pushing[q].queue # "rt"
    BY <1>2 DEF LockRtBack, PushesGoToTheBack, Pusher
  <2> QED
    BY <1>2, <2>1 DEF LockRtBack, PushesGoToTheBack, Distinct, TypeOK
<1>3. ASSUME NEW p \in Pusher, NEW e \in Event, LockAsyncLocal(p, e)
      PROVE  PushesGoToTheBack'
  BY <1>3 DEF LockAsyncLocal, PushesGoToTheBack, Distinct, TypeOK
<1>4. ASSUME NEW p \in Pusher, PushRt(p) PROVE PushesGoToTheBack'
  <2>1. rtBackLock = p
    BY <1>4 DEF PushRt, PushesGoToTheBack
  <2>2. \A q \in Pusher \ {p} : pushing[q].queue # "rt"
    BY <2>1 DEF PushesGoToTheBack
  <2>3. /\ rtBuffers'.front = rtBuffers.front
        /\ rtBuffers'.back = rtBuffers.back
        /\ rtBuffers'.local = rtBuffers.local
    BY <1>4, QueuedPush, PushAtType DEF PushRt, TypeOK
  <2> QED
    BY <1>4, <2>2, <2>3 DEF PushRt, PushesGoToTheBack, Distinct, NoPush, TypeOK
<1>5. ASSUME NEW p \in Pusher, PushAsync(p) PROVE PushesGoToTheBack'
  BY <1>5 DEF PushAsync, PushesGoToTheBack, Distinct, NoPush, TypeOK
<1>6. ASSUME NEW t \in RtThread, RtFlipBack(t) PROVE PushesGoToTheBack'
  <2>1. CASE rtBackLock = "none"
    <3>1. \A q \in Pusher : pushing[q].queue # "rt"
      BY <2>1 DEF PushesGoToTheBack, Pusher
    <3>2. Distinct(rtBuffers')
      BY <1>6, <2>1, FlipBackType
      DEF RtFlipBack, PushesGoToTheBack, Distinct, TypeOK
    <3> QED
      BY <1>6, <3>1, <3>2 DEF RtFlipBack, PushesGoToTheBack
  <2>2. CASE rtBackLock # "none"
    BY <1>1, <1>6, <2>2 DEF RtFlipBack
  <2> QED  BY <2>1, <2>2
<1>7. ASSUME NEW t \in RtThread, RtFlipLocal(t) PROVE PushesGoToTheBack'
  <2>1. Distinct(rtBuffers') /\ rtBuffers'.back = rtBuffers.back
    BY <1>7, FlipLocalType DEF RtFlipLocal, PushesGoToTheBack, Distinct, TypeOK
  <2> QED
    BY <1>7, <2>1 DEF RtFlipLocal, PushesGoToTheBack
<1>8. ASSUME NEW t \in RtThread,
             RtRequest(t) \/ RtUnblock(t) \/ RtExecute(t) \/ RtProcessSinks(t)
               \/ RtEndLocal(t) \/ RtHandoff(t) \/ RtPush(t)
      PROVE  PushesGoToTheBack'
  <2>1. CASE RtRequest(t) \/ RtUnblock(t) \/ RtHandoff(t)
    BY <1>1, <2>1 DEF RtRequest, RtUnblock, RtHandoff
  <2>2. CASE RtExecute(t)
    BY <1>1, <2>2, PopFrontType DEF RtExecute, TypeOK
  <2>3. CASE RtProcessSinks(t) \/ RtEndLocal(t)
    BY <1>1, <2>3, ClearFrontType DEF RtProcessSinks, RtEndLocal, TypeOK
  <2>4. ASSUME NEW e \in Event, RtPushSelf(t, e) PROVE PushesGoToTheBack'
    <3>1. rtBuffers.local \in Slot
      BY DEF TypeOK, TripleBuffers
    <3> QED
      BY <1>1, <2>4, <3>1, PushAtType DEF RtPushSelf, TypeOK
  <2>5. ASSUME NEW e \in Event, RtPushAsync(t, e) PROVE PushesGoToTheBack'
    BY <1>1, <2>5 DEF RtPushAsync
  <2> QED  BY <1>8, <2>1, <2>2, <2>3, <2>4, <2>5 DEF RtPush
<1>9. ASSUME AsyncStep \/ AsyncSpuriousWake PROVE PushesGoToTheBack'
  BY <1>9, <1>1 DEF AsyncStep, AsyncTest, AsyncLock, AsyncExecute, AsyncEndLoop,
     AsyncClearBack, AsyncClearLocal, AsyncCheck, AsyncRelock, AsyncSpuriousWake,
     AsyncUnchanged
<1>10. ASSUME Start \/ Stop \/ UserStep PROVE PushesGoToTheBack'
  BY <1>10, <1>1 DEF Start, Stop, UserStep, StartDevice, StopDevice, StartReturn,
     StopAsync, Join, UserUnchanged
<1>11. CASE UNCHANGED vars
  BY <1>11, <1>1 DEF vars
<1> QED
  BY <1>2, <1>3, <1>4, <1>5, <1>6, <1>7, <1>8, <1>9, <1>10, <1>11
  DEF Next, LockStep, PushStep, BlockStep

(* A push of the user or of the async thread never writes into a deque     *)
(* that an RT thread reads or writes.                                      *)
THEOREM PushesExcluded == Spec => []PushesGoToTheBack
<1>1. Init => PushesGoToTheBack
  BY DEF Init, InitBuffers, PushesGoToTheBack, Distinct, NoPush, Pusher
<1> QED  BY <1>1, PushesStep, TypeCorrect, PTL DEF Spec

-----------------------------------------------------------------------------
(***************************************************************************)
(* The async thread exists between start() and the join of stop().         *)
(***************************************************************************)
ThreadInv ==
  /\ userPc \in {"starting", "stopping"} => isRunning
  /\ userPc = "joining" => ~isRunning
  /\ asyncPc = "off" <=> ~isRunning /\ userPc # "joining"

LEMMA ThreadInvStep == TypeOK /\ ThreadInv /\ [Next]_vars => ThreadInv'
<1> SUFFICES ASSUME TypeOK, ThreadInv, [Next]_vars PROVE ThreadInv'
  OBVIOUS
<1> USE DEF userVars, rtVars, asyncVars, lockVars
<1>1. CASE UNCHANGED <<isRunning, userPc, asyncPc>>
  BY <1>1 DEF ThreadInv
<1>2. ASSUME NEW p \in Pusher, LockStep(p) \/ PushStep(p) PROVE ThreadInv'
  BY <1>1, <1>2 DEF LockStep, PushStep, LockRtBack, LockAsyncLocal, PushRt, PushAsync
<1>3. ASSUME NEW t \in RtThread,
             RtRequest(t) \/ RtUnblock(t) \/ RtFlipBack(t) \/ RtExecute(t)
               \/ RtProcessSinks(t) \/ RtFlipLocal(t) \/ RtEndLocal(t) \/ RtPush(t)
      PROVE  ThreadInv'
  BY <1>1, <1>3 DEF RtRequest, RtUnblock, RtFlipBack, RtExecute, RtProcessSinks,
     RtFlipLocal, RtEndLocal, RtPush, RtPushSelf, RtPushAsync
<1>4. ASSUME NEW t \in RtThread, RtHandoff(t) PROVE ThreadInv'
  BY <1>4 DEF RtHandoff, Notified, ThreadInv
<1>5. CASE AsyncStep \/ AsyncSpuriousWake
  BY <1>5 DEF AsyncStep, AsyncTest, AsyncLock, AsyncExecute, AsyncEndLoop,
     AsyncClearBack, AsyncClearLocal, AsyncCheck, AsyncRelock, AsyncSpuriousWake,
     AsyncAt, AsyncGoto, AsyncUnchanged, ThreadInv
<1>6. CASE Start \/ Stop \/ UserStep
  BY <1>6 DEF Start, Stop, UserStep, StartDevice, StopDevice, StartReturn, StopAsync,
     Join, Notified, UserIdle, UserUnchanged, ThreadInv
<1>7. CASE UNCHANGED vars
  BY <1>1, <1>7 DEF vars
<1> QED  BY <1>2, <1>3, <1>4, <1>5, <1>6, <1>7 DEF Next, BlockStep

LEMMA ThreadInvAlways == Spec => []ThreadInv
<1>1. Init => ThreadInv
  BY DEF Init, ThreadInv
<1> QED  BY <1>1, ThreadInvStep, TypeCorrect, PTL DEF Spec

-----------------------------------------------------------------------------
(***************************************************************************)
(* Stopping: the user thread pushes nothing during stop(), and the async   *)
(* thread pushes only while it executes an event.                          *)
(***************************************************************************)
DrainInv ==
  /\ Distinct(asyncBuffers)
  /\ userPc # "idle" => pushing["user"] = NoPush
  /\ pushing["async"] # NoPush => asyncPc \in {"inBack", "inLocal"}
  /\ asyncPc = "done" => ~isRunning /\ Local(asyncBuffers) = <<>>

LEMMA DrainInvStep == TypeOK /\ ThreadInv /\ DrainInv /\ [Next]_vars => DrainInv'
<1> SUFFICES ASSUME TypeOK, ThreadInv, DrainInv, [Next]_vars PROVE DrainInv'
  OBVIOUS
<1> USE DEF userVars, rtVars, asyncVars, lockVars
<1> DEFINE b == asyncBuffers
<1>0. /\ b \in TripleBuffers /\ Bounded(b)
      /\ b.front \in Slot /\ b.back \in Slot /\ b.local \in Slot
      /\ b.front # b.back /\ b.front # b.local /\ b.back # b.local
  BY DEF TypeOK, TripleBuffers, DrainInv, Distinct
<1>1. CASE UNCHANGED <<userVars, asyncVars, asyncBuffers, pushing>>
  BY <1>1 DEF DrainInv, Distinct, Local
<1>2. ASSUME NEW p \in Pusher, LockStep(p) PROVE DrainInv'
  <2>1. CanPush(p) /\ (\E r : pushing' = [pushing EXCEPT ![p] = r])
    BY <1>2 DEF LockStep, LockRtBack, LockAsyncLocal
  <2>2. UNCHANGED <<userVars, asyncVars, asyncBuffers>>
    BY <1>2 DEF LockStep, LockRtBack, LockAsyncLocal
  <2> QED
    BY <2>1, <2>2 DEF CanPush, DrainInv, Distinct, Local, Pusher, TypeOK
<1>3. ASSUME NEW p \in Pusher, PushRt(p) PROVE DrainInv'
  <2>1. /\ pushing' = [pushing EXCEPT ![p] = NoPush]
        /\ UNCHANGED <<userVars, asyncVars, asyncBuffers>>
    BY <1>3 DEF PushRt
  <2> QED
    BY <2>1 DEF DrainInv, Distinct, Local, Pusher, TypeOK
<1>4. ASSUME NEW p \in Pusher, PushAsync(p) PROVE DrainInv'
  <2>1. asyncPc # "done"
    <3>1. pushing[p] # NoPush
      BY <1>4 DEF PushAsync, NoPush
    <3> QED
      BY <3>1 DEF DrainInv, ThreadInv, Pusher
  <2>2. Distinct(b')
    BY <1>0, <1>4, QueuedPush, PushAtType DEF PushAsync, Distinct
  <2>3. pushing' = [pushing EXCEPT ![p] = NoPush] /\ UNCHANGED <<userVars, asyncVars>>
    BY <1>4 DEF PushAsync
  <2> QED
    BY <2>1, <2>2, <2>3 DEF DrainInv, Pusher, TypeOK
<1>5. ASSUME NEW t \in RtThread, NEW e \in Event, RtPushAsync(t, e) PROVE DrainInv'
  <2>1. Distinct(b') /\ Local(b') = Local(b)
    BY <1>0, <1>5, PushAtType DEF RtPushAsync, Distinct, Local
  <2>2. UNCHANGED <<userVars, asyncVars, pushing>>
    BY <1>5 DEF RtPushAsync
  <2> QED
    BY <2>1, <2>2 DEF DrainInv
<1>6. ASSUME NEW t \in RtThread, RtHandoff(t) PROVE DrainInv'
  <2>1. CASE UNCHANGED <<asyncRequestFlip, asyncBuffers, asyncPc>>
    BY <1>1, <1>6, <2>1 DEF RtHandoff
  <2>2. CASE asyncBuffers' = FlipBack(b) /\ asyncPc' = Notified(asyncPc)
    <3>1. Distinct(b') /\ Local(b') = Local(b)
      BY <1>0, <2>2, FlipBackType DEF Distinct, Local
    <3>2. \A pc \in {"done", "inBack", "inLocal"} : asyncPc' = pc <=> asyncPc = pc
      BY <2>2 DEF Notified
    <3>3. UNCHANGED <<userVars, pushing>>
      BY <1>6 DEF RtHandoff
    <3> QED
      BY <3>1, <3>2, <3>3 DEF DrainInv
  <2> QED  BY <1>6, <2>1, <2>2 DEF RtHandoff
<1>7. ASSUME NEW t \in RtThread,
             RtRequest(t) \/ RtUnblock(t) \/ RtFlipBack(t) \/ RtExecute(t)
               \/ RtProcessSinks(t) \/ RtFlipLocal(t) \/ RtEndLocal(t)
      PROVE  DrainInv'
  BY <1>1, <1>7 DEF RtRequest, RtUnblock, RtFlipBack, RtExecute, RtProcessSinks,
     RtFlipLocal, RtEndLocal
<1>8. ASSUME NEW t \in RtThread, NEW e \in Event, RtPushSelf(t, e) PROVE DrainInv'
  BY <1>1, <1>8 DEF RtPushSelf
<1>9. CASE AsyncTest
  BY <1>9 DEF AsyncTest, AsyncAt, AsyncGoto, AsyncUnchanged, DrainInv, Distinct, Local
<1>10. CASE AsyncExecute
  <2>1. Distinct(b')
    BY <1>0, <1>10, PopFrontType DEF AsyncExecute, Distinct
  <2> QED
    BY <1>10, <2>1 DEF AsyncExecute, AsyncAt, AsyncGoto, AsyncUnchanged, DrainInv
<1>11. CASE AsyncClearBack \/ AsyncClearLocal
  <2>1. Distinct(b')
    BY <1>0, <1>11, ClearFrontType, FlipLocalType
    DEF AsyncClearBack, AsyncClearLocal, Distinct
  <2> QED
    BY <1>11, <2>1 DEF AsyncClearBack, AsyncClearLocal, AsyncAt, AsyncGoto,
                       AsyncUnchanged, DrainInv
<1>12. CASE AsyncLock \/ AsyncEndLoop \/ AsyncCheck \/ AsyncRelock \/ AsyncSpuriousWake
  BY <1>12 DEF AsyncLock, AsyncEndLoop, AsyncCheck, AsyncRelock, AsyncSpuriousWake,
               AsyncAt, AsyncGoto, AsyncUnchanged, DrainInv, Distinct, Local
<1>13. CASE Start
  <2>1. asyncPc = "off"
    BY <1>13 DEF Start, UserIdle, ThreadInv
  <2> QED
    BY <1>13, <2>1 DEF Start, UserIdle, UserUnchanged, DrainInv, Distinct
<1>14. CASE Stop \/ UserStep
  BY <1>14 DEF Stop, UserStep, StartDevice, StopDevice, StartReturn, StopAsync, Join,
     Notified, UserIdle, UserUnchanged, DrainInv, Distinct, Local
<1>15. CASE UNCHANGED vars
  BY <1>1, <1>15 DEF vars
<1> QED
  BY <1>2, <1>3, <1>4, <1>5, <1>6, <1>7, <1>8, <1>9, <1>10, <1>11, <1>12, <1>13,
     <1>14, <1>15
  DEF Next, PushStep, BlockStep, RtPush, AsyncStep

LEMMA DrainInvAlways == Spec => []DrainInv
<1>1. Init => DrainInv
  BY DEF Init, InitBuffers, DrainInv, Distinct, NoPush, Pusher
<1> QED  BY <1>1, DrainInvStep, TypeCorrect, ThreadInvAlways, PTL DEF Spec

(* When the async thread leaves its loop nothing is left in the local      *)
(* buffer, whoever pushed it, and however many events make new events.     *)
THEOREM AsyncDrained == Spec => []StopDrainsAsyncEvents
<1>1. DrainInv => StopDrainsAsyncEvents
  BY DEF DrainInv, StopDrainsAsyncEvents
<1> QED  BY <1>1, DrainInvAlways, PTL

-----------------------------------------------------------------------------
(***************************************************************************)
(* The hand-off between the RT and the async thread, for programs whose    *)
(* user thread pushes no async events (with such pushes the statement is   *)
(* false: the deque that a push has looked up may have become the front    *)
(* by the time it writes).                                                 *)
(***************************************************************************)
AsyncLocked == {"runBack", "inBack", "clearBack", "runLocal", "inLocal",
                "clearLocal", "check"}
AsyncLocal  == {"runLocal", "inLocal", "clearLocal"}

AsyncInv ==
  /\ asyncPc \in AsyncLocked => asyncMutex = "async"
  /\ pushing["user"].queue # "async"
  /\ pushing["async"].queue = "async" => pushing["async"].slot = asyncBuffers.local
  /\ asyncPc \in {"clearBack", "clearLocal"} => Front(asyncBuffers) = <<>>
  /\ asyncRequestFlip /\ asyncPc \notin AsyncLocal => Front(asyncBuffers) = <<>>

LEMMA AsyncInvStep ==
  ASSUME ~UserAsync
  PROVE  TypeOK /\ ThreadInv /\ DrainInv /\ AsyncInv /\ [Next]_vars => AsyncInv'
<1> SUFFICES ASSUME TypeOK, ThreadInv, DrainInv, AsyncInv, [Next]_vars PROVE AsyncInv'
  OBVIOUS
<1> USE DEF userVars, rtVars, asyncVars, lockVars
<1> DEFINE b == asyncBuffers
<1>0. /\ b \in TripleBuffers /\ Bounded(b)
      /\ b.front \in Slot /\ b.back \in Slot /\ b.local \in Slot
      /\ b.front # b.back /\ b.front # b.local /\ b.back # b.local
  BY DEF TypeOK, TripleBuffers, DrainInv, Distinct
<1>1. CASE UNCHANGED <<asyncVars, asyncBuffers, pushing>>
  BY <1>1 DEF AsyncInv, Front
<1>2. ASSUME NEW p \in Pusher, NEW e \in Event, LockRtBack(p, e) PROVE AsyncInv'
  <2>1. pushing' = [pushing EXCEPT
                      ![p] = [queue |-> "rt", slot |-> rtBuffers.back, event |-> e]]
    BY <1>2 DEF LockRtBack
  <2>2. UNCHANGED <<asyncVars, asyncBuffers>>
    BY <1>2 DEF LockRtBack
  <2> QED
    BY <2>1, <2>2 DEF AsyncInv, Front, Pusher, TypeOK
<1>3. ASSUME NEW p \in Pusher, NEW e \in Event, LockAsyncLocal(p, e) PROVE AsyncInv'
  <2>1. p = "async"
    BY <1>3 DEF LockAsyncLocal, Pusher
  <2>2. pushing' = [pushing EXCEPT
                      ![p] = [queue |-> "async", slot |-> asyncBuffers.local, event |-> e]]
    BY <1>3 DEF LockAsyncLocal
  <2>3. UNCHANGED <<asyncVars, asyncBuffers>>
    BY <1>3 DEF LockAsyncLocal
  <2> QED
    BY <2>1, <2>2, <2>3 DEF AsyncInv, Front, Pusher, TypeOK
<1>4. ASSUME NEW p \in Pusher, PushRt(p) PROVE AsyncInv'
  <2>1. pushing' = [pushing EXCEPT ![p] = NoPush] /\ UNCHANGED <<asyncVars, asyncBuffers>>
    BY <1>4 DEF PushRt
  <2> QED
    BY <2>1 DEF AsyncInv, Front, Pusher, NoPush, TypeOK
<1>5. ASSUME NEW p \in Pusher, PushAsync(p) PROVE AsyncInv'
  <2>1. p = "async" /\ pushing["async"].slot = b.local
    BY <1>5 DEF PushAsync, AsyncInv, Pusher
  <2>2. Front(b') = Front(b)
    BY <1>0, <1>5, <2>1, QueuedPush, PushAtType DEF PushAsync, Front
  <2>3. pushing' = [pushing EXCEPT ![p] = NoPush] /\ UNCHANGED asyncVars
    BY <1>5 DEF PushAsync
  <2> QED
    BY <2>1, <2>2, <2>3 DEF AsyncInv, Pusher, NoPush, TypeOK
<1>6. ASSUME NEW t \in RtThread, NEW e \in Event, RtPushAsync(t, e) PROVE AsyncInv'
  <2>1. Front(b') = Front(b) /\ b'.local = b.local
    BY <1>0, <1>6, PushAtType DEF RtPushAsync, Front
  <2>2. UNCHANGED <<asyncVars, pushing>>
    BY <1>6 DEF RtPushAsync
  <2> QED
    BY <2>1, <2>2 DEF AsyncInv
<1>7. ASSUME NEW t \in RtThread, RtHandoff(t) PROVE AsyncInv'
  <2>1. CASE UNCHANGED <<asyncRequestFlip, asyncBuffers, asyncPc>>
    BY <1>1, <1>7, <2>1 DEF RtHandoff
  <2>2. CASE /\ asyncMutex = "none"
             /\ asyncRequestFlip' = FALSE
             /\ asyncBuffers' = FlipBack(b)
             /\ asyncPc' = Notified(asyncPc)
    <3>1. asyncPc' \notin AsyncLocked
      BY <2>2 DEF AsyncInv, Notified, AsyncLocked
    <3>2. b'.local = b.local /\ UNCHANGED pushing
      BY <1>0, <1>7, <2>2, FlipBackType DEF RtHandoff
    <3> QED
      BY <2>2, <3>1, <3>2 DEF AsyncInv, AsyncLocked
  <2> QED  BY <1>7, <2>1, <2>2 DEF RtHandoff
<1>8. ASSUME NEW t \in RtThread,
             RtRequest(t) \/ RtUnblock(t) \/ RtFlipBack(t) \/ RtExecute(t)
               \/ RtProcessSinks(t) \/ RtFlipLocal(t) \/ RtEndLocal(t)
      PROVE  AsyncInv'
  BY <1>1, <1>8 DEF RtRequest, RtUnblock, RtFlipBack, RtExecute, RtProcessSinks,
     RtFlipLocal, RtEndLocal
<1>9. ASSUME NEW t \in RtThread, NEW e \in Event, RtPushSelf(t, e) PROVE AsyncInv'
  BY <1>1, <1>9 DEF RtPushSelf
<1>10. CASE AsyncTest \/ AsyncLock \/ AsyncEndLoop
  BY <1>10 DEF AsyncTest, AsyncLock, AsyncEndLoop, AsyncAt, AsyncGoto, AsyncUnchanged,
               AsyncInv, AsyncLocked, AsyncLocal, Front
<1>11. CASE AsyncExecute
  <2>1. Front(b) # <<>> /\ asyncPc \in {"runBack", "inBack", "runLocal", "inLocal"}
    BY <1>11 DEF AsyncExecute, AsyncAt
  <2>2. asyncPc' \in {"inBack", "inLocal"} /\ (asyncPc' \in AsyncLocal <=> asyncPc \in AsyncLocal)
    BY <1>11, <2>1 DEF AsyncExecute, AsyncGoto, AsyncLocal
  <2>3. ~(asyncRequestFlip /\ asyncPc \notin AsyncLocal) /\ asyncMutex = "async"
    BY <2>1 DEF AsyncInv, AsyncLocked
  <2>4. /\ UNCHANGED <<asyncMutex, asyncRequestFlip, pushing>>
        /\ b'.local = b.local
    BY <1>0, <1>11, <2>1, PopFrontType DEF AsyncExecute, AsyncUnchanged
  <2> QED
    BY <2>2, <2>3, <2>4 DEF AsyncInv
<1>12. CASE AsyncClearBack
  BY <1>12 DEF AsyncClearBack, AsyncAt, AsyncGoto, AsyncUnchanged, AsyncInv,
               AsyncLocked, AsyncLocal, NoPush
<1>13. CASE AsyncClearLocal
  <2>1. Front(b') = <<>> /\ b'.local = b.local
    BY <1>0, <1>13, ClearFrontType DEF AsyncClearLocal
  <2> QED
    BY <1>13, <2>1 DEF AsyncClearLocal, AsyncAt, AsyncGoto, AsyncUnchanged, AsyncInv,
                       AsyncLocked
<1>14. CASE AsyncCheck \/ AsyncRelock \/ AsyncSpuriousWake
  BY <1>14 DEF AsyncCheck, AsyncRelock, AsyncSpuriousWake, AsyncAt, AsyncGoto,
               AsyncUnchanged, AsyncInv, AsyncLocked, AsyncLocal, Front
<1>15. CASE Start
  <2>1. asyncPc = "off"
    BY <1>15 DEF Start, UserIdle, ThreadInv
  <2> QED
    BY <1>15, <2>1 DEF Start, UserUnchanged, AsyncInv, AsyncLocked, AsyncLocal, Front
<1>16. CASE Stop
  BY <1>1, <1>16 DEF Stop, UserUnchanged
<1>17. CASE UserStep
  BY <1>17 DEF UserStep, StartDevice, StopDevice, StartReturn, StopAsync, Join, Notified,
               UserUnchanged, AsyncInv, AsyncLocked, AsyncLocal, Front
<1>18. CASE UNCHANGED vars
  BY <1>1, <1>18 DEF vars
<1> QED
  BY <1>2, <1>3, <1>4, <1>5, <1>6, <1>7, <1>8, <1>9, <1>10, <1>11, <1>12, <1>13, <1>14,
     <1>15, <1>16, <1>17, <1>18
  DEF Next, LockStep, PushStep, BlockStep, RtPush, AsyncStep

LEMMA AsyncInvAlways ==
  ASSUME ~UserAsync
  PROVE  Spec => []AsyncInv
<1>1. Init => AsyncInv
  BY DEF Init, AsyncInv, AsyncLocked, AsyncLocal, NoPush, Pusher
<1>2. TypeOK /\ ThreadInv /\ DrainInv /\ AsyncInv /\ [Next]_vars => AsyncInv'
  BY AsyncInvStep
<1> QED  BY <1>1, <1>2, TypeCorrect, ThreadInvAlways, DrainInvAlways, PTL DEF Spec

LEMMA HandoffStep ==
  ASSUME ~UserAsync, TypeOK, AsyncInv, [Next]_vars,
         asyncBuffers.back' # asyncBuffers.back
  PROVE  /\ Front(asyncBuffers) = <<>>
         /\ asyncPc \notin {"runBack", "inBack", "clearBack",
                           "runLocal", "inLocal", "clearLocal"}
<1> USE DEF userVars, rtVars, asyncVars, lockVars
<1>0. asyncBuffers \in TripleBuffers /\ Bounded(asyncBuffers)
  BY DEF TypeOK
<1>1. asyncBuffers'.back # asyncBuffers.back
  OBVIOUS
<1>2. ASSUME NEW t \in RtThread, RtHandoff(t)
      PROVE  /\ Front(asyncBuffers) = <<>>
             /\ asyncPc \notin AsyncLocked
  <2>1. asyncMutex = "none" /\ asyncRequestFlip
    BY <1>1, <1>2 DEF RtHandoff
  <2> QED  BY <2>1 DEF AsyncInv, AsyncLocked, AsyncLocal
<1>3. ASSUME NEW p \in Pusher, LockStep(p) \/ PushRt(p) PROVE FALSE
  BY <1>1, <1>3 DEF LockStep, LockRtBack, LockAsyncLocal, PushRt
<1>4. ASSUME NEW p \in Pusher, PushAsync(p) PROVE FALSE
  BY <1>0, <1>1, <1>4, QueuedPush, PushAtType DEF PushAsync
<1>5. ASSUME NEW t \in RtThread,
             RtRequest(t) \/ RtUnblock(t) \/ RtFlipBack(t) \/ RtExecute(t)
               \/ RtProcessSinks(t) \/ RtFlipLocal(t) \/ RtEndLocal(t)
      PROVE  FALSE
  BY <1>1, <1>5 DEF RtRequest, RtUnblock, RtFlipBack, RtExecute, RtProcessSinks,
     RtFlipLocal, RtEndLocal
<1>6. ASSUME NEW t \in RtThread, RtPush(t) PROVE FALSE
  <2>1. asyncBuffers.back \in Slot
    BY <1>0 DEF TripleBuffers
  <2> QED
    BY <1>0, <1>1, <1>6, <2>1, PushAtType DEF RtPush, RtPushSelf, RtPushAsync
<1>7. ASSUME AsyncExecute PROVE FALSE
  BY <1>0, <1>1, <1>7, PopFrontType DEF AsyncExecute
<1>8. ASSUME AsyncClearBack \/ AsyncClearLocal PROVE FALSE
  BY <1>0, <1>1, <1>8, ClearFrontType, FlipLocalType DEF AsyncClearBack, AsyncClearLocal
<1>9. ASSUME AsyncTest \/ AsyncLock \/ AsyncEndLoop \/ AsyncCheck \/ AsyncRelock
             \/ AsyncSpuriousWake
      PROVE  FALSE
  BY <1>1, <1>9 DEF AsyncTest, AsyncLock, AsyncEndLoop, AsyncCheck, AsyncRelock,
     AsyncSpuriousWake
<1>10. ASSUME Start \/ Stop \/ UserStep \/ UNCHANGED vars PROVE FALSE
  BY <1>1, <1>10 DEF Start, Stop, UserStep, StartDevice, StopDevice, StartReturn,
     StopAsync, Join, UserUnchanged, vars
<1> QED
  BY <1>2, <1>3, <1>4, <1>5, <1>6, <1>7, <1>8, <1>9, <1>10
  DEF Next, LockStep, PushStep, BlockStep, AsyncStep, AsyncLocked

(* The RT thread never exchanges the async buffers under the feet of the   *)
(* async thread, nor before the previous ones are executed.                *)
THEOREM HandoffPostponed ==
  ASSUME ~UserAsync
  PROVE  Spec => HandoffWaitsForAsync
<1>1. TypeOK /\ AsyncInv /\ [Next]_vars =>
        [asyncBuffers.back' # asyncBuffers.back =>
           /\ Front(asyncBuffers) = <<>>
           /\ asyncPc \notin {"runBack", "inBack", "clearBack",
                             "runLocal", "inLocal", "clearLocal"}]_vars
  BY HandoffStep
<1> QED  BY <1>1, TypeCorrect, AsyncInvAlways, PTL DEF Spec, HandoffWaitsForAsync
=============================================================================
