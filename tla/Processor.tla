----------------------------- MODULE Processor -----------------------------
(***************************************************************************)
(* The threads of new_graph/processor.{hpp,cpp,tpp}: the user thread, the  *)
(* real time threads that request audio blocks, and the async thread, with *)
(* the two triple buffers of events they exchange and the five mutexes and *)
(* the condition variable that protect them.                               *)
(*                                                                         *)
(* One action is one stretch of code between two points at which another   *)
(* thread can observe or disturb it.  Sections that hold a mutex all of    *)
(* whose data is private to the mutex holder are one action (the hand-off  *)
(* at the end of a block, the flag change in stop()).                      *)
(***************************************************************************)
EXTENDS TripleBuffer

CONSTANTS
  RtThread,   \* threads that call rt_request_process()
  Device,     \* those of them that a process_node starts and stops
  UserAsync   \* whether the user thread calls push_async_event()

ASSUME ThreadAssumption ==
  /\ Device \subseteq RtThread
  /\ RtThread \cap {"none", "user", "async"} = {}
  /\ UserAsync \in BOOLEAN

VARIABLES
  isRunning,         \* _is_running
  playing,           \* the devices whose callback thread exists
  userPc,            \* where the user thread is
  pushing,           \* the push that the user or the async thread is doing
  rtBuffers,         \* _rt_buffers
  rtBackLock,        \* holder of _rt_buffers.back_policy()'s mutex
  rtMutex,           \* holder of _rt_mutex
  rtPc,              \* where every RT thread is
  asyncBuffers,      \* _async_buffers
  asyncLocalLock,    \* holder of _async_buffers.local_policy().guard()
  asyncMutex,        \* holder of _async_mutex across actions
  asyncRequestFlip,  \* _async_request_flip
  asyncPc,           \* where the async thread is
  fate               \* history: what became of every event

userVars  == <<isRunning, playing, userPc>>
rtVars    == <<rtMutex, rtPc>>
asyncVars == <<asyncMutex, asyncRequestFlip, asyncPc>>
lockVars  == <<rtBackLock, asyncLocalLock>>
vars == <<userVars, rtVars, asyncVars, lockVars, pushing,
          rtBuffers, asyncBuffers, fate>>

Pusher == {"user", "async"}
Owner  == {"none", "user", "async"}
Fate   == {"new", "pushing", "queued", "ran", "lost"}

NoPush == [queue |-> "none"]
Pushes ==
  [queue : {"rt", "async"}, slot : Slot, event : Event] \cup {NoPush}

UserPcs  == {"idle", "starting", "stopping", "joining"}
RtPcs    == {"idle", "blocked", "flipBack", "runBack", "inBack",
             "sinks", "runLocal", "inLocal", "handoff"}
AsyncPcs == {"off", "loop", "lock", "runBack", "inBack", "clearBack",
             "runLocal", "inLocal", "clearLocal", "check",
             "waiting", "woken", "done"}

TypeOK ==
  /\ isRunning \in BOOLEAN
  /\ playing \subseteq Device
  /\ userPc \in UserPcs
  /\ pushing \in [Pusher -> Pushes]
  /\ rtBuffers \in TripleBuffers /\ Bounded(rtBuffers)
  /\ rtBackLock \in Owner
  /\ rtMutex \in RtThread \cup {"none"}
  /\ rtPc \in [RtThread -> RtPcs]
  /\ asyncBuffers \in TripleBuffers /\ Bounded(asyncBuffers)
  /\ asyncLocalLock \in Owner
  /\ asyncMutex \in {"none", "async"}
  /\ asyncRequestFlip \in BOOLEAN
  /\ asyncPc \in AsyncPcs
  /\ fate \in [Event -> Fate]

Init ==
  /\ isRunning = FALSE
  /\ playing = {}
  /\ userPc = "idle"
  /\ pushing = [p \in Pusher |-> NoPush]
  /\ rtBuffers = InitBuffers
  /\ rtBackLock = "none"
  /\ rtMutex = "none"
  /\ rtPc = [t \in RtThread |-> "idle"]
  /\ asyncBuffers = InitBuffers
  /\ asyncLocalLock = "none"
  /\ asyncMutex = "none"
  /\ asyncRequestFlip = FALSE
  /\ asyncPc = "off"
  /\ fate = [e \in Event |-> "new"]

(* The fate of the events once e is pushed into slot s of buffers b. *)
FateOfPush(b, s, e) ==
  [x \in Event |-> CASE x = e -> "queued"
                     [] x # e /\ x \in Overwritten(b, s) -> "lost"
                     [] OTHER -> fate[x]]

-----------------------------------------------------------------------------
(***************************************************************************)
(* push_rt_event and push_async_event of the user and the async contexts.  *)
(* The async thread pushes while it executes an event, the user thread     *)
(* whenever it is not inside start() or stop().                            *)
(***************************************************************************)
CanPush(p) ==
  /\ pushing[p] = NoPush
  /\ IF p = "user" THEN userPc = "idle" ELSE asyncPc \in {"inBack", "inLocal"}

(* back_policy().guard(), and back() evaluated under it. *)
LockRtBack(p, e) ==
  /\ CanPush(p)
  /\ fate[e] = "new"
  /\ rtBackLock = "none"
  /\ rtBackLock' = p
  /\ pushing' = [pushing EXCEPT
                   ![p] = [queue |-> "rt", slot |-> rtBuffers.back, event |-> e]]
  /\ fate' = [fate EXCEPT ![e] = "pushing"]
  /\ UNCHANGED <<userVars, rtVars, asyncVars, rtBuffers, asyncBuffers, asyncLocalLock>>

(* Mutant: the guard is not released. *)
PushRtKeepsLock(p) ==
  LET push == pushing[p] IN
  /\ push.queue = "rt"
  /\ rtBuffers' = PushAt(rtBuffers, push.slot, push.event)
  /\ fate' = FateOfPush(rtBuffers, push.slot, push.event)
  /\ pushing' = [pushing EXCEPT ![p] = NoPush]
  /\ UNCHANGED <<userVars, rtVars, asyncVars, lockVars, asyncBuffers>>

(* push_back into the deque that was looked up, and the guard's end. *)
PushRt(p) ==
  LET push == pushing[p] IN
  /\ push.queue = "rt"
  /\ rtBuffers' = PushAt(rtBuffers, push.slot, push.event)
  /\ fate' = FateOfPush(rtBuffers, push.slot, push.event)
  /\ pushing' = [pushing EXCEPT ![p] = NoPush]
  /\ rtBackLock' = "none"
  /\ UNCHANGED <<userVars, rtVars, asyncVars, asyncBuffers, asyncLocalLock>>

(***************************************************************************)
(* local_policy().guard(), and local() evaluated under it.  lock_guard     *)
(* inherits guard() from try_lock_guard and with it the base class's       *)
(* mutex; its own default_guard(), which flip_local() uses, locks another  *)
(* mutex of the same name.  The lock taken here excludes other pushers     *)
(* only.                                                                   *)
(***************************************************************************)
LockAsyncLocal(p, e) ==
  /\ CanPush(p)
  /\ p = "user" => UserAsync
  /\ fate[e] = "new"
  /\ asyncLocalLock = "none"
  /\ asyncLocalLock' = p
  /\ pushing' = [pushing EXCEPT
                   ![p] = [queue |-> "async", slot |-> asyncBuffers.local, event |-> e]]
  /\ fate' = [fate EXCEPT ![e] = "pushing"]
  /\ UNCHANGED <<userVars, rtVars, asyncVars, rtBuffers, asyncBuffers, rtBackLock>>

(* push_back; the notify_all() after the return statement never happens. *)
PushAsync(p) ==
  LET push == pushing[p] IN
  /\ push.queue = "async"
  /\ asyncBuffers' = PushAt(asyncBuffers, push.slot, push.event)
  /\ fate' = FateOfPush(asyncBuffers, push.slot, push.event)
  /\ pushing' = [pushing EXCEPT ![p] = NoPush]
  /\ asyncLocalLock' = "none"
  /\ UNCHANGED <<userVars, rtVars, asyncVars, rtBuffers, rtBackLock>>

-----------------------------------------------------------------------------
(***************************************************************************)
(* rt_request_process() and _rt_process_once().                            *)
(***************************************************************************)
RtGoto(t, pc) == rtPc' = [rtPc EXCEPT ![t] = pc]

(* Mutant: _rt_mutex is taken without looking. *)
RtRequestUnlocked(t) ==
  /\ rtPc[t] = "idle"
  /\ t \in Device => t \in playing
  /\ rtMutex' = t /\ RtGoto(t, "flipBack")
  /\ UNCHANGED <<userVars, asyncVars, lockVars, pushing, rtBuffers, asyncBuffers, fate>>

(* try_to_lock on _rt_mutex.  A device's thread calls while it is playing. *)
RtRequest(t) ==
  /\ rtPc[t] = "idle"
  /\ t \in Device => t \in playing
  /\ IF rtMutex = "none"
       THEN rtMutex' = t /\ RtGoto(t, "flipBack")
       ELSE UNCHANGED rtMutex /\ RtGoto(t, "blocked")
  /\ UNCHANGED <<userVars, asyncVars, lockVars, pushing, rtBuffers, asyncBuffers, fate>>

(* lock() returns, and the function with it: another thread did the block. *)
RtUnblock(t) ==
  /\ rtPc[t] = "blocked"
  /\ rtMutex = "none"
  /\ RtGoto(t, "idle")
  /\ UNCHANGED <<userVars, rtMutex, asyncVars, lockVars, pushing, rtBuffers, asyncBuffers, fate>>

(* Mutant: the flip does not look at the lock. *)
RtFlipBackUnlocked(t) ==
  /\ rtPc[t] = "flipBack"
  /\ rtBuffers' = FlipBack(rtBuffers)
  /\ RtGoto(t, "runBack")
  /\ UNCHANGED <<userVars, rtMutex, asyncVars, lockVars, pushing, asyncBuffers, fate>>

(* Mutant: the flip waits for the lock. *)
RtFlipBackBlocking(t) ==
  /\ rtBackLock = "none"
  /\ RtFlipBackUnlocked(t)

(* _rt_buffers.flip_back(): skipped when a pusher holds the lock. *)
RtFlipBack(t) ==
  /\ rtPc[t] = "flipBack"
  /\ rtBuffers' = IF rtBackLock = "none" THEN FlipBack(rtBuffers) ELSE rtBuffers
  /\ RtGoto(t, "runBack")
  /\ UNCHANGED <<userVars, rtMutex, asyncVars, lockVars, pushing, asyncBuffers, fate>>

(* The next turn of either loop over the front: ev (_ctx). *)
RtExecute(t) ==
  /\ rtPc[t] \in {"runBack", "inBack", "runLocal", "inLocal"}
  /\ Front(rtBuffers) # <<>>
  /\ fate' = [fate EXCEPT ![Head(Front(rtBuffers))] = "ran"]
  /\ rtBuffers' = PopFront(rtBuffers)
  /\ RtGoto(t, IF rtPc[t] \in {"runBack", "inBack"} THEN "inBack" ELSE "inLocal")
  /\ UNCHANGED <<userVars, rtMutex, asyncVars, lockVars, pushing, asyncBuffers>>

(* push_rt_event of the RT context, from an event or from a node. *)
RtPushSelf(t, e) ==
  /\ rtPc[t] \in {"inBack", "sinks", "inLocal"}
  /\ fate[e] = "new"
  /\ rtBuffers' = PushAt(rtBuffers, rtBuffers.local, e)
  /\ fate' = FateOfPush(rtBuffers, rtBuffers.local, e)
  /\ UNCHANGED <<userVars, rtVars, asyncVars, lockVars, pushing, asyncBuffers>>

(* push_async_event of the RT context, from an event or from a node. *)
RtPushAsync(t, e) ==
  /\ rtPc[t] \in {"inBack", "sinks", "inLocal"}
  /\ fate[e] = "new"
  /\ asyncBuffers' = PushAt(asyncBuffers, asyncBuffers.back, e)
  /\ fate' = FateOfPush(asyncBuffers, asyncBuffers.back, e)
  /\ UNCHANGED <<userVars, rtVars, asyncVars, lockVars, pushing, rtBuffers>>

(* The loop ends, the front is cleared, and the sinks are processed. *)
RtProcessSinks(t) ==
  /\ rtPc[t] \in {"runBack", "inBack"}
  /\ Front(rtBuffers) = <<>>
  /\ rtBuffers' = ClearFront(rtBuffers)
  /\ RtGoto(t, "sinks")
  /\ UNCHANGED <<userVars, rtMutex, asyncVars, lockVars, pushing, asyncBuffers, fate>>

(* rt_advance(), then flip_local(), which needs no lock. *)
RtFlipLocal(t) ==
  /\ rtPc[t] = "sinks"
  /\ rtBuffers' = FlipLocal(rtBuffers)
  /\ RtGoto(t, "runLocal")
  /\ UNCHANGED <<userVars, rtMutex, asyncVars, lockVars, pushing, asyncBuffers, fate>>

RtEndLocal(t) ==
  /\ rtPc[t] \in {"runLocal", "inLocal"}
  /\ Front(rtBuffers) = <<>>
  /\ rtBuffers' = ClearFront(rtBuffers)
  /\ RtGoto(t, "handoff")
  /\ UNCHANGED <<userVars, rtMutex, asyncVars, lockVars, pushing, asyncBuffers, fate>>

Notified(pc) == IF pc = "waiting" THEN "woken" ELSE pc

(* Mutants: the hand-off when can holds, the async thread going to pc. *)
RtHandoffIf(t, can, pc) ==
  /\ rtPc[t] = "handoff"
  /\ IF can /\ Back(asyncBuffers) # <<>>
       THEN /\ asyncRequestFlip' = FALSE
            /\ asyncBuffers' = FlipBack(asyncBuffers)
            /\ asyncPc' = pc
       ELSE UNCHANGED <<asyncRequestFlip, asyncBuffers, asyncPc>>
  /\ rtMutex' = "none"
  /\ RtGoto(t, "idle")
  /\ UNCHANGED <<userVars, asyncMutex, lockVars, pushing, rtBuffers, fate>>

(* Without _async_mutex, without _async_request_flip, without notify_all(). *)
RtHandoffUnlocked(t)    == RtHandoffIf(t, asyncRequestFlip, Notified(asyncPc))
RtHandoffUnrequested(t) == RtHandoffIf(t, asyncMutex = "none", Notified(asyncPc))
RtHandoffSilent(t)      ==
  RtHandoffIf(t, asyncMutex = "none" /\ asyncRequestFlip, asyncPc)

(* The try_to_lock on _async_mutex, the hand-off, and the unlocking. *)
RtHandoff(t) ==
  /\ rtPc[t] = "handoff"
  /\ IF asyncMutex = "none" /\ asyncRequestFlip /\ Back(asyncBuffers) # <<>>
       THEN /\ asyncRequestFlip' = FALSE
            /\ asyncBuffers' = FlipBack(asyncBuffers)
            /\ asyncPc' = Notified(asyncPc)
       ELSE UNCHANGED <<asyncRequestFlip, asyncBuffers, asyncPc>>
  /\ rtMutex' = "none"
  /\ RtGoto(t, "idle")
  /\ UNCHANGED <<userVars, asyncMutex, lockVars, pushing, rtBuffers, fate>>

-----------------------------------------------------------------------------
(***************************************************************************)
(* _async_loop().                                                          *)
(***************************************************************************)
AsyncAt(pcs)     == asyncPc \in pcs /\ pushing["async"] = NoPush
AsyncGoto(pc)    == asyncPc' = pc
AsyncUnchanged   == UNCHANGED <<userVars, rtVars, lockVars, pushing, rtBuffers>>

(* Mutant: the outer loop forgets the local buffer. *)
AsyncTestRunning ==
  /\ AsyncAt({"loop"})
  /\ AsyncGoto(IF isRunning THEN "lock" ELSE "done")
  /\ AsyncUnchanged
  /\ UNCHANGED <<asyncMutex, asyncRequestFlip, asyncBuffers, fate>>

(* The condition of the outer loop, evaluated with no lock. *)
AsyncTest ==
  /\ AsyncAt({"loop"})
  /\ AsyncGoto(IF isRunning \/ Local(asyncBuffers) # <<>> THEN "lock" ELSE "done")
  /\ AsyncUnchanged
  /\ UNCHANGED <<asyncMutex, asyncRequestFlip, asyncBuffers, fate>>

AsyncLock ==
  /\ AsyncAt({"lock"})
  /\ asyncMutex = "none"
  /\ asyncMutex' = "async"
  /\ AsyncGoto("runBack")
  /\ AsyncUnchanged
  /\ UNCHANGED <<asyncRequestFlip, asyncBuffers, fate>>

(* The next turn of either loop over the front: ev (_ctx). *)
AsyncExecute ==
  /\ AsyncAt({"runBack", "inBack", "runLocal", "inLocal"})
  /\ Front(asyncBuffers) # <<>>
  /\ fate' = [fate EXCEPT ![Head(Front(asyncBuffers))] = "ran"]
  /\ asyncBuffers' = PopFront(asyncBuffers)
  /\ AsyncGoto(IF asyncPc \in {"runBack", "inBack"} THEN "inBack" ELSE "inLocal")
  /\ AsyncUnchanged
  /\ UNCHANGED <<asyncMutex, asyncRequestFlip>>

(* Either loop finds the end of the front deque. *)
AsyncEndLoop ==
  /\ AsyncAt({"runBack", "inBack", "runLocal", "inLocal"})
  /\ Front(asyncBuffers) = <<>>
  /\ AsyncGoto(IF asyncPc \in {"runBack", "inBack"} THEN "clearBack" ELSE "clearLocal")
  /\ AsyncUnchanged
  /\ UNCHANGED <<asyncMutex, asyncRequestFlip, asyncBuffers, fate>>

(* Whatever front().clear() destroys had better have been executed. *)
FateOfClear ==
  [x \in Event |->
     IF \E i \in 1..Len(Front(asyncBuffers)) : x = Front(asyncBuffers)[i]
       THEN "lost" ELSE fate[x]]

(* Mutant: flip_local() is forgotten. *)
AsyncClearBackOnly ==
  /\ AsyncAt({"clearBack"})
  /\ fate' = FateOfClear
  /\ asyncRequestFlip' = TRUE
  /\ asyncBuffers' = ClearFront(asyncBuffers)
  /\ AsyncGoto("runLocal")
  /\ AsyncUnchanged
  /\ UNCHANGED asyncMutex

(* front().clear(), the request for a flip, and flip_local(). *)
AsyncClearBack ==
  /\ AsyncAt({"clearBack"})
  /\ fate' = FateOfClear
  /\ asyncRequestFlip' = TRUE
  /\ asyncBuffers' = FlipLocal(ClearFront(asyncBuffers))
  /\ AsyncGoto("runLocal")
  /\ AsyncUnchanged
  /\ UNCHANGED asyncMutex

AsyncClearLocal ==
  /\ AsyncAt({"clearLocal"})
  /\ fate' = FateOfClear
  /\ asyncBuffers' = ClearFront(asyncBuffers)
  /\ AsyncGoto("check")
  /\ AsyncUnchanged
  /\ UNCHANGED <<asyncMutex, asyncRequestFlip>>

(* The condition of the inner loop: wait, or leave the scope of the lock. *)
AsyncCheck ==
  /\ AsyncAt({"check"})
  /\ AsyncGoto(IF asyncRequestFlip /\ Local(asyncBuffers) = <<>> /\ isRunning
                 THEN "waiting" ELSE "loop")
  /\ asyncMutex' = "none"
  /\ AsyncUnchanged
  /\ UNCHANGED <<asyncRequestFlip, asyncBuffers, fate>>

(* std::condition_variable::wait may return without a notification. *)
AsyncSpuriousWake ==
  /\ AsyncAt({"waiting"})
  /\ AsyncGoto("woken")
  /\ AsyncUnchanged
  /\ UNCHANGED <<asyncMutex, asyncRequestFlip, asyncBuffers, fate>>

AsyncRelock ==
  /\ AsyncAt({"woken"})
  /\ asyncMutex = "none"
  /\ asyncMutex' = "async"
  /\ AsyncGoto("check")
  /\ AsyncUnchanged
  /\ UNCHANGED <<asyncRequestFlip, asyncBuffers, fate>>

-----------------------------------------------------------------------------
(***************************************************************************)
(* start() and stop(), in the user thread.                                 *)
(***************************************************************************)
UserUnchanged ==
  UNCHANGED <<rtVars, lockVars, asyncMutex, asyncRequestFlip, pushing,
              rtBuffers, asyncBuffers, fate>>

UserIdle == userPc = "idle" /\ pushing["user"] = NoPush

Start ==
  /\ UserIdle
  /\ ~isRunning
  /\ isRunning' = TRUE
  /\ asyncPc' = "loop"
  /\ userPc' = "starting"
  /\ UserUnchanged /\ UNCHANGED playing

(* n->start () for every process node. *)
StartDevice(d) ==
  /\ userPc = "starting"
  /\ d \notin playing
  /\ playing' = playing \cup {d}
  /\ UserUnchanged /\ UNCHANGED <<isRunning, userPc, asyncPc>>

StartReturn ==
  /\ userPc = "starting"
  /\ playing = Device
  /\ userPc' = "idle"
  /\ UserUnchanged /\ UNCHANGED <<isRunning, playing, asyncPc>>

Stop ==
  /\ UserIdle
  /\ isRunning
  /\ userPc' = "stopping"
  /\ UserUnchanged /\ UNCHANGED <<isRunning, playing, asyncPc>>

(* n->stop () for every process node: joins the device's thread. *)
StopDevice(d) ==
  /\ userPc = "stopping"
  /\ d \in playing
  /\ rtPc[d] = "idle"
  /\ playing' = playing \ {d}
  /\ UserUnchanged /\ UNCHANGED <<isRunning, userPc, asyncPc>>

(* Mutant: the waiting thread is not notified. *)
StopAsyncSilent ==
  /\ userPc = "stopping"
  /\ playing = {}
  /\ asyncMutex = "none"
  /\ isRunning' = FALSE
  /\ userPc' = "joining"
  /\ UserUnchanged /\ UNCHANGED <<playing, asyncPc>>

(* The section under _async_mutex. *)
StopAsync ==
  /\ userPc = "stopping"
  /\ playing = {}
  /\ asyncMutex = "none"
  /\ isRunning' = FALSE
  /\ asyncPc' = Notified(asyncPc)
  /\ userPc' = "joining"
  /\ UserUnchanged /\ UNCHANGED playing

Join ==
  /\ userPc = "joining"
  /\ asyncPc = "done"
  /\ asyncPc' = "off"
  /\ userPc' = "idle"
  /\ UserUnchanged /\ UNCHANGED <<isRunning, playing>>

-----------------------------------------------------------------------------
PushStep(p) == PushRt(p) \/ PushAsync(p)

LockStep(p) == \E e \in Event : LockRtBack(p, e) \/ LockAsyncLocal(p, e)

(* The steps of a block that thread t has begun. *)
BlockStep(t) ==
  \/ RtFlipBack(t) \/ RtExecute(t) \/ RtProcessSinks(t)
  \/ RtFlipLocal(t) \/ RtEndLocal(t) \/ RtHandoff(t)

RtPush(t) == \E e \in Event : RtPushSelf(t, e) \/ RtPushAsync(t, e)

AsyncStep ==
  \/ AsyncTest \/ AsyncLock \/ AsyncExecute \/ AsyncEndLoop
  \/ AsyncClearBack \/ AsyncClearLocal \/ AsyncCheck \/ AsyncRelock

(* The steps of a start() or stop() that was called. *)
UserStep ==
  \/ \E d \in Device : StartDevice(d) \/ StopDevice(d)
  \/ StartReturn \/ StopAsync \/ Join

Next ==
  \/ \E p \in Pusher : LockStep(p) \/ PushStep(p)
  \/ \E t \in RtThread : RtRequest(t) \/ RtUnblock(t) \/ BlockStep(t) \/ RtPush(t)
  \/ AsyncStep \/ AsyncSpuriousWake
  \/ Start \/ Stop \/ UserStep

Spec == Init /\ [][Next]_vars

-----------------------------------------------------------------------------
(***************************************************************************)
(* Fairness.  A thread that can go on goes on; nothing forces the user to  *)
(* call anything.  A block that was begun is driven by its RT thread       *)
(* alone.  A device's callback asks for finitely many blocks and its       *)
(* thread looks at the device's state after each callback, so the join in  *)
(* its stop() is not put off forever by the blocks in between: strong      *)
(* fairness of StopDevice.  A condition variable may wake a thread without *)
(* a notification, but does not do so endlessly.                           *)
(***************************************************************************)
RtFairness == \A t \in RtThread : WF_vars(BlockStep(t)) /\ WF_vars(RtUnblock(t))

OtherFairness ==
  /\ WF_vars(AsyncStep)
  /\ \A p \in Pusher : WF_vars(PushStep(p))
  /\ WF_vars(UserStep)
  /\ \A d \in Device : SF_vars(StopDevice(d))
  /\ <>[][~AsyncSpuriousWake]_vars

RtFairSpec == Spec /\ RtFairness
FairSpec   == Spec /\ RtFairness /\ OtherFairness

(* Devices that play keep asking for audio. *)
PlayingSpec == FairSpec /\ \A d \in Device : WF_vars(RtRequest(d))

-----------------------------------------------------------------------------
(***************************************************************************)
(* Safety.                                                                 *)
(***************************************************************************)
RtIsIn(pcs) == \E t \in RtThread : rtPc[t] \in pcs

(* A push from another thread writes only into the deque that is the back  *)
(* buffer of the RT triple buffer at that very moment, never into one that *)
(* the RT thread executes from or pushes into, although the pointer was    *)
(* looked up earlier: the try-lock of flip_back() keeps it in place.       *)
PushesGoToTheBack ==
  /\ Distinct(rtBuffers)
  /\ \A p \in Pusher : pushing[p].queue = "rt" =>
       rtBackLock = p /\ pushing[p].slot = rtBuffers.back

(* Audio blocks are serialised, whatever the number of devices: only one   *)
(* thread at a time is between the two ends of _rt_process_once().         *)
OneBlockAtATime ==
  \A t \in RtThread : rtPc[t] \notin {"idle", "blocked"} => rtMutex = t

(* The RT thread exchanges the buffers of the async queue only when the    *)
(* async thread is not executing the front one and has nothing left in it; *)
(* otherwise the flip is postponed.                                        *)
HandoffWaitsForAsync ==
  [][asyncBuffers.back' # asyncBuffers.back =>
       /\ Front(asyncBuffers) = <<>>
       /\ asyncPc \notin {"runBack", "inBack", "clearBack",
                          "runLocal", "inLocal", "clearLocal"}]_vars

(* When the async thread has left its loop, and stop() is about to return, *)
(* no event that was sent to it through the local buffer is left behind.   *)
StopDrainsAsyncEvents ==
  asyncPc = "done" =>
    /\ Local(asyncBuffers) = <<>>
    /\ pushing["async"] = NoPush

(* No accepted event is discarded unexecuted.                              *)
NoEventLost == \A e \in Event : fate[e] # "lost"

-----------------------------------------------------------------------------
(***************************************************************************)
(* The lanes of EventLanes.                                                *)
(*   rtIn:      user or async thread -> RT thread                          *)
(*   rtSelf:    RT thread            -> RT thread, at the end of the block *)
(*   asyncIn:   RT thread            -> async thread                       *)
(*   asyncSelf: user or async thread -> async thread                       *)
(* A front buffer belongs to the lane whose loop is running over it; the   *)
(* front of the async queue belongs to the RT to async lane also while it  *)
(* waits for the async thread.                                             *)
(***************************************************************************)
Lane == {"rtIn", "rtSelf", "asyncIn", "asyncSelf"}

FrontIf(cond, b) == IF cond THEN Front(b) ELSE <<>>
RtLocalLoop    == RtIsIn({"runLocal", "inLocal"})
AsyncLocalLoop == asyncPc \in {"runLocal", "inLocal", "clearLocal"}

LanePending(l) ==
  CASE l = "rtIn"      -> FrontIf(~RtLocalLoop, rtBuffers) \o Back(rtBuffers)
    [] l = "rtSelf"    -> FrontIf(RtLocalLoop, rtBuffers) \o Local(rtBuffers)
    [] l = "asyncIn"   -> FrontIf(~AsyncLocalLoop, asyncBuffers) \o Back(asyncBuffers)
    [] l = "asyncSelf" -> FrontIf(AsyncLocalLoop, asyncBuffers) \o Local(asyncBuffers)

Ran == {e \in Event : fate[e] = "ran"}

Lanes == INSTANCE EventLanes
           WITH pending <- [l \in Lane |-> LanePending(l)], done <- Ran

(* Every event that reaches a buffer is executed exactly once, in the      *)
(* order of the pushes of its lane, unless its deque overflows.            *)
LanesSpec == Lanes!Spec

-----------------------------------------------------------------------------
(***************************************************************************)
(* Liveness.                                                               *)
(***************************************************************************)
(* A block that an RT thread has begun ends even if the user thread and    *)
(* the async thread stop forever wherever they are, holding any lock: the  *)
(* RT threads do not wait on the others.                                   *)
BlocksEnd == \A t \in RtThread : rtMutex = t ~> rtMutex = "none"

(* stop() returns: neither the devices, nor the wait of the async thread,  *)
(* nor events that make new events keep it from joining.                   *)
StopReturns == userPc = "stopping" ~> userPc = "idle"

InLane(l, e) == \E i \in 1..Len(LanePending(l)) : LanePending(l)[i] = e

(* While the processor runs and a device asks for blocks, an event for the *)
(* RT thread is not left in the back buffer forever, although every flip   *)
(* may be skipped for lack of the lock.                                    *)
RtEventsRun ==
  \A e \in Event : InLane("rtIn", e) ~> (~InLane("rtIn", e) \/ playing = {})

(* An event that the RT thread sent to the async thread is executed while  *)
(* the processor runs: the hand-off and the wait never miss one another.   *)
AsyncInEventsRun ==
  \A e \in Event : InLane("asyncIn", e) ~> (~InLane("asyncIn", e) \/ playing = {})

(* An event that waits in the async local buffer is executed while the     *)
(* processor runs.                                                         *)
AsyncSelfEventsRun ==
  \A e \in Event : InLane("asyncSelf", e) ~> (~InLane("asyncSelf", e) \/ ~isRunning)
=============================================================================
