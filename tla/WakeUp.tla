------------------------------- MODULE WakeUp -------------------------------
(***************************************************************************)
(* How QEventDispatcherUNIX goes to sleep and is woken up: the loop of     *)
(* QEventLoop::exec around processEvents, with select() on the eventfd     *)
(* thread_pipe[0], against other threads that post events and call         *)
(* QEventLoop::exit.  Each access to a shared variable is a step; the      *)
(* queue is no more than the number of events in it, and canWait, which    *)
(* postEventList.mutex protects, changes with it.                          *)
(*                                                                         *)
(* loopPc of the loop thread: exec (testing exit), clear, send (entering   *)
(* sendPostedEvents), deliver (in it, with the mutex), handler (in it, in  *)
(* user code), look (canWaitLocked), test and again (the two loads of      *)
(* interrupt), select, read, reset, returned.                              *)
(* waker of another thread: idle, interrupt, wake, write.                  *)
(***************************************************************************)
EXTENDS Integers

CONSTANTS Wakers,       \* the other threads
          MaxPosts      \* bound on the number of posted events

ASSUME MaxPostsAssumption == MaxPosts \in Nat

VARIABLES
    loopPc, waker,
    queued,     \* events in the list
    batch,      \* of these, the ones before insertionOffset
    posts,      \* events posted so far
    canWait,    \* QThreadData::canWait
    mayBlock,   \* the local canWait of processEvents
    interrupt,  \* QEventDispatcherUNIXPrivate::interrupt
    exit,       \* QEventLoopPrivate::exit
    wakeUps,    \* QEventDispatcherUNIXPrivate::wakeUps
    fd          \* the counter of the eventfd

queueVars == <<queued, batch, posts, canWait>>
wakeUpVars == <<loopPc, waker, queueVars, mayBlock, interrupt, exit, wakeUps, fd>>

LoopPCs == {"exec", "clear", "send", "deliver", "handler", "look", "test",
            "again", "select", "read", "reset", "returned"}
WakerAts == {"idle", "interrupt", "wake", "write"}

\* The list's mutex is free for a postEvent.
MutexFree == loopPc # "deliver"

-----------------------------------------------------------------------------
\* The other threads.

\* postEvent up to the call of wakeUp().
Post(t) ==
    /\ waker[t] = "idle" /\ MutexFree /\ posts < MaxPosts
    /\ posts' = posts + 1 /\ queued' = queued + 1 /\ canWait' = FALSE
    /\ waker' = [waker EXCEPT ![t] = "wake"]
    /\ UNCHANGED <<loopPc, batch, mayBlock, interrupt, exit, wakeUps, fd>>

\* QEventLoop::exit stores exit, then QEventDispatcherUNIX::interrupt.
StoreExit(t) ==
    /\ waker[t] = "idle"
    /\ exit' = TRUE
    /\ waker' = [waker EXCEPT ![t] = "interrupt"]
    /\ UNCHANGED <<loopPc, queueVars, mayBlock, interrupt, wakeUps, fd>>

\* Mutant: interrupt() does not call wakeUp().
StoreInterrupt_NoWakeUp(t) ==
    /\ waker[t] = "interrupt"
    /\ interrupt' = TRUE
    /\ waker' = [waker EXCEPT ![t] = "idle"]
    /\ UNCHANGED <<loopPc, queueVars, mayBlock, exit, wakeUps, fd>>

StoreInterrupt(t) ==
    /\ waker[t] = "interrupt"
    /\ interrupt' = TRUE
    /\ waker' = [waker EXCEPT ![t] = "wake"]
    /\ UNCHANGED <<loopPc, queueVars, mayBlock, exit, wakeUps, fd>>

\* Mutant: the eventfd is written whatever wakeUps was.
TestAndSet_Ignored(t) ==
    /\ waker[t] = "wake"
    /\ wakeUps' = 1
    /\ waker' = [waker EXCEPT ![t] = "write"]
    /\ UNCHANGED <<loopPc, queueVars, mayBlock, interrupt, exit, fd>>

\* wakeUp: wakeUps.testAndSetAcquire(0, 1) ...
TestAndSet(t) ==
    /\ waker[t] = "wake"
    /\ wakeUps' = 1
    /\ waker' = [waker EXCEPT ![t] = IF wakeUps = 0 THEN "write" ELSE "idle"]
    /\ UNCHANGED <<loopPc, queueVars, mayBlock, interrupt, exit, fd>>

\* ... and eventfd_write if that succeeded.
Write(t) ==
    /\ waker[t] = "write"
    /\ fd' = fd + 1
    /\ waker' = [waker EXCEPT ![t] = "idle"]
    /\ UNCHANGED <<loopPc, queueVars, mayBlock, interrupt, exit, wakeUps>>

-----------------------------------------------------------------------------
\* The loop thread.

LoopGoTo(from, to) == loopPc = from /\ loopPc' = to

\* wakeUp() called by the loop thread itself: nobody sees its two steps apart.
OwnWakeUp == wakeUps' = 1 /\ fd' = IF wakeUps = 0 THEN fd + 1 ELSE fd

TestExit ==
    /\ loopPc = "exec"
    /\ loopPc' = IF exit THEN "returned" ELSE "clear"
    /\ UNCHANGED <<waker, queueVars, mayBlock, interrupt, exit, wakeUps, fd>>

ClearInterrupt ==
    /\ LoopGoTo("clear", "send")
    /\ interrupt' = FALSE
    /\ UNCHANGED <<waker, queueVars, mayBlock, exit, wakeUps, fd>>

EnterSend ==
    /\ LoopGoTo("send", IF queued = 0 THEN "look" ELSE "deliver")
    /\ canWait' = TRUE /\ batch' = queued
    /\ UNCHANGED <<waker, queued, posts, mayBlock, interrupt, exit, wakeUps, fd>>

Deliver ==
    /\ batch > 0 /\ LoopGoTo("deliver", "handler")
    /\ batch' = batch - 1 /\ queued' = queued - 1
    /\ UNCHANGED <<waker, posts, canWait, mayBlock, interrupt, exit, wakeUps, fd>>

HandlerPosts ==
    /\ loopPc = "handler" /\ posts < MaxPosts
    /\ posts' = posts + 1 /\ queued' = queued + 1 /\ canWait' = FALSE
    /\ OwnWakeUp
    /\ UNCHANGED <<loopPc, waker, batch, mayBlock, interrupt, exit>>

HandlerReturns ==
    /\ LoopGoTo("handler", "deliver")
    /\ UNCHANGED <<waker, queueVars, mayBlock, interrupt, exit, wakeUps, fd>>

\* ~CleanUp wakes the dispatcher up when events were posted meanwhile.
EndSend ==
    /\ batch = 0 /\ LoopGoTo("deliver", "look")
    /\ IF canWait THEN UNCHANGED <<wakeUps, fd>> ELSE OwnWakeUp
    /\ UNCHANGED <<waker, queueVars, mayBlock, interrupt, exit>>

CanWaitLocked ==
    /\ LoopGoTo("look", "test")
    /\ mayBlock' = canWait
    /\ UNCHANGED <<waker, queueVars, interrupt, exit, wakeUps, fd>>

TestInterrupt ==
    /\ LoopGoTo("test", "again")
    /\ mayBlock' = (mayBlock /\ ~interrupt)
    /\ UNCHANGED <<waker, queueVars, interrupt, exit, wakeUps, fd>>

TestInterruptAgain ==
    /\ LoopGoTo("again", IF interrupt THEN "exec" ELSE "select")
    /\ UNCHANGED <<waker, queueVars, mayBlock, interrupt, exit, wakeUps, fd>>

\* select() returns because of the eventfd, for want of time to wait, or
\* because a timer or a socket notifier is due.
SelectReadable ==
    /\ fd > 0 /\ LoopGoTo("select", "read")
    /\ UNCHANGED <<waker, queueVars, mayBlock, interrupt, exit, wakeUps, fd>>

SelectNothing ==
    /\ fd = 0 /\ ~mayBlock /\ LoopGoTo("select", "exec")
    /\ UNCHANGED <<waker, queueVars, mayBlock, interrupt, exit, wakeUps, fd>>

SelectOther ==
    /\ fd = 0 /\ mayBlock /\ LoopGoTo("select", "exec")
    /\ UNCHANGED <<waker, queueVars, mayBlock, interrupt, exit, wakeUps, fd>>

\* processThreadWakeUp: eventfd_read, then wakeUps.testAndSetRelease(1, 0).
ReadFd ==
    /\ LoopGoTo("read", "reset")
    /\ fd' = 0
    /\ UNCHANGED <<waker, queueVars, mayBlock, interrupt, exit, wakeUps>>

\* Mutant: wakeUps is not reset.
ResetWakeUps_Missing ==
    /\ LoopGoTo("reset", "exec")
    /\ UNCHANGED <<waker, queueVars, mayBlock, interrupt, exit, wakeUps, fd>>

ResetWakeUps ==
    /\ LoopGoTo("reset", "exec")
    /\ wakeUps' = 0
    /\ UNCHANGED <<waker, queueVars, mayBlock, interrupt, exit, fd>>

-----------------------------------------------------------------------------
WakeUpInit ==
    /\ loopPc = "exec" /\ waker = [t \in Wakers |-> "idle"]
    /\ queued = 0 /\ batch = 0 /\ posts = 0 /\ canWait = TRUE
    /\ mayBlock = FALSE /\ interrupt = FALSE /\ exit = FALSE
    /\ wakeUps = 0 /\ fd = 0

LoopStep ==
    \/ TestExit \/ ClearInterrupt \/ EnterSend \/ Deliver \/ HandlerReturns
    \/ EndSend \/ CanWaitLocked \/ TestInterrupt \/ TestInterruptAgain
    \/ SelectReadable \/ SelectNothing \/ ReadFd \/ ResetWakeUps

Waker(t) == StoreInterrupt(t) \/ TestAndSet(t) \/ Write(t)

WakeUpNext ==
    \/ LoopStep \/ HandlerPosts \/ SelectOther
    \/ \E t \in Wakers : Post(t) \/ StoreExit(t) \/ Waker(t)

WakeUpSpec == WakeUpInit /\ [][WakeUpNext]_wakeUpVars

\* The loop thread runs when it can, handlers return, and a thread that has
\* posted or stored exit goes on; timers and notifiers need not come.
WakeUpLiveSpec ==
    /\ WakeUpSpec /\ WF_wakeUpVars(LoopStep)
    /\ \A t \in Wakers : WF_wakeUpVars(Waker(t))

-----------------------------------------------------------------------------
\* Properties.

Counters ==
    /\ queued \in Nat /\ batch \in Nat /\ posts \in Nat /\ batch <= queued
    /\ wakeUps \in {0, 1} /\ fd \in {0, 1}

Flags ==
    /\ canWait \in BOOLEAN /\ mayBlock \in BOOLEAN
    /\ interrupt \in BOOLEAN /\ exit \in BOOLEAN

\* The type invariant; in particular the eventfd never counts more than one.
WakeUpTypeOK ==
    loopPc \in LoopPCs /\ waker \in [Wakers -> WakerAts] /\ Counters /\ Flags

\* wakeUps is 1 exactly while one wake-up is on its way: a thread is about to
\* write it, it is in the eventfd, or the loop has read it and not yet reset
\* wakeUps.  There is never a second one, so the eventfd never fills up.
OneWakeUp ==
    /\ wakeUps = 1 <=> fd = 1 \/ loopPc = "reset" \/ \E t \in Wakers : waker[t] = "write"
    /\ ~(fd = 1 /\ loopPc = "reset")
    /\ \A t \in Wakers : waker[t] = "write" =>
           fd = 0 /\ loopPc # "reset" /\ \A u \in Wakers : waker[u] = "write" => u = t

\* "hopefully, this is dead code": wakeUps.testAndSetRelease(1, 0) succeeds.
DeadCode == loopPc = "reset" => wakeUps = 1

\* The loop never blocks over an event or a request to exit when no wake-up
\* is in the eventfd or on its way.
NoLostWakeUp ==
    /\ loopPc = "select" /\ mayBlock /\ fd = 0
    /\ \A t \in Wakers : waker[t] = "idle"
    => queued = 0 /\ ~exit

\* The loop returns once another thread has told it to exit.
ExitReturns == exit ~> loopPc = "returned"
=============================================================================
