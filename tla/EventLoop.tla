----------------------------- MODULE EventLoop -----------------------------
(***************************************************************************)
(* The main thread's event delivery: QCoreApplication's posted events,     *)
(* QEventLoop, and the UNIX event dispatcher's processEvents, with user    *)
(* code that re-enters all of them from event handlers, and other threads  *)
(* that post events to the thread's objects.                               *)
(*                                                                         *)
(* The C++ call stack of the thread is the variable stack.  Its frames:    *)
(*   exec      QEventLoop::exec, between entering and leaving the loop;    *)
(*   process   QAbstractEventDispatcher::processEvents;                    *)
(*   send      QCoreApplicationPrivate::sendPostedEvents; while it is on   *)
(*             top the thread holds postEventList.mutex;                   *)
(*   handler   QCoreApplication::notifyInternal: user code runs.           *)
(* postEventList.mutex is held exactly while a send frame is on top, so it *)
(* has no variable of its own.                                             *)
(*                                                                         *)
(* The eventfd and the wakeUps counter behind wakeUp() are one flag here;  *)
(* module WakeUp refines it.  Timers and socket notifiers are represented  *)
(* by the native event that select() may report at any time.               *)
(***************************************************************************)
EXTENDS PostedEventList

CONSTANTS Posters,      \* the other threads
          Posts,        \* the <<receiver, type, priority>> that get posted
          Calls,        \* what else the user's code calls, of CallNames
          Filters,      \* the <<receiver, type>> of explicit sendPostedEvents
          AnyReceiver,  \* the null receiver of sendPostedEvents(0, ...)
          AnyType,      \* the event type 0
          MaxPosts,     \* bound on the number of events ever queued
          MaxStack      \* bound on the depth of the call stack

CallNames == {"remove", "quit", "exit", "nested exec", "processEvents", "native"}

ASSUME EventLoopAssumption ==
    /\ Calls \subseteq CallNames
    /\ AnyReceiver \notin Receivers /\ AnyType \notin EventTypes
    /\ Posts \subseteq Receivers \X EventTypes \X Priorities
    /\ \A p \in Posts : /\ p[2] = "Quit" => p[1] = App
                        /\ p[2] = "DeferredDelete" => p[1] # App
    /\ Filters \subseteq (Receivers \cup {AnyReceiver})
                         \X (EventTypes \cup {AnyType})
    /\ MaxPosts \in Nat /\ MaxStack \in Nat

VARIABLES
    list,               \* postEventList
    startOffset,        \* postEventList.startOffset
    insertionOffset,    \* postEventList.insertionOffset
    recursion,          \* postEventList.recursion
    canWait,            \* QThreadData::canWait
    loopLevel,          \* QThreadData::loopLevel
    quitNow,            \* QThreadData::quitNow
    postedEvents,       \* QObjectPrivate::postedEvents of each receiver
    alive,              \* the receivers not yet destroyed
    lastEvent,          \* number of events queued so far: their names
    stack,              \* the call stack of the thread
    waking,             \* threads that have posted and not yet called wakeUp()
    wakeUps,            \* a wakeUp() has not been consumed by select() yet
    interrupt           \* QEventDispatcherUNIXPrivate::interrupt

queueVars == <<list, startOffset, insertionOffset, recursion>>
vars == <<queueVars, canWait, loopLevel, quitNow, postedEvents, alive,
          lastEvent, stack, waking, wakeUps, interrupt>>

-----------------------------------------------------------------------------
\* Frames: QEventLoop::exec with its exit flag; processEvents with its wait
\* argument, its canWait and how far it is (send, select or native);
\* sendPostedEvents with its arguments and its i; a handler and the entry it
\* was called for.

Exec == [kind |-> "exec", exit |-> FALSE]
Process(wait) ==
    [kind |-> "process", wait |-> wait, canWait |-> FALSE, pc |-> "send"]
Send(r, ty, i) == [kind |-> "send", receiver |-> r, type |-> ty, i |-> i]
Handler(entry) == [kind |-> "handler", entry |-> entry]

Top == stack[Len(stack)]
TopIs(kind) == stack # <<>> /\ Top.kind = kind
Popped == SubSeq(stack, 1, Len(stack) - 1)
Replaced(frame) == Append(Popped, frame)

InHandler == TopIs("handler")
UserCode == stack = <<>> \/ InHandler
Room(n) == Len(stack) + n <= MaxStack
MutexFree == ~TopIs("send")

\* The timer or notifier event select() reports carries no posted entry.
NativeEntry == [receiver |-> App, priority |-> 0, event |-> 0,
                type |-> "Plain", level |-> 0, poster |-> 0]

-----------------------------------------------------------------------------
\* postEvent: compression, the loop level of a DeferredDelete posted by the
\* thread itself, insertion, and the count of the receiver.

Compressed(r, ty) ==
    /\ ty \in {"DeferredDelete", "Quit"}
    /\ postedEvents[r] > 0
    /\ \E e \in LiveEntries(list) : e.receiver = r /\ e.type = ty

Enqueue(r, ty, p, level, poster) ==
    /\ lastEvent < MaxPosts
    /\ lastEvent' = lastEvent + 1
    /\ list' = AddEvent(list, insertionOffset,
                        [receiver |-> r, priority |-> p,
                         event |-> lastEvent + 1, type |-> ty,
                         level |-> IF ty = "DeferredDelete" THEN level ELSE 0,
                         poster |-> poster])
    /\ postedEvents' = [postedEvents EXCEPT ![r] = @ + 1]
    /\ canWait' = FALSE

\* The thread's own code posts: the wakeUp() that follows is part of the step.
PostEvent(r, ty, p) ==
    /\ UserCode /\ r \in alive /\ ~Compressed(r, ty)
    /\ Enqueue(r, ty, p, loopLevel, IF InHandler THEN Top.entry.event ELSE 0)
    /\ wakeUps' = TRUE
    /\ UNCHANGED <<startOffset, insertionOffset, recursion, loopLevel, quitNow,
                   alive, stack, waking, interrupt>>

\* Mutant: postEvent does not wake the other thread up.
RemotePost_NoWakeUp(t, r, ty, p) ==
    /\ MutexFree /\ t \notin waking /\ r \in alive /\ ~Compressed(r, ty)
    /\ Enqueue(r, ty, p, 0, 0)
    /\ UNCHANGED <<startOffset, insertionOffset, recursion, loopLevel, quitNow,
                   alive, stack, waking, wakeUps, interrupt>>

\* Another thread t posts and has the call of wakeUp() still ahead of it.
\* The loop level of its DeferredDelete events stays 0.
RemotePost(t, r, ty, p) ==
    /\ MutexFree /\ t \notin waking /\ r \in alive /\ ~Compressed(r, ty)
    /\ Enqueue(r, ty, p, 0, 0)
    /\ waking' = waking \cup {t}
    /\ UNCHANGED <<startOffset, insertionOffset, recursion, loopLevel, quitNow,
                   alive, stack, wakeUps, interrupt>>

RemoteWakeUp(t) ==
    /\ t \in waking
    /\ waking' = waking \ {t}
    /\ wakeUps' = TRUE
    /\ UNCHANGED <<queueVars, canWait, loopLevel, quitNow, postedEvents, alive,
                   lastEvent, stack, interrupt>>

-----------------------------------------------------------------------------
\* removePostedEvents(r, ty).  While a sendPostedEvents is active the entries
\* are nulled in place, otherwise the list closes up.

Doomed(r, ty) ==
    {k \in Live(list) : /\ r \in {AnyReceiver, list[k].receiver}
                        /\ ty \in {AnyType, list[k].type}}

ClosesUp == recursion = 0

RemovePosted(r, ty) ==
    IF r # AnyReceiver /\ postedEvents[r] = 0
    THEN UNCHANGED <<list, postedEvents>>
    ELSE /\ postedEvents' = [o \in Receivers |->
                postedEvents[o] - Cardinality({k \in Doomed(r, ty) :
                                                   list[k].receiver = o})]
         /\ IF ClosesUp
            THEN \E f \in Enumerations((1..Len(list)) \ Doomed(r, ty)) :
                     list' = Selected(list, f)
            ELSE list' = NullAll(list, Doomed(r, ty))

\* Called by the thread's own code, or by another thread at any time.
RemovePostedEvents(r, ty) ==
    /\ "remove" \in Calls
    /\ UserCode \/ (Posters # {} /\ MutexFree)
    /\ r # AnyReceiver => r \in alive
    /\ RemovePosted(r, ty)
    /\ UNCHANGED <<startOffset, insertionOffset, recursion, canWait, loopLevel,
                   quitNow, alive, lastEvent, stack, waking, wakeUps, interrupt>>

-----------------------------------------------------------------------------
\* sendPostedEvents(r, ty).

\* The statements up to the loop, on top of the call stack s of the caller.
EnterSend(s, r, ty) ==
    IF list = <<>> \/ (r # AnyReceiver /\ postedEvents[r] = 0)
    THEN /\ canWait' = (list = <<>>)
         /\ stack' = s
         /\ UNCHANGED <<recursion, insertionOffset>>
    ELSE /\ canWait' = TRUE
         /\ recursion' = recursion + 1
         /\ insertionOffset' = Len(list)
         /\ stack' = Append(s, Send(r, ty, startOffset))

SendPostedEvents(r, ty) ==
    /\ UserCode /\ Room(2)
    /\ r # AnyReceiver => r \in alive
    /\ EnterSend(stack, r, ty)
    /\ UNCHANGED <<list, startOffset, loopLevel, quitNow, postedEvents, alive,
                   lastEvent, waking, wakeUps, interrupt>>

\* Mutant: a pass for one receiver shares the position of the full pass.
Unfiltered_ByType(frame) == frame.type = AnyType

\* Without filters the position is the shared startOffset, else the frame's.
Unfiltered(frame) == frame.receiver = AnyReceiver /\ frame.type = AnyType
Position == IF Unfiltered(Top) THEN startOffset ELSE Top.i

Advance ==
    IF Unfiltered(Top)
    THEN startOffset' = startOffset + 1 /\ UNCHANGED stack
    ELSE stack' = Replaced([Top EXCEPT !.i = @ + 1]) /\ UNCHANGED startOffset

\* while (i < size) { if (i >= insertionOffset) break; ...
InPass == TopIs("send") /\ Position < Len(list) /\ Position < insertionOffset

Pe == list[Position + 1]

Matches(entry) ==
    /\ Top.receiver \in {AnyReceiver, entry.receiver}
    /\ Top.type \in {AnyType, entry.type}

\* Mutant: deferred deletes are sent on request only.
AllowDeferredDelete_OnRequest(entry, ty) ==
    ty = "DeferredDelete" /\ entry.level >= loopLevel

\* Mutant: the level the event was posted at is enough in every pass.
AllowDeferredDelete_SameLevel(entry, ty) ==
    \/ entry.level >= loopLevel
    \/ entry.level = 0 /\ loopLevel > 0

AllowDeferredDelete(entry, ty) ==
    \/ entry.level > loopLevel
    \/ entry.level = 0 /\ loopLevel > 0
    \/ ty = "DeferredDelete" /\ entry.level = loopLevel

Held(entry) ==
    entry.type = "DeferredDelete" /\ ~AllowDeferredDelete(entry, Top.type)

SkipNull ==
    /\ InPass /\ ~IsLive(Pe)
    /\ Advance
    /\ UNCHANGED <<list, insertionOffset, recursion, canWait, loopLevel,
                   quitNow, postedEvents, alive, lastEvent, waking, wakeUps,
                   interrupt>>

SkipOther ==
    /\ InPass /\ IsLive(Pe) /\ ~Matches(Pe)
    /\ canWait' = FALSE
    /\ Advance
    /\ UNCHANGED <<list, insertionOffset, recursion, loopLevel, quitNow,
                   postedEvents, alive, lastEvent, waking, wakeUps, interrupt>>

\* Mutant: the entry that is posted again is not nulled.
HoldDeferred_NotNulled ==
    /\ InPass /\ IsLive(Pe) /\ Matches(Pe) /\ Held(Pe)
    /\ IF Unfiltered(Top)
       THEN list' = AddEvent(list, insertionOffset, Pe)
       ELSE UNCHANGED list
    /\ Advance
    /\ UNCHANGED <<insertionOffset, recursion, canWait, loopLevel, quitNow,
                   postedEvents, alive, lastEvent, waking, wakeUps, interrupt>>

\* A DeferredDelete that may not be sent yet is posted again in a pass
\* without filters, and passed over otherwise.
HoldDeferred ==
    /\ InPass /\ IsLive(Pe) /\ Matches(Pe) /\ Held(Pe)
    /\ IF Unfiltered(Top)
       THEN list' = AddEvent([list EXCEPT ![Position + 1] = Nulled(@)],
                             insertionOffset, Pe)
       ELSE UNCHANGED list
    /\ Advance
    /\ UNCHANGED <<insertionOffset, recursion, canWait, loopLevel, quitNow,
                   postedEvents, alive, lastEvent, waking, wakeUps, interrupt>>

\* The entry is nulled, the mutex unlocked, and sendEvent entered.
Deliver ==
    /\ InPass /\ IsLive(Pe) /\ Matches(Pe) /\ ~Held(Pe) /\ Room(1)
    /\ postedEvents' = [postedEvents EXCEPT ![Pe.receiver] = @ - 1]
    /\ list' = [list EXCEPT ![Position + 1] = Nulled(@)]
    /\ loopLevel' = loopLevel + 1
    /\ IF Unfiltered(Top)
       THEN /\ startOffset' = startOffset + 1
            /\ stack' = Append(stack, Handler(Pe))
       ELSE /\ stack' = Append(Replaced([Top EXCEPT !.i = @ + 1]), Handler(Pe))
            /\ UNCHANGED startOffset
    /\ UNCHANGED <<insertionOffset, recursion, canWait, quitNow, alive,
                   lastEvent, waking, wakeUps, interrupt>>

\* The destructor of CleanUp.
CleanUp ==
    /\ recursion' = recursion - 1
    /\ wakeUps' = (wakeUps \/ (recursion = 1 /\ ~canWait))
    /\ IF Unfiltered(Top)
       THEN /\ list' = SubSeq(list, startOffset + 1, Len(list))
            /\ insertionOffset' = insertionOffset - startOffset
            /\ startOffset' = 0
       ELSE UNCHANGED <<list, insertionOffset, startOffset>>

SendDone ==
    /\ TopIs("send") /\ ~InPass
    /\ CleanUp
    /\ stack' = Popped
    /\ UNCHANGED <<canWait, loopLevel, quitNow, postedEvents, alive, lastEvent,
                   waking, interrupt>>

-----------------------------------------------------------------------------
\* Leaving event loops, and the return of a handler.

Exited(s) == [k \in 1..Len(s) |-> IF s[k].kind = "exec"
                                  THEN [s[k] EXCEPT !.exit = TRUE] ELSE s[k]]
Looping(s) == \E k \in 1..Len(s) : s[k].kind = "exec"

\* QCoreApplication::exit on the call stack s.
ExitAll(s) ==
    /\ quitNow' = TRUE
    /\ stack' = Exited(s)
    /\ wakeUps' = (wakeUps \/ Looping(s))
    /\ interrupt' = (interrupt \/ Looping(s))

Quit ==
    /\ UserCode /\ "quit" \in Calls
    /\ ExitAll(stack)
    /\ UNCHANGED <<queueVars, canWait, loopLevel, postedEvents, alive,
                   lastEvent, waking>>

\* Mutant: exit sets the flag only.
ExitLoop_NoInterrupt(k) ==
    /\ InHandler /\ stack[k].kind = "exec" /\ "exit" \in Calls
    /\ stack' = [stack EXCEPT ![k].exit = TRUE]
    /\ UNCHANGED <<queueVars, canWait, loopLevel, quitNow, postedEvents, alive,
                   lastEvent, waking, wakeUps, interrupt>>

\* QEventLoop::exit of one loop on the stack.
ExitLoop(k) ==
    /\ InHandler /\ stack[k].kind = "exec" /\ "exit" \in Calls
    /\ stack' = [stack EXCEPT ![k].exit = TRUE]
    /\ wakeUps' = TRUE /\ interrupt' = TRUE
    /\ UNCHANGED <<queueVars, canWait, loopLevel, quitNow, postedEvents, alive,
                   lastEvent, waking>>

\* QObject::event deletes the receiver of a DeferredDelete, whose destructor
\* removes its posted events; QCoreApplication::event obeys a Quit; what
\* other events do has happened while the handler was on top.
ReturnFromHandler ==
    /\ InHandler
    /\ loopLevel' = loopLevel - 1
    /\ CASE Top.entry.type = "DeferredDelete" ->
               /\ RemovePosted(Top.entry.receiver, AnyType)
               /\ alive' = alive \ {Top.entry.receiver}
               /\ stack' = Popped
               /\ UNCHANGED <<quitNow, wakeUps, interrupt>>
         [] Top.entry.type = "Quit" ->
               /\ ExitAll(Popped)
               /\ UNCHANGED <<list, postedEvents, alive>>
         [] OTHER ->
               /\ stack' = Popped
               /\ UNCHANGED <<list, postedEvents, alive, quitNow, wakeUps,
                              interrupt>>
    /\ UNCHANGED <<startOffset, insertionOffset, recursion, canWait, lastEvent,
                   waking>>

-----------------------------------------------------------------------------
\* QEventLoop::exec and QCoreApplication::exec.

\* Entering removes the Quit events posted to the application.
EnterLoop ==
    /\ loopLevel' = loopLevel + 1
    /\ stack' = Append(stack, Exec)
    /\ RemovePosted(App, "Quit")
    /\ UNCHANGED <<startOffset, insertionOffset, recursion, canWait, alive,
                   lastEvent, waking, wakeUps, interrupt>>

AppExec == stack = <<>> /\ Room(4) /\ quitNow' = FALSE /\ EnterLoop

NestedExec ==
    /\ "nested exec" \in Calls
    /\ InHandler /\ Room(4) /\ ~quitNow
    /\ EnterLoop
    /\ UNCHANGED quitNow

\* while (!d->exit.loadAcquire()) processEvents(flags | WaitForMoreEvents)
EnterProcess(s, wait) ==
    /\ interrupt' = FALSE
    /\ EnterSend(Append(s, Process(wait)), AnyReceiver, AnyType)
    /\ UNCHANGED <<list, startOffset, loopLevel, quitNow, postedEvents, alive,
                   lastEvent, waking, wakeUps>>

Iterate == TopIs("exec") /\ ~Top.exit /\ EnterProcess(stack, TRUE)

\* The outermost loop is QCoreApplication::exec's, which sends the remaining
\* DeferredDelete events before it returns.
LeaveLoop ==
    /\ TopIs("exec") /\ Top.exit
    /\ loopLevel' = loopLevel - 1
    /\ IF Popped = <<>>
       THEN quitNow' = FALSE /\ EnterSend(<<>>, AnyReceiver, "DeferredDelete")
       ELSE /\ stack' = Popped
            /\ UNCHANGED <<quitNow, canWait, recursion, insertionOffset>>
    /\ UNCHANGED <<list, startOffset, postedEvents, alive, lastEvent, waking,
                   wakeUps, interrupt>>

-----------------------------------------------------------------------------
\* QEventDispatcherUNIX::processEvents, from exec or called by user code.

ProcessEvents(wait) ==
    /\ "processEvents" \in Calls
    /\ UserCode /\ Room(3)
    /\ EnterProcess(stack, wait)

\* After sendPostedEvents: may the thread block, and is there a select at all?
AfterSend ==
    /\ TopIs("process") /\ Top.pc = "send"
    /\ stack' = IF interrupt
                THEN Popped
                ELSE Replaced([Top EXCEPT !.pc = "select",
                                          !.canWait = canWait /\ Top.wait])
    /\ UNCHANGED <<queueVars, canWait, loopLevel, quitNow, postedEvents, alive,
                   lastEvent, waking, wakeUps, interrupt>>

\* select returns: the wake-up is consumed, or there was no time to wait.
Select ==
    /\ TopIs("process") /\ Top.pc = "select"
    /\ wakeUps \/ ~Top.canWait
    /\ wakeUps' = FALSE
    /\ stack' = Popped
    /\ UNCHANGED <<queueVars, canWait, loopLevel, quitNow, postedEvents, alive,
                   lastEvent, waking, interrupt>>

\* A timer or a socket notifier is due: its handler runs after the wake-up
\* is consumed.
NativeEvent ==
    /\ TopIs("process") /\ Top.pc = "select" /\ Room(1)
    /\ "native" \in Calls
    /\ wakeUps' = FALSE
    /\ loopLevel' = loopLevel + 1
    /\ stack' = Append(Replaced([Top EXCEPT !.pc = "native"]),
                       Handler(NativeEntry))
    /\ UNCHANGED <<queueVars, canWait, quitNow, postedEvents, alive, lastEvent,
                   waking, interrupt>>

AfterNative ==
    /\ TopIs("process") /\ Top.pc = "native"
    /\ stack' = Popped
    /\ UNCHANGED <<queueVars, canWait, loopLevel, quitNow, postedEvents, alive,
                   lastEvent, waking, wakeUps, interrupt>>

-----------------------------------------------------------------------------
Init ==
    /\ list = <<>> /\ startOffset = 0 /\ insertionOffset = 0 /\ recursion = 0
    /\ canWait = TRUE
    /\ loopLevel = 0
    /\ quitNow = FALSE
    /\ postedEvents = [r \in Receivers |-> 0]
    /\ alive = Receivers
    /\ lastEvent = 0
    /\ stack = <<>>
    /\ waking = {}
    /\ wakeUps = FALSE
    /\ interrupt = FALSE

\* What removePostedEvents is called with: some of what is posted, for the
\* receiver or for all of them.
Removals == {<<p[1], p[2]>> : p \in Posts} \cup {<<AnyReceiver, "Plain">>}

\* The steps the thread takes by itself; user code chooses the others.
Delivery == \/ SkipNull \/ SkipOther \/ HoldDeferred \/ Deliver \/ SendDone
            \/ Iterate \/ LeaveLoop \/ AfterSend \/ Select \/ AfterNative

User == \/ \E p \in Posts : PostEvent(p[1], p[2], p[3])
        \/ \E p \in Filters : SendPostedEvents(p[1], p[2])
        \/ \E p \in Removals : RemovePostedEvents(p[1], p[2])
        \/ \E k \in 1..Len(stack) : ExitLoop(k)
        \/ \E wait \in BOOLEAN : ProcessEvents(wait)
        \/ Quit \/ AppExec \/ NestedExec \/ ReturnFromHandler

Environment == \/ \E t \in Posters, p \in Posts : RemotePost(t, p[1], p[2], p[3])
               \/ \E t \in Posters : RemoteWakeUp(t)
               \/ NativeEvent

Next == Delivery \/ User \/ Environment

Spec == Init /\ [][Next]_vars

\* User code returns from every handler, a thread that has posted goes on to
\* wake the loop up, and the thread itself runs whenever it can.
LiveSpec ==
    /\ Spec
    /\ WF_vars(Delivery)
    /\ SF_vars(ReturnFromHandler)
    /\ \A t \in Posters : WF_vars(RemoteWakeUp(t))

-----------------------------------------------------------------------------
\* Properties.

\* The counter QObjectPrivate::postedEvents, on which the shortcuts of
\* postEvent, sendPostedEvents and removePostedEvents rely, is the number of
\* entries the queue holds for the receiver.
PostedCount ==
    \A r \in Receivers :
        postedEvents[r] = Cardinality({k \in Live(list) : list[k].receiver = r})

\* What the pass without filters erases has been delivered, removed or posted
\* again: nested passes, removals and re-posting never leave an event that is
\* still to be delivered in front of startOffset; and the erased part ends
\* before insertionOffset, as CleanUp asserts.
NothingErased ==
    /\ startOffset <= Len(list) /\ startOffset <= insertionOffset
    /\ \A k \in 1..startOffset : ~IsLive(list[k])

\* The precondition of std::upper_bound in addEvent: whatever passes were
\* nested, the part it searches is sorted by priority.
SearchedPartSorted == SortedFrom(list, insertionOffset)

\* The thread blocks in select() with no wake-up pending or under way, in the
\* loop of an exec.
Asleep ==
    /\ TopIs("process") /\ Top.pc = "select" /\ Top.canWait
    /\ ~wakeUps /\ waking = {}
ExecAsleep == Asleep /\ Len(stack) > 1 /\ stack[Len(stack) - 1].kind = "exec"

\* QObject::deleteLater: "The object will be deleted when control returns to
\* the event loop" (qobject.cpp).  The thread does not sleep over a deferred
\* delete either that this loop level may deliver.
DeletedWhenIdle ==
    ExecAsleep => \A e \in LiveEntries(list) :
        e.type = "DeferredDelete" => e.level \in 1..loopLevel

\* QEventLoop::exit: "After this function has been called, the event loop
\* returns from the call to exec()": the thread does not sleep in a loop
\* that has been told to exit.
ExitHonoured == ExecAsleep => ~stack[Len(stack) - 1].exit

\* A deferred delete is not sent while the handler that posted it is still
\* running, except to who asks for it by sendPostedEvents(.., DeferredDelete):
\* "control must return to the event loop from which deleteLater() was called".
NotDeletedUnderPoster ==
    \A j, k \in 1..Len(stack) :
        /\ j + 1 < k
        /\ stack[j].kind = "handler" /\ stack[k].kind = "handler"
        /\ stack[k].entry.type = "DeferredDelete"
        /\ stack[k - 1].kind = "send" /\ stack[k - 1].type # "DeferredDelete"
        => stack[k].entry.poster = 0
           \/ stack[k].entry.poster # stack[j].entry.event

\* Every event posted to a running loop, however deeply nested, leaves the
\* queue; a deferred delete may have to wait for its own loop.
Queued(n) ==
    \E e \in LiveEntries(list) : e.event = n /\ e.type # "DeferredDelete"
EventuallySent ==
    \A n \in 1..MaxPosts : (Queued(n) /\ Looping(stack)) ~> (~Queued(n) \/ stack = <<>>)

\* The list with its offsets, null entries, nested passes and re-posting
\* implements the queue its users are promised, as long as no filtered pass
\* is made but exec's last one: what a pass has found is sent from the highest
\* priority to the lowest and the oldest first, once, and never lost.
Abstracted(e) == [event |-> e.event, receiver |-> e.receiver, type |-> e.type,
                  priority |-> e.priority]
Waiting(lst) == {Abstracted(lst[k]) : k \in Live(lst)}
Precedence(lst) ==
    {<<Abstracted(lst[x[1]]), Abstracted(lst[x[2]])>> :
        x \in {y \in Live(lst) \X Live(lst) : y[1] < y[2]}}
Found(lst, offset) == {Abstracted(lst[k]) : k \in {j \in Live(lst) : j <= offset}}
Beyond(lst, offset) == IF offset > Len(lst) THEN offset - Len(lst) ELSE 0
Handling(s) ==
    {k \in 1..Len(s) : s[k].kind = "handler" /\ IsLive(s[k].entry)}
Handled(s) == {Abstracted(s[k].entry) : k \in Handling(s)}
Requested == {x \in Removals : "remove" \in Calls} \cup {<<App, "Quit">>}

Queue == INSTANCE ThreadQueue WITH
             Removals <- Requested,
             pending <- Waiting(list),
             handling <- Handled(stack),
             posted <- lastEvent,
             before <- Precedence(list),
             due <- Found(list, insertionOffset),
             passes <- recursion,
             late <- Beyond(list, insertionOffset)
ImplementsQueue == Queue!SpecInOrder
=============================================================================
