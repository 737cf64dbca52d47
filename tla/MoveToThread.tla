---------------------------- MODULE MoveToThread ----------------------------
(***************************************************************************)
(* Objects that move between threads: QObject::moveToThread with the       *)
(* posted events and the timers of the object and its children, against    *)
(* QCoreApplication::postEvent, which follows a receiver that moves, and   *)
(* the event loops of both threads.                                        *)
(*                                                                         *)
(* One event loop per thread, its events handled one after the other:      *)
(* nested loops and passes are module EventLoop's.  pc of a thread:        *)
(*   off      not started: it has no event dispatcher;                     *)
(*   process  about to call sendPostedEvents;                              *)
(*   send     in it, with the mutex of its list;                           *)
(*   handler  user code runs: the handler of an event, handled, or what    *)
(*            the main thread does before exec();                          *)
(*   poll     about to look at canWait;                                    *)
(*   select   in select(), with a timeout of 0 unless waits;               *)
(*   change   in moveToThread: ThreadChange is being sent to the members;  *)
(*   second   has locked one of the two lists' mutexes;                    *)
(*   move     in setThreadData_helper, with both mutexes.                  *)
(***************************************************************************)
EXTENDS PostedEventList

CONSTANTS
    Threads,    \* the threads with event loops
    Main,       \* the one that has the application
    Posters,    \* other threads, which post events
    NoOne,
    Address,    \* the order of the lists' mutexes in memory
    Members,    \* for each object that gets moved: it, and its descendants in
                \* the order of their creation
    Timers,     \* the objects that use a timer
    Home,       \* the threads the objects are created in
    Posts,      \* the <<receiver, priority>> that get posted
    MaxPosts,   \* posters post while fewer events have been queued
    MaxMoves    \* bound on the number of moves

ASSUME MoveToThreadAssumption ==
    /\ IsFiniteSet(Threads) /\ Main \in Threads /\ NoOne \notin Threads \cup Posters
    /\ Threads \cap Posters = {}
    /\ Address \in [Threads -> Nat]
    /\ \A t, u \in Threads : Address[t] = Address[u] => t = u
    /\ DOMAIN Members \subseteq Receivers
    /\ \A o \in DOMAIN Members : Members[o] \in Seq(Receivers) \ {<<>>}
    /\ Timers \subseteq Receivers
    /\ Home \in [Receivers -> Threads]
    /\ Posts \subseteq Receivers \X Priorities
    /\ 0 \in Priorities
    /\ MaxPosts \in Nat /\ MaxMoves \in Nat

\* "QObject::moveToThread: Cannot move objects with a parent": what is moved
\* is the root of a tree, and a child is created in its parent's thread.
ASSUME FamiliesAssumption ==
    \A o \in DOMAIN Members :
        /\ Members[o][1] = o
        /\ \A k \in 1..Len(Members[o]) : Home[Members[o][k]] = Home[o]
        /\ \A p \in DOMAIN Members :
              \A j \in 1..Len(Members[o]), k \in 1..Len(Members[p]) :
                  Members[o][j] = Members[p][k] => o = p /\ j = k

VARIABLES
    lists, startOffset, insertionOffset,    \* postEventList of each thread
    canWait,        \* QThreadData::canWait
    holder,         \* who holds postEventList.mutex
    threadData,     \* QObjectPrivate::threadData: the thread
    lastEvent,      \* number of events queued so far: their names
    pc, handled, waits,
    wakeUps,        \* a wakeUp() has not been consumed by select() yet
    object, target, \* what each thread's moveToThread moves, and where to
    done,           \* the number of members it is through with
    eventsMoved,    \* it has moved an event of the current member
    moves,          \* number of calls of moveToThread so far
    posts,          \* where each poster is in postEvent
    timer,          \* the timer of each object: none, running or killed
    registered      \* the objects whose timers a dispatcher knows

listVars == <<lists, startOffset, insertionOffset>>
moveVars == <<object, target, done, eventsMoved, moves>>
timerVars == <<timer, registered>>
vars == <<listVars, canWait, holder, threadData, lastEvent, pc, handled, waits,
          wakeUps, moveVars, posts, timerVars>>

GoTo(t, l) == pc' = [pc EXCEPT ![t] = l]
Started(t) == pc[t] # "off"

\* An actor that is not in postEvent (reset so that equal states are equal).
NotPosting == [pc |-> "none", data |-> CHOOSE t \in Threads : TRUE,
               receiver |-> App, priority |-> 0]

\* Into the list of t, whose mutex is held.
Enqueue(t, r, ty, p) ==
    /\ lastEvent' = lastEvent + 1
    /\ lists' = [lists EXCEPT ![t] = AddEvent(@, insertionOffset[t],
                    [receiver |-> r, priority |-> p, event |-> lastEvent + 1,
                     type |-> ty, level |-> 0, poster |-> 0])]
    /\ canWait' = [canWait EXCEPT ![t] = FALSE]

-----------------------------------------------------------------------------
\* postEvent by a thread of its own.

\* QThreadData *data = *pdata
PostEvent(a, r, p) ==
    /\ posts[a].pc = "none" /\ lastEvent < MaxPosts
    /\ posts' = [posts EXCEPT ![a] = [pc |-> "lock", data |-> threadData[r],
                                      receiver |-> r, priority |-> p]]
    /\ UNCHANGED <<listVars, canWait, holder, threadData, lastEvent, pc, handled,
                   waits, wakeUps, moveVars, timerVars>>

\* while (data != *pdata): unlock, load again.
Follow(a) ==
    LET post == posts[a] IN
    /\ post.pc = "lock" /\ holder[post.data] = NoOne
    /\ threadData[post.receiver] # post.data
    /\ posts' = [posts EXCEPT ![a].data = threadData[post.receiver]]
    /\ UNCHANGED <<listVars, canWait, holder, threadData, lastEvent, pc, handled,
                   waits, wakeUps, moveVars, timerVars>>

\* Mutant: the receiver's thread is not looked at again under the lock.
Insert_NoFollow(a) ==
    LET post == posts[a] IN
    /\ post.pc = "lock" /\ holder[post.data] = NoOne
    /\ Enqueue(post.data, post.receiver, "Plain", post.priority)
    /\ posts' = [posts EXCEPT ![a].pc = "wake"]
    /\ UNCHANGED <<startOffset, insertionOffset, holder, threadData, pc, handled,
                   waits, wakeUps, moveVars, timerVars>>

Insert(a) ==
    LET post == posts[a] IN
    /\ post.pc = "lock" /\ holder[post.data] = NoOne
    /\ threadData[post.receiver] = post.data
    /\ Enqueue(post.data, post.receiver, "Plain", post.priority)
    /\ posts' = [posts EXCEPT ![a].pc = "wake"]
    /\ UNCHANGED <<startOffset, insertionOffset, holder, threadData, pc, handled,
                   waits, wakeUps, moveVars, timerVars>>

\* if (dispatcher) dispatcher->wakeUp()
PosterWakesUp(a) ==
    LET post == posts[a] IN
    /\ post.pc = "wake"
    /\ wakeUps' = [wakeUps EXCEPT ![post.data] = @ \/ Started(post.data)]
    /\ posts' = [posts EXCEPT ![a] = NotPosting]
    /\ UNCHANGED <<listVars, canWait, holder, threadData, lastEvent, pc, handled,
                   waits, moveVars, timerVars>>

-----------------------------------------------------------------------------
\* The event loop of a thread.

\* QThread::run() of a thread that leaves it to exec().
Start(t) ==
    /\ pc[t] = "off"
    /\ GoTo(t, "process")
    /\ UNCHANGED <<listVars, canWait, holder, threadData, lastEvent, handled,
                   waits, wakeUps, moveVars, posts, timerVars>>

\* sendPostedEvents up to its loop.
EnterSend(t) ==
    /\ pc[t] = "process" /\ holder[t] = NoOne
    /\ canWait' = [canWait EXCEPT ![t] = TRUE]
    /\ IF lists[t] = <<>>
       THEN GoTo(t, "poll") /\ UNCHANGED <<insertionOffset, holder>>
       ELSE /\ insertionOffset' = [insertionOffset EXCEPT ![t] = Len(lists[t])]
            /\ holder' = [holder EXCEPT ![t] = t]
            /\ GoTo(t, "send")
    /\ UNCHANGED <<lists, startOffset, threadData, lastEvent, handled, waits,
                   wakeUps, moveVars, posts, timerVars>>

\* The entries the pass has still to send.
ToSend(t) == {k \in Live(lists[t]) : startOffset[t] < k /\ k <= insertionOffset[t]}

\* The next entry is nulled, the mutex unlocked, and sendEvent entered.
Deliver(t) ==
    /\ pc[t] = "send"
    /\ \E k \in ToSend(t) :
          /\ \A j \in ToSend(t) : k <= j
          /\ lists' = [lists EXCEPT ![t][k] = Nulled(@)]
          /\ startOffset' = [startOffset EXCEPT ![t] = k]
          /\ handled' = [handled EXCEPT ![t] = lists[t][k]]
    /\ holder' = [holder EXCEPT ![t] = NoOne]
    /\ GoTo(t, "handler")
    /\ UNCHANGED <<insertionOffset, canWait, threadData, lastEvent, waits,
                   wakeUps, moveVars, posts, timerVars>>

\* The rest of the pass is null; the destructor of CleanUp.
SendDone(t) ==
    /\ pc[t] = "send" /\ ToSend(t) = {}
    /\ lists' = [lists EXCEPT ![t] = SubSeq(@, insertionOffset[t] + 1, Len(@))]
    /\ startOffset' = [startOffset EXCEPT ![t] = 0]
    /\ insertionOffset' = [insertionOffset EXCEPT ![t] = 0]
    /\ wakeUps' = [wakeUps EXCEPT ![t] = @ \/ ~canWait[t]]
    /\ holder' = [holder EXCEPT ![t] = NoOne]
    /\ GoTo(t, "poll")
    /\ UNCHANGED <<canWait, threadData, lastEvent, handled, waits, moveVars,
                   posts, timerVars>>

Poll(t) ==
    /\ pc[t] = "poll"
    /\ waits' = [waits EXCEPT ![t] = canWait[t]]
    /\ GoTo(t, "select")
    /\ UNCHANGED <<listVars, canWait, holder, threadData, lastEvent, handled,
                   wakeUps, moveVars, posts, timerVars>>

Select(t) ==
    /\ pc[t] = "select" /\ (wakeUps[t] \/ ~waits[t])
    /\ wakeUps' = [wakeUps EXCEPT ![t] = FALSE]
    /\ waits' = [waits EXCEPT ![t] = FALSE]
    /\ GoTo(t, "process")
    /\ UNCHANGED <<listVars, canWait, holder, threadData, lastEvent, handled,
                   moveVars, posts, timerVars>>

\* A timer is due: a wake-up that is pending too is consumed.
TimerEntry(o) == [receiver |-> o, priority |-> 0, event |-> 0, type |-> "Plain",
                  level |-> 0, poster |-> 0]
TimerEvent(t, o) ==
    /\ pc[t] = "select" /\ o \in registered[t]
    /\ wakeUps' = [wakeUps EXCEPT ![t] = FALSE]
    /\ waits' = [waits EXCEPT ![t] = FALSE]
    /\ handled' = [handled EXCEPT ![t] = TimerEntry(o)]
    /\ GoTo(t, "handler")
    /\ UNCHANGED <<listVars, canWait, holder, threadData, lastEvent, moveVars,
                   posts, timerVars>>

\* The handler returns, to the pass or to the dispatcher.  A queued call of
\* _q_reregisterTimers has made the timer known to the new dispatcher.
Return(t) ==
    /\ pc[t] = "handler"
    /\ registered' = IF handled[t].type = "MetaCall"
                     THEN [registered EXCEPT ![threadData[handled[t].receiver]] =
                               @ \cup {handled[t].receiver}]
                     ELSE registered
    /\ IF IsLive(handled[t])
       THEN /\ holder[t] = NoOne
            /\ holder' = [holder EXCEPT ![t] = t]
            /\ GoTo(t, "send")
       ELSE GoTo(t, "process") /\ UNCHANGED holder
    /\ handled' = [handled EXCEPT ![t] = Nulled(TimerEntry(App))]
    /\ UNCHANGED <<listVars, canWait, threadData, lastEvent, waits, wakeUps,
                   moveVars, posts, timer>>

-----------------------------------------------------------------------------
\* User code: timers.

InUserCode(t) == pc[t] = "handler" /\ handled[t].type # "MetaCall"

StartTimer(t, o) ==
    /\ InUserCode(t) /\ threadData[o] = t /\ timer[o] = "none"
    /\ timer' = [timer EXCEPT ![o] = "running"]
    /\ registered' = [registered EXCEPT ![t] = @ \cup {o}]
    /\ UNCHANGED <<listVars, canWait, holder, threadData, lastEvent, pc, handled,
                   waits, wakeUps, moveVars, posts>>

KillTimer(t, o) ==
    /\ InUserCode(t) /\ threadData[o] = t /\ timer[o] = "running"
    /\ timer' = [timer EXCEPT ![o] = "killed"]
    /\ registered' = [registered EXCEPT ![t] = @ \ {o}]
    /\ UNCHANGED <<listVars, canWait, holder, threadData, lastEvent, pc, handled,
                   waits, wakeUps, moveVars, posts>>

-----------------------------------------------------------------------------
\* User code: moveToThread.

MoveToThread(t, o, u) ==
    /\ InUserCode(t) /\ threadData[o] = t /\ u # t /\ moves < MaxMoves
    /\ moves' = moves + 1
    /\ object' = [object EXCEPT ![t] = o]
    /\ target' = [target EXCEPT ![t] = u]
    /\ GoTo(t, "change")
    /\ UNCHANGED <<listVars, canWait, holder, threadData, lastEvent, handled,
                   waits, wakeUps, done, eventsMoved, posts, timerVars>>

AllDone(t) == done[t] = Len(Members[object[t]])
Member(t) == Members[object[t]][done[t] + 1]
NextMember(t) == done' = [done EXCEPT ![t] = @ + 1]
FirstMember(t) == done' = [done EXCEPT ![t] = 0]

\* Mutant: the timer stays with the old thread's dispatcher.
ThreadChange_KeepsTimer(t) ==
    /\ pc[t] = "change" /\ ~AllDone(t)
    /\ NextMember(t)
    /\ UNCHANGED <<listVars, canWait, holder, threadData, lastEvent, pc, handled,
                   waits, wakeUps, object, target, eventsMoved, moves, posts,
                   timerVars>>

\* QObject::event for a ThreadChange: a registered timer is unregistered, and
\* a queued call posted that will register it again.
ThreadChange(t) ==
    /\ pc[t] = "change" /\ ~AllDone(t)
    /\ IF Member(t) \in registered[t]
       THEN /\ holder[t] = NoOne
            /\ registered' = [registered EXCEPT ![t] = @ \ {Member(t)}]
            /\ Enqueue(t, Member(t), "MetaCall", 0)
            /\ wakeUps' = [wakeUps EXCEPT ![t] = TRUE]
       ELSE UNCHANGED <<registered, lists, canWait, lastEvent, wakeUps>>
    /\ NextMember(t)
    /\ UNCHANGED <<startOffset, insertionOffset, holder, threadData, pc, handled,
                   waits, object, target, eventsMoved, moves, posts, timer>>

\* Mutant: the own list is locked first.
Lower_Own(t, u) == t

\* QOrderedMutexLocker: the mutex with the lower address first.
Lower(t, u) == IF Address[t] < Address[u] THEN t ELSE u

LockFirst(t) ==
    /\ pc[t] = "change" /\ AllDone(t)
    /\ holder[Lower(t, target[t])] = NoOne
    /\ holder' = [holder EXCEPT ![Lower(t, target[t])] = t]
    /\ FirstMember(t)
    /\ GoTo(t, "second")
    /\ UNCHANGED <<listVars, canWait, threadData, lastEvent, handled, waits,
                   wakeUps, object, target, eventsMoved, moves, posts, timerVars>>

LockSecond(t) ==
    /\ pc[t] = "second"
    /\ \E u \in {t, target[t]} :
          /\ holder[u] = NoOne
          /\ holder' = [holder EXCEPT ![u] = t]
    /\ GoTo(t, "move")
    /\ UNCHANGED <<listVars, canWait, threadData, lastEvent, handled, waits,
                   wakeUps, moveVars, posts, timerVars>>

\* setThreadData_helper: the events of the member one after the other, each
\* nulled in the old list.
MembersEvents(t) ==
    {k \in Live(lists[t]) : lists[t][k].receiver = Member(t)}

\* Mutant: the event is taken from one list and not added to the other.
MoveEvent_NotAdded(t) ==
    /\ pc[t] = "move" /\ ~AllDone(t)
    /\ \E k \in MembersEvents(t) :
          /\ \A j \in MembersEvents(t) : k <= j
          /\ lists' = [lists EXCEPT ![t][k] = Nulled(@)]
    /\ eventsMoved' = [eventsMoved EXCEPT ![t] = TRUE]
    /\ UNCHANGED <<startOffset, insertionOffset, canWait, holder, threadData,
                   lastEvent, pc, handled, waits, wakeUps, object, target, done,
                   moves, posts, timerVars>>

MoveEvent(t) ==
    /\ pc[t] = "move" /\ ~AllDone(t)
    /\ \E k \in MembersEvents(t) :
          /\ \A j \in MembersEvents(t) : k <= j
          /\ lists' = [lists EXCEPT
                ![t][k] = Nulled(@),
                ![target[t]] = AddEvent(@, insertionOffset[target[t]], lists[t][k])]
    /\ eventsMoved' = [eventsMoved EXCEPT ![t] = TRUE]
    /\ UNCHANGED <<startOffset, insertionOffset, canWait, holder, threadData,
                   lastEvent, pc, handled, waits, wakeUps, object, target, done,
                   moves, posts, timerVars>>

\* The rest of setThreadData_helper: the other thread is woken if it got
\* events, and the member lives there.
SetThreadData(t) ==
    LET u == target[t]
        wakes == eventsMoved[t] /\ Started(u)
    IN
    /\ pc[t] = "move" /\ ~AllDone(t) /\ MembersEvents(t) = {}
    /\ canWait' = [canWait EXCEPT ![u] = @ /\ ~wakes]
    /\ wakeUps' = [wakeUps EXCEPT ![u] = @ \/ wakes]
    /\ threadData' = [threadData EXCEPT ![Member(t)] = u]
    /\ eventsMoved' = [eventsMoved EXCEPT ![t] = FALSE]
    /\ NextMember(t)
    /\ UNCHANGED <<listVars, holder, lastEvent, pc, handled, waits, object,
                   target, moves, posts, timerVars>>

Unlock(t) ==
    /\ pc[t] = "move" /\ AllDone(t)
    /\ holder' = [u \in Threads |-> IF holder[u] = t THEN NoOne ELSE holder[u]]
    /\ FirstMember(t)
    /\ object' = [object EXCEPT ![t] = App]
    /\ target' = [target EXCEPT ![t] = t]
    /\ GoTo(t, "handler")
    /\ UNCHANGED <<listVars, canWait, threadData, lastEvent, handled, waits,
                   wakeUps, eventsMoved, moves, posts, timerVars>>

-----------------------------------------------------------------------------
Init ==
    /\ lists = [t \in Threads |-> <<>>]
    /\ startOffset = [t \in Threads |-> 0]
    /\ insertionOffset = [t \in Threads |-> 0]
    /\ canWait = [t \in Threads |-> TRUE]
    /\ holder = [t \in Threads |-> NoOne]
    /\ threadData = Home
    /\ lastEvent = 0
    /\ pc = [t \in Threads |-> IF t = Main THEN "handler" ELSE "off"]
    /\ handled = [t \in Threads |-> Nulled(TimerEntry(App))]
    /\ waits = [t \in Threads |-> FALSE]
    /\ wakeUps = [t \in Threads |-> FALSE]
    /\ object = [t \in Threads |-> App]
    /\ target = [t \in Threads |-> t]
    /\ done = [t \in Threads |-> 0]
    /\ eventsMoved = [t \in Threads |-> FALSE]
    /\ moves = 0
    /\ posts = [a \in Posters |-> NotPosting]
    /\ timer = [o \in Receivers |-> "none"]
    /\ registered = [t \in Threads |-> {}]

\* The steps of a thread inside Qt's functions, and those of a poster.
LoopStep(t) == EnterSend(t) \/ Deliver(t) \/ SendDone(t) \/ Poll(t) \/ Select(t)
MoveStep(t) == \/ ThreadChange(t) \/ LockFirst(t) \/ LockSecond(t)
               \/ MoveEvent(t) \/ SetThreadData(t) \/ Unlock(t)
PostStep(a) == Follow(a) \/ Insert(a) \/ PosterWakesUp(a)

User(t) == \/ \E o \in Timers : StartTimer(t, o) \/ KillTimer(t, o)
           \/ \E o \in DOMAIN Members, u \in Threads : MoveToThread(t, o, u)

Next == \/ \E t \in Threads :
              \/ Start(t) \/ LoopStep(t) \/ Return(t) \/ MoveStep(t) \/ User(t)
              \/ \E o \in Timers : TimerEvent(t, o)
        \/ \E a \in Posters : \/ \E p \in Posts : PostEvent(a, p[1], p[2])
                              \/ PostStep(a)

Spec == Init /\ [][Next]_vars

\* Threads go on inside Qt's functions, user code returns, and the mutexes are
\* fair enough that a thread gets one that is free again and again.
LiveSpec ==
    /\ Spec
    /\ \A t \in Threads :
          SF_vars(LoopStep(t) \/ Return(t) \/ MoveStep(t))
    /\ \A a \in Posters : SF_vars(PostStep(a))

-----------------------------------------------------------------------------
\* Properties.

TypeOK ==
    /\ lists \in [Threads -> Seq(Entries)]
    /\ startOffset \in [Threads -> Nat] /\ insertionOffset \in [Threads -> Nat]
    /\ canWait \in [Threads -> BOOLEAN]
    /\ holder \in [Threads -> Threads \cup {NoOne}]
    /\ threadData \in [Receivers -> Threads]
    /\ lastEvent \in Nat
    /\ pc \in [Threads -> {"off", "process", "send", "handler", "poll", "select",
                           "change", "second", "move"}]
    /\ handled \in [Threads -> Entries]
    /\ waits \in [Threads -> BOOLEAN] /\ wakeUps \in [Threads -> BOOLEAN]
    /\ object \in [Threads -> Receivers] /\ target \in [Threads -> Threads]
    /\ done \in [Threads -> Nat] /\ eventsMoved \in [Threads -> BOOLEAN]
    /\ moves \in Nat
    /\ posts \in [Posters -> [pc : {"none", "lock", "wake"}, data : Threads,
                              receiver : Receivers, priority : Priorities]]
    /\ timer \in [Receivers -> {"none", "running", "killed"}]
    /\ registered \in [Threads -> SUBSET Receivers]

\* The events of t's current member are between the two lists.
Underway(t, r) == pc[t] = "move" /\ ~AllDone(t) /\ Member(t) = r

\* An event is never sent in a thread its receiver does not live in: whoever
\* posts while the receiver moves, its events are in the list of its thread,
\* or held by the thread that is moving them.
EventsFollowReceiver ==
    \A t \in Threads : \A e \in LiveEntries(lists[t]) :
        \/ threadData[e.receiver] = t
        \/ \E u \in Threads : target[u] = t /\ Underway(u, e.receiver)

\* A timer is known to the dispatcher of the thread its object lives in and to
\* no other, or a queued call that will register it follows the object.
ToRegister(o) ==
    \/ \E t \in Threads : \E e \in LiveEntries(lists[t]) \cup {handled[t]} :
           e.type = "MetaCall" /\ e.receiver = o
TimersFollow ==
    /\ \A t \in Threads : \A o \in registered[t] :
           threadData[o] = t /\ ~(Underway(t, o))
    /\ \A o \in Receivers :
           timer[o] = "running" => o \in registered[threadData[o]] \/ ToRegister(o)

\* QObject::killTimer: "Kills the timer with timer identifier, id."  No
\* dispatcher knows a timer that was killed.
KilledStaysKilled ==
    \A t \in Threads : \A o \in registered[t] : timer[o] = "running"

\* Posted events are handled in the end, unless their thread is not started,
\* and calls of moveToThread return: no wake-up is lost between a post, a move
\* and the loops of both threads, and nobody waits for a list for ever.
Settled(t) ==
    /\ LiveEntries(lists[t]) = {}
    /\ pc[t] \notin {"change", "second", "move"}
EventuallySettled == []<>(\A t \in Threads : Started(t) => Settled(t))

\* The lists of all threads together are one queue to who posts: a move loses
\* nothing, sends nothing twice, and does not reorder what a receiver gets with
\* one priority.
Abstracted(e) == [event |-> e.event, receiver |-> e.receiver, type |-> e.type,
                  priority |-> e.priority]
Queue == INSTANCE EventQueue WITH
    AnyReceiver <- NoOne,
    AnyType <- NoOne,
    Removals <- {},
    pending <- UNION {{Abstracted(e) : e \in LiveEntries(lists[t])} : t \in Threads},
    handling <- {Abstracted(handled[t]) : t \in {u \in Threads : IsLive(handled[u])}},
    posted <- lastEvent,
    alive <- Receivers
ImplementsQueue == Queue!Spec
=============================================================================
