# Verification of Qt's event and thread core (qtbase, Native Client port)

TLA+ models of the concurrent and re-entrant core of this repository: posted
events and event loops, the dispatcher that puts a thread to sleep and wakes it
up, `QMutex` in both its implementations, `QWaitCondition` and `QReadWriteLock`,
`QThread`, `QThreadPool`, objects that move between threads, signal-slot
connections, and the timers of the Pepper (Native Client) event dispatcher. TLC
checks every module on small instances; TLAPS proves every safety invariant that
the passing runs check, and the refinements, for every value of the constants. All paths below are relative to
`src/` of the repository checkout unless they start with `src/src/`;
`PROJECT.json` maps each definition to the lines it models.

    tlc -config FutexMutex.cfg MCFutexMutex.tla      # one run
    tlapm QMutex_proofs.tla                          # one module of proofs

## 1. Inventory

| Part | State | Operations | Hard because |
|---|---|---|---|
| Posted events: `corelib/kernel/qcoreapplication.cpp`, `QPostEventList` in `thread/qthread_p.h` | per thread: the list, `startOffset`, `insertionOffset`, `recursion`, `canWait`; per object `postedEvents` | `postEvent` (any thread), `compressEvent`, `sendPostedEvents`, `removePostedEvents`, deferred delete | handlers run with the list unlocked and re-enter all of it; entries become null, are moved and erased under positions that outer passes hold |
| Event loops: `kernel/qeventloop.cpp`, `QCoreApplication::exec/exit/quit` | `exit`, `loopLevel`, `eventLoops`, `quitNow` | `exec`, `exit`, `processEvents` | nesting; `exit` from other threads and from handlers |
| UNIX dispatcher: `kernel/qeventdispatcher_unix.cpp` | `interrupt`, `wakeUps`, the eventfd | `processEvents`, `wakeUp`, `interrupt`, timers and notifiers | lock-free hand-shake with posters; sleeping over work |
| Objects and threads: `QObject::moveToThread`, `setThreadData_helper` in `kernel/qobject.cpp` | `threadData` of each object, both threads' lists, the timers each dispatcher knows | `moveToThread`, `postEvent` that follows it, `startTimer`, `killTimer`, `_q_reregisterTimers` | two lists' mutexes, events moved one by one under a poster that has looked up the thread already, timers that travel by event |
| Signals and slots: `connect`, `disconnect`, `activate`, `~QObject` in `kernel/qobject.cpp` | the sender's connection list with `inUse`, `dirty`, `orphaned`; the receiver's list of senders; reference counts | the same | lists walked while slots change them or destroy their owner; two mutexes of a pool, relocked in address order; a destructor that threads a local variable into a list |
| `QMutex` on Linux: `thread/qmutex.h`, `qmutex_linux.cpp` | one word | `lock`, `tryLock`, `unlock` | futex races, timeouts |
| `QMutex` elsewhere (Native Client included): `thread/qmutex.cpp`, `qmutex_p.h`, `qmutex_unix.cpp` | word, and privates from a lock-free freelist with `refCount`, `waiters`, `possiblyUnlocked`, `wakeup` | the same | a private may be released and reused between any two steps |
| `QWaitCondition`: `thread/qwaitcondition_unix.cpp` | `waiters`, `wakeups` under a mutex of its own | `wait` with and without timeout, `wakeOne`, `wakeAll` | a wake-up counted for one waiter is taken by another; timeouts and spurious returns |
| `QReadWriteLock`: `thread/qreadwritelock.cpp` | `accessCount`, the waiting counts, `currentWriter`, `currentReaders` | `lockForRead/Write`, the `try` forms, `unlock` | a waiter that gives up, or is overtaken, has been woken in place of others |
| `QThread`: `thread/qthread.cpp`, `qthread_unix.cpp` | `running`, `finished`, `isInFinish`, `exited`, `returnCode`, the thread's loops and dispatcher | `start`, `exec`, `exit`, `quit`, `wait`, `finish` | restarts meeting `finish`; `exit` between two locked sections |
| `QThreadPool`: `thread/qthreadpool.cpp` | queue, three lists of threads, counters, references of runnables | `start`, `tryStart`, `reserveThread`, `releaseThread`, `setMaxThreadCount`, `clear`, `waitForDone` | threads that expire while they are given work; a reset that runs unlocked |
| Pepper dispatcher: `plugins/platforms/pepper/qpeppereventdispatcher.cpp` | tables serial/timer id/object, the callbacks in the native loop | `registerTimer`, `unregisterTimer(s)`, `timerCallback`, `wakeUp` | callbacks cannot be cancelled, timer ids are reused, handlers change the timers |
| `QSemaphore`, recursive mutexes | counters under a mutex | acquire, release, lock | not modelled yet |
| UNIX timers: `kernel/qtimerinfo_unix.cpp` | sorted list of timers | register, unregister, activate | not modelled yet |
| Pepper compositor, instance, thread dispatcher | damage, flush state; native loops | browser callbacks | not modelled yet |
| The rest of qtbase (GUI, widgets, network, SQL, D-Bus, XML, tools, ...) | | | sequential, or around external systems; `PROJECT.json` says why for each |

How they interact. A poster locks the receiver thread's list, inserts, clears
`canWait`, unlocks, and calls the dispatcher's `wakeUp()`. The thread's
`QEventLoop::exec` calls `processEvents` until told to exit; that sends the posted
events, then tests `canWait` and `interrupt` and sleeps in `select()`. A handler may
call any of this again: nested loops, `processEvents`, `sendPostedEvents` with a
filter, `removePostedEvents`, `exit`, `deleteLater`, and `moveToThread`, which
takes the object's events over to another thread's list and wakes that thread.
An emission calls slots of its own thread and posts an event for the others.
`QThread` owns the loops and the dispatcher of its thread; `QThreadPool` starts
`QThread`s; all of them lock `QMutex`es and wait on `QWaitCondition`s, which are
atomic in the modules above them, but for `QReadWriteLock`, which is checked over
the detailed condition variable.

The hazards this code is exposed to are listed in `PROJECT.json` under "hazards",
each at its line, with the properties that would fail if it struck, or the reason
why none covers it yet.

## 2. Modules

| Module | Models | Abstract / composed with |
|---|---|---|
| `PostedEventList` | `QPostEventList`: insertion by priority, null entries, removal, as operators | used by `EventLoop` and `MoveToThread` |
| `EventLoop` | delivery in one thread, with its C++ call stack as a variable, and posting threads | refines `ThreadQueue` |
| `EventQueue` | what posting promises: an event is sent at most once and never lost, to a living receiver, and after the older ones of that receiver and priority | |
| `ThreadQueue` | what one thread promises besides: a pass sends what it has found from the highest priority to the lowest, and the oldest first | extends `EventQueue` |
| `WakeUp` | `processEvents` against `wakeUp`/`interrupt`/`exit`, one shared access a step | details `EventLoop`'s flag `wakeUps` |
| `MoveToThread` | several threads' lists and loops, objects and their timers moving between them, posters that follow | refines `EventQueue`: all lists together are one queue |
| `Connections` | connections in both objects' lists, emissions, disconnects and destructors on the stacks of several threads | |
| `AbstractMutex` | a mutex: taken when free, given up by its holder | |
| `FutexMutex` | `QMutex` over futex(2), one atomic operation or system call a step | refines `AbstractMutex` |
| `FreelistMutex` | `QMutex` over `QMutexPrivate`s, several mutexes at a time | refines `AbstractMutex`, each mutex |
| `WaitCondition` | `QWaitCondition` over a POSIX condition variable | extended by `ReadWriteLock` |
| `AbstractReadWriteLock` | readers share, a writer is alone, recursion is counted | |
| `ReadWriteLock` | `QReadWriteLock` over a mutex and two `QWaitCondition`s | refines `AbstractReadWriteLock` |
| `ThreadLifecycle` | a `QThread`, its loops, its dispatcher, and its users | |
| `ThreadPool` | a `QThreadPool`, its threads and its users | |
| `PepperTimers` | the timers of `QPepperEventDispatcher` | |
| `MC*` | the constants of the runs | |
| `*_proofs` | theorems | |

Definitions named `Something_Change` next to a `Something` (for instance
`Swap_NotAtomic`) are deliberate mistakes of the kind a patch could make there. No
specification uses them: substituted for the original they must make a named
property fail, which is how we know that the property depends on the code.

### Correspondence to the code

**EventLoop.** `stack` is the C++ stack: frames `exec` (with `exit`), `process` (with the
local `canWait` and a program counter), `send` (with the arguments and `i` of
`sendPostedEvents`) and `handler`. What the code does with the list's mutex held is
one step: one entry of the loop of `sendPostedEvents` is `SkipNull`, `SkipOther`,
`HoldDeferred` or `Deliver`; the `CleanUp` destructor and the return are `SendDone`;
`ReturnFromHandler` is the rest of `notifyInternal`, with `~QObject` for a deferred
delete and `exit` for a quit. `i` is `startOffset` itself in the pass without filter, as
in the code, where it is a reference. Other threads post in two steps, insertion
and `wakeUp()`. Timers and socket notifiers are the native event that `select()` may
report.

**WakeUp.** The loop's program counter `loopPc` walks `QEventLoop::exec`, `processEvents`,
`sendPostedEvents`, `doSelect` and `processThreadWakeUp`; each load, store or
compare-and-swap of `interrupt`, `wakeUps`, `exit`, the eventfd and the locked `canWait` is
a step, and so are those of the posters, whose place is `waker`.

**MoveToThread.** `pc` is where each thread is: in one pass of one loop, in a handler, or
in `moveToThread`, whose ThreadChange events, two locks (in address order), events,
members and unlock are a step each. `sendPostedEvents` keeps the mutex through its null
entries, so a delivery is one step from the mutex to the handler. A `holder` per list is
what `postEvent`, `sendPostedEvents` and `moveToThread` wait for. `posts` is a poster in
`postEvent`: it has loaded the thread, locks, and follows the receiver if that has moved
on. `registered` are the timers a dispatcher knows; the queued call of
`_q_reregisterTimers` is an event of type `MetaCall` and its effect is the return of its
handler. Nested loops and passes are `EventLoop`'s.

**Connections.** `lists` is the sender's vector with its flags, `head` and the fields `next`
and `prev` of a connection the receiver's list, pointer by pointer, `node` the variable
of `~QObject` that a connection's `prev` may point to. Each thread has a stack of calls;
code between a lock and an unlock is one step, `QOrderedMutexLocker` and its `relock` are
the steps `LockFirst`, `Relock`, `Lower` and `Upper`, and a slot is user code that may call
anything again. A queued call ends in the event loop and is left there. Slot objects are destroyed in
steps of their own, without the mutexes, as in the code.

**FutexMutex, FreelistMutex.** Each atomic operation is a step (a failed
compare-and-swap is joined with the load that follows). The futex's queue is the set
of threads with pc `asleep`; the freelist is a set.

**WaitCondition, ReadWriteLock.** What is done with the lock's mutex held is a step;
`wait` counts the thread, gives the mutex up, sleeps, is signalled, expires or wakes up
for no reason, and takes a wake-up or sleeps again, a step each under the condition's
private mutex. `reads` and `writes` are history: how often each thread has the lock.

**ThreadLifecycle, ThreadPool.** Each section locked by the object's mutex is a step,
`QWaitCondition::wait` splits one in two. `tryToStartMoreThreads` takes several steps under
one lock, with `more` standing for the lock. `QThread::start` may find that the system makes
no thread (`qthread_unix.cpp:612`, `639`): `running` is false again and the caller is not
told, so that the pool goes on to count a thread that will not run.

**PepperTimers.** One call of the native loop at a time; handlers' starting and killing
of timers interleaves in it. The serial counter that only grows is modelled by what
the comment in `startTimer` wants of it: a number nothing refers to any more.

## 3. What the runs check

Three kinds of properties: invariants, action properties (what a step never does),
and liveness. Bounds are constants with names and appear as guards.

| Run | Checks | Shows |
|---|---|---|
| `EventLoop_nested` | `PostedCount`, `NothingErased`, `SearchedPartSorted`, `NotDeletedUnderPoster` | one thread; handlers nest loops, `processEvents`, filtered passes and removals, and delete objects: counts, offsets and the sortedness that `upper_bound` needs survive |
| `EventLoop_threads` | `ExitHonoured`, `DeletedWhenIdle`, `EventuallySent`, `ImplementsQueue` | with a posting thread, exits and nested loops: a loop told to exit does, what is deferred is deleted, every posted event leaves the queue, none without having been sent or removed, and a pass sends what it found from the highest priority to the lowest and the oldest first |
| `WakeUp` | `OneWakeUp`, `NoLostWakeUp`, `ExitReturns` | wake-ups are neither doubled nor lost; a loop told to exit returns |
| `MoveToThread` | `EventsFollowReceiver`, `TimersFollow`, `ImplementsQueue`, `EventuallySettled` | an object with a child that uses a timer, and one that moves the other way, while a third thread posts: no event is sent in the wrong thread, nor leaves the lists but for its handler, on request or with its receiver, and those of a receiver stay in order; the two moves do not deadlock and the lists are emptied in the end |
| `Connections` | `TwoSided`, `NothingDangling`, `NotInThisEmission`, `NothingLeft`, `CallsReturn` | two threads connect, emit, disconnect and destroy, from slots too: both lists agree, no connection or list is used after it was deleted or leaks, nobody waits for ever |
| `FutexMutex` | `SleepersAreSeen`, `ImplementsMutex`, `NotForgotten` | four threads with and without timeouts |
| `FreelistMutex` | `FreeIsClean`, `RefCountIsReferences`, `NotForgotten`, `ImplementsMutex` | three threads, two mutexes, two privates: recognition of reused privates |
| `ReadWriteLock` | `NoWriterStranded`, `ImplementsLock`, `OnlyTimeoutStrandsReaders` | four threads, every kind of call, both modes, over condition variables that time out and wake up for no reason |
| `ThreadLifecycle` | `ExecReturnsCode`, `StartTakesEffect`, `ExitEndsRun` | restarts, exits and waits of two users against a thread with nested loops: a `start()` has begun a run when it returns or failed to create the thread; after `exit()` the thread ends or calls `QThread::exec` anew |
| `ThreadPool` | `CountsAgree`, `NotDeletedInUse`, `WaitedForAll`, `EventuallyRun` | expiring and restarted threads, runnables that use the pool, a thread that cannot be created, and two users, one of which waits for the pool with and without timeout and removes its threads while the other goes on calling it |
| `ThreadPool_stranded` | `NoneStranded` is **violated** | see findings |
| `PepperTimers` | `ArmedOnce`, `NoStaleEvent`, `KeepsFiring` | timers that share ids, killed and started in each other's handlers |

### Bounds, and why they are enough

- `EventLoop`: `MaxPosts` 3 events; `MaxStack` 8 frames in `EventLoop_nested`: exec, process,
  send and handler twice, so that the handler of a posted event may run a loop of its own whose
  pass sends and cleans up under the outer pass. In `EventLoop_threads` it is 7, and there a
  nested loop, which wants four frames, fits only above the handler of a native event (exec,
  process, handler); with 8 frames that run was checked once by hand (328 thousand states, over
  four minutes). Three events are what the
  offsets need: one already sent, one being sent, one to come. Two receivers and the
  application object; two priorities, since only their order matters. `Calls` says what
  handlers call in a run; `EventLoop_threads` leaves `processEvents` out, for the reason
  given under findings.
- `WakeUp`: three posters and four posts, so that one can be between compare-and-swap and
  write while two others post and exit.
- `MoveToThread`: two threads, a family of two and a single object that start in different
  threads, two posts, two moves (`MaxMoves`): opposite moves at the same time, or one there
  and back, with an event of a member in either list, and the queued call of its timer. One
  priority: orders between priorities are `EventLoop`'s, and proved here.
- `Connections`: two connections (`MaxConnections`), calls from slots (`MaxDepth` 2), two threads,
  three objects whose mutexes have addresses below and above each other's, so that every
  relock comes both ways; plain slots and functors; handles only for connections of the object
  that is alone in its thread with itself (`Breakers`, see section 5). Three
  connections were checked once by hand, safety only (4.6 million states).
- `FutexMutex`: four threads: an owner, a sleeper, one timing out, one barging in.
- `FreelistMutex`: `Privates` fewer than threads, so that they are reused at once;
  `BigNumber` = 10 stands for 10^6: all that is asked of it is to exceed the number of
  threads, which the module assumes.
- `ReadWriteLock`: four threads: one that has the lock, a reader and a writer that wait, and
  one that gives up; recursion to depth 2 (`MaxDepth`). Threads are symmetric, and no property
  of this run is about fairness.
- `ThreadLifecycle`: three runs (`MaxRuns`), two loops started by `run()` (`MaxExecs`), nesting 2
  (`MaxNested`), one failure to create a thread (`MaxFailures`);
  `Codes = {0}` because 0 is also the initial `returnCode` and so the hardest to
  tell apart is covered by the history `asked`.
- `ThreadPool`: two threads, two runnables started twice each (`MaxStarts`), one reservation
  (`MaxReserved`), limits 1 and 2, one thread that cannot be created (`MaxFailures`). Two users:
  both start, reserve, release and change limits, one of them (`Waiters`) also waits, so that
  the other may do all this while `reset()` joins the threads with the pool unlocked. Checked
  once by hand, safety only: both users waiting (3.6 million states), and three threads with one
  of them waiting (2.9 million).
- `PepperTimers`: two ids, two objects, and four serial numbers (`MaxSerial`), of which one is kept
  for the timer that fires: three callbacks outstanding, both timers armed and one cancelled
  callback still to come, or one and two. With five numbers it was checked once by hand (392
  thousand states, close to four minutes).

Deadlock is not checked where the system may rightly stop: an idle loop, a thread
nobody starts, exhausted bounds, a Pepper thread lost in `unregisterTimers`, or, in
`FreelistMutex`, all privates leaked by timed-out waits. Threads that wait for each
other are what `EventuallySettled`, `CallsReturn` and the `NotForgotten`s look for.

### Fairness

Weak fairness of what a thread does by itself once it is in the library's code: the
operating system runs runnable threads. Handlers and slots return and owners unlock,
which is asked of the user (`SF` in `EventLoop`, because nested passes disable the return
from time to time). Nothing is assumed of the environment: no thread need post, no
timer need fire, no wait need time out. In `ThreadPool` fairness is strong for the steps
of threads that wait for the pool's mutex, which `tryToStartMoreThreads` holds now and
then, and in `MoveToThread` and `Connections` for all steps inside the functions, which
wait for mutexes that others take and give up: `QMutex` lets a thread barge in, but one
that waits is woken at each unlock and gets the mutex in the end. A deadlock is not hidden
by that, since the steps it blocks are never enabled. In `PepperTimers` fairness is strong
for each posted callback, which is due but must wait for the call in progress: the native
loop is a queue.

## 4. What is proved

TLAPS, for any set of threads and any bounds.

- `QMutex_proofs`, on `FreelistMutex`: `TypeCorrect`, `ReferencesAreCounted`, `FreelistIsClean`,
  `WaitersAreNotForgotten`, `Implementation` (all mutexes together implement one
  `AbstractMutex` each) and `EachMutexImplemented`. The right to a mutex is a token that is with
  its owner, with the thread that gives it up, or in a wake-up: never two (`OneToken`), and
  none only if `d_ptr` is null (`SomeToken`). Whose a private is changes with it: a thread's
  that is about to install it (`FreshIsPrivate`), the mutex's (`InstalledOnce`), and as long as
  threads that have checked this refer to it, no other mutex's (`AttachedToMine`,
  `LinkedOrNot`, `TakenFromUnlocker`). `refCount` is the number of references held, and the
  privates with none are those in the list (`FreeIsUnreferenced`); `waiters` is the number of
  threads that have counted themselves, less `BigNumber` while one marks the private
  (`WaitersAreCounted`, `OneMarks`); and a wake-up finds a waiter, or a `possiblyUnlocked` that
  the last one left (`WakeupIsExpected`). Assumes finitely many threads, fewer than `BigNumber`.
- `ReadWriteLock_proofs`: `Implementation` (the lock implements `AbstractReadWriteLock`),
  `WritersAreServed`, `ReadersAreStrandedByTimeout`. `accessCount` is the number of readers'
  locks less that of the writer's, counted as sets (`Holds`, `Balance`), and its sign tells
  who has the lock (`Sign`); with `Exclusive` and what the recursive mode records (`Known`) that
  is `HInv`, and the refinement follows. For the sleepers `IInv` adds who holds which mutex
  (`Mutexes`), that `waiters` and the lock's own counts are the numbers of threads at the
  places they count (`Counting`), that `unlock()` wakes where somebody waits (`Addressed`), and
  that a writer blocked over a free lock has somebody at work for it (`Served`).
  Assumes that the threads are finitely many and `NoThread` is none of them.
- `PostedEventList_proofs`: lemmas about `QPostEventList::addEvent` on a list sorted behind
  `insertionOffset`: the binary search finds the end of a prefix (`AheadIsPrefix`), so that the
  searched part stays sorted and what is in front of `insertionOffset` is not touched
  (`AddEventKeeps`); an event goes behind all those of its priority (`AddEventOrder`); nulling an
  entry and dropping the part already sent keep both (`NulledEvent`, `DroppedPart`).
- `EventLoop_proofs`, for any receivers, priorities, filters, calls, nesting and numbers of
  events. `IInv` says that the list is in order with its offsets and counts (`QueueInv`:
  `GoodQueue`, `PostedCount`, and that only living receivers have events and one deferred delete
  each) and that `loopLevel`, `recursion` and the shared offset are what the frames on the stack
  make them (`StackInv`): a part to be erased is left only by a pass without filter that is still
  there. What an action does to the list and to the stack is proved apart, and then every step is
  one that posts, sends, calls the handler of a native event, or does none of these (`Step`). From
  this:
  - `CountsAreRight`, `NothingIsErased` and `SearchesSortedPart`, without further hypotheses;
  - `NoDeleteUnderPoster`: `DInv` adds that an event is in the queue or in the handlers and
    once, and that a deferred delete was posted at a level between the first and that of the
    handler that asked for it, or by an event that has left both;
  - `ExitIsHonoured`, if handlers do not call `processEvents`: `ExitInv` says that only the top
    frame is at `select()`, and that a loop told to exit has the interrupt flag set or is about
    to look. The hypothesis is needed, see section 5;
  - `QueueImplemented` (refinement of `ThreadQueue`), if a pass for one receiver or of one type is one
    for deferred deletes: other filtered passes reorder what they leave, see section 5. The order
    of the abstract queue is that of the list, what its pass has found is what the list had in
    front of `insertionOffset`, and sending takes the first of these. `OffsetInv` says that a
    removal during a pass leaves `insertionOffset` within the list, `NativeInv` that what has no
    posted event is not a deferred delete;
  - `IdleDeletes`, if handlers call neither `processEvents` nor `sendPostedEvents`: `Nested` says
    who calls whom then, and `IdleInv` that the pass under way knows of what is behind its
    `insertionOffset` unless `canWait` is false. TLC refutes `DeletedWhenIdle` without either half
    of the hypothesis, see section 5.
- `MoveToThread_proofs`: `TypeCorrect`, `EventsAreFollowing`, `TimersAreFollowing`,
  `Implementation` (all lists together implement `EventQueue`: what leaves a list is in the next
  list, with the thread that moves it, or in its handler, unless it was removed). The
  invariant `IInv` is the type;
  each list is sorted where `addEvent` searches, with what a pass has sent in front
  (`Lists`); who holds which mutex (`Places`); a family is in one thread or has been carried up to
  the current member (`Families`); a dispatcher knows timers of its own thread's objects only,
  and not those of members that are about to leave (`Registrations`); events have names of
  their own (`Names`); what has already been moved is older than what is still to be moved
  (`OldFirst`); `EventsFollowReceiver`; and the queued call that will register a running timer is
  never lost (`Registering`). The lists enter the argument only as sets of events and
  through the lemma that what is sent or moved first is the oldest of its kind
  (`EventSteps`), and the refinement needs `EventsFollowReceiver` too: a pass sends the oldest
  event of its list, and there is none for that receiver in any other (`SentIsFirst`).
  Assumes that there is an order of the mutexes, and of the families only what
  `moveToThread` insists on by refusing objects with a parent (`FamiliesAssumption`).
- `ThreadPool_proofs`, in three layers over `TypeOK`, each with an invariant of its own:
  - `RunnablesAreReferenced`, for any number of users. `RefInv`: a runnable has at least as many
    references as there are places that will run it, in the queue, given to a thread, or run by
    it (`Uses`). It cannot be equality, since `tryToStartMoreThreads` references twice.
    `enqueueTask` and `tryToStartMoreThreads` need what insertion and removal do to the number
    of occurrences in a sequence (`Inserted`, `OneMoreEntry`).
  - `WaitForDoneWaits`, for any number of users. `LoadInv`: `activeThreads` is no less than the number
    of runnables that threads run or were given, whatever a reset that interferes does to the
    lists; it is what makes `activeThreads == 0` say that everything has returned.
  - `CountsAreRight` and `AssertionHolds` (`Q_ASSERT(thread->runnable == 0)` in `tryStart`), for any
    number of users. Both hold until somebody starts a runnable, or begins a second `waitForDone()`,
    between the last check of a `waitForDone()` and the end of its `reset()`, which has the mutex
    given up in between: the history variable `disturbed` says that this has happened, and after it
    neither holds, see section 5. Other calls in that time, and any calls at any other time, do not
    matter. Until then `PoolInv` makes
    `activeThreads` the number of threads that have a runnable; `Home` says that a thread is in the
    list that its state calls for, once; `UserInv` that between the last check of `waitForDone` and
    the end of `reset()` there is nothing to do and every thread left is one that `reset()` is about
    to join, so that the lists may be wrong meanwhile.

  Assumes finitely many pool threads, of which `NoWorker` is none and `NoTask` no runnable.
- `Threads_proofs`, on what a thread runs on: its mutex, its dispatchers and its life cycle. The
  modules are independent, and extended together, so that what one of them defines has a
  name that no other uses.
  - `FutexMutex`: `FutexTypeCorrect`, `FutexExclusion`, `FutexValueCorrect`, `FutexNoLostWakeUp` and
    `FutexImplementation` (the futex mutex implements `AbstractMutex`). The invariant `FutexInv` is
    the conjunction of the type, `ValueIsOwnership`, `MutualExclusion` and `SleepersAreSeen`; the
    first three carry each other, since the swap takes the mutex exactly when it reads 0, and the
    last one needs them to know that 3 is still there. For the refinement the holder is the
    one owner (`FutexHolderIsOwner`), and a step either leaves the owners alone or adds or
    removes one. Uses no assumption about the constants.
  - `WakeUp`: `UnixTypeCorrect`, `SingleWakeUp`, `ErrorBranchIsDead`, `NoWakeUpIsLost`. Besides
    the type and `OneWakeUp` the invariant says that a test out of date is followed by a
    wake-up: between `clear` and `select`, whatever another thread has announced since the loop
    looked is either still visible to the tests to come, or on its way to the eventfd
    (`Drained`, `Announced`, `Readable`).
  - `PepperTimers`: `OneCallbackEach` and `CallbacksAreNotMistaken`. The invariant says that what
    the tables say of a serial is true of its callback (`Meant`), that they know every callback
    whose timer was not killed (`Known`), that a registered timer has a serial of its own
    (`Armed`), and that a serial is left for the timer that fires (`SerialLeft`, which needs the
    cardinality in `RegisterTimer`'s guard). Assumes that `NoId` and `NoObject` are no id and no
    object and that `MaxSerial` is positive.
  - `ThreadLifecycle`: `NeverTwoThreads`, `WaitersAreReleased`, `StartIsNotLost`,
    `LoopsRunOnTheirDispatcher`, `ExitBarsLoops`, `ExecReturnsWhatWasAsked`. The invariant ties the
    flags to the phase of the thread's code (`Phase`), records what a waiting `start()` may rely
    on, which may also end in a failure to create the thread (`Starting`),
    and that `quitNow` keeps loops out after `exit()` (`Barred`); a second one
    (`LInv`) ties the stack of loops to the program counter (`Nesting`) and the dispatcher to
    the run (`Equipped`); and a third (`Coded`) that a return code on its way, in `returnCode`,
    in a loop or behind it, is one that `exit()` was given in this run.
- `Connections_proofs`, for any finite set of threads, any objects, mutexes and nesting. The
  invariant is in two parts.
  - `CallInv` is inductive alone (`TypeCorrect`, `CallsInvariant`, `NewOnesLater`). A call below the
    top of its stack is an emission at a slot (`Suspended`); each call has the mutexes that its
    place calls for (`MutexOK`), and what it keeps is still good where it needs it (`FramesOK`):
    an emission stays between the first and last connection of the list, as long as
    its sender is there, and a disconnect or a destructor is at an element of the list. A list is in the
    order of connection and `inUse` is the number of calls that walk it (`ListsOK`), which is why
    nobody cleans it meanwhile and the last one out deletes it if it is orphaned.
  - `ConnInv` says that the list of a receiver is what `head`, `next` and `prev` make of the
    connections that lead to it, while `~QObject` has taken it over into its local `node` and
    moves that on (`ReceiverListsOK`); that who waits for a receiver's mutex finds the connection
    with that receiver or with none (`PeersOK`); and that `ref` is the number of references
    held: by the sender's list or the call that will drop its reference, and by a handle or
    the call that uses it up (`RefsOK`).
    From both follow `BothSides`, `NoDanglingConnections` and `NoConnectionsLeft`.

  The last three and `ConnectionsInvariant` have the hypothesis `OwnHandles`, which the run
  satisfies: a thread breaks by handle only connections between objects of its own. It is
  needed, see section 5 (`qobject.cpp:4656`). `NewOnesLater` does not need it.

Model-checked only: all liveness properties, since fairness and ENABLED are out of the
prover's reach (`ExitReturns`, `EventuallySent`, `EventuallySettled`, `CallsReturn`, `NotForgotten` of `FutexMutex`,
`ExitEndsRun`, `EventuallyRun`, `KeepsFiring`); and `NoneStranded`, which does not hold. Every
invariant and every refinement of a passing run is a theorem, some with a hypothesis
named above. No module has RECURSIVE operators.

## 5. Findings

One run shows the code doing other than its documentation says.

- `ThreadPool_stranded`: `tryStart` gives an expired thread a runnable and calls
  `QThread::start()` (`qthreadpool.cpp:187`), which does nothing while the thread is between the
  end of `run()` and `finish()`. The runnable stays there.

Observed while modelling, without a run of its own; where the documentation says otherwise it
is quoted:

- `processEvents` resets `interrupt` on entry (`qeventdispatcher_unix.cpp:577`). A handler that
  calls `QEventLoop::exit()` and then `processEvents()` leaves the outer `processEvents` asleep,
  although "after this function has been called, the event loop returns from the call to
  exec()" (`qeventloop.cpp:243`). With `"processEvents"` added to its `Calls`,
  `EventLoop_threads` violates `ExitHonoured`.
- A handler that calls `deleteLater()` and then `processEvents()` or `sendPostedEvents()` may leave
  the object undeleted while the thread sleeps. The nested pass sets `canWait`
  (`qcoreapplication.cpp:1434`) and can only post the deferred delete again, which does not clear
  `canWait` (lines 1501-1519); the `processEvents` below the handler trusts it
  (`qeventdispatcher_unix.cpp:584`) and sleeps over an event that it could send now, although
  "the object will be deleted when control returns to the event loop" (`qobject.cpp:2102`). With
  `"processEvents"` added to `Calls`, or `FilterAll` for `Filters`, `EventLoop_threads` violates
  `DeletedWhenIdle`.
- A `tryLockForWrite` that times out may take the wake-up of `unlock()` with it and wakes
  nobody (`qreadwritelock.cpp:381`): readers that made way for it sleep on until the next
  unlock. `ReadWriteLock` states it as `NoReaderStranded`, which does not hold;
  `OnlyTimeoutStrandsReaders` says that this is the only way.
- A timer killed in its new thread before the queued `_q_reregisterTimers` was handled comes
  back when it is (`qobject.cpp:1258`, `1566`), although "a timer event will occur every
  interval milliseconds until killTimer() is called" (`qobject.cpp:1579`): `KilledStaysKilled` of
  `MoveToThread` does not hold.
- `QObject::disconnect(const QMetaObject::Connection &)` looks whether the connection is there
  before it has the mutexes and not again (`qobject.cpp:4656`; the documentation: "If the
  connection is invalid or has already been disconnected, do nothing and return false.",
  `qobject.cpp:4648`). When another thread disconnects it or destroys one of its ends in between, it is
  unlinked a second time: with `Breakers` = `{<<t1, o1, o2>>, <<t2, o1, o2>>}` the `Connections` run
  violates `TwoSided` by a call that races a disconnect, and `NothingDangling` by one that races a
  destructor. The model keeps one handle of a connection, used once; copies of it are not modelled.
  This overload is not documented as thread-safe.
- A deferred delete that moves keeps the loop level of the thread it was posted in, and
  `removePostedEvents` looks at one thread's list only, the one the receiver is in when it begins.
- `QThread::exec` clears `exited` after its loop is gone; an `exit()` in between is forgotten
  (`qthread.cpp:509`), and a second `exec()` runs on, although "if the eventloop in QThread::exec() is not
  running then the next call to QThread::exec() will also return immediately"
  (`qthread.cpp:530`). `ExitEndsRun` says nothing of that second `exec()`. `exec` may also return -1
  when `exit` comes between its locked section and that of `QEventLoop::exec`, although it returns
  "the value that was passed to exit()" (`qthread.cpp:484`); `ExecReturnsCode` admits it.
- `wait()` waits for the next run as well, if the thread is restarted before it is
  rescheduled (`qthread_unix.cpp:678`).
- Passes with a filter reorder the list: an event deferred or posted meanwhile is put in
  order only behind `insertionOffset`. `ImplementsQueue` is checked without filters.
- "Events are sorted in descending priority order" (`qcoreapplication.cpp:1270`) is true of what a pass
  finds. Events posted while it runs line up behind those, whatever their priority, since
  `addEvent` searches from `insertionOffset`. And `insertionOffset` stays when the pass is over: if
  `removePostedEvents` then closes the list up (`qcoreapplication.cpp:1602`), the next events that are
  posted, until a pass begins, come to lie in front of it and are appended without regard to
  their priority. `ThreadQueue` has both, as `due` and `late`.
- `QMutexPrivate`s leak when waits time out (`qmutex.cpp:511`): `possiblyUnlocked` keeps a
  reference until the mutex is used again.
- `postEvent` loads the dispatcher after it has unlocked the list (`qcoreapplication.cpp:1338`)
  and may call a dispatcher that `QThreadPrivate::finish` is deleting.
- A `QThreadPool` (documented as thread-safe, `qthreadpool.cpp:355`) that is used while another
  thread is in `waitForDone()` has its lists upset. `reset()` unlocks while it joins the threads
  it has taken out of `allThreads` (line 262) and clears `expiredThreads` only at its end, so that
  another thread's `start()` may meanwhile find a deleted thread there. A second `reset()` finds
  `allThreads` empty, clears `waitingThreads` and ends `isExiting`, and a thread woken by the first one
  does not take itself for expired and waits again. A `start()` between the check in
  `waitForDone` and `reset()` may give a runnable to an expired thread that `reset()` then deletes,
  and `activeThreads` stays 1 for ever. `CountsAgree`, `ExpiredHaveNone` of `ThreadPool_proofs` and
  `EventuallyRun` are stated up to that (`disturbed`): without the exception the `ThreadPool` run
  violates `CountsAgree`. `NotDeletedInUse` and `WaitedForAll` hold with it too, and are proved so.
- `QThread::start` reports no failure to create the thread. `QThreadPool` then has a runnable in a
  thread that never runs, counted in `activeThreads`, and `waitForDone()` does not return.
- `tryToStartMoreThreads` references a queued runnable a second time (`qthreadpool.cpp:225`), so
  that it is never deleted, although "the runnable will be deleted automatically by the thread pool
  after the QRunnable::run() returns" (`qthreadpool.cpp:434`; line 375 says the same); it also
  loses its place when no thread can take it.
- `QPepperEventDispatcher::unregisterTimers` does not advance its iterator (line 111): it does
  not return for an object that has timers. `processEvents` there repeats while anything is
  in the queue (line 58), deferred deletes that cannot be sent yet included.

## 6. What is not modelled

Within the modules: `awake()`/`aboutToBlock()` signals, exceptions in handlers and runnables,
the quit lock reference count, `removePostedEvent`, the time-limited `processEvents`,
`QThread::terminate`, priorities, timed `QThread::wait`, adopted threads, the pipe used without
eventfd, the lock-free `QFreeList` (a set), runnables without `autoDelete`, `stealRunnable`;
`QWaitCondition::wait(QReadWriteLock *)`; `moveToThread` to no thread or in a thread that has
ended, and `currentSender`; unique and blocking queued connections, connections to all
signals, disconnection of one slot, `connectNotify`, `disconnectNotify` and the `destroyed`
signal, user code in the destructors of functors. The lifetime of slot objects themselves, which
have a reference count of their own, is no part of any property: `NothingDangling` is about
connections and lists. `sendPostedEvents` increments `recursion` just before it locks the list
(`qcoreapplication.cpp:1420`), in the model with it.
Memory is sequentially consistent: the acquire/release annotations are not checked.
Components left out altogether are listed with reasons in `PROJECT.json`. The modules cover
a small part of the repository's lines: most of qtbase is sequential code over data, or
drives window systems, networks and databases that would have to be modelled with it.

## 7. Plan

Done: the modules above, in the order `FutexMutex`, `FreelistMutex`, `EventLoop`, `WakeUp`,
`ThreadLifecycle`, `ThreadPool`, `PepperTimers`, `ReadWriteLock`, `MoveToThread`, `Connections`;
proofs of all of them and of the posted event list.

Next modules:

1. `PepperThreadLoop` (`qcorepeppereventdispatcher.cpp`): exec and exit over a native loop
   whose quit requests are remembered; and `PepperDispatch`, `EventLoop` under the Pepper
   dispatcher's `processEvents`.
2. `UnixTimers`: `activateTimers` with nested loops and killed timers.
3. `QSemaphore` and recursive mutexes over `WaitCondition`.

Next theorems: what remains true of `Connections` without `OwnHandles` once
`QObject::disconnect(QMetaObject::Connection)` looks again under the mutexes, and of `ThreadPool`
after it was used during a `reset()`.

Runs stay below five minutes each, with two or three actors each where liveness is
checked.
