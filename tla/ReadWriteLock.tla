--------------------------- MODULE ReadWriteLock ---------------------------
(***************************************************************************)
(* QReadWriteLock (qreadwritelock.cpp) over a QMutex and two               *)
(* QWaitConditions, readerWait and writerWait, here the conditions "read"  *)
(* and "write".  What is done with the mutex held, from locking it or from *)
(* waking up to the next wait or to the return, is one step; the wake-up   *)
(* at the end of unlock() is another, since it needs the condition's       *)
(* private mutex.                                                          *)
(***************************************************************************)
EXTENDS WaitCondition

CONSTANTS
    Limits,     \* the calls made: "forever" lockForX() and tryLockForX(-1),
                \* "timed" tryLockForX(timeout), "try" tryLockForX()
    MaxDepth    \* bound on how often a thread takes the lock again

Modes == {"read", "write"}

ASSUME ReadWriteLockAssumption ==
    /\ Conditions = Modes
    /\ Limits \subseteq {"forever", "timed", "try"}
    /\ MaxDepth \in Nat \ {0}

VARIABLES
    recursive,      \* fields of QReadWriteLockPrivate
    accessCount,
    waiting,        \* waitingReaders and waitingWriters
    currentWriter,
    currentReaders, \* the value for each thread, 0 when it has no entry
    reads, writes   \* how often each thread has locked and not unlocked

lockVars == <<recursive, accessCount, currentWriter, currentReaders, reads, writes>>
vars == <<waitVars, lockVars, waiting>>

\* What the documentation allows a thread to do: lock again in recursive mode
\* only, and not for read while it holds the lock for write or vice versa.
MayLock(t, mode) ==
    /\ pc[t] = "idle"
    /\ reads[t] + writes[t] < IF recursive THEN MaxDepth ELSE 1
    /\ IF mode = "read" THEN writes[t] = 0 ELSE reads[t] = 0

\* The lock is taken again by a thread that has it.
Again(t, mode) ==
    recursive /\ IF mode = "read" THEN currentReaders[t] > 0
                                  ELSE currentWriter = t

Admits(mode) ==
    IF mode = "read" THEN accessCount >= 0 /\ waiting["write"] = 0
                     ELSE accessCount = 0

\* tryLockForRead() does not make way for waiting writers.
AdmitsTry(mode) == IF mode = "read" THEN accessCount >= 0 ELSE accessCount = 0

Take(t, mode) ==
    /\ IF mode = "read"
       THEN /\ accessCount' = accessCount + 1
            /\ currentReaders' = IF recursive
                                 THEN [currentReaders EXCEPT ![t] = @ + 1]
                                 ELSE currentReaders
            /\ reads' = [reads EXCEPT ![t] = @ + 1]
            /\ UNCHANGED <<currentWriter, writes>>
       ELSE /\ accessCount' = accessCount - 1
            /\ currentWriter' = IF recursive THEN t ELSE currentWriter
            /\ writes' = [writes EXCEPT ![t] = @ + 1]
            /\ UNCHANGED <<currentReaders, reads>>
    /\ UNCHANGED recursive

\* ++waitingX and the call of wait().
Await(t, mode, limited) ==
    /\ mutex' = t
    /\ on' = [on EXCEPT ![t] = mode]
    /\ timed' = [timed EXCEPT ![t] = limited]
    /\ GoTo(t, "enter")

\* lockForRead, lockForWrite, tryLockForRead and tryLockForWrite; a call
\* without timeout that fails changes nothing.
Lock(t, mode, limit) ==
    /\ MutexFree /\ MayLock(t, mode)
    /\ \/ /\ \/ Again(t, mode)
             \/ limit # "try" /\ Admits(mode)
             \/ limit = "try" /\ AdmitsTry(mode)
          /\ Take(t, mode)
          /\ UNCHANGED <<waitVars, waiting>>
       \/ /\ limit # "try" /\ ~Again(t, mode) /\ ~Admits(mode)
          /\ Await(t, mode, limit = "timed")
          /\ waiting' = [waiting EXCEPT ![mode] = @ + 1]
          /\ UNCHANGED <<conditionVars, lockVars>>

\* Mutant: a wait that succeeded is taken for the lock.
Retry_NoTest(t) ==
    LET mode == on[t] IN
    /\ pc[t] = "woken" /\ MutexFree
    /\ Take(t, mode)
    /\ GoTo(t, "idle") /\ Leave(t)
    /\ waiting' = [waiting EXCEPT ![mode] = @ - 1]
    /\ UNCHANGED <<mutex, conditionVars>>

\* wait() has returned true: --waitingX, and the loop's condition again.
Retry(t) ==
    LET mode == on[t] IN
    /\ pc[t] = "woken" /\ MutexFree
    /\ \/ /\ Admits(mode)
          /\ Take(t, mode)
          /\ GoTo(t, "idle") /\ Leave(t)
          /\ waiting' = [waiting EXCEPT ![mode] = @ - 1]
          /\ UNCHANGED <<mutex, conditionVars>>
       \/ /\ ~Admits(mode)
          /\ Await(t, mode, timed[t])
          /\ UNCHANGED <<conditionVars, lockVars, waiting>>

\* Mutant: the waiter that gives up stays counted.
GiveUp_StaysCounted(t) ==
    /\ pc[t] = "timedOut" /\ MutexFree
    /\ GoTo(t, "idle") /\ Leave(t)
    /\ UNCHANGED <<mutex, conditionVars, lockVars, waiting>>

\* wait() has returned false: --waitingX, return false.
GiveUp(t) ==
    /\ pc[t] = "timedOut" /\ MutexFree
    /\ GoTo(t, "idle") /\ Leave(t)
    /\ waiting' = [waiting EXCEPT ![on[t]] = @ - 1]
    /\ UNCHANGED <<mutex, conditionVars, lockVars>>

\* unlock(): the last one out has somebody woken, a writer first.
ReleaseOnce(t) ==
    /\ IF accessCount > 0
       THEN /\ accessCount' = accessCount - 1
            /\ currentReaders' = IF recursive
                                 THEN [currentReaders EXCEPT ![t] = @ - 1]
                                 ELSE currentReaders
            /\ reads' = [reads EXCEPT ![t] = @ - 1]
            /\ UNCHANGED <<currentWriter, writes>>
       ELSE /\ accessCount' = accessCount + 1
            /\ currentWriter' = IF accessCount = -1 THEN NoThread
                                                    ELSE currentWriter
            /\ writes' = [writes EXCEPT ![t] = @ - 1]
            /\ UNCHANGED <<currentReaders, reads>>
    /\ UNCHANGED recursive

\* Whom unlock() has to wake.
Unlocked ==
    IF accessCount' # 0 THEN {}
    ELSE IF waiting["write"] > 0 THEN {"write"}
    ELSE {mode \in {"read"} : waiting[mode] > 0}

Unlock(t) ==
    /\ pc[t] = "idle" /\ reads[t] + writes[t] > 0 /\ MutexFree
    /\ ReleaseOnce(t)
    /\ IF Unlocked = {}
       THEN UNCHANGED <<pc, on, mutex>>
       ELSE /\ mutex' = t
            /\ on' = [on EXCEPT ![t] = CHOOSE mode \in Unlocked : TRUE]
            /\ GoTo(t, "wake")
    /\ UNCHANGED <<timed, conditionVars, waiting>>

Wake(t) ==
    /\ pc[t] = "wake"
    /\ IF on[t] = "write" THEN WakeOne(t) ELSE WakeAll(t)
    /\ Leave(t)
    /\ mutex' = NoThread
    /\ UNCHANGED <<inner, waiters, lockVars, waiting>>

Waiting(t) == (WaitStep(t) \/ WaitEvent(t)) /\ UNCHANGED <<lockVars, waiting>>

Init ==
    /\ WaitInit
    /\ recursive \in BOOLEAN
    /\ accessCount = 0
    /\ waiting = [mode \in Modes |-> 0]
    /\ currentWriter = NoThread
    /\ currentReaders = [t \in Threads |-> 0]
    /\ reads = [t \in Threads |-> 0]
    /\ writes = [t \in Threads |-> 0]

\* What a thread does inside the lock's functions.
Step(t) == Retry(t) \/ GiveUp(t) \/ Wake(t)

Next == \E t \in Threads :
            \/ \E mode \in Modes, limit \in Limits : Lock(t, mode, limit)
            \/ Unlock(t) \/ Step(t) \/ Waiting(t)

Spec == Init /\ [][Next]_vars

-----------------------------------------------------------------------------
\* Properties.

TypeOK ==
    /\ pc \in [Threads -> {"idle", "enter", "release", "sleep", "asleep",
                           "signalled", "expired", "woken", "timedOut", "wake"}]
    /\ on \in [Threads -> Modes] /\ timed \in [Threads -> BOOLEAN]
    /\ mutex \in Threads \cup {NoThread}
    /\ inner \in [Modes -> Threads \cup {NoThread}]
    /\ waiters \in [Modes -> Nat] /\ wakeups \in [Modes -> Nat]
    /\ recursive \in BOOLEAN /\ accessCount \in Int
    /\ waiting \in [Modes -> Nat]
    /\ currentWriter \in Threads \cup {NoThread}
    /\ currentReaders \in [Threads -> Nat]
    /\ reads \in [Threads -> Nat] /\ writes \in [Threads -> Nat]

\* The lock does what the abstract one does: readers share it, a writer has it
\* alone, and recursion is counted.
Lock_ == INSTANCE AbstractReadWriteLock
ImplementsLock == Lock_!Spec

\* A thread that will look at the lock again, or have somebody woken: it has
\* been signalled and finds a wake-up, has left the condition, or is in
\* unlock().  A writer whose time is over still counts as one.
Coming(t) ==
    \/ pc[t] \in {"wake", "woken"}
    \/ pc[t] = "signalled" /\ wakeups[on[t]] > 0
    \/ pc[t] \in {"expired", "timedOut"} /\ on[t] = "write"

\* Threads sleep, or are about to, for a lock that nobody has, and no thread
\* comes that could change that.
Stranded(mode) ==
    /\ accessCount = 0
    /\ \A t \in Threads : ~Coming(t)
    /\ \E t \in Threads :
           on[t] = mode /\ pc[t] \in {"enter", "release", "sleep", "asleep", "signalled"}

\* A writer never sleeps over a free lock, whatever timeouts, spurious wake-ups
\* and threads that take the lock ahead of it do to the wake-up meant for it.
NoWriterStranded == ~Stranded("write")

\* The same of readers, which the code does not keep: see the next property.
NoReaderStranded == ~Stranded("read")

\* Readers are left asleep over a free lock in one way only: unlock() woke a
\* writer that had just timed out, and the writer gives up without waking them.
OnlyTimeoutStrandsReaders ==
    [][Stranded("read")' /\ ~Stranded("read") =>
        \E t \in Threads : on[t] = "write" /\ pc[t] = "timedOut" /\ pc'[t] = "idle"
      ]_vars
=============================================================================
