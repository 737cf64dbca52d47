----------------------------- MODULE FutexMutex -----------------------------
(***************************************************************************)
(* The non-recursive QMutex of Linux builds: the inline fast path of       *)
(* QBasicMutex (qmutex.h) and lockInternal / unlockInternal over futex(2)  *)
(* (qmutex_linux.cpp).  Every atomic operation on d_ptr and every system   *)
(* call is a step.                                                         *)
(*                                                                         *)
(* lockPc of a thread:                                                     *)
(*   idle      does not hold the mutex and is in none of its functions;    *)
(*   swap      about to do fetchAndStoreAcquire(3) in lockInternal_helper; *)
(*   wait      about to enter FUTEX_WAIT;                                  *)
(*   asleep    in the futex's wait queue;                                  *)
(*   holds     lock() or tryLock() has returned true;                      *)
(*   store     in unlockInternal, about to store 0;                        *)
(*   wake      about to do FUTEX_WAKE.                                     *)
(* The kernel checks the value and queues the thread in one step.          *)
(***************************************************************************)
EXTENDS Integers

CONSTANTS Threads, NoThread

ASSUME NoThreadAssumption == NoThread \notin Threads

VARIABLES
    d,          \* d_ptr: 0 unlocked, 1 locked, 3 locked with waiters
    lockPc,
    timeout     \* what is left of a thread's timeout

futexVars == <<d, lockPc, timeout>>

\* No timeout; a positive timeout not yet running; running in FUTEX_WAIT.
Timeouts == {"forever", "fresh", "running"}
PCs == {"idle", "swap", "wait", "asleep", "holds", "store", "wake"}

LockGoTo(t, l) == lockPc' = [lockPc EXCEPT ![t] = l]

\* fastTryLock succeeds, whichever function calls it.
FastTryLock(t) ==
    /\ lockPc[t] = "idle" /\ d = 0
    /\ d' = 1
    /\ LockGoTo(t, "holds")
    /\ UNCHANGED timeout

\* fastTryLock fails: lock() and tryLock(timeout > 0) go on in lockInternal;
\* tryLock(0) returns false at once, which changes nothing.
LockInternal(t, limit) ==
    /\ lockPc[t] = "idle" /\ d # 0
    /\ timeout' = [timeout EXCEPT ![t] = limit]
    /\ LockGoTo(t, "swap")
    /\ UNCHANGED d

\* Mutant: the waiter takes the mutex as if there were no other waiters.
Swap_NoWaiters(t) ==
    /\ lockPc[t] = "swap"
    /\ IF d = 0
       THEN d' = 1 /\ LockGoTo(t, "holds")
       ELSE d' = 3 /\ LockGoTo(t, "wait")
    /\ UNCHANGED timeout

\* Mutant: a load where the fetch-and-store is.
Swap_NotAtomic(t) ==
    /\ lockPc[t] = "swap"
    /\ LockGoTo(t, IF d # 3 THEN "holds" ELSE "wait")
    /\ d' = 3
    /\ UNCHANGED timeout

\* while (d_ptr.fetchAndStoreAcquire(3) != 0) ...: in a later round of a
\* timed lock the time may be over.
Swap(t) ==
    /\ lockPc[t] = "swap"
    /\ d' = 3
    /\ \/ d = 0 /\ LockGoTo(t, "holds")
       \/ d # 0 /\ LockGoTo(t, "wait")
       \/ d # 0 /\ timeout[t] = "running" /\ LockGoTo(t, "idle")
    /\ UNCHANGED timeout

\* Mutant: the kernel is not given the value to compare with.
FutexWait_Unchecked(t) ==
    /\ lockPc[t] = "wait"
    /\ timeout' = [timeout EXCEPT ![t] = IF @ = "fresh" THEN "running" ELSE @]
    /\ LockGoTo(t, "asleep")
    /\ UNCHANGED d

\* FUTEX_WAIT: EWOULDBLOCK unless the value is still 3.
FutexWait(t) ==
    /\ lockPc[t] = "wait"
    /\ timeout' = [timeout EXCEPT ![t] = IF @ = "fresh" THEN "running" ELSE @]
    /\ LockGoTo(t, IF d = 3 THEN "asleep" ELSE "swap")
    /\ UNCHANGED d

\* A signal interrupts the system call.
Interrupted(t) ==
    /\ lockPc[t] = "asleep"
    /\ LockGoTo(t, "swap")
    /\ UNCHANGED <<d, timeout>>

\* ETIMEDOUT: tryLock returns false.
TimedOut(t) ==
    /\ lockPc[t] = "asleep" /\ timeout[t] = "running"
    /\ LockGoTo(t, "idle")
    /\ UNCHANGED <<d, timeout>>

\* fastTryUnlock, and unlockInternal if it fails.
Unlock(t) ==
    /\ lockPc[t] = "holds"
    /\ IF d = 1
       THEN d' = 0 /\ LockGoTo(t, "idle")
       ELSE UNCHANGED d /\ LockGoTo(t, "store")
    /\ UNCHANGED timeout

StoreUnlocked(t) ==
    /\ lockPc[t] = "store"
    /\ d' = 0
    /\ LockGoTo(t, "wake")
    /\ UNCHANGED timeout

Asleep == {t \in Threads : lockPc[t] = "asleep"}

\* FUTEX_WAKE of one thread, if any sleeps.
FutexWake(t) ==
    /\ lockPc[t] = "wake"
    /\ IF Asleep = {}
       THEN LockGoTo(t, "idle")
       ELSE \E u \in Asleep :
                lockPc' = [lockPc EXCEPT ![t] = "idle", ![u] = "swap"]
    /\ UNCHANGED <<d, timeout>>

FutexInit ==
    /\ d = 0
    /\ lockPc = [t \in Threads |-> "idle"]
    /\ timeout = [t \in Threads |-> "forever"]

\* What a thread does in the mutex's functions once it has entered them.
Step(t) == Swap(t) \/ FutexWait(t) \/ StoreUnlocked(t) \/ FutexWake(t)

FutexNext == \E t \in Threads :
            \/ FastTryLock(t)
            \/ \E limit \in {"forever", "fresh"} : LockInternal(t, limit)
            \/ Step(t) \/ Interrupted(t) \/ TimedOut(t) \/ Unlock(t)

FutexSpec == FutexInit /\ [][FutexNext]_futexVars

\* Threads go on in the mutex's functions, and holders unlock.
FutexLiveSpec ==
    /\ FutexSpec
    /\ \A t \in Threads : WF_futexVars(Step(t)) /\ WF_futexVars(Unlock(t))

-----------------------------------------------------------------------------
\* Properties.

TypeOK ==
    /\ d \in {0, 1, 3}
    /\ lockPc \in [Threads -> PCs]
    /\ timeout \in [Threads -> Timeouts]

Owners == {t \in Threads : lockPc[t] \in {"holds", "store"}}

\* The value is 0 exactly while no thread owns the mutex, and what
\* unlockInternal asserts: the value it finds is that of a mutex with waiters.
ValueIsOwnership ==
    /\ d # 0 <=> Owners # {}
    /\ \A t \in Threads : lockPc[t] = "store" => d = 3

\* "Only one thread can access it at a time."
MutualExclusion == \A t, u \in Owners : t = u

\* A thread sleeps in the kernel only while somebody will see that it does:
\* the owner, by the value 3, or a thread that is about to wake one up or to
\* set the value again.
SleepersAreSeen ==
    Asleep # {} => d = 3 \/ \E t \in Threads : lockPc[t] \in {"wake", "swap"}

\* The mutex does what the abstract one does.
Holder == IF Owners = {} THEN NoThread ELSE CHOOSE t \in Threads : t \in Owners
Mutex == INSTANCE AbstractMutex WITH holder <- Holder
ImplementsMutex == Mutex!Spec

\* A thread that waits leaves lockInternal, unless the others take the mutex
\* again and again.
NotForgotten ==
    \A t \in Threads :
        (/\ lockPc[t] = "asleep"
         /\ [](\A u \in Threads \ {t} : lockPc[u] # "holds"))
            ~> lockPc[t] # "asleep"
=============================================================================
