--------------------------- MODULE WaitCondition ---------------------------
(***************************************************************************)
(* QWaitCondition over a POSIX condition variable (qwaitcondition_unix.cpp)*)
(* as used by threads that share one QMutex and several conditions.  The   *)
(* module that EXTENDS this one says when threads wait and wake; they do   *)
(* both with the QMutex held.                                              *)
(*                                                                         *)
(* pc of a thread:                                                         *)
(*   idle       not in wait(), wakeOne() or wakeAll();                     *)
(*   enter      in wait(), about to lock the private mutex;                *)
(*   release    has counted itself, about to unlock the QMutex;            *)
(*   sleep      about to call pthread_cond_wait;                           *)
(*   asleep     in pthread_cond_wait, the private mutex given up;          *)
(*   signalled  pthread_cond_wait returns 0 once the private mutex is had; *)
(*   expired    it returns ETIMEDOUT once the private mutex is had;        *)
(*   woken, timedOut  about to lock the QMutex and return true or false;   *)
(*   wake       about to call wakeOne() or wakeAll().                      *)
(***************************************************************************)
EXTENDS Integers, FiniteSets

CONSTANTS Threads, Conditions, NoThread

ASSUME ThreadsAssumption == IsFiniteSet(Threads) /\ NoThread \notin Threads

VARIABLES
    pc,
    on,         \* the condition a thread waits on or wakes
    timed,      \* the thread waits with a timeout
    mutex,      \* who holds the QMutex
    inner,      \* who holds QWaitConditionPrivate::mutex, per condition
    waiters,    \* QWaitConditionPrivate::waiters
    wakeups     \* QWaitConditionPrivate::wakeups

conditionVars == <<inner, waiters, wakeups>>
waitVars == <<pc, on, timed, mutex, conditionVars>>

GoTo(t, l) == pc' = [pc EXCEPT ![t] = l]

\* A thread that leaves these functions waits on nothing (reset so that equal
\* states are equal).
NoCondition == CHOOSE c \in Conditions : TRUE
Leave(t) ==
    /\ on' = [on EXCEPT ![t] = NoCondition]
    /\ timed' = [timed EXCEPT ![t] = FALSE]

Asleep(c) == {t \in Threads : pc[t] = "asleep" /\ on[t] = c}

\* mutex->lock() by a thread that does not hold it: possible.
MutexFree == mutex = NoThread

-----------------------------------------------------------------------------
\* wait().

Enter(t) ==
    /\ pc[t] = "enter" /\ inner[on[t]] = NoThread
    /\ inner' = [inner EXCEPT ![on[t]] = t]
    /\ waiters' = [waiters EXCEPT ![on[t]] = @ + 1]
    /\ GoTo(t, "release")
    /\ UNCHANGED <<on, timed, mutex, wakeups>>

Release(t) ==
    /\ pc[t] = "release"
    /\ mutex' = NoThread
    /\ GoTo(t, "sleep")
    /\ UNCHANGED <<on, timed, conditionVars>>

Sleep(t) ==
    /\ pc[t] = "sleep"
    /\ inner' = [inner EXCEPT ![on[t]] = NoThread]
    /\ GoTo(t, "asleep")
    /\ UNCHANGED <<on, timed, mutex, waiters, wakeups>>

\* The time is over; or pthread_cond_wait returns for no reason, as POSIX lets
\* it.
Expire(t) ==
    /\ pc[t] = "asleep" /\ timed[t]
    /\ GoTo(t, "expired")
    /\ UNCHANGED <<on, timed, mutex, conditionVars>>

Spurious(t) ==
    /\ pc[t] = "asleep"
    /\ GoTo(t, "signalled")
    /\ UNCHANGED <<on, timed, mutex, conditionVars>>

\* Mutant: a wait that timed out uses up a wake-up.
Resume_Consumes(t) ==
    /\ pc[t] \in {"signalled", "expired"} /\ inner[on[t]] = NoThread
    /\ IF pc[t] = "signalled" /\ wakeups[on[t]] = 0
       THEN GoTo(t, "asleep") /\ UNCHANGED <<waiters, wakeups>>
       ELSE /\ waiters' = [waiters EXCEPT ![on[t]] = @ - 1]
            /\ wakeups' = [wakeups EXCEPT ![on[t]] = IF @ > 0 THEN @ - 1 ELSE 0]
            /\ GoTo(t, IF pc[t] = "signalled" THEN "woken" ELSE "timedOut")
    /\ UNCHANGED <<on, timed, mutex, inner>>

\* The loop of QWaitConditionPrivate::wait: without a wake-up to take the
\* thread sleeps again.
Resume(t) ==
    /\ pc[t] \in {"signalled", "expired"} /\ inner[on[t]] = NoThread
    /\ IF pc[t] = "signalled" /\ wakeups[on[t]] = 0
       THEN GoTo(t, "asleep") /\ UNCHANGED <<waiters, wakeups>>
       ELSE /\ waiters' = [waiters EXCEPT ![on[t]] = @ - 1]
            /\ IF pc[t] = "signalled"
               THEN /\ wakeups' = [wakeups EXCEPT ![on[t]] = @ - 1]
                    /\ GoTo(t, "woken")
               ELSE UNCHANGED wakeups /\ GoTo(t, "timedOut")
    /\ UNCHANGED <<on, timed, mutex, inner>>

\* A thread in wait() goes on by itself; the operating system does the rest.
WaitStep(t) == Enter(t) \/ Release(t) \/ Sleep(t) \/ Resume(t)
WaitEvent(t) == Expire(t) \/ Spurious(t)

-----------------------------------------------------------------------------
\* wakeOne() and wakeAll() by t, which gives up the QMutex afterwards.

LesserOf(m, n) == IF m < n THEN m ELSE n

WakeOne(t) ==
    LET c == on[t] IN
    /\ inner[c] = NoThread
    /\ wakeups' = [wakeups EXCEPT ![c] = LesserOf(@ + 1, waiters[c])]
    /\ IF Asleep(c) = {}
       THEN GoTo(t, "idle")
       ELSE \E u \in Asleep(c) :
                pc' = [pc EXCEPT ![t] = "idle", ![u] = "signalled"]

WakeAll(t) ==
    LET c == on[t] IN
    /\ inner[c] = NoThread
    /\ wakeups' = [wakeups EXCEPT ![c] = waiters[c]]
    /\ pc' = [u \in Threads |-> IF u = t THEN "idle"
                                ELSE IF u \in Asleep(c) THEN "signalled"
                                ELSE pc[u]]

WaitInit ==
    /\ pc = [t \in Threads |-> "idle"]
    /\ on = [t \in Threads |-> NoCondition]
    /\ timed = [t \in Threads |-> FALSE]
    /\ mutex = NoThread
    /\ inner = [c \in Conditions |-> NoThread]
    /\ waiters = [c \in Conditions |-> 0]
    /\ wakeups = [c \in Conditions |-> 0]
=============================================================================
