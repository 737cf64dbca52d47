--------------------------- MODULE FreelistMutex ---------------------------
(***************************************************************************)
(* The non-recursive QMutex of builds without futexes (qmutex.cpp, waiting *)
(* as in qmutex_unix.cpp): a mutex that is contended gets a QMutexPrivate  *)
(* from a freelist, and gives it back when it is unlocked with no waiters. *)
(* Every atomic operation that changes something another thread may see is *)
(* a step; a compare-and-swap that fails is joined with the load after it, *)
(* and a loop of load and compare-and-swap is one step.                    *)
(*                                                                         *)
(* The freelist is a set: taking a private out of it and setting its       *)
(* refCount to 1 is one step, and so are the deref() to 0 and its return.  *)
(*                                                                         *)
(* pc of a thread that locks: fast (head of the loop), alloc, install,     *)
(* discard (giving back its own allocation), peek (at possiblyUnlocked),   *)
(* ref, check, count (waiters), take (waiters was -BigNumber), recheck,    *)
(* missed (recheck after a failed take), uncount, drop (give up the        *)
(* reference and loop), wait, unflag, leave and timedOut, flag, forget     *)
(* (after a wait).  It owns the mutex in the pcs of Owning.                *)
(* pc of one that unlocks: mark (waiters), unset (d_ptr), reset            *)
(* (possiblyUnlocked), resetDrop, unmark, handOver, signal, release.       *)
(***************************************************************************)
EXTENDS Integers, FiniteSets

CONSTANTS Threads, Mutexes,
          Privates,     \* what the freelist can hand out
          Null, Dummy,  \* d_ptr of an unlocked mutex; dummyLocked()
          NoThread, BigNumber,
          Limits        \* the timeouts that callers use

ASSUME ConstantsAssumption ==
    /\ Null \notin Privates /\ Dummy \notin Privates /\ Null # Dummy
    /\ NoThread \notin Threads
    /\ IsFiniteSet(Threads)
    /\ BigNumber \in Nat /\ BigNumber > Cardinality(Threads)
    /\ Limits \subseteq {"forever", "positive", "zero"}

VARIABLES
    d_ptr,                                          \* of each mutex
    refCount, waiters, possiblyUnlocked, wakeup,    \* of each private
    free,                                           \* the freelist
    pc, mutex, d, timeout                           \* of each thread

shared == <<d_ptr, refCount, waiters, possiblyUnlocked, wakeup, free>>
vars == <<shared, pc, mutex, d, timeout>>

Owning == {"own", "takeDrop", "unflag", "unflagDrop", "leave"}
Locking == {"fast", "alloc", "install", "discard", "peek", "ref", "check",
            "count", "take", "recheck", "missed", "uncount", "drop", "wait",
            "timedOut", "flag", "forget"}

\* The locals d and timeout are forgotten where they are not used again.
GoToWith(t, l, p) ==
    /\ pc' = [pc EXCEPT ![t] = l]
    /\ d' = [d EXCEPT ![t] = IF l \in {"idle", "fast", "own"} THEN Null ELSE p]
    /\ timeout' = [timeout EXCEPT ![t] =
                       IF l \in {"idle", "own"} THEN "forever" ELSE @]
    /\ UNCHANGED mutex
GoTo(t, l) == GoToWith(t, l, d[t])

Set(m, v) == d_ptr' = [d_ptr EXCEPT ![m] = v]
SetWaiters(p, n) == waiters' = [waiters EXCEPT ![p] = n]
SetFlag(p, b) == possiblyUnlocked' = [possiblyUnlocked EXCEPT ![p] = b]

Ptr(t) == d_ptr[mutex[t]]

-----------------------------------------------------------------------------
\* lock(), tryLock(timeout).

Enter(t, m, limit) ==
    /\ pc[t] = "idle"
    /\ pc' = [pc EXCEPT ![t] = "fast"]
    /\ mutex' = [mutex EXCEPT ![t] = m]
    /\ timeout' = [timeout EXCEPT ![t] = limit]
    /\ UNCHANGED <<shared, d>>

FastTryLock(t) ==
    /\ pc[t] = "fast" /\ Ptr(t) = Null
    /\ Set(mutex[t], Dummy)
    /\ GoTo(t, "own")
    /\ UNCHANGED <<refCount, waiters, possiblyUnlocked, wakeup, free>>

Load(t) ==
    /\ pc[t] = "fast" /\ Ptr(t) # Null
    /\ IF Ptr(t) = Dummy
       THEN GoTo(t, IF timeout[t] = "zero" THEN "idle" ELSE "alloc")
       ELSE GoToWith(t, IF timeout[t] = "zero" THEN "peek" ELSE "ref", Ptr(t))
    /\ UNCHANGED shared

\* QMutexPrivate::allocate.
Allocate(t) ==
    /\ pc[t] = "alloc"
    /\ \E p \in free :
           /\ free' = free \ {p}
           /\ refCount' = [refCount EXCEPT ![p] = 1]
           /\ GoToWith(t, "install", p)
    /\ UNCHANGED <<d_ptr, waiters, possiblyUnlocked, wakeup>>

Install(t) ==
    /\ pc[t] = "install"
    /\ IF Ptr(t) = Dummy
       THEN Set(mutex[t], d[t]) /\ GoTo(t, "ref")
       ELSE UNCHANGED d_ptr /\ GoTo(t, "discard")
    /\ UNCHANGED <<refCount, waiters, possiblyUnlocked, wakeup, free>>

Peek(t) ==
    /\ pc[t] = "peek"
    /\ GoTo(t, IF possiblyUnlocked[d[t]] THEN "ref" ELSE "idle")
    /\ UNCHANGED shared

\* Mutant: a private that is in the freelist is referenced all the same.
Ref_Blindly(t) ==
    /\ pc[t] = "ref"
    /\ refCount' = [refCount EXCEPT ![d[t]] = @ + 1]
    /\ GoTo(t, "check")
    /\ UNCHANGED <<d_ptr, waiters, possiblyUnlocked, wakeup, free>>

Ref(t) ==
    /\ pc[t] = "ref"
    /\ IF refCount[d[t]] = 0
       THEN UNCHANGED refCount /\ GoTo(t, "fast")
       ELSE refCount' = [refCount EXCEPT ![d[t]] = @ + 1] /\ GoTo(t, "check")
    /\ UNCHANGED <<d_ptr, waiters, possiblyUnlocked, wakeup, free>>

\* Mutant: the private may since have become another mutex's.
Check_Missing(t) ==
    /\ pc[t] = "check"
    /\ GoTo(t, "count")
    /\ UNCHANGED shared

\* Is it still this mutex's private?
Check(t) ==
    /\ pc[t] = "check"
    /\ GoTo(t, IF Ptr(t) = d[t] THEN "count" ELSE "drop")
    /\ UNCHANGED shared

\* Mutant: a waiter is counted although the mutex is being unlocked.
CountWaiter_Always(t) ==
    /\ pc[t] = "count"
    /\ SetWaiters(d[t], waiters[d[t]] + 1)
    /\ GoTo(t, "recheck")
    /\ UNCHANGED <<d_ptr, refCount, possiblyUnlocked, wakeup, free>>

CountWaiter(t) ==
    /\ pc[t] = "count"
    /\ IF waiters[d[t]] = -BigNumber
       THEN UNCHANGED waiters /\ GoTo(t, "take")
       ELSE SetWaiters(d[t], waiters[d[t]] + 1) /\ GoTo(t, "recheck")
    /\ UNCHANGED <<d_ptr, refCount, possiblyUnlocked, wakeup, free>>

\* Taking the mutex from under the thread that unlocks it.
Take(t) ==
    /\ pc[t] = "take"
    /\ IF Ptr(t) = d[t]
       THEN Set(mutex[t], Dummy) /\ GoTo(t, "takeDrop")
       ELSE UNCHANGED d_ptr /\ GoTo(t, "missed")
    /\ UNCHANGED <<refCount, waiters, possiblyUnlocked, wakeup, free>>

Recheck(t) ==
    /\ pc[t] \in {"recheck", "missed"}
    /\ GoTo(t, CASE Ptr(t) = d[t] -> "wait"
                 [] Ptr(t) # d[t] /\ pc[t] = "recheck" -> "uncount"
                 [] OTHER -> "drop")
    /\ UNCHANGED shared

Uncount(t) ==
    /\ pc[t] = "uncount"
    /\ SetWaiters(d[t], waiters[d[t]] - 1)
    /\ GoTo(t, "drop")
    /\ UNCHANGED <<d_ptr, refCount, possiblyUnlocked, wakeup, free>>

\* QMutexPrivate::wait returns true ...
Woken(t) ==
    /\ pc[t] = "wait" /\ wakeup[d[t]]
    /\ wakeup' = [wakeup EXCEPT ![d[t]] = FALSE]
    /\ GoTo(t, "unflag")
    /\ UNCHANGED <<d_ptr, refCount, waiters, possiblyUnlocked, free>>

\* ... or false, having timed out.
TimedOut(t) ==
    /\ pc[t] = "wait" /\ ~wakeup[d[t]] /\ timeout[t] # "forever"
    /\ GoTo(t, "timedOut")
    /\ UNCHANGED shared

\* possiblyUnlocked is reset by the thread that got the mutex.
ResetByOwner(t) ==
    /\ pc[t] = "unflag"
    /\ SetFlag(d[t], FALSE)
    /\ GoTo(t, IF possiblyUnlocked[d[t]] THEN "unflagDrop" ELSE "leave")
    /\ UNCHANGED <<d_ptr, refCount, waiters, wakeup, free>>

\* Mutant: the timeout is not made known.
Flag_Missing(t) ==
    /\ pc[t] = "flag"
    /\ GoTo(t, "forget")
    /\ UNCHANGED shared

\* possiblyUnlocked is set by one that timed out, and keeps its reference.
Flag(t) ==
    /\ pc[t] = "flag"
    /\ SetFlag(d[t], TRUE)
    /\ GoTo(t, IF possiblyUnlocked[d[t]] THEN "forget" ELSE "idle")
    /\ UNCHANGED <<d_ptr, refCount, waiters, wakeup, free>>

-----------------------------------------------------------------------------
\* unlock().

Unlock(t) ==
    /\ pc[t] = "own"
    /\ IF Ptr(t) = Dummy
       THEN Set(mutex[t], Null) /\ GoTo(t, "idle")
       ELSE UNCHANGED d_ptr /\ GoToWith(t, "mark", Ptr(t))
    /\ UNCHANGED <<refCount, waiters, possiblyUnlocked, wakeup, free>>

\* waiters.fetchAndAddRelease(-BigNumber) == 0
Mark(t) ==
    /\ pc[t] = "mark"
    /\ SetWaiters(d[t], waiters[d[t]] - BigNumber)
    /\ GoTo(t, IF waiters[d[t]] = 0 THEN "unset" ELSE "handOver")
    /\ UNCHANGED <<d_ptr, refCount, possiblyUnlocked, wakeup, free>>

Unset(t) ==
    /\ pc[t] = "unset"
    /\ IF Ptr(t) = d[t]
       THEN Set(mutex[t], Null) /\ GoTo(t, "reset")
       ELSE UNCHANGED d_ptr /\ GoTo(t, "unmark")
    /\ UNCHANGED <<refCount, waiters, possiblyUnlocked, wakeup, free>>

ResetByUnlocker(t) ==
    /\ pc[t] = "reset"
    /\ SetFlag(d[t], FALSE)
    /\ GoTo(t, IF possiblyUnlocked[d[t]] THEN "resetDrop" ELSE "unmark")
    /\ UNCHANGED <<d_ptr, refCount, waiters, wakeup, free>>

\* derefWaiters(1) by a thread that has waited, derefWaiters(0) by one that
\* unlocks.
AfterWaiters == [leave |-> "own", timedOut |-> "flag",
                 unmark |-> "release", handOver |-> "signal"]

DerefWaiters(t) ==
    /\ pc[t] \in DOMAIN AfterWaiters
    /\ LET w == waiters[d[t]]
           value == IF pc[t] \in {"leave", "timedOut"} THEN 1 ELSE 0
       IN SetWaiters(d[t], (IF w < 0 THEN w + BigNumber ELSE w) - value)
    /\ GoTo(t, AfterWaiters[pc[t]])
    /\ UNCHANGED <<d_ptr, refCount, possiblyUnlocked, wakeup, free>>

\* QMutexPrivate::wakeUp: one of the waiters gets the mutex.
WakeUp(t) ==
    /\ pc[t] = "signal"
    /\ wakeup' = [wakeup EXCEPT ![d[t]] = TRUE]
    /\ GoTo(t, "release")
    /\ UNCHANGED <<d_ptr, refCount, waiters, possiblyUnlocked, free>>

\* QMutexPrivate::deref, everywhere.
AfterDeref == [discard |-> "fast", drop |-> "fast", takeDrop |-> "own",
               unflagDrop |-> "leave", forget |-> "idle",
               resetDrop |-> "unmark", release |-> "idle"]

Deref(t) ==
    /\ pc[t] \in DOMAIN AfterDeref
    /\ refCount' = [refCount EXCEPT ![d[t]] = @ - 1]
    /\ free' = IF refCount[d[t]] = 1 THEN free \cup {d[t]} ELSE free
    /\ GoTo(t, AfterDeref[pc[t]])
    /\ UNCHANGED <<d_ptr, waiters, possiblyUnlocked, wakeup>>

-----------------------------------------------------------------------------
Init ==
    /\ d_ptr = [m \in Mutexes |-> Null]
    /\ refCount = [p \in Privates |-> 0]
    /\ waiters = [p \in Privates |-> 0]
    /\ possiblyUnlocked = [p \in Privates |-> FALSE]
    /\ wakeup = [p \in Privates |-> FALSE]
    /\ free = Privates
    /\ pc = [t \in Threads |-> "idle"]
    /\ mutex \in [Threads -> Mutexes]
    /\ d = [t \in Threads |-> Null]
    /\ timeout = [t \in Threads |-> "forever"]

Step(t) ==
    \/ FastTryLock(t) \/ Load(t) \/ Allocate(t) \/ Install(t) \/ Peek(t)
    \/ Ref(t) \/ Check(t) \/ CountWaiter(t) \/ Take(t) \/ Recheck(t)
    \/ Uncount(t) \/ Woken(t) \/ ResetByOwner(t) \/ Flag(t)
    \/ Mark(t) \/ Unset(t) \/ ResetByUnlocker(t) \/ DerefWaiters(t)
    \/ WakeUp(t) \/ Deref(t)

Next == \E t \in Threads :
            \/ \E m \in Mutexes, limit \in Limits : Enter(t, m, limit)
            \/ Step(t) \/ TimedOut(t) \/ Unlock(t)

Spec == Init /\ [][Next]_vars

-----------------------------------------------------------------------------
\* Properties.

Owners(m) == {t \in Threads : pc[t] \in Owning /\ mutex[t] = m}

\* What allocate() and release() assert of a private in the freelist, and
\* what they do not: no wake-up is left in it for its next mutex.
FreeIsClean ==
    \A p \in free :
        refCount[p] = 0 /\ waiters[p] = 0 /\ ~possiblyUnlocked[p] /\ ~wakeup[p]

\* Who holds a reference to p: the threads inside lockInternal, the one that
\* resets possiblyUnlocked (two), an owner whose mutex p is, possiblyUnlocked.
Referring(p) ==
    {t \in Threads : d[t] = p /\ pc[t] \notin {"peek", "ref"}}
ReferringTwice(p) ==
    {t \in Threads : d[t] = p /\ pc[t] \in {"unflagDrop", "resetDrop"}}
OwnedThrough(p) ==
    {t \in Threads : Ptr(t) = p /\ pc[t] \in {"own", "takeDrop"}}

\* The reference count is that of the references held: no private returns to
\* the freelist while a thread may still use it.
RefCountIsReferences ==
    \A p \in Privates :
        refCount[p] = Cardinality(Referring(p)) + Cardinality(ReferringTwice(p))
                      + Cardinality(OwnedThrough(p))
                      + (IF possiblyUnlocked[p] THEN 1 ELSE 0)

\* Every mutex does what the abstract one does, whatever becomes of the
\* others that share the privates with it: Mutex(m)!Spec for all m at once.
Holder(m) == IF Owners(m) = {} THEN NoThread
             ELSE CHOOSE t \in Threads : t \in Owners(m)
Mutex(m) == INSTANCE AbstractMutex WITH holder <- Holder(m)
ImplementsMutex ==
    /\ \A m \in Mutexes : Mutex(m)!Init
    /\ [][\A m \in Mutexes : [Mutex(m)!Next]_(Holder(m))]_vars

\* No thread sleeps for a mutex that is free for good: without a wake-up to
\* come there is always a thread that has the mutex or is taking it, giving it
\* up or handing it over.
NotForgotten ==
    \A t \in Threads :
        pc[t] = "wait" /\ ~wakeup[d[t]] =>
            \E u \in Threads : mutex[u] = mutex[t] /\ pc[u] \notin {"idle", "wait"}
=============================================================================
