--------------------------- MODULE QMutex_proofs ---------------------------
(***************************************************************************)
(* Proofs about FreelistMutex, QMutex without futexes, for any finite set  *)
(* of threads and any sets of mutexes and privates: its invariants, and    *)
(* that every mutex implements AbstractMutex.  The other implementation is *)
(* in Threads_proofs.                                                      *)
(***************************************************************************)
EXTENDS FreelistMutex, FiniteSetTheorems, TLAPS

-----------------------------------------------------------------------------
\* FreelistMutex: the inductive invariant.

Unlocking == {"mark", "unset", "reset", "resetDrop", "unmark", "handOver",
              "signal", "release"}
PCs == {"idle"} \cup Owning \cup Locking \cup Unlocking

\* The variables have their types, and a thread in the functions of a mutex
\* has a private once it has read or allocated one.
TypeOK ==
    /\ d_ptr \in [Mutexes -> Privates \cup {Null, Dummy}]
    /\ refCount \in [Privates -> Int] /\ waiters \in [Privates -> Int]
    /\ possiblyUnlocked \in [Privates -> BOOLEAN]
    /\ wakeup \in [Privates -> BOOLEAN]
    /\ free \subseteq Privates
    /\ pc \in [Threads -> PCs] /\ mutex \in [Threads -> Mutexes]
    /\ d \in [Threads -> Privates \cup {Null}]
    /\ timeout \in [Threads -> {"forever", "positive", "zero"}]
    /\ \A t \in Threads :
           d[t] = Null <=> pc[t] \in {"idle", "fast", "alloc", "own"}

\* Who has the mutex, or the right to say what becomes of it: its owner, the
\* thread that gives it up until that is done, or a wake-up on its way.
HasToken(t) == \/ pc[t] \in Owning \cup {"mark", "handOver", "signal"}
               \/ pc[t] = "unset" /\ Ptr(t) = d[t]
Pending(m) == d_ptr[m] \in Privates /\ wakeup[d_ptr[m]]

OneToken ==
    /\ \A t, u \in Threads :
           HasToken(t) /\ HasToken(u) /\ mutex[t] = mutex[u] => t = u
    /\ \A t \in Threads :
           HasToken(t) => Ptr(t) # Null /\ ~Pending(mutex[t])

SomeToken ==
    \A m \in Mutexes :
        \/ d_ptr[m] = Null \/ Pending(m)
        \/ \E t \in Threads : HasToken(t) /\ mutex[t] = m

\* Whom a private belongs to.  To one thread while that thread is about to
\* install it; others may still hold it for a moment, having read it in the
\* d_ptr of the mutex that it served before.
Fresh == {"install", "discard"}
Passing == {"peek", "ref", "check", "drop"}
FreshIsPrivate ==
    \A t \in Threads :
        pc[t] \in Fresh =>
            /\ \A m \in Mutexes : d_ptr[m] # d[t]
            /\ \A u \in Threads : u # t /\ d[u] = d[t] => pc[u] \in Passing

\* Then to the mutex it is installed in,
InstalledOnce ==
    \A m, n \in Mutexes : d_ptr[m] \in Privates /\ d_ptr[m] = d_ptr[n] => m = n

\* which is that of the threads that have checked this: the private may be
\* taken out of the mutex, but into no other one while they refer to it.
Attached == {"count", "take", "recheck", "missed", "uncount", "wait",
             "timedOut", "flag", "unflag", "unflagDrop", "leave", "mark",
             "unset", "reset", "resetDrop", "unmark", "handOver", "signal"}
AttachedToMine ==
    \A t \in Threads, m \in Mutexes :
        pc[t] \in Attached /\ d_ptr[m] = d[t] => m = mutex[t]

\* Whether it is still there.
Linked == {"mark", "handOver", "signal", "unflag", "unflagDrop", "leave",
           "wait", "timedOut"}
Unlinked == {"reset", "resetDrop", "unmark", "missed", "uncount"}
LinkedOrNot ==
    \A t \in Threads : /\ pc[t] \in Linked => Ptr(t) = d[t]
                       /\ pc[t] \in Unlinked => Ptr(t) # d[t]

\* Only a mutex that is being unlocked is taken from under its private.
TakenFromUnlocker ==
    \A t \in Threads :
        pc[t] = "take" /\ Ptr(t) = d[t] =>
            \E u \in Threads : /\ pc[u] = "unset" /\ d[u] = d[t]
                               /\ mutex[u] = mutex[t]

\* The threads that waiters counts, and the thread that has subtracted
\* BigNumber from it.
Counting == {"recheck", "uncount", "wait", "timedOut", "unflag", "unflagDrop",
             "leave"}
Counted(p) == {t \in Threads : d[t] = p /\ pc[t] \in Counting}
NoneCounted == {"unset", "reset", "resetDrop", "unmark"}
Marking == NoneCounted \cup {"handOver"}

WaitersAreCounted ==
    \A p \in Privates :
        \/ waiters[p] = Cardinality(Counted(p))
        \/ /\ waiters[p] = Cardinality(Counted(p)) - BigNumber
           /\ \E t \in Threads : pc[t] \in Marking /\ d[t] = p
OneMarks ==
    /\ \A t, u \in Threads :
           pc[t] \in Marking /\ pc[u] \in Marking /\ d[t] = d[u] => t = u
    /\ \A t \in Threads :
           /\ pc[t] \in NoneCounted => /\ Counted(d[t]) = {}
                                       /\ waiters[d[t]] = -BigNumber
           /\ pc[t] = "handOver" => waiters[d[t]] # -BigNumber

\* A wake-up, given or about to be, is for the waiters of an installed
\* private; when the last of them has timed out, the flag says so and keeps
\* the private.
Expected(p) ==
    \/ possiblyUnlocked[p]
    \/ \E t \in Threads : /\ d[t] = p
                         /\ pc[t] \in {"recheck", "wait", "timedOut", "flag"}
WakeupIsExpected ==
    /\ \A p \in Privates :
           wakeup[p] => Expected(p) /\ \E m \in Mutexes : d_ptr[m] = p
    /\ \A t \in Threads : pc[t] \in {"handOver", "signal"} => Expected(d[t])

FreeIsUnreferenced == \A p \in Privates : p \in free <=> refCount[p] = 0

IInv == /\ TypeOK /\ OneToken /\ SomeToken
        /\ FreshIsPrivate /\ InstalledOnce /\ AttachedToMine /\ LinkedOrNot
        /\ TakenFromUnlocker /\ WaitersAreCounted /\ OneMarks
        /\ WakeupIsExpected /\ FreeIsUnreferenced /\ RefCountIsReferences

-----------------------------------------------------------------------------
\* Counting threads.

\* A set of threads is finite, and has fewer than BigNumber of them.
LEMMA ThreadsCount ==
    ASSUME NEW S \in SUBSET Threads
    PROVE  /\ IsFiniteSet(S) /\ Cardinality(S) \in Nat
           /\ Cardinality(S) < BigNumber
           /\ Cardinality(S) = 0 <=> S = {}
<1>1. IsFiniteSet(S) /\ Cardinality(S) <= Cardinality(Threads)
  BY ConstantsAssumption, FS_Subset
<1>2. Cardinality(S) \in Nat /\ Cardinality(Threads) \in Nat
  BY <1>1, ConstantsAssumption, FS_CardinalityType
<1> QED
  BY <1>1, <1>2, ConstantsAssumption, FS_EmptySet

One(b) == IF b THEN 1 ELSE 0

\* How the number of threads in a set changes when one of them moves.
LEMMA OneMoves ==
    ASSUME NEW S \in SUBSET Threads, NEW T \in SUBSET Threads,
           NEW t \in Threads,
           \A u \in Threads \ {t} : u \in S <=> u \in T
    PROVE  Cardinality(T) = Cardinality(S) + One(t \in T) - One(t \in S)
<1> USE DEF One
<1>1. Cardinality(S) \in Nat /\ IsFiniteSet(S)
  BY ThreadsCount
<1>2. CASE t \in S <=> t \in T
  <2>1. S = T
    BY <1>2
  <2> QED
    BY <1>1, <1>2, <2>1
<1>3. CASE t \in T /\ t \notin S
  <2>1. T = S \cup {t}
    BY <1>3
  <2> QED
    BY <1>1, <1>3, <2>1, FS_AddElement
<1>4. CASE t \in S /\ t \notin T
  <2>1. T = S \ {t}
    BY <1>4
  <2> QED
    BY <1>1, <1>4, <2>1, FS_RemoveElement
<1> QED
  BY <1>2, <1>3, <1>4

-----------------------------------------------------------------------------
\* What one step can change.

ByThread(t) == \/ \E m \in Mutexes, limit \in Limits : Enter(t, m, limit)
               \/ Step(t) \/ TimedOut(t) \/ Unlock(t)

\* A step of one thread leaves the others where they are.
LEMMA OthersStay ==
    ASSUME TypeOK, NEW t \in Threads, ByThread(t)
    PROVE  \A u \in Threads \ {t} :
               pc'[u] = pc[u] /\ d'[u] = d[u] /\ mutex'[u] = mutex[u]
<1> USE DEF TypeOK, GoTo, GoToWith, shared
<1>1. ASSUME NEW m \in Mutexes, NEW limit \in Limits, Enter(t, m, limit)
      PROVE  \A u \in Threads \ {t} :
                 pc'[u] = pc[u] /\ d'[u] = d[u] /\ mutex'[u] = mutex[u]
  BY <1>1 DEF Enter
<1>2. ASSUME NEW l, NEW p, GoToWith(t, l, p)
      PROVE  \A u \in Threads \ {t} :
                 pc'[u] = pc[u] /\ d'[u] = d[u] /\ mutex'[u] = mutex[u]
  BY <1>2
<1>3. (Step(t) \/ TimedOut(t) \/ Unlock(t)) => \E l, p : GoToWith(t, l, p)
  <2> HIDE DEF GoToWith
  <2> QED
    BY DEF Step, TimedOut, Unlock, FastTryLock, Load, Allocate, Install, Peek,
           Ref, Check, CountWaiter, Take, Recheck, Uncount, Woken, ResetByOwner,
           Flag, Mark, Unset, ResetByUnlocker, DerefWaiters, WakeUp, Deref
<1> QED
  BY <1>1, <1>2, <1>3 DEF ByThread

\* The reference count is a number of references.
LEMMA CountsAreNat ==
    ASSUME IInv, NEW p \in Privates
    PROVE  /\ Cardinality(Referring(p)) \in Nat
           /\ Cardinality(ReferringTwice(p)) \in Nat
           /\ Cardinality(OwnedThrough(p)) \in Nat
           /\ refCount[p] \in Nat
<1>1. /\ Referring(p) \in SUBSET Threads
      /\ ReferringTwice(p) \in SUBSET Threads
      /\ OwnedThrough(p) \in SUBSET Threads
  BY DEF Referring, ReferringTwice, OwnedThrough
<1>2. /\ Cardinality(Referring(p)) \in Nat
      /\ Cardinality(ReferringTwice(p)) \in Nat
      /\ Cardinality(OwnedThrough(p)) \in Nat
  BY <1>1, ThreadsCount
<1> QED
  BY <1>2 DEF IInv, RefCountIsReferences

\* A private in the freelist is not referred to.
LEMMA FreeIsUnused ==
    ASSUME IInv, NEW p \in Privates, refCount[p] = 0
    PROVE  /\ Referring(p) = {} /\ ReferringTwice(p) = {}
           /\ OwnedThrough(p) = {}
           /\ ~possiblyUnlocked[p]
<1>1. /\ Referring(p) \in SUBSET Threads
      /\ ReferringTwice(p) \in SUBSET Threads
      /\ OwnedThrough(p) \in SUBSET Threads
  BY DEF Referring, ReferringTwice, OwnedThrough
<1>2. /\ Cardinality(Referring(p)) = 0 /\ Cardinality(ReferringTwice(p)) = 0
      /\ Cardinality(OwnedThrough(p)) = 0 /\ ~possiblyUnlocked[p]
  BY CountsAreNat DEF IInv, RefCountIsReferences
<1> QED
  BY <1>1, <1>2, ThreadsCount

\* A private that a thread refers to is not in the freelist.
LEMMA ReferredIsCounted ==
    ASSUME IInv, NEW p \in Privates, NEW t \in Referring(p)
    PROVE  refCount[p] \in Nat \ {0}
BY CountsAreNat, FreeIsUnused

-----------------------------------------------------------------------------
\* The waiters.

\* While the thread at "mark" has the mutex, nobody else is unlocking through
\* its private.
LEMMA NobodyElseMarks ==
    ASSUME IInv, NEW t \in Threads, pc[t] = "mark",
           NEW u \in Threads, pc[u] \in Marking, d[u] = d[t]
    PROVE  FALSE
BY ConstantsAssumption
   DEF IInv, TypeOK, OneToken, HasToken, Pending, AttachedToMine, Attached,
       LinkedOrNot, Linked, Unlinked, Marking, NoneCounted, Ptr

\* What waiters says when a thread is about to subtract BigNumber.
LEMMA MarkSeesWaiters ==
    ASSUME IInv, NEW t \in Threads, pc[t] = "mark"
    PROVE  d[t] \in Privates /\ waiters[d[t]] = Cardinality(Counted(d[t]))
<1>1. d[t] \in Privates
  BY DEF IInv, TypeOK
<1> QED
  BY <1>1, NobodyElseMarks DEF IInv, WaitersAreCounted

\* waiters is -BigNumber only while a mutex without waiters is unlocked.
LEMMA BigNumberMeansNone ==
    ASSUME IInv, NEW p \in Privates, waiters[p] = -BigNumber
    PROVE  \E u \in Threads : pc[u] \in NoneCounted /\ d[u] = p
<1>1. Counted(p) \in SUBSET Threads
  BY DEF Counted
<1>2. /\ Cardinality(Counted(p)) \in Nat
      /\ Cardinality(Counted(p)) < BigNumber
  BY <1>1, ThreadsCount
<1>3. \E u \in Threads : pc[u] \in Marking /\ d[u] = p
  BY <1>2, ConstantsAssumption DEF IInv, WaitersAreCounted
<1> QED
  BY <1>3 DEF IInv, OneMarks, Marking

\* Most steps leave waiters alone, and whom it counts.
KeepsWaiters(t) ==
    /\ waiters' = waiters
    /\ pc'[t] \in Counting <=> pc[t] \in Counting
    /\ pc'[t] \in NoneCounted <=> pc[t] \in NoneCounted
    /\ pc'[t] = "handOver" <=> pc[t] = "handOver"
    /\ pc[t] \in Counting \cup Marking => d'[t] = d[t]

\* It takes one of these to count or uncount a waiter, or to mark or unmark.
LEMMA WaitersKept ==
    ASSUME TypeOK, LinkedOrNot, NEW t \in Threads, ByThread(t)
    PROVE  \/ KeepsWaiters(t)
           \/ CountWaiter(t) \/ Uncount(t) \/ Mark(t) \/ DerefWaiters(t)
<1> USE DEF TypeOK, GoTo, GoToWith, KeepsWaiters, Counting, NoneCounted,
            Marking, shared
<1>1. ASSUME NEW m \in Mutexes, NEW limit \in Limits, Enter(t, m, limit)
      PROVE  KeepsWaiters(t)
  BY <1>1 DEF Enter
<1>2. ASSUME Load(t) \/ Peek(t) \/ Check(t) \/ TimedOut(t) PROVE KeepsWaiters(t)
  BY <1>2 DEF Load, Peek, Check, TimedOut
<1>3. ASSUME Recheck(t) PROVE KeepsWaiters(t)
  BY <1>3 DEF Recheck, LinkedOrNot, Unlinked
<1>4. ASSUME Allocate(t) \/ Ref(t) \/ Deref(t) PROVE KeepsWaiters(t)
  <2>1. ASSUME Deref(t) PROVE KeepsWaiters(t)
    BY <2>1 DEF Deref, AfterDeref
  <2> QED
    BY <1>4, <2>1 DEF Allocate, Ref
<1>5. ASSUME FastTryLock(t) \/ Install(t) \/ Take(t) \/ Unlock(t) \/ Unset(t)
      PROVE  KeepsWaiters(t)
  BY <1>5 DEF FastTryLock, Install, Take, Unlock, Unset
<1>6. ASSUME \/ Woken(t) \/ WakeUp(t)
             \/ ResetByOwner(t) \/ Flag(t) \/ ResetByUnlocker(t)
      PROVE  KeepsWaiters(t)
  <2>1. ASSUME Woken(t) \/ WakeUp(t) PROVE KeepsWaiters(t)
    BY <2>1 DEF Woken, WakeUp
  <2>2. ASSUME ResetByOwner(t) PROVE KeepsWaiters(t)
    BY <2>2 DEF ResetByOwner
  <2>3. ASSUME Flag(t) PROVE KeepsWaiters(t)
    BY <2>3 DEF Flag
  <2>4. ASSUME ResetByUnlocker(t) PROVE KeepsWaiters(t)
    BY <2>4 DEF ResetByUnlocker
  <2> QED
    BY <1>6, <2>1, <2>2, <2>3, <2>4
<1> QED
  BY <1>1, <1>2, <1>3, <1>4, <1>5, <1>6 DEF ByThread, Step

\* The threads counted before and after a step of t.
LEMMA CountedMoves ==
    ASSUME TypeOK, NEW t \in Threads, ByThread(t), NEW p \in Privates
    PROVE  Cardinality(Counted(p))' =
               Cardinality(Counted(p))
               + One(t \in Counted(p)') - One(t \in Counted(p))
<1>1. Counted(p) \in SUBSET Threads /\ Counted(p)' \in SUBSET Threads
  BY DEF Counted
<1>2. \A u \in Threads \ {t} : u \in Counted(p) <=> u \in Counted(p)'
  BY OthersStay DEF Counted
<1> QED
  BY <1>1, <1>2, OneMoves

\* Every step that changes waiters moves its thread in or out of those counted,
\* or adds or subtracts BigNumber with nobody else marking.
LEMMA WaitersStep ==
    ASSUME IInv, [Next]_vars
    PROVE  WaitersAreCounted'
<1> SUFFICES ASSUME NEW p \in Privates
             PROVE  \/ waiters'[p] = Cardinality(Counted(p))'
                    \/ /\ waiters'[p] = Cardinality(Counted(p))' - BigNumber
                       /\ \E t \in Threads : pc'[t] \in Marking /\ d'[t] = p
  BY DEF WaitersAreCounted
<1> DEFINE c == Cardinality(Counted(p))
<1>1. CASE UNCHANGED vars
  BY <1>1 DEF IInv, WaitersAreCounted, Counted, vars, shared
<1>2. ASSUME NEW t \in Threads, ByThread(t)
      PROVE  \/ waiters'[p] = c'
             \/ /\ waiters'[p] = c' - BigNumber
                /\ \E u \in Threads : pc'[u] \in Marking /\ d'[u] = p
  <2>1. c' = c + One(t \in Counted(p)') - One(t \in Counted(p))
    BY <1>2, CountedMoves DEF IInv
  <2>2. /\ t \in Counted(p) <=> d[t] = p /\ pc[t] \in Counting
        /\ t \in Counted(p)' <=> d'[t] = p /\ pc'[t] \in Counting
    BY DEF Counted
  <2>3. Counted(p) \in SUBSET Threads
    BY DEF Counted
  <2>4. c \in Nat /\ c < BigNumber
    BY <2>3, ThreadsCount
  <2>5. \A u \in Threads \ {t} : pc'[u] = pc[u] /\ d'[u] = d[u]
    BY <1>2, OthersStay DEF IInv
  <2>6. /\ TypeOK
        /\ \/ waiters[p] = c
           \/ /\ waiters[p] = c - BigNumber
              /\ \E u \in Threads : pc[u] \in Marking /\ d[u] = p
    BY DEF IInv, WaitersAreCounted
  <2>7. t \in Counted(p) => c > 0
    BY <2>3, <2>4, ThreadsCount
  <2> HIDE DEF c
  <2> USE <2>1, <2>2, <2>4, <2>5, <2>6, ConstantsAssumption DEF One
  <2>e. CASE KeepsWaiters(t)
    BY <2>e DEF KeepsWaiters, Counting, Marking, NoneCounted, TypeOK
  <2> USE DEF TypeOK, GoTo, GoToWith, SetWaiters, Counting, Marking, NoneCounted
  <2>f. CASE CountWaiter(t) \/ Uncount(t)
    BY <2>f DEF CountWaiter, Uncount
  <2>g. CASE Mark(t)
    <3>1. d[t] = p => waiters[p] = c
      BY <2>g, MarkSeesWaiters DEF Mark, c
    <3> QED
      BY <2>g, <3>1 DEF Mark
  <2>h. CASE DerefWaiters(t)
    BY <2>7, <2>h DEF DerefWaiters, AfterWaiters
  <2> QED
    <3> HIDE <2>1, <2>2, <2>4, <2>5
             DEF TypeOK, One, Counting, Marking, NoneCounted
    <3>1. TypeOK /\ LinkedOrNot
      BY DEF IInv
    <3> QED
      BY <1>2, <2>e, <2>f, <2>g, <2>h, <3>1, WaitersKept
<1> QED
  BY <1>1, <1>2 DEF Next, ByThread

\* BigNumber is subtracted by one thread at a time, which knows from the result
\* whether there are waiters; no thread joins those that it has ruled out.
LEMMA OneMarksStep ==
    ASSUME IInv, [Next]_vars
    PROVE  OneMarks'
<1> USE ConstantsAssumption
    DEF GoTo, GoToWith, SetWaiters, TypeOK, OneMarks, Counted, Counting,
        Marking, NoneCounted, shared
<1>0. TypeOK /\ OneMarks
  BY DEF IInv
<1>1. CASE UNCHANGED vars
  BY <1>0, <1>1 DEF vars
<1>2. ASSUME NEW t \in Threads, ByThread(t), KeepsWaiters(t) PROVE OneMarks'
  <2>1. /\ \A u \in Threads \ {t} : pc'[u] = pc[u] /\ d'[u] = d[u]
        /\ waiters' = waiters
    BY <1>2, OthersStay, <1>0 DEF KeepsWaiters
  <2>2. \A u \in Threads :
            /\ pc'[u] \in Counting <=> pc[u] \in Counting
            /\ pc'[u] \in NoneCounted <=> pc[u] \in NoneCounted
            /\ pc'[u] = "handOver" <=> pc[u] = "handOver"
            /\ pc[u] \in Counting \cup Marking => d'[u] = d[u]
    <3> HIDE DEF Counting, NoneCounted, Marking
    <3> QED
      BY <1>2, <2>1 DEF KeepsWaiters
  <2> HIDE DEF Counting, NoneCounted
  <2> QED
    BY <1>0, <2>1, <2>2
<1>3. ASSUME NEW t \in Threads, CountWaiter(t) PROVE OneMarks'
  <2>1. d[t] \in Privates /\ (waiters[d[t]] >= -BigNumber)
    <3>1. Counted(d[t]) \in SUBSET Threads /\ d[t] \in Privates
      BY <1>0, <1>3 DEF CountWaiter
    <3>2. Cardinality(Counted(d[t])) \in Nat
      BY <3>1, ThreadsCount
    <3> QED
      BY <3>1, <3>2 DEF IInv, WaitersAreCounted
  <2> QED
    BY <1>0, <1>3, <2>1 DEF CountWaiter
<1>4. ASSUME NEW t \in Threads, Uncount(t) PROVE OneMarks'
  <2>1. \A u \in Threads : pc[u] = "handOver" => d[u] # d[t]
    BY <1>4 DEF Uncount, IInv, AttachedToMine, Attached, LinkedOrNot, Linked,
                Unlinked, Ptr
  <2> QED
    BY <1>0, <1>4, <2>1 DEF Uncount
<1>5. ASSUME NEW t \in Threads, Mark(t) PROVE OneMarks'
  <2>1. /\ d[t] \in Privates
        /\ waiters[d[t]] = 0 => Counted(d[t]) = {}
    <3>1. Counted(d[t]) \in SUBSET Threads
      OBVIOUS
    <3>2. Cardinality(Counted(d[t])) = 0 <=> Counted(d[t]) = {}
      BY <3>1, ThreadsCount
    <3> HIDE DEF Counted
    <3> QED
      BY <1>5, <3>2, MarkSeesWaiters DEF Mark
  <2>2. \A u \in Threads : pc[u] \in Marking => d[u] # d[t]
    BY <1>5, NobodyElseMarks DEF Mark
  <2> QED
    BY <1>0, <1>5, <2>1, <2>2 DEF Mark
<1>6. ASSUME NEW t \in Threads, DerefWaiters(t) PROVE OneMarks'
  <2>1. \A u \in Threads : u # t /\ d[u] = d[t] => pc[u] \notin NoneCounted
    BY <1>0, <1>6 DEF DerefWaiters, AfterWaiters
  <2>2. /\ d[t] \in Privates
        /\ pc[t] \in {"leave", "timedOut"} => waiters[d[t]] # 0
        /\ waiters[d[t]] >= -BigNumber
        /\ pc[t] \in {"leave", "timedOut"} => waiters[d[t]] # -BigNumber
    <3>1. d[t] \in Privates /\ Counted(d[t]) \in SUBSET Threads
      BY <1>0, <1>6 DEF DerefWaiters, AfterWaiters
    <3>2. /\ Cardinality(Counted(d[t])) \in Nat
          /\ Cardinality(Counted(d[t])) < BigNumber
          /\ Cardinality(Counted(d[t])) = 0 <=> Counted(d[t]) = {}
      BY <3>1, ThreadsCount
    <3>3. pc[t] \in {"leave", "timedOut"} => t \in Counted(d[t])
      OBVIOUS
    <3> HIDE DEF Counted
    <3> QED
      BY <3>1, <3>2, <3>3 DEF IInv, WaitersAreCounted
  <2>3. /\ waiters' = [waiters EXCEPT ![d[t]] = waiters'[d[t]]]
        /\ waiters'[d[t]] # -BigNumber
    <3>1. BigNumber \in Nat \ {0}
      <4>1. {} \in SUBSET Threads
        OBVIOUS
      <4>2. Cardinality({}) \in Nat /\ Cardinality({}) < BigNumber
        BY <4>1, ThreadsCount
      <4> QED
        BY <4>2, ConstantsAssumption
    <3> DEFINE w == waiters[d[t]]
               value == IF pc[t] \in {"leave", "timedOut"} THEN 1 ELSE 0
               result == (IF w < 0 THEN w + BigNumber ELSE w) - value
    <3>2. waiters' = [waiters EXCEPT ![d[t]] = result]
      BY <1>6 DEF DerefWaiters
    <3>3. waiters'[d[t]] = result
      BY <1>0, <2>2, <3>2
    <3>4. result # -BigNumber
      <4>1. w \in Int /\ w >= -BigNumber
        BY <1>0, <2>2
      <4> QED
        BY <2>2, <3>1, <4>1
    <3> QED
      BY <3>2, <3>3, <3>4
  <2>4. /\ \A u \in Threads \ {t} : pc'[u] = pc[u] /\ d'[u] = d[u]
        /\ pc'[t] \in {"own", "flag", "release", "signal"}
        /\ pc'[t] \in {"signal", "release", "flag"} => d'[t] = d[t]
    <3>1. pc[t] \in {"leave", "timedOut", "unmark", "handOver"}
      BY <1>6 DEF DerefWaiters, AfterWaiters
    <3>2. /\ pc' = [pc EXCEPT ![t] = AfterWaiters[pc[t]]]
          /\ d' = [d EXCEPT ![t] =
                        IF AfterWaiters[pc[t]] \in {"idle", "fast", "own"}
                        THEN Null ELSE d[t]]
      BY <1>6 DEF DerefWaiters
    <3> QED
      BY <1>0, <3>1, <3>2 DEF AfterWaiters
  <2> QED
    BY <1>0, <2>1, <2>2, <2>3, <2>4
<1> QED
  <2>1. TypeOK /\ LinkedOrNot
    BY DEF IInv
  <2> HIDE DEF OneMarks, TypeOK
  <2> QED
    BY <1>1, <1>2, <1>3, <1>4, <1>5, <1>6, <2>1, WaitersKept DEF Next, ByThread

-----------------------------------------------------------------------------
\* The references.

\* The references to a private that come from being installed change hands
\* only with the thread that takes the step, unless it installs the private.
LEMMA OthersOwnTheSame ==
    ASSUME IInv, NEW t \in Threads, ByThread(t), ~Install(t),
           NEW p \in Privates, NEW u \in Threads \ {t}
    PROVE  u \in OwnedThrough(p) <=> u \in OwnedThrough(p)'
<1>1. pc'[u] = pc[u] /\ mutex'[u] = mutex[u]
  BY OthersStay DEF IInv
<1>2. CASE UNCHANGED d_ptr
  BY <1>1, <1>2 DEF OwnedThrough, Ptr
<1>3. CASE FastTryLock(t) \/ Take(t) \/ Unlock(t) \/ Unset(t)
  <2>1. ASSUME d_ptr'[mutex[u]] # d_ptr[mutex[u]], pc[u] \in {"own", "takeDrop"}
        PROVE  FALSE
    <3>1. TypeOK /\ OneToken /\ TakenFromUnlocker
      BY DEF IInv
    <3>2. mutex[u] = mutex[t] /\ HasToken(u)
      BY <1>3, <2>1, <3>1
         DEF FastTryLock, Take, Unlock, Unset, Set, TypeOK, HasToken, Owning,
             Ptr
    <3>3. CASE FastTryLock(t)
      BY <3>1, <3>2, <3>3 DEF FastTryLock, OneToken, Ptr
    <3>4. CASE Take(t)
      BY <2>1, <3>1, <3>2, <3>4
         DEF Take, OneToken, TakenFromUnlocker, HasToken, Ptr
    <3>5. CASE Unlock(t) \/ Unset(t)
      BY <2>1, <3>1, <3>2, <3>5
         DEF Unlock, Unset, OneToken, HasToken, Owning, Ptr
    <3> QED
      BY <1>3, <3>3, <3>4, <3>5
  <2> QED
    BY <1>1, <2>1 DEF OwnedThrough, Ptr
<1> QED
  BY <1>2, <1>3
     DEF ByThread, Step, Enter, Load, Allocate, Peek, Ref, Check, CountWaiter,
         Recheck, Uncount, Woken, TimedOut, ResetByOwner, Flag, Mark,
         ResetByUnlocker, DerefWaiters, WakeUp, Deref, shared

\* A step of t changes the references of a private as t's own change.
LEMMA ReferencesMove ==
    ASSUME IInv, NEW t \in Threads, ByThread(t), ~Install(t), NEW p \in Privates
    PROVE  /\ Cardinality(Referring(p))' = Cardinality(Referring(p))
                  + One(t \in Referring(p)') - One(t \in Referring(p))
           /\ Cardinality(ReferringTwice(p))' = Cardinality(ReferringTwice(p))
                  + One(t \in ReferringTwice(p)') - One(t \in ReferringTwice(p))
           /\ Cardinality(OwnedThrough(p))' = Cardinality(OwnedThrough(p))
                  + One(t \in OwnedThrough(p)') - One(t \in OwnedThrough(p))
<1>1. \A u \in Threads \ {t} : pc'[u] = pc[u] /\ d'[u] = d[u]
  BY OthersStay DEF IInv
<1>2. /\ Referring(p) \in SUBSET Threads /\ Referring(p)' \in SUBSET Threads
      /\ \A u \in Threads \ {t} : u \in Referring(p) <=> u \in Referring(p)'
  BY <1>1 DEF Referring
<1>3. /\ ReferringTwice(p) \in SUBSET Threads
      /\ ReferringTwice(p)' \in SUBSET Threads
      /\ \A u \in Threads \ {t} :
             u \in ReferringTwice(p) <=> u \in ReferringTwice(p)'
  BY <1>1 DEF ReferringTwice
<1>4. /\ OwnedThrough(p) \in SUBSET Threads
      /\ OwnedThrough(p)' \in SUBSET Threads
      /\ \A u \in Threads \ {t} :
             u \in OwnedThrough(p) <=> u \in OwnedThrough(p)'
  BY OthersOwnTheSame DEF OwnedThrough
<1> QED
  BY <1>2, <1>3, <1>4, OneMoves

\* The references that t holds to p itself.
Mine(t, p) == One(t \in Referring(p)) + One(t \in ReferringTwice(p))
              + One(t \in OwnedThrough(p)) + One(possiblyUnlocked[p])

\* Counting its own references right is all a step has to do.
LEMMA CountedRight ==
    ASSUME IInv, NEW t \in Threads, ByThread(t), ~Install(t),
           NEW p \in Privates,
           refCount'[p] = refCount[p] + Mine(t, p)' - Mine(t, p)
    PROVE  refCount'[p] = (Cardinality(Referring(p))
                           + Cardinality(ReferringTwice(p))
                           + Cardinality(OwnedThrough(p))
                           + (IF possiblyUnlocked[p] THEN 1 ELSE 0))'
<1> DEFINE r == Cardinality(Referring(p))
           w == Cardinality(ReferringTwice(p))
           o == Cardinality(OwnedThrough(p))
<1>1. /\ Referring(p) \in SUBSET Threads
      /\ ReferringTwice(p) \in SUBSET Threads
      /\ OwnedThrough(p) \in SUBSET Threads
  BY DEF Referring, ReferringTwice, OwnedThrough
<1>2. r \in Nat /\ w \in Nat /\ o \in Nat
  BY <1>1, ThreadsCount
<1>3. refCount[p] = r + w + o + One(possiblyUnlocked[p])
  BY DEF IInv, RefCountIsReferences, One
<1>4. /\ r' = r + One(t \in Referring(p)') - One(t \in Referring(p))
      /\ w' = w + One(t \in ReferringTwice(p)') - One(t \in ReferringTwice(p))
      /\ o' = o + One(t \in OwnedThrough(p)') - One(t \in OwnedThrough(p))
  BY ReferencesMove
<1> HIDE DEF r, w, o
<1> DEFINE mr == One(t \in Referring(p))
           mw == One(t \in ReferringTwice(p))
           mo == One(t \in OwnedThrough(p))
           f == One(possiblyUnlocked[p])
<1>5. /\ mr \in Int /\ mw \in Int /\ mo \in Int /\ f \in Int
      /\ mr' \in Int /\ mw' \in Int /\ mo' \in Int /\ f' \in Int
  BY DEF One
<1>6. /\ refCount'[p] = refCount[p] + (mr' + mw' + mo' + f')
                                      - (mr + mw + mo + f)
      /\ refCount[p] = r + w + o + f
      /\ r' = r + mr' - mr /\ w' = w + mw' - mw /\ o' = o + mo' - mo
  BY <1>3, <1>4 DEF Mine
<1> HIDE DEF mr, mw, mo, f
<1>7. refCount'[p] = r' + w' + o' + f'
  BY <1>2, <1>5, <1>6
<1> QED
  BY <1>7 DEF r, w, o, f, One

\* A step that changes refCount changes the references of its own thread, or the
\* flag, by as much; Install hands the reference of the installer to the owner.
LEMMA ReferencesStep ==
    ASSUME IInv, TypeOK', [Next]_vars
    PROVE  RefCountIsReferences'
<1>1. CASE UNCHANGED vars
  BY <1>1 DEF IInv, RefCountIsReferences, Referring, ReferringTwice,
              OwnedThrough, Ptr, vars, shared
<1>2. ASSUME NEW t \in Threads, ByThread(t), ~Install(t)
      PROVE  RefCountIsReferences'
  <2> SUFFICES ASSUME NEW p \in Privates
               PROVE  refCount'[p] = refCount[p] + Mine(t, p)' - Mine(t, p)
    BY <1>2, CountedRight DEF RefCountIsReferences
  <2>0. TypeOK /\ TypeOK'
    BY DEF IInv
  <2> DEFINE R == d[t] = p /\ pc[t] \notin {"peek", "ref"}
             W == d[t] = p /\ pc[t] \in {"unflagDrop", "resetDrop"}
             O == Ptr(t) = p /\ pc[t] \in {"own", "takeDrop"}
             F == possiblyUnlocked[p]
             Goal == refCount'[p] = refCount[p] + Mine(t, p)' - Mine(t, p)
  <2>1. /\ Mine(t, p) = One(R) + One(W) + One(O) + One(F)
        /\ Mine(t, p)' = One(R') + One(W') + One(O') + One(F')
        /\ refCount[p] \in Int
    BY <2>0 DEF TypeOK, Mine, Referring, ReferringTwice, OwnedThrough, One
  <2>2. ASSUME refCount' = refCount, R' <=> R, W' <=> W, O' <=> O, F' <=> F
        PROVE  Goal
    <3> HIDE DEF R, W, O, F
    <3>1. One(R) \in Int /\ One(W) \in Int /\ One(O) \in Int /\ One(F) \in Int
      BY DEF One
    <3>2. /\ One(R') = One(R) /\ One(W') = One(W)
          /\ One(O') = One(O) /\ One(F') = One(F)
      BY <2>2 DEF One
    <3> QED
      BY <2>1, <2>2, <3>1, <3>2
  <2> USE <2>0, ConstantsAssumption DEF TypeOK, GoTo, GoToWith, Ptr, shared
  <2>a. ASSUME NEW m \in Mutexes, NEW limit \in Limits, Enter(t, m, limit)
        PROVE  Goal
    <3>1. /\ refCount' = refCount /\ (R' <=> R) /\ (W' <=> W)
          /\ (O' <=> O) /\ (F' <=> F)
      BY <2>a DEF Enter
    <3> QED
      BY <2>2, <3>1
  <2>b. CASE Load(t) \/ Peek(t) \/ Check(t) \/ Recheck(t) \/ TimedOut(t)
    <3>1. /\ refCount' = refCount /\ (R' <=> R) /\ (W' <=> W)
          /\ (O' <=> O) /\ (F' <=> F)
      BY <2>b DEF Load, Peek, Check, Recheck, TimedOut
    <3> QED
      BY <2>2, <3>1
  <2>f. CASE FastTryLock(t)
    <3>1. /\ refCount' = refCount /\ (R' <=> R) /\ (W' <=> W)
          /\ (O' <=> O) /\ (F' <=> F)
      BY <2>f DEF FastTryLock, Set
    <3> QED
      BY <2>2, <3>1
  <2>g. CASE Take(t) \/ Unset(t)
    <3>1. refCount' = refCount /\ (R' <=> R) /\ (W' <=> W) /\ (F' <=> F)
      BY <2>g DEF Take, Unset, Set
    <3>2. O' <=> O
      BY <2>g DEF Take, Unset, Set
    <3> QED
      BY <2>2, <3>1, <3>2
  <2>h. CASE CountWaiter(t) \/ Uncount(t) \/ Mark(t) \/ Woken(t) \/ WakeUp(t)
    <3>1. /\ refCount' = refCount /\ (R' <=> R) /\ (W' <=> W)
          /\ (O' <=> O) /\ (F' <=> F)
      BY <2>h DEF CountWaiter, Uncount, Mark, Woken, WakeUp
    <3> QED
      BY <2>2, <3>1
  <2>c. CASE Ref(t)
    BY <2>1, <2>c DEF Ref, One
  <2>d. CASE Deref(t)
    BY <2>1, <2>d DEF Deref, AfterDeref, One
  <2>e. CASE Allocate(t)
    BY <2>1, <2>e, FreeIsUnused DEF Allocate, IInv, FreeIsUnreferenced, One
  <2>i. CASE Unlock(t)
    BY <2>1, <2>i DEF Unlock, Set, One
  <2>j. CASE DerefWaiters(t)
    <3>1. pc[t] = "leave" => Ptr(t) = d[t]
      BY DEF IInv, LinkedOrNot, Linked
    <3> QED
      BY <2>1, <2>j, <3>1 DEF DerefWaiters, AfterWaiters, One
  <2>k. CASE ResetByOwner(t) \/ Flag(t) \/ ResetByUnlocker(t)
    BY <2>1, <2>k DEF ResetByOwner, Flag, ResetByUnlocker, SetFlag, One
  <2> QED
    <3> HIDE DEF TypeOK, R, W, O, F
    <3> QED
      BY <1>2, <2>a, <2>b, <2>c, <2>d, <2>e, <2>f, <2>g, <2>h, <2>i, <2>j, <2>k
         DEF ByThread, Step
<1>3. ASSUME NEW t \in Threads, Install(t) PROVE RefCountIsReferences'
  <2> SUFFICES ASSUME NEW p \in Privates
               PROVE  refCount'[p] = (Cardinality(Referring(p))
                                      + Cardinality(ReferringTwice(p))
                                      + Cardinality(OwnedThrough(p))
                                      + (IF possiblyUnlocked[p] THEN 1 ELSE 0))'
    BY DEF RefCountIsReferences
  <2>0. /\ TypeOK /\ OneToken /\ SomeToken /\ FreshIsPrivate
        /\ refCount[p] = Cardinality(Referring(p))
                         + Cardinality(ReferringTwice(p))
                         + Cardinality(OwnedThrough(p))
                         + (IF possiblyUnlocked[p] THEN 1 ELSE 0)
        /\ pc[t] = "install" /\ d[t] \in Privates
        /\ refCount' = refCount /\ possiblyUnlocked' = possiblyUnlocked
    BY <1>3, ConstantsAssumption DEF IInv, RefCountIsReferences, Install, TypeOK
  <2>1. \A u \in Threads \ {t} : pc'[u] = pc[u] /\ d'[u] = d[u]
    BY <1>3, OthersStay DEF IInv, ByThread, Step
  <2>2. ReferringTwice(p)' = ReferringTwice(p)
    BY <1>3, <2>0, <2>1 DEF Install, GoTo, GoToWith, TypeOK, ReferringTwice
  <2>3. CASE Ptr(t) # Dummy \/ p # d[t]
    <3>1. Referring(p)' = Referring(p)
      BY <1>3, <2>0, <2>1, <2>3 DEF Install, GoTo, GoToWith, TypeOK, Referring
    <3>2. OwnedThrough(p)' = OwnedThrough(p)
      BY <1>3, <2>0, <2>1, <2>3, ConstantsAssumption
         DEF Install, Set, GoTo, GoToWith, TypeOK, OwnedThrough, Ptr
    <3> QED
      BY <2>0, <2>2, <3>1, <3>2
  <2>4. CASE Ptr(t) = Dummy /\ p = d[t]
    <3>1. PICK o \in Threads : HasToken(o) /\ mutex[o] = mutex[t]
      BY <2>0, <2>4, ConstantsAssumption DEF SomeToken, Pending, TypeOK, Ptr
    <3>2. /\ pc[o] \in {"own", "takeDrop"} /\ o # t
          /\ \A u \in Threads :
                 pc[u] \in {"own", "takeDrop"} /\ mutex[u] = mutex[t] => u = o
      <4>1. Ptr(o) = Dummy
        BY <2>4, <3>1 DEF Ptr
      <4>2. pc[o] \in {"own", "takeDrop"}
        BY <2>0, <3>1, <4>1, ConstantsAssumption
           DEF IInv, LinkedOrNot, Linked, HasToken, Owning, TypeOK
      <4> QED
        BY <2>0, <3>1, <4>2 DEF OneToken, HasToken, Owning
    <3>3. OwnedThrough(p) = {}
      BY <2>0, <2>4 DEF FreshIsPrivate, Fresh, OwnedThrough, Ptr, TypeOK
    <3>4. OwnedThrough(p)' = {o}
      <4>1. d_ptr' = [d_ptr EXCEPT ![mutex[t]] = p] /\ mutex' = mutex
            /\ pc'[t] = "ref"
        BY <1>3, <2>0, <2>4 DEF Install, Set, GoTo, GoToWith, TypeOK, Ptr
      <4>2. \A m \in Mutexes : d_ptr'[m] = p <=> m = mutex[t]
        BY <2>0, <2>4, <4>1 DEF FreshIsPrivate, Fresh, TypeOK
      <4> QED
        BY <2>0, <2>1, <3>1, <3>2, <4>1, <4>2 DEF OwnedThrough, Ptr, TypeOK
    <3>5. Referring(p)' = Referring(p) \ {t} /\ t \in Referring(p)
      BY <1>3, <2>0, <2>1, <2>4 DEF Install, GoTo, GoToWith, TypeOK, Referring
    <3>6. IsFiniteSet(Referring(p)) /\ Cardinality(Referring(p)) \in Nat
      <4>1. Referring(p) \in SUBSET Threads
        BY DEF Referring
      <4> QED
        BY <4>1, ThreadsCount
    <3>7. /\ Cardinality(OwnedThrough(p)) = 0
          /\ Cardinality(OwnedThrough(p))' = 1
          /\ Cardinality(Referring(p))' = Cardinality(Referring(p)) - 1
      <4>1. Cardinality({}) = 0 /\ Cardinality({o}) = 1
        BY FS_EmptySet, FS_Singleton
      <4>2. Cardinality(Referring(p) \ {t}) = Cardinality(Referring(p)) - 1
        BY <3>5, <3>6, FS_RemoveElement
      <4> QED
        BY <3>3, <3>4, <3>5, <4>1, <4>2
    <3>8. Cardinality(ReferringTwice(p)) \in Nat
      <4>1. ReferringTwice(p) \in SUBSET Threads
        BY DEF ReferringTwice
      <4> QED
        BY <4>1, ThreadsCount
    <3> QED
      BY <2>0, <2>2, <3>6, <3>7, <3>8
  <2> QED
    BY <2>3, <2>4
<1> QED
  BY <1>1, <1>2, <1>3 DEF Next, ByThread

\* A private is in the freelist exactly while nobody refers to it: no
\* reference is given up that was not counted.
LEMMA FreeStep ==
    ASSUME IInv, [Next]_vars
    PROVE  FreeIsUnreferenced'
<1>1. ASSUME UNCHANGED <<refCount, free>> PROVE FreeIsUnreferenced'
  BY <1>1 DEF IInv, FreeIsUnreferenced
<1> USE DEF IInv, TypeOK, FreeIsUnreferenced, GoTo, GoToWith
<1>2. ASSUME NEW t \in Threads, Allocate(t) PROVE FreeIsUnreferenced'
  BY <1>2 DEF Allocate
<1>3. ASSUME NEW t \in Threads, Ref(t) PROVE FreeIsUnreferenced'
  <2>1. refCount[d[t]] # 0 => refCount[d[t]] > 0
    <3>1. d[t] \in Privates
      BY <1>3 DEF Ref
    <3> QED
      BY <3>1, CountsAreNat
  <2> QED
    BY <1>3, <2>1 DEF Ref
<1>4. ASSUME NEW t \in Threads, Deref(t) PROVE FreeIsUnreferenced'
  <2>1. d[t] \in Privates /\ t \in Referring(d[t])
    BY <1>4 DEF Deref, AfterDeref, Referring
  <2>2. refCount[d[t]] \in Nat \ {0}
    BY <2>1, ReferredIsCounted
  <2> QED
    BY <1>4, <2>1, <2>2 DEF Deref
<1> HIDE DEF IInv, TypeOK, FreeIsUnreferenced, GoTo, GoToWith
<1>5. ASSUME UNCHANGED vars PROVE UNCHANGED <<refCount, free>>
  BY <1>5 DEF vars, shared
<1>6. ASSUME NEW t \in Threads, NEW m \in Mutexes, NEW limit \in Limits,
             Enter(t, m, limit)
      PROVE  UNCHANGED <<refCount, free>>
  BY <1>6 DEF Enter, shared
<1>7. ASSUME NEW t \in Threads,
             \/ Load(t) \/ Peek(t) \/ Check(t) \/ Recheck(t) \/ TimedOut(t)
             \/ FastTryLock(t) \/ Install(t) \/ Take(t) \/ Unlock(t) \/ Unset(t)
      PROVE  UNCHANGED <<refCount, free>>
  BY <1>7 DEF Load, Peek, Check, Recheck, TimedOut, FastTryLock, Install, Take,
              Unlock, Unset, shared
<1>8. ASSUME NEW t \in Threads,
             \/ CountWaiter(t) \/ Uncount(t) \/ Mark(t) \/ DerefWaiters(t)
             \/ Woken(t) \/ WakeUp(t)
             \/ ResetByOwner(t) \/ Flag(t) \/ ResetByUnlocker(t)
      PROVE  refCount' = refCount /\ free' = free
  BY <1>8 DEF CountWaiter, Uncount, Mark, DerefWaiters, Woken, WakeUp,
              ResetByOwner, Flag, ResetByUnlocker, shared
<1> QED
  BY <1>1, <1>2, <1>3, <1>4, <1>5, <1>6, <1>7, <1>8 DEF Next, Step

-----------------------------------------------------------------------------
\* The rest of the invariant, conjunct by conjunct.

\* Nobody owns or waits for a mutex whose private is about to be taken out.
LEMMA UnlockedIsLeft ==
    ASSUME IInv, NEW t \in Threads, pc[t] = "unset", Ptr(t) = d[t],
           NEW u \in Threads, pc[u] \in Linked
    PROVE  mutex[u] # mutex[t]
BY DEF IInv, TypeOK, OneToken, HasToken, Owning, LinkedOrNot, Linked, OneMarks,
       NoneCounted, Counted, Counting, Ptr

\* An owner finds its mutex locked.
LEMMA OwnedIsLocked ==
    ASSUME IInv, NEW t \in Threads, pc[t] = "own"
    PROVE  Ptr(t) \in Privates \cup {Dummy}
BY DEF IInv, TypeOK, OneToken, HasToken, Owning, Ptr

\* A private in the freelist is installed in no mutex: as long as it is, its
\* mutex is owned, being unlocked or to be handed over, and each of these refers
\* to it.
LEMMA FreeIsNotInstalled ==
    ASSUME IInv, NEW p \in Privates, refCount[p] = 0, NEW m \in Mutexes
    PROVE  d_ptr[m] # p
<1> SUFFICES ASSUME d_ptr[m] = p PROVE FALSE
  OBVIOUS
<1>1. /\ Referring(p) = {} /\ OwnedThrough(p) = {} /\ ~possiblyUnlocked[p]
  BY FreeIsUnused
<1>2. CASE wakeup[p]
  BY <1>1, <1>2 DEF IInv, WakeupIsExpected, Expected, Referring
<1>3. CASE ~wakeup[p]
  <2>1. PICK t \in Threads : HasToken(t) /\ mutex[t] = m
    BY <1>3, ConstantsAssumption DEF IInv, SomeToken, Pending
  <2>2. CASE pc[t] \in {"own", "takeDrop"}
    BY <1>1, <2>1, <2>2 DEF OwnedThrough, Ptr
  <2>3. CASE pc[t] \notin {"own", "takeDrop"}
    BY <1>1, <2>1, <2>3
       DEF IInv, HasToken, Owning, LinkedOrNot, Linked, Referring, Ptr
  <2> QED
    BY <2>2, <2>3
<1> QED
  BY <1>2, <1>3

\* The variables keep their types.
LEMMA TypeStep ==
    ASSUME IInv, [Next]_vars
    PROVE  TypeOK'
<1> USE ConstantsAssumption
   DEF GoTo, GoToWith, Set, SetWaiters, SetFlag, Ptr, TypeOK, PCs, Owning,
       Locking, Unlocking
<1>0. TypeOK
  BY DEF IInv
<1>1. CASE UNCHANGED vars
  BY <1>0, <1>1 DEF vars, shared
<1>2. ASSUME NEW t \in Threads, NEW m \in Mutexes, NEW limit \in Limits,
             Enter(t, m, limit)
      PROVE  TypeOK'
  BY <1>0, <1>2 DEF Enter, shared
<1>3. ASSUME NEW t \in Threads, Load(t) \/ Peek(t) \/ Check(t) \/ Recheck(t)
             \/ TimedOut(t)
      PROVE  TypeOK'
  BY <1>0, <1>3 DEF Load, Peek, Check, Recheck, TimedOut, shared
<1>4. ASSUME NEW t \in Threads, Allocate(t) \/ Ref(t) \/ Deref(t)
      PROVE  TypeOK'
  BY <1>0, <1>4 DEF Allocate, Ref, Deref, AfterDeref, shared
<1>5. ASSUME NEW t \in Threads, CountWaiter(t) \/ Uncount(t) \/ Mark(t)
             \/ DerefWaiters(t)
      PROVE  TypeOK'
  BY <1>0, <1>5
     DEF CountWaiter, Uncount, Mark, DerefWaiters, AfterWaiters, shared
<1>6. ASSUME NEW t \in Threads, FastTryLock(t) PROVE TypeOK'
  BY <1>0, <1>6 DEF FastTryLock, shared
<1>7. ASSUME NEW t \in Threads, Install(t) PROVE TypeOK'
  BY <1>0, <1>7 DEF Install, shared
<1>8. ASSUME NEW t \in Threads, Take(t) PROVE TypeOK'
  <2>1. CASE Ptr(t) = d[t]
    BY <1>0, <1>8, <2>1 DEF Take, shared
  <2>2. CASE Ptr(t) # d[t]
    BY <1>0, <1>8, <2>2 DEF Take, shared
  <2> QED
    BY <2>1, <2>2
<1>9. ASSUME NEW t \in Threads, Unlock(t) PROVE TypeOK'
  <2>1. CASE Ptr(t) = Dummy
    BY <1>0, <1>9, <2>1 DEF Unlock, shared
  <2>2. CASE Ptr(t) # Dummy
    <3>1. Ptr(t) \in Privates
      BY <1>9, <2>2, OwnedIsLocked DEF Unlock
    <3> QED
      BY <1>0, <1>9, <2>2, <3>1 DEF Unlock, shared
  <2> QED
    BY <2>1, <2>2
<1>10. ASSUME NEW t \in Threads, Unset(t) PROVE TypeOK'
  BY <1>0, <1>10 DEF Unset, shared
<1>11. ASSUME NEW t \in Threads, Woken(t) PROVE TypeOK'
  BY <1>0, <1>11 DEF Woken, shared
<1>12. ASSUME NEW t \in Threads, WakeUp(t) PROVE TypeOK'
  BY <1>0, <1>12 DEF WakeUp, shared
<1>13. ASSUME NEW t \in Threads, ResetByOwner(t) PROVE TypeOK'
  BY <1>0, <1>13 DEF ResetByOwner, shared
<1>14. ASSUME NEW t \in Threads, Flag(t) PROVE TypeOK'
  BY <1>0, <1>14 DEF Flag, shared
<1>15. ASSUME NEW t \in Threads, ResetByUnlocker(t) PROVE TypeOK'
  BY <1>0, <1>15 DEF ResetByUnlocker, shared
<1> QED
  BY <1>1, <1>2, <1>3, <1>4, <1>5, <1>6, <1>7, <1>8, <1>9, <1>10, <1>11,
     <1>12, <1>13, <1>14, <1>15
     DEF Next, Step

\* A private is installed in one mutex at most.
LEMMA InstalledOnceStep ==
    ASSUME IInv, [Next]_vars
    PROVE  InstalledOnce'
<1> USE ConstantsAssumption
   DEF GoTo, GoToWith, Set, SetWaiters, SetFlag, Ptr, TypeOK, PCs, Owning,
       Locking, Unlocking, InstalledOnce, FreshIsPrivate, Fresh, Passing
<1>0. TypeOK /\ FreshIsPrivate /\ InstalledOnce
  BY DEF IInv
<1>1. CASE UNCHANGED vars
  BY <1>0, <1>1 DEF vars, shared
<1>2. ASSUME NEW t \in Threads, NEW m \in Mutexes, NEW limit \in Limits,
             Enter(t, m, limit)
      PROVE  InstalledOnce'
  BY <1>0, <1>2 DEF Enter, shared
<1>3. ASSUME NEW t \in Threads, Load(t) \/ Peek(t) \/ Check(t) \/ Recheck(t)
             \/ TimedOut(t)
      PROVE  InstalledOnce'
  BY <1>0, <1>3 DEF Load, Peek, Check, Recheck, TimedOut, shared
<1>4. ASSUME NEW t \in Threads, Allocate(t) \/ Ref(t) \/ Deref(t)
      PROVE  InstalledOnce'
  BY <1>0, <1>4 DEF Allocate, Ref, Deref, AfterDeref, shared
<1>5. ASSUME NEW t \in Threads, CountWaiter(t) \/ Uncount(t) \/ Mark(t)
             \/ DerefWaiters(t)
      PROVE  InstalledOnce'
  BY <1>0, <1>5
     DEF CountWaiter, Uncount, Mark, DerefWaiters, AfterWaiters, shared
<1>6. ASSUME NEW t \in Threads, FastTryLock(t) \/ Install(t) \/ Take(t)
             \/ Unlock(t) \/ Unset(t)
      PROVE  InstalledOnce'
  BY <1>0, <1>6 DEF FastTryLock, Install, Take, Unlock, Unset, shared
<1>7. ASSUME NEW t \in Threads, Woken(t) \/ WakeUp(t)
      PROVE  InstalledOnce'
  BY <1>0, <1>7 DEF Woken, WakeUp, shared
<1>8. ASSUME NEW t \in Threads, ResetByOwner(t) \/ Flag(t) \/ ResetByUnlocker(t)
      PROVE  InstalledOnce'
  BY <1>0, <1>8 DEF ResetByOwner, Flag, ResetByUnlocker, shared
<1> QED
  BY <1>1, <1>2, <1>3, <1>4, <1>5, <1>6, <1>7, <1>8 DEF Next, Step

\* A private that was just allocated is nobody else's: it was in the freelist,
\* so nobody referred to it.
LEMMA FreshIsPrivateStep ==
    ASSUME IInv, [Next]_vars
    PROVE  FreshIsPrivate'
<1> USE ConstantsAssumption
   DEF GoTo, GoToWith, Set, SetWaiters, SetFlag, Ptr, TypeOK, PCs, Owning,
       Locking, Unlocking, FreshIsPrivate, Fresh, Passing
<1>0. TypeOK /\ FreshIsPrivate
  BY DEF IInv
<1>1. CASE UNCHANGED vars
  BY <1>0, <1>1 DEF vars, shared
<1>2. ASSUME NEW t \in Threads, NEW m \in Mutexes, NEW limit \in Limits,
             Enter(t, m, limit)
      PROVE  FreshIsPrivate'
  BY <1>0, <1>2 DEF Enter, shared
<1>3. ASSUME NEW t \in Threads, Load(t) \/ Peek(t) \/ Check(t) \/ Recheck(t)
             \/ TimedOut(t)
      PROVE  FreshIsPrivate'
  BY <1>0, <1>3 DEF Load, Peek, Check, Recheck, TimedOut, shared
<1>4. ASSUME NEW t \in Threads, Ref(t) \/ Deref(t)
      PROVE  FreshIsPrivate'
  BY <1>0, <1>4 DEF Ref, Deref, AfterDeref, shared
<1>5. ASSUME NEW t \in Threads, Allocate(t) PROVE FreshIsPrivate'
  <2>1. ASSUME NEW p \in free, refCount' = [refCount EXCEPT ![p] = 1],
               GoToWith(t, "install", p)
        PROVE  FreshIsPrivate'
    <3>1. Referring(p) = {} /\ \A m \in Mutexes : d_ptr[m] # p
      BY <2>1, FreeIsUnused, FreeIsNotInstalled DEF IInv, FreeIsUnreferenced
    <3> QED
      BY <1>0, <1>5, <2>1, <3>1 DEF Allocate, Referring
  <2> QED
    BY <1>5, <2>1 DEF Allocate
<1>6. ASSUME NEW t \in Threads, CountWaiter(t) \/ Uncount(t) \/ Mark(t)
             \/ DerefWaiters(t)
      PROVE  FreshIsPrivate'
  BY <1>0, <1>6
     DEF CountWaiter, Uncount, Mark, DerefWaiters, AfterWaiters, shared
<1>7. ASSUME NEW t \in Threads, FastTryLock(t) \/ Install(t) \/ Take(t)
             \/ Unlock(t) \/ Unset(t)
      PROVE  FreshIsPrivate'
  BY <1>0, <1>7 DEF FastTryLock, Install, Take, Unlock, Unset, shared
<1>8. ASSUME NEW t \in Threads, Woken(t) \/ WakeUp(t)
      PROVE  FreshIsPrivate'
  BY <1>0, <1>8 DEF Woken, WakeUp, shared
<1>9. ASSUME NEW t \in Threads, ResetByOwner(t) \/ Flag(t) \/ ResetByUnlocker(t)
      PROVE  FreshIsPrivate'
  BY <1>0, <1>9 DEF ResetByOwner, Flag, ResetByUnlocker, shared
<1> QED
  BY <1>1, <1>2, <1>3, <1>4, <1>5, <1>6, <1>7, <1>8, <1>9 DEF Next, Step

\* A private that a thread has recognised as its mutex's is in no other one.
LEMMA AttachedToMineStep ==
    ASSUME IInv, [Next]_vars
    PROVE  AttachedToMine'
<1> USE ConstantsAssumption
   DEF GoTo, GoToWith, Set, SetWaiters, SetFlag, Ptr, TypeOK, PCs, Owning,
       Locking, Unlocking, InstalledOnce, FreshIsPrivate, Fresh, Passing,
       AttachedToMine, Attached
<1>0. TypeOK /\ FreshIsPrivate /\ InstalledOnce /\ AttachedToMine
  BY DEF IInv
<1>1. CASE UNCHANGED vars
  BY <1>0, <1>1 DEF vars, shared
<1>2. ASSUME NEW t \in Threads, NEW m \in Mutexes, NEW limit \in Limits,
             Enter(t, m, limit)
      PROVE  AttachedToMine'
  BY <1>0, <1>2 DEF Enter, shared
<1>3. ASSUME NEW t \in Threads, Load(t) \/ Peek(t) \/ Check(t) \/ Recheck(t)
             \/ TimedOut(t)
      PROVE  AttachedToMine'
  BY <1>0, <1>3 DEF Load, Peek, Check, Recheck, TimedOut, shared
<1>4. ASSUME NEW t \in Threads, Allocate(t) \/ Ref(t) \/ Deref(t)
      PROVE  AttachedToMine'
  BY <1>0, <1>4 DEF Allocate, Ref, Deref, AfterDeref, shared
<1>5. ASSUME NEW t \in Threads, CountWaiter(t) \/ Uncount(t) \/ Mark(t)
             \/ DerefWaiters(t)
      PROVE  AttachedToMine'
  BY <1>0, <1>5
     DEF CountWaiter, Uncount, Mark, DerefWaiters, AfterWaiters, shared
<1>6. ASSUME NEW t \in Threads, FastTryLock(t) \/ Install(t) \/ Take(t)
             \/ Unset(t)
      PROVE  AttachedToMine'
  BY <1>0, <1>6 DEF FastTryLock, Install, Take, Unset, shared
<1>7. ASSUME NEW t \in Threads, Unlock(t) PROVE AttachedToMine'
  <2>1. CASE Ptr(t) = Dummy
    BY <1>0, <1>7, <2>1 DEF Unlock, shared
  <2>2. CASE Ptr(t) # Dummy
    <3>1. Ptr(t) \in Privates
      BY <1>7, <2>2, OwnedIsLocked DEF Unlock
    <3> QED
      BY <1>0, <1>7, <2>2, <3>1 DEF Unlock, shared
  <2> QED
    BY <2>1, <2>2
<1>8. ASSUME NEW t \in Threads, Woken(t) \/ WakeUp(t)
      PROVE  AttachedToMine'
  BY <1>0, <1>8 DEF Woken, WakeUp, shared
<1>9. ASSUME NEW t \in Threads, ResetByOwner(t) \/ Flag(t) \/ ResetByUnlocker(t)
      PROVE  AttachedToMine'
  BY <1>0, <1>9 DEF ResetByOwner, Flag, ResetByUnlocker, shared
<1> QED
  BY <1>1, <1>2, <1>3, <1>4, <1>5, <1>6, <1>7, <1>8, <1>9 DEF Next, Step

\* The right to a mutex is not doubled: who takes it finds it free, waited for
\* it to be handed over, or takes it from the thread that is unlocking.
LEMMA OneTokenStep ==
    ASSUME IInv, [Next]_vars
    PROVE  OneToken'
<1> USE ConstantsAssumption
   DEF GoTo, GoToWith, Set, SetWaiters, SetFlag, Ptr, TypeOK, PCs, Owning,
       Locking, Unlocking, OneToken, SomeToken, HasToken, Pending,
       InstalledOnce, FreshIsPrivate, Fresh, Passing, AttachedToMine, Attached,
       LinkedOrNot, Linked, Unlinked, TakenFromUnlocker, WakeupIsExpected
<1>0. TypeOK /\ OneToken /\ SomeToken /\ InstalledOnce /\ FreshIsPrivate
     /\ AttachedToMine /\ LinkedOrNot /\ TakenFromUnlocker /\ WakeupIsExpected
  BY DEF IInv
<1>1. CASE UNCHANGED vars
  BY <1>0, <1>1 DEF vars, shared
<1>2. ASSUME NEW t \in Threads, NEW m \in Mutexes, NEW limit \in Limits,
             Enter(t, m, limit)
      PROVE  OneToken'
  BY <1>0, <1>2 DEF Enter, shared
<1>3. ASSUME NEW t \in Threads, Load(t) \/ Peek(t) \/ Check(t) \/ Recheck(t)
             \/ TimedOut(t)
      PROVE  OneToken'
  BY <1>0, <1>3 DEF Load, Peek, Check, Recheck, TimedOut, shared
<1>4. ASSUME NEW t \in Threads, Allocate(t) \/ Ref(t) \/ Deref(t)
      PROVE  OneToken'
  BY <1>0, <1>4 DEF Allocate, Ref, Deref, AfterDeref, shared
<1>5. ASSUME NEW t \in Threads, CountWaiter(t) \/ Uncount(t) \/ Mark(t)
             \/ DerefWaiters(t)
      PROVE  OneToken'
  BY <1>0, <1>5
     DEF CountWaiter, Uncount, Mark, DerefWaiters, AfterWaiters, shared
<1>6. ASSUME NEW t \in Threads, FastTryLock(t) PROVE OneToken'
  BY <1>0, <1>6 DEF FastTryLock, shared
<1>7. ASSUME NEW t \in Threads, Install(t) PROVE OneToken'
  BY <1>0, <1>7 DEF Install, shared
<1>8. ASSUME NEW t \in Threads, Take(t) PROVE OneToken'
  BY <1>0, <1>8 DEF Take, shared
<1>9. ASSUME NEW t \in Threads, Unlock(t) PROVE OneToken'
  <2>1. CASE Ptr(t) = Dummy
    BY <1>0, <1>9, <2>1 DEF Unlock, shared
  <2>2. CASE Ptr(t) # Dummy
    <3>1. Ptr(t) \in Privates
      BY <1>9, <2>2, OwnedIsLocked DEF Unlock
    <3> QED
      BY <1>0, <1>9, <2>2, <3>1 DEF Unlock, shared
  <2> QED
    BY <2>1, <2>2
<1>10. ASSUME NEW t \in Threads, Unset(t) PROVE OneToken'
  <2>1. CASE Ptr(t) # d[t]
    BY <1>0, <1>10, <2>1 DEF Unset, shared
  <2>2. CASE Ptr(t) = d[t]
    <3>1. \A u \in Threads :
              HasToken(u)' => HasToken(u) /\ u # t /\ mutex[u] # mutex[t]
      BY <1>0, <1>10, <2>2 DEF Unset, shared
    <3> QED
      BY <1>0, <1>10, <2>2, <3>1 DEF Unset, shared
  <2> QED
    BY <2>1, <2>2
<1>11. ASSUME NEW t \in Threads, Woken(t) \/ WakeUp(t)
      PROVE  OneToken'
  BY <1>0, <1>11 DEF Woken, WakeUp, shared
<1>12. ASSUME NEW t \in Threads, ResetByOwner(t) \/ Flag(t)
             \/ ResetByUnlocker(t)
      PROVE  OneToken'
  BY <1>0, <1>12 DEF ResetByOwner, Flag, ResetByUnlocker, shared
<1> QED
  BY <1>1, <1>2, <1>3, <1>4, <1>5, <1>6, <1>7, <1>8, <1>9, <1>10, <1>11, <1>12
     DEF Next, Step

\* Nor is it lost.
LEMMA SomeTokenStep ==
    ASSUME IInv, [Next]_vars
    PROVE  SomeToken'
<1> USE ConstantsAssumption
   DEF GoTo, GoToWith, Set, SetWaiters, SetFlag, Ptr, TypeOK, PCs, Owning,
       Locking, Unlocking, OneToken, SomeToken, HasToken, Pending,
       InstalledOnce, FreshIsPrivate, Fresh, Passing, AttachedToMine, Attached,
       LinkedOrNot, Linked, Unlinked, TakenFromUnlocker, WakeupIsExpected
<1>0. TypeOK /\ OneToken /\ SomeToken /\ InstalledOnce /\ FreshIsPrivate
     /\ AttachedToMine /\ LinkedOrNot /\ TakenFromUnlocker /\ WakeupIsExpected
  BY DEF IInv
<1>1. CASE UNCHANGED vars
  BY <1>0, <1>1 DEF vars, shared
<1>2. ASSUME NEW t \in Threads, NEW m \in Mutexes, NEW limit \in Limits,
             Enter(t, m, limit)
      PROVE  SomeToken'
  BY <1>0, <1>2 DEF Enter, shared
<1>3. ASSUME NEW t \in Threads, Load(t) \/ Peek(t) \/ Check(t) \/ Recheck(t)
             \/ TimedOut(t)
      PROVE  SomeToken'
  BY <1>0, <1>3 DEF Load, Peek, Check, Recheck, TimedOut, shared
<1>4. ASSUME NEW t \in Threads, Allocate(t) \/ Ref(t) \/ Deref(t)
      PROVE  SomeToken'
  BY <1>0, <1>4 DEF Allocate, Ref, Deref, AfterDeref, shared
<1>5. ASSUME NEW t \in Threads, CountWaiter(t) \/ Uncount(t) \/ Mark(t)
             \/ DerefWaiters(t)
      PROVE  SomeToken'
  BY <1>0, <1>5
     DEF CountWaiter, Uncount, Mark, DerefWaiters, AfterWaiters, shared
<1>6. ASSUME NEW t \in Threads, FastTryLock(t) \/ Install(t) \/ Take(t)
             \/ Unlock(t) \/ Unset(t)
      PROVE  SomeToken'
  BY <1>0, <1>6 DEF FastTryLock, Install, Take, Unlock, Unset, shared
<1>7. ASSUME NEW t \in Threads, Woken(t) \/ WakeUp(t)
      PROVE  SomeToken'
  BY <1>0, <1>7 DEF Woken, WakeUp, shared
<1>8. ASSUME NEW t \in Threads, ResetByOwner(t) \/ Flag(t) \/ ResetByUnlocker(t)
      PROVE  SomeToken'
  BY <1>0, <1>8 DEF ResetByOwner, Flag, ResetByUnlocker, shared
<1> QED
  BY <1>1, <1>2, <1>3, <1>4, <1>5, <1>6, <1>7, <1>8 DEF Next, Step

\* A private leaves its mutex when it has no waiters, and does not come back.
LEMMA LinkedOrNotStep ==
    ASSUME IInv, [Next]_vars
    PROVE  LinkedOrNot'
<1> USE ConstantsAssumption
   DEF GoTo, GoToWith, Set, SetWaiters, SetFlag, Ptr, TypeOK, PCs, Owning,
       Locking, Unlocking, OneToken, HasToken, Pending, InstalledOnce,
       FreshIsPrivate, Fresh, Passing, AttachedToMine, Attached, LinkedOrNot,
       Linked, Unlinked, TakenFromUnlocker, OneMarks, Counted, NoneCounted,
       Marking
<1>0. TypeOK /\ OneToken /\ FreshIsPrivate /\ InstalledOnce /\ AttachedToMine
     /\ LinkedOrNot /\ TakenFromUnlocker /\ OneMarks
  BY DEF IInv
<1>1. CASE UNCHANGED vars
  BY <1>0, <1>1 DEF vars, shared
<1>2. ASSUME NEW t \in Threads, NEW m \in Mutexes, NEW limit \in Limits,
             Enter(t, m, limit)
      PROVE  LinkedOrNot'
  BY <1>0, <1>2 DEF Enter, shared
<1>3. ASSUME NEW t \in Threads, Load(t) \/ Peek(t) \/ Check(t) \/ Recheck(t)
             \/ TimedOut(t)
      PROVE  LinkedOrNot'
  BY <1>0, <1>3 DEF Load, Peek, Check, Recheck, TimedOut, shared
<1>4. ASSUME NEW t \in Threads, Allocate(t) \/ Ref(t) \/ Deref(t)
      PROVE  LinkedOrNot'
  BY <1>0, <1>4 DEF Allocate, Ref, Deref, AfterDeref, shared
<1>5. ASSUME NEW t \in Threads, CountWaiter(t) \/ Uncount(t) \/ Mark(t)
             \/ DerefWaiters(t)
      PROVE  LinkedOrNot'
  BY <1>0, <1>5
     DEF CountWaiter, Uncount, Mark, DerefWaiters, AfterWaiters, shared
<1>6. ASSUME NEW t \in Threads, FastTryLock(t) \/ Install(t)
      PROVE  LinkedOrNot'
  BY <1>0, <1>6 DEF FastTryLock, Install, shared
<1>7. ASSUME NEW t \in Threads, Take(t) PROVE LinkedOrNot'
  <2>1. Ptr(t) = d[t] =>
            \A u \in Threads : pc[u] \in Linked => mutex[u] # mutex[t]
    BY <1>0, <1>7, UnlockedIsLeft DEF Take
  <2> QED
    BY <1>0, <1>7, <2>1 DEF Take, shared
<1>8. ASSUME NEW t \in Threads, Unlock(t) PROVE LinkedOrNot'
  <2>1. CASE Ptr(t) = Dummy
    BY <1>0, <1>8, <2>1 DEF Unlock, shared
  <2>2. CASE Ptr(t) # Dummy
    <3>1. Ptr(t) \in Privates
      BY <1>8, <2>2, OwnedIsLocked DEF Unlock
    <3> QED
      BY <1>0, <1>8, <2>2, <3>1 DEF Unlock, shared
  <2> QED
    BY <2>1, <2>2
<1>9. ASSUME NEW t \in Threads, Unset(t) PROVE LinkedOrNot'
  <2>1. Ptr(t) = d[t] =>
            \A u \in Threads : pc[u] \in Linked => mutex[u] # mutex[t]
    BY <1>9, UnlockedIsLeft DEF Unset
  <2> QED
    BY <1>0, <1>9, <2>1 DEF Unset, shared
<1>10. ASSUME NEW t \in Threads, Woken(t) \/ WakeUp(t)
      PROVE  LinkedOrNot'
  BY <1>0, <1>10 DEF Woken, WakeUp, shared
<1>11. ASSUME NEW t \in Threads, ResetByOwner(t) \/ Flag(t)
             \/ ResetByUnlocker(t)
      PROVE  LinkedOrNot'
  BY <1>0, <1>11 DEF ResetByOwner, Flag, ResetByUnlocker, shared
<1> QED
  BY <1>1, <1>2, <1>3, <1>4, <1>5, <1>6, <1>7, <1>8, <1>9, <1>10, <1>11
     DEF Next, Step

\* A thread that finds waiters at -BigNumber has found a mutex being unlocked.
LEMMA TakenFromUnlockerStep ==
    ASSUME IInv, [Next]_vars
    PROVE  TakenFromUnlocker'
<1> USE ConstantsAssumption
   DEF GoTo, GoToWith, Set, SetWaiters, SetFlag, Ptr, TypeOK, PCs, Owning,
       Locking, Unlocking, FreshIsPrivate, Fresh, Passing, AttachedToMine,
       Attached, TakenFromUnlocker, LinkedOrNot, Linked, Unlinked, OneMarks,
       WaitersAreCounted, NoneCounted, Marking
<1>0. TypeOK /\ FreshIsPrivate /\ AttachedToMine /\ TakenFromUnlocker
     /\ LinkedOrNot /\ OneMarks /\ WaitersAreCounted
  BY DEF IInv
<1>1. CASE UNCHANGED vars
  BY <1>0, <1>1 DEF vars, shared
<1>2. ASSUME NEW t \in Threads, NEW m \in Mutexes, NEW limit \in Limits,
             Enter(t, m, limit)
      PROVE  TakenFromUnlocker'
  BY <1>0, <1>2 DEF Enter, shared
<1>3. ASSUME NEW t \in Threads, Load(t) \/ Peek(t) \/ Check(t) \/ Recheck(t)
             \/ TimedOut(t)
      PROVE  TakenFromUnlocker'
  BY <1>0, <1>3 DEF Load, Peek, Check, Recheck, TimedOut, shared
<1>4. ASSUME NEW t \in Threads, Allocate(t) \/ Ref(t) \/ Deref(t)
      PROVE  TakenFromUnlocker'
  BY <1>0, <1>4 DEF Allocate, Ref, Deref, AfterDeref, shared
<1>5. ASSUME NEW t \in Threads, Uncount(t) \/ Mark(t) \/ DerefWaiters(t)
      PROVE  TakenFromUnlocker'
  BY <1>0, <1>5 DEF Uncount, Mark, DerefWaiters, AfterWaiters, shared
<1>6. ASSUME NEW t \in Threads, CountWaiter(t) PROVE TakenFromUnlocker'
  <2>1. ASSUME waiters[d[t]] = -BigNumber, Ptr(t) = d[t]
        PROVE  \E u \in Threads :
                   pc[u] = "unset" /\ d[u] = d[t] /\ mutex[u] = mutex[t]
    <3>1. d[t] \in Privates
      BY <1>0, <1>6 DEF CountWaiter
    <3>2. PICK u \in Threads : pc[u] \in NoneCounted /\ d[u] = d[t]
      BY <2>1, <3>1, BigNumberMeansNone
    <3> QED
      BY <1>0, <2>1, <3>2
  <2>2. \A u \in Threads \ {t} : pc'[u] = pc[u] /\ d'[u] = d[u]
    BY <1>0, <1>6 DEF CountWaiter
  <2> QED
    BY <1>0, <1>6, <2>1, <2>2 DEF CountWaiter, shared
<1>7. ASSUME NEW t \in Threads, FastTryLock(t) \/ Install(t) \/ Take(t)
             \/ Unlock(t) \/ Unset(t)
      PROVE  TakenFromUnlocker'
  BY <1>0, <1>7 DEF FastTryLock, Install, Take, Unlock, Unset, shared
<1>8. ASSUME NEW t \in Threads, Woken(t) \/ WakeUp(t)
      PROVE  TakenFromUnlocker'
  BY <1>0, <1>8 DEF Woken, WakeUp, shared
<1>9. ASSUME NEW t \in Threads, ResetByOwner(t) PROVE TakenFromUnlocker'
  BY <1>0, <1>9 DEF ResetByOwner, shared
<1>10. ASSUME NEW t \in Threads, Flag(t) PROVE TakenFromUnlocker'
  BY <1>0, <1>10 DEF Flag, shared
<1>11. ASSUME NEW t \in Threads, ResetByUnlocker(t) PROVE TakenFromUnlocker'
  BY <1>0, <1>11 DEF ResetByUnlocker, shared
<1> QED
  BY <1>1, <1>2, <1>3, <1>4, <1>5, <1>6, <1>7, <1>8, <1>9, <1>10, <1>11
     DEF Next, Step

\* A wake-up has a waiter, or a flag that speaks for one that has left.
LEMMA WakeupIsExpectedStep ==
    ASSUME IInv, [Next]_vars
    PROVE  WakeupIsExpected'
<1> USE ConstantsAssumption
   DEF GoTo, GoToWith, Set, SetWaiters, SetFlag, Ptr, TypeOK, PCs, Owning,
       Locking, Unlocking, OneToken, HasToken, Pending, FreshIsPrivate, Fresh,
       Passing, AttachedToMine, Attached, LinkedOrNot, Linked, Unlinked,
       TakenFromUnlocker, WakeupIsExpected, Expected
<1>0. TypeOK /\ OneToken /\ FreshIsPrivate /\ AttachedToMine /\ LinkedOrNot
     /\ TakenFromUnlocker /\ WakeupIsExpected
  BY DEF IInv
<1>1. CASE UNCHANGED vars
  BY <1>0, <1>1 DEF vars, shared
<1>2. ASSUME NEW t \in Threads, NEW m \in Mutexes, NEW limit \in Limits,
             Enter(t, m, limit)
      PROVE  WakeupIsExpected'
  BY <1>0, <1>2 DEF Enter, shared
<1>3. ASSUME NEW t \in Threads, Load(t) \/ Peek(t) \/ Check(t) \/ Recheck(t)
             \/ TimedOut(t)
      PROVE  WakeupIsExpected'
  BY <1>0, <1>3 DEF Load, Peek, Check, Recheck, TimedOut, shared
<1>4. ASSUME NEW t \in Threads, Allocate(t) \/ Ref(t)
      PROVE  WakeupIsExpected'
  BY <1>0, <1>4 DEF Allocate, Ref, shared
<1>5. ASSUME NEW t \in Threads, Deref(t) PROVE WakeupIsExpected'
  BY <1>0, <1>5 DEF Deref, AfterDeref, shared
<1>6. ASSUME NEW t \in Threads, CountWaiter(t) \/ Uncount(t)
      PROVE  WakeupIsExpected'
  BY <1>0, <1>6 DEF CountWaiter, Uncount, shared
<1>7. ASSUME NEW t \in Threads, Mark(t) PROVE WakeupIsExpected'
  <2>1. waiters[d[t]] # 0 => Expected(d[t])
    <3>1. d[t] \in Privates /\ waiters[d[t]] = Cardinality(Counted(d[t]))
      BY <1>7, MarkSeesWaiters DEF Mark
    <3>2. Cardinality({}) = 0
      BY FS_EmptySet
    <3>3. ASSUME NEW u \in Counted(d[t]) PROVE Expected(d[t])
      <4>1. u \in Threads /\ d[u] = d[t] /\ pc[u] \in Counting
        BY DEF Counted
      <4> QED
        BY <1>0, <1>7, <4>1 DEF Mark, Counting
    <3> QED
      BY <3>1, <3>2, <3>3
  <2> QED
    BY <1>0, <1>7, <2>1 DEF Mark, shared
<1>8. ASSUME NEW t \in Threads, DerefWaiters(t) PROVE WakeupIsExpected'
  BY <1>0, <1>8 DEF DerefWaiters, AfterWaiters, shared
<1>9. ASSUME NEW t \in Threads, FastTryLock(t) \/ Install(t) \/ Take(t)
             \/ Unlock(t) \/ Unset(t)
      PROVE  WakeupIsExpected'
  BY <1>0, <1>9 DEF FastTryLock, Install, Take, Unlock, Unset, shared
<1>10. ASSUME NEW t \in Threads, Woken(t) \/ WakeUp(t)
      PROVE  WakeupIsExpected'
  BY <1>0, <1>10 DEF Woken, WakeUp, shared
<1>11. ASSUME NEW t \in Threads, ResetByOwner(t) \/ Flag(t)
             \/ ResetByUnlocker(t)
      PROVE  WakeupIsExpected'
  BY <1>0, <1>11 DEF ResetByOwner, Flag, ResetByUnlocker, shared
<1> QED
  BY <1>1, <1>2, <1>3, <1>4, <1>5, <1>6, <1>7, <1>8, <1>9, <1>10, <1>11
     DEF Next, Step

-----------------------------------------------------------------------------
\* The theorems.

\* The initial states satisfy the invariant.
LEMMA InitInv == Init => IInv
<1> SUFFICES ASSUME Init PROVE IInv
  OBVIOUS
<1> USE ConstantsAssumption DEF Init
<1>1. TypeOK
  BY DEF TypeOK, PCs
<1>2. OneToken /\ SomeToken
  BY DEF OneToken, SomeToken, HasToken, Owning
<1>3. FreshIsPrivate /\ InstalledOnce /\ AttachedToMine /\ LinkedOrNot
  BY DEF FreshIsPrivate, Fresh, InstalledOnce, AttachedToMine, Attached,
         LinkedOrNot, Linked, Unlinked
<1>4. TakenFromUnlocker /\ OneMarks /\ WakeupIsExpected /\ FreeIsUnreferenced
  BY DEF TakenFromUnlocker, OneMarks, Marking, NoneCounted, WakeupIsExpected,
         FreeIsUnreferenced
<1>5. ASSUME NEW p \in Privates
      PROVE  /\ Counted(p) = {} /\ Referring(p) = {} /\ ReferringTwice(p) = {}
             /\ OwnedThrough(p) = {}
  BY DEF Counted, Referring, ReferringTwice, OwnedThrough
<1>6. WaitersAreCounted /\ RefCountIsReferences
  BY <1>5, FS_EmptySet DEF WaitersAreCounted, RefCountIsReferences
<1> QED
  BY <1>1, <1>2, <1>3, <1>4, <1>6 DEF IInv

\* The invariant is inductive.
LEMMA Invariance == Spec => []IInv
<1>1. ASSUME IInv, [Next]_vars PROVE IInv'
  BY <1>1, TypeStep, OneTokenStep, SomeTokenStep, FreshIsPrivateStep,
     InstalledOnceStep, AttachedToMineStep, LinkedOrNotStep,
     TakenFromUnlockerStep, WaitersStep, OneMarksStep, WakeupIsExpectedStep,
     FreeStep, ReferencesStep DEF IInv
<1> QED
  BY InitInv, <1>1, PTL DEF Spec

\* The variables have their types, whatever the threads do.
THEOREM TypeCorrect == Spec => []TypeOK
<1>1. IInv => TypeOK
  BY DEF IInv
<1> QED
  BY Invariance, <1>1, PTL

\* The reference count of a QMutexPrivate is that of the references that
\* lockInternal, unlockInternal, the mutex and possiblyUnlocked hold to it.
THEOREM ReferencesAreCounted == Spec => []RefCountIsReferences
<1>1. IInv => RefCountIsReferences
  BY DEF IInv
<1> QED
  BY Invariance, <1>1, PTL

\* A private returns to the freelist as QMutexPrivate::allocate expects to
\* find it, and without a wake-up left for the next mutex.
THEOREM FreelistIsClean == Spec => []FreeIsClean
<1>1. ASSUME IInv PROVE FreeIsClean
  <2> SUFFICES ASSUME NEW p \in free
               PROVE  /\ refCount[p] = 0 /\ waiters[p] = 0
                      /\ ~possiblyUnlocked[p] /\ ~wakeup[p]
    BY DEF FreeIsClean
  <2>1. p \in Privates /\ refCount[p] = 0
    BY <1>1 DEF IInv, TypeOK, FreeIsUnreferenced
  <2>2. Referring(p) = {} /\ ~possiblyUnlocked[p]
    BY <1>1, <2>1, FreeIsUnused
  <2>3. \A t \in Threads : d[t] = p => pc[t] \in {"peek", "ref"}
    BY <2>2 DEF Referring
  <2>4. waiters[p] = 0
    <3>1. Counted(p) = {} /\ Cardinality({}) = 0
      BY <2>3, FS_EmptySet DEF Counted, Counting
    <3> QED
      BY <1>1, <2>1, <2>3, <3>1
         DEF IInv, WaitersAreCounted, Marking, NoneCounted
  <2>5. ~wakeup[p]
    BY <1>1, <2>1, FreeIsNotInstalled DEF IInv, WakeupIsExpected
  <2> QED
    BY <2>1, <2>2, <2>4, <2>5
<1> QED
  BY Invariance, <1>1, PTL

\* A thread that waits for a mutex without a wake-up on its way has somebody
\* to wait for: the mutex is owned or on its way through unlockInternal.
THEOREM WaitersAreNotForgotten == Spec => []NotForgotten
<1>1. ASSUME IInv PROVE NotForgotten
  <2> SUFFICES ASSUME NEW t \in Threads, pc[t] = "wait", ~wakeup[d[t]]
               PROVE  \E u \in Threads : /\ mutex[u] = mutex[t]
                                         /\ pc[u] \notin {"idle", "wait"}
    BY DEF NotForgotten
  <2>1. mutex[t] \in Mutexes /\ Ptr(t) = d[t] /\ d[t] # Null
    BY <1>1 DEF IInv, TypeOK, LinkedOrNot, Linked
  <2>2. PICK u \in Threads : HasToken(u) /\ mutex[u] = mutex[t]
    BY <1>1, <2>1 DEF IInv, SomeToken, Pending, Ptr
  <2> QED
    BY <2>2 DEF HasToken, Owning
<1> QED
  BY Invariance, <1>1, PTL

-----------------------------------------------------------------------------
\* The refinement.

\* A mutex has one owner at most, who is the abstract holder.
LEMMA HolderIsOwner ==
    ASSUME IInv, NEW m \in Mutexes
    PROVE  /\ \A t \in Owners(m) : Holder(m) = t /\ Owners(m) = {t}
           /\ Owners(m) = {} => Holder(m) = NoThread
<1>1. \A t, u \in Owners(m) : t = u
  BY DEF Owners, IInv, OneToken, HasToken
<1> QED
  BY <1>1 DEF Holder, Owners

\* The same in the next state, where the steps below need it.
LEMMA HolderIsOwnerNext ==
    ASSUME IInv', NEW m \in Mutexes
    PROVE  /\ \A t \in Owners(m)' : Holder(m)' = t /\ Owners(m)' = {t}
           /\ Owners(m)' = {} => Holder(m)' = NoThread
<1>1. \A t, u \in Owners(m)' : t = u
  BY DEF Owners, IInv, OneToken, HasToken
<1> QED
  BY <1>1 DEF Holder, Owners

\* While a thread takes a mutex, nobody owns it.
LEMMA TakenWhenFree ==
    ASSUME IInv, NEW t \in Threads, FastTryLock(t) \/ Take(t) \/ Woken(t),
           pc'[t] \in Owning
    PROVE  Owners(mutex[t]) = {}
<1>0. TypeOK /\ OneToken
  BY DEF IInv
<1>1. CASE FastTryLock(t)
  BY <1>0, <1>1 DEF FastTryLock, Owners, OneToken, HasToken, Ptr
<1>2. CASE Take(t)
  <2>1. Ptr(t) = d[t]
    BY <1>0, <1>2 DEF Take, GoTo, GoToWith, TypeOK, Owning
  <2>2. PICK u \in Threads :
            HasToken(u) /\ pc[u] = "unset" /\ mutex[u] = mutex[t]
    BY <1>2, <2>1 DEF Take, IInv, TakenFromUnlocker, HasToken, Ptr
  <2> QED
    BY <1>0, <2>2 DEF Owners, OneToken, HasToken, Owning
<1>3. CASE Woken(t)
  <2>1. mutex[t] \in Mutexes /\ Pending(mutex[t])
    BY <1>0, <1>3 DEF Woken, IInv, TypeOK, LinkedOrNot, Linked, Pending, Ptr
  <2> QED
    BY <1>0, <2>1 DEF Owners, OneToken, HasToken
<1> QED
  BY <1>1, <1>2, <1>3

\* Only these steps make a thread the owner, and only Unlock ends that.
LEMMA OwningChanges ==
    ASSUME IInv, NEW t \in Threads, ByThread(t)
    PROVE  \/ /\ pc[t] \in Owning <=> pc'[t] \in Owning
              /\ pc[t] \in Owning => mutex'[t] = mutex[t]
           \/ /\ FastTryLock(t) \/ Take(t) \/ Woken(t)
              /\ pc[t] \notin Owning /\ pc'[t] \in Owning
              /\ mutex'[t] = mutex[t]
           \/ /\ Unlock(t) /\ pc[t] \in Owning /\ pc'[t] \notin Owning
              /\ mutex'[t] = mutex[t]
<1> USE DEF IInv, TypeOK, Owning, GoTo, GoToWith
<1>1. CASE \E m \in Mutexes, limit \in Limits : Enter(t, m, limit)
  BY <1>1 DEF Enter
<1>2. CASE FastTryLock(t) \/ Take(t) \/ Woken(t) \/ Unlock(t)
  BY <1>2 DEF FastTryLock, Take, Woken, Unlock
<1>3. CASE Load(t) \/ Peek(t) \/ Check(t) \/ Recheck(t) \/ TimedOut(t)
  BY <1>3 DEF Load, Peek, Check, Recheck, TimedOut
<1>4. CASE Allocate(t) \/ Install(t) \/ Ref(t) \/ CountWaiter(t) \/ Uncount(t)
  BY <1>4 DEF Allocate, Install, Ref, CountWaiter, Uncount
<1>5. CASE \/ ResetByOwner(t) \/ Flag(t) \/ Mark(t) \/ Unset(t)
           \/ ResetByUnlocker(t) \/ WakeUp(t)
  <2>1. CASE ResetByOwner(t) \/ Flag(t) \/ ResetByUnlocker(t)
    BY <2>1 DEF ResetByOwner, Flag, ResetByUnlocker
  <2>2. CASE Mark(t) \/ Unset(t) \/ WakeUp(t)
    BY <2>2 DEF Mark, Unset, WakeUp
  <2> QED
    BY <1>5, <2>1, <2>2
<1>6. CASE DerefWaiters(t)
  BY <1>6 DEF DerefWaiters, AfterWaiters
<1>7. CASE Deref(t)
  BY <1>7 DEF Deref, AfterDeref
<1> QED
  BY <1>1, <1>2, <1>3, <1>4, <1>5, <1>6, <1>7 DEF ByThread, Step

\* Every step is one of the abstract mutex m, or leaves its holder alone.
LEMMA StepSimulation ==
    ASSUME IInv, IInv', [Next]_vars, NEW m \in Mutexes
    PROVE  [Mutex(m)!Next]_(Holder(m))
<1> USE HolderIsOwner, HolderIsOwnerNext
<1>1. ASSUME Owners(m)' = Owners(m) PROVE Holder(m)' = Holder(m)
  <2>1. CASE Owners(m) = {}
    BY <1>1, <2>1
  <2>2. CASE Owners(m) # {}
    BY <1>1, <2>2
  <2> QED
    BY <2>1, <2>2
<1>2. CASE UNCHANGED vars
  BY <1>1, <1>2 DEF Owners, vars
<1>3. ASSUME NEW t \in Threads, ByThread(t) PROVE [Mutex(m)!Next]_(Holder(m))
  <2>0. /\ \A u \in Threads \ {t} : pc'[u] = pc[u] /\ mutex'[u] = mutex[u]
        /\ TypeOK
    BY <1>3, OthersStay DEF IInv
  <2>1. CASE /\ pc[t] \in Owning <=> pc'[t] \in Owning
             /\ pc[t] \in Owning => mutex'[t] = mutex[t]
    <3>1. Owners(m)' = Owners(m)
      BY <2>0, <2>1 DEF Owners
    <3> QED
      BY <1>1, <3>1
  <2>2. CASE mutex[t] # m /\ mutex'[t] = mutex[t]
    <3>1. Owners(m)' = Owners(m)
      BY <2>0, <2>2 DEF Owners
    <3> QED
      BY <1>1, <3>1
  <2>3. CASE /\ FastTryLock(t) \/ Take(t) \/ Woken(t)
             /\ pc[t] \notin Owning /\ pc'[t] \in Owning
             /\ mutex[t] = m /\ mutex'[t] = m
    <3>1. Owners(m) = {} /\ t \in Owners(m)'
      BY <2>3, TakenWhenFree DEF Owners
    <3>2. Holder(m) = NoThread /\ Holder(m)' = t
      BY <3>1
    <3> QED
      BY <3>2 DEF Mutex!Next, Mutex!Acquire
  <2>4. CASE /\ pc[t] \in Owning /\ pc'[t] \notin Owning
             /\ mutex[t] = m /\ mutex'[t] = m
    <3>1. t \in Owners(m) /\ Owners(m) = {t}
      BY <2>4 DEF Owners
    <3>2. Owners(m)' = {}
      BY <2>0, <2>4, <3>1 DEF Owners
    <3>3. Holder(m) = t /\ Holder(m)' = NoThread
      BY <3>1, <3>2
    <3> QED
      BY <3>3 DEF Mutex!Next, Mutex!Release
  <2> QED
    BY <1>3, <2>1, <2>2, <2>3, <2>4, OwningChanges
<1> QED
  BY <1>2, <1>3 DEF Next, ByThread

\* The initial state is that of a free mutex.
LEMMA InitSimulation ==
    ASSUME Init, NEW m \in Mutexes
    PROVE  Mutex(m)!Init
BY DEF Init, Mutex!Init, Holder, Owners, Owning

\* All the mutexes implement the abstract one, for any number of threads and
\* mutexes and however few privates they share.
THEOREM Implementation == Spec => ImplementsMutex
<1>1. ASSUME Init PROVE \A m \in Mutexes : Mutex(m)!Init
  BY <1>1, InitSimulation
<1>2. ASSUME IInv, IInv', [Next]_vars
      PROVE  [\A m \in Mutexes : [Mutex(m)!Next]_(Holder(m))]_vars
  BY <1>2, StepSimulation
<1> QED
  BY <1>1, <1>2, Invariance, PTL DEF Spec, ImplementsMutex

\* So the specification of each of them holds by itself.
THEOREM EachMutexImplemented ==
    ASSUME NEW m \in Mutexes
    PROVE  Spec => Mutex(m)!Spec
<1>1. Init => Mutex(m)!Init
  BY InitSimulation
<1>2. IInv /\ IInv' /\ [Next]_vars => [Mutex(m)!Next]_(Holder(m))
  BY StepSimulation
<1> QED
  BY <1>1, <1>2, Invariance, PTL DEF Spec, Mutex!Spec
=============================================================================
