------------------------ MODULE ReadWriteLock_proofs ------------------------
(***************************************************************************)
(* QReadWriteLock excludes whom it should, and leaves no writer asleep     *)
(* over a free lock and readers in one case only, for any number of        *)
(* threads and any depth of recursion.                                     *)
(***************************************************************************)
EXTENDS ReadWriteLock, FiniteSetTheorems, TLAPS

\* The locks taken and not given back, as a set to be counted: the k-th one of
\* thread t is <<t, k>>.
Holds(f) == {h \in Threads \X Nat : h[2] < f[h[1]]}

\* In the condition's count of waiters, and in the lock's.
InWait == {"release", "sleep", "asleep", "signalled", "expired"}
InLock == InWait \cup {"enter", "woken", "timedOut"}
Counted(c) == {t \in Threads : pc[t] \in InWait /\ on[t] = c}
Wanting(c) == {t \in Threads : pc[t] \in InLock /\ on[t] = c}

PCs == InLock \cup {"idle", "wake"}

Places ==
    /\ pc \in [Threads -> PCs] /\ on \in [Threads -> Modes]
    /\ timed \in [Threads -> BOOLEAN]
    /\ mutex \in Threads \cup {NoThread}
    /\ inner \in [Modes -> Threads \cup {NoThread}]
    /\ waiters \in [Modes -> Int] /\ wakeups \in [Modes -> Int]
    /\ waiting \in [Modes -> Int]

Fields ==
    /\ recursive \in BOOLEAN /\ accessCount \in Int
    /\ currentWriter \in Threads \cup {NoThread}
    /\ currentReaders \in [Threads -> Int]
    /\ reads \in [Threads -> Nat] /\ writes \in [Threads -> Nat]

\* accessCount is the number of readers' locks less that of the writer's.
Balance ==
    /\ IsFiniteSet(Holds(reads)) /\ IsFiniteSet(Holds(writes))
    /\ accessCount = Cardinality(Holds(reads)) - Cardinality(Holds(writes))

Exclusive ==
    /\ \A t, u \in Threads : writes[t] > 0 => reads[u] = 0
    /\ \A t, u \in Threads : writes[t] > 0 /\ writes[u] > 0 => t = u

\* What the lock knows of its holders, and what a waiting thread has.
Known ==
    /\ \A t \in Threads : recursive => currentReaders[t] = reads[t]
    /\ \A t \in Threads : recursive => (currentWriter = t <=> writes[t] > 0)
    /\ \A t \in Threads : ~recursive => reads[t] + writes[t] <= 1
    /\ \A t \in Threads : pc[t] \in InLock => reads[t] = 0 /\ writes[t] = 0

HInv == Places /\ Fields /\ Balance /\ Exclusive /\ Known

-----------------------------------------------------------------------------
\* Counting the locks.

LEMMA OneMore ==
    ASSUME NEW f \in [Threads -> Nat], NEW t \in Threads, IsFiniteSet(Holds(f))
    PROVE  LET g == [f EXCEPT ![t] = @ + 1]
           IN /\ g \in [Threads -> Nat] /\ IsFiniteSet(Holds(g))
              /\ Cardinality(Holds(g)) = Cardinality(Holds(f)) + 1
<1> DEFINE g == [f EXCEPT ![t] = @ + 1]
<1>1. g \in [Threads -> Nat]
  OBVIOUS
<1>2. Holds(g) = Holds(f) \cup {<<t, f[t]>>}
  <2>1. ASSUME NEW h \in Threads \X Nat
        PROVE  h[2] < g[h[1]] <=> h[2] < f[h[1]] \/ h = <<t, f[t]>>
    OBVIOUS
  <2>2. <<t, f[t]>> \in Threads \X Nat
    OBVIOUS
  <2> QED
    BY <2>1, <2>2 DEF Holds
<1>3. <<t, f[t]>> \notin Holds(f)
  BY DEF Holds
<1>4. IsFiniteSet(Holds(g)) /\ Cardinality(Holds(g)) = Cardinality(Holds(f)) + 1
  <2> HIDE DEF g
  <2> QED
    BY <1>2, <1>3, FS_AddElement
<1> QED
  BY <1>1, <1>4

LEMMA OneLess ==
    ASSUME NEW f \in [Threads -> Nat], NEW t \in Threads, IsFiniteSet(Holds(f)),
           f[t] > 0
    PROVE  LET g == [f EXCEPT ![t] = @ - 1]
           IN /\ g \in [Threads -> Nat] /\ IsFiniteSet(Holds(g))
              /\ Cardinality(Holds(g)) = Cardinality(Holds(f)) - 1
<1> DEFINE g == [f EXCEPT ![t] = @ - 1]
<1>1. g \in [Threads -> Nat]
  OBVIOUS
<1>2. Holds(g) = Holds(f) \ {<<t, f[t] - 1>>}
  <2>1. ASSUME NEW h \in Threads \X Nat
        PROVE  h[2] < g[h[1]] <=> h[2] < f[h[1]] /\ h # <<t, f[t] - 1>>
    OBVIOUS
  <2> QED
    BY <2>1 DEF Holds
<1>3. <<t, f[t] - 1>> \in Holds(f)
  BY DEF Holds
<1>4. IsFiniteSet(Holds(g)) /\ Cardinality(Holds(g)) = Cardinality(Holds(f)) - 1
  <2> HIDE DEF g
  <2> QED
    <3> DEFINE x == <<t, f[t] - 1>>
    <3>1. /\ IsFiniteSet(Holds(f) \ {x})
          /\ Cardinality(Holds(f) \ {x}) = Cardinality(Holds(f)) - 1
      <4>1. x \in Holds(f)
        BY <1>3
      <4> HIDE DEF x
      <4> QED
        BY <4>1, FS_RemoveElement
    <3> QED
      BY <1>2, <3>1
<1> QED
  BY <1>1, <1>4

LEMMA NoneHeld ==
    ASSUME NEW f \in [Threads -> Nat], IsFiniteSet(Holds(f))
    PROVE  /\ Cardinality(Holds(f)) \in Nat
           /\ Cardinality(Holds(f)) = 0 <=> \A t \in Threads : f[t] = 0
<1>1. Holds(f) = {} <=> \A t \in Threads : f[t] = 0
  <2>1. ASSUME NEW t \in Threads, f[t] # 0 PROVE <<t, 0>> \in Holds(f)
    BY <2>1 DEF Holds
  <2>2. ASSUME NEW h \in Holds(f) PROVE h[1] \in Threads /\ f[h[1]] # 0
    BY <2>2 DEF Holds
  <2> QED
    BY <2>1, <2>2
<1> QED
  BY <1>1, FS_CardinalityType, FS_EmptySet

\* The sign of accessCount tells who has the lock.
LEMMA Sign ==
    ASSUME reads \in [Threads -> Nat], writes \in [Threads -> Nat],
           Balance, Exclusive
    PROVE  /\ accessCount \in Int
           /\ accessCount >= 0 <=> \A t \in Threads : writes[t] = 0
           /\ accessCount <= 0 <=> \A t \in Threads : reads[t] = 0
<1> DEFINE r == Cardinality(Holds(reads))
           w == Cardinality(Holds(writes))
<1>1. /\ r \in Nat /\ (r = 0 <=> \A t \in Threads : reads[t] = 0)
      /\ w \in Nat /\ (w = 0 <=> \A t \in Threads : writes[t] = 0)
  BY NoneHeld DEF Balance
<1>2. r = 0 \/ w = 0
  BY <1>1 DEF Exclusive
<1> QED
  BY <1>1, <1>2 DEF Balance

-----------------------------------------------------------------------------
\* Taking the lock and giving it back.

LEMMA TakeInv ==
    ASSUME HInv, NEW t \in Threads, NEW mode \in Modes, Take(t, mode),
           Again(t, mode) \/ AdmitsTry(mode),
           recursive \/ reads[t] + writes[t] = 0,
           \A u \in Threads : pc'[u] \in InLock => pc[u] \in InLock /\ u # t
    PROVE  /\ (Fields /\ Balance /\ Exclusive /\ Known)'
           /\ [Lock_!Next]_<<reads, writes, recursive>>
<1> USE DEF HInv, Fields
<1>0. /\ accessCount >= 0 <=> \A u \in Threads : writes[u] = 0
      /\ accessCount <= 0 <=> \A u \in Threads : reads[u] = 0
  BY Sign
<1>1. CASE mode = "read"
  <2>1. /\ reads' = [reads EXCEPT ![t] = @ + 1] /\ accessCount' = accessCount + 1
        /\ currentReaders' = IF recursive
                             THEN [currentReaders EXCEPT ![t] = @ + 1]
                             ELSE currentReaders
        /\ UNCHANGED <<writes, currentWriter, recursive>>
    BY <1>1 DEF Take
  <2>2. \A u \in Threads : writes[u] = 0
    BY <1>0, <1>1 DEF Again, AdmitsTry, Known, Exclusive
  <2>3. Balance'
    <3>1. IsFiniteSet(Holds(reads)) /\ IsFiniteSet(Holds(writes))
      BY DEF Balance
    <3>2. /\ IsFiniteSet(Holds(reads'))
          /\ Cardinality(Holds(reads')) = Cardinality(Holds(reads)) + 1
      BY <2>1, <3>1, OneMore
    <3>3. Cardinality(Holds(reads)) \in Nat /\ Cardinality(Holds(writes)) \in Nat
      BY <3>1, FS_CardinalityType
    <3> QED
      BY <2>1, <3>1, <3>2, <3>3 DEF Balance, Holds
  <2>4. Exclusive'
    BY <2>1, <2>2 DEF Exclusive
  <2>5. Known'
    BY <2>1, <2>2 DEF Known
  <2>6. Lock_!LockForRead(t)
    BY <2>1, <2>2 DEF Lock_!LockForRead
  <2>7. Fields'
    BY <2>1
  <2> QED
    BY <2>3, <2>4, <2>5, <2>6, <2>7 DEF Lock_!Next
<1>2. CASE mode = "write"
  <2>1. /\ writes' = [writes EXCEPT ![t] = @ + 1] /\ accessCount' = accessCount - 1
        /\ currentWriter' = IF recursive THEN t ELSE currentWriter
        /\ UNCHANGED <<reads, currentReaders, recursive>>
    BY <1>2 DEF Take
  <2>2. \A u \in Threads : reads[u] = 0 /\ (writes[u] > 0 => u = t)
    BY <1>0, <1>2 DEF Again, AdmitsTry, Known, Exclusive
  <2>3. Balance'
    <3>1. IsFiniteSet(Holds(reads)) /\ IsFiniteSet(Holds(writes))
      BY DEF Balance
    <3>2. /\ IsFiniteSet(Holds(writes'))
          /\ Cardinality(Holds(writes')) = Cardinality(Holds(writes)) + 1
      BY <2>1, <3>1, OneMore
    <3>3. Cardinality(Holds(reads)) \in Nat /\ Cardinality(Holds(writes)) \in Nat
      BY <3>1, FS_CardinalityType
    <3> QED
      BY <2>1, <3>1, <3>2, <3>3 DEF Balance, Holds
  <2>4. Exclusive'
    BY <2>1, <2>2 DEF Exclusive
  <2>5. Known'
    BY <2>1, <2>2, ThreadsAssumption DEF Known
  <2>6. Lock_!LockForWrite(t)
    BY <2>1, <2>2 DEF Lock_!LockForWrite, Lock_!FreeFor
  <2>7. Fields'
    BY <2>1
  <2> QED
    BY <2>3, <2>4, <2>5, <2>6, <2>7 DEF Lock_!Next
<1> QED
  BY <1>1, <1>2 DEF Modes

LEMMA ReleaseInv ==
    ASSUME HInv, NEW t \in Threads, ReleaseOnce(t), reads[t] + writes[t] > 0,
           \A u \in Threads : pc'[u] \in InLock => pc[u] \in InLock
    PROVE  /\ (Fields /\ Balance /\ Exclusive /\ Known)'
           /\ [Lock_!Next]_<<reads, writes, recursive>>
<1> USE DEF HInv, Fields
<1>0. /\ accessCount >= 0 <=> \A u \in Threads : writes[u] = 0
      /\ accessCount <= 0 <=> \A u \in Threads : reads[u] = 0
  BY Sign
<1>1. IsFiniteSet(Holds(reads)) /\ IsFiniteSet(Holds(writes))
  BY DEF Balance
<1>2. Cardinality(Holds(reads)) \in Nat /\ Cardinality(Holds(writes)) \in Nat
  BY <1>1, FS_CardinalityType
<1>3. CASE accessCount > 0
  <2>1. /\ reads' = [reads EXCEPT ![t] = @ - 1] /\ accessCount' = accessCount - 1
        /\ currentReaders' = IF recursive
                             THEN [currentReaders EXCEPT ![t] = @ - 1]
                             ELSE currentReaders
        /\ UNCHANGED <<writes, currentWriter, recursive>>
    BY <1>3 DEF ReleaseOnce
  <2>2. (\A u \in Threads : writes[u] = 0) /\ reads[t] > 0
    BY <1>0, <1>3
  <2>3. Balance'
    <3>1. /\ IsFiniteSet(Holds(reads'))
          /\ Cardinality(Holds(reads')) = Cardinality(Holds(reads)) - 1
      BY <1>1, <2>1, <2>2, OneLess
    <3> QED
      BY <1>1, <1>2, <2>1, <3>1 DEF Balance, Holds
  <2>4. Exclusive' /\ Known'
    BY <2>1, <2>2 DEF Exclusive, Known
  <2>5. Lock_!Unlock(t)
    BY <2>1, <2>2 DEF Lock_!Unlock
  <2>6. Fields'
    BY <2>1, <2>2
  <2> QED
    BY <2>3, <2>4, <2>5, <2>6 DEF Lock_!Next
<1>4. CASE ~(accessCount > 0)
  <2>1. /\ writes' = [writes EXCEPT ![t] = @ - 1] /\ accessCount' = accessCount + 1
        /\ currentWriter' = IF accessCount = -1 THEN NoThread ELSE currentWriter
        /\ UNCHANGED <<reads, currentReaders, recursive>>
    BY <1>4 DEF ReleaseOnce
  <2>2. (\A u \in Threads : reads[u] = 0) /\ writes[t] > 0
    BY <1>0, <1>4
  <2>3. \A u \in Threads : writes[u] > 0 => u = t
    BY <2>2 DEF Exclusive
  <2>4. Balance'
    <3>1. /\ IsFiniteSet(Holds(writes'))
          /\ Cardinality(Holds(writes')) = Cardinality(Holds(writes)) - 1
      BY <1>1, <2>1, <2>2, OneLess
    <3> QED
      BY <1>1, <1>2, <2>1, <3>1 DEF Balance, Holds
  <2>5. Exclusive'
    BY <2>1, <2>2, <2>3 DEF Exclusive
  <2>6. accessCount' = 0 <=> writes'[t] = 0
    <3>1. reads' \in [Threads -> Nat] /\ writes' \in [Threads -> Nat]
      BY <2>1, <2>2
    <3>2. /\ accessCount' \in Int
          /\ accessCount' >= 0 <=> \A u \in Threads : writes'[u] = 0
          /\ accessCount' <= 0 <=> \A u \in Threads : reads'[u] = 0
      <4>1. Cardinality(Holds(reads))' \in Nat
            /\ (Cardinality(Holds(reads))' = 0 <=> \A u \in Threads : reads'[u] = 0)
        BY <1>1, <3>1, <2>1, NoneHeld DEF Holds
      <4>2. Cardinality(Holds(writes))' \in Nat
            /\ (Cardinality(Holds(writes))' = 0 <=> \A u \in Threads : writes'[u] = 0)
        <5>1. IsFiniteSet(Holds(writes'))
          BY <1>1, <2>1, <2>2, OneLess
        <5> QED
          BY <3>1, <5>1, NoneHeld DEF Holds
      <4> QED
        BY <2>1, <2>2, <2>4, <4>1, <4>2 DEF Balance
    <3> QED
      BY <2>1, <2>2, <2>3, <3>2
  <2>7. Known'
    BY <2>1, <2>2, <2>3, <2>6, ThreadsAssumption DEF Known
  <2>8. Lock_!Unlock(t)
    BY <2>1, <2>2 DEF Lock_!Unlock
  <2>9. Fields'
    BY <2>1, <2>2
  <2> QED
    BY <2>4, <2>5, <2>7, <2>8, <2>9 DEF Lock_!Next
<1> QED
  BY <1>3, <1>4

\* A step that leaves the fields alone.
HasNone(t) == reads[t] = 0 /\ writes[t] = 0

LEMMA FieldsKept ==
    ASSUME HInv, UNCHANGED lockVars,
           \A u \in Threads : pc'[u] \in InLock => HasNone(u)
    PROVE  /\ (Fields /\ Balance /\ Exclusive /\ Known)'
           /\ [Lock_!Next]_<<reads, writes, recursive>>
BY DEF HInv, lockVars, Fields, Balance, Exclusive, Known, Holds, HasNone

LEMMA PlacesInv ==
    ASSUME HInv, [Next]_vars
    PROVE  Places'
<1> USE DEF HInv, Places, PCs, InLock, InWait, Modes
<1>0. NoCondition \in Modes
  BY ReadWriteLockAssumption DEF NoCondition
<1>1. CASE UNCHANGED vars
  BY <1>1 DEF vars, waitVars, conditionVars
<1>2. ASSUME NEW t \in Threads, NEW mode \in Modes, NEW limit \in Limits,
             Lock(t, mode, limit)
      PROVE  Places'
  <2>1. CASE UNCHANGED <<waitVars, waiting>>
    BY <2>1 DEF waitVars, conditionVars
  <2>2. CASE /\ Await(t, mode, limit = "timed") /\ UNCHANGED conditionVars
             /\ waiting' = [waiting EXCEPT ![mode] = @ + 1]
    BY <2>2 DEF Await, conditionVars, GoTo
  <2> QED
    BY <1>2, <2>1, <2>2 DEF Lock
<1>3. ASSUME NEW t \in Threads, Retry(t) PROVE Places'
  <2>1. CASE /\ GoTo(t, "idle") /\ Leave(t) /\ UNCHANGED <<mutex, conditionVars>>
             /\ waiting' = [waiting EXCEPT ![on[t]] = @ - 1]
    BY <1>0, <2>1 DEF conditionVars, GoTo, Leave
  <2>2. CASE Await(t, on[t], timed[t]) /\ UNCHANGED <<conditionVars, waiting>>
    BY <2>2 DEF Await, conditionVars, GoTo
  <2> QED
    BY <1>3, <2>1, <2>2 DEF Retry
<1>4. ASSUME NEW t \in Threads, GiveUp(t) PROVE Places'
  BY <1>0, <1>4 DEF GiveUp, conditionVars, GoTo, Leave
<1>5. ASSUME NEW t \in Threads, Unlock(t) PROVE Places'
  <2>1. Unlocked # {} => (CHOOSE mode \in Unlocked : TRUE) \in Modes
    BY DEF Unlocked
  <2> QED
    BY <1>5, <2>1 DEF Unlock, conditionVars, GoTo
<1>6. ASSUME NEW t \in Threads, Wake(t) PROVE Places'
  <2>1. /\ on' \in [Threads -> Modes] /\ timed' \in [Threads -> BOOLEAN]
        /\ mutex' \in Threads \cup {NoThread}
        /\ UNCHANGED <<inner, waiters, waiting>>
    BY <1>0, <1>6 DEF Wake, Leave
  <2>2. CASE WakeOne(t)
    BY <2>1, <2>2 DEF WakeOne, LesserOf, Asleep, GoTo
  <2>3. CASE WakeAll(t)
    BY <2>1, <2>3 DEF WakeAll, Asleep
  <2> QED
    BY <1>6, <2>2, <2>3 DEF Wake
<1>7. ASSUME NEW t \in Threads, Waiting(t) PROVE Places'
  BY <1>7 DEF Waiting, WaitStep, WaitEvent, Enter, Release, Sleep, Expire,
              Spurious, Resume, GoTo, conditionVars
<1> QED
  BY <1>1, <1>2, <1>3, <1>4, <1>5, <1>6, <1>7 DEF Next, Step

\* What each step does to the fields and to the abstract lock.
LEMMA HoldingStep ==
    ASSUME HInv, [Next]_vars
    PROVE  /\ HInv'
           /\ [Lock_!Next]_<<reads, writes, recursive>>
<1> DEFINE Good == /\ (Fields /\ Balance /\ Exclusive /\ Known)'
                   /\ [Lock_!Next]_<<reads, writes, recursive>>
<1>0. pc \in [Threads -> PCs] /\ on \in [Threads -> Modes]
  BY DEF HInv, Places
<1>9. \A u \in Threads : pc[u] \in InLock => HasNone(u)
  BY DEF HInv, Known, HasNone
<1>1. ASSUME UNCHANGED vars PROVE Good
  <2>1. pc' = pc /\ UNCHANGED lockVars
    BY <1>1 DEF vars, waitVars
  <2>2. \A u \in Threads : pc'[u] \in InLock => HasNone(u)
    BY <1>9, <2>1
  <2> QED
    BY <2>1, <2>2, FieldsKept
<1>2. ASSUME NEW t \in Threads, NEW mode \in Modes, NEW limit \in Limits,
             Lock(t, mode, limit)
      PROVE  Good
  <2>0. pc[t] = "idle" /\ (reads[t] + writes[t] = 0 \/ recursive)
    BY <1>2 DEF Lock, MayLock, HInv, Fields
  <2>1. CASE Take(t, mode) /\ UNCHANGED <<waitVars, waiting>>
    <3>1. Again(t, mode) \/ AdmitsTry(mode)
      BY <1>0, <1>2, <2>0, <2>1 DEF Lock, Admits, AdmitsTry, Await, GoTo, waitVars
    <3>2. \A u \in Threads : pc'[u] \in InLock => pc[u] \in InLock /\ u # t
      BY <2>0, <2>1 DEF waitVars, InLock, InWait
    <3> QED
      BY <2>0, <2>1, <3>1, <3>2, TakeInv
  <2>2. CASE ~Again(t, mode) /\ Await(t, mode, limit = "timed") /\ UNCHANGED lockVars
    <3>1. HasNone(t)
      BY <1>2, <2>0, <2>2 DEF Lock, MayLock, Again, HInv, Fields, Known, Modes, HasNone
    <3>2. \A u \in Threads : pc'[u] \in InLock => HasNone(u)
      BY <1>0, <1>9, <3>1, <2>2 DEF Await, GoTo
    <3> QED
      BY <2>2, <3>1, <3>2, FieldsKept
  <2> QED
    BY <1>2, <2>1, <2>2 DEF Lock
<1>3. ASSUME NEW t \in Threads, Retry(t) PROVE Good
  <2>0. pc[t] = "woken" /\ on[t] \in Modes
    BY <1>0, <1>3 DEF Retry
  <2>1. CASE Take(t, on[t]) /\ GoTo(t, "idle")
    <3>1. AdmitsTry(on[t])
      BY <1>3, <2>0, <2>1 DEF Retry, Admits, AdmitsTry, Await, GoTo, Take, lockVars, HInv, Fields
    <3>2. \A u \in Threads : pc'[u] \in InLock => pc[u] \in InLock /\ u # t
      BY <1>0, <2>1 DEF GoTo, InLock, InWait
    <3>3. reads[t] + writes[t] = 0
      BY <2>0 DEF HInv, Known, InLock, InWait
    <3> QED
      BY <2>0, <2>1, <3>1, <3>2, <3>3, TakeInv
  <2>2. CASE Await(t, on[t], timed[t]) /\ UNCHANGED lockVars
    <3>1. \A u \in Threads : pc'[u] \in InLock => HasNone(u)
      BY <1>0, <1>9, <2>0, <2>2 DEF Await, GoTo, InLock, InWait
    <3> QED
      BY <2>2, <3>1, FieldsKept
  <2> QED
    BY <1>3, <2>1, <2>2 DEF Retry
<1>4. ASSUME NEW t \in Threads, GiveUp(t) PROVE Good
  <2>1. \A u \in Threads : pc'[u] \in InLock => HasNone(u)
    BY <1>0, <1>9, <1>4 DEF GiveUp, GoTo, InLock, InWait
  <2> QED
    BY <1>4, <2>1, FieldsKept DEF GiveUp
<1>5. ASSUME NEW t \in Threads, Unlock(t) PROVE Good
  <2>1. \A u \in Threads : pc'[u] \in InLock => pc[u] \in InLock
    BY <1>0, <1>5 DEF Unlock, GoTo, InLock, InWait
  <2> QED
    BY <1>5, <2>1, ReleaseInv DEF Unlock
<1>6. ASSUME NEW t \in Threads, Wake(t) PROVE Good
  <2>1. UNCHANGED lockVars
    BY <1>6 DEF Wake
  <2>2. \A u \in Threads : pc'[u] \in InLock => HasNone(u)
    BY <1>0, <1>9, <1>6 DEF Wake, WakeOne, WakeAll, Asleep, GoTo, InLock, InWait
  <2> QED
    BY <2>1, <2>2, FieldsKept
<1>7. ASSUME NEW t \in Threads, Waiting(t) PROVE Good
  <2>1. UNCHANGED lockVars
    BY <1>7 DEF Waiting
  <2>2. \A u \in Threads : pc'[u] \in InLock => HasNone(u)
    BY <1>0, <1>9, <1>7 DEF Waiting, WaitStep, WaitEvent, Enter, Release, Sleep, Expire,
                      Spurious, Resume, GoTo, InLock, InWait
  <2> QED
    BY <2>1, <2>2, FieldsKept
<1>8. Good
  <2> HIDE DEF Good
  <2>1. CASE UNCHANGED vars
    BY <1>1, <2>1
  <2>2. CASE Next
    <3>1. PICK t \in Threads :
              \/ \E mode \in Modes, limit \in Limits : Lock(t, mode, limit)
              \/ Unlock(t) \/ Step(t) \/ Waiting(t)
      BY <2>2 DEF Next
    <3> QED
      BY <3>1, <1>2, <1>3, <1>4, <1>5, <1>6, <1>7 DEF Step
  <2> QED
    BY <2>1, <2>2
<1> QED
  BY <1>8, PlacesInv DEF HInv

LEMMA HoldingInit == Init => HInv
<1> SUFFICES ASSUME Init PROVE HInv
  OBVIOUS
<1>0. NoCondition \in Modes
  BY ReadWriteLockAssumption DEF NoCondition, Modes
<1>1. Places
  BY <1>0, ReadWriteLockAssumption DEF Init, WaitInit, Places, PCs
<1>2. Fields /\ Exclusive /\ Known
  BY ThreadsAssumption DEF Init, WaitInit, Fields, Exclusive, Known, InLock, InWait
<1>3. Balance
  <2>1. Holds(reads) = {} /\ Holds(writes) = {}
    BY DEF Init, Holds
  <2> QED
    BY <2>1, FS_EmptySet DEF Init, Balance
<1> QED
  BY <1>1, <1>2, <1>3 DEF HInv

\* The lock over a mutex and two wait conditions implements the abstract one:
\* readers share it, a writer has it alone, recursion is counted.
THEOREM Implementation == Spec => ImplementsLock
<1>1. Init => Lock_!Init
  BY DEF Init, Lock_!Init
<1> QED
  BY <1>1, HoldingInit, HoldingStep, PTL DEF Spec, ImplementsLock, Lock_!Spec

-----------------------------------------------------------------------------
\* Who waits, who is woken.

Mutexes ==
    /\ \A t \in Threads : pc[t] \in {"enter", "release", "wake"} => mutex = t
    /\ \A t \in Threads : pc[t] \in {"release", "sleep"} => inner[on[t]] = t

Counting ==
    \A c \in Modes : /\ waiters[c] = Cardinality(Counted(c))
                     /\ waiting[c] = Cardinality(Wanting(c))
                     /\ wakeups[c] >= 0

\* unlock() wakes somebody who is there.
Addressed == \A t \in Threads : pc[t] = "wake" => waiting[on[t]] > 0

\* A thread that sleeps or is about to; a writer that will look at the lock,
\* or who is waking one.
Blocked(t, c) ==
    on[t] = c /\ pc[t] \in {"enter", "release", "sleep", "asleep", "signalled"}
AtWork(t) ==
    /\ on[t] = "write"
    /\ pc[t] \in {"wake", "woken"} \/ (pc[t] = "signalled" /\ wakeups["write"] > 0)

Served ==
    accessCount = 0 /\ (\E t \in Threads : Blocked(t, "write"))
        => \E t \in Threads : AtWork(t)

IInv == HInv /\ Mutexes /\ Counting /\ Addressed /\ Served

LEMMA CountedAreFinite ==
    ASSUME NEW c
    PROVE  /\ IsFiniteSet(Counted(c)) /\ IsFiniteSet(Wanting(c))
           /\ Cardinality(Counted(c)) \in Nat /\ Cardinality(Wanting(c)) \in Nat
           /\ Cardinality(Counted(c)) = 0 <=> Counted(c) = {}
           /\ Cardinality(Wanting(c)) = 0 <=> Wanting(c) = {}
<1>1. Counted(c) \in SUBSET Threads /\ Wanting(c) \in SUBSET Threads
  BY DEF Counted, Wanting
<1>2. IsFiniteSet(Counted(c)) /\ IsFiniteSet(Wanting(c))
  BY <1>1, ThreadsAssumption, FS_Subset
<1> QED
  BY <1>2, FS_CardinalityType, FS_EmptySet

LEMMA MutexesStep ==
    ASSUME HInv, Mutexes, [Next]_vars
    PROVE  Mutexes'
<1>0. Places /\ NoThread \notin Threads
  BY ThreadsAssumption DEF HInv
<1> USE <1>0 DEF Places, PCs, InLock, InWait, Mutexes, Modes
<1>1. CASE UNCHANGED vars
  BY <1>1 DEF vars, waitVars, conditionVars
<1>2. ASSUME NEW t \in Threads, NEW mode \in Modes, NEW limit \in Limits,
             Lock(t, mode, limit)
      PROVE  Mutexes'
  <2>0. mutex = NoThread /\ pc[t] = "idle"
    BY <1>2 DEF Lock, MutexFree, MayLock
  <2>1. CASE UNCHANGED waitVars
    BY <2>1 DEF waitVars, conditionVars
  <2>2. CASE Await(t, mode, limit = "timed") /\ UNCHANGED conditionVars
    BY <2>0, <2>2 DEF Await, conditionVars, GoTo
  <2> QED
    BY <1>2, <2>1, <2>2 DEF Lock
<1>3. ASSUME NEW t \in Threads, Retry(t) PROVE Mutexes'
  <2>0. mutex = NoThread /\ pc[t] = "woken"
    BY <1>3 DEF Retry, MutexFree
  <2>1. CASE GoTo(t, "idle") /\ Leave(t) /\ UNCHANGED <<mutex, conditionVars>>
    BY <2>0, <2>1 DEF conditionVars, GoTo, Leave
  <2>2. CASE Await(t, on[t], timed[t]) /\ UNCHANGED conditionVars
    BY <2>0, <2>2 DEF Await, conditionVars, GoTo
  <2> QED
    BY <1>3, <2>1, <2>2 DEF Retry
<1>4. ASSUME NEW t \in Threads, GiveUp(t) PROVE Mutexes'
  BY <1>4 DEF GiveUp, MutexFree, conditionVars, GoTo, Leave
<1>5. ASSUME NEW t \in Threads, Unlock(t) PROVE Mutexes'
  <2>1. CASE UNCHANGED <<pc, on, mutex>>
    BY <1>5, <2>1 DEF Unlock, conditionVars
  <2>2. CASE mutex' = t /\ GoTo(t, "wake")
    BY <1>5, <2>2 DEF Unlock, MutexFree, conditionVars, GoTo
  <2> QED
    BY <1>5, <2>1, <2>2 DEF Unlock
<1>6. ASSUME NEW t \in Threads, Wake(t) PROVE Mutexes'
  <2>0. /\ pc[t] = "wake" /\ mutex = t /\ mutex' = NoThread /\ inner' = inner
        /\ \A u \in Threads : u # t => on'[u] = on[u]
    BY <1>6 DEF Wake, Leave
  <2>1. pc'[t] = "idle" /\ \A u \in Threads :
            pc'[u] \in {"enter", "release", "wake", "sleep"} => pc'[u] = pc[u]
    BY <1>6, <2>0 DEF Wake, WakeOne, WakeAll, Asleep, GoTo
  <2> QED
    BY <2>0, <2>1
<1>7. ASSUME NEW t \in Threads, Waiting(t) PROVE Mutexes'
  <2>1. CASE Enter(t)
    BY <2>1 DEF Enter, GoTo
  <2>2. CASE Release(t)
    BY <2>2 DEF Release, GoTo, conditionVars
  <2>3. CASE Sleep(t)
    BY <2>3 DEF Sleep, GoTo
  <2>4. CASE Expire(t) \/ Spurious(t)
    BY <2>4 DEF Expire, Spurious, GoTo, conditionVars
  <2>5. CASE Resume(t)
    BY <2>5 DEF Resume, GoTo
  <2> QED
    BY <1>7, <2>1, <2>2, <2>3, <2>4, <2>5 DEF Waiting, WaitStep, WaitEvent
<1> QED
  BY <1>1, <1>2, <1>3, <1>4, <1>5, <1>6, <1>7 DEF Next, Step

\* The counts of one condition after a step that has t join or leave.
LEMMA Tally ==
    ASSUME NEW S, IsFiniteSet(S), NEW t
    PROVE  /\ t \notin S => Cardinality(S \cup {t}) = Cardinality(S) + 1
           /\ t \in S => Cardinality(S \ {t}) = Cardinality(S) - 1
BY FS_AddElement, FS_RemoveElement

\* How the two sets of waiters change, and how the code counts.
SameWaiters == UNCHANGED waiters /\ \A c \in Modes : Counted(c)' = Counted(c)
SameWaiting == UNCHANGED waiting /\ \A c \in Modes : Wanting(c)' = Wanting(c)

WaitersChange(t, c) ==
    /\ \/ /\ t \notin Counted(c) /\ Counted(c)' = Counted(c) \cup {t}
          /\ waiters' = [waiters EXCEPT ![c] = @ + 1]
       \/ /\ t \in Counted(c) /\ Counted(c)' = Counted(c) \ {t}
          /\ waiters' = [waiters EXCEPT ![c] = @ - 1]
    /\ \A d \in Modes : d # c => Counted(d)' = Counted(d)
WaitingChange(t, c) ==
    /\ \/ /\ t \notin Wanting(c) /\ Wanting(c)' = Wanting(c) \cup {t}
          /\ waiting' = [waiting EXCEPT ![c] = @ + 1]
       \/ /\ t \in Wanting(c) /\ Wanting(c)' = Wanting(c) \ {t}
          /\ waiting' = [waiting EXCEPT ![c] = @ - 1]
    /\ \A d \in Modes : d # c => Wanting(d)' = Wanting(d)

LEMMA WaitersStep ==
    ASSUME HInv, Mutexes, Counting, [Next]_vars
    PROVE  \/ SameWaiters
           \/ \E t \in Threads, c \in Modes : WaitersChange(t, c)
<1>0. Places
  BY DEF HInv
<1> USE <1>0 DEF Places, PCs, InLock, InWait, Counted
<1>1. CASE UNCHANGED vars
  BY <1>1 DEF vars, waitVars, conditionVars, SameWaiters
<1>2. ASSUME NEW t \in Threads, NEW mode \in Modes, NEW limit \in Limits,
             Lock(t, mode, limit)
      PROVE  SameWaiters
  <2>0. pc[t] = "idle"
    BY <1>2 DEF Lock, MayLock
  <2>1. CASE UNCHANGED waitVars
    BY <2>1 DEF waitVars, conditionVars, SameWaiters
  <2>2. CASE Await(t, mode, limit = "timed") /\ UNCHANGED conditionVars
    BY <2>0, <2>2 DEF Await, conditionVars, GoTo, SameWaiters
  <2> QED
    BY <1>2, <2>1, <2>2 DEF Lock
<1>3. ASSUME NEW t \in Threads, Retry(t) PROVE SameWaiters
  <2>0. pc[t] = "woken"
    BY <1>3 DEF Retry
  <2>1. CASE GoTo(t, "idle") /\ Leave(t) /\ UNCHANGED conditionVars
    BY <2>0, <2>1 DEF conditionVars, GoTo, Leave, SameWaiters
  <2>2. CASE Await(t, on[t], timed[t]) /\ UNCHANGED conditionVars
    BY <2>0, <2>2 DEF Await, conditionVars, GoTo, SameWaiters
  <2> QED
    BY <1>3, <2>1, <2>2 DEF Retry
<1>4. ASSUME NEW t \in Threads, GiveUp(t) PROVE SameWaiters
  BY <1>4 DEF GiveUp, conditionVars, GoTo, Leave, SameWaiters
<1>5. ASSUME NEW t \in Threads, Unlock(t) PROVE SameWaiters
  <2>1. CASE UNCHANGED <<pc, on>>
    BY <1>5, <2>1 DEF Unlock, conditionVars, SameWaiters
  <2>2. CASE GoTo(t, "wake") /\ \A u \in Threads : u # t => on'[u] = on[u]
    BY <1>5, <2>2 DEF Unlock, conditionVars, GoTo, SameWaiters
  <2> QED
    BY <1>5, <2>1, <2>2 DEF Unlock
<1>6. ASSUME NEW t \in Threads, Wake(t) PROVE SameWaiters
  <2>0. /\ pc[t] = "wake" /\ UNCHANGED waiters
        /\ \A u \in Threads : u # t => on'[u] = on[u]
    BY <1>6 DEF Wake, Leave
  <2>1. pc'[t] = "idle" /\ \A u \in Threads \ {t} :
            pc'[u] \in InWait <=> pc[u] \in InWait
    BY <1>6, <2>0 DEF Wake, WakeOne, WakeAll, Asleep, GoTo
  <2> QED
    BY <2>0, <2>1 DEF SameWaiters
<1>7. ASSUME NEW t \in Threads, NEW c \in Modes, c = on[t], Enter(t)
      PROVE  WaitersChange(t, c)
  BY <1>7 DEF Enter, GoTo, WaitersChange
<1>8. ASSUME NEW t \in Threads, Release(t) \/ Sleep(t) \/ Expire(t) \/ Spurious(t)
      PROVE  SameWaiters
  BY <1>8 DEF Release, Sleep, Expire, Spurious, GoTo, conditionVars, SameWaiters
<1>9. ASSUME NEW t \in Threads, Resume(t), pc[t] = "signalled", wakeups[on[t]] = 0
      PROVE  SameWaiters
  BY <1>9 DEF Resume, GoTo, SameWaiters
<1>10. ASSUME NEW t \in Threads, NEW c \in Modes, c = on[t], Resume(t),
              ~(pc[t] = "signalled" /\ wakeups[c] = 0)
       PROVE  WaitersChange(t, c)
  BY <1>10 DEF Resume, GoTo, WaitersChange
<1> QED
  <2> HIDE DEF Places, PCs, InLock, InWait, Counted
  <2>1. \A t \in Threads : on[t] \in Modes
    BY <1>0 DEF Places
  <2>2. CASE Next
    <3>1. PICK t \in Threads :
              \/ \E mode \in Modes, limit \in Limits : Lock(t, mode, limit)
              \/ Unlock(t) \/ Step(t) \/ Waiting(t)
      BY <2>2 DEF Next
    <3>2. CASE Waiting(t)
      <4>1. PICK c \in Modes : c = on[t]
        BY <2>1
      <4> QED
        BY <3>2, <4>1, <1>7, <1>8, <1>9, <1>10 DEF Waiting, WaitStep, WaitEvent
    <3> QED
      BY <3>1, <3>2, <1>2, <1>3, <1>4, <1>5, <1>6 DEF Step
  <2> QED
    BY <1>1, <2>2

LEMMA WaitingStep ==
    ASSUME HInv, [Next]_vars
    PROVE  \/ SameWaiting
           \/ \E t \in Threads, c \in Modes : WaitingChange(t, c)
<1>0. Places
  BY DEF HInv
<1> USE <1>0 DEF Places, PCs, InLock, InWait, Wanting
<1>1. CASE UNCHANGED vars
  BY <1>1 DEF vars, waitVars, SameWaiting
<1>2. ASSUME NEW t \in Threads, NEW mode \in Modes, NEW limit \in Limits,
             Lock(t, mode, limit)
      PROVE  SameWaiting \/ WaitingChange(t, mode)
  <2>0. pc[t] = "idle"
    BY <1>2 DEF Lock, MayLock
  <2>1. CASE UNCHANGED <<waitVars, waiting>>
    BY <2>1 DEF waitVars, SameWaiting
  <2>2. CASE /\ Await(t, mode, limit = "timed")
             /\ waiting' = [waiting EXCEPT ![mode] = @ + 1]
    BY <2>0, <2>2 DEF Await, GoTo, WaitingChange
  <2> QED
    BY <1>2, <2>1, <2>2 DEF Lock
<1>3. ASSUME NEW t \in Threads, Retry(t) \/ GiveUp(t)
      PROVE  SameWaiting \/ \E c \in Modes : WaitingChange(t, c)
  <2>0. pc[t] \in {"woken", "timedOut"}
    BY <1>3 DEF Retry, GiveUp
  <2>1. PICK c \in Modes : c = on[t]
    OBVIOUS
  <2>2. CASE /\ GoTo(t, "idle") /\ Leave(t)
             /\ waiting' = [waiting EXCEPT ![c] = @ - 1]
    <3>1. /\ pc'[t] = "idle"
          /\ \A u \in Threads \ {t} : pc'[u] = pc[u] /\ on'[u] = on[u]
      BY <2>2 DEF GoTo, Leave
    <3>2. t \in Wanting(c)
      BY <2>0, <2>1
    <3>3. Wanting(c)' = Wanting(c) \ {t}
      BY <3>1
    <3>4. \A d \in Modes : d # c => Wanting(d)' = Wanting(d)
      BY <2>1, <3>1
    <3> QED
      BY <2>2, <3>2, <3>3, <3>4 DEF WaitingChange
  <2>3. CASE Await(t, on[t], timed[t]) /\ UNCHANGED waiting
    BY <2>0, <2>3 DEF Await, GoTo, SameWaiting
  <2> QED
    BY <1>3, <2>1, <2>2, <2>3 DEF Retry, GiveUp
<1>5. ASSUME NEW t \in Threads, Unlock(t) PROVE SameWaiting
  <2>1. CASE UNCHANGED <<pc, on>>
    BY <1>5, <2>1 DEF Unlock, SameWaiting
  <2>2. CASE GoTo(t, "wake") /\ \A u \in Threads : u # t => on'[u] = on[u]
    BY <1>5, <2>2 DEF Unlock, GoTo, SameWaiting
  <2> QED
    BY <1>5, <2>1, <2>2 DEF Unlock
<1>6. ASSUME NEW t \in Threads, Wake(t) PROVE SameWaiting
  <2>0. /\ pc[t] = "wake" /\ UNCHANGED waiting
        /\ \A u \in Threads : u # t => on'[u] = on[u]
    BY <1>6 DEF Wake, Leave
  <2>1. pc'[t] = "idle" /\ \A u \in Threads \ {t} :
            pc'[u] \in InLock <=> pc[u] \in InLock
    BY <1>6, <2>0 DEF Wake, WakeOne, WakeAll, Asleep, GoTo
  <2> QED
    BY <2>0, <2>1 DEF SameWaiting
<1>7. ASSUME NEW t \in Threads, Waiting(t) PROVE SameWaiting
  <2>1. CASE Enter(t) \/ Release(t) \/ Sleep(t) \/ Expire(t) \/ Spurious(t)
    BY <1>7, <2>1 DEF Waiting, Enter, Release, Sleep, Expire, Spurious, GoTo, SameWaiting
  <2>2. CASE Resume(t)
    BY <1>7, <2>2 DEF Waiting, Resume, GoTo, SameWaiting
  <2> QED
    BY <1>7, <2>1, <2>2 DEF Waiting, WaitStep, WaitEvent
<1> QED
  <2> HIDE DEF Places, PCs, InLock, InWait, Wanting
  <2>1. \A t \in Threads : on[t] \in Modes
    BY <1>0 DEF Places
  <2>2. CASE Next
    <3>1. PICK t \in Threads :
              \/ \E mode \in Modes, limit \in Limits : Lock(t, mode, limit)
              \/ Unlock(t) \/ Step(t) \/ Waiting(t)
      BY <2>2 DEF Next
    <3> QED
      BY <2>1, <3>1, <1>2, <1>3, <1>5, <1>6, <1>7 DEF Step
  <2> QED
    BY <1>1, <2>2

LEMMA CountingStep ==
    ASSUME HInv, Mutexes, Counting, [Next]_vars
    PROVE  Counting'
<1>0. Places
  BY DEF HInv
<1>1. \A c \in Modes : waiters'[c] = Cardinality(Counted(c))'
  <2>1. CASE SameWaiters
    BY <2>1 DEF SameWaiters, Counting
  <2>2. ASSUME NEW t \in Threads, NEW c \in Modes, WaitersChange(t, c)
        PROVE  \A d \in Modes : waiters'[d] = Cardinality(Counted(d))'
    <3>0. /\ IsFiniteSet(Counted(c)) /\ waiters[c] = Cardinality(Counted(c))
          /\ t \notin Counted(c) => Cardinality(Counted(c) \cup {t}) = waiters[c] + 1
          /\ t \in Counted(c) => Cardinality(Counted(c) \ {t}) = waiters[c] - 1
      BY CountedAreFinite, Tally DEF Counting
    <3>1. waiters'[c] = Cardinality(Counted(c)')
      BY <1>0, <2>2, <3>0 DEF WaitersChange, Places
    <3>2. \A d \in Modes \ {c} : waiters'[d] = Cardinality(Counted(d)')
      BY <1>0, <2>2 DEF WaitersChange, Counting, Places
    <3> QED
      BY <3>1, <3>2
  <2> QED
    BY <2>1, <2>2, WaitersStep
<1>2. \A c \in Modes : waiting'[c] = Cardinality(Wanting(c))'
  <2>1. CASE SameWaiting
    BY <2>1 DEF SameWaiting, Counting
  <2>2. ASSUME NEW t \in Threads, NEW c \in Modes, WaitingChange(t, c)
        PROVE  \A d \in Modes : waiting'[d] = Cardinality(Wanting(d))'
    <3>0. /\ IsFiniteSet(Wanting(c)) /\ waiting[c] = Cardinality(Wanting(c))
          /\ t \notin Wanting(c) => Cardinality(Wanting(c) \cup {t}) = waiting[c] + 1
          /\ t \in Wanting(c) => Cardinality(Wanting(c) \ {t}) = waiting[c] - 1
      BY CountedAreFinite, Tally DEF Counting
    <3>1. waiting'[c] = Cardinality(Wanting(c)')
      BY <1>0, <2>2, <3>0 DEF WaitingChange, Places
    <3>2. \A d \in Modes \ {c} : waiting'[d] = Cardinality(Wanting(d)')
      BY <1>0, <2>2 DEF WaitingChange, Counting, Places
    <3> QED
      BY <3>1, <3>2
  <2> QED
    BY <2>1, <2>2, WaitingStep
<1>3. \A c \in Modes : wakeups'[c] >= 0
  <2>0. \A c \in Modes : waiters[c] >= 0 /\ wakeups[c] >= 0
    BY CountedAreFinite DEF Counting
  <2>1. CASE UNCHANGED wakeups
    BY <2>0, <2>1
  <2>2. ASSUME NEW t \in Threads, WakeOne(t) \/ WakeAll(t) PROVE \A c \in Modes : wakeups'[c] >= 0
    BY <1>0, <2>0, <2>2 DEF WakeOne, WakeAll, LesserOf, Places
  <2>3. ASSUME NEW t \in Threads, Resume(t) PROVE \A c \in Modes : wakeups'[c] >= 0
    BY <1>0, <2>0, <2>3 DEF Resume, Places
  <2>4. \/ UNCHANGED wakeups
        \/ \E t \in Threads : WakeOne(t) \/ WakeAll(t) \/ Resume(t)
    BY DEF Next, Step, Lock, Retry, GiveUp, Unlock, Wake, Waiting, WaitStep,
           WaitEvent, Enter, Release, Sleep, Expire, Spurious, vars, waitVars, conditionVars
  <2> QED
    BY <2>1, <2>2, <2>3, <2>4
<1> QED
  BY <1>1, <1>2, <1>3 DEF Counting

LEMMA AddressedStep ==
    ASSUME HInv, Mutexes, Addressed, [Next]_vars
    PROVE  Addressed'
<1>0. Places /\ NoThread \notin Threads
  BY ThreadsAssumption DEF HInv
<1> USE <1>0 DEF Places, Mutexes, Addressed
<1>1. CASE \A u \in Threads : pc'[u] # "wake"
  BY <1>1
<1>2. CASE /\ UNCHANGED waiting
           /\ \A u \in Threads : pc'[u] = "wake" => pc[u] = "wake" /\ on'[u] = on[u]
  BY <1>2
<1>3. CASE UNCHANGED vars
  BY <1>2, <1>3 DEF vars, waitVars
<1>4. ASSUME NEW t \in Threads, mutex = NoThread, pc'[t] # "wake",
             \A u \in Threads \ {t} : pc'[u] = pc[u]
      PROVE  Addressed'
  BY <1>1, <1>4
<1>5. ASSUME NEW t \in Threads, NEW mode \in Modes, NEW limit \in Limits,
             Lock(t, mode, limit)
      PROVE  Addressed'
  <2>1. mutex = NoThread
    BY <1>5 DEF Lock, MutexFree
  <2>2. pc'[t] # "wake" /\ \A u \in Threads \ {t} : pc'[u] = pc[u]
    BY <1>5 DEF Lock, MayLock, Await, GoTo, waitVars
  <2> QED
    BY <1>4, <2>1, <2>2
<1>6. ASSUME NEW t \in Threads, Retry(t) \/ GiveUp(t) PROVE Addressed'
  <2>1. mutex = NoThread
    BY <1>6 DEF Retry, GiveUp, MutexFree
  <2>2. pc'[t] # "wake" /\ \A u \in Threads \ {t} : pc'[u] = pc[u]
    BY <1>6 DEF Retry, GiveUp, Await, GoTo
  <2> QED
    BY <1>4, <2>1, <2>2
<1>7. ASSUME NEW t \in Threads, Unlock(t) PROVE Addressed'
  <2>1. CASE UNCHANGED <<pc, on>>
    BY <1>2, <1>7, <2>1 DEF Unlock
  <2>2. CASE Unlocked # {}
    <3> DEFINE mode == CHOOSE m \in Unlocked : TRUE
    <3>1. mode \in Unlocked
      BY <2>2
    <3>2. mode \in Modes /\ waiting[mode] > 0
      BY <3>1 DEF Unlocked, Modes
    <3>3. on' = [on EXCEPT ![t] = mode] /\ GoTo(t, "wake") /\ mutex = NoThread
          /\ UNCHANGED waiting
      BY <1>7, <2>2 DEF Unlock, MutexFree
    <3> HIDE DEF mode
    <3> QED
      BY <3>2, <3>3 DEF GoTo
  <2> QED
    BY <1>7, <2>1, <2>2 DEF Unlock
<1>8. ASSUME NEW t \in Threads, Wake(t) PROVE Addressed'
  <2>1. pc'[t] = "idle" /\ \A u \in Threads \ {t} : pc'[u] = "wake" => pc[u] = "wake"
    BY <1>8 DEF Wake, WakeOne, WakeAll, Asleep, GoTo
  <2> QED
    BY <1>8, <2>1, <1>2 DEF Wake, Leave
<1>9. ASSUME NEW t \in Threads, Waiting(t) PROVE Addressed'
  <2>1. UNCHANGED <<on, waiting>>
    BY <1>9 DEF Waiting, WaitStep, WaitEvent, Enter, Release, Sleep, Expire, Spurious, Resume
  <2>2. \A u \in Threads : pc'[u] = "wake" => pc[u] = "wake"
    BY <1>9 DEF Waiting, WaitStep, WaitEvent, Enter, Release, Sleep, Expire,
                Spurious, Resume, GoTo
  <2> QED
    BY <1>2, <2>1, <2>2
<1> QED
  BY <1>3, <1>5, <1>6, <1>7, <1>8, <1>9 DEF Next, Step

-----------------------------------------------------------------------------
\* No writer is forgotten.

LEMMA TakenIsNotZero ==
    ASSUME HInv, NEW t \in Threads, NEW mode \in Modes, Take(t, mode),
           Again(t, mode) \/ AdmitsTry(mode)
    PROVE  accessCount' # 0
<1> USE DEF HInv, Fields
<1>0. /\ accessCount >= 0 <=> \A u \in Threads : writes[u] = 0
      /\ accessCount <= 0 <=> \A u \in Threads : reads[u] = 0
  BY Sign
<1>1. CASE mode = "read"
  <2>1. accessCount >= 0
    BY <1>0, <1>1 DEF Again, AdmitsTry, Known, Exclusive
  <2> QED
    BY <1>1, <2>1 DEF Take
<1>2. CASE mode = "write"
  <2>1. accessCount <= 0
    BY <1>0, <1>2 DEF Again, AdmitsTry, Known, Exclusive
  <2> QED
    BY <1>2, <2>1 DEF Take
<1> QED
  BY <1>1, <1>2 DEF Modes

\* Taking the lock, in Lock and in Retry, as the steps below see it: a call
\* that does not get the lock waits, and had a reason to.
LEMMA LockCases ==
    ASSUME HInv, NEW t \in Threads, NEW mode \in Modes, NEW limit \in Limits,
           Lock(t, mode, limit)
    PROVE  \/ accessCount' # 0
           \/ /\ pc[t] = "idle" /\ ~Admits(mode) /\ accessCount' = accessCount
              /\ pc' = [pc EXCEPT ![t] = "enter"] /\ on' = [on EXCEPT ![t] = mode]
              /\ UNCHANGED wakeups
<1>1. CASE Take(t, mode) /\ UNCHANGED <<waitVars, waiting>>
  <2>1. pc[t] = "idle" /\ pc \in [Threads -> PCs]
    BY DEF Lock, MayLock, HInv, Places
  <2>2. Again(t, mode) \/ AdmitsTry(mode)
    BY <1>1, <2>1 DEF Lock, Admits, AdmitsTry, Await, GoTo, waitVars
  <2> QED
    BY <1>1, <2>2, TakenIsNotZero
<1>2. CASE ~Admits(mode) /\ Await(t, mode, limit = "timed")
           /\ UNCHANGED <<conditionVars, lockVars>>
  BY <1>2 DEF Lock, MayLock, Await, GoTo, conditionVars, lockVars
<1> QED
  BY <1>1, <1>2 DEF Lock

LEMMA RetryCases ==
    ASSUME HInv, NEW t \in Threads, Retry(t)
    PROVE  \/ accessCount' # 0
           \/ /\ pc[t] = "woken" /\ ~Admits(on[t]) /\ accessCount' = accessCount
              /\ pc' = [pc EXCEPT ![t] = "enter"] /\ on' = on
              /\ UNCHANGED wakeups
<1>0. pc[t] = "woken" /\ pc \in [Threads -> PCs] /\ on \in [Threads -> Modes]
  BY DEF Retry, HInv, Places
<1>1. CASE Admits(on[t]) /\ Take(t, on[t])
  <2>1. AdmitsTry(on[t])
    BY <1>0, <1>1 DEF Admits, AdmitsTry, Modes, HInv, Fields
  <2> QED
    BY <1>0, <1>1, <2>1, TakenIsNotZero
<1>2. CASE ~Admits(on[t]) /\ Await(t, on[t], timed[t])
           /\ UNCHANGED <<conditionVars, lockVars>>
  <2>1. on' = on
    BY <1>0, <1>2 DEF Await
  <2> QED
    BY <1>0, <1>2, <2>1 DEF Await, GoTo, conditionVars, lockVars
<1> QED
  BY <1>1, <1>2 DEF Retry

\* wakeOne() for the writers: one of those who wait gets the wake-up.
LEMMA WriterIsWoken ==
    ASSUME HInv, Mutexes, Counting, NEW t \in Threads, Wake(t), on[t] = "write",
           NEW w \in Threads, w \in Wanting("write")
    PROVE  \/ pc[w] \in {"expired", "woken", "timedOut"} /\ pc'[w] = pc[w] /\ on'[w] = on[w]
           \/ \E v \in Threads : /\ on'[v] = "write" /\ pc'[v] = "signalled"
                                 /\ wakeups'["write"] > 0
<1>0. Places /\ NoThread \notin Threads
  BY ThreadsAssumption DEF HInv
<1> USE <1>0 DEF Places
<1>1. /\ pc[t] = "wake" /\ WakeOne(t) /\ mutex = t
      /\ \A v \in Threads \ {t} : on'[v] = on[v]
  BY DEF Wake, Leave, Mutexes
<1>2. w # t /\ on[w] = "write" /\ pc[w] \in InLock
  BY <1>1 DEF Wanting, InLock, InWait
<1>3. pc[w] \notin {"enter", "release", "sleep"}
  BY <1>1, <1>2 DEF Mutexes, WakeOne
<1>4. CASE pc[w] \in {"expired", "woken", "timedOut"}
  BY <1>1, <1>2, <1>4 DEF WakeOne, Asleep, GoTo
<1>5. CASE pc[w] \in {"asleep", "signalled"}
  <2>1. waiters["write"] > 0 /\ wakeups["write"] >= 0
    <3>1. w \in Counted("write")
      BY <1>2, <1>5 DEF Counted, InWait
    <3> QED
      BY <3>1, CountedAreFinite DEF Counting, Modes
  <2>2. wakeups'["write"] > 0
    BY <1>1, <2>1 DEF WakeOne, LesserOf, Modes
  <2>3. CASE Asleep("write") = {}
    BY <1>1, <1>2, <1>5, <2>2, <2>3 DEF WakeOne, Asleep, GoTo
  <2>4. CASE Asleep("write") # {}
    <3>1. PICK v \in Asleep("write") : pc' = [pc EXCEPT ![t] = "idle", ![v] = "signalled"]
      BY <1>1, <2>4 DEF WakeOne
    <3>2. v \in Threads /\ v # t /\ on[v] = "write"
      BY <1>1 DEF Asleep
    <3> QED
      BY <1>1, <2>2, <3>1, <3>2
  <2> QED
    BY <2>3, <2>4
<1> QED
  BY <1>2, <1>3, <1>4, <1>5 DEF InLock, InWait

LEMMA ServedStep ==
    ASSUME HInv, Mutexes, Counting, Served, [Next]_vars
    PROVE  Served'
<1>0. Places
  BY DEF HInv
<1> USE <1>0 DEF Places
<1>1. CASE accessCount' # 0
  BY <1>1 DEF Served
\* Nobody begins to wait, and those at work stay there.
<1>2. CASE /\ accessCount' = accessCount
           /\ \A u \in Threads : Blocked(u, "write")' => Blocked(u, "write")
           /\ \A u \in Threads : AtWork(u) => AtWork(u)'
  BY <1>2 DEF Served
<1>3. ASSUME NEW t \in Threads, accessCount' = accessCount, UNCHANGED wakeups,
             \A u \in Threads \ {t} : pc'[u] = pc[u] /\ on'[u] = on[u],
             Blocked(t, "write")' => Blocked(t, "write"), ~AtWork(t)
      PROVE  Served'
  <2>1. \A u \in Threads : Blocked(u, "write")' => Blocked(u, "write")
    BY <1>3 DEF Blocked
  <2>2. \A u \in Threads : AtWork(u) => AtWork(u)'
    BY <1>3 DEF AtWork
  <2> QED
    BY <1>2, <1>3, <2>1, <2>2
<1>4. CASE UNCHANGED vars
  BY <1>4, <1>2 DEF vars, waitVars, conditionVars, lockVars, Blocked, AtWork
<1>5. ASSUME NEW t \in Threads, NEW mode \in Modes, NEW limit \in Limits,
             Lock(t, mode, limit)
      PROVE  Served'
  <2>1. CASE /\ pc[t] = "idle" /\ ~Admits(mode) /\ accessCount' = accessCount
             /\ pc' = [pc EXCEPT ![t] = "enter"] /\ on' = [on EXCEPT ![t] = mode]
             /\ UNCHANGED wakeups
    <3>1. CASE mode = "write"
      BY <1>1, <2>1, <3>1 DEF Admits
    <3>2. CASE mode # "write"
      BY <1>3, <2>1, <3>2 DEF Blocked, AtWork
    <3> QED
      BY <3>1, <3>2
  <2> QED
    BY <1>1, <1>5, <2>1, LockCases
<1>6. ASSUME NEW t \in Threads, Retry(t) PROVE Served'
  <2>1. CASE /\ pc[t] = "woken" /\ ~Admits(on[t]) /\ accessCount' = accessCount
             /\ pc' = [pc EXCEPT ![t] = "enter"] /\ on' = on /\ UNCHANGED wakeups
    <3>1. CASE on[t] = "write"
      BY <1>1, <2>1, <3>1 DEF Admits
    <3>2. CASE on[t] # "write"
      BY <1>3, <2>1, <3>2 DEF Blocked, AtWork
    <3> QED
      BY <3>1, <3>2
  <2> QED
    BY <1>1, <1>6, <2>1, RetryCases
<1>7. ASSUME NEW t \in Threads, GiveUp(t) PROVE Served'
  <2>1. /\ pc[t] = "timedOut" /\ pc' = [pc EXCEPT ![t] = "idle"]
        /\ \A u \in Threads \ {t} : on'[u] = on[u]
        /\ UNCHANGED <<accessCount, wakeups>>
    BY <1>7 DEF GiveUp, GoTo, Leave, conditionVars, lockVars
  <2> QED
    BY <1>3, <2>1 DEF Blocked, AtWork
<1>8. ASSUME NEW t \in Threads, Unlock(t) PROVE Served'
  <2>1. CASE accessCount' = 0 /\ waiting["write"] > 0
    <3>1. Unlocked = {"write"}
      BY <2>1 DEF Unlocked
    <3>2. (CHOOSE mode \in Unlocked : TRUE) = "write"
      BY <3>1
    <3>3. pc' = [pc EXCEPT ![t] = "wake"] /\ on' = [on EXCEPT ![t] = "write"]
      BY <1>8, <3>1, <3>2 DEF Unlock, GoTo
    <3>4. AtWork(t)'
      BY <3>3 DEF AtWork, Modes
    <3> QED
      BY <3>4 DEF Served
  <2>2. CASE accessCount' = 0 /\ ~(waiting["write"] > 0)
    <3>1. Wanting("write") = {}
      BY <2>2, CountedAreFinite DEF Counting, Modes
    <3>2. \A u \in Threads : ~Blocked(u, "write")
      BY <3>1 DEF Blocked, Wanting, InLock, InWait
    <3>3. \A u \in Threads \ {t} : pc'[u] = pc[u] /\ on'[u] = on[u]
      BY <1>8 DEF Unlock, GoTo
    <3>4. pc'[t] \in {"idle", "wake"}
      BY <1>8 DEF Unlock, GoTo
    <3>5. \A u \in Threads : ~Blocked(u, "write")'
      BY <3>2, <3>3, <3>4 DEF Blocked
    <3> QED
      BY <3>5 DEF Served
  <2> QED
    BY <1>1, <2>1, <2>2
<1>9. ASSUME NEW t \in Threads, Wake(t) PROVE Served'
  <2>1. /\ pc[t] = "wake" /\ UNCHANGED accessCount
        /\ \A u \in Threads \ {t} : on'[u] = on[u]
    BY <1>9 DEF Wake, Leave, lockVars
  <2>2. pc'[t] = "idle"
    BY <1>9, <2>1 DEF Wake, WakeOne, WakeAll, Asleep, GoTo
  <2>3. CASE on[t] = "write"
    <3>1. ASSUME NEW w \in Threads, Blocked(w, "write")'
          PROVE  w \in Wanting("write") /\ pc[w] \notin {"expired", "woken", "timedOut"}
      <4>1. w # t
        BY <2>2, <3>1 DEF Blocked
      <4>2. pc'[w] = pc[w] \/ pc[w] = "asleep"
        BY <1>9, <2>1, <4>1 DEF Wake, WakeOne, WakeAll, Asleep, GoTo
      <4> QED
        BY <2>1, <3>1, <4>1, <4>2 DEF Blocked, Wanting, InLock, InWait
    <3>2. ASSUME NEW w \in Threads, Blocked(w, "write")'
          PROVE  \E v \in Threads : AtWork(v)'
      BY <1>9, <2>3, <3>1, <3>2, WriterIsWoken DEF AtWork
    <3> QED
      BY <3>2 DEF Served
  <2>4. CASE on[t] = "read"
    <3>1. \A u \in Threads \ {t} : on[u] = "write" => pc'[u] = pc[u]
      BY <1>9, <2>1, <2>4 DEF Wake, WakeAll, Asleep
    <3>2. wakeups'["write"] = wakeups["write"]
      BY <1>9, <2>4 DEF Wake, WakeAll, Modes
    <3> QED
      BY <1>2, <2>1, <2>2, <2>4, <3>1, <3>2 DEF Blocked, AtWork
  <2> QED
    BY <2>3, <2>4 DEF Modes
<1>10. ASSUME NEW t \in Threads, Waiting(t) PROVE Served'
  <2>0. UNCHANGED <<accessCount, on>>
    BY <1>10 DEF Waiting, lockVars, WaitStep, WaitEvent, Enter, Release, Sleep,
                 Expire, Spurious, Resume
  <2>1. CASE Enter(t) \/ Release(t) \/ Sleep(t) \/ Expire(t) \/ Spurious(t)
    <3>1. \A u \in Threads \ {t} : pc'[u] = pc[u]
      BY <2>1 DEF Enter, Release, Sleep, Expire, Spurious, GoTo
    <3>2. UNCHANGED wakeups
      BY <2>1 DEF Enter, Release, Sleep, Expire, Spurious, conditionVars
    <3>3. pc[t] \in {"enter", "release", "sleep", "asleep"}
      BY <2>1 DEF Enter, Release, Sleep, Expire, Spurious
    <3> QED
      BY <1>3, <2>0, <3>1, <3>2, <3>3 DEF Blocked, AtWork
  <2>2. CASE Resume(t)
    <3>0. /\ pc[t] \in {"signalled", "expired"}
          /\ \A u \in Threads \ {t} : pc'[u] = pc[u]
      BY <2>2 DEF Resume, GoTo
    <3>1. CASE on[t] = "write" /\ pc[t] = "signalled" /\ wakeups["write"] # 0
      <4>1. AtWork(t)'
        BY <2>0, <2>2, <3>1 DEF Resume, GoTo, AtWork
      <4> QED
        BY <4>1 DEF Served
    <3>2. CASE on[t] # "write"
      <4>1. wakeups'["write"] = wakeups["write"]
        BY <2>2, <3>2 DEF Resume, Modes
      <4> QED
        BY <1>2, <2>0, <3>0, <3>2, <4>1 DEF Blocked, AtWork
    <3>3. CASE on[t] = "write" /\ ~(pc[t] = "signalled" /\ wakeups["write"] # 0)
      <4>1. UNCHANGED wakeups /\ pc'[t] \in {"asleep", "timedOut"}
            /\ (pc'[t] = "asleep" => pc[t] = "signalled")
        BY <2>2, <3>3 DEF Resume, GoTo
      <4> QED
        BY <1>3, <2>0, <3>0, <3>3, <4>1 DEF Blocked, AtWork
    <3> QED
      BY <3>1, <3>2, <3>3
  <2> QED
    BY <1>10, <2>1, <2>2 DEF Waiting, WaitStep, WaitEvent
<1> QED
  BY <1>4, <1>5, <1>6, <1>7, <1>8, <1>9, <1>10 DEF Next, Step

LEMMA Invariance == Spec => []IInv
<1>1. Init => IInv
  <2> SUFFICES ASSUME Init PROVE IInv
    OBVIOUS
  <2>1. HInv /\ \A t \in Threads : pc[t] = "idle"
    BY HoldingInit DEF Init, WaitInit
  <2>2. \A c \in Modes : Counted(c) = {} /\ Wanting(c) = {}
    BY <2>1 DEF Counted, Wanting, InLock, InWait
  <2>3. Counting
    BY <2>2, FS_EmptySet, ReadWriteLockAssumption DEF Init, WaitInit, Counting
  <2>4. Mutexes /\ Addressed
    BY <2>1 DEF Mutexes, Addressed
  <2>5. Served
    BY <2>1 DEF Served, Blocked
  <2> QED
    BY <2>1, <2>3, <2>4, <2>5 DEF IInv
<1>2. IInv /\ [Next]_vars => IInv'
  BY HoldingStep, MutexesStep, CountingStep, AddressedStep, ServedStep DEF IInv
<1> QED
  BY <1>1, <1>2, PTL DEF Spec

\* A writer never sleeps over a free lock with nobody coming to wake it.
THEOREM WritersAreServed == Spec => []NoWriterStranded
<1>1. IInv => NoWriterStranded
  BY DEF IInv, Served, NoWriterStranded, Stranded, Coming, AtWork, Blocked
<1> QED
  BY <1>1, Invariance, PTL

-----------------------------------------------------------------------------
\* Readers are stranded by a writer that gives up, and by nothing else.

\* The steps of a thread that leave the readers as they were.
LEMMA SameReaders ==
    ASSUME NEW t \in Threads, accessCount' = accessCount, Stranded("read")',
           UNCHANGED wakeups,
           \A u \in Threads \ {t} : pc'[u] = pc[u] /\ on'[u] = on[u],
           Blocked(t, "read")' => Blocked(t, "read"), ~Coming(t)
    PROVE  Stranded("read")
<1>1. \A u \in Threads : ~Coming(u)
  BY DEF Stranded, Coming
<1>2. \A u \in Threads : Blocked(u, "read")' => Blocked(u, "read")
  BY DEF Blocked
<1> QED
  BY <1>1, <1>2 DEF Stranded, Blocked

LEMMA StrandingStep ==
    ASSUME IInv, IInv', [Next]_vars, Stranded("read")', ~Stranded("read")
    PROVE  \E t \in Threads : on[t] = "write" /\ pc[t] = "timedOut" /\ pc'[t] = "idle"
<1> DEFINE GivesUp == \E t \in Threads :
                          on[t] = "write" /\ pc[t] = "timedOut" /\ pc'[t] = "idle"
<1>0. /\ Places /\ Mutexes /\ Counting /\ Addressed /\ HInv
      /\ accessCount' = 0 /\ NoThread \notin Threads
  BY ThreadsAssumption DEF IInv, HInv, Stranded
<1> USE <1>0 DEF Places
\* While readers are stranded nobody is coming, and no writer waits.
<1>1. \A u \in Threads : ~(Coming(u)')
  BY DEF Stranded
<1>2. \A u \in Threads : ~(on'[u] = "write" /\ pc'[u] \in InLock)
  <2>1. \A u \in Threads : ~(AtWork(u)')
    BY <1>1 DEF Coming, AtWork
  <2>2. \A u \in Threads : ~(Blocked(u, "write")')
    BY <2>1 DEF IInv, Served
  <2> QED
    BY <1>1, <2>2 DEF Coming, Blocked, InLock, InWait
<1>3. PICK r \in Threads : Blocked(r, "read")'
  BY DEF Stranded, Blocked
<1>4. ASSUME UNCHANGED vars PROVE FALSE
  BY <1>4 DEF vars, waitVars, conditionVars, lockVars, Stranded, Coming
<1>5. ASSUME NEW t \in Threads, waiting["write"] > 0, pc[t] # "woken" \/ on[t] = "read",
             pc[t] \notin InLock \/ on[t] = "read",
             \A u \in Threads \ {t} : pc'[u] = pc[u] /\ on'[u] = on[u]
      PROVE  FALSE
  <2>1. PICK w \in Wanting("write") : TRUE
    BY <1>5, CountedAreFinite DEF Counting, Modes
  <2>2. w \in Threads /\ w # t /\ on[w] = "write" /\ pc[w] \in InLock
    BY <1>5, <2>1 DEF Wanting
  <2> QED
    BY <1>2, <1>5, <2>2
<1>6. ASSUME NEW t \in Threads, NEW mode \in Modes, NEW limit \in Limits,
             Lock(t, mode, limit)
      PROVE  FALSE
  <2>1. /\ pc[t] = "idle" /\ ~Admits(mode) /\ accessCount' = accessCount
        /\ pc' = [pc EXCEPT ![t] = "enter"] /\ on' = [on EXCEPT ![t] = mode]
    BY <1>6, LockCases
  <2>2. mode = "read" /\ waiting["write"] # 0
    BY <2>1 DEF Admits, Modes
  <2>3. waiting["write"] > 0
    BY <2>2, CountedAreFinite DEF Counting, Modes
  <2> QED
    BY <1>5, <2>1, <2>3 DEF InLock, InWait
<1>7. ASSUME NEW t \in Threads, Retry(t) PROVE FALSE
  <2>1. /\ pc[t] = "woken" /\ ~Admits(on[t]) /\ accessCount' = accessCount
        /\ pc' = [pc EXCEPT ![t] = "enter"] /\ on' = on
    BY <1>7, RetryCases
  <2>2. on[t] = "read" /\ waiting["write"] # 0
    BY <2>1 DEF Admits, Modes
  <2>3. waiting["write"] > 0
    BY <2>2, CountedAreFinite DEF Counting, Modes
  <2> QED
    BY <1>5, <2>1, <2>2, <2>3
<1>8. ASSUME NEW t \in Threads, GiveUp(t) PROVE GivesUp
  <2>1. /\ pc[t] = "timedOut" /\ pc' = [pc EXCEPT ![t] = "idle"]
        /\ \A u \in Threads \ {t} : on'[u] = on[u]
        /\ UNCHANGED <<accessCount, wakeups>>
    BY <1>8 DEF GiveUp, GoTo, Leave, conditionVars, lockVars
  <2>2. CASE on[t] = "read"
    BY <2>1, <2>2, SameReaders DEF Blocked, Coming
  <2>3. CASE on[t] = "write"
    BY <2>1, <2>3
  <2> QED
    BY <2>2, <2>3 DEF Modes
<1>9. ASSUME NEW t \in Threads, Unlock(t) PROVE FALSE
  <2>1. CASE Unlocked = {}
    <3>1. pc' = pc /\ on' = on
      BY <1>9, <2>1 DEF Unlock
    <3>2. r \in Wanting("read")
      BY <1>3, <3>1 DEF Blocked, Wanting, InLock, InWait
    <3>3. waiting["read"] > 0
      BY <3>2, CountedAreFinite DEF Counting, Modes
    <3> QED
      BY <2>1, <3>3 DEF Unlocked
  <2>2. CASE Unlocked # {}
    <3>1. pc'[t] = "wake"
      BY <1>9, <2>2 DEF Unlock, GoTo
    <3> QED
      BY <1>1, <3>1 DEF Coming
  <2> QED
    BY <2>1, <2>2
<1>10. ASSUME NEW t \in Threads, Wake(t) PROVE FALSE
  <2>1. CASE on[t] = "write"
    <3>1. waiting["write"] > 0
      BY <1>10, <2>1 DEF Wake, Addressed
    <3>2. PICK w \in Wanting("write") : TRUE
      BY <3>1, CountedAreFinite DEF Counting, Modes
    <3>3. w \in Threads /\ on[w] = "write"
      BY <3>2 DEF Wanting
    <3>4. \/ pc[w] \in {"expired", "woken", "timedOut"} /\ pc'[w] = pc[w] /\ on'[w] = on[w]
          \/ \E v \in Threads : /\ on'[v] = "write" /\ pc'[v] = "signalled"
                                /\ wakeups'["write"] > 0
      BY <1>10, <2>1, <3>2, <3>3, WriterIsWoken
    <3> QED
      BY <1>1, <3>3, <3>4 DEF Coming
  <2>2. CASE on[t] = "read"
    <3>1. /\ pc[t] = "wake" /\ WakeAll(t) /\ mutex = t
          /\ \A u \in Threads \ {t} : on'[u] = on[u]
      BY <1>10, <2>2 DEF Wake, Leave, Mutexes
    <3>2. r # t /\ on[r] = "read"
      BY <1>3, <3>1 DEF Blocked, WakeAll
    <3>3. pc[r] \in {"asleep", "signalled"} /\ pc'[r] = "signalled"
      BY <1>3, <2>2, <3>1, <3>2 DEF Blocked, WakeAll, Asleep, Mutexes
    <3>4. r \in Counted("read")
      BY <3>2, <3>3 DEF Counted, InWait
    <3>5. wakeups'["read"] > 0
      BY <2>2, <3>1, <3>4, CountedAreFinite DEF Counting, WakeAll, Modes
    <3> QED
      BY <1>1, <3>1, <3>2, <3>3, <3>5 DEF Coming
  <2> QED
    BY <2>1, <2>2 DEF Modes
<1>11. ASSUME NEW t \in Threads, Waiting(t) PROVE FALSE
  <2>0. UNCHANGED <<accessCount, on>>
    BY <1>11 DEF Waiting, lockVars, WaitStep, WaitEvent, Enter, Release, Sleep,
                 Expire, Spurious, Resume
  <2>1. CASE Enter(t) \/ Release(t) \/ Sleep(t) \/ Expire(t) \/ Spurious(t)
    <3>1. \A u \in Threads \ {t} : pc'[u] = pc[u]
      BY <2>1 DEF Enter, Release, Sleep, Expire, Spurious, GoTo
    <3>2. UNCHANGED wakeups
      BY <2>1 DEF Enter, Release, Sleep, Expire, Spurious, conditionVars
    <3>3. pc[t] \in {"enter", "release", "sleep", "asleep"}
      BY <2>1 DEF Enter, Release, Sleep, Expire, Spurious
    <3> QED
      BY <2>0, <3>1, <3>2, <3>3, SameReaders DEF Blocked, Coming
  <2>2. CASE Resume(t) /\ pc[t] = "signalled" /\ wakeups[on[t]] # 0
    <3>1. pc'[t] = "woken"
      BY <2>2 DEF Resume, GoTo
    <3> QED
      BY <1>1, <3>1 DEF Coming
  <2>3. CASE Resume(t) /\ pc[t] = "signalled" /\ wakeups[on[t]] = 0
    <3>1. pc' = [pc EXCEPT ![t] = "asleep"] /\ UNCHANGED wakeups
      BY <2>3 DEF Resume, GoTo
    <3> QED
      BY <2>0, <2>3, <3>1, SameReaders DEF Blocked, Coming
  <2>4. CASE Resume(t) /\ pc[t] = "expired"
    <3>1. pc' = [pc EXCEPT ![t] = "timedOut"] /\ UNCHANGED wakeups
      BY <2>4 DEF Resume, GoTo
    <3>2. on[t] = "read"
      BY <1>1, <2>0, <3>1 DEF Coming, Modes
    <3> QED
      BY <2>0, <2>4, <3>1, <3>2, SameReaders DEF Blocked, Coming
  <2> QED
    BY <1>11, <2>1, <2>2, <2>3, <2>4 DEF Waiting, WaitStep, WaitEvent, Resume
<1>12. GivesUp
  <2> HIDE DEF GivesUp
  <2> QED
    BY <1>4, <1>6, <1>7, <1>8, <1>9, <1>10, <1>11 DEF Next, Step
<1> QED
  BY <1>12

\* Readers are left asleep over a free lock only when unlock() woke a writer
\* whose time was over, and who then gives up.
THEOREM ReadersAreStrandedByTimeout == Spec => OnlyTimeoutStrandsReaders
<1>1. IInv /\ IInv' /\ [Next]_vars =>
          [Stranded("read")' /\ ~Stranded("read") =>
            \E t \in Threads : on[t] = "write" /\ pc[t] = "timedOut" /\ pc'[t] = "idle"
          ]_vars
  BY StrandingStep
<1> QED
  BY <1>1, Invariance, PTL DEF Spec, OnlyTimeoutStrandsReaders
=============================================================================
