----------------------- MODULE AbstractReadWriteLock -----------------------
(***************************************************************************)
(* What a QReadWriteLock promises: any number of threads hold it for       *)
(* reading or one holds it for writing; in recursive mode a holder takes   *)
(* it again, and as many unlock()s as locks free it.                       *)
(***************************************************************************)
EXTENDS Naturals

CONSTANT Threads

VARIABLES
    reads,      \* how often each thread holds the lock for reading
    writes,     \* and for writing
    recursive   \* the mode it was constructed in

FreeFor(t, holds) == \A u \in Threads : holds[u] > 0 => u = t

LockForRead(t) ==
    /\ reads[t] = 0 \/ recursive
    /\ \A u \in Threads : writes[u] = 0
    /\ reads' = [reads EXCEPT ![t] = @ + 1]
    /\ UNCHANGED <<writes, recursive>>

LockForWrite(t) ==
    /\ writes[t] = 0 \/ recursive
    /\ FreeFor(t, writes) /\ \A u \in Threads : reads[u] = 0
    /\ writes' = [writes EXCEPT ![t] = @ + 1]
    /\ UNCHANGED <<reads, recursive>>

Unlock(t) ==
    \/ /\ reads[t] > 0
       /\ reads' = [reads EXCEPT ![t] = @ - 1]
       /\ UNCHANGED <<writes, recursive>>
    \/ /\ writes[t] > 0
       /\ writes' = [writes EXCEPT ![t] = @ - 1]
       /\ UNCHANGED <<reads, recursive>>

Init ==
    /\ reads = [t \in Threads |-> 0]
    /\ writes = [t \in Threads |-> 0]
    /\ recursive \in BOOLEAN

Next == \E t \in Threads : LockForRead(t) \/ LockForWrite(t) \/ Unlock(t)

Spec == Init /\ [][Next]_<<reads, writes, recursive>>
=============================================================================
