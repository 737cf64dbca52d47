-------------------------- MODULE MCReadWriteLock --------------------------
(***************************************************************************)
(* A ReadWriteLock of four threads: one that has the lock, two that wait   *)
(* for it in either way, and one whose time is over.                       *)
(***************************************************************************)
EXTENDS ReadWriteLock, TLC

CONSTANTS t1, t2, t3, t4

MCThreads == {t1, t2, t3, t4}
Symmetry == Permutations(Threads)
=============================================================================
