-------------------------- MODULE MCFreelistMutex --------------------------
(***************************************************************************)
(* FreelistMutex with three interchangeable threads and two mutexes that   *)
(* share two privates.                                                     *)
(***************************************************************************)
EXTENDS FreelistMutex, TLC

CONSTANTS t1, t2, t3, m1, m2, p1, p2

MCThreads == {t1, t2, t3}
MCMutexes == {m1, m2}
MCPrivates == {p1, p2}
Symmetry == Permutations(MCThreads) \cup Permutations(MCPrivates)
=============================================================================
