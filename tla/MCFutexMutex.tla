---------------------------- MODULE MCFutexMutex ----------------------------
(***************************************************************************)
(* FutexMutex with a handful of threads.                                   *)
(***************************************************************************)
EXTENDS FutexMutex

CONSTANTS t1, t2, t3, t4

MCThreads == {t1, t2, t3, t4}
=============================================================================
