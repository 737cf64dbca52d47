------------------------------ MODULE MCWakeUp ------------------------------
(***************************************************************************)
(* WakeUp with three other threads.                                        *)
(***************************************************************************)
EXTENDS WakeUp

CONSTANTS t1, t2, t3

MCWakers == {t1, t2, t3}
=============================================================================
