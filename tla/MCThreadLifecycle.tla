------------------------- MODULE MCThreadLifecycle -------------------------
(***************************************************************************)
(* ThreadLifecycle with two other threads.                                 *)
(***************************************************************************)
EXTENDS ThreadLifecycle

CONSTANTS c1, c2

MCOthers2 == {c1, c2}
=============================================================================
