--------------------------- MODULE MCConnections ---------------------------
(***************************************************************************)
(* Connections between an object o1 of one thread and o2 of another, both  *)
(* ways, of a functor from o3, which lives with o1, to o2, and of a        *)
(* functor from o3 to itself; o2's mutex is between the others, so that    *)
(* locks are ordered up and down.                                          *)
(***************************************************************************)
EXTENDS Connections, TLC

CONSTANTS t1, t2, o1, o2, o3

MCThreads == {t1, t2}
MCObjects == {o1, o2, o3}
MCHome == o1 :> t1 @@ o3 :> t1 @@ o2 :> t2
MCLock == o1 :> 1 @@ o2 :> 2 @@ o3 :> 3
MCLinks == {<<o1, o2, FALSE>>, <<o2, o1, FALSE>>, <<o3, o2, TRUE>>, <<o3, o3, TRUE>>}
MCBreakers == {<<t1, o3, o3>>}
=============================================================================
