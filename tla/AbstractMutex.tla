--------------------------- MODULE AbstractMutex ---------------------------
(***************************************************************************)
(* What a non-recursive QMutex promises ("only one thread can access it at *)
(* a time"): it is free or held by one thread, and it is the holder that   *)
(* gives it up.                                                            *)
(***************************************************************************)
CONSTANTS Threads, NoThread

VARIABLE holder

Acquire(t) == holder = NoThread /\ holder' = t
Release(t) == holder = t /\ holder' = NoThread

Init == holder = NoThread
Next == \E t \in Threads : Acquire(t) \/ Release(t)
Spec == Init /\ [][Next]_holder
=============================================================================
