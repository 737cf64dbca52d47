--------------------------- MODULE MCMoveToThread ---------------------------
(***************************************************************************)
(* A MoveToThread with two threads, an object with a child that moves from *)
(* one to the other, and an object that moves the opposite way.            *)
(***************************************************************************)
EXTENDS MoveToThread, TLC

CONSTANTS app, a, b, child, main, worker, p1

MCReceivers == {app, a, b, child}
MCThreads == {main, worker}
MCAddress == main :> 1 @@ worker :> 2
MCMembers == a :> <<a, child>> @@ b :> <<b>>
MCHome == app :> main @@ a :> main @@ child :> main @@ b :> worker
MCPosts == {<<child, 0>>, <<b, 0>>}
=============================================================================
