---------------------------- MODULE MCThreadPool ----------------------------
(***************************************************************************)
(* ThreadPool with two pool threads, two runnables, which call the pool    *)
(* from their run() as well, and two of the user's threads, of which c1    *)
(* waits for the pool to be done and c2 goes on calling it.                *)
(***************************************************************************)
EXTENDS ThreadPool

CONSTANTS w1, w2, c1, c2, r1, r2

MCTasks == {r1, r2}
MCWorkers == {w1, w2}
MCOneClient == {c1}
MCClients == {c1, c2}
=============================================================================
