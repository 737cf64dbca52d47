---------------------------- MODULE MCEventLoop ----------------------------
(***************************************************************************)
(* Small instances of EventLoop: what is posted, and which filtered passes *)
(* user code asks for, is chosen per configuration.                        *)
(***************************************************************************)
EXTENDS EventLoop

CONSTANTS app, a, b, any, t1

MCReceivers == {app, a, b}
MCPriorities == {0, 1}

\* A plain event, a deferred delete of its receiver and a quit.
PostsBasic == {<<a, "Plain", 0>>, <<a, "DeferredDelete", 0>>, <<app, "Quit", 0>>}
PostsDelete == {<<a, "Plain", 0>>, <<a, "DeferredDelete", 1>>,
                <<b, "DeferredDelete", 1>>}

PostsMixed == PostsBasic \cup {<<a, "Plain", 1>>}
NoFilters == {}
FilterAll == {<<any, any>>, <<any, "DeferredDelete">>, <<a, any>>, <<any, "Plain">>}
=============================================================================
