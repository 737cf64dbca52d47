----------------------------- MODULE ThreadQueue -----------------------------
(***************************************************************************)
(* What the posted events of one thread promise (the documentation of      *)
(* QCoreApplication::postEvent: "Events are sorted in descending priority  *)
(* order, i.e. events with a high priority are queued before events with a *)
(* lower priority", and of sendPostedEvents): the promises of EventQueue,  *)
(* and that every pass sends the events it found in the order they have,   *)
(* from the highest priority to the lowest and the oldest first.  Events   *)
(* posted while a pass is under way line up behind those it found, whatever*)
(* their priority.  A DeferredDelete may be sent out of turn, or be put    *)
(* back.                                                                   *)
(***************************************************************************)
EXTENDS EventQueue

VARIABLES
    before,     \* the pairs of pending events: the first has precedence
    due,        \* the pending events the latest pass has found
    passes,     \* how many passes are under way
    late        \* how many of the next events line up as if the pass had
                \* found them, whatever their priority

Pairs(S) == S \X S

\* The new event e joins the others: behind those the pass has found, and
\* among the rest by its priority.
Joins(others, e) ==
    LET ahead == {o \in others : o \in due \/ o.priority >= e.priority} IN
    before' = (before \cap Pairs(others))
                  \cup (ahead \X {e}) \cup ({e} \X (others \ ahead))

PostInOrder(r, ty, p) ==
    LET e == Event(posted + 1, r, ty, p) IN
    /\ Post(r, ty, p)
    /\ Joins(pending, e)
    /\ \/ late > 0 /\ due' = due \cup {e} /\ late' = late - 1
       \/ late = 0 /\ UNCHANGED <<due, late>>
    /\ UNCHANGED passes

Leaving == before' = before \cap Pairs(pending')

\* The next in turn, among those the pass has found.
SendInOrder(e) ==
    /\ passes > 0 /\ e \in due
    /\ e.type = "DeferredDelete" \/ \A o \in pending : <<o, e>> \notin before
    /\ Send(e)
    /\ Leaving
    /\ due' = due \ {e}
    /\ UNCHANGED <<passes, late>>

\* A DeferredDelete whose loop level does not let it be sent yet.
PutBack(e) ==
    /\ passes > 0 /\ e \in due /\ e.type = "DeferredDelete"
    /\ Joins(pending \ {e}, e)
    /\ due' = due \ {e}
    /\ UNCHANGED <<pending, handling, posted, alive, passes, late>>

\* Removal between passes: the rest moves up to the places of those removed,
\* and what is posted then may follow it there, until the next pass begins.
MovingUp ==
    \/ passes > 0 /\ due' = due \cap pending' /\ UNCHANGED late
    \/ /\ passes = 0
       /\ due \cap pending' \subseteq due' /\ due' \subseteq pending'
       /\ late' \in Nat /\ (late' > 0 => due' = pending')

ReturnInOrder(e) == Return(e) /\ Leaving /\ MovingUp /\ UNCHANGED passes
RemoveInOrder(r, ty) == Remove(r, ty) /\ Leaving /\ MovingUp /\ UNCHANGED passes

Begin ==
    /\ passes' = passes + 1 /\ due' = pending /\ late' = 0
    /\ UNCHANGED <<pending, handling, posted, alive, before>>

End ==
    /\ passes > 0 /\ passes' = passes - 1
    /\ UNCHANGED <<pending, handling, posted, alive, before, due, late>>

InitInOrder == Init /\ before = {} /\ due = {} /\ passes = 0 /\ late = 0

NextInOrder ==
    \/ \E r \in Receivers, ty \in EventTypes, p \in Priorities :
           PostInOrder(r, ty, p)
    \/ \E e \in pending : SendInOrder(e) \/ PutBack(e)
    \/ \E e \in handling : ReturnInOrder(e)
    \/ \E x \in Removals : RemoveInOrder(x[1], x[2])
    \/ Begin \/ End

SpecInOrder ==
    InitInOrder /\ [][NextInOrder]_<<pending, handling, posted, alive, before,
                                      due, passes, late>>
=============================================================================
