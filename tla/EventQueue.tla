----------------------------- MODULE EventQueue -----------------------------
(***************************************************************************)
(* What posted events promise to the code that posts them (the             *)
(* documentation of QCoreApplication::postEvent and removePostedEvents):   *)
(* an event is sent at most once, to a living receiver, in whose handler   *)
(* it is until the handler returns; the events posted to a receiver with   *)
(* the same priority are sent in the order posted; and nothing leaves the  *)
(* queue but by being sent, removed on request, or with its receiver.      *)
(* Module ThreadQueue adds what one thread's events promise between        *)
(* receivers and priorities.                                               *)
(***************************************************************************)
EXTENDS Naturals

CONSTANTS Receivers, EventTypes, Priorities, AnyReceiver, AnyType,
          Removals      \* the <<receiver, type>> removed on request

VARIABLES
    pending,    \* the events in the queue
    handling,   \* the events that were sent and whose handlers run
    posted,     \* how many events have been posted: the name of the last
    alive       \* the receivers not destroyed

Event(n, r, ty, p) ==
    [event |-> n, receiver |-> r, type |-> ty, priority |-> p]

Post(r, ty, p) ==
    /\ r \in alive
    /\ posted' = posted + 1
    /\ pending' = pending \cup {Event(posted + 1, r, ty, p)}
    /\ UNCHANGED <<handling, alive>>

Take(e) ==
    /\ e.receiver \in alive
    /\ pending' = pending \ {e}
    /\ handling' = handling \cup {e}
    /\ UNCHANGED <<posted, alive>>

\* Nothing older waits for the same receiver with the same priority; only a
\* DeferredDelete may be out of turn.
Oldest(e) ==
    \A o \in pending :
        /\ o.receiver = e.receiver /\ o.priority = e.priority
        /\ "DeferredDelete" \notin {o.type, e.type}
        => e.event <= o.event

Send(e) == Oldest(e) /\ Take(e)

Matching(r, ty) ==
    {e \in pending : r \in {AnyReceiver, e.receiver} /\ ty \in {AnyType, e.type}}

\* The handler of a DeferredDelete destroys its receiver.
Return(e) ==
    /\ handling' = handling \ {e}
    /\ IF e.type = "DeferredDelete"
       THEN /\ alive' = alive \ {e.receiver}
            /\ pending' = pending \ Matching(e.receiver, AnyType)
       ELSE UNCHANGED <<pending, alive>>
    /\ UNCHANGED posted

Remove(r, ty) ==
    /\ pending' = pending \ Matching(r, ty)
    /\ UNCHANGED <<handling, posted, alive>>

Init == pending = {} /\ handling = {} /\ posted = 0 /\ alive = Receivers

Next ==
    \/ \E r \in Receivers, ty \in EventTypes, p \in Priorities : Post(r, ty, p)
    \/ \E e \in pending : Send(e)
    \/ \E e \in handling : Return(e)
    \/ \E x \in Removals : Remove(x[1], x[2])

Spec == Init /\ [][Next]_<<pending, handling, posted, alive>>
=============================================================================
