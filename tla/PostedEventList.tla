-------------------------- MODULE PostedEventList --------------------------
(***************************************************************************)
(* The list of posted events of one thread, QPostEventList, and the entry  *)
(* type QPostEvent (src/src/corelib/thread/qthread_p.h).                   *)
(*                                                                         *)
(* An entry is a QPostEvent together with the part of the QEvent it points *)
(* to that the queue looks at: the event's type and, for a                 *)
(* QDeferredDeleteEvent, the loop level it was posted at.  The QEvent      *)
(* pointer is the field event: a positive number names an event, 0 is the  *)
(* null pointer.  An entry whose event was taken stays in the list with a  *)
(* null pointer; its receiver and type are never read again and are reset  *)
(* here so that equal lists are equal states.  Its priority is kept: the   *)
(* insertion of later events still compares with it.  The field poster is  *)
(* history: the event whose handler posted this one, 0 if there is none.   *)
(***************************************************************************)
EXTENDS Integers, Sequences, FiniteSets

CONSTANTS Receivers,    \* the QObjects living in the thread
          App,          \* the QCoreApplication object
          Priorities    \* event priorities in use

ASSUME ReceiversAssumption  == App \in Receivers
ASSUME PrioritiesAssumption == Priorities \subseteq Int

\* QEvent::DeferredDelete, QEvent::Quit, QEvent::MetaCall (a queued call), and
\* every type the queue does not look at.
EventTypes == {"Plain", "DeferredDelete", "Quit", "MetaCall"}

Entries == [receiver : Receivers, priority : Priorities, event : Nat,
            type : EventTypes, level : Nat, poster : Nat]

\* pe.event is not null.
IsLive(entry) == entry.event # 0

\* const_cast<QPostEvent &>(pe).event = 0
Nulled(entry) ==
    [entry EXCEPT !.receiver = App, !.event = 0, !.type = "Plain", !.level = 0,
                  !.poster = 0]

Live(lst) == {k \in 1..Len(lst) : IsLive(lst[k])}
LiveEntries(lst) == {lst[k] : k \in Live(lst)}

-----------------------------------------------------------------------------
\* QPostEventList::addEvent: the entry goes to the end, or in front of the
\* first entry past insertionOffset that has a lower priority
\* (std::upper_bound in descending order of priority, which counts on the
\* searched part being sorted: SortedFrom).

\* The entries the new one goes behind.
Ahead(lst, insOffset, prio) ==
    {k \in 1..Len(lst) : k <= insOffset \/ lst[k].priority >= prio}

UpperBound(lst, insOffset, prio) == Cardinality(Ahead(lst, insOffset, prio)) + 1

InsertBefore(lst, k, entry) ==
    [j \in 1..(Len(lst) + 1) |-> IF j < k THEN lst[j]
                                 ELSE IF j = k THEN entry ELSE lst[j - 1]]

\* Mutant: the shortcut looks at the first entry.
AddEvent_ComparesFirst(lst, insOffset, entry) ==
    IF \/ lst = <<>>
       \/ lst[1].priority >= entry.priority
       \/ insOffset >= Len(lst)
    THEN Append(lst, entry)
    ELSE InsertBefore(lst, UpperBound(lst, insOffset, entry.priority), entry)

\* Mutant: the priority is not looked at.
AddEvent_AtTheEnd(lst, insOffset, entry) == Append(lst, entry)

AddEvent(lst, insOffset, entry) ==
    IF \/ lst = <<>>
       \/ lst[Len(lst)].priority >= entry.priority
       \/ insOffset >= Len(lst)
    THEN Append(lst, entry)
    ELSE InsertBefore(lst, UpperBound(lst, insOffset, entry.priority), entry)

\* The part of the list std::upper_bound searches is in descending order.
SortedFrom(lst, insOffset) ==
    \A j, k \in (insOffset + 1)..Len(lst) :
        j < k => lst[j].priority >= lst[k].priority

-----------------------------------------------------------------------------
\* Removing entries: nulled in place, or dropped with the rest closing up.

NullAll(lst, drop) ==
    [k \in 1..Len(lst) |-> IF k \in drop THEN Nulled(lst[k]) ELSE lst[k]]

\* The enumerations of a set of positions in increasing order (one exists).
Enumerations(keep) ==
    {f \in [1..Cardinality(keep) -> keep] :
        \A j, k \in 1..Cardinality(keep) : j < k => f[j] < f[k]}

Selected(lst, f) == [k \in DOMAIN f |-> lst[f[k]]]
=============================================================================
