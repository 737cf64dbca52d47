----------------------------- MODULE Connections -----------------------------
(***************************************************************************)
(* Signal-slot connections (qobject.cpp): QObject::connect, disconnect,    *)
(* the emission of a signal and the destructor ~QObject, in several        *)
(* threads, over the mutexes of signalSlotLock().                          *)
(*                                                                         *)
(* A connection is in two lists: its sender's connection list, walked by   *)
(* emissions and cleaned lazily, here a sequence; and its receiver's       *)
(* doubly linked list of senders, kept here pointer by pointer, since the  *)
(* destructor threads a local variable into it.                            *)
(*                                                                         *)
(* stack of a thread: the calls it is in, what a slot calls on top of the  *)
(* emission that called the slot.  kind and pc of a frame:                 *)
(*   emit         lock, visit (mutex held), copy (the arguments of a       *)
(*                queued call, without the mutex), slot (user code);       *)
(*   connect      lock, second (the mutex with the lower address is held); *)
(*   disconnect, receivers, senders  QObject::disconnect and the two loops *)
(*                of the destructor: lock, walk (the mutex of obj held),   *)
(*                lower and upper (a relock that gave it up), both (that   *)
(*                of other held too), functor (a slot object is being      *)
(*                destroyed without the mutex);                            *)
(*   break        QObject::disconnect of a QMetaObject::Connection: lock,  *)
(*                second, functor.                                         *)
(***************************************************************************)
EXTENDS Integers, Sequences, FiniteSets

CONSTANTS
    Threads, Objects,
    Nobody,         \* no thread, the null object
    Home,           \* the thread each object lives in
    Lock,           \* signalSlotLock: the address of each object's mutex
    Links,          \* the <<sender, receiver, functor>> that get connected
    Calls,          \* what user code calls, of CallNames
    Breakers,       \* the <<thread, sender, receiver>> such that the thread may
                    \* disconnect the one from the other by their handle
    MaxConnections, \* bound on the number of connections ever made
    MaxDepth        \* bound on the depth of the stacks

CallNames == {"emit", "disconnect", "disconnect all", "destroy"}

ASSUME ConnectionsAssumption ==
    /\ Nobody \notin Threads \cup Objects
    /\ Home \in [Objects -> Threads] /\ Lock \in [Objects -> Nat]
    /\ Links \subseteq Objects \X Objects \X BOOLEAN
    /\ Calls \subseteq CallNames
    /\ Breakers \subseteq Threads \X Objects \X Objects
    /\ MaxConnections \in Nat /\ MaxDepth \in Nat
    /\ IsFiniteSet(Threads)

Ids == 1..MaxConnections
Mutexes == {Lock[o] : o \in Objects}

VARIABLES
    conn,       \* the connections: their number is their name, 0 the null pointer
    handles,    \* the connections whose QMetaObject::Connection is kept
    lists,      \* QObjectConnectionListVector of each object, one signal
    head,       \* QObjectPrivate::senders
    node,       \* the variable node of the destructor
    status,     \* alive, in ~QObject, or gone
    holder,     \* who holds each mutex
    stack

listVars == <<conn, handles, lists, head, node>>
vars == <<listVars, status, holder, stack>>

\* What Connection::prev points to: QObjectPrivate::senders of an object, next
\* of a connection, or the node of a destructor.
HeadOf(o) == <<"head", o>>
NextOf(c) == <<"next", c>>
NodeOf(o) == <<"node", o>>
Target(ref) == CASE ref[1] = "head" -> head[ref[2]]
                 [] ref[1] = "next" -> conn[ref[2]].next
                 [] ref[1] = "node" -> node[ref[2]]

-----------------------------------------------------------------------------
\* Stacks and mutexes.

\* obj and other are the arguments of the call, peer the object whose mutex a
\* relock gets, c the connection it is at, last and newest the ones that were
\* last in the list and newest of all when the emission began.
Frame(kind, o, p) == [kind |-> kind, pc |-> "lock", obj |-> o, other |-> p,
                      peer |-> Nobody, c |-> 0, last |-> 0, newest |-> 0]

Calling(t) == stack[t] # <<>>
Top(t) == stack[t][Len(stack[t])]
At(t, kinds, pc) == Calling(t) /\ Top(t).kind \in kinds /\ Top(t).pc = pc
Below(t) == SubSeq(stack[t], 1, Len(stack[t]) - 1)
Call(t, frame) == stack' = [stack EXCEPT ![t] = Append(@, frame)]
Replace(t, frame) == stack' = [stack EXCEPT ![t] = Append(Below(t), frame)]
GoTo(t, pc) == Replace(t, [Top(t) EXCEPT !.pc = pc])
Return(t) == stack' = [stack EXCEPT ![t] = Below(t)]

UserCode(t) == ~Calling(t) \/ At(t, {"emit"}, "slot")
MayCall(t) == UserCode(t) /\ Len(stack[t]) < MaxDepth
Alive(o) == status[o] = "alive"

Free(o) == holder[Lock[o]] = Nobody
Hold(t, o) == holder' = [holder EXCEPT ![Lock[o]] = t]
Release(os) == holder' = [m \in Mutexes |-> IF \E o \in os : Lock[o] = m
                                            THEN Nobody ELSE holder[m]]

-----------------------------------------------------------------------------
\* The sender's list.

NoList == [seq |-> <<>>, inUse |-> 0, dirty |-> FALSE, state |-> "none"]
Attached(o) == lists[o].state = "attached"

\* c->nextConnectionList, 0 at the end.
Following(seq, c) ==
    LET after == {k \in 2..Len(seq) : seq[k - 1] = c}
    IN IF after = {} THEN 0 ELSE seq[CHOOSE k \in after : TRUE]

\* What is left of the list, in order, when the connections in C are taken out.
Without(seq, C) ==
    LET kept == {k \in 1..Len(seq) : seq[k] \notin C}
    IN [i \in 1..Cardinality(kept) |->
            seq[CHOOSE k \in kept : Cardinality({j \in kept : j <= k}) = i]]

First(seq) == IF seq = <<>> THEN 0 ELSE Head(seq)

\* Mutant: the last user of an orphaned vector does not delete it.
Unused_Leaks(list) == [list EXCEPT !.inUse = @ - 1]

\* --inUse, and the vector of a destroyed object goes with its last user.
Unused(list) ==
    IF list.inUse = 1 /\ list.state = "orphaned"
    THEN [NoList EXCEPT !.state = "deleted"]
    ELSE [list EXCEPT !.inUse = @ - 1]

-----------------------------------------------------------------------------
\* The receiver's list.

Connected(c) == conn[c].receiver # Nobody

\* *c->prev = c->next; if (c->next) c->next->prev = c->prev; c->receiver = 0
Unlinked(c) ==
    LET next == conn[c].next
        prev == conn[c].prev
    IN [d \in Ids |->
          [conn[d] EXCEPT !.next = IF prev = NextOf(d) THEN next ELSE @,
                          !.prev = IF d = next THEN prev ELSE @,
                          !.receiver = IF d = c THEN Nobody ELSE @]]
SetPrevious(c) ==
    /\ head' = [o \in Objects |->
                   IF conn[c].prev = HeadOf(o) THEN conn[c].next ELSE head[o]]
    /\ node' = [o \in Objects |->
                   IF conn[c].prev = NodeOf(o) THEN conn[c].next ELSE node[o]]

\* c->isSlotObject = false
WithoutSlot(cs, c) == [cs EXCEPT ![c].functor = FALSE]

\* The connections without c and its slot object, unless c was disconnected
\* while the relock had the mutex given up.
Disconnected(c) == WithoutSlot(IF Connected(c) THEN Unlinked(c) ELSE conn, c)
SetPreviousIfConnected(c) ==
    IF Connected(c) THEN SetPrevious(c) ELSE UNCHANGED <<head, node>>

-----------------------------------------------------------------------------
\* QOrderedMutexLocker::relock, by a call that holds the mutex of f.obj and
\* needs that of p too: it waits for a mutex of higher address, and gives its
\* own up if one of lower address is not to be had at once.

\* Mutant: it waits in either order.
Relock_Waits(t, f, p) ==
    /\ Lock[f.obj] = Lock[p] \/ Free(p)
    /\ Hold(t, p)
    /\ Replace(t, [f EXCEPT !.pc = "both", !.peer = p])

Relock(t, f, p) ==
    \/ /\ Lock[f.obj] = Lock[p] \/ Free(p)
       /\ Hold(t, p)
       /\ Replace(t, [f EXCEPT !.pc = "both", !.peer = p])
    \/ /\ Lock[f.obj] > Lock[p] /\ ~Free(p)
       /\ Release({f.obj})
       /\ Replace(t, [f EXCEPT !.pc = "lower", !.peer = p])

Relocking == {"disconnect", "receivers", "senders"}

Lower(t) ==
    /\ At(t, Relocking, "lower") /\ Free(Top(t).peer)
    /\ Hold(t, Top(t).peer) /\ GoTo(t, "upper")
    /\ UNCHANGED <<listVars, status>>

Upper(t) ==
    /\ At(t, Relocking, "upper") /\ Free(Top(t).obj)
    /\ Hold(t, Top(t).obj) /\ GoTo(t, "both")
    /\ UNCHANGED <<listVars, status>>

\* After "both": the other mutex is released, and the own one too while the
\* slot object of a functor is destroyed.
Resume(t, f, functor) ==
    IF functor
    THEN Release({f.obj, f.peer}) /\ Replace(t, [f EXCEPT !.pc = "functor"])
    ELSE /\ Replace(t, [f EXCEPT !.pc = "walk", !.peer = Nobody])
         /\ IF Lock[f.peer] = Lock[f.obj] THEN UNCHANGED holder
                                          ELSE Release({f.peer})

-----------------------------------------------------------------------------
\* QObject::connect.  Its QMetaObject::Connection is kept by somebody who may
\* use it, and dropped at once otherwise.

Made == {c \in Ids : conn[c].sender # Nobody}
Newest == Cardinality(Made)
Making == {t \in Threads : \E k \in 1..Len(stack[t]) : stack[t][k].kind = "connect"}
Kept(s, r) == \E t \in Threads : <<t, s, r>> \in Breakers

\* c of the frame: whether the slot is a functor.
Connect(t, s, r, functor) ==
    /\ MayCall(t) /\ Newest + Cardinality(Making) < MaxConnections
    /\ t \in {Home[s], Home[r]} /\ Alive(s) /\ Alive(r)
    /\ Call(t, [Frame("connect", s, r) EXCEPT !.c = IF functor THEN 1 ELSE 0])
    /\ UNCHANGED <<listVars, status, holder>>

LowerOf(o, p) == IF Lock[o] < Lock[p] THEN o ELSE p

\* QOrderedMutexLocker: the mutex with the lower address first.
LockFirst(t) ==
    LET first == LowerOf(Top(t).obj, Top(t).other) IN
    /\ At(t, {"connect", "break"}, "lock") /\ Free(first)
    /\ Hold(t, first) /\ GoTo(t, "second")
    /\ UNCHANGED <<listVars, status>>

\* Both mutexes are t's, the second one as soon as it is free.
HasBoth(t) ==
    \A o \in {Top(t).obj, Top(t).other} : holder[Lock[o]] \in {Nobody, t}

\* Mutant: the list is cleaned while it is walked.
Cleans_InUse(list) == list.dirty

\* cleanConnectionLists: the connections that were disconnected leave the list
\* and lose a reference, if nobody walks it.
Cleans(list) == list.dirty /\ list.inUse = 0

\* addConnection.
AddConnection(t) ==
    LET f == Top(t)
        s == f.obj
        r == f.other
        c == Newest + 1
        seq == Append(lists[s].seq, c)
        broken == {lists[s].seq[k] : k \in {j \in 1..Len(lists[s].seq) :
                                                ~Connected(lists[s].seq[j])}}
        cleans == Cleans(lists[s])
        kept == Kept(s, r)
    IN
    /\ At(t, {"connect"}, "second") /\ HasBoth(t)
    /\ lists' = [lists EXCEPT ![s] =
          IF cleans
          THEN [@ EXCEPT !.seq = Without(seq, broken), !.dirty = FALSE, !.state = "attached"]
          ELSE [@ EXCEPT !.seq = seq, !.state = "attached"]]
    /\ conn' = [d \in Ids |->
          IF d = c
          THEN [sender |-> s, receiver |-> r, functor |-> f.c = 1,
                ref |-> IF kept THEN 2 ELSE 1, next |-> head[r], prev |-> HeadOf(r)]
          ELSE [conn[d] EXCEPT
                   !.prev = IF d = head[r] THEN NextOf(c) ELSE @,
                   !.ref = IF cleans /\ d \in broken THEN @ - 1 ELSE @]]
    /\ handles' = IF kept THEN handles \cup {c} ELSE handles
    /\ head' = [head EXCEPT ![r] = c]
    /\ Release({s, r}) /\ Return(t)
    /\ UNCHANGED <<node, status>>

-----------------------------------------------------------------------------
\* QMetaObject::activate, the emission of a signal.

Emit(t, s) ==
    /\ "emit" \in Calls /\ MayCall(t) /\ Home[s] = t /\ Alive(s)
    /\ Call(t, Frame("emit", s, Nobody))
    /\ UNCHANGED <<listVars, status, holder>>

EmitBegin(t) ==
    LET f == Top(t)
        seq == lists[f.obj].seq
    IN
    /\ At(t, {"emit"}, "lock") /\ Free(f.obj)
    /\ IF seq = <<>>
       THEN Return(t) /\ UNCHANGED <<lists, holder>>
       ELSE /\ lists' = [lists EXCEPT ![f.obj].inUse = @ + 1]
            /\ Hold(t, f.obj)
            /\ Replace(t, [f EXCEPT !.pc = "visit", !.c = Head(seq),
                                    !.last = seq[Len(seq)], !.newest = Newest])
    /\ UNCHANGED <<conn, handles, head, node, status>>

\* Mutant: up to the end of the list as it is now.
AtLast_Now(f) == Following(lists[f.obj].seq, f.c) = 0

\* while (c != last && (c = c->nextConnectionList) != 0)
AtLast(f) == f.c = f.last \/ Following(lists[f.obj].seq, f.c) = 0

EmitLeave(t) ==
    /\ lists' = [lists EXCEPT ![Top(t).obj] = Unused(@)]
    /\ Release({Top(t).obj}) /\ Return(t)

EmitOn(t) ==
    LET f == Top(t) IN
    IF AtLast(f)
    THEN EmitLeave(t)
    ELSE /\ Replace(t, [f EXCEPT !.pc = "visit", !.other = Nobody,
                                 !.c = Following(lists[f.obj].seq, f.c)])
         /\ Hold(t, f.obj)
         /\ UNCHANGED lists

\* The slot is called directly in the receiver's thread, and by an event
\* otherwise, for which the arguments are copied without the mutex.
Visit(t) ==
    LET f == Top(t) IN
    /\ At(t, {"emit"}, "visit")
    /\ IF ~Connected(f.c)
       THEN EmitOn(t)
       ELSE LET r == conn[f.c].receiver IN
            /\ Replace(t, [f EXCEPT !.other = r,
                                    !.pc = IF Home[r] = t THEN "slot" ELSE "copy"])
            /\ Release({f.obj})
            /\ UNCHANGED lists
    /\ UNCHANGED <<conn, handles, head, node, status>>

\* The slot returns; an emission whose sender is gone ends.
SlotReturns(t) ==
    LET f == Top(t) IN
    /\ At(t, {"emit"}, "slot") /\ Free(f.obj)
    /\ IF lists[f.obj].state = "orphaned" THEN EmitLeave(t) ELSE EmitOn(t)
    /\ UNCHANGED <<conn, handles, head, node, status>>

\* The event is posted if c is still connected, and not otherwise.
Queued(t) ==
    /\ At(t, {"emit"}, "copy") /\ Free(Top(t).obj)
    /\ EmitOn(t)
    /\ UNCHANGED <<conn, handles, head, node, status>>

-----------------------------------------------------------------------------
\* QObject::disconnect(s, 0, r, 0), r = Nobody for any receiver.

Disconnect(t, s, r) ==
    /\ "disconnect" \in Calls /\ MayCall(t)
    /\ t \in {Home[s], Home[r]} /\ Alive(s) /\ Alive(r)
    /\ Call(t, Frame("disconnect", s, r))
    /\ UNCHANGED <<listVars, status, holder>>

DisconnectAll(t, s) ==
    /\ "disconnect all" \in Calls /\ MayCall(t) /\ t = Home[s] /\ Alive(s)
    /\ Call(t, Frame("disconnect", s, Nobody))
    /\ UNCHANGED <<listVars, status, holder>>

DisconnectBegin(t) ==
    LET f == Top(t) IN
    /\ At(t, {"disconnect"}, "lock") /\ Free(f.obj)
    /\ IF ~Attached(f.obj)
       THEN Return(t) /\ UNCHANGED <<lists, holder>>
       ELSE /\ lists' = [lists EXCEPT ![f.obj].inUse = @ + 1]
            /\ Hold(t, f.obj)
            /\ Replace(t, [f EXCEPT !.pc = "walk", !.c = First(lists[f.obj].seq)])
    /\ UNCHANGED <<conn, handles, head, node, status>>

\* The connection after c; last remembers that one was disconnected.
DisconnectOn(f) == [f EXCEPT !.c = Following(lists[f.obj].seq, f.c)]

DisconnectWalk(t) ==
    LET f == Top(t) IN
    /\ At(t, {"disconnect"}, "walk")
    /\ IF f.c = 0
       THEN /\ lists' = [lists EXCEPT
                  ![f.obj] = Unused(IF f.last = 0 THEN @ ELSE [@ EXCEPT !.dirty = TRUE])]
            /\ Release({f.obj}) /\ Return(t)
       ELSE /\ IF Connected(f.c) /\ f.other \in {Nobody, conn[f.c].receiver}
               THEN Relock(t, f, conn[f.c].receiver)
               ELSE Replace(t, DisconnectOn(f)) /\ UNCHANGED holder
            /\ UNCHANGED lists
    /\ UNCHANGED <<conn, handles, head, node, status>>

DisconnectBoth(t) ==
    LET f == [Top(t) EXCEPT !.last = Top(t).c]
        functor == conn[f.c].functor
    IN
    /\ At(t, {"disconnect"}, "both")
    /\ conn' = Disconnected(f.c) /\ SetPreviousIfConnected(f.c)
    /\ Resume(t, IF functor THEN f ELSE DisconnectOn(f), functor)
    /\ UNCHANGED <<handles, lists, status>>

DisconnectFunctor(t) ==
    LET f == Top(t) IN
    /\ At(t, {"disconnect"}, "functor") /\ Free(f.obj)
    /\ Hold(t, f.obj)
    /\ Replace(t, [DisconnectOn(f) EXCEPT !.pc = "walk", !.peer = Nobody])
    /\ UNCHANGED <<listVars, status>>

-----------------------------------------------------------------------------
\* ~QObject, called in the object's thread.  No other thread is in a call that
\* names the object as its sender or receiver, as the caller has to see to; an
\* emission of it in the same thread may be going on.

Named(u, o) == \E k \in 1..Len(stack[u]) :
    stack[u][k].kind \in {"connect", "disconnect"} /\ o \in {stack[u][k].obj, stack[u][k].other}

Destroy(t, o) ==
    /\ "destroy" \in Calls /\ MayCall(t) /\ Home[o] = t /\ Alive(o)
    /\ \A u \in Threads \ {t} : ~Named(u, o)
    /\ status' = [status EXCEPT ![o] = "dying"]
    /\ Call(t, Frame("receivers", o, Nobody))
    /\ UNCHANGED <<listVars, holder>>

Gone(t) ==
    /\ status' = [status EXCEPT ![Top(t).obj] = "gone"]
    /\ Return(t)

\* On to the second loop: node = d->senders.
ToSenders(t) ==
    /\ node' = [node EXCEPT ![Top(t).obj] = head[Top(t).obj]]
    /\ Replace(t, [Frame("senders", Top(t).obj, Nobody) EXCEPT !.pc = "walk"])

DestroyBegin(t) ==
    LET o == Top(t).obj IN
    /\ At(t, {"receivers"}, "lock")
    /\ \/ /\ ~Attached(o) /\ head[o] = 0
          /\ Gone(t)
          /\ UNCHANGED <<listVars, holder>>
       \/ /\ Attached(o) \/ head[o] # 0
          /\ Free(o) /\ Hold(t, o)
          /\ IF Attached(o)
             THEN /\ lists' = [lists EXCEPT ![o].inUse = @ + 1]
                  /\ GoTo(t, "walk")
                  /\ UNCHANGED node
             ELSE ToSenders(t) /\ UNCHANGED lists
          /\ UNCHANGED <<conn, handles, head, status>>

Dropped(o) == [lists EXCEPT ![o].seq = Tail(@)]
Deref(cs, c) == [cs EXCEPT ![c].ref = @ - 1]

\* disconnect all receivers
ReceiversWalk(t) ==
    LET o == Top(t).obj
        c == First(lists[o].seq)
    IN
    /\ At(t, {"receivers"}, "walk")
    /\ IF c = 0
       THEN /\ lists' = [lists EXCEPT ![o] = Unused([@ EXCEPT !.state = "orphaned"])]
            /\ ToSenders(t)
            /\ UNCHANGED <<conn, holder>>
       ELSE /\ IF Connected(c)
               THEN /\ Relock(t, [Top(t) EXCEPT !.c = c], conn[c].receiver)
                    /\ UNCHANGED <<conn, lists>>
               ELSE /\ lists' = Dropped(o) /\ conn' = Deref(conn, c)
                    /\ UNCHANGED <<holder, stack>>
            /\ UNCHANGED node
    /\ UNCHANGED <<handles, head, status>>

\* c->receiver = 0; connectionList.first = c->nextConnectionList; c->deref(),
\* after the slot object is destroyed if there is one.
ReceiversBoth(t) ==
    LET f == Top(t)
        functor == conn[f.c].functor
    IN
    /\ At(t, {"receivers"}, "both")
    /\ conn' = IF functor THEN Disconnected(f.c) ELSE Deref(Disconnected(f.c), f.c)
    /\ SetPreviousIfConnected(f.c)
    /\ lists' = Dropped(f.obj)
    /\ Resume(t, f, functor)
    /\ UNCHANGED <<handles, status>>

ReceiversFunctor(t) ==
    /\ At(t, {"receivers"}, "functor") /\ Free(Top(t).obj)
    /\ Hold(t, Top(t).obj)
    /\ conn' = Deref(conn, Top(t).c)
    /\ Replace(t, [Top(t) EXCEPT !.pc = "walk", !.peer = Nobody])
    /\ UNCHANGED <<handles, lists, head, node, status>>

\* Mutant: the node does not know that the destructor's variable points to it.
SendersWalk_KeepsPrevious(t) ==
    LET o == Top(t).obj
        c == node[o]
    IN
    /\ At(t, {"senders"}, "walk")
    /\ IF c = 0
       THEN Release({o}) /\ Gone(t) /\ UNCHANGED conn
       ELSE /\ Relock(t, Top(t), conn[c].sender)
            /\ UNCHANGED <<conn, status>>
    /\ UNCHANGED <<handles, lists, head, node>>

\* Disconnect all senders.  node->prev = &node, so that node is updated if it
\* is unlinked while the mutex is given up.
SendersWalk(t) ==
    LET o == Top(t).obj
        c == node[o]
    IN
    /\ At(t, {"senders"}, "walk")
    /\ IF c = 0
       THEN Release({o}) /\ Gone(t) /\ UNCHANGED conn
       ELSE /\ conn' = [conn EXCEPT ![c].prev = NodeOf(o)]
            /\ Relock(t, Top(t), conn[c].sender)
            /\ UNCHANGED status
    /\ UNCHANGED <<handles, lists, head, node>>

\* if (!node || node->sender != sender)
WrongMutex(f) == node[f.obj] = 0 \/ conn[node[f.obj]].sender # f.peer

SendersBoth(t) ==
    LET f == Top(t)
        c == node[f.obj]
        functor == conn[c].functor
        next == conn[c].next
    IN
    /\ At(t, {"senders"}, "both")
    /\ IF WrongMutex(f)
       THEN Resume(t, f, FALSE) /\ UNCHANGED <<conn, lists, node>>
       ELSE /\ conn' = [d \in Ids |->
                  [conn[d] EXCEPT
                      !.receiver = IF d = c THEN Nobody ELSE @,
                      !.functor = @ /\ d # c,
                      !.prev = IF functor /\ d = next THEN NodeOf(f.obj) ELSE @]]
            /\ lists' = IF Attached(f.peer)
                        THEN [lists EXCEPT ![f.peer].dirty = TRUE] ELSE lists
            /\ node' = [node EXCEPT ![f.obj] = next]
            /\ Resume(t, f, functor)
    /\ UNCHANGED <<handles, head, status>>

SendersFunctor(t) ==
    /\ At(t, {"senders"}, "functor") /\ Free(Top(t).obj)
    /\ Hold(t, Top(t).obj)
    /\ Replace(t, [Top(t) EXCEPT !.pc = "walk", !.peer = Nobody])
    /\ UNCHANGED <<listVars, status>>

-----------------------------------------------------------------------------
\* QObject::disconnect of a QMetaObject::Connection.  It looks whether the
\* connection is still there before it has the mutexes, and not again.

Break(t, c) ==
    /\ MayCall(t) /\ c \in handles
    /\ <<t, conn[c].sender, conn[c].receiver>> \in Breakers
    /\ handles' = handles \ {c}
    /\ Call(t, [Frame("break", conn[c].sender, conn[c].receiver) EXCEPT !.c = c])
    /\ UNCHANGED <<conn, lists, head, node, status, holder>>

BreakBoth(t) ==
    LET f == Top(t) IN
    /\ At(t, {"break"}, "second") /\ HasBoth(t)
    /\ lists' = [lists EXCEPT ![f.obj].dirty = TRUE]
    /\ conn' = Unlinked(f.c) /\ SetPrevious(f.c)
    /\ Release({f.obj, f.other}) /\ GoTo(t, "functor")
    /\ UNCHANGED <<handles, status>>

\* Without the mutexes: the slot object is destroyed, if there is one, and the
\* reference of the QMetaObject::Connection is dropped.
BreakFunctor(t) ==
    LET c == Top(t).c IN
    /\ At(t, {"break"}, "functor")
    /\ conn' = Deref(WithoutSlot(conn, c), c)
    /\ Return(t)
    /\ UNCHANGED <<handles, lists, head, node, status, holder>>

\* The QMetaObject::Connection of a connection that is gone is dropped.
DropHandle(c) ==
    /\ c \in handles /\ ~Connected(c)
    /\ handles' = handles \ {c}
    /\ conn' = Deref(conn, c)
    /\ UNCHANGED <<lists, head, node, status, holder, stack>>

-----------------------------------------------------------------------------
Init ==
    /\ conn = [c \in Ids |-> [sender |-> Nobody, receiver |-> Nobody,
                              functor |-> FALSE, ref |-> 0, next |-> 0,
                              prev |-> NextOf(0)]]
    /\ handles = {}
    /\ lists = [o \in Objects |-> NoList]
    /\ head = [o \in Objects |-> 0]
    /\ node = [o \in Objects |-> 0]
    /\ status = [o \in Objects |-> "alive"]
    /\ holder = [m \in Mutexes |-> Nobody]
    /\ stack = [t \in Threads |-> <<>>]

\* What a thread does inside the functions.
Step(t) ==
    \/ LockFirst(t) \/ AddConnection(t)
    \/ EmitBegin(t) \/ Visit(t) \/ Queued(t)
    \/ DisconnectBegin(t) \/ DisconnectWalk(t) \/ DisconnectBoth(t) \/ DisconnectFunctor(t)
    \/ Lower(t) \/ Upper(t)
    \/ DestroyBegin(t) \/ ReceiversWalk(t) \/ ReceiversBoth(t) \/ ReceiversFunctor(t)
    \/ SendersWalk(t) \/ SendersBoth(t) \/ SendersFunctor(t)
    \/ BreakBoth(t) \/ BreakFunctor(t)

User(t) ==
    \/ \E l \in Links : Connect(t, l[1], l[2], l[3]) \/ Disconnect(t, l[1], l[2])
    \/ \E o \in Objects : Emit(t, o) \/ DisconnectAll(t, o) \/ Destroy(t, o)
    \/ \E c \in Made : Break(t, c)
    \/ SlotReturns(t)

Next == (\E t \in Threads : Step(t) \/ User(t)) \/ \E c \in Made : DropHandle(c)

Spec == Init /\ [][Next]_vars

\* Threads go on inside the functions, slots return, and the mutexes are fair
\* enough that a thread gets one that is free again and again.
LiveSpec == Spec /\ \A t \in Threads : SF_vars(Step(t) \/ SlotReturns(t))

-----------------------------------------------------------------------------
\* Properties.

FrameType ==
    [kind : {"emit", "connect", "break"} \cup Relocking,
     pc : {"lock", "second", "visit", "copy", "slot", "walk", "lower", "upper",
           "both", "functor"},
     obj : Objects, other : Objects \cup {Nobody}, peer : Objects \cup {Nobody},
     c : Nat, last : Nat, newest : Nat]

PointerType == {HeadOf(o) : o \in Objects} \cup {NodeOf(o) : o \in Objects}
                   \cup {NextOf(c) : c \in Ids \cup {0}}
ConnectionType ==
    [sender : Objects \cup {Nobody}, receiver : Objects \cup {Nobody},
     functor : BOOLEAN, ref : Int, next : Ids \cup {0}, prev : PointerType]
ListType == [seq : Seq(Ids), inUse : Nat, dirty : BOOLEAN,
             state : {"none", "attached", "orphaned", "deleted"}]

TypeOK ==
    /\ conn \in [Ids -> ConnectionType] /\ handles \subseteq Ids
    /\ lists \in [Objects -> ListType]
    /\ head \in [Objects -> Ids \cup {0}] /\ node \in [Objects -> Ids \cup {0}]
    /\ status \in [Objects -> {"alive", "dying", "gone"}]
    /\ holder \in [Mutexes -> Threads \cup {Nobody}]
    /\ stack \in [Threads -> Seq(FrameType)]
    /\ \A t \in Threads : Len(stack[t]) <= MaxDepth

Frames == UNION {{stack[t][k] : k \in 1..Len(stack[t])} : t \in Threads}
InSenders(o) == \E f \in Frames : f.kind = "senders" /\ f.obj = o

\* A connection that is not disconnected is in its sender's list and, by
\* pointers that agree with each other, in its receiver's; and neither object
\* is gone: whatever destructors of both ends, disconnects and emissions are
\* under way, with or without the mutexes.  (The destructor that walks the
\* receiver's list puts the first prev right before it lets go of the mutex.)
Pointer(ref, r) ==
    \/ ref \in {HeadOf(r), NodeOf(r)}
    \/ \E d \in Ids : ref = NextOf(d) /\ conn[d].receiver = r
TwoSided ==
    \A c \in Ids : LET s == conn[c].sender
                       r == conn[c].receiver
                   IN
    Connected(c) =>
        /\ \E k \in 1..Len(lists[s].seq) : lists[s].seq[k] = c
        /\ status[s] # "gone" /\ status[r] # "gone"
        /\ \/ Pointer(conn[c].prev, r) /\ Target(conn[c].prev) = c
           \/ InSenders(r) /\ node[r] = c /\ ~Free(r)

\* No call works with a connection or a connection list that was deleted: not
\* emissions whose sender or receiver a slot deletes, nor disconnects and
\* destructors that gave a mutex up.
Uses(f) ==
    CASE f.kind = "emit" -> IF Alive(f.obj) THEN {f.c} ELSE {}
      [] f.kind = "senders" -> {node[f.obj]}
      [] f.kind = "receivers" -> IF f.pc = "walk" THEN {} ELSE {f.c}
      [] OTHER -> {f.c}
NothingDangling ==
    \A f \in Frames :
        f.kind # "connect" /\ f.pc # "lock" =>
            /\ \A c \in Uses(f) \ {0} : conn[c].ref > 0
            /\ f.kind \in {"emit", "disconnect"} => lists[f.obj].state # "deleted"

\* "signals added during the signal emission are not emitted in this emission"
\* (activate).
NotInThisEmission ==
    \A f \in Frames :
        f.kind = "emit" /\ f.pc \in {"slot", "copy"} => f.c <= f.newest

\* When all objects are gone, no connection and no list is left.
NothingLeft ==
    (\A o \in Objects : status[o] = "gone") /\ Frames = {} /\ handles = {} =>
        /\ \A c \in Ids : conn[c].ref = 0
        /\ \A o \in Objects : lists[o].state \in {"none", "deleted"}

\* Every call returns: threads that lock the same mutexes in whatever order
\* their calls come upon them do not wait for each other for ever.
CallsReturn == \A t \in Threads : []<>UserCode(t)
=============================================================================
