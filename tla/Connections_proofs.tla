------------------------ MODULE Connections_proofs ------------------------
(***************************************************************************)
(* Proofs about Connections, for any finite set of threads, any objects    *)
(* and mutexes, and any number of connections and nested calls: that an    *)
(* emission calls none of the slots connected after it began; that the two *)
(* lists a connection is in agree; that no call which gave its mutexes up  *)
(* goes on with a deleted connection or list; and that none is leaked.     *)
(*                                                                         *)
(* The invariant is in two parts.  CallInv is about the calls, the mutexes *)
(* they have and the senders' lists, and is inductive alone.  ConnInv is   *)
(* about the receivers' lists and the references to a connection, and is   *)
(* inductive together with it where OwnHandles holds.                      *)
(***************************************************************************)
EXTENDS Connections, FiniteSetTheorems, FunctionTheorems, TLAPS

-----------------------------------------------------------------------------
\* The invariant: calls and lists of connections.

Elements(seq) == {seq[k] : k \in 1..Len(seq)}
Listed(o) == Elements(lists[o].seq)
Increasing(seq) == \A i, j \in 1..Len(seq) : i < j => seq[i] < seq[j]

\* Only the call on top goes on; those below are emissions whose slots called.
Suspended == \A t \in Threads : \A k \in 1..(Len(stack[t]) - 1) :
                 stack[t][k].kind = "emit" /\ stack[t][k].pc = "slot"

\* An emission stays between the first and the last connection of the list as
\* it was when it began, as long as its sender is there.
EmitOK(t, f) ==
    /\ Home[f.obj] = t /\ f.pc \in {"lock", "visit", "copy", "slot"}
    /\ f.pc # "slot" => Alive(f.obj)
    /\ f.pc # "lock" => f.c <= f.last /\ f.last <= f.newest
    /\ f.pc # "lock" /\ Alive(f.obj) => f.c \in Listed(f.obj) /\ f.last \in Listed(f.obj)

\* The objects that a call names live on.
ConnectOK(f) ==
    /\ f.pc \in {"lock", "second"}
    /\ f.other \in Objects /\ Alive(f.obj) /\ Alive(f.other)

RelockPcs == {"lower", "upper", "both"}

DisconnectOK(t, f) ==
    /\ f.pc \in {"lock", "walk", "functor"} \cup RelockPcs
    /\ Alive(f.obj) /\ (f.other # Nobody => Alive(f.other))
    /\ Home[f.obj] = t \/ (f.other # Nobody /\ Home[f.other] = t)
    /\ f.pc # "lock" => f.c \in Listed(f.obj) \cup {0}
    /\ f.pc \in RelockPcs => f.peer \in Objects /\ f.c # 0

\* The destructor is in the thread of the object, which it empties the list of.
ReceiversOK(t, f) ==
    /\ f.pc \in {"lock", "walk", "functor"} \cup RelockPcs
    /\ Home[f.obj] = t /\ status[f.obj] = "dying"
    /\ f.pc # "lock" => Attached(f.obj)
    /\ f.pc \in RelockPcs =>
           f.peer \in Objects /\ f.c # 0 /\ f.c = First(lists[f.obj].seq)

SendersOK(t, f) ==
    /\ f.pc \in {"walk", "functor"} \cup RelockPcs
    /\ Home[f.obj] = t /\ status[f.obj] = "dying" /\ ~Attached(f.obj)
    /\ f.pc \in RelockPcs => f.peer \in Objects

BreakShape(f) == f.pc \in {"lock", "second", "functor"} /\ f.other \in Objects /\ f.c \in Ids

FrameOK(t, f) ==
    /\ f.kind = "emit" => EmitOK(t, f)
    /\ f.kind = "connect" => ConnectOK(f)
    /\ f.kind = "disconnect" => DisconnectOK(t, f)
    /\ f.kind = "receivers" => ReceiversOK(t, f)
    /\ f.kind = "senders" => SendersOK(t, f)
    /\ f.kind = "break" => BreakShape(f)

FramesOK == \A t \in Threads : \A k \in 1..Len(stack[t]) : FrameOK(t, stack[t][k])

\* Which mutexes a call has.
Locks(f) ==
    CASE f.kind \in {"connect", "break"} ->
             IF f.pc = "second" THEN {Lock[LowerOf(f.obj, f.other)]} ELSE {}
      [] f.pc \in {"visit", "walk"} -> {Lock[f.obj]}
      [] f.pc = "upper" -> {Lock[f.peer]}
      [] f.pc = "both" -> {Lock[f.obj], Lock[f.peer]}
      [] OTHER -> {}
MutexOK == \A t \in Threads : Calling(t) => \A m \in Locks(Top(t)) : holder[m] = t

\* A destructor that has not finished is on top of its thread's stack.
Destroying(o) == /\ Calling(Home[o]) /\ Top(Home[o]).obj = o
                 /\ Top(Home[o]).kind \in {"receivers", "senders"}
DyingOK == \A o \in Objects : status[o] = "dying" => Destroying(o)

\* The calls that inUse counts.
Walks(f, o) == /\ f.kind \in {"emit", "disconnect", "receivers"}
               /\ f.pc # "lock" /\ f.obj = o
Places == Threads \X (1..MaxDepth)
Walkers(o) == {p \in Places : p[2] <= Len(stack[p[1]]) /\ Walks(stack[p[1]][p[2]], o)}

ListOK(o) ==
    LET list == lists[o] IN
    /\ Increasing(list.seq)
    /\ \A c \in Listed(o) : conn[c].sender = o
    /\ list.inUse = Cardinality(Walkers(o))
    /\ list.state # "attached" => list.seq = <<>>
    /\ list.state \in {"none", "deleted"} => list.inUse = 0
    /\ list.state = "orphaned" => list.inUse # 0
    /\ Alive(o) => list.state \in {"none", "attached"}
    /\ status[o] = "gone" => list.state # "attached"
ListsOK == \A o \in Objects : ListOK(o)

NumbersOK == /\ Made = 1..Newest
             /\ Newest + Cardinality(Making) <= MaxConnections

\* Pointers lead to connections that were made.
PointersOK == /\ \A o \in Objects : {head[o], node[o]} \subseteq Made \cup {0}
              /\ \A c \in Ids : conn[c].next \in Made \cup {0}

CallInv == /\ TypeOK /\ Suspended /\ FramesOK /\ MutexOK /\ DyingOK
           /\ ListsOK /\ NumbersOK /\ PointersOK

-----------------------------------------------------------------------------
\* The invariant: receivers, references and handles.

\* Threads break by handle the connections between objects of their own only.
\* Otherwise disconnect(QMetaObject::Connection) may find the receiver, whose
\* mutex it took without asking again, deleted or changed, and no invariant
\* about the receivers' lists is kept.
OwnHandles == \A b \in Breakers : Home[b[2]] = b[1] /\ Home[b[3]] = b[1]

Incoming(r) == {c \in Ids : conn[c].receiver = r}
Greatest(n, S) == n \in S \cup {0} /\ \A e \in S : e <= n

Sends(o) == /\ Calling(Home[o]) /\ Top(Home[o]).obj = o
            /\ Top(Home[o]).kind = "senders"
Walking(o) == Sends(o) /\ Top(Home[o]).pc = "walk"

\* The newest connections come first.
HeadOK(r) ==
    /\ Sends(r) => Greatest(node[r], Incoming(r))
    /\ status[r] # "gone" /\ ~Sends(r) => Greatest(head[r], Incoming(r))
    /\ status[r] = "gone" => Incoming(r) = {}
Older(c) == {e \in Incoming(conn[c].receiver) : e < c}
NextOK(c) == Connected(c) => Greatest(conn[c].next, Older(c))
PrevOK(c) ==
    LET r == conn[c].receiver IN
    Connected(c) =>
        \/ \E d \in Incoming(r) : conn[c].prev = NextOf(d) /\ conn[d].next = c
        \/ conn[c].prev = HeadOf(r) /\ ~Sends(r) /\ head[r] = c
        \/ conn[c].prev = NodeOf(r) /\ Sends(r) /\ node[r] = c
        \/ Walking(r) /\ node[r] = c

ReceiverListsOK == /\ \A r \in Objects : HeadOK(r)
                   /\ \A c \in Ids : NextOK(c) /\ PrevOK(c)

SenderListsOK == \A c \in Ids : Connected(c) => c \in Made /\ c \in Listed(conn[c].sender)

\* Between looking at a connection and having its receiver's mutex.
PeerOK(f) == f.kind \in {"disconnect", "receivers"} /\ f.pc \in RelockPcs =>
                 /\ conn[f.c].receiver \in {f.peer, Nobody}
                 /\ f.kind = "disconnect" => f.other \in {f.peer, Nobody}
PeersOK == \A t \in Threads : Calling(t) => PeerOK(Top(t))

\* Whose reference a connection has besides that of the sender's list.
Dropping(t, c) == At(t, {"receivers"}, "functor") /\ Top(t).c = c
Breaking(t, c) == Calling(t) /\ Top(t).kind = "break" /\ Top(t).c = c
InList(c) == \E o \in Objects : c \in Listed(o)
Held(c) == InList(c) \/ \E t \in Threads : Dropping(t, c)
Owned(c) == c \in handles \/ \E t \in Threads : Breaking(t, c)
RefOK(c) == conn[c].ref = (IF Held(c) THEN 1 ELSE 0) + (IF Owned(c) THEN 1 ELSE 0)
DropOK(f) == f.c \in Made /\ ~InList(f.c) /\ conn[f.c].sender = f.obj
RefsOK == /\ \A c \in Ids : RefOK(c)
          /\ \A t \in Threads : At(t, {"receivers"}, "functor") => DropOK(Top(t))

BreakOK(t, f) ==
    /\ f.c \in Ids \ handles
    /\ conn[f.c].sender = f.obj
    /\ conn[f.c].receiver = IF f.pc = "functor" THEN Nobody ELSE f.other
    /\ Home[f.obj] = t /\ Home[f.other] = t
BreaksOK == /\ \A t \in Threads : Calling(t) /\ Top(t).kind = "break" => BreakOK(t, Top(t))
            /\ handles \subseteq Made

ConnInv == /\ ReceiverListsOK /\ SenderListsOK /\ PeersOK /\ RefsOK /\ BreaksOK
-----------------------------------------------------------------------------
\* Lists that are in order.

\* Connections are numbered from 1; 0 is the null pointer.
LEMMA IdsFinite ==
    /\ MaxConnections \in Nat /\ MaxDepth \in Nat
    /\ Ids = 1..MaxConnections /\ Ids \subseteq Nat /\ 0 \notin Ids
  BY ConnectionsAssumption DEF Ids

\* The next connection is the oldest of those that are newer.
LEMMA FollowingFacts ==
    ASSUME NEW seq \in Seq(Ids), Increasing(seq), NEW c \in Nat
    PROVE  /\ Following(seq, c) \in Elements(seq) \cup {0}
           /\ Following(seq, c) # 0 => c \in Elements(seq) /\ c < Following(seq, c)
           /\ \A e \in Elements(seq) : c \in Elements(seq) /\ c < e
                  => Following(seq, c) # 0 /\ Following(seq, c) <= e
<1> DEFINE after == {k \in 2..Len(seq) : seq[k - 1] = c}
<1>1. Len(seq) \in Nat /\ \A k \in 1..Len(seq) : seq[k] \in Nat /\ seq[k] # 0
  BY IdsFinite
<1>2. CASE after = {}
  <2>1. Following(seq, c) = 0
    BY <1>2 DEF Following
  <2>2. ASSUME NEW i \in 1..Len(seq), NEW j \in 1..Len(seq), seq[i] = c, c < seq[j]
        PROVE  FALSE
    <3>1. i < j
      BY <1>1, <2>2 DEF Increasing
    <3>2. i + 1 \in 2..Len(seq) /\ i + 1 - 1 = i
      BY <1>1, <3>1
    <3>3. i + 1 \in after
      BY <2>2, <3>2
    <3> QED
      BY <1>2, <3>3
  <2> QED
    BY <2>1, <2>2 DEF Elements
<1>3. CASE after # {}
  <2> DEFINE k == CHOOSE k \in after : TRUE
  <2>1. k \in after
    BY <1>3
  <2>2. Following(seq, c) = seq[k]
    BY <1>3 DEF Following
  <2> HIDE DEF k
  <2>3. k \in 2..Len(seq) /\ seq[k - 1] = c /\ k \in 1..Len(seq) /\ k - 1 \in 1..Len(seq)
    BY <1>1, <2>1
  <2>4. seq[k] # 0 /\ c < seq[k]
    BY <1>1, <2>3 DEF Increasing
  <2>5. ASSUME NEW j \in 1..Len(seq), c < seq[j] PROVE seq[k] <= seq[j]
    <3>1. ~(j < k - 1) /\ j # k - 1
      BY <1>1, <2>3, <2>5 DEF Increasing
    <3>2. j = k \/ k < j
      BY <2>3, <3>1
    <3> QED
      BY <1>1, <2>3, <3>2 DEF Increasing
  <2>6. c \in Elements(seq) /\ seq[k] \in Elements(seq)
    BY <2>3 DEF Elements
  <2> QED
    BY <2>2, <2>4, <2>5, <2>6 DEF Elements
<1> QED
  BY <1>2, <1>3

\* A connection made last goes to the end.
LEMMA AppendFacts ==
    ASSUME NEW seq \in Seq(Ids), Increasing(seq), NEW c \in Ids,
           \A e \in Elements(seq) : e < c
    PROVE  /\ Append(seq, c) \in Seq(Ids) /\ Increasing(Append(seq, c))
           /\ Elements(Append(seq, c)) = Elements(seq) \cup {c}
<1> DEFINE q == Append(seq, c)
           n == Len(seq)
<1>1. /\ q \in Seq(Ids) /\ n \in Nat /\ Len(q) = n + 1 /\ q[n + 1] = c
      /\ \A i \in 1..n : q[i] = seq[i]
  OBVIOUS
<1> HIDE DEF q
<1>2. ASSUME NEW i \in 1..Len(q), NEW j \in 1..Len(q), i < j PROVE q[i] < q[j]
  <2>1. i \in 1..n /\ q[i] = seq[i] /\ seq[i] \in Elements(seq)
    BY <1>1, <1>2 DEF Elements
  <2>2. CASE j = n + 1
    BY <1>1, <2>1, <2>2
  <2>3. CASE j # n + 1
    <3>1. j \in 1..n /\ q[j] = seq[j]
      BY <1>1, <2>3
    <3> QED
      BY <1>2, <2>1, <3>1 DEF Increasing
  <2> QED
    BY <2>2, <2>3
<1>3. ASSUME NEW e \in Elements(q) PROVE e \in Elements(seq) \cup {c}
  <2>1. PICK i \in 1..Len(q) : e = q[i]
    BY DEF Elements
  <2>2. i \in 1..n \/ i = n + 1
    BY <1>1
  <2> QED
    BY <1>1, <2>1, <2>2 DEF Elements
<1>4. ASSUME NEW e \in Elements(seq) \cup {c} PROVE e \in Elements(q)
  <2>1. CASE e = c
    <3>1. n + 1 \in 1..Len(q)
      BY <1>1
    <3> QED
      BY <1>1, <2>1, <3>1 DEF Elements
  <2>2. CASE e \in Elements(seq)
    <3>1. PICK i \in 1..n : e = seq[i]
      BY <2>2 DEF Elements
    <3>2. i \in 1..Len(q) /\ q[i] = e
      BY <1>1, <3>1
    <3> QED
      BY <3>2 DEF Elements
  <2> QED
    BY <2>1, <2>2
<1>5. Elements(q) = Elements(seq) \cup {c}
  BY <1>3, <1>4
<1> QED
  BY <1>1, <1>2, <1>5 DEF Increasing, q

\* The first one is taken out.
LEMMA TailFacts ==
    ASSUME NEW seq \in Seq(Ids), Increasing(seq), seq # <<>>
    PROVE  /\ Tail(seq) \in Seq(Ids) /\ Increasing(Tail(seq))
           /\ Elements(Tail(seq)) = Elements(seq) \ {Head(seq)}
           /\ Head(seq) \in Elements(seq) /\ Head(seq) \in Ids
<1> DEFINE q == Tail(seq)
           n == Len(seq)
<1>1. /\ q \in Seq(Ids) /\ n \in Nat \ {0} /\ Len(q) = n - 1 /\ Head(seq) = seq[1]
      /\ \A i \in 1..(n - 1) : q[i] = seq[i + 1]
  OBVIOUS
<1> HIDE DEF q
<1>2. 1 \in 1..n /\ seq[1] \in Ids /\ seq[1] \in Elements(seq)
  BY <1>1 DEF Elements
<1>3. ASSUME NEW i \in 1..Len(q), NEW j \in 1..Len(q), i < j PROVE q[i] < q[j]
  <2>1. i + 1 \in 1..n /\ j + 1 \in 1..n /\ i + 1 < j + 1
    BY <1>1, <1>3
  <2> QED
    BY <1>1, <2>1 DEF Increasing
<1>4. ASSUME NEW e \in Elements(q) PROVE e \in Elements(seq) \ {seq[1]}
  <2>1. PICK i \in 1..Len(q) : e = q[i]
    BY DEF Elements
  <2>2. i + 1 \in 1..n /\ 1 < i + 1 /\ e = seq[i + 1]
    BY <1>1, <2>1
  <2>3. seq[1] < seq[i + 1] /\ seq[1] \in Nat
    BY <1>2, <2>2, IdsFinite DEF Increasing
  <2> QED
    BY <2>2, <2>3 DEF Elements
<1>5. ASSUME NEW e \in Elements(seq) \ {seq[1]} PROVE e \in Elements(q)
  <2>1. PICK i \in 1..n : e = seq[i]
    BY DEF Elements
  <2>2. i - 1 \in 1..Len(q) /\ q[i - 1] = e
    <3>1. i # 1
      BY <2>1
    <3>2. i - 1 \in 1..(n - 1) /\ i - 1 + 1 = i
      BY <1>1, <3>1
    <3> QED
      BY <1>1, <2>1, <3>2
  <2> QED
    BY <2>2 DEF Elements
<1>6. Elements(q) = Elements(seq) \ {seq[1]}
  BY <1>4, <1>5
<1> QED
  BY <1>1, <1>2, <1>3, <1>6 DEF Increasing, q

\* The first of a list is the head of it, and 0 only if the list is empty.
LEMMA FirstFacts ==
    ASSUME NEW seq \in Seq(Ids)
    PROVE  /\ First(seq) = 0 <=> seq = <<>>
           /\ seq # <<>> => First(seq) = Head(seq) /\ First(seq) \in Elements(seq)
           /\ seq = <<>> => Elements(seq) = {}
           /\ Elements(seq) \subseteq Ids
<1>1. seq # <<>> => Len(seq) \in Nat \ {0} /\ Head(seq) = seq[1] /\ 1 \in 1..Len(seq)
  OBVIOUS
<1>2. seq # <<>> => Head(seq) \in Elements(seq) /\ Head(seq) \in Ids
  BY <1>1 DEF Elements
<1>3. seq = <<>> => Elements(seq) = {}
  BY DEF Elements
<1>4. Elements(seq) \subseteq Ids
  BY DEF Elements
<1> QED
  BY <1>2, <1>3, <1>4, IdsFinite DEF First

\* Every position that is kept has a number, and every number a position.
LEMMA Ranks ==
    ASSUME NEW n \in Nat, NEW K \in SUBSET (1..n)
    PROVE  LET rank == [k \in K |-> Cardinality({j \in K : j <= k})]
               m == Cardinality(K)
           IN  /\ m \in Nat
               /\ \A k \in K : rank[k] \in 1..m
               /\ \A k, l \in K : k < l => rank[k] < rank[l]
               /\ \A i \in 1..m : \E k \in K : rank[k] = i
<1> DEFINE upto(k) == {j \in K : j <= k}
           rank == [k \in K |-> Cardinality({j \in K : j <= k})]
           m == Cardinality(K)
<1>1. IsFiniteSet(1..n)
  <2>1. 1 \in Int /\ n \in Int
    OBVIOUS
  <2> QED
    BY <2>1, FS_Interval
<1>2. IsFiniteSet(K) /\ m \in Nat
  <2>1. IsFiniteSet(K)
    BY <1>1, FS_Subset
  <2> QED
    BY <2>1, FS_CardinalityType
<1>3. ASSUME NEW k \in K
      PROVE  /\ IsFiniteSet(upto(k)) /\ Cardinality(upto(k)) \in Nat
             /\ Cardinality(upto(k)) \in 1..m
  <2>1. upto(k) \in SUBSET K
    OBVIOUS
  <2> HIDE DEF upto
  <2>2. IsFiniteSet(upto(k)) /\ Cardinality(upto(k)) <= Cardinality(K)
    BY <1>2, <2>1, FS_Subset
  <2>3. Cardinality(upto(k)) \in Nat
    BY <2>2, FS_CardinalityType
  <2>4. k \in upto(k)
    BY DEF upto
  <2>5. Cardinality(upto(k)) # 0
    BY <2>2, <2>4, FS_EmptySet
  <2> QED
    BY <1>2, <2>2, <2>3, <2>5
<1>4. ASSUME NEW k \in K, NEW l \in K, k < l
      PROVE  Cardinality(upto(k)) < Cardinality(upto(l))
  <2>0. K \subseteq Int
    OBVIOUS
  <2>a. \A j \in K : j <= k => j <= l
    BY <1>4, <2>0
  <2>b. upto(k) \in SUBSET upto(l)
    BY <2>a
  <2>c. l <= l /\ ~(l <= k)
    BY <1>4, <2>0
  <2>1. upto(k) \in SUBSET upto(l) /\ l \in upto(l) /\ l \notin upto(k)
    BY <2>b, <2>c
  <2>2. upto(k) # upto(l)
    BY <2>1
  <2>3. IsFiniteSet(upto(l)) /\ Cardinality(upto(l)) \in Nat /\ Cardinality(upto(k)) \in Nat
    BY <1>3
  <2> HIDE DEF upto
  <2>4. Cardinality(upto(k)) <= Cardinality(upto(l)) /\ Cardinality(upto(k)) # Cardinality(upto(l))
    BY <2>1, <2>2, <2>3, FS_Subset
  <2> QED
    BY <2>3, <2>4
<1>5. \A k \in K : rank[k] = Cardinality(upto(k))
  OBVIOUS
<1>6. rank \in [K -> 1..m]
  BY <1>3
<1> HIDE DEF rank, upto
<1>7. \A k, l \in K : k < l => rank[k] < rank[l]
  BY <1>4, <1>5
<1>8. \A k \in K : rank[k] \in 1..m
  BY <1>6
<1>9. \A k, l \in K : rank[k] = rank[l] => k = l
  <2> SUFFICES ASSUME NEW k \in K, NEW l \in K, rank[k] = rank[l], k # l
               PROVE  FALSE
    OBVIOUS
  <2>1. k < l \/ l < k
    OBVIOUS
  <2>2. rank[k] \in Int /\ rank[l] \in Int
    BY <1>2, <1>8
  <2> QED
    BY <1>7, <2>1, <2>2
<1>10. rank \in Injection(K, 1..m)
  BY <1>6, <1>9 DEF Injection, IsInjective
<1>11. IsFiniteSet(1..m) /\ Cardinality(1..m) = m
  <2>1. 1 \in Int /\ m \in Int
    BY <1>2
  <2>2. IsFiniteSet(1..m) /\ Cardinality(1..m) = IF 1 > m THEN 0 ELSE m - 1 + 1
    BY <2>1, FS_Interval
  <2> HIDE DEF m
  <2> QED
    BY <1>2, <2>2
<1>12. rank \in Surjection(K, 1..m)
  <2> HIDE DEF m
  <2>1. Cardinality(K) = m
    BY DEF m
  <2> QED
    BY <1>10, <1>11, <2>1, FS_Injection
<1>13. \A i \in 1..m : \E k \in K : rank[k] = i
  BY <1>12 DEF Surjection
<1> QED
  BY <1>2, <1>7, <1>8, <1>13 DEF rank

\* What cleanConnectionLists leaves.
LEMMA WithoutFacts ==
    ASSUME NEW seq \in Seq(Ids), Increasing(seq), NEW C
    PROVE  /\ Without(seq, C) \in Seq(Ids) /\ Increasing(Without(seq, C))
           /\ Elements(Without(seq, C)) = Elements(seq) \ C
<1> DEFINE K == {k \in 1..Len(seq) : seq[k] \notin C}
           m == Cardinality(K)
           rank == [k \in K |-> Cardinality({j \in K : j <= k})]
           at(i) == CHOOSE k \in K : rank[k] = i
           q == Without(seq, C)
<1>1. Len(seq) \in Nat /\ K \in SUBSET (1..Len(seq))
  OBVIOUS
<1>2. /\ m \in Nat
      /\ \A k \in K : rank[k] \in 1..m
      /\ \A k, l \in K : k < l => rank[k] < rank[l]
      /\ \A i \in 1..m : \E k \in K : rank[k] = i
  <2> DEFINE n == Len(seq)
  <2>1. n \in Nat /\ K \in SUBSET (1..n)
    BY <1>1
  <2> HIDE DEF n, K
  <2> QED
    BY <2>1, Ranks
<1>3. ASSUME NEW i \in 1..m
      PROVE  at(i) \in K /\ rank[at(i)] = i
  BY <1>2
<1>4. ASSUME NEW i \in 1..m, NEW k \in K, Cardinality({j \in K : j <= k}) = i
      PROVE  rank[k] = i
  BY <1>4
<1>5. q = [i \in 1..m |-> seq[at(i)]]
  <2> DEFINE at2(i) == CHOOSE k \in K : Cardinality({j \in K : j <= k}) = i
  <2>1. q = [i \in 1..m |-> seq[at2(i)]]
    BY DEF Without
  <2>2. \A k \in K : rank[k] = Cardinality({j \in K : j <= k})
    OBVIOUS
  <2>3. ASSUME NEW i \in 1..m PROVE at(i) = at2(i)
    <3> HIDE DEF K
    <3>1. \A k \in K : rank[k] = i <=> Cardinality({j \in K : j <= k}) = i
      BY <2>2
    <3> QED
      BY <3>1
  <2> HIDE DEF K, m, at, at2, q
  <2> QED
    BY <2>1, <2>3
<1>6. \A k \in K : k \in 1..Len(seq) /\ seq[k] \in Ids /\ seq[k] \notin C
  OBVIOUS
<1>7. \A k \in 1..Len(seq) : seq[k] \notin C => k \in K
  OBVIOUS
<1> HIDE DEF K, m, rank, at, q
<1>8. q \in Seq(Ids) /\ Len(q) = m /\ \A i \in 1..m : q[i] = seq[at(i)]
  <2>1. \A i \in 1..m : seq[at(i)] \in Ids
    BY <1>3, <1>6
  <2>2. q \in [1..m -> Ids]
    BY <1>5, <2>1
  <2> QED
    BY <1>2, <1>5, <2>2
<1>9. ASSUME NEW i \in 1..m, NEW j \in 1..m, i < j PROVE q[i] < q[j]
  <2>1. at(i) \in K /\ at(j) \in K /\ rank[at(i)] = i /\ rank[at(j)] = j
    BY <1>3
  <2>2. at(i) \in 1..Len(seq) /\ at(j) \in 1..Len(seq)
    BY <1>6, <2>1
  <2>3. ~(at(j) < at(i))
    <3>1. at(j) < at(i) => rank[at(j)] < rank[at(i)]
      BY <1>2, <2>1
    <3> QED
      BY <1>9, <2>1, <3>1
  <2>4. at(i) # at(j)
    BY <1>9, <2>1
  <2>5. at(i) < at(j)
    BY <2>2, <2>3, <2>4
  <2> QED
    BY <1>8, <2>2, <2>5 DEF Increasing
<1>10. ASSUME NEW e \in Elements(q) PROVE e \in Elements(seq) \ C
  <2>1. PICK i \in 1..m : e = q[i]
    BY <1>8 DEF Elements
  <2>2. at(i) \in K /\ e = seq[at(i)]
    BY <1>3, <1>8, <2>1
  <2> QED
    BY <1>6, <2>2 DEF Elements
<1>11. ASSUME NEW e \in Elements(seq) \ C PROVE e \in Elements(q)
  <2>1. PICK k \in 1..Len(seq) : e = seq[k]
    BY DEF Elements
  <2>2. k \in K /\ rank[k] \in 1..m
    BY <1>2, <1>7, <2>1
  <2> DEFINE i == rank[k]
  <2>3. at(i) \in K /\ rank[at(i)] = i
    BY <1>3, <2>2
  <2>4. at(i) = k
    <3>1. k \in 1..Len(seq) /\ at(i) \in 1..Len(seq)
      BY <1>6, <2>3
    <3>2. at(i) < k \/ k < at(i) \/ at(i) = k
      BY <3>1
    <3>3. at(i) < k => rank[at(i)] < rank[k]
      BY <1>2, <2>2, <2>3
    <3>4. k < at(i) => rank[k] < rank[at(i)]
      BY <1>2, <2>2, <2>3
    <3> QED
      BY <2>2, <2>3, <3>2, <3>3, <3>4
  <2>5. q[i] = e /\ i \in 1..Len(q)
    BY <1>8, <2>1, <2>2, <2>4
  <2> QED
    BY <2>5 DEF Elements
<1>12. Elements(q) = Elements(seq) \ C
  BY <1>10, <1>11
<1> QED
  BY <1>8, <1>9, <1>12 DEF Increasing, q
-----------------------------------------------------------------------------
\* What a step of t leaves alone: the calls of the others, and those of its own
\* below place n.

OnlyTop(t, n) ==
    /\ n \in 1..MaxDepth /\ stack' \in [Threads -> Seq(FrameType)]
    /\ \A u \in Threads \ {t} : stack'[u] = stack[u]
    /\ Len(stack[t]) \in {n - 1, n} /\ Len(stack'[t]) \in {n - 1, n}
    /\ \A k \in 1..(n - 1) : /\ stack'[t][k] = stack[t][k]
                             /\ stack[t][k].kind = "emit" /\ stack[t][k].pc = "slot"

\* The call at place n is f afterwards, or has returned.
Becomes(t, n, f) == OnlyTop(t, n) /\ Len(stack'[t]) = n /\ stack'[t][n] = f
Ends(t, n) == OnlyTop(t, n) /\ Len(stack'[t]) = n - 1

\* A thread with a call has one on top, and not too many below it.
LEMMA TopFacts ==
    ASSUME TypeOK, NEW t \in Threads
    PROVE  /\ stack[t] \in Seq(FrameType) /\ Len(stack[t]) \in Nat /\ Len(stack[t]) <= MaxDepth
           /\ Calling(t) <=> Len(stack[t]) # 0
           /\ Calling(t) => Top(t) \in FrameType /\ Len(stack[t]) \in 1..MaxDepth
<1>1. stack[t] \in Seq(FrameType) /\ Len(stack[t]) \in Nat /\ Len(stack[t]) <= MaxDepth
  BY DEF TypeOK
<1>2. stack[t] # <<>> <=> Len(stack[t]) # 0
  BY <1>1
<1>3. Len(stack[t]) # 0 => stack[t][Len(stack[t])] \in FrameType
  BY <1>1
<1> QED
  BY <1>1, <1>2, <1>3, IdsFinite DEF Calling, Top

\* A call of another function puts one more on the stack.
LEMMA PushTop ==
    ASSUME TypeOK, Suspended, NEW t \in Threads, MayCall(t),
           NEW f \in FrameType, Call(t, f)
    PROVE  Becomes(t, Len(stack[t]) + 1, f)
<1> DEFINE s == stack[t]
           n == Len(s)
<1>1. s \in Seq(FrameType) /\ n \in Nat /\ n < MaxDepth /\ MaxDepth \in Nat
  BY TopFacts, IdsFinite DEF MayCall
<1>2. stack \in [Threads -> Seq(FrameType)]
  BY DEF TypeOK
<1>3. /\ stack' \in [Threads -> Seq(FrameType)] /\ stack'[t] = Append(s, f)
      /\ \A u \in Threads \ {t} : stack'[u] = stack[u]
  <2>1. Append(s, f) \in Seq(FrameType)
    BY <1>1
  <2>2. stack' = [stack EXCEPT ![t] = Append(s, f)]
    BY DEF Call
  <2> HIDE DEF s
  <2> QED
    BY <1>2, <2>1, <2>2
<1>4. /\ Len(stack'[t]) = n + 1 /\ stack'[t][n + 1] = f
      /\ \A k \in 1..n : stack'[t][k] = s[k]
  BY <1>1, <1>3
<1>5. ASSUME NEW k \in 1..n PROVE s[k].kind = "emit" /\ s[k].pc = "slot"
  <2>1. CASE k = n
    BY <2>1, <1>5, <1>1 DEF MayCall, UserCode, Calling, At, Top
  <2>2. CASE k # n
    <3>1. k \in 1..(n - 1)
      BY <1>1, <2>2
    <3> QED
      BY <3>1 DEF Suspended
  <2> QED
    BY <2>1, <2>2
<1>6. n + 1 - 1 = n /\ n + 1 \in 1..MaxDepth
  BY <1>1
<1> HIDE DEF s, n
<1>7. OnlyTop(t, n + 1)
  BY <1>3, <1>4, <1>5, <1>6 DEF OnlyTop, s, n
<1> QED
  BY <1>4, <1>7 DEF Becomes, n, s

\* The calls below the top.
LEMMA BelowFacts ==
    ASSUME TypeOK, NEW t \in Threads, Calling(t)
    PROVE  /\ Below(t) \in Seq(FrameType) /\ Len(Below(t)) = Len(stack[t]) - 1
           /\ \A k \in 1..(Len(stack[t]) - 1) : Below(t)[k] = stack[t][k]
<1>1. stack[t] \in Seq(FrameType) /\ Len(stack[t]) \in Nat \ {0}
  BY TopFacts
<1> QED
  BY <1>1 DEF Below

\* A call that goes on is replaced on the top of the stack.
LEMMA ReplaceTop ==
    ASSUME TypeOK, Suspended, NEW t \in Threads, Calling(t),
           NEW f \in FrameType, Replace(t, f)
    PROVE  Becomes(t, Len(stack[t]), f)
<1> DEFINE b == Below(t)
           n == Len(stack[t])
<1>1. n \in 1..MaxDepth /\ MaxDepth \in Nat
  BY TopFacts, IdsFinite
<1>2. b \in Seq(FrameType) /\ Len(b) = n - 1 /\ \A k \in 1..(n - 1) : b[k] = stack[t][k]
  BY BelowFacts
<1>3. stack \in [Threads -> Seq(FrameType)]
  BY DEF TypeOK
<1> HIDE DEF b
<1>4. /\ stack' \in [Threads -> Seq(FrameType)] /\ stack'[t] = Append(b, f)
      /\ \A u \in Threads \ {t} : stack'[u] = stack[u]
  <2>1. Append(b, f) \in Seq(FrameType)
    BY <1>2
  <2>2. stack' = [stack EXCEPT ![t] = Append(b, f)]
    BY DEF Replace, b
  <2> QED
    BY <1>3, <2>1, <2>2
<1>5. /\ Len(stack'[t]) = n /\ stack'[t][n] = f
      /\ \A k \in 1..(n - 1) : stack'[t][k] = stack[t][k]
  <2>1. Len(b) + 1 = n
    BY <1>1, <1>2
  <2> HIDE DEF n
  <2> QED
    BY <1>1, <1>2, <1>4, <2>1
<1>6. \A k \in 1..(n - 1) : stack[t][k].kind = "emit" /\ stack[t][k].pc = "slot"
  BY DEF Suspended
<1>7. OnlyTop(t, n)
  BY <1>1, <1>4, <1>5, <1>6 DEF OnlyTop
<1> QED
  BY <1>5, <1>7 DEF Becomes

\* A call that returns leaves the stack one shorter.
LEMMA ReturnTop ==
    ASSUME TypeOK, Suspended, NEW t \in Threads, Calling(t), Return(t)
    PROVE  Ends(t, Len(stack[t]))
<1> DEFINE b == Below(t)
           n == Len(stack[t])
<1>1. n \in 1..MaxDepth /\ MaxDepth \in Nat
  BY TopFacts, IdsFinite
<1>2. b \in Seq(FrameType) /\ Len(b) = n - 1 /\ \A k \in 1..(n - 1) : b[k] = stack[t][k]
  BY BelowFacts
<1>3. stack \in [Threads -> Seq(FrameType)]
  BY DEF TypeOK
<1> HIDE DEF b
<1>4. /\ stack' \in [Threads -> Seq(FrameType)] /\ stack'[t] = b
      /\ \A u \in Threads \ {t} : stack'[u] = stack[u]
  <2>1. stack' = [stack EXCEPT ![t] = b]
    BY DEF Return, b
  <2> QED
    BY <1>2, <1>3, <2>1
<1>5. \A k \in 1..(n - 1) : stack[t][k].kind = "emit" /\ stack[t][k].pc = "slot"
  BY DEF Suspended
<1>6. OnlyTop(t, n)
  BY <1>1, <1>2, <1>4, <1>5 DEF OnlyTop
<1> QED
  BY <1>2, <1>4, <1>6 DEF Ends

\* A step that leaves the calls alone.
LEMMA SameTop ==
    ASSUME TypeOK, Suspended, NEW t \in Threads, Calling(t), UNCHANGED stack
    PROVE  Becomes(t, Len(stack[t]), Top(t))
<1>1. Len(stack[t]) \in 1..MaxDepth
  BY TopFacts
<1>2. \A k \in 1..(Len(stack[t]) - 1) : stack[t][k].kind = "emit" /\ stack[t][k].pc = "slot"
  BY DEF Suspended
<1> QED
  BY <1>1, <1>2 DEF TypeOK, Becomes, OnlyTop, Top
-----------------------------------------------------------------------------
\* The parts of CallInv that a step of t keeps whatever it does to the top.

\* Objects live and die in their threads, and while a call of another thread or
\* an emission below the top walks its list nothing leaves it.
Keeps(t) ==
    /\ \A o \in Objects : Home[o] # t => status'[o] = status[o]
    /\ \A o \in Objects : status'[o] = "alive" => status[o] = "alive"
    /\ \A o \in Objects : status[o] = "alive" /\ status'[o] # "alive" =>
           \A u \in Threads \ {t} : ~Named(u, o)
    /\ \A o \in Objects : status'[o] = "alive" /\ Walkers(o) # {} => Listed(o) \subseteq Listed(o)'
    /\ \A o \in Objects : Home[o] # t /\ status[o] = "dying" =>
           lists'[o].seq = lists[o].seq /\ lists'[o].state = lists[o].state

\* A call that walks the list of o is one of its walkers.
LEMMA WalkersFacts ==
    ASSUME TypeOK, NEW u \in Threads, NEW k \in 1..Len(stack[u]), NEW o \in Objects,
           Walks(stack[u][k], o)
    PROVE  <<u, k>> \in Walkers(o) /\ Walkers(o) # {}
<1>1. Len(stack[u]) \in Nat /\ Len(stack[u]) <= MaxDepth /\ MaxDepth \in Nat
  BY TopFacts, IdsFinite
<1>2. <<u, k>> \in Places /\ <<u, k>>[1] = u /\ <<u, k>>[2] = k
  BY <1>1 DEF Places
<1> QED
  BY <1>1, <1>2 DEF Walkers

\* The calls that go on as they were.
LEMMA KeptFrame ==
    ASSUME TypeOK, NEW t \in Threads, Keeps(t), NEW u \in Threads, NEW k \in 1..Len(stack[u]),
           NEW f \in FrameType, f = stack[u][k],
           u # t \/ (f.kind = "emit" /\ f.pc = "slot"), FrameOK(u, f)
    PROVE  FrameOK(u, f)'
<1>1. f.obj \in Objects /\ f.other \in Objects \cup {Nobody} /\ f.obj # Nobody
  BY ConnectionsAssumption DEF FrameType
<1>2. ASSUME f.kind \in {"connect", "disconnect"}, NEW o \in Objects, o \in {f.obj, f.other},
             Alive(o)
      PROVE  Alive(o)'
  <2>1. u # t /\ Named(u, o)
    BY <1>2 DEF Named
  <2> QED
    BY <1>2, <2>1 DEF Keeps, Alive
<1>3. ASSUME f.kind \in {"emit", "disconnect"}, f.pc # "lock", Alive(f.obj)',
             NEW c \in Listed(f.obj)
      PROVE  c \in Listed(f.obj)'
  <2>1. Walkers(f.obj) # {}
    BY <1>1, <1>3, WalkersFacts DEF Walks
  <2> QED
    BY <1>1, <1>3, <2>1 DEF Keeps, Alive
<1>4. CASE f.kind = "emit"
  <2>1. EmitOK(u, f)
    BY <1>4 DEF FrameOK
  <2>2. f.pc # "slot" => Alive(f.obj)'
    BY <1>1, <1>4, <2>1 DEF EmitOK, Keeps, Alive
  <2>3. f.pc # "lock" /\ Alive(f.obj)' => f.c \in Listed(f.obj)' /\ f.last \in Listed(f.obj)'
    <3>1. Alive(f.obj)' => Alive(f.obj)
      BY <1>1 DEF Keeps, Alive
    <3> QED
      BY <1>3, <1>4, <2>1, <3>1 DEF EmitOK
  <2>4. EmitOK(u, f)'
    BY <2>1, <2>2, <2>3 DEF EmitOK
  <2> QED
    BY <1>4, <2>4 DEF FrameOK
<1>5. CASE f.kind = "connect"
  BY <1>1, <1>2, <1>5 DEF FrameOK, ConnectOK
<1>6. CASE f.kind = "disconnect"
  <2>1. DisconnectOK(u, f)
    BY <1>6 DEF FrameOK
  <2>2. Alive(f.obj)' /\ (f.other # Nobody => Alive(f.other)')
    BY <1>1, <1>2, <1>6, <2>1 DEF DisconnectOK
  <2>3. f.pc # "lock" => f.c \in Listed(f.obj)' \cup {0}
    BY <1>3, <1>6, <2>1, <2>2 DEF DisconnectOK
  <2>4. DisconnectOK(u, f)'
    BY <2>1, <2>2, <2>3 DEF DisconnectOK
  <2> QED
    BY <1>6, <2>4 DEF FrameOK
<1>7. CASE f.kind = "receivers"
  <2>1. ReceiversOK(u, f) /\ u # t
    BY <1>7 DEF FrameOK
  <2>2. /\ status'[f.obj] = status[f.obj] /\ lists'[f.obj].seq = lists[f.obj].seq
        /\ lists'[f.obj].state = lists[f.obj].state
    BY <1>1, <2>1 DEF ReceiversOK, Keeps
  <2>3. ReceiversOK(u, f)'
    BY <2>1, <2>2 DEF ReceiversOK, Attached
  <2> QED
    BY <1>7, <2>3 DEF FrameOK
<1>8. CASE f.kind = "senders"
  <2>1. SendersOK(u, f) /\ u # t
    BY <1>8 DEF FrameOK
  <2>2. status'[f.obj] = status[f.obj] /\ lists'[f.obj].state = lists[f.obj].state
    BY <1>1, <2>1 DEF SendersOK, Keeps
  <2>3. SendersOK(u, f)'
    BY <2>1, <2>2 DEF SendersOK, Attached
  <2> QED
    BY <1>8, <2>3 DEF FrameOK
<1>9. CASE f.kind = "break"
  BY <1>9 DEF FrameOK, BreakShape
<1> QED
  BY <1>4, <1>5, <1>6, <1>7, <1>8, <1>9 DEF FrameType, Relocking

\* A step that changes only the top call of t keeps the others right.
LEMMA KeptFrames ==
    ASSUME TypeOK, Suspended, FramesOK, NEW t \in Threads, NEW n \in Nat,
           OnlyTop(t, n), Keeps(t),
           Len(stack'[t]) = n => FrameOK(t, stack[t][n])'
    PROVE  Suspended' /\ FramesOK'
<1>1. n \in 1..MaxDepth /\ Len(stack[t]) \in Nat /\ Len(stack'[t]) \in Nat
  BY IdsFinite, TopFacts DEF OnlyTop
<1>2. \A k \in 1..(n - 1) : k \in 1..Len(stack[t]) /\ stack[t][k] \in FrameType
                            /\ stack'[t][k] = stack[t][k]
                            /\ stack[t][k].kind = "emit" /\ stack[t][k].pc = "slot"
  <2>1. \A k \in 1..(n - 1) : k \in 1..Len(stack[t])
    BY <1>1 DEF OnlyTop
  <2> QED
    BY <2>1, TopFacts DEF OnlyTop
<1>3. ASSUME NEW u \in Threads, NEW k \in 1..(Len(stack'[u]) - 1)
      PROVE  stack'[u][k].kind = "emit" /\ stack'[u][k].pc = "slot"
  <2>1. CASE u = t
    <3>1. k \in 1..(n - 1)
      BY <1>1, <1>3, <2>1 DEF OnlyTop
    <3> QED
      BY <1>2, <2>1, <3>1
  <2>2. CASE u # t
    BY <1>3, <2>2 DEF OnlyTop, Suspended
  <2> QED
    BY <2>1, <2>2
<1>4. ASSUME NEW u \in Threads, NEW k \in 1..Len(stack'[u])
      PROVE  FrameOK(u, stack[u][k])'
  <2>1. CASE u # t
    <3>1. stack'[u] = stack[u] /\ k \in 1..Len(stack[u]) /\ stack[u][k] \in FrameType
      BY <2>1, <1>4, TopFacts DEF OnlyTop
    <3>2. FrameOK(u, stack[u][k])
      BY <3>1 DEF FramesOK
    <3>3. PICK f \in FrameType : f = stack[u][k]
      BY <3>1
    <3>4. FrameOK(u, f)'
      BY <2>1, <3>1, <3>2, <3>3, KeptFrame
    <3> QED
      BY <3>1, <3>3, <3>4
  <2>2. CASE u = t /\ k = n
    <3>1. Len(stack'[t]) = n
      BY <1>1, <1>4, <2>2 DEF OnlyTop
    <3> QED
      BY <2>2, <3>1
  <2>3. CASE u = t /\ k # n
    <3>1. k \in 1..(n - 1)
      BY <1>1, <1>4, <2>3 DEF OnlyTop
    <3>2. /\ k \in 1..Len(stack[t]) /\ stack[t][k] \in FrameType /\ stack'[t][k] = stack[t][k]
          /\ stack[t][k].kind = "emit" /\ stack[t][k].pc = "slot"
      BY <1>2, <3>1
    <3>3. FrameOK(t, stack[t][k])
      BY <3>2 DEF FramesOK
    <3>4. PICK f \in FrameType : f = stack[t][k]
      BY <3>2
    <3>5. FrameOK(t, f)'
      BY <3>2, <3>3, <3>4, KeptFrame
    <3> QED
      BY <2>3, <3>2, <3>4, <3>5
  <2> QED
    BY <2>1, <2>2, <2>3
<1> QED
  BY <1>3, <1>4 DEF Suspended, FramesOK

-----------------------------------------------------------------------------
\* What a call has are mutexes.
LEMMA LocksType ==
    ASSUME NEW u \in Threads, NEW f \in FrameType, FrameOK(u, f)
    PROVE  Locks(f) \subseteq Mutexes
<1>1. f.obj \in Objects /\ \A o \in Objects : Lock[o] \in Mutexes
  BY DEF FrameType, Mutexes
<1>2. CASE f.kind \in {"connect", "break"}
  <2>1. f.other \in Objects
    BY <1>2 DEF FrameOK, ConnectOK, BreakShape
  <2>2. LowerOf(f.obj, f.other) \in Objects
    BY <1>1, <2>1 DEF LowerOf
  <2>3. f.pc \notin {"visit", "walk", "upper", "both"}
    BY <1>2 DEF FrameOK, ConnectOK, BreakShape
  <2>4. CASE f.pc = "second"
    BY <1>1, <1>2, <2>2, <2>3, <2>4 DEF Locks
  <2>5. CASE f.pc # "second"
    BY <1>2, <2>3, <2>5 DEF Locks
  <2> QED
    BY <2>4, <2>5
<1>3. CASE f.kind \notin {"connect", "break"}
  <2>1. f.pc \in RelockPcs => f.peer \in Objects
    BY <1>3 DEF FrameOK, EmitOK, DisconnectOK, ReceiversOK, SendersOK, FrameType,
                Relocking, RelockPcs
  <2> QED
    BY <1>1, <1>3, <2>1 DEF Locks, RelockPcs
<1> QED
  BY <1>2, <1>3

KeepsMutexes(t) == \A m \in Mutexes : \A u \in Threads \ {t} : holder[m] = u => holder'[m] = u

\* A step of t takes no mutex away from another thread.
LEMMA KeptMutexes ==
    ASSUME TypeOK, FramesOK, MutexOK, NEW t \in Threads, NEW n \in Nat, OnlyTop(t, n),
           KeepsMutexes(t),
           Len(stack'[t]) = n => \A m \in Locks(stack'[t][n]) : holder'[m] = t
    PROVE  MutexOK'
<1> SUFFICES ASSUME NEW u \in Threads, Calling(u)', NEW m \in Locks(Top(u))'
             PROVE  holder'[m] = u
  BY DEF MutexOK
<1>1. CASE u # t
  <2>1. stack'[u] = stack[u]
    BY <1>1 DEF OnlyTop
  <2>2. Calling(u) /\ Top(u)' = Top(u)
    BY <2>1 DEF Calling, Top
  <2>3. Len(stack[u]) \in 1..Len(stack[u]) /\ Top(u) \in FrameType
    BY <2>2, TopFacts
  <2>4. FrameOK(u, Top(u))
    BY <2>3 DEF FramesOK, Top
  <2>5. m \in Locks(Top(u))
    BY <2>2 DEF Locks
  <2>6. m \in Mutexes /\ holder[m] = u
    BY <2>2, <2>3, <2>4, <2>5, LocksType DEF MutexOK
  <2> QED
    BY <1>1, <2>6 DEF KeepsMutexes
<1>2. CASE u = t /\ Len(stack'[t]) = n
  <2>1. m \in Locks(stack'[t][n])
    BY <1>2 DEF Top, Locks
  <2> QED
    BY <1>2, <2>1
<1>3. CASE u = t /\ Len(stack'[t]) # n
  <2>1. n \in 1..MaxDepth /\ Len(stack'[t]) = n - 1 /\ stack'[t] \in Seq(FrameType)
    BY <1>3 DEF OnlyTop
  <2>2. stack'[t] # <<>>
    BY <1>3 DEF Calling
  <2>3. n - 1 \in 1..(n - 1)
    BY <2>1, <2>2, IdsFinite
  <2>4. stack'[t][n - 1].kind = "emit" /\ stack'[t][n - 1].pc = "slot"
    BY <2>3 DEF OnlyTop
  <2>5. Top(t)'.kind = "emit" /\ Top(t)'.pc = "slot"
    BY <2>1, <2>4 DEF Top
  <2> QED
    BY <1>3, <2>5 DEF Locks
<1> QED
  BY <1>1, <1>2, <1>3

InDestructor(f, o) == f.kind \in {"receivers", "senders"} /\ f.obj = o

\* An object of t that is dying has its destructor on the top of t.
LEMMA DyingHere ==
    ASSUME TypeOK, DyingOK, NEW t \in Threads, NEW n \in Nat, OnlyTop(t, n),
           NEW o \in Objects, Home[o] = t, status[o] = "dying"
    PROVE  Len(stack[t]) = n /\ InDestructor(stack[t][n], o)
<1>1. Calling(t) /\ InDestructor(Top(t), o)
  BY DEF DyingOK, Destroying, InDestructor
<1>2. Len(stack[t]) \in {n - 1, n} /\ Len(stack[t]) \in Nat \ {0}
  BY <1>1, TopFacts DEF OnlyTop
<1>3. CASE Len(stack[t]) = n - 1
  <2>1. n - 1 \in 1..(n - 1)
    BY <1>2, <1>3
  <2>2. stack[t][n - 1].kind = "emit"
    BY <2>1 DEF OnlyTop
  <2> QED
    BY <1>1, <1>3, <2>2 DEF InDestructor, Top
<1>4. CASE Len(stack[t]) = n
  BY <1>1, <1>4 DEF Top
<1> QED
  BY <1>2, <1>3, <1>4

\* A step keeps the destructors on top unless it ends them.
LEMMA KeptDying ==
    ASSUME TypeOK, DyingOK, NEW t \in Threads, NEW n \in Nat, OnlyTop(t, n), Keeps(t),
           \A o \in Objects :
               /\ status'[o] = "dying"
               /\ status[o] = "dying" => Len(stack[t]) = n /\ InDestructor(stack[t][n], o)
               /\ Home[o] = t
               => Len(stack'[t]) = n /\ InDestructor(stack'[t][n], o)
    PROVE  DyingOK'
<1> SUFFICES ASSUME NEW o \in Objects, status'[o] = "dying" PROVE Destroying(o)'
  BY DEF DyingOK
<1>1. Home[o] \in Threads
  BY ConnectionsAssumption
<1>2. CASE Home[o] # t
  <2>1. status[o] = "dying" /\ stack'[Home[o]] = stack[Home[o]]
    BY <1>1, <1>2 DEF Keeps, OnlyTop
  <2> QED
    BY <2>1 DEF DyingOK, Destroying, Calling, Top
<1>3. CASE Home[o] = t
  <2>1. Len(stack'[t]) = n /\ InDestructor(stack'[t][n], o)
    BY <1>3, DyingHere
  <2>2. n # 0 /\ stack'[t] # <<>>
    BY <2>1 DEF OnlyTop
  <2> QED
    BY <1>3, <2>1, <2>2 DEF Destroying, Calling, Top, InDestructor
<1> QED
  BY <1>2, <1>3

-----------------------------------------------------------------------------
\* Who walks a list.

\* A list has finitely many walkers.
LEMMA WalkersFinite ==
    ASSUME NEW o \in Objects
    PROVE  /\ IsFiniteSet(Walkers(o)) /\ Cardinality(Walkers(o)) \in Nat
           /\ Walkers(o) # {} => Cardinality(Walkers(o)) # 0
<1>1. IsFiniteSet(Threads) /\ MaxDepth \in Nat
  BY ConnectionsAssumption
<1>2. IsFiniteSet(1..MaxDepth)
  <2>1. 1 \in Int /\ MaxDepth \in Int
    BY <1>1
  <2> QED
    BY <2>1, FS_Interval
<1>3. IsFiniteSet(Places)
  BY <1>1, <1>2, FS_Product DEF Places
<1>4. Walkers(o) \in SUBSET Places
  BY DEF Walkers
<1>5. IsFiniteSet(Walkers(o))
  BY <1>3, <1>4, FS_Subset
<1> QED
  BY <1>5, FS_CardinalityType, FS_EmptySet

\* A step of t makes at most its top call a walker, or no longer one.
LEMMA KeptWalkers ==
    ASSUME TypeOK, NEW t \in Threads, NEW n \in Nat, OnlyTop(t, n), NEW o \in Objects
    PROVE  /\ Walkers(o)' \ {<<t, n>>} = Walkers(o) \ {<<t, n>>}
           /\ <<t, n>> \in Walkers(o) <=> Len(stack[t]) = n /\ Walks(stack[t][n], o)
           /\ <<t, n>> \in Walkers(o)' <=> Len(stack'[t]) = n /\ Walks(stack'[t][n], o)
<1>1. /\ n \in 1..MaxDepth /\ MaxDepth \in Nat /\ <<t, n>> \in Places
      /\ <<t, n>>[1] = t /\ <<t, n>>[2] = n
  BY IdsFinite DEF OnlyTop, Places
<1>2. Len(stack[t]) \in {n - 1, n} /\ Len(stack'[t]) \in {n - 1, n}
  BY DEF OnlyTop
<1>3. ASSUME NEW p \in Places, p # <<t, n>>
      PROVE  p \in Walkers(o)' <=> p \in Walkers(o)
  <2>1. p[1] \in Threads /\ p[2] \in 1..MaxDepth /\ p = <<p[1], p[2]>>
    BY DEF Places
  <2>2. CASE p[1] # t
    <3>1. stack'[p[1]] = stack[p[1]]
      BY <2>1, <2>2 DEF OnlyTop
    <3> QED
      BY <3>1 DEF Walkers, Walks
  <2>3. CASE p[1] = t
    <3>1. p[2] # n
      BY <1>3, <2>1, <2>3
    <3>2. CASE p[2] < n
      <4>1. p[2] \in 1..(n - 1)
        BY <1>1, <2>1, <3>2
      <4>2. stack'[t][p[2]] = stack[t][p[2]]
        BY <4>1 DEF OnlyTop
      <4>3. p[2] <= Len(stack[t]) /\ p[2] <= Len(stack'[t])
        BY <1>1, <1>2, <4>1
      <4> QED
        BY <2>3, <4>2, <4>3 DEF Walkers, Walks
    <3>3. CASE n < p[2]
      <4>1. ~(p[2] <= Len(stack[t])) /\ ~(p[2] <= Len(stack'[t]))
        BY <1>1, <1>2, <2>1, <3>3
      <4> QED
        BY <2>3, <4>1 DEF Walkers
    <3> QED
      BY <1>1, <2>1, <3>1, <3>2, <3>3
  <2> QED
    BY <2>2, <2>3
<1>4. Walkers(o) \subseteq Places /\ Walkers(o)' \subseteq Places
  BY DEF Walkers
<1>5. Walkers(o)' \ {<<t, n>>} = Walkers(o) \ {<<t, n>>}
  BY <1>3, <1>4
<1>6. <<t, n>> \in Walkers(o) <=> Len(stack[t]) = n /\ Walks(stack[t][n], o)
  <2>1. n <= Len(stack[t]) <=> Len(stack[t]) = n
    BY <1>1, <1>2
  <2> QED
    BY <1>1, <2>1 DEF Walkers
<1>7. <<t, n>> \in Walkers(o)' <=> Len(stack'[t]) = n /\ Walks(stack'[t][n], o)
  <2>1. n <= Len(stack'[t]) <=> Len(stack'[t]) = n
    BY <1>1, <1>2
  <2> QED
    BY <1>1, <2>1 DEF Walkers, Walks
<1> QED
  BY <1>5, <1>6, <1>7

\* And so their number changes by one at the most.
LEMMA CountedWalkers ==
    ASSUME TypeOK, NEW t \in Threads, NEW n \in Nat, OnlyTop(t, n), NEW o \in Objects
    PROVE  LET was == Len(stack[t]) = n /\ Walks(stack[t][n], o)
               is == Len(stack'[t]) = n /\ Walks(stack'[t][n], o)
               W == Walkers(o)
           IN  /\ (was <=> is) => W' = W
               /\ ~was /\ is => Cardinality(W') = Cardinality(W) + 1
               /\ was /\ ~is => Cardinality(W') = Cardinality(W) - 1
               /\ was => W # {}
<1> DEFINE W == Walkers(o)
           V == Walkers(o)'
           x == <<t, n>>
<1>1. /\ V \ {x} = W \ {x}
      /\ x \in W <=> Len(stack[t]) = n /\ Walks(stack[t][n], o)
      /\ x \in V <=> Len(stack'[t]) = n /\ Walks(stack'[t][n], o)
  BY KeptWalkers
<1>2. IsFiniteSet(W) /\ Cardinality(W) \in Nat
  BY WalkersFinite
<1> HIDE DEF W, V, x
<1>3. ASSUME x \in W <=> x \in V PROVE V = W
  <2>1. \A p : p \in V <=> p \in W
    BY <1>1, <1>3
  <2> QED
    BY <2>1
<1>4. ASSUME x \notin W, x \in V PROVE Cardinality(V) = Cardinality(W) + 1
  <2>1. V = W \cup {x}
    BY <1>1, <1>4
  <2> QED
    BY <1>2, <1>4, <2>1, FS_AddElement
<1>5. ASSUME x \in W, x \notin V PROVE Cardinality(V) = Cardinality(W) - 1
  <2>1. V = W \ {x}
    BY <1>1, <1>5
  <2> QED
    BY <1>2, <1>5, <2>1, FS_RemoveElement
<1>6. x \in W => W # {}
  OBVIOUS
<1> QED
  BY <1>1, <1>3, <1>4, <1>5, <1>6 DEF W, V
-----------------------------------------------------------------------------
\* Numbers and lists.

SendersSame == \A c \in Ids : conn'[c].sender = conn[c].sender

\* The number of the newest connection, or 0.
LEMMA NewestType == Newest \in Nat
<1>1. Made \in SUBSET Ids /\ IsFiniteSet(Ids)
  <2>1. 1 \in Int /\ MaxConnections \in Int
    BY IdsFinite
  <2> QED
    BY <2>1, FS_Interval DEF Made, Ids
<1>2. IsFiniteSet(Made)
  BY <1>1, FS_Subset
<1> QED
  BY <1>2, FS_CardinalityType DEF Newest

\* The connections that were made are those with a sender.
LEMMA KeptMade ==
    ASSUME SendersSame
    PROVE  Made' = Made /\ Newest' = Newest
BY DEF SendersSame, Made, Newest

\* t is making a connection if the call at place n is a connect.
LEMMA MakingFacts ==
    ASSUME TypeOK, NEW t \in Threads, NEW n \in Nat, OnlyTop(t, n)
    PROVE  /\ IsFiniteSet(Making) /\ Cardinality(Making) \in Nat
           /\ Making' \ {t} = Making \ {t}
           /\ t \in Making <=> Len(stack[t]) = n /\ stack[t][n].kind = "connect"
           /\ t \in Making' <=> Len(stack'[t]) = n /\ stack'[t][n].kind = "connect"
<1>1. Making \in SUBSET Threads /\ IsFiniteSet(Threads)
  BY ConnectionsAssumption DEF Making
<1>2. IsFiniteSet(Making) /\ Cardinality(Making) \in Nat
  <2>1. IsFiniteSet(Making)
    BY <1>1, FS_Subset
  <2> QED
    BY <2>1, FS_CardinalityType
<1>3. \A u \in Threads \ {t} : stack'[u] = stack[u]
  BY DEF OnlyTop
<1>4. Making' \ {t} = Making \ {t}
  BY <1>3 DEF Making
<1>5. n \in Nat \ {0} /\ Len(stack[t]) \in {n - 1, n} /\ Len(stack'[t]) \in {n - 1, n}
  BY IdsFinite DEF OnlyTop
<1>6. \A k \in 1..(n - 1) : stack[t][k].kind # "connect" /\ stack'[t][k].kind # "connect"
  BY DEF OnlyTop
<1>7. t \in Making <=> Len(stack[t]) = n /\ stack[t][n].kind = "connect"
  <2>1. ASSUME NEW k \in 1..Len(stack[t]), stack[t][k].kind = "connect"
        PROVE  k = n /\ Len(stack[t]) = n
    <3>1. k \notin 1..(n - 1) /\ (k \in 1..(n - 1) \/ k = n)
      BY <1>5, <1>6, <2>1
    <3> QED
      BY <1>5, <3>1
  <2>2. Len(stack[t]) = n => n \in 1..Len(stack[t])
    BY <1>5
  <2> QED
    BY <2>1, <2>2 DEF Making
<1>8. t \in Making' <=> Len(stack'[t]) = n /\ stack'[t][n].kind = "connect"
  <2>1. ASSUME NEW k \in 1..Len(stack'[t]), stack'[t][k].kind = "connect"
        PROVE  k = n /\ Len(stack'[t]) = n
    <3>1. k \notin 1..(n - 1) /\ (k \in 1..(n - 1) \/ k = n)
      BY <1>5, <1>6, <2>1
    <3> QED
      BY <1>5, <3>1
  <2>2. Len(stack'[t]) = n => n \in 1..Len(stack'[t])
    BY <1>5
  <2> QED
    BY <2>1, <2>2 DEF Making
<1> QED
  BY <1>2, <1>4, <1>7, <1>8

\* The bound on connections is kept by a step that makes none.
LEMMA KeptNumbers ==
    ASSUME TypeOK, NumbersOK, SendersSame, NEW t \in Threads, NEW n \in Nat, OnlyTop(t, n),
           Len(stack'[t]) = n /\ stack'[t][n].kind = "connect" =>
               Len(stack[t]) = n /\ stack[t][n].kind = "connect"
    PROVE  NumbersOK'
<1>1. Made' = Made /\ Newest' = Newest
  BY KeptMade
<1>2. Making' \in SUBSET Making
  BY MakingFacts
<1>3. IsFiniteSet(Making) /\ Cardinality(Making) \in Nat
  BY MakingFacts
<1>4. IsFiniteSet(Making') /\ Cardinality(Making') <= Cardinality(Making)
  BY <1>2, <1>3, FS_Subset
<1>5. Cardinality(Making') \in Nat
  BY <1>4, FS_CardinalityType
<1>6. Made' = 1..Newest'
  BY <1>1 DEF NumbersOK
<1>7. Newest \in Nat
  BY NewestType
<1>8. Newest' + Cardinality(Making') <= MaxConnections
  BY <1>1, <1>3, <1>4, <1>5, <1>7, IdsFinite DEF NumbersOK
<1> QED
  BY <1>6, <1>8 DEF NumbersOK

\* A list that a step leaves alone, with its walkers, is still right.
LEMMA KeptList ==
    ASSUME NEW o \in Objects, ListOK(o), SendersSame, Listed(o) \subseteq Ids,
           lists'[o].seq = lists[o].seq, lists'[o].state = lists[o].state,
           lists'[o].inUse = lists[o].inUse, Walkers(o)' = Walkers(o),
           status'[o] = status[o] \/ status'[o] = "dying"
    PROVE  ListOK(o)'
<1>1. Listed(o)' = Listed(o)
  BY DEF Listed
<1>2. Increasing(lists'[o].seq)
  BY DEF ListOK
<1>3. \A c \in Listed(o)' : conn'[c].sender = o
  BY <1>1 DEF ListOK, SendersSame
<1>4. lists'[o].inUse = Cardinality(Walkers(o)')
  BY DEF ListOK
<1>5. /\ lists'[o].state # "attached" => lists'[o].seq = <<>>
      /\ lists'[o].state \in {"none", "deleted"} => lists'[o].inUse = 0
      /\ lists'[o].state = "orphaned" => lists'[o].inUse # 0
  BY DEF ListOK
<1>6. /\ Alive(o)' => lists'[o].state \in {"none", "attached"}
      /\ status'[o] = "gone" => lists'[o].state # "attached"
  BY DEF ListOK, Alive
<1> QED
  BY <1>2, <1>3, <1>4, <1>5, <1>6 DEF ListOK, Increasing

\* The list of an object and its elements have their types.
LEMMA ListedFacts ==
    ASSUME TypeOK, NEW o \in Objects
    PROVE  /\ lists[o] \in ListType /\ lists[o].seq \in Seq(Ids) /\ lists[o].inUse \in Nat
           /\ Listed(o) \subseteq Ids
<1>1. lists[o] \in ListType
  BY DEF TypeOK
<1>2. lists[o].seq \in Seq(Ids) /\ lists[o].inUse \in Nat
  BY <1>1 DEF ListType
<1> QED
  BY <1>1, <1>2, FirstFacts DEF Listed

-----------------------------------------------------------------------------
\* Taking and giving up mutexes.

\* Taking the mutex of an object: nobody loses one.
LEMMA HoldFacts ==
    ASSUME TypeOK, NEW t \in Threads, NEW o \in Objects, Hold(t, o), Free(o) \/ holder[Lock[o]] = t
    PROVE  /\ holder' \in [Mutexes -> Threads \cup {Nobody}] /\ KeepsMutexes(t)
           /\ holder'[Lock[o]] = t
           /\ \A m \in Mutexes : holder[m] = t => holder'[m] = t
<1>1. Nobody \notin Threads /\ Lock[o] \in Mutexes
  BY ConnectionsAssumption DEF Mutexes
<1>2. holder' = [holder EXCEPT ![Lock[o]] = t] /\ holder \in [Mutexes -> Threads \cup {Nobody}]
  BY DEF Hold, TypeOK
<1> QED
  BY <1>1, <1>2 DEF KeepsMutexes, Free

\* Giving up the mutexes of some objects.
LEMMA ReleaseFacts ==
    ASSUME TypeOK, NEW t \in Threads, NEW os \in SUBSET Objects, Release(os),
           \A o \in os : holder[Lock[o]] \in {Nobody, t}
    PROVE  /\ holder' \in [Mutexes -> Threads \cup {Nobody}] /\ KeepsMutexes(t)
           /\ \A m \in Mutexes : (\A o \in os : Lock[o] # m) => holder'[m] = holder[m]
<1>1. Nobody \notin Threads
  BY ConnectionsAssumption
<1>2. /\ holder' = [m \in Mutexes |-> IF \E o \in os : Lock[o] = m THEN Nobody ELSE holder[m]]
      /\ holder \in [Mutexes -> Threads \cup {Nobody}]
  BY DEF Release, TypeOK
<1>3. \A m \in Mutexes : holder'[m] = IF \E o \in os : Lock[o] = m THEN Nobody ELSE holder[m]
  BY <1>2
<1>4. holder' \in [Mutexes -> Threads \cup {Nobody}]
  BY <1>2
<1>5. KeepsMutexes(t)
  BY <1>1, <1>3 DEF KeepsMutexes
<1> QED
  BY <1>3, <1>4, <1>5
-----------------------------------------------------------------------------
\* Changes of the connections.

\* The fields of a connection have their types.
LEMMA ConnFacts ==
    ASSUME TypeOK, NEW c \in Ids
    PROVE  /\ conn[c] \in ConnectionType
           /\ conn[c].sender \in Objects \cup {Nobody} /\ conn[c].receiver \in Objects \cup {Nobody}
           /\ conn[c].functor \in BOOLEAN /\ conn[c].ref \in Int /\ conn[c].next \in Ids \cup {0}
           /\ Connected(c) => conn[c].receiver \in Objects
<1>1. conn[c] \in ConnectionType
  BY DEF TypeOK
<1> QED
  BY <1>1 DEF ConnectionType, Connected

\* The fields of every connection when c has been unlinked.
LEMMA UnlinkedFacts ==
    ASSUME TypeOK, NEW c \in Ids
    PROVE  /\ Unlinked(c) \in [Ids -> ConnectionType]
           /\ \A d \in Ids :
                  /\ Unlinked(c)[d].sender = conn[d].sender
                  /\ Unlinked(c)[d].ref = conn[d].ref
                  /\ Unlinked(c)[d].receiver = IF d = c THEN Nobody ELSE conn[d].receiver
                  /\ Unlinked(c)[d].next = IF conn[c].prev = NextOf(d) THEN conn[c].next
                                                                      ELSE conn[d].next
                  /\ Unlinked(c)[d].prev = IF d = conn[c].next THEN conn[c].prev
                                                              ELSE conn[d].prev
<1> DEFINE new(d) == [conn[d] EXCEPT
                          !.next = IF conn[c].prev = NextOf(d) THEN conn[c].next ELSE @,
                          !.prev = IF d = conn[c].next THEN conn[c].prev ELSE @,
                          !.receiver = IF d = c THEN Nobody ELSE @]
<1>1. Unlinked(c) = [d \in Ids |-> new(d)]
  BY DEF Unlinked
<1>2. ASSUME NEW d \in Ids
      PROVE  /\ new(d) \in ConnectionType
             /\ new(d).sender = conn[d].sender /\ new(d).ref = conn[d].ref
             /\ new(d).receiver = IF d = c THEN Nobody ELSE conn[d].receiver
             /\ new(d).next = IF conn[c].prev = NextOf(d) THEN conn[c].next ELSE conn[d].next
             /\ new(d).prev = IF d = conn[c].next THEN conn[c].prev ELSE conn[d].prev
  <2> DEFINE a == IF conn[c].prev = NextOf(d) THEN conn[c].next ELSE conn[d].next
             b == IF d = conn[c].next THEN conn[c].prev ELSE conn[d].prev
             e == IF d = c THEN Nobody ELSE conn[d].receiver
  <2>1. conn[c] \in ConnectionType /\ conn[d] \in ConnectionType
    BY ConnFacts
  <2>2. a \in Ids \cup {0} /\ b \in PointerType
    BY <2>1 DEF ConnectionType
  <2>3. e \in Objects \cup {Nobody}
    BY <2>1 DEF ConnectionType
  <2>4. new(d) = [conn[d] EXCEPT !.next = a, !.prev = b, !.receiver = e]
    OBVIOUS
  <2> HIDE DEF new, a, b, e
  <2>5. /\ new(d) \in ConnectionType
        /\ new(d).sender = conn[d].sender /\ new(d).ref = conn[d].ref
        /\ new(d).receiver = e /\ new(d).next = a /\ new(d).prev = b
    BY <2>1, <2>2, <2>3, <2>4 DEF ConnectionType
  <2> QED
    BY <2>5 DEF a, b, e
<1> HIDE DEF new
<1> QED
  BY <1>1, <1>2

\* Dropping a reference changes nothing but the count.
LEMMA DerefFacts ==
    ASSUME NEW cs \in [Ids -> ConnectionType], NEW c
    PROVE  /\ Deref(cs, c) \in [Ids -> ConnectionType]
           /\ \A d \in Ids :
                  /\ Deref(cs, c)[d].sender = cs[d].sender
                  /\ Deref(cs, c)[d].receiver = cs[d].receiver
                  /\ Deref(cs, c)[d].next = cs[d].next
                  /\ Deref(cs, c)[d].prev = cs[d].prev
                  /\ Deref(cs, c)[d].ref = IF d = c THEN cs[d].ref - 1 ELSE cs[d].ref
<1>1. Deref(cs, c) = [cs EXCEPT ![c] = [cs[c] EXCEPT !.ref = cs[c].ref - 1]]
  BY DEF Deref
<1>2. c \in Ids => [cs[c] EXCEPT !.ref = cs[c].ref - 1] \in ConnectionType
  BY DEF ConnectionType
<1>3. Deref(cs, c) \in [Ids -> ConnectionType]
  BY <1>1, <1>2
<1>4. ASSUME NEW d \in Ids
      PROVE  /\ Deref(cs, c)[d].sender = cs[d].sender
             /\ Deref(cs, c)[d].receiver = cs[d].receiver
             /\ Deref(cs, c)[d].next = cs[d].next
             /\ Deref(cs, c)[d].prev = cs[d].prev
             /\ Deref(cs, c)[d].ref = IF d = c THEN cs[d].ref - 1 ELSE cs[d].ref
  <2>1. CASE d # c
    BY <1>1, <2>1
  <2>2. CASE d = c
    <3>1. Deref(cs, c)[d] = [cs[d] EXCEPT !.ref = cs[d].ref - 1] /\ cs[d] \in ConnectionType
      BY <1>1, <2>2
    <3> QED
      BY <2>2, <3>1 DEF ConnectionType
  <2> QED
    BY <2>1, <2>2
<1> QED
  BY <1>3, <1>4

\* Connections that differ in their slot objects only.
Alike(cs, ds) == \A d \in Ids :
    /\ cs[d].sender = ds[d].sender /\ cs[d].receiver = ds[d].receiver
    /\ cs[d].next = ds[d].next /\ cs[d].prev = ds[d].prev /\ cs[d].ref = ds[d].ref

\* A connection that loses its slot object changes in nothing else.
LEMMA WithoutSlotFacts ==
    ASSUME NEW cs \in [Ids -> ConnectionType], NEW c
    PROVE  WithoutSlot(cs, c) \in [Ids -> ConnectionType] /\ Alike(WithoutSlot(cs, c), cs)
<1>1. WithoutSlot(cs, c) = [cs EXCEPT ![c] = [cs[c] EXCEPT !.functor = FALSE]]
  BY DEF WithoutSlot
<1>2. c \in Ids => [cs[c] EXCEPT !.functor = FALSE] \in ConnectionType
  BY DEF ConnectionType
<1>3. WithoutSlot(cs, c) \in [Ids -> ConnectionType]
  BY <1>1, <1>2
<1>4. ASSUME NEW d \in Ids
      PROVE  /\ WithoutSlot(cs, c)[d].sender = cs[d].sender
             /\ WithoutSlot(cs, c)[d].receiver = cs[d].receiver
             /\ WithoutSlot(cs, c)[d].next = cs[d].next
             /\ WithoutSlot(cs, c)[d].prev = cs[d].prev
             /\ WithoutSlot(cs, c)[d].ref = cs[d].ref
  <2>1. CASE d # c
    BY <1>1, <2>1
  <2>2. CASE d = c
    <3>1. WithoutSlot(cs, c)[d] = [cs[d] EXCEPT !.functor = FALSE] /\ cs[d] \in ConnectionType
      BY <1>1, <2>2
    <3> QED
      BY <3>1 DEF ConnectionType
  <2> QED
    BY <2>1, <2>2
<1> QED
  BY <1>3, <1>4 DEF Alike

\* What is disconnected is unlinked, unless it was disconnected before.
LEMMA DisconnectedFacts ==
    ASSUME TypeOK, NEW c \in Ids
    PROVE  /\ Disconnected(c) \in [Ids -> ConnectionType]
           /\ Connected(c) => Alike(Disconnected(c), Unlinked(c))
           /\ ~Connected(c) => Alike(Disconnected(c), conn)
<1>1. PICK cs : cs = IF Connected(c) THEN Unlinked(c) ELSE conn
  OBVIOUS
<1>2. cs \in [Ids -> ConnectionType]
  BY <1>1, UnlinkedFacts DEF TypeOK
<1>3. Disconnected(c) = WithoutSlot(cs, c)
  BY <1>1 DEF Disconnected
<1> QED
  BY <1>1, <1>2, <1>3, WithoutSlotFacts

\* *c->prev = c->next, where prev points to a head or to node.
LEMMA SetPreviousFacts ==
    ASSUME TypeOK, NEW c \in Ids, SetPrevious(c)
    PROVE  /\ head' \in [Objects -> Ids \cup {0}] /\ node' \in [Objects -> Ids \cup {0}]
           /\ \A o \in Objects :
                  /\ head'[o] = IF conn[c].prev = HeadOf(o) THEN conn[c].next ELSE head[o]
                  /\ node'[o] = IF conn[c].prev = NodeOf(o) THEN conn[c].next ELSE node[o]
<1>1. conn[c].next \in Ids \cup {0}
  BY ConnFacts
<1>2. head \in [Objects -> Ids \cup {0}] /\ node \in [Objects -> Ids \cup {0}]
  BY DEF TypeOK
<1> QED
  BY <1>1, <1>2 DEF SetPrevious

\* Connections that agree in what they point to and in their senders.
LinkedAs(cs) == \A d \in Ids :
    /\ conn'[d].sender = cs[d].sender /\ conn'[d].receiver = cs[d].receiver
    /\ conn'[d].next = cs[d].next /\ conn'[d].prev = cs[d].prev

\* An unlinking keeps the pointers to connections that were made.
LEMMA UnlinkedPointers ==
    ASSUME TypeOK, PointersOK, NEW c \in Ids, SetPrevious(c), LinkedAs(Unlinked(c))
    PROVE  SendersSame /\ PointersOK'
<1> DEFINE U == Unlinked(c)
<1>1. /\ U \in [Ids -> ConnectionType]
      /\ \A d \in Ids : U[d].sender = conn[d].sender /\ U[d].next \in {conn[d].next, conn[c].next}
  BY UnlinkedFacts
<1>2. \A d \in Ids : conn'[d].sender = U[d].sender /\ conn'[d].next = U[d].next
  BY DEF LinkedAs
<1> HIDE DEF U
<1>3. SendersSame
  BY <1>1, <1>2 DEF SendersSame
<1>4. Made' = Made
  BY <1>3, KeptMade
<1>5. \A d \in Ids : conn'[d].next \in Made \cup {0}
  BY <1>1, <1>2 DEF PointersOK
<1>6. \A o \in Objects : {head'[o], node'[o]} \subseteq Made \cup {0}
  BY SetPreviousFacts DEF PointersOK
<1> QED
  BY <1>3, <1>4, <1>5, <1>6 DEF PointersOK

\* Pointers that are copied from one place to another stay right.
LEMMA LinkedPointers ==
    ASSUME TypeOK, PointersOK, LinkedAs(conn), UNCHANGED head,
           \A o \in Objects : node'[o] \in {node[o], head[o]}
    PROVE  SendersSame /\ PointersOK'
<1>1. SendersSame
  BY DEF SendersSame, LinkedAs
<1>2. Made' = Made
  BY <1>1, KeptMade
<1>3. \A o \in Objects : {head'[o], node'[o]} \subseteq Made \cup {0}
  BY DEF PointersOK
<1> QED
  BY <1>1, <1>2, <1>3 DEF PointersOK, LinkedAs

\* Dropping a reference moves no pointer.
LEMMA DerefLinked ==
    ASSUME NEW cs \in [Ids -> ConnectionType], NEW ds, Alike(cs, ds), NEW e,
           conn' \in {cs, Deref(cs, e)}
    PROVE  conn' \in [Ids -> ConnectionType] /\ LinkedAs(ds)
<1>1. CASE conn' = cs
  BY <1>1 DEF LinkedAs, Alike
<1>2. CASE conn' = Deref(cs, e)
  BY <1>2, DerefFacts DEF LinkedAs, Alike
<1> QED
  BY <1>1, <1>2

\* The same of a reference that is dropped, or of none.
LEMMA KeptPointers ==
    ASSUME TypeOK, PointersOK, NEW ref, conn' \in {conn, Deref(conn, ref)}, UNCHANGED head,
           \A o \in Objects : node'[o] \in {node[o], head[o]}
    PROVE  conn' \in [Ids -> ConnectionType] /\ SendersSame /\ PointersOK'
<1>1. conn \in [Ids -> ConnectionType] /\ Alike(conn, conn)
  BY DEF TypeOK, Alike
<1>2. conn' \in [Ids -> ConnectionType] /\ LinkedAs(conn)
  BY <1>1, DerefLinked
<1> QED
  BY <1>2, LinkedPointers
-----------------------------------------------------------------------------
\* A step of a thread, from what it does to the top call, lists and mutexes.

\* The types, from what a step does to each variable.
LEMMA KeptType ==
    ASSUME TypeOK, NEW t \in Threads, NEW n \in Nat, OnlyTop(t, n),
           conn' \in [Ids -> ConnectionType], handles' \subseteq Ids,
           lists' \in [Objects -> ListType],
           head' \in [Objects -> Ids \cup {0}], node' \in [Objects -> Ids \cup {0}],
           status' \in [Objects -> {"alive", "dying", "gone"}],
           holder' \in [Mutexes -> Threads \cup {Nobody}]
    PROVE  TypeOK'
<1>1. stack' \in [Threads -> Seq(FrameType)]
  BY DEF OnlyTop
<1>2. ASSUME NEW u \in Threads PROVE Len(stack'[u]) <= MaxDepth
  <2>1. CASE u = t
    <3>1. n \in 1..MaxDepth /\ Len(stack'[t]) \in {n - 1, n} /\ MaxDepth \in Nat
      BY IdsFinite DEF OnlyTop
    <3> QED
      BY <2>1, <3>1
  <2>2. CASE u # t
    <3>1. stack'[u] = stack[u]
      BY <2>2 DEF OnlyTop
    <3> QED
      BY <3>1, TopFacts
  <2> QED
    BY <2>1, <2>2
<1> QED
  BY <1>1, <1>2 DEF TypeOK

\* The invariant after a step of t, from what the step does.
LEMMA CallStep ==
    ASSUME CallInv, TypeOK', NEW t \in Threads, NEW n \in Nat, OnlyTop(t, n),
           Keeps(t), KeepsMutexes(t),
           Len(stack'[t]) = n =>
               FrameOK(t, stack[t][n])' /\ \A m \in Locks(stack'[t][n]) : holder'[m] = t,
           \A o \in Objects :
               /\ status'[o] = "dying"
               /\ status[o] = "dying" => Len(stack[t]) = n /\ InDestructor(stack[t][n], o)
               /\ Home[o] = t
               => Len(stack'[t]) = n /\ InDestructor(stack'[t][n], o),
           \A o \in Objects : ListOK(o)',
           NumbersOK', PointersOK'
    PROVE  CallInv'
<1>1. Suspended' /\ FramesOK'
  BY KeptFrames DEF CallInv
<1>2. MutexOK'
  BY KeptMutexes DEF CallInv
<1>3. DyingOK'
  BY KeptDying DEF CallInv
<1>4. ListsOK'
  BY DEF ListsOK
<1> QED
  BY <1>1, <1>2, <1>3, <1>4 DEF CallInv

\* Connections and lists for the calls: their order, and whose they are.
SameLists == /\ lists' \in [Objects -> ListType]
             /\ \A o \in Objects : /\ lists'[o].seq = lists[o].seq
                                   /\ lists'[o].state = lists[o].state
                                   /\ lists'[o].inUse = lists[o].inUse
SameOwners == /\ conn' \in [Ids -> ConnectionType] /\ SendersSame /\ handles' \subseteq Ids
              /\ head' \in [Objects -> Ids \cup {0}] /\ node' \in [Objects -> Ids \cup {0}]
              /\ PointersOK'

\* What is unchanged is still right.
LEMMA UnchangedSame ==
    ASSUME CallInv
    PROVE  /\ UNCHANGED lists => SameLists
           /\ UNCHANGED <<conn, head, node>> /\ handles' \subseteq Ids => SameOwners
<1>1. UNCHANGED lists => SameLists
  BY DEF CallInv, TypeOK, SameLists
<1>2. ASSUME UNCHANGED <<conn, head, node>>, handles' \subseteq Ids PROVE SameOwners
  <2>1. SendersSame
    BY <1>2 DEF SendersSame
  <2>2. PointersOK'
    BY <1>2 DEF CallInv, PointersOK, Made
  <2> QED
    BY <1>2, <2>1, <2>2 DEF SameOwners, CallInv, TypeOK
<1> QED
  BY <1>1, <1>2

\* A step that changes neither order nor owners nor objects.
LEMMA QuietStep ==
    ASSUME CallInv, NEW t \in Threads, NEW n \in Nat, OnlyTop(t, n),
           SameLists, SameOwners, UNCHANGED status,
           holder' \in [Mutexes -> Threads \cup {Nobody}], KeepsMutexes(t),
           Len(stack'[t]) = n =>
               FrameOK(t, stack[t][n])' /\ \A m \in Locks(stack'[t][n]) : holder'[m] = t,
           \A o \in Objects : Len(stack[t]) = n /\ InDestructor(stack[t][n], o)
                                  => Len(stack'[t]) = n /\ InDestructor(stack'[t][n], o),
           \A o \in Objects : Len(stack[t]) = n /\ Walks(stack[t][n], o)
                                  <=> Len(stack'[t]) = n /\ Walks(stack'[t][n], o),
           NumbersOK'
    PROVE  CallInv'
<1>1. TypeOK /\ SendersSame
  BY DEF CallInv, SameOwners
<1>2. TypeOK'
  BY <1>1, KeptType DEF TypeOK, SameLists, SameOwners
<1>3. Keeps(t)
  <2>1. \A o \in Objects : Listed(o)' = Listed(o)
    BY DEF Listed, SameLists
  <2> QED
    BY <2>1 DEF Keeps, SameLists
<1>4. ASSUME NEW o \in Objects PROVE ListOK(o)'
  <2>1. Walkers(o)' = Walkers(o)
    BY <1>1, CountedWalkers
  <2>2. ListOK(o) /\ Listed(o) \subseteq Ids
    BY <1>1, ListedFacts DEF CallInv, ListsOK
  <2> QED
    BY <1>1, <2>1, <2>2, KeptList DEF SameLists
<1>5. PointersOK'
  BY DEF SameOwners
<1> QED
  BY <1>2, <1>3, <1>4, <1>5, CallStep

\* A call of user code.
LEMMA QuietCall ==
    ASSUME CallInv, NEW t \in Threads, NEW f \in FrameType, MayCall(t), Call(t, f),
           UNCHANGED <<conn, lists, head, node, status, holder>>, handles' \subseteq Ids,
           f.pc = "lock", FrameOK(t, f)', NumbersOK'
    PROVE  CallInv'
<1>1. TypeOK /\ Suspended
  BY DEF CallInv
<1>2. PICK n \in Nat : n = Len(stack[t]) + 1
  BY <1>1, TopFacts
<1>3. Becomes(t, n, f) /\ Len(stack[t]) # n
  BY <1>1, <1>2, TopFacts, PushTop
<1>4. OnlyTop(t, n) /\ Len(stack'[t]) = n /\ stack'[t][n] = f
  BY <1>3 DEF Becomes
<1>5. holder' \in [Mutexes -> Threads \cup {Nobody}] /\ KeepsMutexes(t)
  BY <1>1 DEF TypeOK, KeepsMutexes
<1>6. FrameOK(t, stack[t][n])' /\ \A m \in Locks(stack'[t][n]) : holder'[m] = t
  <2>1. FrameOK(t, stack[t][n])'
    BY <1>4
  <2>2. Locks(f) = {}
    BY DEF Locks
  <2> QED
    BY <1>4, <2>1, <2>2
<1>7. \A o \in Objects : ~Walks(stack'[t][n], o)
  BY <1>4 DEF Walks
<1>8. SameLists /\ SameOwners
  BY UnchangedSame
<1> QED
  BY <1>3, <1>4, <1>5, <1>6, <1>7, <1>8, QuietStep

\* What a frame says depends on the order and the state of the lists.
LEMMA SameFrame ==
    ASSUME NEW t \in Threads, NEW f \in FrameType, FrameOK(t, f), UNCHANGED status,
           \A o \in Objects : /\ lists'[o].seq = lists[o].seq
                              /\ lists'[o].state = lists[o].state
    PROVE  FrameOK(t, f)'
<1>1. f.obj \in Objects /\ \A o \in Objects : Listed(o)' = Listed(o)
  BY DEF Listed, FrameType
<1>2. EmitOK(t, f) => EmitOK(t, f)'
  BY <1>1 DEF EmitOK, Alive
<1>3. ConnectOK(f) => ConnectOK(f)'
  BY DEF ConnectOK, Alive
<1>4. DisconnectOK(t, f) => DisconnectOK(t, f)'
  BY <1>1 DEF DisconnectOK, Alive
<1>5. ReceiversOK(t, f) => ReceiversOK(t, f)'
  BY <1>1 DEF ReceiversOK, Attached
<1>6. SendersOK(t, f) => SendersOK(t, f)'
  BY <1>1 DEF SendersOK, Attached
<1> QED
  BY <1>2, <1>3, <1>4, <1>5, <1>6 DEF FrameOK, BreakShape

\* The top call goes on.
LEMMA QuietGo ==
    ASSUME CallInv, NEW t \in Threads, Calling(t), NEW f \in FrameType, Replace(t, f),
           SameLists, SameOwners, UNCHANGED status,
           holder' \in [Mutexes -> Threads \cup {Nobody}], KeepsMutexes(t),
           FrameOK(t, f), \A m \in Locks(f) : holder'[m] = t,
           f.kind = Top(t).kind, f.obj = Top(t).obj,
           f.kind \in {"connect", "break", "senders"} \/ (Top(t).pc # "lock" /\ f.pc # "lock")
    PROVE  CallInv'
<1>1. TypeOK /\ Suspended /\ NumbersOK
  BY DEF CallInv
<1>2. PICK n \in Nat : n = Len(stack[t])
  BY <1>1, TopFacts
<1>3. Becomes(t, n, f) /\ stack[t][n] = Top(t)
  BY <1>1, <1>2, ReplaceTop DEF Top
<1>4. OnlyTop(t, n) /\ Len(stack'[t]) = n /\ stack'[t][n] = f /\ Len(stack[t]) = n
  BY <1>2, <1>3 DEF Becomes
<1>6. FrameOK(t, f)'
  BY SameFrame DEF SameLists
<1>7. FrameOK(t, stack[t][n])'
  BY <1>4, <1>6
<1>8. SendersSame
  BY DEF SameOwners
<1>9. NumbersOK'
  BY <1>1, <1>3, <1>4, <1>8, KeptNumbers
<1>10. \A o \in Objects : /\ Walks(Top(t), o) <=> Walks(f, o)
                          /\ InDestructor(Top(t), o) <=> InDestructor(f, o)
  BY DEF Walks, InDestructor
<1> QED
  BY <1>3, <1>4, <1>7, <1>9, <1>10, QuietStep

\* A call that finds nothing to do returns.
LEMMA QuietReturn ==
    ASSUME CallInv, NEW t \in Threads, At(t, {"emit", "disconnect"}, "lock"), Return(t),
           UNCHANGED <<listVars, status, holder>>
    PROVE  CallInv'
<1>1. TypeOK /\ Suspended /\ NumbersOK /\ Calling(t)
  BY DEF CallInv, At
<1>2. PICK n \in Nat : n = Len(stack[t])
  BY <1>1, TopFacts
<1>3. Ends(t, n) /\ stack[t][n] = Top(t)
  BY <1>1, <1>2, ReturnTop DEF Top
<1>4. OnlyTop(t, n) /\ Len(stack'[t]) = n - 1 /\ Len(stack[t]) = n /\ Len(stack'[t]) # n
  BY <1>2, <1>3 DEF Ends
<1>5. UNCHANGED <<conn, handles, lists, head, node, status>>
  BY DEF listVars
<1>6. SendersSame
  BY <1>5 DEF SendersSame
<1>7. NumbersOK'
  BY <1>1, <1>3, <1>4, <1>6, KeptNumbers
<1>8. \A o \in Objects : ~Walks(Top(t), o) /\ ~InDestructor(Top(t), o)
  BY DEF Walks, InDestructor, At
<1>9. /\ holder' \in [Mutexes -> Threads \cup {Nobody}] /\ KeepsMutexes(t)
      /\ handles' \subseteq Ids
  BY <1>1, <1>5 DEF TypeOK, KeepsMutexes
<1>10. SameLists /\ SameOwners
  BY <1>5, <1>9, UnchangedSame
<1> QED
  BY <1>3, <1>4, <1>5, <1>7, <1>8, <1>9, <1>10, QuietStep
-----------------------------------------------------------------------------
\* The calls: steps that leave the lists alone.

\* What the invariant says of a call on top.
LEMMA AtFacts ==
    ASSUME CallInv, NEW t \in Threads, NEW kinds, NEW pc, At(t, kinds, pc)
    PROVE  /\ TypeOK /\ Suspended /\ Calling(t) /\ Top(t) \in FrameType
           /\ Top(t).kind \in kinds /\ Top(t).pc = pc /\ Top(t).obj \in Objects
           /\ FrameOK(t, Top(t)) /\ \A m \in Locks(Top(t)) : holder[m] = t
<1>1. TypeOK /\ Suspended /\ Calling(t) /\ Top(t).kind \in kinds /\ Top(t).pc = pc
  BY DEF CallInv, At
<1>2. Top(t) \in FrameType /\ Len(stack[t]) \in 1..Len(stack[t])
  BY <1>1, TopFacts
<1>3. FrameOK(t, Top(t))
  BY <1>2 DEF CallInv, FramesOK, Top
<1>4. \A m \in Locks(Top(t)) : holder[m] = t
  BY <1>1 DEF CallInv, MutexOK
<1> QED
  BY <1>1, <1>2, <1>3, <1>4 DEF FrameType

\* A thread that may call is in no call but a slot, and destroys nothing.
LEMMA UserFacts ==
    ASSUME CallInv, NEW t \in Threads, MayCall(t)
    PROVE  /\ Calling(t) => Top(t).kind = "emit" /\ Top(t).pc = "slot"
           /\ \A o \in Objects : Home[o] = t => status[o] # "dying"
<1>1. Calling(t) => Top(t).kind = "emit" /\ Top(t).pc = "slot"
  BY DEF MayCall, UserCode, At
<1>2. ASSUME NEW o \in Objects, Home[o] = t, status[o] = "dying" PROVE FALSE
  <2>1. Calling(t) /\ Top(t).kind \in {"receivers", "senders"}
    BY <1>2 DEF CallInv, DyingOK, Destroying
  <2> QED
    BY <1>1, <2>1
<1> QED
  BY <1>1, <1>2

\* A call may begin if there is room for the connection that it makes.
LEMMA CallNumbers ==
    ASSUME CallInv, NEW t \in Threads, NEW f \in FrameType, MayCall(t), Call(t, f),
           UNCHANGED conn
    PROVE  /\ f.kind # "connect" => NumbersOK'
           /\ Newest + Cardinality(Making) < MaxConnections => NumbersOK'
<1>1. TypeOK /\ Suspended /\ NumbersOK
  BY DEF CallInv
<1>2. PICK n \in Nat : n = Len(stack[t]) + 1
  BY <1>1, TopFacts
<1>3. Becomes(t, n, f) /\ Len(stack[t]) # n
  BY <1>1, <1>2, TopFacts, PushTop
<1>4. OnlyTop(t, n) /\ Len(stack'[t]) = n /\ stack'[t][n] = f
  BY <1>3 DEF Becomes
<1>5. SendersSame /\ Made' = Made /\ Newest' = Newest
  BY DEF SendersSame, Made, Newest
<1>6. f.kind # "connect" => NumbersOK'
  BY <1>1, <1>4, <1>5, KeptNumbers
<1>7. CASE f.kind = "connect" /\ Newest + Cardinality(Making) < MaxConnections
  <2>1. /\ IsFiniteSet(Making) /\ Cardinality(Making) \in Nat
        /\ Making' \ {t} = Making \ {t} /\ t \notin Making /\ t \in Making'
    BY <1>1, <1>3, <1>4, <1>7, MakingFacts
  <2>2. Making' = Making \cup {t}
    BY <2>1
  <2>3. Cardinality(Making') = Cardinality(Making) + 1
    BY <2>1, <2>2, FS_AddElement
  <2>4. Made' = 1..Newest'
    BY <1>1, <1>5 DEF NumbersOK
  <2>5. Newest \in Nat
    BY <1>1, NewestType
  <2>6. Newest' + Cardinality(Making') <= MaxConnections
    BY <1>5, <1>7, <2>1, <2>3, <2>5, IdsFinite
  <2> QED
    BY <2>4, <2>6 DEF NumbersOK
<1> QED
  BY <1>6, <1>7

\* A call that begins.
LEMMA FrameFacts ==
    ASSUME NEW k \in {"emit", "connect", "break"} \cup Relocking, NEW o \in Objects,
           NEW p \in Objects \cup {Nobody}
    PROVE  /\ Frame(k, o, p) \in FrameType
           /\ Frame(k, o, p).kind = k /\ Frame(k, o, p).obj = o /\ Frame(k, o, p).other = p
           /\ Frame(k, o, p).pc = "lock"
  BY DEF Frame, FrameType, Relocking

\* Connect keeps CallInv.
LEMMA CallConnect ==
    ASSUME CallInv, NEW t \in Threads, NEW l \in Links, Connect(t, l[1], l[2], l[3])
    PROVE  CallInv'
<1>1. l[1] \in Objects /\ l[2] \in Objects
  BY ConnectionsAssumption
<1>2. PICK s \in Objects, r \in Objects : s = l[1] /\ r = l[2]
  BY <1>1
<1>3. PICK b \in {0, 1} :
          /\ MayCall(t) /\ Newest + Cardinality(Making) < MaxConnections
          /\ Alive(s) /\ Alive(r)
          /\ Call(t, [Frame("connect", s, r) EXCEPT !.c = b])
          /\ UNCHANGED <<listVars, status, holder>>
  BY <1>2 DEF Connect
<1> DEFINE f == [Frame("connect", s, r) EXCEPT !.c = b]
<1>4. /\ f \in FrameType /\ f.kind = "connect" /\ f.obj = s /\ f.other = r /\ f.pc = "lock"
  BY <1>2 DEF Frame, FrameType
<1> HIDE DEF f
<1>5. FrameOK(t, f)'
  BY <1>3, <1>4 DEF FrameOK, ConnectOK, Alive
<1>6. NumbersOK'
  BY <1>3, <1>4, CallNumbers DEF f, listVars
<1>7. /\ UNCHANGED <<conn, handles, lists, head, node, status, holder>> /\ MayCall(t)
      /\ Call(t, f) /\ handles' \subseteq Ids
  BY <1>3 DEF listVars, CallInv, TypeOK, f
<1> QED
  BY <1>4, <1>5, <1>6, <1>7, QuietCall

\* A call of activate or disconnect begins.
LEMMA CallOther ==
    ASSUME CallInv, NEW t \in Threads, MayCall(t), NEW k \in {"emit", "disconnect"},
           NEW o \in Objects, NEW p \in Objects \cup {Nobody}, Call(t, Frame(k, o, p)),
           UNCHANGED <<listVars, status, holder>>,
           Alive(o), k = "emit" => Home[o] = t,
           k = "disconnect" => /\ p # Nobody => Alive(p)
                               /\ Home[o] = t \/ (p # Nobody /\ Home[p] = t)
    PROVE  CallInv'
<1> DEFINE f == Frame(k, o, p)
<1>1. /\ f \in FrameType /\ f.kind = k /\ f.obj = o /\ f.other = p /\ f.pc = "lock"
  BY FrameFacts DEF Relocking
<1>2. UNCHANGED <<conn, handles, lists, head, node, status, holder>> /\ Call(t, f)
  BY DEF listVars
<1> HIDE DEF f
<1>3. k = "emit" => EmitOK(t, f)'
  BY <1>1, <1>2 DEF EmitOK, Alive
<1>4. k = "disconnect" => DisconnectOK(t, f)'
  BY <1>1, <1>2 DEF DisconnectOK, Alive, RelockPcs
<1>5. FrameOK(t, f)'
  BY <1>1, <1>3, <1>4 DEF FrameOK
<1>6. NumbersOK'
  BY <1>1, <1>2, CallNumbers
<1>7. handles' \subseteq Ids
  BY <1>2 DEF CallInv, TypeOK
<1> QED
  BY <1>1, <1>2, <1>5, <1>6, <1>7, QuietCall

\* Emit keeps CallInv.
LEMMA CallEmit ==
    ASSUME CallInv, NEW t \in Threads, NEW o \in Objects, Emit(t, o)
    PROVE  CallInv'
  BY CallOther DEF Emit

\* Disconnect keeps CallInv.
LEMMA CallDisconnect ==
    ASSUME CallInv, NEW t \in Threads, NEW l \in Links, Disconnect(t, l[1], l[2])
    PROVE  CallInv'
<1>1. l[1] \in Objects /\ l[2] \in Objects
  BY ConnectionsAssumption
<1>2. PICK s \in Objects, r \in Objects : s = l[1] /\ r = l[2]
  BY <1>1
<1>3. /\ MayCall(t) /\ t \in {Home[s], Home[r]} /\ Alive(s) /\ Alive(r)
      /\ Call(t, Frame("disconnect", s, r)) /\ UNCHANGED <<listVars, status, holder>>
  BY <1>2 DEF Disconnect
<1>4. r # Nobody /\ r \in Objects \cup {Nobody}
  BY ConnectionsAssumption
<1> QED
  BY <1>3, <1>4, CallOther

\* DisconnectAll keeps CallInv.
LEMMA CallDisconnectAll ==
    ASSUME CallInv, NEW t \in Threads, NEW o \in Objects, DisconnectAll(t, o)
    PROVE  CallInv'
  BY CallOther DEF DisconnectAll

\* Break keeps CallInv.
LEMMA CallBreak ==
    ASSUME CallInv, NEW t \in Threads, NEW c \in Made, Break(t, c)
    PROVE  CallInv'
<1>1. c \in Ids
  BY DEF Made
<1> DEFINE s == conn[c].sender
           r == conn[c].receiver
           f == [Frame("break", s, r) EXCEPT !.c = c]
<1>2. /\ MayCall(t) /\ Call(t, f) /\ handles' = handles \ {c}
      /\ UNCHANGED <<conn, lists, head, node, status, holder>>
      /\ s \in Objects /\ r \in Objects
  BY ConnectionsAssumption DEF Break
<1>3. PICK f2 : f2 = f
  OBVIOUS
<1>4. /\ f2 \in FrameType /\ f2.kind = "break" /\ f2.other \in Objects /\ f2.pc = "lock"
      /\ f2.c = c
  BY <1>1, <1>2, <1>3, IdsFinite DEF Frame, FrameType
<1> HIDE DEF f
<1>5. FrameOK(t, f2)'
  BY <1>1, <1>4 DEF FrameOK, BreakShape
<1>6. NumbersOK'
  BY <1>2, <1>3, <1>4, CallNumbers
<1>7. handles' \subseteq Ids
  BY <1>2 DEF CallInv, TypeOK
<1> QED
  BY <1>2, <1>3, <1>4, <1>5, <1>6, <1>7, QuietCall
-----------------------------------------------------------------------------
\* Locking, and locking again.

\* A step that touches neither lists nor connections.
LEMMA NothingChanged ==
    ASSUME CallInv, UNCHANGED <<listVars, status>>
    PROVE  SameLists /\ SameOwners /\ UNCHANGED status
<1>1. handles' \subseteq Ids /\ UNCHANGED <<lists, conn, head, node>>
  BY DEF listVars, CallInv, TypeOK
<1> QED
  BY <1>1, UnchangedSame

\* LockFirst keeps CallInv.
LEMMA CallLockFirst ==
    ASSUME CallInv, NEW t \in Threads, LockFirst(t)
    PROVE  CallInv'
<1> DEFINE first == LowerOf(Top(t).obj, Top(t).other)
<1>1. /\ At(t, {"connect", "break"}, "lock") /\ Free(first) /\ Hold(t, first)
      /\ GoTo(t, "second") /\ UNCHANGED <<listVars, status>>
  BY DEF LockFirst
<1>2. /\ TypeOK /\ Calling(t) /\ Top(t) \in FrameType /\ Top(t).kind \in {"connect", "break"}
      /\ Top(t).obj \in Objects /\ FrameOK(t, Top(t))
  BY <1>1, AtFacts
<1>3. first \in Objects
  BY <1>2 DEF FrameOK, ConnectOK, BreakShape, LowerOf
<1>4. PICK f \in FrameType : f = [Top(t) EXCEPT !.pc = "second"]
  BY <1>2 DEF FrameType
<1>5. /\ Replace(t, f) /\ f.kind = Top(t).kind /\ f.obj = Top(t).obj /\ f.other = Top(t).other
      /\ f.c = Top(t).c /\ f.pc = "second"
  BY <1>1, <1>2, <1>4 DEF GoTo, FrameType
<1>6. FrameOK(t, f)
  BY <1>2, <1>5 DEF FrameOK, ConnectOK, BreakShape
<1>7. Locks(f) = {Lock[first]}
  BY <1>2, <1>5 DEF Locks
<1> HIDE DEF first
<1>8. /\ holder' \in [Mutexes -> Threads \cup {Nobody}] /\ KeepsMutexes(t)
      /\ \A m \in Locks(f) : holder'[m] = t
  BY <1>1, <1>2, <1>3, <1>7, HoldFacts
<1> QED
  BY <1>1, <1>2, <1>5, <1>6, <1>8, NothingChanged, QuietGo

\* A relock, from any of the three calls that walk a list.
LEMMA RelockFrame ==
    ASSUME CallInv, NEW t \in Threads, NEW f \in FrameType, FrameOK(t, f),
           f.kind \in Relocking, f.pc # "lock",
           f.kind # "senders" => f.c # 0,
           f.kind = "receivers" => f.c = First(lists[f.obj].seq),
           NEW g \in FrameType, g.kind = f.kind, g.obj = f.obj, g.other = f.other, g.c = f.c,
           g.pc \in RelockPcs, g.peer \in Objects
    PROVE  FrameOK(t, g)
<1>1. g.pc # "lock"
  BY DEF RelockPcs
<1>2. f.kind = "disconnect" => DisconnectOK(t, g)
  BY <1>1 DEF FrameOK, DisconnectOK, RelockPcs
<1>3. f.kind = "receivers" => ReceiversOK(t, g)
  BY <1>1 DEF FrameOK, ReceiversOK, RelockPcs
<1>4. f.kind = "senders" => SendersOK(t, g)
  BY <1>1 DEF FrameOK, SendersOK, RelockPcs
<1> QED
  BY <1>2, <1>3, <1>4 DEF FrameOK, Relocking

\* A call lets go of its mutex to take both in order.
LEMMA CallRelock ==
    ASSUME CallInv, NEW t \in Threads, At(t, Relocking, "walk"),
           NEW f \in FrameType, FrameOK(t, f),
           f.kind = Top(t).kind, f.obj = Top(t).obj, f.pc = "walk",
           f.kind # "senders" => f.c # 0,
           f.kind = "receivers" => f.c = First(lists[f.obj].seq),
           NEW p \in Objects, Relock(t, f, p),
           SameLists, SameOwners, UNCHANGED status
    PROVE  CallInv'
<1>1. /\ TypeOK /\ Calling(t) /\ Top(t).obj \in Objects /\ Top(t).kind \in Relocking
      /\ Top(t).pc = "walk" /\ \A m \in Locks(Top(t)) : holder[m] = t
  BY AtFacts
<1>2. holder[Lock[f.obj]] = t /\ f.obj \in Objects /\ Lock[f.obj] \in Mutexes
  BY <1>1 DEF Locks, Relocking, Mutexes
<1>3. CASE /\ Lock[f.obj] = Lock[p] \/ Free(p)
           /\ Hold(t, p)
           /\ Replace(t, [f EXCEPT !.pc = "both", !.peer = p])
  <2>1. PICK g : g = [f EXCEPT !.pc = "both", !.peer = p]
    OBVIOUS
  <2>a. /\ g \in FrameType /\ g.kind = f.kind /\ g.obj = f.obj /\ g.other = f.other
        /\ g.c = f.c /\ g.pc = "both" /\ g.peer = p
    BY <2>1 DEF FrameType
  <2>b. f.kind \in Relocking /\ f.pc # "lock" /\ g.pc \in RelockPcs
    BY <1>1, <2>a DEF RelockPcs
  <2>2. FrameOK(t, g)
    BY <2>a, <2>b, RelockFrame
  <2>3. Locks(g) = {Lock[f.obj], Lock[p]}
    BY <1>1, <2>a DEF Locks, Relocking
  <2>4. /\ holder' \in [Mutexes -> Threads \cup {Nobody}] /\ KeepsMutexes(t)
        /\ holder'[Lock[p]] = t /\ holder'[Lock[f.obj]] = t
    BY <1>1, <1>2, <1>3, HoldFacts
  <2> QED
    BY <1>1, <1>3, <2>1, <2>a, <2>2, <2>3, <2>4, QuietGo
<1>4. CASE /\ Release({f.obj})
           /\ Replace(t, [f EXCEPT !.pc = "lower", !.peer = p])
  <2>1. PICK g : g = [f EXCEPT !.pc = "lower", !.peer = p]
    OBVIOUS
  <2>a. /\ g \in FrameType /\ g.kind = f.kind /\ g.obj = f.obj /\ g.other = f.other
        /\ g.c = f.c /\ g.pc = "lower" /\ g.peer = p
    BY <2>1 DEF FrameType
  <2>b. f.kind \in Relocking /\ f.pc # "lock" /\ g.pc \in RelockPcs
    BY <1>1, <2>a DEF RelockPcs
  <2>2. FrameOK(t, g)
    BY <2>a, <2>b, RelockFrame
  <2>3. Locks(g) = {}
    BY <1>1, <2>a DEF Locks, Relocking
  <2>4. holder' \in [Mutexes -> Threads \cup {Nobody}] /\ KeepsMutexes(t)
    <3>1. {f.obj} \in SUBSET Objects /\ \A o \in {f.obj} : holder[Lock[o]] \in {Nobody, t}
      BY <1>2
    <3> QED
      BY <1>1, <1>4, <3>1, ReleaseFacts
  <2> QED
    BY <1>1, <1>4, <2>1, <2>a, <2>2, <2>3, <2>4, QuietGo
<1> QED
  BY <1>3, <1>4 DEF Relock

\* The call goes on at pc with the mutex of o.
LEMMA CallHold ==
    ASSUME CallInv, NEW t \in Threads, NEW pc, At(t, Relocking, pc), pc # "lock",
           NEW f \in FrameType, Replace(t, f), FrameOK(t, f),
           f.kind = Top(t).kind, f.obj = Top(t).obj, f.pc # "lock",
           NEW o \in Objects, Free(o), Hold(t, o), Locks(f) \subseteq {Lock[o]} \cup Locks(Top(t)),
           SameLists, SameOwners, UNCHANGED status
    PROVE  CallInv'
<1>1. /\ TypeOK /\ Calling(t) /\ Top(t) \in FrameType /\ Top(t).pc = pc
      /\ FrameOK(t, Top(t)) /\ \A m \in Locks(Top(t)) : holder[m] = t
  BY AtFacts
<1>2. Locks(Top(t)) \subseteq Mutexes
  BY <1>1, LocksType
<1>3. /\ holder' \in [Mutexes -> Threads \cup {Nobody}] /\ KeepsMutexes(t)
      /\ holder'[Lock[o]] = t /\ \A m \in Mutexes : holder[m] = t => holder'[m] = t
  BY <1>1, HoldFacts
<1>4. \A m \in Locks(f) : holder'[m] = t
  BY <1>1, <1>2, <1>3
<1> QED
  BY <1>1, <1>3, <1>4, QuietGo

\* Lower keeps CallInv.
LEMMA CallLower ==
    ASSUME CallInv, NEW t \in Threads, Lower(t)
    PROVE  CallInv'
<1>1. /\ At(t, Relocking, "lower") /\ Free(Top(t).peer) /\ Hold(t, Top(t).peer)
      /\ GoTo(t, "upper") /\ UNCHANGED <<listVars, status>>
  BY DEF Lower
<1>2. /\ Top(t) \in FrameType /\ Top(t).kind \in Relocking /\ Top(t).pc = "lower"
      /\ FrameOK(t, Top(t))
  BY <1>1, AtFacts
<1>3. Top(t).peer \in Objects /\ (Top(t).kind # "senders" => Top(t).c # 0)
      /\ (Top(t).kind = "receivers" => Top(t).c = First(lists[Top(t).obj].seq))
  BY <1>2 DEF FrameOK, DisconnectOK, ReceiversOK, SendersOK, Relocking, RelockPcs
<1>4. PICK g : g = [Top(t) EXCEPT !.pc = "upper"]
  OBVIOUS
<1>5. /\ g \in FrameType /\ g.kind = Top(t).kind /\ g.obj = Top(t).obj
      /\ g.other = Top(t).other /\ g.c = Top(t).c /\ g.pc = "upper" /\ g.peer = Top(t).peer
      /\ g.pc \in RelockPcs
  BY <1>2, <1>4 DEF FrameType, RelockPcs
<1>6. FrameOK(t, g)
  BY <1>2, <1>3, <1>5, RelockFrame
<1>7. Locks(g) \subseteq {Lock[Top(t).peer]}
  BY <1>2, <1>5 DEF Locks, Relocking
<1>8. Replace(t, g)
  BY <1>1, <1>4 DEF GoTo
<1> QED
  BY <1>1, <1>2, <1>3, <1>5, <1>6, <1>7, <1>8, NothingChanged, CallHold

\* Upper keeps CallInv.
LEMMA CallUpper ==
    ASSUME CallInv, NEW t \in Threads, Upper(t)
    PROVE  CallInv'
<1>1. /\ At(t, Relocking, "upper") /\ Free(Top(t).obj) /\ Hold(t, Top(t).obj)
      /\ GoTo(t, "both") /\ UNCHANGED <<listVars, status>>
  BY DEF Upper
<1>2. /\ Top(t) \in FrameType /\ Top(t).kind \in Relocking /\ Top(t).pc = "upper"
      /\ FrameOK(t, Top(t)) /\ Top(t).obj \in Objects
  BY <1>1, AtFacts
<1>3. Top(t).peer \in Objects /\ (Top(t).kind # "senders" => Top(t).c # 0)
      /\ (Top(t).kind = "receivers" => Top(t).c = First(lists[Top(t).obj].seq))
  BY <1>2 DEF FrameOK, DisconnectOK, ReceiversOK, SendersOK, Relocking, RelockPcs
<1>4. PICK g : g = [Top(t) EXCEPT !.pc = "both"]
  OBVIOUS
<1>5. /\ g \in FrameType /\ g.kind = Top(t).kind /\ g.obj = Top(t).obj
      /\ g.other = Top(t).other /\ g.c = Top(t).c /\ g.pc = "both" /\ g.peer = Top(t).peer
      /\ g.pc \in RelockPcs
  BY <1>2, <1>4 DEF FrameType, RelockPcs
<1>6. FrameOK(t, g)
  BY <1>2, <1>3, <1>5, RelockFrame
<1>7. Locks(g) \subseteq {Lock[Top(t).obj]} \cup Locks(Top(t))
  BY <1>2, <1>5 DEF Locks, Relocking
<1>8. Replace(t, g)
  BY <1>1, <1>4 DEF GoTo
<1> QED
  BY <1>1, <1>2, <1>5, <1>6, <1>7, <1>8, NothingChanged, CallHold
-----------------------------------------------------------------------------
\* A call begins to walk a list, and one that walks it ends.

\* ++inUse: a call begins to walk the list of o, whose mutex it takes.
LEMMA BeginWalk ==
    ASSUME CallInv, NEW t \in Threads, NEW o \in Objects,
           At(t, {"emit", "disconnect", "receivers"}, "lock"), o = Top(t).obj,
           Attached(o), Free(o), Hold(t, o), lists' = [lists EXCEPT ![o].inUse = @ + 1],
           NEW f \in FrameType, Replace(t, f), FrameOK(t, f),
           f.kind = Top(t).kind, f.obj = o, f.pc \in {"visit", "walk"},
           UNCHANGED <<conn, handles, head, node, status>>
    PROVE  CallInv'
<1>1. /\ TypeOK /\ Suspended /\ NumbersOK /\ Calling(t) /\ Top(t).pc = "lock"
      /\ Top(t).kind \in {"emit", "disconnect", "receivers"}
  BY AtFacts DEF CallInv
<1>2. PICK n \in Nat : n = Len(stack[t])
  BY <1>1, TopFacts
<1>3. Becomes(t, n, f) /\ stack[t][n] = Top(t)
  BY <1>1, <1>2, ReplaceTop DEF Top
<1>4. OnlyTop(t, n) /\ Len(stack'[t]) = n /\ stack'[t][n] = f /\ Len(stack[t]) = n
  BY <1>2, <1>3 DEF Becomes
<1>5. lists \in [Objects -> ListType] /\ lists[o] \in ListType /\ lists[o].inUse \in Nat
  BY <1>1, ListedFacts DEF TypeOK
<1>6. /\ lists' \in [Objects -> ListType] /\ lists'[o].inUse = lists[o].inUse + 1
      /\ lists'[o].seq = lists[o].seq /\ lists'[o].state = lists[o].state
      /\ \A p \in Objects \ {o} : lists'[p] = lists[p]
  <2>1. PICK list : list = [lists[o] EXCEPT !.inUse = @ + 1]
    OBVIOUS
  <2>2. lists' = [lists EXCEPT ![o] = list]
    BY <2>1
  <2>a. PICK k \in Nat : k = lists[o].inUse + 1
    BY <1>5
  <2>b. list = [lists[o] EXCEPT !.inUse = k]
    BY <2>1, <2>a
  <2>3. /\ list \in ListType /\ list.inUse = lists[o].inUse + 1
        /\ list.seq = lists[o].seq /\ list.state = lists[o].state
    BY <1>5, <2>a, <2>b DEF ListType
  <2> QED
    BY <1>5, <2>2, <2>3
<1>7. SameOwners /\ SendersSame
  <2>1. handles' \subseteq Ids
    BY <1>1 DEF TypeOK
  <2> QED
    BY <2>1, UnchangedSame DEF SameOwners
<1>8. /\ holder' \in [Mutexes -> Threads \cup {Nobody}] /\ KeepsMutexes(t)
      /\ holder'[Lock[o]] = t
  BY <1>1, HoldFacts
<1>9. TypeOK'
  BY <1>1, <1>4, <1>6, <1>7, <1>8, KeptType DEF TypeOK, SameOwners
<1>10. Keeps(t)
  <2>1. \A p \in Objects : Listed(p)' = Listed(p)
    BY <1>6 DEF Listed
  <2> QED
    BY <1>6, <2>1 DEF Keeps
<1>11. Locks(f) = {Lock[o]}
  BY <1>1 DEF Locks
<1>12. FrameOK(t, stack[t][n])' /\ \A m \in Locks(stack'[t][n]) : holder'[m] = t
  <2>1. FrameOK(t, f)'
    BY <1>6, SameFrame
  <2>2. FrameOK(t, stack[t][n])'
    BY <1>4, <2>1
  <2> QED
    BY <1>4, <1>8, <1>11, <2>2
<1>13. \A p \in Objects : InDestructor(stack[t][n], p) => InDestructor(stack'[t][n], p)
  BY <1>3, <1>4 DEF InDestructor
<1>14. ASSUME NEW p \in Objects PROVE ListOK(p)'
  <2>1. ListOK(p) /\ Listed(p) \subseteq Ids
    BY <1>1, ListedFacts DEF CallInv, ListsOK
  <2>2. ~Walks(stack[t][n], p) /\ (Walks(stack'[t][n], p) <=> p = o)
    BY <1>1, <1>3, <1>4 DEF Walks
  <2>3. CASE p # o
    <3>1. Walkers(p)' = Walkers(p)
      BY <1>1, <1>4, <2>2, <2>3, CountedWalkers
    <3> QED
      BY <1>6, <1>7, <2>1, <2>3, <3>1, KeptList
  <2>4. CASE p = o
    <3>1. Cardinality(Walkers(o)') = Cardinality(Walkers(o)) + 1
      BY <1>1, <1>4, <2>2, <2>4, CountedWalkers
    <3>2. /\ lists'[o].inUse = Cardinality(Walkers(o)') /\ lists'[o].inUse # 0
          /\ lists'[o].state = "attached"
      BY <1>5, <1>6, <2>1, <2>4, <3>1 DEF ListOK, Attached
    <3>3. Listed(o)' = Listed(o)
      BY <1>6 DEF Listed
    <3>4. \A c \in Listed(o)' : conn'[c].sender = o
      BY <1>7, <2>1, <2>4, <3>3 DEF ListOK, SendersSame
    <3>5. Increasing(lists'[o].seq)
      BY <1>6, <2>1, <2>4 DEF ListOK
    <3>6. status'[o] # "gone"
      BY <2>1, <2>4 DEF ListOK, Attached
    <3> QED
      BY <2>4, <3>2, <3>4, <3>5, <3>6 DEF ListOK, Increasing, Alive
  <2> QED
    BY <2>3, <2>4
<1>15. NumbersOK'
  BY <1>1, <1>3, <1>4, <1>7, KeptNumbers
<1>16. PointersOK'
  BY <1>7 DEF SameOwners
<1> QED
  BY <1>4, <1>8, <1>9, <1>10, <1>12, <1>13, <1>14, <1>15, <1>16, CallStep

\* --inUse, for a walker of o that left it as list.
LastUse(o, list) == lists' = [lists EXCEPT ![o] = Unused(list)]

\* --inUse, after the last user has marked the list as dirty or orphaned it.
LEMMA EndedList ==
    ASSUME TypeOK, NEW o \in Objects, ListOK(o), SendersSame, UNCHANGED status,
           Cardinality(Walkers(o)') = Cardinality(Walkers(o)) - 1,
           Cardinality(Walkers(o)) # 0,
           NEW list \in ListType, list.seq = lists[o].seq, list.inUse = lists[o].inUse,
           list.state = lists[o].state
               \/ (list.state = "orphaned" /\ list.seq = <<>> /\ ~Alive(o)),
           LastUse(o, list)
    PROVE  /\ lists' \in [Objects -> ListType] /\ ListOK(o)' /\ lists'[o].seq = lists[o].seq
           /\ \A p \in Objects \ {o} : lists'[p] = lists[p]
           /\ lists'[o].state = list.state \/ (list.state = "orphaned" /\ lists'[o].state = "deleted")
<1>1. lists \in [Objects -> ListType] /\ Listed(o) \subseteq Ids
  BY ListedFacts DEF TypeOK
<1>2. list.inUse \in Nat /\ list.state \in {"none", "attached", "orphaned", "deleted"}
  BY DEF ListType
<1>3. Cardinality(Walkers(o)) \in Nat /\ list.inUse = Cardinality(Walkers(o)) /\ list.inUse # 0
  BY WalkersFinite DEF ListOK
<1>4. list.state # "attached" => list.seq = <<>>
  BY DEF ListOK
<1>5. list.state \in {"attached", "orphaned"}
  BY <1>2, <1>3 DEF ListOK
<1> DEFINE new == Unused(list)
<1>6. /\ new \in ListType /\ new.seq = list.seq /\ new.inUse = list.inUse - 1
      /\ IF list.inUse = 1 /\ list.state = "orphaned" THEN new.state = "deleted"
                                                       ELSE new.state = list.state
  <2>1. CASE list.inUse = 1 /\ list.state = "orphaned"
    <3>1. new = [NoList EXCEPT !.state = "deleted"] /\ list.seq = <<>>
      BY <1>4, <2>1 DEF Unused
    <3>2. new = [seq |-> <<>>, inUse |-> 0, dirty |-> FALSE, state |-> "deleted"]
      BY <3>1 DEF NoList
    <3>3. new.seq = <<>> /\ new.inUse = 0 /\ new.state = "deleted"
      BY <3>2
    <3>4. <<>> \in Seq(Ids) /\ 0 \in Nat
      OBVIOUS
    <3>5. new \in ListType
      BY <3>2, <3>4 DEF ListType
    <3> QED
      BY <2>1, <3>1, <3>3, <3>5
  <2>2. CASE ~(list.inUse = 1 /\ list.state = "orphaned")
    <3>1. new = [list EXCEPT !.inUse = list.inUse - 1] /\ list.inUse - 1 \in Nat
      BY <1>2, <1>3, <2>2 DEF Unused
    <3>2. new \in ListType /\ new.seq = list.seq /\ new.inUse = list.inUse - 1
          /\ new.state = list.state
      BY <3>1 DEF ListType
    <3> QED
      BY <2>2, <3>2
  <2> QED
    BY <2>1, <2>2
<1> HIDE DEF new
<1>7. /\ lists' \in [Objects -> ListType] /\ lists'[o] = new
      /\ \A p \in Objects \ {o} : lists'[p] = lists[p]
  BY <1>1, <1>6 DEF new, LastUse
<1>8. Listed(o)' = Listed(o) /\ Increasing(lists'[o].seq)
  BY <1>6, <1>7 DEF Listed, ListOK
<1>9. \A c \in Listed(o)' : conn'[c].sender = o
  BY <1>1, <1>8 DEF ListOK, SendersSame
<1>10. lists'[o].inUse = Cardinality(Walkers(o)') /\ lists'[o].inUse \in Nat
  BY <1>2, <1>3, <1>6, <1>7
<1>11. /\ lists'[o].state # "attached" => lists'[o].seq = <<>>
       /\ lists'[o].state \in {"none", "deleted"} => lists'[o].inUse = 0
       /\ lists'[o].state = "orphaned" => lists'[o].inUse # 0
  BY <1>2, <1>3, <1>4, <1>5, <1>6, <1>7
<1>12. /\ status[o] = "alive" => lists'[o].state \in {"none", "attached"}
       /\ status[o] = "gone" => lists'[o].state # "attached"
  BY <1>5, <1>6, <1>7 DEF ListOK, Alive
<1>13. ListOK(o)'
  BY <1>8, <1>9, <1>10, <1>11, <1>12 DEF ListOK, Increasing, Alive
<1> QED
  BY <1>6, <1>7, <1>13
\* The walker of o does not walk it any more.
LEMMA EndWalk ==
    ASSUME CallInv, NEW t \in Threads, NEW n \in Nat, OnlyTop(t, n), Len(stack[t]) = n,
           NEW o \in Objects, Walks(stack[t][n], o),
           \A p \in Objects : ~(Len(stack'[t]) = n /\ Walks(stack'[t][n], p)),
           Home[o] = t \/ Alive(o), SameOwners, UNCHANGED status,
           NEW list \in ListType, list.seq = lists[o].seq, list.inUse = lists[o].inUse,
           list.state = lists[o].state
               \/ (list.state = "orphaned" /\ list.seq = <<>> /\ ~Alive(o)),
           LastUse(o, list),
           holder' \in [Mutexes -> Threads \cup {Nobody}], KeepsMutexes(t),
           Len(stack'[t]) = n =>
               FrameOK(t, stack[t][n])' /\ \A m \in Locks(stack'[t][n]) : holder'[m] = t,
           \A p \in Objects : InDestructor(stack[t][n], p)
                                  => Len(stack'[t]) = n /\ InDestructor(stack'[t][n], p),
           NumbersOK'
    PROVE  CallInv'
<1>1. TypeOK /\ SendersSame /\ ListsOK
  BY DEF CallInv, SameOwners
<1>2. \A p \in Objects : Walks(stack[t][n], p) <=> p = o
  BY DEF Walks
<1>3. /\ Cardinality(Walkers(o)') = Cardinality(Walkers(o)) - 1 /\ Walkers(o) # {}
      /\ \A p \in Objects \ {o} : Walkers(p)' = Walkers(p)
  BY <1>1, <1>2, CountedWalkers
<1>4. Cardinality(Walkers(o)) # 0 /\ ListOK(o)
  BY <1>1, <1>3, WalkersFinite DEF ListsOK
<1>5. /\ lists' \in [Objects -> ListType] /\ ListOK(o)' /\ lists'[o].seq = lists[o].seq
      /\ \A p \in Objects \ {o} : lists'[p] = lists[p]
      /\ lists'[o].state = list.state \/ (list.state = "orphaned" /\ lists'[o].state = "deleted")
  BY <1>1, <1>3, <1>4, EndedList
<1>6. TypeOK'
  BY <1>1, <1>5, KeptType DEF TypeOK, SameOwners
<1>7. Keeps(t)
  <2>1. \A p \in Objects : Listed(p)' = Listed(p)
    BY <1>5 DEF Listed
  <2>2. ASSUME NEW p \in Objects, Home[p] # t, status[p] = "dying"
        PROVE  lists'[p].seq = lists[p].seq /\ lists'[p].state = lists[p].state
    <3>1. p # o
      BY <2>2 DEF Alive
    <3> QED
      BY <1>5, <3>1
  <2> QED
    BY <2>1, <2>2 DEF Keeps
<1>8. ASSUME NEW p \in Objects PROVE ListOK(p)'
  <2>1. CASE p = o
    BY <1>5, <2>1
  <2>2. CASE p # o
    <3>1. ListOK(p) /\ Listed(p) \subseteq Ids /\ Walkers(p)' = Walkers(p)
      BY <1>1, <1>3, <2>2, ListedFacts DEF ListsOK
    <3> QED
      BY <1>1, <1>5, <2>2, <3>1, KeptList
  <2> QED
    BY <2>1, <2>2
<1>9. PointersOK'
  BY DEF SameOwners
<1> QED
  BY <1>6, <1>7, <1>8, <1>9, CallStep

\* --inUse and return: an emission or a disconnect ends.
LEMMA EndReturn ==
    ASSUME CallInv, NEW t \in Threads, NEW o \in Objects, Calling(t), o = Top(t).obj,
           Top(t).kind \in {"emit", "disconnect"}, Top(t).pc # "lock",
           Home[o] = t \/ Alive(o), UNCHANGED <<conn, handles, head, node, status>>,
           NEW d \in BOOLEAN, lists' = [lists EXCEPT ![o] = Unused([@ EXCEPT !.dirty = d])],
           Release({o}), holder[Lock[o]] \in {Nobody, t}, Return(t)
    PROVE  CallInv'
<1>1. TypeOK /\ Suspended /\ NumbersOK
  BY DEF CallInv
<1>2. PICK n \in Nat : n = Len(stack[t])
  BY <1>1, TopFacts
<1>3. Ends(t, n) /\ stack[t][n] = Top(t)
  BY <1>1, <1>2, ReturnTop DEF Top
<1>4. OnlyTop(t, n) /\ Len(stack[t]) = n /\ Len(stack'[t]) # n
  BY <1>2, <1>3 DEF Ends
<1>5. SameOwners /\ SendersSame
  <2>1. handles' \subseteq Ids
    BY <1>1 DEF TypeOK
  <2> QED
    BY <2>1, UnchangedSame DEF SameOwners
<1>6. PICK list : list = [lists[o] EXCEPT !.dirty = d]
  OBVIOUS
<1>7. /\ list \in ListType /\ list.seq = lists[o].seq /\ list.inUse = lists[o].inUse
      /\ list.state = lists[o].state
  BY <1>1, <1>6, ListedFacts DEF ListType
<1>8. LastUse(o, list)
  BY <1>6 DEF LastUse
<1>9. holder' \in [Mutexes -> Threads \cup {Nobody}] /\ KeepsMutexes(t)
  <2>1. {o} \in SUBSET Objects /\ \A p \in {o} : holder[Lock[p]] \in {Nobody, t}
    OBVIOUS
  <2> QED
    BY <1>1, <2>1, ReleaseFacts
<1>10. NumbersOK'
  BY <1>1, <1>4, <1>5, KeptNumbers
<1>11. Walks(stack[t][n], o) /\ \A p \in Objects : ~InDestructor(stack[t][n], p)
  BY <1>3 DEF Walks, InDestructor
<1>12. /\ \A p \in Objects : ~(Len(stack'[t]) = n /\ Walks(stack'[t][n], p))
       /\ \A p \in Objects : InDestructor(stack[t][n], p)
                                  => Len(stack'[t]) = n /\ InDestructor(stack'[t][n], p)
       /\ Len(stack'[t]) = n =>
              FrameOK(t, stack[t][n])' /\ \A m \in Locks(stack'[t][n]) : holder'[m] = t
  BY <1>4, <1>11
<1>13. UNCHANGED status
  OBVIOUS
<1> QED
  BY <1>4, <1>5, <1>7, <1>8, <1>9, <1>10, <1>11, <1>12, <1>13, EndWalk

-----------------------------------------------------------------------------
\* Emissions.

\* activate returns,
LEMMA CallEmitLeave ==
    ASSUME CallInv, NEW t \in Threads, NEW pc, At(t, {"emit"}, pc), pc # "lock",
           EmitLeave(t), holder[Lock[Top(t).obj]] \in {Nobody, t},
           UNCHANGED <<conn, handles, head, node, status>>
    PROVE  CallInv'
<1>1. /\ TypeOK /\ Calling(t) /\ Top(t).kind = "emit" /\ Top(t).pc = pc /\ Top(t).obj \in Objects
      /\ Home[Top(t).obj] = t
  BY AtFacts DEF FrameOK, EmitOK
<1>2. PICK o \in Objects : o = Top(t).obj
  BY <1>1
<1>3. PICK d \in BOOLEAN : d = lists[o].dirty
  BY <1>1, ListedFacts DEF ListType
<1>4. lists[o] = [lists[o] EXCEPT !.dirty = d]
  BY <1>1, <1>3, ListedFacts DEF ListType
<1>5. lists' = [lists EXCEPT ![o] = Unused([@ EXCEPT !.dirty = d])]
  BY <1>2, <1>4 DEF EmitLeave
<1>6. Release({o}) /\ Return(t)
  BY <1>2 DEF EmitLeave
<1> QED
  BY <1>1, <1>2, <1>5, <1>6, EndReturn

\* or goes on with the next connection.
LEMMA CallEmitOn ==
    ASSUME CallInv, NEW t \in Threads, NEW pc, At(t, {"emit"}, pc), pc # "lock",
           Alive(Top(t).obj), EmitOn(t), Free(Top(t).obj) \/ holder[Lock[Top(t).obj]] = t,
           UNCHANGED <<conn, handles, head, node, status>>
    PROVE  CallInv'
<1>1. /\ TypeOK /\ Calling(t) /\ Top(t).kind = "emit" /\ Top(t).pc = pc /\ Top(t).obj \in Objects
      /\ Top(t) \in FrameType /\ EmitOK(t, Top(t))
  BY AtFacts DEF FrameOK
<1>2. CASE AtLast(Top(t))
  BY <1>2, CallEmitLeave DEF EmitOn, Free
<1>3. CASE ~AtLast(Top(t))
  <2>1. PICK o, c : o \in Objects /\ o = Top(t).obj /\ c = Following(lists[o].seq, Top(t).c)
    BY <1>1
  <2>2. PICK f : f = [Top(t) EXCEPT !.pc = "visit", !.other = Nobody, !.c = c]
    OBVIOUS
  <2>3. Replace(t, f) /\ Hold(t, o) /\ UNCHANGED lists /\ c # 0 /\ Top(t).c # Top(t).last
    BY <1>3, <2>1, <2>2 DEF EmitOn, AtLast
  <2>4. /\ Top(t).c \in Listed(o) /\ Top(t).last \in Listed(o) /\ Top(t).c \in Nat
        /\ Top(t).last \in Nat /\ Top(t).newest \in Nat
        /\ Top(t).c <= Top(t).last /\ Top(t).last <= Top(t).newest
    BY <1>1, <2>1 DEF EmitOK, FrameType
  <2>5. lists[o].seq \in Seq(Ids) /\ Increasing(lists[o].seq) /\ Listed(o) \subseteq Ids
    BY <1>1, <2>1, ListedFacts DEF CallInv, ListsOK, ListOK
  <2>6. c \in Listed(o) /\ c <= Top(t).last /\ c \in Ids /\ c \in Nat
    <3>1. c \in Elements(lists[o].seq) \cup {0}
      BY <2>1, <2>4, <2>5, FollowingFacts
    <3>2. c \in Listed(o) /\ c \in Ids
      BY <2>3, <2>5, <3>1 DEF Listed
    <3>3. Top(t).c < Top(t).last
      BY <2>3, <2>4
    <3>4. c <= Top(t).last
      BY <2>1, <2>4, <2>5, <3>3, FollowingFacts DEF Listed
    <3> QED
      BY <3>2, <3>4, IdsFinite
  <2>7. /\ f \in FrameType /\ f.kind = "emit" /\ f.obj = o /\ f.pc = "visit" /\ f.c = c
        /\ f.last = Top(t).last /\ f.newest = Top(t).newest
    BY <1>1, <2>1, <2>2, <2>6 DEF FrameType
  <2>8. FrameOK(t, f)
    BY <1>1, <2>1, <2>4, <2>6, <2>7 DEF FrameOK, EmitOK
  <2>9. /\ holder' \in [Mutexes -> Threads \cup {Nobody}] /\ KeepsMutexes(t)
        /\ holder'[Lock[o]] = t
    BY <1>1, <2>1, <2>3, HoldFacts
  <2>10. Locks(f) = {Lock[o]}
    BY <2>7 DEF Locks
  <2>11. SameLists /\ SameOwners
    BY <2>3, NothingChanged DEF listVars
  <2> QED
    BY <1>1, <2>1, <2>3, <2>7, <2>8, <2>9, <2>10, <2>11, QuietGo
<1> QED
  BY <1>2, <1>3

\* Queued keeps CallInv.
LEMMA CallQueued ==
    ASSUME CallInv, NEW t \in Threads, Queued(t)
    PROVE  CallInv'
<1>1. /\ At(t, {"emit"}, "copy") /\ Free(Top(t).obj) /\ EmitOn(t)
      /\ UNCHANGED <<conn, handles, head, node, status>>
  BY DEF Queued
<1>2. Alive(Top(t).obj)
  BY <1>1, AtFacts DEF FrameOK, EmitOK
<1> QED
  BY <1>1, <1>2, CallEmitOn

\* The sender of a suspended emission is there, or its list is an orphan.
LEMMA CallSlotReturns ==
    ASSUME CallInv, NEW t \in Threads, SlotReturns(t)
    PROVE  CallInv'
<1>1. /\ At(t, {"emit"}, "slot") /\ Free(Top(t).obj)
      /\ IF lists[Top(t).obj].state = "orphaned" THEN EmitLeave(t) ELSE EmitOn(t)
      /\ UNCHANGED <<conn, handles, head, node, status>>
  BY DEF SlotReturns
<1>2. /\ TypeOK /\ Calling(t) /\ Top(t).kind = "emit" /\ Top(t).pc = "slot" /\ Top(t).obj \in Objects
      /\ EmitOK(t, Top(t))
  BY <1>1, AtFacts DEF FrameOK
<1>3. CASE lists[Top(t).obj].state = "orphaned"
  BY <1>1, <1>3, CallEmitLeave DEF Free
<1>4. CASE lists[Top(t).obj].state # "orphaned"
  <2>1. PICK o \in Objects : o = Top(t).obj
    BY <1>2
  <2>2. Home[o] = t
    BY <1>2, <2>1 DEF EmitOK
  <2>3. status[o] # "dying"
    BY <1>2, <2>1, <2>2 DEF CallInv, DyingOK, Destroying
  <2>4. Walkers(o) # {}
    <3>1. Len(stack[t]) \in 1..Len(stack[t]) /\ Walks(stack[t][Len(stack[t])], o)
      BY <1>2, <2>1, TopFacts DEF Walks, Top
    <3> QED
      BY <1>2, <3>1, WalkersFacts
  <2>5. ListOK(o) /\ lists[o] \in ListType /\ Cardinality(Walkers(o)) # 0
    BY <1>2, <2>4, ListedFacts, WalkersFinite DEF CallInv, ListsOK
  <2>6. lists[o].state = "attached"
    BY <1>4, <2>1, <2>5 DEF ListOK, ListType
  <2>7. status[o] = "alive"
    BY <1>2, <2>3, <2>5, <2>6 DEF ListOK, TypeOK
  <2>8. Alive(Top(t).obj)
    BY <2>1, <2>7 DEF Alive
  <2> QED
    BY <1>1, <1>4, <2>8, CallEmitOn
<1> QED
  BY <1>3, <1>4

\* Visit keeps CallInv.
LEMMA CallVisit ==
    ASSUME CallInv, NEW t \in Threads, Visit(t)
    PROVE  CallInv'
<1>1. /\ At(t, {"emit"}, "visit") /\ UNCHANGED <<conn, handles, head, node, status>>
  BY DEF Visit
<1>2. /\ TypeOK /\ Calling(t) /\ Top(t).kind = "emit" /\ Top(t).pc = "visit" /\ Top(t).obj \in Objects
      /\ Top(t) \in FrameType /\ EmitOK(t, Top(t)) /\ \A m \in Locks(Top(t)) : holder[m] = t
  BY <1>1, AtFacts DEF FrameOK
<1>3. Alive(Top(t).obj) /\ holder[Lock[Top(t).obj]] = t
  BY <1>2 DEF EmitOK, Locks
<1>4. CASE ~Connected(Top(t).c)
  <2>1. EmitOn(t)
    BY <1>4 DEF Visit
  <2> QED
    BY <1>1, <1>3, <2>1, CallEmitOn
<1>5. CASE Connected(Top(t).c)
  <2>1. PICK o \in Objects : o = Top(t).obj
    BY <1>2
  <2>2. Top(t).c \in Ids
    BY <1>2, <1>3, <2>1, ListedFacts DEF EmitOK
  <2>3. PICK r \in Objects : r = conn[Top(t).c].receiver
    BY <1>2, <1>5, <2>2, ConnFacts
  <2>4. PICK f : f = [Top(t) EXCEPT !.other = r, !.pc = IF Home[r] = t THEN "slot" ELSE "copy"]
    OBVIOUS
  <2>5. Replace(t, f) /\ Release({o}) /\ UNCHANGED lists
    BY <1>5, <2>1, <2>3, <2>4 DEF Visit
  <2>6. /\ f \in FrameType /\ f.kind = "emit" /\ f.obj = o /\ f.pc \in {"slot", "copy"}
        /\ f.c = Top(t).c /\ f.last = Top(t).last /\ f.newest = Top(t).newest
    BY <1>2, <2>1, <2>4 DEF FrameType
  <2>7. FrameOK(t, f)
    BY <1>2, <1>3, <2>1, <2>6 DEF FrameOK, EmitOK
  <2>8. holder' \in [Mutexes -> Threads \cup {Nobody}] /\ KeepsMutexes(t)
    <3>1. {o} \in SUBSET Objects /\ \A p \in {o} : holder[Lock[p]] \in {Nobody, t}
      BY <1>3, <2>1
    <3> QED
      BY <1>2, <2>5, <3>1, ReleaseFacts
  <2>9. Locks(f) = {}
    BY <2>6 DEF Locks
  <2>10. SameLists /\ SameOwners
    BY <1>1, <2>5, NothingChanged DEF listVars
  <2> QED
    BY <1>1, <1>2, <2>1, <2>5, <2>6, <2>7, <2>8, <2>9, <2>10, QuietGo
<1> QED
  BY <1>4, <1>5

\* EmitBegin keeps CallInv.
LEMMA CallEmitBegin ==
    ASSUME CallInv, NEW t \in Threads, EmitBegin(t)
    PROVE  CallInv'
<1>1. /\ At(t, {"emit"}, "lock") /\ Free(Top(t).obj) /\ UNCHANGED <<conn, handles, head, node, status>>
  BY DEF EmitBegin
<1>2. /\ TypeOK /\ Calling(t) /\ Top(t).kind = "emit" /\ Top(t).pc = "lock" /\ Top(t).obj \in Objects
      /\ Top(t) \in FrameType /\ EmitOK(t, Top(t))
  BY <1>1, AtFacts DEF FrameOK
<1>3. PICK o, seq : o \in Objects /\ o = Top(t).obj /\ seq = lists[o].seq
  BY <1>2
<1>4. CASE seq = <<>>
  <2>1. Return(t) /\ UNCHANGED <<listVars, status, holder>>
    BY <1>1, <1>3, <1>4 DEF EmitBegin, listVars
  <2>2. At(t, {"emit", "disconnect"}, "lock")
    BY <1>1 DEF At
  <2> QED
    BY <2>1, <2>2, QuietReturn
<1>5. CASE seq # <<>>
  <2>1. PICK f : f = [Top(t) EXCEPT !.pc = "visit", !.c = Head(seq),
                                    !.last = seq[Len(seq)], !.newest = Newest]
    OBVIOUS
  <2>2. /\ lists' = [lists EXCEPT ![o].inUse = @ + 1] /\ Hold(t, o) /\ Replace(t, f) /\ Free(o)
    BY <1>1, <1>3, <1>5, <2>1 DEF EmitBegin
  <2>3. /\ seq \in Seq(Ids) /\ Increasing(seq) /\ Listed(o) \subseteq Made /\ Attached(o)
        /\ Listed(o) = Elements(seq)
    <3>1. ListOK(o) /\ seq \in Seq(Ids) /\ Listed(o) \subseteq Ids
      BY <1>2, <1>3, ListedFacts DEF CallInv, ListsOK
    <3>2. o # Nobody
      BY <1>3, ConnectionsAssumption
    <3>3. Listed(o) \subseteq Made
      BY <3>1, <3>2 DEF ListOK, Made
    <3> QED
      BY <1>3, <1>5, <3>1, <3>3 DEF ListOK, Attached, Listed
  <2>4. /\ Len(seq) \in Nat \ {0} /\ Len(seq) \in 1..Len(seq) /\ 1 \in 1..Len(seq) /\ Head(seq) = seq[1]
    BY <1>5, <2>3
  <2>5. /\ seq[1] \in Listed(o) /\ seq[Len(seq)] \in Listed(o)
        /\ seq[1] \in Ids /\ seq[Len(seq)] \in Ids /\ seq[1] <= seq[Len(seq)]
    <3>1. seq[1] \in Listed(o) /\ seq[Len(seq)] \in Listed(o) /\ seq[1] \in Ids /\ seq[Len(seq)] \in Ids
      BY <2>3, <2>4 DEF Elements
    <3>2. 1 = Len(seq) \/ 1 < Len(seq)
      <4>1. PICK k \in Nat \ {0} : k = Len(seq)
        BY <2>4
      <4>2. 1 = k \/ 1 < k
        OBVIOUS
      <4> QED
        BY <4>1, <4>2
    <3>3. seq[1] <= seq[Len(seq)]
      BY <2>3, <2>4, <3>1, <3>2, IdsFinite DEF Increasing
    <3> QED
      BY <3>1, <3>3
  <2>6. Newest \in Nat /\ seq[Len(seq)] <= Newest
    BY <2>3, <2>5, NewestType DEF CallInv, NumbersOK
  <2>7. /\ f \in FrameType /\ f.kind = "emit" /\ f.obj = o /\ f.pc = "visit" /\ f.c = seq[1]
        /\ f.last = seq[Len(seq)] /\ f.newest = Newest
    BY <1>2, <1>3, <2>1, <2>4, <2>5, <2>6, IdsFinite DEF FrameType
  <2>8. FrameOK(t, f)
    BY <1>2, <1>3, <2>5, <2>6, <2>7 DEF FrameOK, EmitOK
  <2>9. At(t, {"emit", "disconnect", "receivers"}, "lock")
    BY <1>1 DEF At
  <2> QED
    BY <1>1, <1>2, <1>3, <2>2, <2>3, <2>7, <2>8, <2>9, BeginWalk
<1> QED
  BY <1>4, <1>5
-----------------------------------------------------------------------------
\* Disconnects.

\* The next connection of a list is in it, or there is none.
LEMMA NextListed ==
    ASSUME TypeOK, NEW o \in Objects, ListOK(o), NEW c \in Listed(o)
    PROVE  Following(lists[o].seq, c) \in Listed(o) \cup {0} /\ Following(lists[o].seq, c) \in Nat
<1>1. lists[o].seq \in Seq(Ids) /\ Increasing(lists[o].seq) /\ c \in Ids /\ Listed(o) \subseteq Ids
  BY ListedFacts DEF ListOK
<1>2. Following(lists[o].seq, c) \in Elements(lists[o].seq) \cup {0}
  BY <1>1, IdsFinite, FollowingFacts
<1> QED
  BY <1>1, <1>2, IdsFinite DEF Listed

\* After "both": with or without the mutex of the object.
LEMMA ResumeFacts ==
    ASSUME CallInv, NEW t \in Threads, At(t, Relocking, "both"), NEW f \in FrameType,
           f.obj = Top(t).obj, f.peer = Top(t).peer, f.kind = Top(t).kind,
           NEW functor, Resume(t, f, functor)
    PROVE  \E g \in FrameType :
               /\ Replace(t, g) /\ g.kind = f.kind /\ g.obj = f.obj /\ g.other = f.other
               /\ g.c = f.c /\ g.last = f.last /\ g.newest = f.newest
               /\ IF functor THEN g.pc = "functor" ELSE g.pc = "walk"
               /\ holder' \in [Mutexes -> Threads \cup {Nobody}] /\ KeepsMutexes(t)
               /\ \A m \in Locks(g) : holder'[m] = t
<1>1. /\ TypeOK /\ Calling(t) /\ Top(t).kind \in Relocking /\ Top(t).pc = "both"
      /\ Top(t).obj \in Objects /\ FrameOK(t, Top(t)) /\ \A m \in Locks(Top(t)) : holder[m] = t
  BY AtFacts
<1>2. PICK o \in Objects, p \in Objects : o = f.obj /\ p = f.peer
  BY <1>1 DEF FrameOK, DisconnectOK, ReceiversOK, SendersOK, Relocking, RelockPcs
<1>3. /\ holder[Lock[o]] = t /\ holder[Lock[p]] = t
      /\ Lock[o] \in Mutexes /\ Lock[p] \in Mutexes
  <2>1. Locks(Top(t)) = {Lock[o], Lock[p]}
    BY <1>1, <1>2 DEF Locks, Relocking
  <2> QED
    BY <1>1, <2>1 DEF Mutexes
<1>4. CASE functor
  <2>1. PICK g : g = [f EXCEPT !.pc = "functor"]
    OBVIOUS
  <2>2. /\ g \in FrameType /\ g.kind = f.kind /\ g.obj = f.obj /\ g.other = f.other
        /\ g.c = f.c /\ g.last = f.last /\ g.newest = f.newest /\ g.pc = "functor"
    BY <2>1 DEF FrameType
  <2>3. Replace(t, g) /\ Release({o, p})
    BY <1>2, <1>4, <2>1 DEF Resume
  <2>4. holder' \in [Mutexes -> Threads \cup {Nobody}] /\ KeepsMutexes(t)
    <3>1. {o, p} \in SUBSET Objects /\ \A q \in {o, p} : holder[Lock[q]] \in {Nobody, t}
      BY <1>3
    <3> QED
      BY <1>1, <2>3, <3>1, ReleaseFacts
  <2>5. Locks(g) = {}
    BY <1>1, <2>2 DEF Locks, Relocking
  <2> QED
    BY <1>4, <2>2, <2>3, <2>4, <2>5
<1>5. CASE ~functor
  <2>1. PICK g : g = [f EXCEPT !.pc = "walk", !.peer = Nobody]
    OBVIOUS
  <2>2. /\ g \in FrameType /\ g.kind = f.kind /\ g.obj = f.obj /\ g.other = f.other
        /\ g.c = f.c /\ g.last = f.last /\ g.newest = f.newest /\ g.pc = "walk"
    BY <2>1 DEF FrameType
  <2>3. /\ Replace(t, g)
        /\ IF Lock[p] = Lock[o] THEN UNCHANGED holder ELSE Release({p})
    BY <1>2, <1>5, <2>1 DEF Resume
  <2>4. /\ holder' \in [Mutexes -> Threads \cup {Nobody}] /\ KeepsMutexes(t)
        /\ holder'[Lock[o]] = t
    <3>1. CASE Lock[p] = Lock[o]
      BY <1>1, <1>3, <2>3, <3>1 DEF TypeOK, KeepsMutexes
    <3>2. CASE Lock[p] # Lock[o]
      <4>1. {p} \in SUBSET Objects /\ \A q \in {p} : holder[Lock[q]] \in {Nobody, t}
        BY <1>3
      <4>2. \A q \in {p} : Lock[q] # Lock[o]
        BY <3>2
      <4> QED
        BY <1>1, <1>3, <2>3, <3>2, <4>1, <4>2, ReleaseFacts
    <3> QED
      BY <3>1, <3>2
  <2>5. Locks(g) = {Lock[o]}
    BY <1>1, <1>2, <2>2 DEF Locks, Relocking
  <2> QED
    BY <1>5, <2>2, <2>3, <2>4, <2>5
<1> QED
  BY <1>4, <1>5

\* DisconnectBegin keeps CallInv.
LEMMA CallDisconnectBegin ==
    ASSUME CallInv, NEW t \in Threads, DisconnectBegin(t)
    PROVE  CallInv'
<1>1. /\ At(t, {"disconnect"}, "lock") /\ Free(Top(t).obj)
      /\ UNCHANGED <<conn, handles, head, node, status>>
  BY DEF DisconnectBegin
<1>2. /\ TypeOK /\ Calling(t) /\ Top(t).kind = "disconnect" /\ Top(t).pc = "lock"
      /\ Top(t).obj \in Objects /\ Top(t) \in FrameType /\ DisconnectOK(t, Top(t))
  BY <1>1, AtFacts DEF FrameOK
<1>3. PICK o \in Objects : o = Top(t).obj
  BY <1>2
<1>4. CASE ~Attached(o)
  <2>1. Return(t) /\ UNCHANGED <<listVars, status, holder>>
    BY <1>1, <1>3, <1>4 DEF DisconnectBegin, listVars
  <2>2. At(t, {"emit", "disconnect"}, "lock")
    BY <1>1 DEF At
  <2> QED
    BY <2>1, <2>2, QuietReturn
<1>5. CASE Attached(o)
  <2>1. PICK c : c = First(lists[o].seq)
    OBVIOUS
  <2>2. PICK f : f = [Top(t) EXCEPT !.pc = "walk", !.c = c]
    OBVIOUS
  <2>3. /\ lists' = [lists EXCEPT ![o].inUse = @ + 1] /\ Hold(t, o) /\ Replace(t, f) /\ Free(o)
    BY <1>1, <1>3, <1>5, <2>1, <2>2 DEF DisconnectBegin
  <2>4. c \in Listed(o) \cup {0} /\ c \in Nat
    BY <1>2, <2>1, FirstFacts, ListedFacts, IdsFinite DEF Listed
  <2>5. /\ f \in FrameType /\ f.kind = "disconnect" /\ f.obj = o /\ f.other = Top(t).other
        /\ f.pc = "walk" /\ f.c = c
    BY <1>2, <1>3, <2>2, <2>4 DEF FrameType
  <2>6. FrameOK(t, f)
    BY <1>2, <1>3, <2>4, <2>5 DEF FrameOK, DisconnectOK, RelockPcs
  <2>7. At(t, {"emit", "disconnect", "receivers"}, "lock")
    BY <1>1 DEF At
  <2> QED
    BY <1>1, <1>2, <1>3, <1>5, <2>3, <2>5, <2>6, <2>7, BeginWalk
<1> QED
  BY <1>4, <1>5

\* DisconnectWalk keeps CallInv.
LEMMA CallDisconnectWalk ==
    ASSUME CallInv, NEW t \in Threads, DisconnectWalk(t)
    PROVE  CallInv'
<1>1. At(t, {"disconnect"}, "walk") /\ UNCHANGED <<conn, handles, head, node, status>>
  BY DEF DisconnectWalk
<1>2. /\ TypeOK /\ Calling(t) /\ Top(t).kind = "disconnect" /\ Top(t).pc = "walk"
      /\ Top(t).obj \in Objects /\ Top(t) \in FrameType /\ FrameOK(t, Top(t))
      /\ DisconnectOK(t, Top(t)) /\ \A m \in Locks(Top(t)) : holder[m] = t
  BY <1>1, AtFacts DEF FrameOK
<1>3. PICK o \in Objects, f \in FrameType : o = Top(t).obj /\ f = Top(t)
  BY <1>2
<1>4. Alive(o) /\ holder[Lock[o]] = t /\ f.c \in Listed(o) \cup {0}
  BY <1>2, <1>3 DEF DisconnectOK, Locks
<1>5. CASE f.c = 0
  <2>1. lists[o].dirty \in BOOLEAN /\ lists[o] = [lists[o] EXCEPT !.dirty = lists[o].dirty]
    BY <1>2, ListedFacts DEF ListType
  <2>2. PICK d \in BOOLEAN : lists' = [lists EXCEPT ![o] = Unused([@ EXCEPT !.dirty = d])]
    <3>1. lists' = [lists EXCEPT
              ![o] = Unused(IF f.last = 0 THEN @ ELSE [@ EXCEPT !.dirty = TRUE])]
      BY <1>3, <1>5 DEF DisconnectWalk
    <3>2. CASE f.last = 0
      BY <2>1, <3>1, <3>2
    <3>3. CASE f.last # 0
      BY <3>1, <3>3
    <3> QED
      BY <3>2, <3>3
  <2>3. Release({o}) /\ Return(t)
    BY <1>3, <1>5 DEF DisconnectWalk
  <2> QED
    BY <1>1, <1>2, <1>3, <1>4, <2>2, <2>3, EndReturn
<1>6. CASE f.c # 0 /\ Connected(f.c) /\ f.other \in {Nobody, conn[f.c].receiver}
  <2>1. f.c \in Ids
    BY <1>2, <1>4, <1>6, ListedFacts
  <2>2. PICK r \in Objects : r = conn[f.c].receiver
    BY <1>2, <1>6, <2>1, ConnFacts
  <2>3. Relock(t, f, r) /\ UNCHANGED lists
    BY <1>3, <1>6, <2>2 DEF DisconnectWalk
  <2>4. SameLists /\ SameOwners
    BY <1>1, <2>3, NothingChanged DEF listVars
  <2>5. At(t, Relocking, "walk")
    BY <1>1 DEF At, Relocking
  <2> QED
    BY <1>1, <1>2, <1>3, <1>6, <2>3, <2>4, <2>5, CallRelock
<1>7. CASE f.c # 0 /\ ~(Connected(f.c) /\ f.other \in {Nobody, conn[f.c].receiver})
  <2>1. PICK c : c = Following(lists[o].seq, f.c)
    OBVIOUS
  <2>2. PICK g : g = [f EXCEPT !.c = c]
    OBVIOUS
  <2>3. Replace(t, g) /\ UNCHANGED holder /\ UNCHANGED lists
    BY <1>3, <1>7, <2>1, <2>2 DEF DisconnectWalk, DisconnectOn
  <2>4. c \in Listed(o) \cup {0} /\ c \in Nat
    BY <1>2, <1>4, <1>7, <2>1, NextListed DEF CallInv, ListsOK
  <2>5. /\ g \in FrameType /\ g.kind = "disconnect" /\ g.obj = o /\ g.other = f.other
        /\ g.pc = "walk" /\ g.c = c
    BY <1>2, <1>3, <2>2, <2>4 DEF FrameType
  <2>6. FrameOK(t, g)
    BY <1>2, <1>3, <2>4, <2>5 DEF FrameOK, DisconnectOK, RelockPcs
  <2>7. Locks(g) = {Lock[o]}
    BY <2>5 DEF Locks
  <2>8. /\ holder' \in [Mutexes -> Threads \cup {Nobody}] /\ KeepsMutexes(t)
        /\ holder'[Lock[o]] = t
    BY <1>2, <1>4, <2>3 DEF TypeOK, KeepsMutexes
  <2>9. SameLists /\ SameOwners
    BY <1>1, <2>3, NothingChanged DEF listVars
  <2> QED
    BY <1>1, <1>2, <1>3, <2>3, <2>5, <2>6, <2>7, <2>8, <2>9, QuietGo
<1> QED
  BY <1>5, <1>6, <1>7

\* Disconnecting, with or without dropping a reference, keeps the pointers right.
LEMMA DisconnectOwners ==
    ASSUME CallInv, NEW c \in Ids, UNCHANGED handles, NEW e,
           conn' \in {Disconnected(c), Deref(Disconnected(c), e)}, SetPreviousIfConnected(c)
    PROVE  SameOwners
<1>1. TypeOK /\ PointersOK /\ handles' \subseteq Ids
  BY DEF CallInv, TypeOK
<1>2. Disconnected(c) \in [Ids -> ConnectionType]
  BY <1>1, DisconnectedFacts
<1>3. CASE Connected(c)
  <2>1. Alike(Disconnected(c), Unlinked(c)) /\ SetPrevious(c)
    BY <1>1, <1>3, DisconnectedFacts DEF SetPreviousIfConnected
  <2>2. conn' \in [Ids -> ConnectionType] /\ LinkedAs(Unlinked(c))
    BY <1>2, <2>1, DerefLinked
  <2>3. SendersSame /\ PointersOK'
    BY <1>1, <2>1, <2>2, UnlinkedPointers
  <2> QED
    BY <1>1, <2>1, <2>2, <2>3, SetPreviousFacts DEF SameOwners
<1>4. CASE ~Connected(c)
  <2>1. Alike(Disconnected(c), conn) /\ UNCHANGED <<head, node>>
    BY <1>1, <1>4, DisconnectedFacts DEF SetPreviousIfConnected
  <2>2. conn' \in [Ids -> ConnectionType] /\ LinkedAs(conn)
    BY <1>2, <2>1, DerefLinked
  <2>3. SendersSame /\ PointersOK'
    BY <1>1, <2>1, <2>2, LinkedPointers
  <2> QED
    BY <1>1, <2>1, <2>2, <2>3 DEF SameOwners, TypeOK
<1> QED
  BY <1>3, <1>4

\* DisconnectBoth keeps CallInv.
LEMMA CallDisconnectBoth ==
    ASSUME CallInv, NEW t \in Threads, DisconnectBoth(t)
    PROVE  CallInv'
<1>1. At(t, {"disconnect"}, "both") /\ UNCHANGED <<handles, lists, status>>
  BY DEF DisconnectBoth
<1>2. /\ TypeOK /\ Calling(t) /\ Top(t).kind = "disconnect" /\ Top(t).pc = "both"
      /\ Top(t).obj \in Objects /\ Top(t) \in FrameType /\ DisconnectOK(t, Top(t))
  BY <1>1, AtFacts DEF FrameOK
<1>3. PICK o, c, functor :
          /\ o \in Objects
          /\ o = Top(t).obj /\ c = Top(t).c /\ functor = conn[c].functor
  BY <1>2
<1>4. Alive(o) /\ c \in Listed(o) /\ c \in Ids /\ c \in Nat
  BY <1>2, <1>3, ListedFacts, IdsFinite DEF DisconnectOK, RelockPcs
<1>5. PICK f : f = [Top(t) EXCEPT !.last = c]
  OBVIOUS
<1>6. /\ f \in FrameType /\ f.kind = "disconnect" /\ f.obj = o /\ f.other = Top(t).other
      /\ f.peer = Top(t).peer /\ f.c = c
  BY <1>2, <1>3, <1>4, <1>5 DEF FrameType
<1>7. /\ conn' = Disconnected(c) /\ SetPreviousIfConnected(c)
      /\ Resume(t, IF functor THEN f ELSE DisconnectOn(f), functor)
  BY <1>3, <1>5, <1>6 DEF DisconnectBoth
<1>8. PICK g \in FrameType :
          /\ g.kind = "disconnect" /\ g.obj = o /\ g.other = Top(t).other
          /\ g.peer = Top(t).peer /\ g.c \in Listed(o) \cup {0} /\ Resume(t, g, functor)
  <2>1. CASE functor
    BY <1>4, <1>6, <1>7, <2>1
  <2>2. CASE ~functor
    <3>1. PICK e : e = Following(lists[o].seq, c)
      OBVIOUS
    <3>2. e \in Listed(o) \cup {0} /\ e \in Nat
      BY <1>2, <1>3, <1>4, <3>1, NextListed DEF CallInv, ListsOK
    <3>3. PICK g : g = [f EXCEPT !.c = e]
      OBVIOUS
    <3>4. g = DisconnectOn(f)
      BY <1>6, <3>1, <3>3 DEF DisconnectOn
    <3>5. /\ g \in FrameType /\ g.kind = "disconnect" /\ g.obj = o /\ g.other = Top(t).other
          /\ g.peer = Top(t).peer /\ g.c = e
      BY <1>6, <3>2, <3>3 DEF FrameType
    <3> QED
      BY <1>7, <2>2, <3>2, <3>4, <3>5
  <2> QED
    BY <2>1, <2>2
<1>9. At(t, Relocking, "both")
  BY <1>1 DEF At, Relocking
<1>10. PICK h \in FrameType :
           /\ Replace(t, h) /\ h.kind = g.kind /\ h.obj = g.obj /\ h.other = g.other /\ h.c = g.c
           /\ IF functor THEN h.pc = "functor" ELSE h.pc = "walk"
           /\ holder' \in [Mutexes -> Threads \cup {Nobody}] /\ KeepsMutexes(t)
           /\ \A m \in Locks(h) : holder'[m] = t
  BY <1>2, <1>3, <1>8, <1>9, ResumeFacts
<1>11. h.pc \in {"functor", "walk"}
  BY <1>10
<1>12. FrameOK(t, h)
  BY <1>2, <1>3, <1>8, <1>10, <1>11 DEF FrameOK, DisconnectOK, RelockPcs
<1>13. SameLists /\ SameOwners
  BY <1>1, <1>4, <1>7, UnchangedSame, DisconnectOwners
<1> QED
  BY <1>1, <1>2, <1>3, <1>8, <1>10, <1>11, <1>12, <1>13, QuietGo

\* DisconnectFunctor keeps CallInv.
LEMMA CallDisconnectFunctor ==
    ASSUME CallInv, NEW t \in Threads, DisconnectFunctor(t)
    PROVE  CallInv'
<1>1. /\ At(t, {"disconnect"}, "functor") /\ Free(Top(t).obj) /\ Hold(t, Top(t).obj)
      /\ Replace(t, [DisconnectOn(Top(t)) EXCEPT !.pc = "walk", !.peer = Nobody])
      /\ UNCHANGED <<listVars, status>>
  BY DEF DisconnectFunctor
<1>2. /\ TypeOK /\ Calling(t) /\ Top(t).kind = "disconnect" /\ Top(t).pc = "functor"
      /\ Top(t).obj \in Objects /\ Top(t) \in FrameType /\ DisconnectOK(t, Top(t))
  BY <1>1, AtFacts DEF FrameOK
<1>3. PICK o, c : o \in Objects /\ o = Top(t).obj /\ c = Following(lists[o].seq, Top(t).c)
  BY <1>2
<1>4. c \in Listed(o) \cup {0} /\ c \in Nat
  <2>1. Top(t).c \in Listed(o) \cup {0}
    BY <1>2, <1>3 DEF DisconnectOK
  <2>2. CASE Top(t).c = 0
    <3>1. lists[o].seq \in Seq(Ids) /\ Increasing(lists[o].seq)
      BY <1>2, <1>3, ListedFacts DEF CallInv, ListsOK, ListOK
    <3>2. 0 \notin Elements(lists[o].seq) /\ Elements(lists[o].seq) \subseteq Ids
      BY <3>1, FirstFacts, IdsFinite
    <3> QED
      BY <1>3, <2>2, <3>1, <3>2, FollowingFacts, IdsFinite
  <2>3. CASE Top(t).c # 0
    BY <1>2, <1>3, <2>1, <2>3, NextListed DEF CallInv, ListsOK
  <2> QED
    BY <2>2, <2>3
<1>5. PICK f : f = [Top(t) EXCEPT !.c = c, !.pc = "walk", !.peer = Nobody]
  OBVIOUS
<1>6. /\ f \in FrameType /\ f.kind = "disconnect" /\ f.obj = o /\ f.other = Top(t).other
      /\ f.pc = "walk" /\ f.c = c
  BY <1>2, <1>3, <1>4, <1>5 DEF FrameType
<1>7. Replace(t, f)
  <2>1. f = [DisconnectOn(Top(t)) EXCEPT !.pc = "walk", !.peer = Nobody]
    BY <1>2, <1>3, <1>5 DEF DisconnectOn, FrameType
  <2> QED
    BY <1>1, <2>1
<1>8. FrameOK(t, f)
  BY <1>2, <1>3, <1>4, <1>6 DEF FrameOK, DisconnectOK, RelockPcs
<1>9. Locks(f) \subseteq {Lock[o]} \cup Locks(Top(t)) /\ At(t, Relocking, "functor")
  BY <1>1, <1>6 DEF Locks, At, Relocking
<1> QED
  BY <1>1, <1>2, <1>3, <1>6, <1>7, <1>8, <1>9, NothingChanged, CallHold
-----------------------------------------------------------------------------
\* A connection is made.

\* The disconnected ones that addConnection takes out of the list.
Taken(s) == IF Cleans(lists[s]) THEN {d \in Listed(s) : ~Connected(d)} ELSE {}

\* addConnection: what becomes of every connection.
LEMMA AddedConnections ==
    ASSUME CallInv, NEW t \in Threads, AddConnection(t),
           NEW s, NEW r, s = Top(t).obj, r = Top(t).other
    PROVE  LET c == Newest + 1 IN
           /\ s \in Objects /\ r \in Objects /\ Alive(s) /\ Alive(r)
           /\ c \in Ids /\ c \notin Made /\ \A d \in Made : d < c
           /\ conn' \in [Ids -> ConnectionType]
           /\ conn'[c].sender = s /\ conn'[c].receiver = r
           /\ conn'[c].next = head[r] /\ conn'[c].prev = HeadOf(r)
           /\ conn'[c].ref = IF Kept(s, r) THEN 2 ELSE 1
           /\ \A d \in Ids \ {c} :
                 /\ conn'[d].sender = conn[d].sender /\ conn'[d].receiver = conn[d].receiver
                 /\ conn'[d].next = conn[d].next
                 /\ conn'[d].prev = IF d = head[r] THEN NextOf(c) ELSE conn[d].prev
                 /\ conn'[d].ref = IF d \in Taken(s) THEN conn[d].ref - 1 ELSE conn[d].ref
<1>1. At(t, {"connect"}, "second")
  BY DEF AddConnection
<1>2. /\ TypeOK /\ Suspended /\ NumbersOK /\ Calling(t) /\ Top(t).kind = "connect"
      /\ Top(t) \in FrameType /\ s \in Objects /\ r \in Objects /\ Alive(s) /\ Alive(r)
  BY <1>1, AtFacts DEF FrameOK, ConnectOK, CallInv
<1>3. PICK c : c = Newest + 1
  OBVIOUS
<1>4. c \in Ids /\ c \notin Made /\ \A d \in Made : d < c
  <2>1. t \in Making
    <3>1. PICK k \in 1..Len(stack[t]) : stack[t][k].kind = "connect"
      <4>1. Len(stack[t]) \in 1..Len(stack[t])
        BY <1>2, TopFacts
      <4> QED
        BY <1>2, <4>1 DEF Top
    <3> QED
      BY <3>1 DEF Making
  <2>2. IsFiniteSet(Making) /\ Cardinality(Making) \in Nat \ {0}
    <3>1. Making \in SUBSET Threads /\ IsFiniteSet(Threads)
      BY ConnectionsAssumption DEF Making
    <3>2. IsFiniteSet(Making)
      BY <3>1, FS_Subset
    <3> QED
      BY <2>1, <3>2, FS_CardinalityType, FS_EmptySet
  <2>3. Newest \in Nat /\ Made = 1..Newest
    BY <1>2, NewestType DEF NumbersOK
  <2> QED
    BY <1>2, <1>3, <2>2, <2>3, IdsFinite DEF NumbersOK
<1> DEFINE fn == Top(t).c = 1
           ref0 == IF Kept(s, r) THEN 2 ELSE 1
           broken == {lists[s].seq[k] : k \in {j \in 1..Len(lists[s].seq) :
                                                  ~Connected(lists[s].seq[j])}}
           new == [sender |-> s, receiver |-> r, functor |-> fn,
                   ref |-> ref0, next |-> head[r], prev |-> HeadOf(r)]
           old(d) == [conn[d] EXCEPT
                         !.prev = IF d = head[r] THEN NextOf(c) ELSE @,
                         !.ref = IF Cleans(lists[s]) /\ d \in broken THEN @ - 1 ELSE @]
<1>5. conn' = [d \in Ids |-> IF d = c THEN new ELSE old(d)]
  BY <1>3, Zenon DEF AddConnection
<1>6. \A d : Cleans(lists[s]) /\ d \in broken <=> d \in Taken(s)
  BY DEF Taken, Listed, Elements
<1>7. fn \in BOOLEAN /\ ref0 \in Int /\ HeadOf(r) \in PointerType /\ head[r] \in Ids \cup {0}
  BY <1>2 DEF PointerType, TypeOK
<1>8. /\ new \in ConnectionType /\ new.sender = s /\ new.receiver = r /\ new.ref = ref0
      /\ new.next = head[r] /\ new.prev = HeadOf(r)
  <2> HIDE DEF fn, ref0
  <2> QED
    BY <1>2, <1>7 DEF ConnectionType
<1>9. ASSUME NEW d \in Ids
      PROVE  /\ old(d) \in ConnectionType
             /\ old(d).sender = conn[d].sender /\ old(d).receiver = conn[d].receiver
             /\ old(d).next = conn[d].next
             /\ old(d).prev = IF d = head[r] THEN NextOf(c) ELSE conn[d].prev
             /\ old(d).ref = IF d \in Taken(s) THEN conn[d].ref - 1 ELSE conn[d].ref
  <2> DEFINE a == IF d = head[r] THEN NextOf(c) ELSE conn[d].prev
             b == IF d \in Taken(s) THEN conn[d].ref - 1 ELSE conn[d].ref
  <2>1. conn[d] \in ConnectionType
    BY <1>2, ConnFacts
  <2>2. a \in PointerType /\ b \in Int
    BY <1>4, <2>1 DEF ConnectionType, PointerType
  <2>3. old(d) = [conn[d] EXCEPT !.prev = a, !.ref = b]
    <3> HIDE DEF broken
    <3>1. CASE d \in Taken(s)
      BY <1>6, <3>1
    <3>2. CASE d \notin Taken(s)
      BY <1>6, <3>2
    <3> QED
      BY <3>1, <3>2
  <2> HIDE DEF old, a, b
  <2>4. /\ old(d) \in ConnectionType
        /\ old(d).sender = conn[d].sender /\ old(d).receiver = conn[d].receiver
        /\ old(d).next = conn[d].next /\ old(d).prev = a /\ old(d).ref = b
    BY <2>1, <2>2, <2>3 DEF ConnectionType
  <2> QED
    BY <2>4 DEF a, b
<1> HIDE DEF new, old, fn, broken
<1>10. conn' \in [Ids -> ConnectionType] /\ conn'[c] = new
       /\ \A d \in Ids \ {c} : conn'[d] = old(d)
  BY <1>4, <1>5, <1>8, <1>9
<1> QED
  BY <1>2, <1>3, <1>4, <1>8, <1>9, <1>10
\* What becomes of the list of s when c is added.
Added(s, c) ==
    LET seq == Append(lists[s].seq, c)
        broken == {lists[s].seq[k] : k \in {j \in 1..Len(lists[s].seq) :
                                               ~Connected(lists[s].seq[j])}}
    IN lists' = [lists EXCEPT ![s] =
           IF Cleans(lists[s])
           THEN [@ EXCEPT !.seq = Without(seq, broken), !.dirty = FALSE, !.state = "attached"]
           ELSE [@ EXCEPT !.seq = seq, !.state = "attached"]]

\* addConnection: what becomes of every list.
LEMMA AddedLists ==
    ASSUME CallInv, NEW t \in Threads, AddConnection(t),
           NEW s, NEW r, s = Top(t).obj, r = Top(t).other
    PROVE  LET c == Newest + 1 IN
           /\ lists' \in [Objects -> ListType] /\ \A o \in Objects \ {s} : lists'[o] = lists[o]
           /\ Increasing(lists'[s].seq) /\ Listed(s)' = (Listed(s) \cup {c}) \ Taken(s)
           /\ lists'[s].inUse = lists[s].inUse /\ lists'[s].state = "attached"
           /\ c \notin Listed(s) /\ c \notin Taken(s)
<1>1. PICK c : c = Newest + 1
  OBVIOUS
<1>2. s \in Objects /\ Alive(s) /\ c \in Ids /\ c \notin Made /\ \A d \in Made : d < c
  BY <1>1, AddedConnections
<1>3. TypeOK /\ ListOK(s) /\ s # Nobody
  BY <1>2, ConnectionsAssumption DEF CallInv, ListsOK
<1>4. lists[s] \in ListType /\ lists[s].seq \in Seq(Ids) /\ Listed(s) \subseteq Ids
  BY <1>2, <1>3, ListedFacts
<1>5. Listed(s) \subseteq Made /\ Increasing(lists[s].seq)
  BY <1>2, <1>3, <1>4 DEF ListOK, Made
<1> DEFINE seq == Append(lists[s].seq, c)
           broken == {lists[s].seq[k] : k \in {j \in 1..Len(lists[s].seq) :
                                                  ~Connected(lists[s].seq[j])}}
           left == Without(seq, broken)
<1>6. seq \in Seq(Ids) /\ Increasing(seq) /\ Elements(seq) = Listed(s) \cup {c}
  <2>1. \A e \in Elements(lists[s].seq) : e < c
    BY <1>2, <1>5 DEF Listed
  <2> QED
    BY <1>2, <1>4, <1>5, <2>1, AppendFacts DEF Listed
<1>7. left \in Seq(Ids) /\ Increasing(left) /\ Elements(left) = (Listed(s) \cup {c}) \ broken
  <2> HIDE DEF seq, broken
  <2> QED
    BY <1>6, WithoutFacts
<1>8. broken = {d \in Listed(s) : ~Connected(d)}
  BY DEF Listed, Elements
<1>9. lists' = [lists EXCEPT ![s] =
          IF Cleans(lists[s])
          THEN [@ EXCEPT !.seq = left, !.dirty = FALSE, !.state = "attached"]
          ELSE [@ EXCEPT !.seq = seq, !.state = "attached"]]
  <2>1. Added(Top(t).obj, Newest + 1)
    BY Zenon DEF AddConnection, Added
  <2>2. Added(s, c)
    BY <1>1, <2>1
  <2> QED
    BY <2>2 DEF Added
<1>10. lists \in [Objects -> ListType]
  BY <1>3 DEF TypeOK
<1> HIDE DEF seq, broken, left
<1>11. CASE Cleans(lists[s])
  <2>1. PICK list : list = [lists[s] EXCEPT !.seq = left, !.dirty = FALSE, !.state = "attached"]
    OBVIOUS
  <2>2. /\ list \in ListType /\ list.seq = left /\ list.inUse = lists[s].inUse
        /\ list.state = "attached"
    BY <1>4, <1>7, <2>1 DEF ListType
  <2>3. lists' = [lists EXCEPT ![s] = list]
    BY <1>9, <1>11, <2>1
  <2>4. /\ lists' \in [Objects -> ListType] /\ lists'[s] = list
        /\ \A o \in Objects \ {s} : lists'[o] = lists[o]
    BY <1>2, <1>10, <2>2, <2>3
  <2>5. Taken(s) = broken
    BY <1>8, <1>11 DEF Taken
  <2>6. Listed(s)' = (Listed(s) \cup {c}) \ Taken(s) /\ c \notin Listed(s) /\ c \notin Taken(s)
    BY <1>2, <1>5, <1>7, <1>8, <2>2, <2>4, <2>5 DEF Listed
  <2>7. Increasing(lists'[s].seq)
    BY <1>7, <2>2, <2>4
  <2> QED
    BY <1>1, <2>2, <2>4, <2>6, <2>7
<1>12. CASE ~Cleans(lists[s])
  <2>1. PICK list : list = [lists[s] EXCEPT !.seq = seq, !.state = "attached"]
    OBVIOUS
  <2>2. /\ list \in ListType /\ list.seq = seq /\ list.inUse = lists[s].inUse
        /\ list.state = "attached"
    BY <1>4, <1>6, <2>1 DEF ListType
  <2>3. lists' = [lists EXCEPT ![s] = list]
    BY <1>9, <1>12, <2>1
  <2>4. /\ lists' \in [Objects -> ListType] /\ lists'[s] = list
        /\ \A o \in Objects \ {s} : lists'[o] = lists[o]
    BY <1>2, <1>10, <2>2, <2>3
  <2>5. Taken(s) = {}
    BY <1>12 DEF Taken
  <2>6. Listed(s)' = (Listed(s) \cup {c}) \ Taken(s) /\ c \notin Listed(s) /\ c \notin Taken(s)
    BY <1>2, <1>5, <1>6, <2>2, <2>4, <2>5 DEF Listed
  <2>7. Increasing(lists'[s].seq)
    BY <1>6, <2>2, <2>4
  <2> QED
    BY <1>1, <2>2, <2>4, <2>6, <2>7
<1> QED
  BY <1>11, <1>12

\* addConnection: the new connection is the newest.
LEMMA AddedMade ==
    ASSUME CallInv, NEW t \in Threads, AddConnection(t)
    PROVE  LET c == Newest + 1 IN Made' = Made \cup {c} /\ Newest' = c
<1>1. PICK s, r, c : s = Top(t).obj /\ r = Top(t).other /\ c = Newest + 1
  OBVIOUS
<1>2. /\ c \in Ids /\ c \notin Made /\ s \in Objects /\ s # Nobody /\ conn'[c].sender = s
      /\ \A d \in Ids \ {c} : conn'[d].sender = conn[d].sender
  BY <1>1, AddedConnections, ConnectionsAssumption
<1>3. Made' = Made \cup {c}
  BY <1>2 DEF Made
<1>4. IsFiniteSet(Made)
  <2>1. Made \in SUBSET Ids /\ IsFiniteSet(Ids)
    <3>1. 1 \in Int /\ MaxConnections \in Int
      BY IdsFinite
    <3> QED
      BY <3>1, FS_Interval DEF Made, Ids
  <2> QED
    BY <2>1, FS_Subset
<1>5. Cardinality(Made \cup {c}) = Cardinality(Made) + 1
  BY <1>2, <1>4, FS_AddElement
<1> QED
  BY <1>1, <1>3, <1>5 DEF Newest

\* AddConnection keeps CallInv.
LEMMA CallAddConnection ==
    ASSUME CallInv, NEW t \in Threads, AddConnection(t)
    PROVE  CallInv'
<1>1. /\ At(t, {"connect"}, "second") /\ HasBoth(t)
      /\ handles' = IF Kept(Top(t).obj, Top(t).other) THEN handles \cup {Newest + 1} ELSE handles
      /\ head' = [head EXCEPT ![Top(t).other] = Newest + 1]
      /\ Release({Top(t).obj, Top(t).other}) /\ Return(t) /\ UNCHANGED <<node, status>>
  BY DEF AddConnection
<1>2. /\ TypeOK /\ Suspended /\ NumbersOK /\ PointersOK /\ ListsOK /\ Calling(t)
      /\ Top(t).kind = "connect" /\ Top(t).pc = "second"
  BY <1>1, AtFacts DEF CallInv
<1>3. PICK s, r, c : s = Top(t).obj /\ r = Top(t).other /\ c = Newest + 1
  OBVIOUS
<1>4. /\ s \in Objects /\ r \in Objects /\ Alive(s) /\ Alive(r)
      /\ c \in Ids /\ c \notin Made /\ conn' \in [Ids -> ConnectionType]
      /\ conn'[c].sender = s /\ conn'[c].next = head[r]
      /\ \A d \in Ids \ {c} : conn'[d].sender = conn[d].sender /\ conn'[d].next = conn[d].next
  BY <1>3, AddedConnections
<1>5. /\ lists' \in [Objects -> ListType] /\ \A o \in Objects \ {s} : lists'[o] = lists[o]
      /\ Increasing(lists'[s].seq) /\ Listed(s)' = (Listed(s) \cup {c}) \ Taken(s)
      /\ lists'[s].inUse = lists[s].inUse /\ lists'[s].state = "attached"
      /\ c \notin Taken(s)
  BY <1>3, AddedLists
<1>6. Made' = Made \cup {c} /\ Newest' = c
  BY <1>3, AddedMade
<1>7. PICK n \in Nat : n = Len(stack[t])
  BY <1>2, TopFacts
<1>8. Ends(t, n) /\ stack[t][n] = Top(t)
  BY <1>1, <1>2, <1>7, ReturnTop DEF Top
<1>9. OnlyTop(t, n) /\ Len(stack[t]) = n /\ Len(stack'[t]) # n
  BY <1>7, <1>8 DEF Ends
<1>10. holder' \in [Mutexes -> Threads \cup {Nobody}] /\ KeepsMutexes(t)
  <2>1. {s, r} \in SUBSET Objects /\ \A p \in {s, r} : holder[Lock[p]] \in {Nobody, t}
    BY <1>1, <1>3, <1>4 DEF HasBoth
  <2> QED
    BY <1>1, <1>2, <1>3, <2>1, ReleaseFacts
<1>11. /\ head' \in [Objects -> Ids \cup {0}] /\ head'[r] = c
       /\ \A o \in Objects \ {r} : head'[o] = head[o]
  BY <1>1, <1>2, <1>3, <1>4 DEF TypeOK
<1>12. TypeOK'
  <2>1. handles' \subseteq Ids
    BY <1>1, <1>2, <1>3, <1>4 DEF TypeOK
  <2>2. node' \in [Objects -> Ids \cup {0}] /\ status' \in [Objects -> {"alive", "dying", "gone"}]
    BY <1>1, <1>2 DEF TypeOK
  <2> QED
    BY <1>2, <1>4, <1>5, <1>9, <1>10, <1>11, <2>1, <2>2, KeptType
<1>13. \A o \in Objects : ~Walks(stack[t][n], o) /\ ~InDestructor(stack[t][n], o)
  BY <1>2, <1>8 DEF Walks, InDestructor
<1>14. \A o \in Objects : Walkers(o)' = Walkers(o)
  BY <1>2, <1>9, <1>13, CountedWalkers
<1>15. Keeps(t)
  <2>1. ASSUME NEW o \in Objects, Walkers(o) # {} PROVE Listed(o) \subseteq Listed(o)'
    <3>1. CASE o = s
      <4>1. lists[s].inUse # 0
        BY <1>2, <1>4, <2>1, <3>1, WalkersFinite DEF ListsOK, ListOK
      <4>2. Taken(s) = {}
        BY <4>1 DEF Taken, Cleans
      <4> QED
        BY <1>5, <3>1, <4>2
    <3>2. CASE o # s
      BY <1>5, <3>2 DEF Listed
    <3> QED
      BY <3>1, <3>2
  <2>2. \A o \in Objects : status[o] = "dying" => o # s
    BY <1>4 DEF Alive
  <2> QED
    BY <1>1, <1>5, <2>1, <2>2 DEF Keeps
<1>16. ASSUME NEW o \in Objects PROVE ListOK(o)'
  <2>1. ListOK(o) /\ Listed(o) \subseteq Ids /\ o # Nobody
    BY <1>2, ListedFacts, ConnectionsAssumption DEF ListsOK
  <2>2. \A d \in Listed(o) : d # c /\ conn'[d].sender = o
    BY <1>4, <2>1 DEF ListOK, Made
  <2>3. CASE o # s
    <3>1. lists'[o] = lists[o] /\ Listed(o)' = Listed(o) /\ Walkers(o)' = Walkers(o)
      BY <1>5, <1>14, <2>3 DEF Listed
    <3>2. \A d \in Listed(o)' : conn'[d].sender = o
      BY <2>2, <3>1
    <3> QED
      BY <1>1, <2>1, <3>1, <3>2 DEF ListOK, Alive, Increasing
  <2>4. CASE o = s
    <3>1. \A d \in Listed(s)' : conn'[d].sender = s
      BY <1>4, <1>5, <2>2, <2>4
    <3>2. lists'[s].inUse = Cardinality(Walkers(s)')
      BY <1>5, <1>14, <2>1, <2>4 DEF ListOK
    <3>3. status'[s] = "alive"
      BY <1>1, <1>4 DEF Alive
    <3> QED
      BY <1>5, <2>4, <3>1, <3>2, <3>3 DEF ListOK, Alive, Increasing
  <2> QED
    BY <2>3, <2>4
<1>17. NumbersOK'
  <2>1. /\ IsFiniteSet(Making) /\ Cardinality(Making) \in Nat
        /\ Making' \ {t} = Making \ {t} /\ t \in Making /\ t \notin Making'
    BY <1>2, <1>8, <1>9, MakingFacts
  <2>2. Making' = Making \ {t}
    BY <2>1
  <2>3. Cardinality(Making') = Cardinality(Making) - 1
    BY <2>1, <2>2, FS_RemoveElement
  <2>4. Newest \in Nat /\ Made = 1..Newest
    BY <1>2, NewestType DEF NumbersOK
  <2>5. Made' = 1..Newest'
    BY <1>3, <1>6, <2>4
  <2>6. Newest' + Cardinality(Making') <= MaxConnections
    BY <1>2, <1>3, <1>6, <2>1, <2>3, <2>4, IdsFinite DEF NumbersOK
  <2> QED
    BY <2>5, <2>6 DEF NumbersOK
<1>18. PointersOK'
  <2>1. \A d \in Ids : conn'[d].next \in Made \cup {0}
    BY <1>2, <1>4 DEF PointersOK
  <2>2. \A o \in Objects : head'[o] \in Made \cup {0, c} /\ node'[o] \in Made \cup {0}
    BY <1>1, <1>2, <1>11 DEF PointersOK
  <2> QED
    BY <1>6, <2>1, <2>2 DEF PointersOK
<1>19. \A o \in Objects :
           ~(/\ status'[o] = "dying"
             /\ status[o] = "dying" => Len(stack[t]) = n /\ InDestructor(stack[t][n], o)
             /\ Home[o] = t)
  BY <1>1, <1>13
<1>20. \A o \in Objects : ListOK(o)'
  BY <1>16
<1> QED
  BY <1>9, <1>10, <1>12, <1>15, <1>17, <1>18, <1>19, <1>20, CallStep
-----------------------------------------------------------------------------
\* The destructor.

\* Destroy keeps CallInv.
LEMMA CallDestroy ==
    ASSUME CallInv, NEW t \in Threads, NEW o \in Objects, Destroy(t, o)
    PROVE  CallInv'
<1>1. /\ MayCall(t) /\ Home[o] = t /\ Alive(o) /\ \A u \in Threads \ {t} : ~Named(u, o)
      /\ status' = [status EXCEPT ![o] = "dying"] /\ Call(t, Frame("receivers", o, Nobody))
      /\ UNCHANGED <<conn, handles, lists, head, node, holder>>
  BY DEF Destroy, listVars
<1>2. TypeOK /\ Suspended /\ SendersSame
  BY <1>1 DEF CallInv, SendersSame
<1>3. PICK f \in FrameType : /\ f.kind = "receivers" /\ f.obj = o /\ f.pc = "lock" /\ Call(t, f)
  BY <1>1, FrameFacts DEF Relocking
<1>4. PICK n \in Nat : n = Len(stack[t]) + 1
  BY <1>2, TopFacts
<1>5. Becomes(t, n, f) /\ Len(stack[t]) # n
  BY <1>1, <1>2, <1>3, <1>4, TopFacts, PushTop
<1>6. OnlyTop(t, n) /\ Len(stack'[t]) = n /\ stack'[t][n] = f
  BY <1>5 DEF Becomes
<1>7. /\ status' \in [Objects -> {"alive", "dying", "gone"}] /\ status'[o] = "dying"
      /\ \A p \in Objects \ {o} : status'[p] = status[p]
  BY <1>1, <1>2 DEF TypeOK
<1>8. holder' \in [Mutexes -> Threads \cup {Nobody}] /\ KeepsMutexes(t)
  BY <1>1, <1>2 DEF TypeOK, KeepsMutexes
<1>9. SameLists /\ SameOwners
  <2>1. handles' \subseteq Ids
    BY <1>1, <1>2 DEF TypeOK
  <2> QED
    BY <1>1, <2>1, UnchangedSame
<1>10. TypeOK'
  BY <1>2, <1>6, <1>7, <1>8, <1>9, KeptType DEF SameLists, SameOwners
<1>11. Keeps(t)
  <2>1. \A p \in Objects : Listed(p)' = Listed(p)
    BY <1>1 DEF Listed
  <2> QED
    BY <1>1, <1>7, <2>1 DEF Keeps, Alive
<1>12. FrameOK(t, stack[t][n])' /\ \A m \in Locks(stack'[t][n]) : holder'[m] = t
  <2>1. FrameOK(t, f)'
    BY <1>1, <1>3, <1>7 DEF FrameOK, ReceiversOK, RelockPcs
  <2>2. Locks(f) = {}
    BY <1>3 DEF Locks
  <2> QED
    BY <1>6, <2>1, <2>2
<1>13. \A p \in Objects :
           /\ status'[p] = "dying"
           /\ status[p] = "dying" => Len(stack[t]) = n /\ InDestructor(stack[t][n], p)
           /\ Home[p] = t
           => Len(stack'[t]) = n /\ InDestructor(stack'[t][n], p)
  <2>1. InDestructor(f, o)
    BY <1>3 DEF InDestructor
  <2> QED
    BY <1>5, <1>6, <1>7, <2>1
<1>14. ASSUME NEW p \in Objects PROVE ListOK(p)'
  <2>1. ~Walks(stack'[t][n], p)
    BY <1>3, <1>6 DEF Walks
  <2>2. Walkers(p)' = Walkers(p)
    BY <1>2, <1>5, <1>6, <2>1, CountedWalkers
  <2>3. ListOK(p) /\ Listed(p) \subseteq Ids
    BY <1>2, ListedFacts DEF CallInv, ListsOK
  <2>4. status'[p] = status[p] \/ status'[p] = "dying"
    BY <1>7
  <2> QED
    BY <1>1, <1>2, <2>2, <2>3, <2>4, KeptList
<1>15. NumbersOK'
  BY <1>1, <1>3, CallNumbers
<1>16. PointersOK' /\ \A p \in Objects : ListOK(p)'
  BY <1>9, <1>14 DEF SameOwners
<1> QED
  BY <1>6, <1>8, <1>10, <1>11, <1>12, <1>13, <1>15, <1>16, CallStep

\* The end of the destructor.
LEMMA CallGone ==
    ASSUME CallInv, NEW t \in Threads, NEW o \in Objects, Calling(t), o = Top(t).obj,
           Top(t).kind \in {"receivers", "senders"}, Top(t).kind = "senders" \/ Top(t).pc = "lock",
           status[o] = "dying", Home[o] = t, ~Attached(o), Gone(t),
           UNCHANGED <<conn, handles, lists, head, node>>,
           holder' \in [Mutexes -> Threads \cup {Nobody}], KeepsMutexes(t)
    PROVE  CallInv'
<1>1. TypeOK /\ Suspended /\ NumbersOK /\ SendersSame
  BY DEF CallInv, SendersSame
<1>2. PICK n \in Nat : n = Len(stack[t])
  BY <1>1, TopFacts
<1>3. Ends(t, n) /\ stack[t][n] = Top(t)
  BY <1>1, <1>2, ReturnTop DEF Top, Gone
<1>4. OnlyTop(t, n) /\ Len(stack[t]) = n /\ Len(stack'[t]) # n
  BY <1>2, <1>3 DEF Ends
<1>5. /\ status' \in [Objects -> {"alive", "dying", "gone"}] /\ status'[o] = "gone"
      /\ \A p \in Objects \ {o} : status'[p] = status[p]
  BY <1>1 DEF TypeOK, Gone
<1>6. SameLists /\ SameOwners
  <2>1. handles' \subseteq Ids
    BY <1>1 DEF TypeOK
  <2> QED
    BY <2>1, UnchangedSame
<1>7. TypeOK'
  BY <1>1, <1>4, <1>5, <1>6, KeptType DEF SameLists, SameOwners
<1>8. Keeps(t)
  <2>1. \A p \in Objects : Listed(p)' = Listed(p)
    BY DEF Listed
  <2> QED
    BY <1>5, <2>1 DEF Keeps
<1>9. \A p \in Objects : /\ ~Walks(stack[t][n], p)
                         /\ InDestructor(stack[t][n], p) => p = o
  BY <1>3 DEF Walks, InDestructor
<1>10. \A p \in Objects :
           ~(/\ status'[p] = "dying"
             /\ status[p] = "dying" => Len(stack[t]) = n /\ InDestructor(stack[t][n], p)
             /\ Home[p] = t)
  BY <1>5, <1>9
<1>11. ASSUME NEW p \in Objects PROVE ListOK(p)'
  <2>1. Walkers(p)' = Walkers(p)
    BY <1>1, <1>4, <1>9, CountedWalkers
  <2>2. ListOK(p) /\ Listed(p) \subseteq Ids
    BY <1>1, ListedFacts DEF CallInv, ListsOK
  <2>3. CASE p = o
    <3>1. lists'[o] = lists[o] /\ Listed(o)' = Listed(o) /\ \A c \in Listed(o) : conn'[c].sender = o
      BY <2>2, <2>3 DEF ListOK, Listed
    <3> QED
      BY <1>5, <2>1, <2>2, <2>3, <3>1 DEF ListOK, Increasing, Alive, Attached
  <2>4. CASE p # o
    BY <1>1, <1>5, <2>1, <2>2, <2>4, KeptList
  <2> QED
    BY <2>3, <2>4
<1>12. NumbersOK'
  BY <1>1, <1>4, KeptNumbers
<1>13. PointersOK' /\ \A p \in Objects : ListOK(p)'
  BY <1>6, <1>11 DEF SameOwners
<1> QED
  BY <1>4, <1>7, <1>8, <1>10, <1>12, <1>13, CallStep

\* On to the second loop, without having walked the first list.
SenderFrame(f, o) == /\ f \in FrameType /\ f.kind = "senders" /\ f.obj = o /\ f.pc = "walk"
                     /\ f.other = Nobody /\ f.c = 0

\* ~QObject begins with the list of the senders at its head.
LEMMA ToSendersFacts ==
    ASSUME TypeOK, PointersOK, NEW t \in Threads, NEW o \in Objects, o = Top(t).obj, ToSenders(t)
    PROVE  /\ \E f \in FrameType : SenderFrame(f, o) /\ Replace(t, f)
           /\ node' \in [Objects -> Ids \cup {0}]
           /\ node'[o] = head[o] /\ \A p \in Objects \ {o} : node'[p] = node[p]
<1>1. PICK g : g = Frame("senders", o, Nobody)
  OBVIOUS
<1>2. g \in FrameType /\ g.kind = "senders" /\ g.obj = o /\ g.other = Nobody /\ g.c = 0
  BY <1>1 DEF Frame, FrameType, Relocking
<1>3. PICK f : f = [g EXCEPT !.pc = "walk"]
  OBVIOUS
<1>4. SenderFrame(f, o)
  BY <1>2, <1>3 DEF FrameType, SenderFrame
<1>5. Replace(t, f)
  BY <1>1, <1>3 DEF ToSenders
<1>6. node' = [node EXCEPT ![o] = head[o]]
  BY DEF ToSenders
<1>7. node \in [Objects -> Ids \cup {0}] /\ head[o] \in Ids \cup {0}
  BY DEF TypeOK
<1> QED
  BY <1>4, <1>5, <1>6, <1>7 DEF SenderFrame

\* DestroyBegin keeps CallInv.
LEMMA CallDestroyBegin ==
    ASSUME CallInv, NEW t \in Threads, DestroyBegin(t)
    PROVE  CallInv'
<1>1. At(t, {"receivers"}, "lock")
  BY DEF DestroyBegin
<1>2. /\ TypeOK /\ PointersOK /\ Calling(t) /\ Top(t).kind = "receivers" /\ Top(t).pc = "lock"
      /\ Top(t).obj \in Objects /\ Top(t) \in FrameType /\ ReceiversOK(t, Top(t))
  BY <1>1, AtFacts DEF FrameOK, CallInv
<1>3. PICK o \in Objects : o = Top(t).obj
  BY <1>2
<1>4. status[o] = "dying" /\ Home[o] = t
  BY <1>2, <1>3 DEF ReceiversOK
<1>5. CASE ~Attached(o) /\ head[o] = 0 /\ Gone(t) /\ UNCHANGED <<listVars, holder>>
  <2>1. holder' \in [Mutexes -> Threads \cup {Nobody}] /\ KeepsMutexes(t)
    BY <1>2, <1>5 DEF TypeOK, KeepsMutexes
  <2>2. UNCHANGED <<conn, handles, lists, head, node>>
    BY <1>5 DEF listVars
  <2> QED
    BY <1>2, <1>3, <1>4, <1>5, <2>1, <2>2, CallGone
<1>6. CASE /\ Attached(o) /\ Free(o) /\ Hold(t, o)
           /\ lists' = [lists EXCEPT ![o].inUse = @ + 1] /\ GoTo(t, "walk") /\ UNCHANGED node
           /\ UNCHANGED <<conn, handles, head, status>>
  <2>1. PICK f : f = [Top(t) EXCEPT !.pc = "walk"]
    OBVIOUS
  <2>2. f \in FrameType /\ f.kind = "receivers" /\ f.obj = o /\ f.pc = "walk" /\ Replace(t, f)
    BY <1>2, <1>3, <1>6, <2>1 DEF FrameType, GoTo
  <2>3. FrameOK(t, f)
    BY <1>4, <1>6, <2>2 DEF FrameOK, ReceiversOK, RelockPcs
  <2>4. At(t, {"emit", "disconnect", "receivers"}, "lock")
    BY <1>1 DEF At
  <2> QED
    BY <1>2, <1>3, <1>6, <2>2, <2>3, <2>4, BeginWalk
<1>7. CASE /\ ~Attached(o) /\ Free(o) /\ Hold(t, o) /\ ToSenders(t) /\ UNCHANGED lists
           /\ UNCHANGED <<conn, handles, head, status>>
  <2>1. /\ node' \in [Objects -> Ids \cup {0}] /\ \A p \in Objects : node'[p] \in {node[p], head[p]}
    BY <1>2, <1>3, <1>7, ToSendersFacts
  <2>2. PICK f \in FrameType : SenderFrame(f, o) /\ Replace(t, f)
    BY <1>2, <1>3, <1>7, ToSendersFacts
  <2>3. /\ f.kind = "senders" /\ f.obj = o /\ f.pc = "walk"
    BY <2>2 DEF SenderFrame
  <2>4. conn' \in [Ids -> ConnectionType] /\ SendersSame /\ PointersOK'
    <3>1. conn' \in {conn, Deref(conn, 0)}
      BY <1>7
    <3> QED
      BY <1>2, <1>7, <2>1, <3>1, KeptPointers
  <2>5. SameOwners /\ SameLists
    <3>1. handles' \subseteq Ids /\ head' \in [Objects -> Ids \cup {0}]
      BY <1>2, <1>7 DEF TypeOK
    <3>2. SameLists
      BY <1>7, UnchangedSame
    <3> QED
      BY <2>1, <2>4, <3>1, <3>2 DEF SameOwners
  <2>6. /\ holder' \in [Mutexes -> Threads \cup {Nobody}] /\ KeepsMutexes(t)
        /\ holder'[Lock[o]] = t
    BY <1>2, <1>7, HoldFacts
  <2>7. FrameOK(t, f)'
    BY <1>4, <1>7, <2>3 DEF FrameOK, SendersOK, RelockPcs, Attached
  <2>8. Locks(f) = {Lock[o]}
    BY <2>3 DEF Locks
  <2>9. PICK n \in Nat : n = Len(stack[t])
    BY <1>2, TopFacts
  <2>10. Becomes(t, n, f) /\ stack[t][n] = Top(t)
    BY <1>2, <2>2, <2>9, ReplaceTop DEF Top, CallInv
  <2>11. OnlyTop(t, n) /\ Len(stack'[t]) = n /\ stack'[t][n] = f /\ Len(stack[t]) = n
    BY <2>9, <2>10 DEF Becomes
  <2>12. FrameOK(t, stack[t][n])' /\ \A m \in Locks(stack'[t][n]) : holder'[m] = t
    BY <2>6, <2>7, <2>8, <2>11
  <2>13. \A p \in Objects : /\ ~Walks(Top(t), p) /\ ~Walks(f, p)
                            /\ InDestructor(Top(t), p) => InDestructor(f, p)
    BY <1>2, <1>3, <2>3 DEF Walks, InDestructor
  <2>14. NumbersOK'
    BY <1>2, <2>3, <2>4, <2>11, KeptNumbers DEF CallInv
  <2>15. UNCHANGED status
    BY <1>7
  <2> QED
    BY <2>5, <2>6, <2>10, <2>11, <2>12, <2>13, <2>14, <2>15, QuietStep
<1> QED
  BY <1>3, <1>5, <1>6, <1>7 DEF DestroyBegin

\* disconnect all receivers: the first connection leaves the list.
LEMMA DroppedFacts ==
    ASSUME TypeOK, NEW o \in Objects, ListOK(o), First(lists[o].seq) # 0, lists' = Dropped(o)
    PROVE  /\ lists' \in [Objects -> ListType] /\ \A p \in Objects \ {o} : lists'[p] = lists[p]
           /\ Listed(o)' = Listed(o) \ {First(lists[o].seq)} /\ Increasing(lists'[o].seq)
           /\ lists'[o].inUse = lists[o].inUse /\ lists'[o].state = lists[o].state
           /\ lists[o].state = "attached" /\ First(lists[o].seq) \in Listed(o)
<1>1. /\ lists \in [Objects -> ListType] /\ lists[o] \in ListType /\ lists[o].seq \in Seq(Ids)
      /\ Increasing(lists[o].seq)
  BY ListedFacts DEF TypeOK, ListOK
<1>2. PICK tail : tail = Tail(lists[o].seq)
  OBVIOUS
<1>3. lists[o].seq # <<>> /\ First(lists[o].seq) = Head(lists[o].seq)
  BY <1>1, FirstFacts
<1>4. /\ tail \in Seq(Ids) /\ Increasing(tail) /\ Elements(tail) = Listed(o) \ {First(lists[o].seq)}
      /\ First(lists[o].seq) \in Listed(o)
  BY <1>1, <1>2, <1>3, TailFacts DEF Listed
<1>5. PICK list : list = [lists[o] EXCEPT !.seq = tail]
  OBVIOUS
<1>6. /\ list \in ListType /\ list.seq = tail /\ list.inUse = lists[o].inUse
      /\ list.state = lists[o].state
  BY <1>1, <1>4, <1>5 DEF ListType
<1>7. lists' = [lists EXCEPT ![o] = list]
  BY <1>2, <1>5 DEF Dropped
<1>8. lists'[o] = list /\ lists' \in [Objects -> ListType] /\ \A p \in Objects \ {o} : lists'[p] = lists[p]
  BY <1>1, <1>6, <1>7
<1> QED
  BY <1>3, <1>4, <1>6, <1>8 DEF Listed, ListOK

\* ~QObject takes the first connection off the list of its receivers.
LEMMA CallDrop ==
    ASSUME CallInv, NEW t \in Threads, NEW f \in FrameType, Calling(t),
           Replace(t, f) \/ (UNCHANGED stack /\ f = Top(t)),
           NEW o \in Objects, o = Top(t).obj, o = f.obj,
           Top(t).kind = "receivers", f.kind = "receivers", Top(t).pc # "lock", f.pc \in {"walk", "functor"},
           ReceiversOK(t, Top(t)), First(lists[o].seq) # 0, lists' = Dropped(o),
           SameOwners, UNCHANGED status,
           holder' \in [Mutexes -> Threads \cup {Nobody}], KeepsMutexes(t),
           \A m \in Locks(f) : holder'[m] = t
    PROVE  CallInv'
<1>1. TypeOK /\ Suspended /\ NumbersOK /\ ListsOK /\ SendersSame
  BY DEF CallInv, SameOwners
<1>2. PICK n \in Nat : n = Len(stack[t])
  BY <1>1, TopFacts
<1>3. Becomes(t, n, f) /\ stack[t][n] = Top(t)
  BY <1>1, <1>2, ReplaceTop, SameTop DEF Top
<1>4. OnlyTop(t, n) /\ Len(stack'[t]) = n /\ stack'[t][n] = f /\ Len(stack[t]) = n
  BY <1>2, <1>3 DEF Becomes
<1>5. status[o] = "dying" /\ Home[o] = t /\ Attached(o)
  BY DEF ReceiversOK
<1>6. /\ lists' \in [Objects -> ListType] /\ \A p \in Objects \ {o} : lists'[p] = lists[p]
      /\ Listed(o)' \subseteq Listed(o) /\ Increasing(lists'[o].seq)
      /\ lists'[o].inUse = lists[o].inUse /\ lists'[o].state = lists[o].state
      /\ lists[o].state = "attached"
  BY <1>1, DroppedFacts DEF ListsOK
<1>7. TypeOK'
  BY <1>1, <1>4, <1>6, KeptType DEF SameOwners, TypeOK
<1>8. Keeps(t)
  <2>1. \A p \in Objects \ {o} : Listed(p)' = Listed(p)
    BY <1>6 DEF Listed
  <2> QED
    BY <1>5, <1>6, <2>1 DEF Keeps
<1>9. FrameOK(t, f)'
  BY <1>5, <1>6 DEF FrameOK, ReceiversOK, RelockPcs, Attached
<1>10. FrameOK(t, stack[t][n])' /\ \A m \in Locks(stack'[t][n]) : holder'[m] = t
  BY <1>4, <1>9
<1>11. \A p \in Objects : /\ Walks(Top(t), p) <=> Walks(f, p)
                          /\ InDestructor(Top(t), p) <=> InDestructor(f, p)
  BY DEF Walks, InDestructor
<1>12. \A p \in Objects :
           /\ status'[p] = "dying"
           /\ status[p] = "dying" => Len(stack[t]) = n /\ InDestructor(stack[t][n], p)
           /\ Home[p] = t
           => Len(stack'[t]) = n /\ InDestructor(stack'[t][n], p)
  BY <1>3, <1>4, <1>11
<1>13. ASSUME NEW p \in Objects PROVE ListOK(p)'
  <2>1. Walkers(p)' = Walkers(p)
    BY <1>1, <1>3, <1>4, <1>11, CountedWalkers
  <2>2. ListOK(p) /\ Listed(p) \subseteq Ids
    BY <1>1, ListedFacts DEF ListsOK
  <2>3. CASE p = o
    <3>1. \A c \in Listed(o)' : conn'[c].sender = o
      BY <1>1, <1>6, <2>2, <2>3 DEF ListOK, SendersSame
    <3>2. lists'[o].inUse = Cardinality(Walkers(o)')
      BY <1>6, <2>1, <2>2, <2>3 DEF ListOK
    <3> QED
      BY <1>5, <1>6, <2>3, <3>1, <3>2 DEF ListOK, Increasing, Alive
  <2>4. CASE p # o
    BY <1>1, <1>6, <2>1, <2>2, <2>4, KeptList
  <2> QED
    BY <2>3, <2>4
<1>14. NumbersOK'
  BY <1>1, <1>3, <1>4, KeptNumbers
<1>15. PointersOK' /\ \A p \in Objects : ListOK(p)'
  BY <1>13 DEF SameOwners
<1> QED
  BY <1>4, <1>7, <1>8, <1>10, <1>12, <1>14, <1>15, CallStep

\* The list of the receivers is empty, and ~QObject lets go of it.
LEMMA CallReceiversEnd ==
    ASSUME CallInv, NEW t \in Threads, At(t, {"receivers"}, "walk"),
           NEW o \in Objects, o = Top(t).obj, First(lists[o].seq) = 0,
           lists' = [lists EXCEPT ![o] = Unused([@ EXCEPT !.state = "orphaned"])],
           ToSenders(t), UNCHANGED <<conn, handles, head, status, holder>>
    PROVE  CallInv'
<1>1. /\ TypeOK /\ Calling(t) /\ Top(t).kind = "receivers" /\ Top(t).pc = "walk"
      /\ ReceiversOK(t, Top(t)) /\ \A m \in Locks(Top(t)) : holder[m] = t
  BY AtFacts DEF FrameOK
<1>2. Suspended /\ NumbersOK /\ PointersOK
  BY DEF CallInv
<1>3. status[o] = "dying" /\ Home[o] = t /\ holder[Lock[o]] = t
  BY <1>1 DEF ReceiversOK, Locks
<1>4. /\ node' \in [Objects -> Ids \cup {0}] /\ \A p \in Objects : node'[p] \in {node[p], head[p]}
  BY <1>1, <1>2, ToSendersFacts
<1>5. PICK f \in FrameType : SenderFrame(f, o) /\ Replace(t, f)
  BY <1>1, <1>2, ToSendersFacts
<1>6. f.kind = "senders" /\ f.obj = o /\ f.pc = "walk"
  BY <1>5 DEF SenderFrame
<1>7. PICK n \in Nat : n = Len(stack[t])
  BY <1>1, TopFacts
<1>8. Becomes(t, n, f) /\ stack[t][n] = Top(t)
  BY <1>1, <1>2, <1>5, <1>7, ReplaceTop DEF Top
<1>9. OnlyTop(t, n) /\ Len(stack'[t]) = n /\ stack'[t][n] = f /\ Len(stack[t]) = n
  BY <1>7, <1>8 DEF Becomes
<1>10. PICK list : list = [lists[o] EXCEPT !.state = "orphaned"]
  OBVIOUS
<1>11. /\ list \in ListType /\ list.seq = lists[o].seq /\ list.inUse = lists[o].inUse
       /\ list.state = "orphaned"
  BY <1>1, <1>10, ListedFacts DEF ListType
<1>12. LastUse(o, list)
  BY <1>10 DEF LastUse
<1>13. list.seq = <<>> /\ ~Alive(o)
  BY <1>1, <1>3, <1>11, ListedFacts, FirstFacts DEF Alive
<1>14. conn' \in [Ids -> ConnectionType] /\ SendersSame /\ PointersOK'
  <2>1. conn' \in {conn, Deref(conn, 0)}
    OBVIOUS
  <2> QED
    BY <1>1, <1>2, <1>4, <2>1, KeptPointers
<1>15. SameOwners
  BY <1>1, <1>4, <1>14 DEF SameOwners, TypeOK
<1>16. holder' \in [Mutexes -> Threads \cup {Nobody}] /\ KeepsMutexes(t)
  BY <1>1 DEF TypeOK, KeepsMutexes
<1>17. lists'[o].state # "attached"
  <2>1. lists'[o] = Unused(list)
    BY <1>1, <1>12 DEF LastUse, TypeOK
  <2>2. CASE list.inUse = 1
    <3>1. Unused(list) = [seq |-> <<>>, inUse |-> 0, dirty |-> FALSE, state |-> "deleted"]
      BY <1>11, <2>2 DEF Unused, NoList
    <3> QED
      BY <2>1, <3>1
  <2>3. CASE list.inUse # 1
    <3>1. Unused(list) = [list EXCEPT !.inUse = @ - 1]
      BY <2>3 DEF Unused
    <3>2. Unused(list).state = "orphaned"
      BY <1>11, <3>1 DEF ListType
    <3> QED
      BY <2>1, <3>2
  <2> QED
    BY <2>2, <2>3
<1>18. FrameOK(t, f)'
  BY <1>3, <1>6, <1>17 DEF FrameOK, SendersOK, RelockPcs, Attached
<1>19. Locks(f) = {Lock[o]}
  BY <1>6 DEF Locks
<1>20. FrameOK(t, stack[t][n])' /\ \A m \in Locks(stack'[t][n]) : holder'[m] = t
  BY <1>3, <1>9, <1>18, <1>19
<1>21. /\ Walks(Top(t), o) /\ \A p \in Objects : ~Walks(f, p)
       /\ \A p \in Objects : InDestructor(Top(t), p) => InDestructor(f, p)
  BY <1>1, <1>6 DEF Walks, InDestructor
<1>22. NumbersOK'
  BY <1>1, <1>2, <1>6, <1>9, <1>14, KeptNumbers
<1>23. UNCHANGED status
  OBVIOUS
<1>24. /\ Walks(stack[t][n], o)
       /\ \A p \in Objects : ~(Len(stack'[t]) = n /\ Walks(stack'[t][n], p))
       /\ \A p \in Objects : InDestructor(stack[t][n], p)
                                  => Len(stack'[t]) = n /\ InDestructor(stack'[t][n], p)
       /\ Home[o] = t \/ Alive(o)
       /\ list.state = lists[o].state
              \/ (list.state = "orphaned" /\ list.seq = <<>> /\ ~Alive(o))
  BY <1>3, <1>8, <1>9, <1>11, <1>13, <1>21
<1> QED
  BY <1>9, <1>11, <1>12, <1>15, <1>16, <1>20, <1>22, <1>23, <1>24, EndWalk

\* ReceiversWalk keeps CallInv.
LEMMA CallReceiversWalk ==
    ASSUME CallInv, NEW t \in Threads, ReceiversWalk(t)
    PROVE  CallInv'
<1>1. At(t, {"receivers"}, "walk") /\ UNCHANGED <<handles, head, status>>
  BY DEF ReceiversWalk
<1>2. /\ TypeOK /\ Calling(t) /\ Top(t).kind = "receivers" /\ Top(t).pc = "walk"
      /\ Top(t).obj \in Objects /\ Top(t) \in FrameType /\ ReceiversOK(t, Top(t))
      /\ \A m \in Locks(Top(t)) : holder[m] = t
  BY <1>1, AtFacts DEF FrameOK
<1>3. PICK o, c : o \in Objects /\ o = Top(t).obj /\ c = First(lists[o].seq)
  BY <1>2
<1>4. CASE c = 0
  <2>1. /\ lists' = [lists EXCEPT ![o] = Unused([@ EXCEPT !.state = "orphaned"])]
        /\ ToSenders(t) /\ UNCHANGED <<conn, holder>>
    BY <1>3, <1>4 DEF ReceiversWalk
  <2> QED
    BY <1>1, <1>3, <1>4, <2>1, CallReceiversEnd
<1>5. CASE c # 0
  <2>1. c \in Ids /\ c \in Nat
    BY <1>2, <1>3, <1>5, ListedFacts, FirstFacts, IdsFinite
  <2>2. UNCHANGED node
    BY <1>3, <1>5 DEF ReceiversWalk
  <2>3. CASE Connected(c)
    <3>1. PICK r \in Objects : r = conn[c].receiver
      BY <1>2, <2>1, <2>3, ConnFacts
    <3>2. PICK f : f = [Top(t) EXCEPT !.c = c]
      OBVIOUS
    <3>3. Relock(t, f, r) /\ UNCHANGED <<conn, lists>>
      BY <1>3, <1>5, <2>3, <3>1, <3>2 DEF ReceiversWalk
    <3>4. f \in FrameType /\ f.kind = "receivers" /\ f.obj = o /\ f.c = c /\ f.pc = "walk"
      BY <1>2, <1>3, <2>1, <3>2 DEF FrameType
    <3>5. FrameOK(t, f)
      BY <1>2, <1>3, <3>4 DEF FrameOK, ReceiversOK, RelockPcs
    <3>6. At(t, Relocking, "walk")
      BY <1>1 DEF At, Relocking
    <3>7. SameLists /\ SameOwners /\ UNCHANGED status
      BY <1>1, <2>2, <3>3, NothingChanged DEF listVars
    <3> QED
      BY <1>2, <1>3, <1>5, <3>3, <3>4, <3>5, <3>6, <3>7, CallRelock
  <2>4. CASE ~Connected(c)
    <3>1. lists' = Dropped(o) /\ conn' = Deref(conn, c) /\ UNCHANGED <<holder, stack>>
      BY <1>3, <1>5, <2>4 DEF ReceiversWalk
    <3>2. conn' \in [Ids -> ConnectionType] /\ SendersSame /\ PointersOK'
      <4>1. conn' \in {conn, Deref(conn, c)} /\ \A p \in Objects : node'[p] \in {node[p], head[p]}
        BY <2>2, <3>1
      <4> QED
        BY <1>1, <1>2, <4>1, KeptPointers DEF CallInv
    <3>3. SameOwners
      BY <1>1, <1>2, <2>2, <3>2 DEF SameOwners, TypeOK
    <3>4. holder' \in [Mutexes -> Threads \cup {Nobody}] /\ KeepsMutexes(t)
          /\ \A m \in Locks(Top(t)) : holder'[m] = t
      BY <1>2, <3>1 DEF TypeOK, KeepsMutexes
    <3> QED
      BY <1>1, <1>2, <1>3, <1>5, <3>1, <3>3, <3>4, CallDrop
  <2> QED
    BY <2>3, <2>4
<1> QED
  BY <1>4, <1>5

\* ReceiversBoth keeps CallInv.
LEMMA CallReceiversBoth ==
    ASSUME CallInv, NEW t \in Threads, ReceiversBoth(t)
    PROVE  CallInv'
<1>1. At(t, {"receivers"}, "both") /\ UNCHANGED <<handles, status>>
  BY DEF ReceiversBoth
<1>2. /\ TypeOK /\ PointersOK /\ Calling(t) /\ Top(t).kind = "receivers" /\ Top(t).pc = "both"
      /\ Top(t).obj \in Objects /\ Top(t) \in FrameType /\ ReceiversOK(t, Top(t))
  BY <1>1, AtFacts DEF FrameOK, CallInv
<1>3. PICK o, c, functor :
          /\ o \in Objects
          /\ o = Top(t).obj /\ c = Top(t).c /\ functor = conn[c].functor
  BY <1>2
<1>4. c = First(lists[o].seq) /\ c # 0 /\ c \in Ids
  BY <1>2, <1>3, ListedFacts, FirstFacts DEF ReceiversOK, RelockPcs
<1>5. lists' = Dropped(o) /\ Resume(t, Top(t), functor)
  BY <1>3 DEF ReceiversBoth
<1>6. SameOwners
  <2>1. conn' \in {Disconnected(c), Deref(Disconnected(c), c)} /\ SetPreviousIfConnected(c)
    BY <1>3 DEF ReceiversBoth
  <2> QED
    BY <1>1, <1>4, <2>1, DisconnectOwners
<1>7. At(t, Relocking, "both")
  BY <1>1 DEF At, Relocking
<1>8. PICK g \in FrameType :
          /\ Replace(t, g) /\ g.kind = Top(t).kind /\ g.obj = Top(t).obj
          /\ IF functor THEN g.pc = "functor" ELSE g.pc = "walk"
          /\ holder' \in [Mutexes -> Threads \cup {Nobody}] /\ KeepsMutexes(t)
          /\ \A m \in Locks(g) : holder'[m] = t
  BY <1>2, <1>5, <1>7, ResumeFacts
<1>9. g.pc \in {"walk", "functor"}
  BY <1>8
<1> QED
  BY <1>1, <1>2, <1>3, <1>4, <1>5, <1>6, <1>8, <1>9, CallDrop

\* ReceiversFunctor keeps CallInv.
LEMMA CallReceiversFunctor ==
    ASSUME CallInv, NEW t \in Threads, ReceiversFunctor(t)
    PROVE  CallInv'
<1>1. /\ At(t, {"receivers"}, "functor") /\ Free(Top(t).obj) /\ Hold(t, Top(t).obj)
      /\ conn' = Deref(conn, Top(t).c)
      /\ Replace(t, [Top(t) EXCEPT !.pc = "walk", !.peer = Nobody])
      /\ UNCHANGED <<handles, lists, head, node, status>>
  BY DEF ReceiversFunctor
<1>2. /\ TypeOK /\ PointersOK /\ Calling(t) /\ Top(t).kind = "receivers" /\ Top(t).pc = "functor"
      /\ Top(t).obj \in Objects /\ Top(t) \in FrameType /\ ReceiversOK(t, Top(t))
  BY <1>1, AtFacts DEF FrameOK, CallInv
<1>3. PICK o \in Objects : o = Top(t).obj
  BY <1>2
<1>4. PICK f : f = [Top(t) EXCEPT !.pc = "walk", !.peer = Nobody]
  OBVIOUS
<1>5. f \in FrameType /\ f.kind = "receivers" /\ f.obj = o /\ f.pc = "walk" /\ Replace(t, f)
  BY <1>1, <1>2, <1>3, <1>4 DEF FrameType
<1>6. FrameOK(t, f)
  BY <1>2, <1>3, <1>5 DEF FrameOK, ReceiversOK, RelockPcs
<1>7. Locks(f) \subseteq {Lock[o]} \cup Locks(Top(t)) /\ At(t, Relocking, "functor")
  BY <1>1, <1>5 DEF Locks, At, Relocking
<1>8. SameLists /\ SameOwners
  <2>1. \A p \in Objects : node'[p] \in {node[p], head[p]}
    BY <1>1
  <2>2. conn' \in [Ids -> ConnectionType] /\ SendersSame /\ PointersOK'
    BY <1>1, <1>2, <2>1, KeptPointers
  <2> QED
    BY <1>1, <1>2, <2>2, UnchangedSame DEF SameOwners, TypeOK
<1> QED
  BY <1>1, <1>2, <1>3, <1>5, <1>6, <1>7, <1>8, CallHold

\* Disconnect all senders.
LEMMA SameNext ==
    ASSUME TypeOK, PointersOK, SendersSame, UNCHANGED head,
           \A c \in Ids : conn'[c].next = conn[c].next,
           \A o \in Objects : node'[o] \in Made \cup {0}
    PROVE  PointersOK'
<1>1. Made' = Made
  BY KeptMade
<1> QED
  BY <1>1 DEF PointersOK

\* SendersWalk keeps CallInv.
LEMMA CallSendersWalk ==
    ASSUME CallInv, NEW t \in Threads, SendersWalk(t)
    PROVE  CallInv'
<1>1. At(t, {"senders"}, "walk") /\ UNCHANGED <<handles, lists, head, node>>
  BY DEF SendersWalk
<1>2. /\ TypeOK /\ PointersOK /\ Calling(t) /\ Top(t).kind = "senders" /\ Top(t).pc = "walk"
      /\ Top(t).obj \in Objects /\ Top(t) \in FrameType /\ SendersOK(t, Top(t))
      /\ FrameOK(t, Top(t)) /\ \A m \in Locks(Top(t)) : holder[m] = t
  BY <1>1, AtFacts DEF FrameOK, CallInv
<1>3. PICK o, c : o \in Objects /\ o = Top(t).obj /\ c = node[o]
  BY <1>2
<1>4. /\ status[o] = "dying" /\ Home[o] = t /\ ~Attached(o) /\ holder[Lock[o]] = t
      /\ c \in Made \cup {0}
  BY <1>2, <1>3 DEF SendersOK, Locks, PointersOK
<1>5. CASE c = 0
  <2>1. Release({o}) /\ Gone(t) /\ UNCHANGED conn
    BY <1>3, <1>5 DEF SendersWalk
  <2>2. holder' \in [Mutexes -> Threads \cup {Nobody}] /\ KeepsMutexes(t)
    <3>1. {o} \in SUBSET Objects /\ \A p \in {o} : holder[Lock[p]] \in {Nobody, t}
      BY <1>3, <1>4
    <3> QED
      BY <1>2, <2>1, <3>1, ReleaseFacts
  <2> QED
    BY <1>1, <1>2, <1>3, <1>4, <2>1, <2>2, CallGone
<1>6. CASE c # 0
  <2>1. c \in Ids /\ conn[c].sender # Nobody
    BY <1>4, <1>6 DEF Made
  <2>2. PICK s \in Objects : s = conn[c].sender
    BY <1>2, <2>1, ConnFacts
  <2>3. /\ conn' = [conn EXCEPT ![c].prev = NodeOf(o)] /\ Relock(t, Top(t), s)
        /\ UNCHANGED status
    BY <1>3, <1>6, <2>2 DEF SendersWalk
  <2>4. PICK new : new = [conn[c] EXCEPT !.prev = NodeOf(o)]
    OBVIOUS
  <2>5. new \in ConnectionType /\ new.sender = conn[c].sender /\ new.next = conn[c].next
    <3>1. NodeOf(o) \in PointerType /\ conn[c] \in ConnectionType
      BY <1>2, <1>3, <2>1, ConnFacts DEF PointerType
    <3> QED
      BY <2>4, <3>1 DEF ConnectionType
  <2>6. conn' = [conn EXCEPT ![c] = new]
    BY <2>3, <2>4
  <2>7. conn' \in [Ids -> ConnectionType] /\ SendersSame /\ \A d \in Ids : conn'[d].next = conn[d].next
    BY <1>2, <2>1, <2>5, <2>6 DEF TypeOK, SendersSame
  <2>8. PointersOK'
    BY <1>1, <1>2, <2>7, SameNext DEF PointersOK
  <2>9. SameOwners /\ SameLists
    BY <1>1, <1>2, <2>7, <2>8, UnchangedSame DEF SameOwners, TypeOK
  <2>10. At(t, Relocking, "walk")
    BY <1>1 DEF At, Relocking
  <2> QED
    BY <1>2, <2>3, <2>9, <2>10, CallRelock
<1> QED
  BY <1>5, <1>6

\* What becomes of the connection and the list when the mutex is the right one.
LEMMA SendersUnlink ==
    ASSUME CallInv, NEW t \in Threads, At(t, {"senders"}, "both"),
           NEW o, NEW c, o = Top(t).obj, c = node[o], ~WrongMutex(Top(t)), SendersBoth(t)
    PROVE  /\ o \in Objects /\ c \in Made /\ conn[c].sender = Top(t).peer /\ Top(t).peer \in Objects
           /\ conn' \in [Ids -> ConnectionType]
           /\ \A d \in Ids :
                 /\ conn'[d].sender = conn[d].sender
                 /\ conn'[d].receiver = IF d = c THEN Nobody ELSE conn[d].receiver
                 /\ conn'[d].next = conn[d].next /\ conn'[d].ref = conn[d].ref
                 /\ conn'[d].prev = IF conn[c].functor /\ d = conn[c].next THEN NodeOf(o)
                                                                           ELSE conn[d].prev
           /\ SameLists
           /\ node' \in [Objects -> Ids \cup {0}] /\ node'[o] = conn[c].next
           /\ \A p \in Objects \ {o} : node'[p] = node[p]
           /\ Resume(t, Top(t), conn[c].functor)
<1>1. /\ TypeOK /\ PointersOK /\ Calling(t) /\ Top(t).kind = "senders" /\ Top(t).pc = "both"
      /\ Top(t).obj \in Objects /\ Top(t) \in FrameType /\ SendersOK(t, Top(t))
  BY AtFacts DEF FrameOK, CallInv
<1>2. PICK p \in Objects : p = Top(t).peer
  BY <1>1 DEF SendersOK, RelockPcs
<1>3. o \in Objects /\ c # 0 /\ c \in Made /\ c \in Ids /\ conn[c].sender = p
  BY <1>1, <1>2 DEF WrongMutex, PointersOK, Made
<1> DEFINE new(d) == [conn[d] EXCEPT
                         !.receiver = IF d = c THEN Nobody ELSE @,
                         !.functor = @ /\ d # c,
                         !.prev = IF conn[c].functor /\ d = conn[c].next THEN NodeOf(o) ELSE @]
<1>4. conn' = [d \in Ids |-> new(d)]
  BY Zenon DEF SendersBoth
<1>5. ASSUME NEW d \in Ids
      PROVE  /\ new(d) \in ConnectionType /\ new(d).sender = conn[d].sender
             /\ new(d).receiver = IF d = c THEN Nobody ELSE conn[d].receiver
             /\ new(d).next = conn[d].next /\ new(d).ref = conn[d].ref
             /\ new(d).prev = IF conn[c].functor /\ d = conn[c].next THEN NodeOf(o)
                                                                      ELSE conn[d].prev
  <2>1. conn[d] \in ConnectionType
    BY <1>1, ConnFacts
  <2> DEFINE a == IF d = c THEN Nobody ELSE conn[d].receiver
             b == conn[d].functor /\ d # c
             e == IF conn[c].functor /\ d = conn[c].next THEN NodeOf(o) ELSE conn[d].prev
  <2>2. a \in Objects \cup {Nobody} /\ e \in PointerType
    BY <1>3, <2>1 DEF ConnectionType, PointerType
  <2>3. b \in BOOLEAN
    BY <2>1 DEF ConnectionType
  <2>4. new(d) = [conn[d] EXCEPT !.receiver = a, !.functor = b, !.prev = e]
    BY Zenon
  <2> HIDE DEF a, b, e, new
  <2>5. /\ new(d) \in ConnectionType /\ new(d).sender = conn[d].sender /\ new(d).receiver = a
        /\ new(d).next = conn[d].next /\ new(d).ref = conn[d].ref /\ new(d).prev = e
    BY <2>1, <2>2, <2>3, <2>4 DEF ConnectionType
  <2> QED
    BY <2>5 DEF a, e
<1> HIDE DEF new
<1>6. conn' \in [Ids -> ConnectionType] /\ \A d \in Ids : conn'[d] = new(d)
  BY <1>4, <1>5
<1>7. SameLists
  <2>1. lists' = IF Attached(p) THEN [lists EXCEPT ![p].dirty = TRUE] ELSE lists
    BY <1>2 DEF SendersBoth
  <2>2. PICK list : list = [lists[p] EXCEPT !.dirty = TRUE]
    OBVIOUS
  <2>3. /\ list \in ListType /\ list.seq = lists[p].seq /\ list.state = lists[p].state
        /\ list.inUse = lists[p].inUse
    BY <1>1, <2>2, ListedFacts DEF ListType
  <2>4. lists' = IF Attached(p) THEN [lists EXCEPT ![p] = list] ELSE lists
    BY <2>1, <2>2
  <2> QED
    BY <1>1, <2>3, <2>4 DEF SameLists, TypeOK
<1>8. /\ node' \in [Objects -> Ids \cup {0}] /\ node'[o] = conn[c].next
      /\ \A q \in Objects \ {o} : node'[q] = node[q]
  <2>1. node' = [node EXCEPT ![o] = conn[c].next]
    BY DEF SendersBoth
  <2> QED
    BY <1>1, <1>3, <2>1, ConnFacts DEF TypeOK
<1>9. Resume(t, Top(t), conn[c].functor)
  BY DEF SendersBoth
<1> QED
  BY <1>2, <1>3, <1>5, <1>6, <1>7, <1>8, <1>9

\* SendersBoth keeps CallInv.
LEMMA CallSendersBoth ==
    ASSUME CallInv, NEW t \in Threads, SendersBoth(t)
    PROVE  CallInv'
<1>1. At(t, {"senders"}, "both") /\ UNCHANGED <<handles, head, status>>
  BY DEF SendersBoth
<1>2. /\ TypeOK /\ PointersOK /\ Calling(t) /\ Top(t).kind = "senders" /\ Top(t).pc = "both"
      /\ Top(t).obj \in Objects /\ Top(t) \in FrameType /\ SendersOK(t, Top(t))
  BY <1>1, AtFacts DEF FrameOK, CallInv
<1>3. PICK functor : /\ Resume(t, Top(t), functor) /\ SameLists /\ SameOwners
  <2>1. CASE WrongMutex(Top(t))
    <3>1. Resume(t, Top(t), FALSE) /\ UNCHANGED <<conn, lists, node>>
      BY <2>1 DEF SendersBoth
    <3>2. SameLists /\ SameOwners
      BY <1>1, <3>1, NothingChanged DEF listVars
    <3> QED
      BY <3>1, <3>2
  <2>2. CASE ~WrongMutex(Top(t))
    <3>1. PICK o, c : o = Top(t).obj /\ c = node[o]
      OBVIOUS
    <3>2. /\ c \in Made
          /\ conn' \in [Ids -> ConnectionType] /\ SendersSame
          /\ \A d \in Ids : conn'[d].next = conn[d].next
          /\ SameLists
          /\ node' \in [Objects -> Ids \cup {0}] /\ node'[o] = conn[c].next
          /\ \A p \in Objects \ {o} : node'[p] = node[p]
          /\ Resume(t, Top(t), conn[c].functor)
      BY <1>1, <2>2, <3>1, SendersUnlink DEF SendersSame
    <3>3. \A p \in Objects : node'[p] \in Made \cup {0}
      <4>1. c \in Ids
        BY <3>2 DEF Made
      <4> QED
        BY <1>2, <3>2, <4>1 DEF PointersOK
    <3>4. PointersOK'
      BY <1>1, <1>2, <3>2, <3>3, SameNext
    <3>5. SameOwners
      BY <1>1, <1>2, <3>2, <3>4 DEF SameOwners, TypeOK
    <3> QED
      BY <3>2, <3>5
  <2> QED
    BY <2>1, <2>2
<1>4. At(t, Relocking, "both")
  BY <1>1 DEF At, Relocking
<1>5. PICK g \in FrameType :
          /\ Replace(t, g) /\ g.kind = Top(t).kind /\ g.obj = Top(t).obj
          /\ IF functor THEN g.pc = "functor" ELSE g.pc = "walk"
          /\ holder' \in [Mutexes -> Threads \cup {Nobody}] /\ KeepsMutexes(t)
          /\ \A m \in Locks(g) : holder'[m] = t
  BY <1>2, <1>3, <1>4, ResumeFacts
<1>6. g.pc \in {"walk", "functor"} /\ FrameOK(t, g)
  <2>1. g.pc \in {"walk", "functor"}
    BY <1>5
  <2> QED
    BY <1>2, <1>5, <2>1 DEF FrameOK, SendersOK, RelockPcs
<1> QED
  BY <1>1, <1>2, <1>3, <1>5, <1>6, QuietGo

\* SendersFunctor keeps CallInv.
LEMMA CallSendersFunctor ==
    ASSUME CallInv, NEW t \in Threads, SendersFunctor(t)
    PROVE  CallInv'
<1>1. /\ At(t, {"senders"}, "functor") /\ Free(Top(t).obj) /\ Hold(t, Top(t).obj)
      /\ Replace(t, [Top(t) EXCEPT !.pc = "walk", !.peer = Nobody])
      /\ UNCHANGED <<listVars, status>>
  BY DEF SendersFunctor
<1>2. /\ TypeOK /\ Calling(t) /\ Top(t).kind = "senders" /\ Top(t).pc = "functor"
      /\ Top(t).obj \in Objects /\ Top(t) \in FrameType /\ SendersOK(t, Top(t))
  BY <1>1, AtFacts DEF FrameOK
<1>3. PICK o \in Objects : o = Top(t).obj
  BY <1>2
<1>4. PICK f : f = [Top(t) EXCEPT !.pc = "walk", !.peer = Nobody]
  OBVIOUS
<1>5. f \in FrameType /\ f.kind = "senders" /\ f.obj = o /\ f.pc = "walk" /\ Replace(t, f)
  BY <1>1, <1>2, <1>3, <1>4 DEF FrameType
<1>6. FrameOK(t, f)
  BY <1>2, <1>3, <1>5 DEF FrameOK, SendersOK, RelockPcs
<1>7. Locks(f) \subseteq {Lock[o]} \cup Locks(Top(t)) /\ At(t, Relocking, "functor")
  BY <1>1, <1>5 DEF Locks, At, Relocking
<1> QED
  BY <1>1, <1>2, <1>3, <1>5, <1>6, <1>7, NothingChanged, CallHold

\* QObject::disconnect of a QMetaObject::Connection.
LEMMA DirtyList ==
    ASSUME TypeOK, NEW o \in Objects, lists' = [lists EXCEPT ![o].dirty = TRUE]
    PROVE  SameLists
<1>1. PICK list : list = [lists[o] EXCEPT !.dirty = TRUE]
  OBVIOUS
<1>2. /\ list \in ListType /\ list.seq = lists[o].seq /\ list.state = lists[o].state
      /\ list.inUse = lists[o].inUse
  BY <1>1, ListedFacts DEF ListType
<1>3. lists' = [lists EXCEPT ![o] = list]
  BY <1>1
<1> QED
  BY <1>2, <1>3 DEF SameLists, TypeOK

\* BreakBoth keeps CallInv.
LEMMA CallBreakBoth ==
    ASSUME CallInv, NEW t \in Threads, BreakBoth(t)
    PROVE  CallInv'
<1>1. At(t, {"break"}, "second") /\ HasBoth(t) /\ UNCHANGED <<handles, status>>
  BY DEF BreakBoth
<1>2. /\ TypeOK /\ PointersOK /\ Calling(t)
      /\ Top(t).kind = "break" /\ Top(t).pc = "second"
      /\ Top(t).obj \in Objects /\ Top(t) \in FrameType /\ BreakShape(Top(t))
  BY <1>1, AtFacts DEF FrameOK, CallInv
<1>3. PICK o \in Objects, p \in Objects, c \in Ids :
          o = Top(t).obj /\ p = Top(t).other /\ c = Top(t).c
  BY <1>2 DEF BreakShape
<1>4. /\ lists' = [lists EXCEPT ![o].dirty = TRUE] /\ conn' = Unlinked(c)
      /\ SetPrevious(c) /\ Release({o, p}) /\ GoTo(t, "functor")
  BY <1>3 DEF BreakBoth
<1>5. SameLists
  BY <1>2, <1>4, DirtyList
<1>6. SameOwners
  <2>1. conn' \in [Ids -> ConnectionType] /\ LinkedAs(Unlinked(c))
    BY <1>2, <1>4, UnlinkedFacts DEF LinkedAs
  <2>2. SendersSame /\ PointersOK'
    BY <1>2, <1>4, <2>1, UnlinkedPointers
  <2> QED
    BY <1>1, <1>2, <1>4, <2>1, <2>2, SetPreviousFacts DEF SameOwners, TypeOK
<1>7. holder' \in [Mutexes -> Threads \cup {Nobody}] /\ KeepsMutexes(t)
  <2>1. {o, p} \in SUBSET Objects /\ \A q \in {o, p} : holder[Lock[q]] \in {Nobody, t}
    BY <1>1, <1>3 DEF HasBoth
  <2> QED
    BY <1>2, <1>4, <2>1, ReleaseFacts
<1>8. PICK f \in FrameType : f = [Top(t) EXCEPT !.pc = "functor"]
  BY <1>2 DEF FrameType
<1>9. /\ Replace(t, f) /\ f.kind = "break" /\ f.obj = Top(t).obj /\ f.other = Top(t).other
      /\ f.c = Top(t).c /\ f.pc = "functor"
  BY <1>2, <1>4, <1>8 DEF GoTo, FrameType
<1>10. FrameOK(t, f) /\ Locks(f) = {}
  BY <1>2, <1>9 DEF FrameOK, BreakShape, Locks
<1> QED
  BY <1>1, <1>2, <1>5, <1>6, <1>7, <1>9, <1>10, QuietGo

\* BreakFunctor keeps CallInv.
LEMMA CallBreakFunctor ==
    ASSUME CallInv, NEW t \in Threads, BreakFunctor(t)
    PROVE  CallInv'
<1>1. /\ At(t, {"break"}, "functor") /\ Return(t)
      /\ conn' = Deref(WithoutSlot(conn, Top(t).c), Top(t).c)
      /\ UNCHANGED <<handles, lists, head, node, status, holder>>
  BY DEF BreakFunctor
<1>2. /\ TypeOK /\ PointersOK /\ NumbersOK /\ Calling(t) /\ Suspended
      /\ Top(t).kind = "break" /\ Top(t).pc = "functor" /\ Top(t) \in FrameType
  BY <1>1, AtFacts DEF CallInv
<1>3. SameLists
  BY <1>1, <1>2, UnchangedSame
<1>4. SameOwners
  <2>1. PICK c : c = Top(t).c
    OBVIOUS
  <2>2. conn \in [Ids -> ConnectionType] /\ handles' \subseteq Ids
    BY <1>1, <1>2 DEF TypeOK
  <2>3. /\ WithoutSlot(conn, c) \in [Ids -> ConnectionType]
        /\ Alike(WithoutSlot(conn, c), conn)
    BY <2>2, WithoutSlotFacts
  <2>4. conn' \in [Ids -> ConnectionType] /\ LinkedAs(conn)
    BY <1>1, <2>1, <2>3, DerefLinked
  <2>5. SendersSame /\ PointersOK'
    BY <1>1, <1>2, <2>4, LinkedPointers
  <2> QED
    BY <1>1, <1>2, <2>2, <2>4, <2>5 DEF SameOwners, TypeOK
<1>5. holder' \in [Mutexes -> Threads \cup {Nobody}] /\ KeepsMutexes(t)
  BY <1>1, <1>2 DEF TypeOK, KeepsMutexes
<1>6. PICK n \in Nat : n = Len(stack[t])
  BY <1>2, TopFacts
<1>7. Ends(t, n) /\ stack[t][n] = Top(t)
  BY <1>1, <1>2, <1>6, ReturnTop DEF Top
<1>8. OnlyTop(t, n) /\ Len(stack[t]) = n /\ Len(stack'[t]) # n
  BY <1>6, <1>7 DEF Ends
<1>9. \A q \in Objects : ~Walks(Top(t), q) /\ ~InDestructor(Top(t), q)
  BY <1>2 DEF Walks, InDestructor
<1>10. NumbersOK'
  BY <1>2, <1>4, <1>8, KeptNumbers DEF SameOwners
<1>11. UNCHANGED status
  BY <1>1
<1> QED
  BY <1>3, <1>4, <1>5, <1>7, <1>8, <1>9, <1>10, <1>11, QuietStep

\* Steps of no call: what is counted or kept of connections changes, or nothing.
LEMMA CallReferences ==
    ASSUME CallInv, SameOwners, UNCHANGED <<lists, status, holder, stack>>
    PROVE  CallInv'
<1>1. /\ TypeOK /\ Suspended /\ FramesOK /\ MutexOK /\ DyingOK /\ ListsOK /\ NumbersOK
      /\ SendersSame /\ PointersOK'
  BY DEF CallInv, SameOwners
<1>2. TypeOK'
  BY <1>1 DEF TypeOK, SameOwners
<1>3. Suspended'
  BY <1>1 DEF Suspended
<1>4. FramesOK'
  <2>1. ASSUME NEW t \in Threads, NEW k \in 1..Len(stack[t]) PROVE FrameOK(t, stack[t][k])'
    <3>1. PICK f \in FrameType : f = stack[t][k]
      BY <1>1, TopFacts
    <3>2. FrameOK(t, f)'
      BY <1>1, <3>1, SameFrame DEF FramesOK
    <3> QED
      BY <3>1, <3>2
  <2> QED
    BY <2>1 DEF FramesOK
<1>5. MutexOK' /\ DyingOK'
  BY <1>1 DEF MutexOK, DyingOK, Destroying, Calling, Top
<1>6. ListsOK'
  <2>1. ASSUME NEW o \in Objects PROVE ListOK(o)'
    <3>1. Walkers(o)' = Walkers(o)
      BY DEF Walkers
    <3>2. ListOK(o) /\ Listed(o) \subseteq Ids
      BY <1>1, ListedFacts DEF ListsOK
    <3> QED
      BY <1>1, <3>1, <3>2, KeptList
  <2> QED
    BY <2>1 DEF ListsOK
<1>7. NumbersOK'
  <2>1. Making' = Making
    BY DEF Making
  <2> QED
    BY <1>1, <2>1, KeptMade DEF NumbersOK
<1> QED
  BY <1>1, <1>2, <1>3, <1>4, <1>5, <1>6, <1>7 DEF CallInv

\* DropHandle keeps CallInv.
LEMMA CallDropHandle ==
    ASSUME CallInv, NEW c \in Made, DropHandle(c)
    PROVE  CallInv'
<1>1. /\ handles' = handles \ {c} /\ conn' = Deref(conn, c)
      /\ UNCHANGED <<lists, head, node, status, holder, stack>>
  BY DEF DropHandle
<1>2. TypeOK /\ PointersOK
  BY DEF CallInv
<1>3. SameOwners
  <2>1. \A p \in Objects : node'[p] \in {node[p], head[p]}
    BY <1>1
  <2>2. conn' \in [Ids -> ConnectionType] /\ SendersSame /\ PointersOK'
    BY <1>1, <1>2, <2>1, KeptPointers
  <2> QED
    BY <1>1, <1>2, <2>2 DEF SameOwners, TypeOK
<1> QED
  BY <1>1, <1>3, CallReferences

-----------------------------------------------------------------------------
\* The calls, in all behaviours.

\* At first there is no call.
LEMMA CallInit == Init => CallInv
<1> SUFFICES ASSUME Init PROVE CallInv
  OBVIOUS
<1>1. /\ \A c \in Ids : conn[c].sender = Nobody /\ conn[c].next = 0
      /\ conn \in [Ids -> ConnectionType]
  <2>1. NextOf(0) \in PointerType
    BY DEF PointerType
  <2> QED
    BY <2>1 DEF Init, ConnectionType
<1>2. /\ lists \in [Objects -> ListType]
      /\ \A o \in Objects : lists[o].seq = <<>> /\ lists[o].inUse = 0 /\ lists[o].state = "none"
  BY DEF Init, NoList, ListType
<1>3. \A t \in Threads : stack[t] = <<>> /\ Len(stack[t]) = 0 /\ ~Calling(t)
  BY DEF Init, Calling
<1>4. \A t \in Threads : 1..Len(stack[t]) = {} /\ 1..(Len(stack[t]) - 1) = {}
  BY <1>3
<1>5. TypeOK
  <2>1. /\ handles \subseteq Ids /\ head \in [Objects -> Ids \cup {0}]
        /\ node \in [Objects -> Ids \cup {0}] /\ status \in [Objects -> {"alive", "dying", "gone"}]
        /\ holder \in [Mutexes -> Threads \cup {Nobody}] /\ stack \in [Threads -> Seq(FrameType)]
    BY DEF Init
  <2> QED
    BY <1>1, <1>2, <1>3, <2>1, IdsFinite DEF TypeOK
<1>6. Suspended /\ FramesOK
  BY <1>4 DEF Suspended, FramesOK
<1>7. MutexOK /\ DyingOK
  BY <1>3 DEF MutexOK, DyingOK, Init
<1>8. Made = {} /\ Newest = 0 /\ Making = {}
  BY <1>1, <1>4, FS_EmptySet DEF Made, Newest, Making
<1>9. NumbersOK
  BY <1>8, FS_EmptySet, IdsFinite DEF NumbersOK
<1>10. PointersOK
  BY <1>1 DEF PointersOK, Init
<1>11. ASSUME NEW o \in Objects PROVE ListOK(o)
  <2>1. Walkers(o) = {}
    BY <1>3 DEF Walkers, Places
  <2>2. Listed(o) = {} /\ Increasing(lists[o].seq)
    BY <1>2 DEF Listed, Elements, Increasing
  <2>3. status[o] = "alive"
    BY DEF Init
  <2> QED
    BY <1>2, <2>1, <2>2, <2>3, FS_EmptySet DEF ListOK
<1> QED
  BY <1>5, <1>6, <1>7, <1>9, <1>10, <1>11 DEF CallInv, ListsOK

\* Every step keeps CallInv.
LEMMA CallNext == CallInv /\ [Next]_vars => CallInv'
<1> SUFFICES ASSUME CallInv, [Next]_vars PROVE CallInv'
  OBVIOUS
<1>1. CASE UNCHANGED vars
  <2>1. /\ UNCHANGED <<conn, head, node>> /\ handles' \subseteq Ids
        /\ UNCHANGED <<lists, status, holder, stack>>
    BY <1>1 DEF vars, listVars, CallInv, TypeOK
  <2> QED
    BY <2>1, UnchangedSame, CallReferences
<1>2. ASSUME NEW t \in Threads, Step(t) PROVE CallInv'
  BY <1>2, CallLockFirst, CallAddConnection, CallEmitBegin, CallVisit, CallQueued,
     CallDisconnectBegin, CallDisconnectWalk, CallDisconnectBoth, CallDisconnectFunctor,
     CallLower, CallUpper, CallDestroyBegin, CallReceiversWalk, CallReceiversBoth,
     CallReceiversFunctor, CallSendersWalk, CallSendersBoth, CallSendersFunctor,
     CallBreakBoth, CallBreakFunctor DEF Step
<1>3. ASSUME NEW t \in Threads, User(t) PROVE CallInv'
  BY <1>3, CallConnect, CallDisconnect, CallEmit, CallDisconnectAll, CallDestroy, CallBreak,
     CallSlotReturns DEF User
<1>4. ASSUME NEW c \in Made, DropHandle(c) PROVE CallInv'
  BY <1>4, CallDropHandle
<1> QED
  BY <1>1, <1>2, <1>3, <1>4 DEF Next

\* Calls, mutexes and lists of connections stay consistent with each other.
THEOREM CallsInvariant == Spec => []CallInv
<1> QED
  BY CallInit, CallNext, PTL DEF Spec

\* What is where is of the right type.
THEOREM TypeCorrect == Spec => []TypeOK
<1>1. CallInv => TypeOK
  BY DEF CallInv
<1> QED
  BY <1>1, CallsInvariant, PTL

\* activate: the signals that are connected while a signal is emitted are not
\* called by that emission.
THEOREM NewOnesLater == Spec => []NotInThisEmission
<1>1. CallInv => NotInThisEmission
  <2> SUFFICES ASSUME CallInv, NEW f \in Frames, f.kind = "emit", f.pc \in {"slot", "copy"}
               PROVE  f.c <= f.newest
    BY DEF NotInThisEmission
  <2>1. PICK t \in Threads : \E k \in 1..Len(stack[t]) : f = stack[t][k]
    BY DEF Frames
  <2>2. f \in FrameType /\ EmitOK(t, f)
    <3>1. TypeOK /\ FramesOK
      BY DEF CallInv
    <3>2. f \in FrameType
      BY <2>1, <3>1, TopFacts
    <3> QED
      BY <2>1, <3>1, <3>2 DEF FramesOK, FrameOK
  <2>3. f.c \in Nat /\ f.last \in Nat /\ f.newest \in Nat
    BY <2>2 DEF FrameType
  <2> QED
    BY <2>2, <2>3 DEF EmitOK
<1> QED
  BY <1>1, CallsInvariant, PTL

-----------------------------------------------------------------------------
\* What a step does to the call on top.

OthersGoOn(t) == \A u \in Threads \ {t} : (Calling(u)' <=> Calling(u)) /\ Top(u)' = Top(u)
NewTop(t, f) == Calling(t)' /\ Top(t)' = f /\ OthersGoOn(t)
Popped(t) == (Calling(t)' => Top(t)'.kind = "emit") /\ OthersGoOn(t)

\* A step of t changes the top of no other thread.
LEMMA OthersFacts ==
    ASSUME NEW t \in Threads, NEW n \in Nat, OnlyTop(t, n)
    PROVE  OthersGoOn(t)
<1>1. \A u \in Threads \ {t} : stack'[u] = stack[u]
  BY DEF OnlyTop
<1> QED
  BY <1>1 DEF OthersGoOn, Calling, Top

\* A call that is replaced is the new top,
LEMMA BecomesTop ==
    ASSUME NEW t \in Threads, NEW n \in Nat, NEW f, Becomes(t, n, f)
    PROVE  NewTop(t, f)
<1>1. OnlyTop(t, n) /\ Len(stack'[t]) = n /\ stack'[t][n] = f
  BY DEF Becomes
<1>2. n # 0 /\ stack'[t] # <<>>
  BY <1>1 DEF OnlyTop
<1> QED
  BY <1>1, <1>2, OthersFacts DEF NewTop, Calling, Top

\* and one that returns leaves an emission on top, or nothing.
LEMMA EndsTop ==
    ASSUME NEW t \in Threads, NEW n \in Nat, Ends(t, n)
    PROVE  Popped(t)
<1>1. OnlyTop(t, n) /\ Len(stack'[t]) = n - 1
  BY DEF Ends
<1>2. Calling(t)' => Top(t)'.kind = "emit"
  <2> SUFFICES ASSUME Calling(t)' PROVE Top(t)'.kind = "emit"
    OBVIOUS
  <2>1. stack'[t] \in Seq(FrameType) /\ stack'[t] # <<>>
    BY <1>1 DEF OnlyTop, Calling
  <2>2. PICK k \in Nat : k = Len(stack'[t])
    BY <2>1
  <2>3. k # 0 /\ k = n - 1
    BY <1>1, <2>1, <2>2
  <2>4. k \in 1..(n - 1)
    BY <2>3
  <2>5. stack'[t][k] = stack[t][k] /\ stack[t][k].kind = "emit"
    BY <1>1, <2>4 DEF OnlyTop
  <2> QED
    BY <2>2, <2>5 DEF Top
<1> QED
  BY <1>1, <1>2, OthersFacts DEF Popped

\* The same of Replace,
LEMMA ReplaceNewTop ==
    ASSUME CallInv, NEW t \in Threads, Calling(t), NEW f \in FrameType, Replace(t, f)
    PROVE  NewTop(t, f)
<1>1. PICK n \in Nat : n = Len(stack[t])
  BY TopFacts DEF CallInv
<1> QED
  BY <1>1, ReplaceTop, BecomesTop DEF CallInv

\* A call that begins is the new top.
LEMMA CallNewTop ==
    ASSUME CallInv, NEW t \in Threads, MayCall(t), NEW f \in FrameType, Call(t, f)
    PROVE  NewTop(t, f)
<1>1. PICK n \in Nat : n = Len(stack[t]) + 1
  BY TopFacts DEF CallInv
<1> QED
  BY <1>1, PushTop, BecomesTop DEF CallInv

\* and of Return.
LEMMA ReturnPopped ==
    ASSUME CallInv, NEW t \in Threads, Calling(t), Return(t)
    PROVE  Popped(t)
<1>1. PICK n \in Nat : n = Len(stack[t])
  BY TopFacts DEF CallInv
<1> QED
  BY <1>1, ReturnTop, EndsTop DEF CallInv

\* Locking again names the peer and changes nothing else in the call.
LEMMA RelockTop ==
    ASSUME CallInv, NEW t \in Threads, Calling(t), NEW f \in FrameType, NEW p \in Objects,
           Relock(t, f, p)
    PROVE  \E g \in FrameType :
               /\ NewTop(t, g) /\ g.kind = f.kind /\ g.obj = f.obj /\ g.other = f.other
               /\ g.c = f.c /\ g.pc \in RelockPcs /\ g.peer = p
<1>1. PICK pc \in RelockPcs : Replace(t, [f EXCEPT !.pc = pc, !.peer = p])
  BY DEF Relock, RelockPcs
<1>2. PICK g : g = [f EXCEPT !.pc = pc, !.peer = p]
  OBVIOUS
<1>3. /\ g \in FrameType /\ g.kind = f.kind /\ g.obj = f.obj /\ g.other = f.other
      /\ g.c = f.c /\ g.pc \in RelockPcs /\ g.peer = p
  BY <1>2 DEF FrameType, RelockPcs
<1> QED
  BY <1>1, <1>2, <1>3, ReplaceNewTop

\* A call that is not one of these has no part in what the invariant says.
Plain(f) == f.kind \in {"emit", "connect", "disconnect", "receivers"}
                /\ ~(f.kind = "receivers" /\ f.pc = "functor")
SameRole(t) ==
    \/ (Calling(t) => Plain(Top(t))) /\ (Calling(t)' => Plain(Top(t)'))
    \/ /\ Calling(t) /\ Calling(t)'
       /\ Top(t).kind \in {"senders", "break"} /\ Top(t)'.kind = Top(t).kind
       /\ Top(t)'.obj = Top(t).obj /\ Top(t)'.other = Top(t).other /\ Top(t)'.c = Top(t).c
       /\ Top(t).pc = "walk" => Top(t)'.pc = "walk"
       /\ Top(t).kind = "break" => Top(t).pc # "functor" /\ Top(t)'.pc # "functor"

\* Destructors of receivers, seen by the connections.
SendersStay == \A r \in Objects : (Sends(r)' <=> Sends(r)) /\ (Walking(r) => Walking(r)')
GoneStay == \A r \in Objects : status'[r] = "gone" <=> status[r] = "gone"

NotSending(t) == /\ Calling(t) => Top(t).kind # "senders"
                 /\ Calling(t)' => Top(t)'.kind # "senders"

\* A step of a thread that is not in the second half of ~QObject.
LEMMA NotSendingStay ==
    ASSUME NEW t \in Threads, OthersGoOn(t), NotSending(t)
    PROVE  SendersStay
<1> SUFFICES ASSUME NEW r \in Objects
             PROVE  (Sends(r)' <=> Sends(r)) /\ (Walking(r) => Walking(r)')
  BY DEF SendersStay
<1>1. Home[r] \in Threads
  BY ConnectionsAssumption
<1> QED
  BY <1>1 DEF OthersGoOn, NotSending, Sends, Walking

\* A step after which the call has the same part in the invariant.
LEMMA RolesStay ==
    ASSUME NEW t \in Threads, OthersGoOn(t), SameRole(t)
    PROVE  /\ SendersStay
           /\ \A u \in Threads : \A c : /\ Dropping(u, c)' <=> Dropping(u, c)
                                        /\ Breaking(u, c)' <=> Breaking(u, c)
<1>1. ASSUME NEW r \in Objects
      PROVE  (Sends(r)' <=> Sends(r)) /\ (Walking(r) => Walking(r)')
  <2>1. Home[r] \in Threads
    BY ConnectionsAssumption
  <2> QED
    BY <2>1 DEF OthersGoOn, SameRole, Plain, Sends, Walking
<1>2. \A u \in Threads : \A c : /\ Dropping(u, c)' <=> Dropping(u, c)
                                /\ Breaking(u, c)' <=> Breaking(u, c)
  BY DEF OthersGoOn, SameRole, Plain, Dropping, Breaking, At
<1> QED
  BY <1>1, <1>2 DEF SendersStay

-----------------------------------------------------------------------------
\* The lists of the receivers.

\* The three kinds of pointers differ.
LEMMA PointerFacts ==
    /\ \A a, b : HeadOf(a) = HeadOf(b) => a = b
    /\ \A a, b : NextOf(a) = NextOf(b) => a = b
    /\ \A a, b : NodeOf(a) = NodeOf(b) => a = b
    /\ \A a, b : HeadOf(a) # NextOf(b) /\ HeadOf(a) # NodeOf(b) /\ NextOf(a) # NodeOf(b)
  BY DEF HeadOf, NextOf, NodeOf

ReceiversSame == \A c \in Ids : /\ conn'[c].receiver = conn[c].receiver
                                /\ conn'[c].next = conn[c].next
                                /\ conn'[c].prev = conn[c].prev

\* A step that changes no pointer keeps the lists of the receivers.
LEMMA KeptReceivers ==
    ASSUME TypeOK, ReceiverListsOK, ReceiversSame, UNCHANGED <<head, node>>, SendersStay, GoneStay
    PROVE  ReceiverListsOK'
<1>1. \A r : Incoming(r)' = Incoming(r)
  BY DEF Incoming, ReceiversSame
<1>2. ASSUME NEW r \in Objects PROVE HeadOK(r)'
  <2>1. HeadOK(r) /\ Incoming(r)' = Incoming(r) /\ (Sends(r)' <=> Sends(r))
        /\ (status'[r] = "gone" <=> status[r] = "gone")
    BY <1>1 DEF ReceiverListsOK, SendersStay, GoneStay
  <2> QED
    BY <2>1 DEF HeadOK, Greatest
<1>3. ASSUME NEW c \in Ids, Connected(c)' PROVE NextOK(c)' /\ PrevOK(c)'
  <2>1. PICK r : r = conn[c].receiver
    OBVIOUS
  <2>2. Connected(c) /\ NextOK(c) /\ PrevOK(c) /\ conn'[c].receiver = r
    BY <1>3, <2>1 DEF ReceiverListsOK, Connected, ReceiversSame
  <2>3. r \in Objects
    BY <2>1, <2>2, ConnFacts
  <2>4. NextOK(c)'
    BY <1>1, <2>1, <2>2 DEF NextOK, Older, Greatest, ReceiversSame
  <2>5. Incoming(r) \subseteq Ids
    BY DEF Incoming
  <2>6. PrevOK(c)'
    <3>1. CASE \E d \in Incoming(r) : conn[c].prev = NextOf(d) /\ conn[d].next = c
      BY <1>1, <2>2, <2>5, <3>1 DEF PrevOK, ReceiversSame
    <3>2. CASE \/ conn[c].prev = HeadOf(r) /\ ~Sends(r) /\ head[r] = c
               \/ conn[c].prev = NodeOf(r) /\ Sends(r) /\ node[r] = c
               \/ Walking(r) /\ node[r] = c
      BY <2>2, <2>3, <3>2 DEF PrevOK, ReceiversSame, SendersStay
    <3> QED
      BY <2>1, <2>2, <3>1, <3>2 DEF PrevOK
  <2> QED
    BY <2>4, <2>6
<1>4. \A c \in Ids : NextOK(c)' /\ PrevOK(c)'
  BY <1>3 DEF NextOK, PrevOK
<1> QED
  BY <1>2, <1>4 DEF ReceiverListsOK

\* A connection leaves its receiver's list by its own pointers.
UnlinkedNow(c) ==
    /\ \A d \in Ids :
          /\ conn'[d].receiver = IF d = c THEN Nobody ELSE conn[d].receiver
          /\ conn'[d].next = IF conn[c].prev = NextOf(d) THEN conn[c].next ELSE conn[d].next
          /\ conn'[d].prev = IF d = conn[c].next THEN conn[c].prev ELSE conn[d].prev
    /\ \A o \in Objects :
          /\ head'[o] = IF conn[c].prev = HeadOf(o) THEN conn[c].next ELSE head[o]
          /\ node'[o] = IF conn[c].prev = NodeOf(o) THEN conn[c].next ELSE node[o]

\* Unlinking c keeps its receiver's list, and every other, in order.
LEMMA UnlinkReceivers ==
    ASSUME TypeOK, ReceiverListsOK, NEW c \in Ids, Connected(c), NEW r, r = conn[c].receiver,
           ~Walking(r), UnlinkedNow(c), SendersStay, GoneStay
    PROVE  ReceiverListsOK'
<1>1. r \in Objects /\ r # Nobody /\ c \in Incoming(r) /\ Incoming(r) \subseteq Ids
  BY ConnFacts, ConnectionsAssumption DEF Connected, Incoming
<1>2. /\ Ids \subseteq Nat /\ 0 \notin Ids /\ c \in Nat /\ c # 0
  BY IdsFinite
<1>3. PICK m, q : m = conn[c].next /\ q = conn[c].prev
  OBVIOUS
<1>4. /\ Incoming(r)' = Incoming(r) \ {c}
      /\ \A p \in Objects \ {r} : Incoming(p)' = Incoming(p) /\ c \notin Incoming(p)
  <2>1. Nobody \notin Objects
    BY ConnectionsAssumption
  <2> QED
    BY <1>1, <2>1 DEF Incoming, UnlinkedNow
<1>5. HeadOK(r) /\ NextOK(c) /\ PrevOK(c) /\ status[r] # "gone"
  BY <1>1 DEF ReceiverListsOK, HeadOK
<1>6. m \in Older(c) \cup {0} /\ \A e \in Older(c) : e <= m
  BY <1>3, <1>5 DEF NextOK, Greatest
<1>7. Older(c) = {e \in Incoming(r) : e < c}
  BY DEF Older
<1>8. \/ \E d \in Incoming(r) : q = NextOf(d) /\ conn[d].next = c
      \/ q = HeadOf(r) /\ ~Sends(r) /\ head[r] = c
      \/ q = NodeOf(r) /\ Sends(r) /\ node[r] = c
  BY <1>3, <1>5 DEF PrevOK
\* What comes after c takes its place.
<1>9. ASSUME NEW S, Greatest(c, S), S \subseteq Incoming(r),
             \A e \in Incoming(r) : e < c => e \in S
      PROVE  Greatest(m, S \ {c})
  <2>1. ASSUME NEW e \in S \ {c} PROVE e \in Older(c)
    <3>1. e \in Incoming(r) /\ e \in Nat /\ e <= c /\ e # c
      BY <1>1, <1>2, <1>9 DEF Greatest
    <3>2. e < c
      BY <1>2, <3>1
    <3> QED
      BY <1>7, <3>1, <3>2
  <2>2. m \in (S \ {c}) \cup {0}
    <3>1. ASSUME m \in Older(c) PROVE m \in S \ {c}
      <4>1. m \in Incoming(r) /\ m < c
        BY <1>7, <3>1
      <4>2. m # c
        BY <1>2, <4>1
      <4> QED
        BY <1>9, <4>1, <4>2
    <3> QED
      BY <1>6, <3>1
  <2> QED
    BY <1>6, <2>1, <2>2 DEF Greatest
<1>10. ASSUME NEW S, NEW e, Greatest(e, S), e # c
       PROVE  Greatest(e, S \ {c})
  BY <1>10 DEF Greatest
<1>11. ASSUME NEW d \in Incoming(r)
       PROVE  /\ NextOK(d) /\ Older(d) = {e \in Incoming(r) : e < d} /\ d \in Ids /\ d \in Nat
              /\ Greatest(conn[d].next, Older(d))
  <2>1. d \in Ids /\ conn[d].receiver = r /\ Connected(d)
    BY <1>1, <1>11 DEF Incoming, Connected
  <2> QED
    BY <1>2, <2>1 DEF ReceiverListsOK, NextOK, Older
<1>12. ASSUME NEW d \in Incoming(r) PROVE conn[d].next = c <=> q = NextOf(d)
  <2>1. ASSUME NEW e \in Incoming(r), conn[e].next = c PROVE c < e
    <3>1. c \in Older(e)
      BY <1>2, <1>11, <2>1 DEF Greatest
    <3> QED
      BY <1>11, <3>1
  <2>2. ASSUME NEW e \in Incoming(r), NEW d1 \in Incoming(r), conn[e].next = c, conn[d1].next = c
        PROVE  ~(d1 < e)
    <3>1. d1 < e => d1 \in Older(e)
      BY <1>11
    <3>2. d1 < e => d1 <= c
      BY <1>11, <2>2, <3>1 DEF Greatest
    <3>3. c < d1 /\ d1 \in Nat
      BY <1>11, <2>1, <2>2
    <3> QED
      BY <1>2, <3>2, <3>3
  <2>3. CASE \E e \in Incoming(r) : q = NextOf(e) /\ conn[e].next = c
    <3>1. PICK e \in Incoming(r) : q = NextOf(e) /\ conn[e].next = c
      BY <2>3
    <3>2. ASSUME conn[d].next = c PROVE d = e
      <4>1. ~(d < e) /\ ~(e < d)
        BY <2>2, <3>1, <3>2
      <4>2. d \in Nat /\ e \in Nat
        BY <1>11
      <4> QED
        BY <4>1, <4>2
    <3>3. q = NextOf(d) => d = e
      BY <3>1, PointerFacts
    <3> QED
      BY <3>1, <3>2, <3>3
  <2>4. CASE \/ q = HeadOf(r) /\ ~Sends(r) /\ head[r] = c
             \/ q = NodeOf(r) /\ Sends(r) /\ node[r] = c
    <3>1. q # NextOf(d)
      BY <2>4, PointerFacts
    <3>2. Greatest(c, Incoming(r))
      BY <1>5, <2>4 DEF HeadOK
    <3>3. d <= c
      BY <3>2 DEF Greatest
    <3> QED
      BY <1>2, <1>11, <2>1, <3>1, <3>3
  <2> QED
    BY <1>8, <2>3, <2>4
\* The head and the node point to c only if they are what its prev says.
<1>13. /\ ~Sends(r) /\ head[r] = c => q = HeadOf(r)
       /\ Sends(r) /\ node[r] = c => q = NodeOf(r)
  <2>1. ASSUME Greatest(c, Incoming(r)), NEW d \in Incoming(r), q = NextOf(d) PROVE FALSE
    <3>1. conn[d].next = c /\ c \in Older(d)
      BY <1>2, <1>11, <1>12, <2>1 DEF Greatest
    <3>2. c < d /\ d <= c
      BY <1>11, <2>1, <3>1 DEF Greatest
    <3> QED
      BY <1>2, <1>11, <3>2
  <2>2. /\ ~Sends(r) /\ head[r] = c => Greatest(c, Incoming(r))
        /\ Sends(r) /\ node[r] = c => Greatest(c, Incoming(r))
    BY <1>5 DEF HeadOK
  <2> QED
    BY <1>8, <2>1, <2>2
<1>14. ASSUME NEW p \in Objects PROVE HeadOK(p)'
  <2>1. HeadOK(p) /\ (Sends(p)' <=> Sends(p)) /\ (status'[p] = "gone" <=> status[p] = "gone")
    BY DEF ReceiverListsOK, SendersStay, GoneStay
  <2>2. CASE p # r
    <3>1. q # HeadOf(p) /\ q # NodeOf(p)
      BY <1>8, <2>2, PointerFacts
    <3>2. head'[p] = head[p] /\ node'[p] = node[p] /\ Incoming(p)' = Incoming(p)
      BY <1>3, <1>4, <2>2, <3>1 DEF UnlinkedNow
    <3> QED
      BY <2>1, <3>2 DEF HeadOK, Greatest
  <2>3. CASE p = r
    <3>1. Greatest(c, Incoming(r)) => Greatest(m, Incoming(r) \ {c})
      BY <1>9
    <3>2. \A e : Greatest(e, Incoming(r)) /\ e # c => Greatest(e, Incoming(r) \ {c})
      BY <1>10
    <3>3. ASSUME Sends(r) PROVE Greatest(node'[r], Incoming(r) \ {c})
      <4>1. Greatest(node[r], Incoming(r)) /\ node'[r] = IF q = NodeOf(r) THEN m ELSE node[r]
        BY <1>1, <1>3, <1>5, <3>3 DEF HeadOK, UnlinkedNow
      <4>2. q = NodeOf(r) <=> node[r] = c
        BY <1>8, <1>13, <3>3, PointerFacts
      <4> QED
        BY <3>1, <3>2, <4>1, <4>2
    <3>4. ASSUME ~Sends(r) PROVE Greatest(head'[r], Incoming(r) \ {c})
      <4>1. Greatest(head[r], Incoming(r)) /\ head'[r] = IF q = HeadOf(r) THEN m ELSE head[r]
        BY <1>1, <1>3, <1>5, <3>4 DEF HeadOK, UnlinkedNow
      <4>2. q = HeadOf(r) <=> head[r] = c
        BY <1>8, <1>13, <3>4, PointerFacts
      <4> QED
        BY <3>1, <3>2, <4>1, <4>2
    <3>5. Incoming(r)' = Incoming(r) \ {c}
      BY <1>4
    <3> QED
      BY <1>5, <2>1, <2>3, <3>3, <3>4, <3>5 DEF HeadOK, Greatest
  <2> QED
    BY <2>2, <2>3
<1>15. ASSUME NEW e \in Ids, Connected(e)' PROVE NextOK(e)'
  <2>1. PICK p : p = conn[e].receiver
    OBVIOUS
  <2>2. /\ e # c /\ conn'[e].receiver = p /\ Connected(e) /\ NextOK(e) /\ p \in Objects
        /\ e \in Incoming(p) /\ Greatest(conn[e].next, Older(e))
    <3>1. e # c /\ conn'[e].receiver = p /\ Connected(e)
      BY <1>15, <2>1 DEF UnlinkedNow, Connected
    <3> QED
      BY <2>1, <3>1, ConnFacts DEF ReceiverListsOK, Incoming, NextOK
  <2>3. conn'[e].next = IF q = NextOf(e) THEN m ELSE conn[e].next
    BY <1>3 DEF UnlinkedNow
  <2>4. CASE p # r
    <3>1. q # NextOf(e)
      <4>1. e \notin Incoming(r)
        BY <2>1, <2>4 DEF Incoming
      <4> QED
        BY <1>8, <4>1, PointerFacts
    <3>2. Older(e)' = Older(e)
      BY <1>4, <2>1, <2>2, <2>4 DEF Older
    <3> QED
      BY <2>2, <2>3, <3>1, <3>2 DEF NextOK, Greatest
  <2>5. CASE p = r
    <3>1. e \in Incoming(r) /\ Older(e) = {x \in Incoming(r) : x < e} /\ e \in Nat
      BY <1>11, <2>2, <2>5
    <3>2. Older(e)' = Older(e) \ {c}
      BY <1>4, <2>1, <2>2, <2>5 DEF Older
    <3>3. CASE q = NextOf(e)
      <4>1. conn[e].next = c
        BY <1>12, <3>1, <3>3
      <4>2. c < e /\ Greatest(c, Older(e))
        <5>1. Greatest(c, Older(e))
          BY <2>2, <4>1
        <5> QED
          BY <1>2, <3>1, <5>1 DEF Greatest
      <4>3. Older(e) \subseteq Incoming(r) /\ \A x \in Incoming(r) : x < c => x \in Older(e)
        BY <1>1, <1>2, <3>1, <4>2
      <4>4. Greatest(m, Older(e) \ {c})
        BY <1>9, <4>2, <4>3
      <4> QED
        BY <2>3, <3>2, <3>3, <4>4 DEF NextOK, Greatest
    <3>4. CASE q # NextOf(e)
      <4>1. conn[e].next # c
        BY <1>12, <3>1, <3>4
      <4>2. Greatest(conn[e].next, Older(e) \ {c})
        BY <1>10, <2>2, <4>1
      <4> QED
        BY <2>3, <3>2, <3>4, <4>2 DEF NextOK, Greatest
    <3> QED
      BY <3>3, <3>4
  <2> QED
    BY <2>4, <2>5
<1>16. ASSUME NEW e \in Ids, Connected(e)' PROVE PrevOK(e)'
  <2>1. PICK p : p = conn[e].receiver
    OBVIOUS
  <2>2. /\ e # c /\ conn'[e].receiver = p /\ Connected(e) /\ PrevOK(e) /\ p \in Objects
        /\ e \in Incoming(p)
    <3>1. e # c /\ conn'[e].receiver = p /\ Connected(e)
      BY <1>16, <2>1 DEF UnlinkedNow, Connected
    <3> QED
      BY <2>1, <3>1, ConnFacts DEF ReceiverListsOK, Incoming
  <2>3. conn'[e].prev = IF e = m THEN q ELSE conn[e].prev
    BY <1>3 DEF UnlinkedNow
  <2>4. /\ head'[p] = IF q = HeadOf(p) THEN m ELSE head[p]
        /\ node'[p] = IF q = NodeOf(p) THEN m ELSE node[p]
        /\ \A d \in Ids : conn'[d].next = IF q = NextOf(d) THEN m ELSE conn[d].next
    BY <1>3, <2>2 DEF UnlinkedNow
  <2>5. (Sends(p)' <=> Sends(p)) /\ (Walking(p) => Walking(p)')
    BY <2>2 DEF SendersStay
  <2>6. CASE e = m
    <3>1. m \in Incoming(r) /\ p = r
      <4>1. m \in Incoming(r)
        BY <1>2, <1>6, <1>7, <2>6
      <4> QED
        BY <2>1, <2>6, <4>1 DEF Incoming
    <3>2. CASE \E d \in Incoming(r) : q = NextOf(d) /\ conn[d].next = c
      <4>1. PICK d \in Incoming(r) : q = NextOf(d) /\ conn[d].next = c
        BY <3>2
      <4>2. d # c /\ d \in Ids
        <5>1. c \in Older(d)
          BY <1>2, <1>11, <4>1 DEF Greatest
        <5> QED
          BY <1>2, <1>11, <5>1
      <4>3. d \in Incoming(r)' /\ conn'[d].next = m /\ conn'[e].prev = NextOf(d)
        BY <1>4, <2>3, <2>4, <2>6, <4>1, <4>2
      <4> QED
        BY <2>2, <2>6, <3>1, <4>3 DEF PrevOK
    <3>3. CASE q = HeadOf(r) /\ ~Sends(r) /\ head[r] = c
      BY <2>2, <2>3, <2>4, <2>5, <2>6, <3>1, <3>3 DEF PrevOK
    <3>4. CASE q = NodeOf(r) /\ Sends(r) /\ node[r] = c
      BY <2>2, <2>3, <2>4, <2>5, <2>6, <3>1, <3>4 DEF PrevOK
    <3> QED
      BY <1>8, <3>2, <3>3, <3>4
  <2>7. CASE e # m
    <3>1. conn'[e].prev = conn[e].prev
      BY <2>3, <2>7
    <3>2. CASE \E d \in Incoming(p) : conn[e].prev = NextOf(d) /\ conn[d].next = e
      <4>1. PICK d \in Incoming(p) : conn[e].prev = NextOf(d) /\ conn[d].next = e
        BY <3>2
      <4>2. d # c /\ d \in Ids
        BY <1>3, <2>7, <4>1 DEF Incoming
      <4>3. d \in Incoming(p)'
        BY <1>4, <2>2, <4>1, <4>2
      <4>4. q # NextOf(d)
        <5>1. q = NextOf(d) => d \in Incoming(r)
          BY <1>8, PointerFacts
        <5>2. q = NextOf(d) => conn[d].next = c
          BY <1>12, <5>1
        <5> QED
          BY <2>2, <4>1, <5>2
      <4>5. conn'[d].next = e
        BY <2>4, <4>1, <4>2, <4>4
      <4> QED
        BY <2>2, <3>1, <4>1, <4>3, <4>5 DEF PrevOK
    <3>3. CASE conn[e].prev = HeadOf(p) /\ ~Sends(p) /\ head[p] = e
      <4>1. q # HeadOf(p)
        BY <1>8, <2>2, <3>3, PointerFacts
      <4> QED
        BY <2>2, <2>4, <2>5, <3>1, <3>3, <4>1 DEF PrevOK
    <3>4. CASE conn[e].prev = NodeOf(p) /\ Sends(p) /\ node[p] = e
      <4>1. q # NodeOf(p)
        BY <1>8, <2>2, <3>4, PointerFacts
      <4> QED
        BY <2>2, <2>4, <2>5, <3>1, <3>4, <4>1 DEF PrevOK
    <3>5. CASE Walking(p) /\ node[p] = e
      <4>1. q # NodeOf(p)
        BY <1>8, <2>2, <3>5, PointerFacts
      <4> QED
        BY <2>2, <2>4, <2>5, <3>5, <4>1 DEF PrevOK
    <3> QED
      BY <2>1, <2>2, <3>2, <3>3, <3>4, <3>5 DEF PrevOK
  <2> QED
    BY <2>6, <2>7
<1>17. \A e \in Ids : NextOK(e)' /\ PrevOK(e)'
  BY <1>15, <1>16 DEF NextOK, PrevOK
<1> QED
  BY <1>14, <1>17 DEF ReceiverListsOK

\* One receiver at a time.
ReceiverOK(r) == HeadOK(r) /\ \A c \in Incoming(r) : NextOK(c) /\ PrevOK(c)

\* The lists of the receivers are right if each of them is,
LEMMA OneByOne ==
    ASSUME TypeOK
    PROVE  ReceiverListsOK <=> \A r \in Objects : ReceiverOK(r)
<1>1. ASSUME NEW r \in Objects, NEW c \in Incoming(r) PROVE c \in Ids /\ Connected(c)
  BY <1>1, ConnectionsAssumption DEF Incoming, Connected
<1>2. ASSUME NEW c \in Ids, Connected(c)
      PROVE  conn[c].receiver \in Objects /\ c \in Incoming(conn[c].receiver)
  BY <1>2, ConnFacts DEF Incoming
<1>3. ReceiverListsOK => \A r \in Objects : ReceiverOK(r)
  BY <1>1 DEF ReceiverListsOK, ReceiverOK
<1>4. ASSUME \A r \in Objects : ReceiverOK(r) PROVE ReceiverListsOK
  <2>1. ASSUME NEW c \in Ids, Connected(c) PROVE NextOK(c) /\ PrevOK(c)
    BY <1>2, <1>4, <2>1 DEF ReceiverOK
  <2>2. \A c \in Ids : NextOK(c) /\ PrevOK(c)
    BY <2>1 DEF NextOK, PrevOK
  <2> QED
    BY <1>4, <2>2 DEF ReceiverListsOK, ReceiverOK
<1> QED
  BY <1>3, <1>4

\* also after a step.
LEMMA OneByOneNext ==
    ASSUME TypeOK', \A r \in Objects : ReceiverOK(r)'
    PROVE  ReceiverListsOK'
<1>1. ASSUME NEW c \in Ids, Connected(c)'
      PROVE  conn'[c].receiver \in Objects /\ c \in Incoming(conn[c].receiver)'
  <2>1. conn'[c] \in ConnectionType
    BY DEF TypeOK
  <2> QED
    BY <1>1, <2>1 DEF Incoming, ConnectionType, Connected
<1>2. ASSUME NEW c \in Ids, Connected(c)' PROVE NextOK(c)' /\ PrevOK(c)'
  <2>1. PICK r \in Objects : r = conn'[c].receiver
    BY <1>1, <1>2
  <2>2. ReceiverOK(r)' /\ c \in Incoming(r)'
    BY <1>1, <1>2, <2>1
  <2> QED
    BY <2>2 DEF ReceiverOK
<1>3. \A c \in Ids : NextOK(c)' /\ PrevOK(c)'
  BY <1>2 DEF NextOK, PrevOK
<1> QED
  BY <1>3 DEF ReceiverListsOK, ReceiverOK

SameReceiver(r) ==
    /\ Incoming(r)' = Incoming(r) /\ head'[r] = head[r] /\ node'[r] = node[r]
    /\ \A c \in Incoming(r) : conn'[c].next = conn[c].next /\ conn'[c].prev = conn[c].prev
    /\ (Sends(r)' <=> Sends(r)) /\ (Walking(r) => Walking(r)')
    /\ status'[r] = "gone" <=> status[r] = "gone"

\* A receiver whose list a step leaves alone.
LEMMA KeptReceiver ==
    ASSUME NEW r \in Objects, ReceiverOK(r), SameReceiver(r)
    PROVE  ReceiverOK(r)'
<1>1. HeadOK(r)'
  BY DEF ReceiverOK, SameReceiver, HeadOK, Greatest
<1>2. ASSUME NEW c \in Incoming(r) PROVE NextOK(c)' /\ PrevOK(c)'
  <2>1. /\ conn[c].receiver = r /\ conn'[c].receiver = r /\ c \in Incoming(r)'
        /\ NextOK(c) /\ PrevOK(c)
    <3>1. c \in Incoming(r)' /\ NextOK(c) /\ PrevOK(c)
      BY <1>2 DEF SameReceiver, ReceiverOK
    <3> QED
      BY <3>1 DEF Incoming
  <2>2. Connected(c) /\ Connected(c)'
    BY <2>1, ConnectionsAssumption DEF Connected
  <2>3. NextOK(c)'
    BY <2>1, <2>2 DEF NextOK, Older, Greatest, SameReceiver
  <2>4. PrevOK(c)'
    <3>1. conn'[c].prev = conn[c].prev
      BY DEF SameReceiver
    <3>2. CASE \E d \in Incoming(r) : conn[c].prev = NextOf(d) /\ conn[d].next = c
      <4>1. PICK d \in Incoming(r) : conn[c].prev = NextOf(d) /\ conn[d].next = c
        BY <3>2
      <4>2. d \in Incoming(r)' /\ conn'[d].next = c
        BY <4>1 DEF SameReceiver
      <4> QED
        BY <2>1, <3>1, <4>1, <4>2 DEF PrevOK
    <3>3. CASE conn[c].prev = HeadOf(r) /\ ~Sends(r) /\ head[r] = c
      BY <2>1, <3>1, <3>3 DEF PrevOK, SameReceiver
    <3>4. CASE conn[c].prev = NodeOf(r) /\ Sends(r) /\ node[r] = c
      BY <2>1, <3>1, <3>4 DEF PrevOK, SameReceiver
    <3>5. CASE Walking(r) /\ node[r] = c
      BY <2>1, <3>5 DEF PrevOK, SameReceiver
    <3> QED
      BY <2>1, <2>2, <3>2, <3>3, <3>4, <3>5 DEF PrevOK
  <2> QED
    BY <2>3, <2>4
<1>3. \A c \in Incoming(r)' : NextOK(c)' /\ PrevOK(c)'
  BY <1>2 DEF SameReceiver
<1> QED
  BY <1>1, <1>3 DEF ReceiverOK

\* The destructor comes to the second loop: the variable node takes the place
\* of the head, while it holds the mutex.
LEMMA ToSendersReceiver ==
    ASSUME NEW o \in Objects, ReceiverOK(o), ~Sends(o), Walking(o)',
           status[o] # "gone", status'[o] # "gone", ReceiversSame, node'[o] = head[o]
    PROVE  ReceiverOK(o)'
<1>1. Incoming(o)' = Incoming(o) /\ Sends(o)' /\ Incoming(o) \subseteq Ids
  BY DEF Incoming, ReceiversSame, Walking
<1>2. HeadOK(o)'
  <2>1. Greatest(head[o], Incoming(o))
    BY DEF ReceiverOK, HeadOK
  <2> QED
    BY <1>1, <2>1 DEF HeadOK, Greatest
<1>3. ASSUME NEW c \in Incoming(o) PROVE NextOK(c)' /\ PrevOK(c)'
  <2>1. /\ conn[c].receiver = o /\ conn'[c].receiver = o /\ c \in Ids
        /\ NextOK(c) /\ PrevOK(c)
    <3>1. c \in Ids /\ NextOK(c) /\ PrevOK(c)
      BY <1>1, <1>3 DEF ReceiverOK
    <3> QED
      BY <3>1 DEF Incoming, ReceiversSame
  <2>2. Connected(c) /\ Connected(c)'
    BY <2>1, ConnectionsAssumption DEF Connected
  <2>3. NextOK(c)'
    BY <1>1, <2>1, <2>2 DEF NextOK, Older, Greatest, ReceiversSame
  <2>4. PrevOK(c)'
    <3>1. CASE \E d \in Incoming(o) : conn[c].prev = NextOf(d) /\ conn[d].next = c
      <4>1. PICK d \in Incoming(o) : conn[c].prev = NextOf(d) /\ conn[d].next = c
        BY <3>1
      <4>2. d \in Incoming(o)' /\ conn'[d].next = c /\ conn'[c].prev = NextOf(d)
        BY <1>1, <2>1, <4>1 DEF ReceiversSame
      <4> QED
        BY <2>1, <4>2 DEF PrevOK
    <3>2. CASE head[o] = c
      BY <2>1, <3>2 DEF PrevOK
    <3>3. CASE Walking(o) \/ Sends(o)
      BY <3>3 DEF Walking
    <3> QED
      BY <2>1, <2>2, <3>1, <3>2, <3>3 DEF PrevOK
  <2> QED
    BY <2>3, <2>4
<1>4. \A c \in Incoming(o)' : NextOK(c)' /\ PrevOK(c)'
  BY <1>1, <1>3
<1> QED
  BY <1>2, <1>4 DEF ReceiverOK

\* The destructor puts the prev of the connection it is at right, and gives
\* its mutex up.
LEMMA NodeReceiver ==
    ASSUME NEW o \in Objects, ReceiverOK(o), Sends(o), Sends(o)', NEW c \in Ids, c = node[o],
           status[o] # "gone", status'[o] # "gone", UNCHANGED <<head, node>>,
           \A d \in Ids : /\ conn'[d].receiver = conn[d].receiver /\ conn'[d].next = conn[d].next
                          /\ conn'[d].prev = IF d = c THEN NodeOf(o) ELSE conn[d].prev
    PROVE  ReceiverOK(o)'
<1>1. Incoming(o)' = Incoming(o) /\ Incoming(o) \subseteq Ids
  BY DEF Incoming
<1>2. HeadOK(o)'
  <2>1. Greatest(node[o], Incoming(o))
    BY DEF ReceiverOK, HeadOK
  <2> QED
    BY <1>1, <2>1 DEF HeadOK, Greatest
<1>3. ASSUME NEW e \in Incoming(o) PROVE NextOK(e)' /\ PrevOK(e)'
  <2>1. /\ conn[e].receiver = o /\ conn'[e].receiver = o /\ e \in Ids
        /\ NextOK(e) /\ PrevOK(e)
    <3>1. e \in Ids /\ NextOK(e) /\ PrevOK(e)
      BY <1>1, <1>3 DEF ReceiverOK
    <3> QED
      BY <3>1 DEF Incoming
  <2>2. Connected(e) /\ Connected(e)'
    BY <2>1, ConnectionsAssumption DEF Connected
  <2>3. NextOK(e)'
    BY <1>1, <2>1, <2>2 DEF NextOK, Older, Greatest
  <2>4. PrevOK(e)'
    <3>1. CASE e = c
      BY <2>1, <3>1 DEF PrevOK
    <3>2. CASE e # c
      <4>1. PICK d \in Incoming(o) : conn[e].prev = NextOf(d) /\ conn[d].next = e
        BY <2>1, <2>2, <3>2 DEF PrevOK
      <4>2. d \in Incoming(o)' /\ conn'[d].next = e /\ conn'[e].prev = NextOf(d)
        BY <1>1, <2>1, <3>2, <4>1
      <4> QED
        BY <2>1, <4>2 DEF PrevOK
    <3> QED
      BY <3>1, <3>2
  <2> QED
    BY <2>3, <2>4
<1>4. \A e \in Incoming(o)' : NextOK(e)' /\ PrevOK(e)'
  BY <1>1, <1>3
<1> QED
  BY <1>2, <1>4 DEF ReceiverOK

\* The second loop disconnects the connection it is at.
TakenNow(o, c) ==
    /\ \A d \in Ids :
          /\ conn'[d].receiver = IF d = c THEN Nobody ELSE conn[d].receiver
          /\ conn'[d].next = conn[d].next
          /\ d # conn[c].next => conn'[d].prev = conn[d].prev
    /\ node'[o] = conn[c].next
    /\ Walking(o)' \/ \A d \in Ids : d = conn[c].next => conn'[d].prev = NodeOf(o)

\* ~QObject takes the first connection off its list.
LEMMA TakenReceiver ==
    ASSUME NEW o \in Objects, ReceiverOK(o), Sends(o), Sends(o)', ~Walking(o),
           NEW c \in Ids, c = node[o], status'[o] # "gone", TakenNow(o, c)
    PROVE  ReceiverOK(o)' /\ conn[c].receiver = o
<1>1. /\ Ids \subseteq Nat /\ 0 \notin Ids /\ c \in Nat /\ c # 0
      /\ Incoming(o) \subseteq Ids /\ o # Nobody
  BY IdsFinite, ConnectionsAssumption DEF Incoming
<1>2. c \in Incoming(o) /\ \A e \in Incoming(o) : e <= c
  BY <1>1 DEF ReceiverOK, HeadOK, Greatest
<1>3. conn[c].receiver = o /\ Connected(c) /\ NextOK(c)
  BY <1>1, <1>2 DEF Incoming, ReceiverOK, Connected
<1>4. Incoming(o)' = Incoming(o) \ {c}
  BY <1>1 DEF Incoming, TakenNow
<1>5. PICK m : m = conn[c].next
  OBVIOUS
<1>6. /\ Older(c) = {e \in Incoming(o) : e < c}
      /\ m \in Older(c) \cup {0} /\ \A e \in Older(c) : e <= m
  BY <1>3, <1>5 DEF NextOK, Older, Greatest
<1>7. Greatest(m, Incoming(o) \ {c})
  <2>1. ASSUME NEW e \in Incoming(o) \ {c} PROVE e <= m
    <3>1. e < c
      <4>1. e \in Nat /\ e <= c /\ e # c
        BY <1>1, <1>2, <2>1
      <4> QED
        BY <1>1, <4>1
    <3> QED
      BY <1>6, <2>1, <3>1
  <2>2. m \in (Incoming(o) \ {c}) \cup {0}
    <3>1. ASSUME m \in Older(c) PROVE m \in Incoming(o) \ {c}
      BY <1>1, <1>6, <3>1
    <3> QED
      BY <1>6, <3>1
  <2> QED
    BY <2>1, <2>2 DEF Greatest
<1>8. HeadOK(o)'
  BY <1>4, <1>5, <1>7 DEF HeadOK, Greatest, TakenNow
<1>9. ASSUME NEW e \in Incoming(o) \ {c} PROVE NextOK(e)' /\ PrevOK(e)'
  <2>1. /\ conn[e].receiver = o /\ conn'[e].receiver = o /\ e \in Ids
        /\ NextOK(e) /\ PrevOK(e) /\ conn'[e].next = conn[e].next
    <3>1. e \in Ids /\ NextOK(e) /\ PrevOK(e)
      BY <1>1, <1>9 DEF ReceiverOK
    <3> QED
      BY <1>9, <3>1 DEF Incoming, TakenNow
  <2>2. Connected(e) /\ Connected(e)'
    BY <1>1, <2>1 DEF Connected
  <2>3. Older(e)' = Older(e)
    <3>1. Older(e) = {x \in Incoming(o) : x < e} /\ Older(e)' = {x \in Incoming(o) \ {c} : x < e}
      BY <1>4, <2>1 DEF Older
    <3>2. ~(c < e)
      BY <1>1, <1>2, <1>9
    <3> QED
      BY <3>1, <3>2
  <2>4. NextOK(e)'
    BY <2>1, <2>2, <2>3 DEF NextOK, Greatest
  <2>5. CASE e = m
    BY <1>5, <2>1, <2>4, <2>5 DEF PrevOK, TakenNow
  <2>6. CASE e # m
    <3>1. PICK d \in Incoming(o) : conn[e].prev = NextOf(d) /\ conn[d].next = e
      BY <1>9, <2>1, <2>2 DEF PrevOK
    <3>2. d # c /\ d \in Ids
      BY <1>1, <1>5, <2>6, <3>1
    <3>3. d \in Incoming(o)' /\ conn'[d].next = e /\ conn'[e].prev = NextOf(d)
      BY <1>4, <1>5, <2>1, <2>6, <3>1, <3>2 DEF TakenNow
    <3> QED
      BY <2>1, <2>4, <3>3 DEF PrevOK
  <2> QED
    BY <2>4, <2>5, <2>6
<1>10. \A e \in Incoming(o)' : NextOK(e)' /\ PrevOK(e)'
  BY <1>4, <1>9
<1> QED
  BY <1>3, <1>8, <1>10 DEF ReceiverOK

\* A new connection becomes the head.
AddedNow(r, c) ==
    /\ conn'[c].receiver = r /\ conn'[c].next = head[r] /\ conn'[c].prev = HeadOf(r)
    /\ \A d \in Ids \ {c} : /\ conn'[d].receiver = conn[d].receiver /\ conn'[d].next = conn[d].next
                            /\ conn'[d].prev = IF d = head[r] THEN NextOf(c) ELSE conn[d].prev
    /\ head'[r] = c

\* A new connection becomes the first of its list.
LEMMA AddedReceiver ==
    ASSUME NEW r \in Objects, ReceiverOK(r), ~Sends(r), ~Sends(r)',
           status[r] # "gone", status'[r] # "gone",
           NEW c \in Ids, \A d \in Incoming(r) : d < c, AddedNow(r, c)
    PROVE  ReceiverOK(r)'
<1>1. /\ Ids \subseteq Nat /\ 0 \notin Ids /\ c \in Nat /\ c # 0
      /\ Incoming(r) \subseteq Ids /\ r # Nobody
  BY IdsFinite, ConnectionsAssumption DEF Incoming
<1>2. c \notin Incoming(r) /\ \A d \in Incoming(r) : d # c /\ d < c /\ d <= c
  <2>1. ASSUME NEW d \in Incoming(r) PROVE d # c /\ d < c /\ d <= c
    <3>1. d \in Nat /\ d < c
      BY <1>1, <2>1
    <3> QED
      BY <1>1, <3>1
  <2> QED
    BY <2>1
<1>3. Incoming(r)' = Incoming(r) \cup {c}
  <2>1. \A d \in Ids : conn'[d].receiver = r <=> conn[d].receiver = r \/ d = c
    BY DEF AddedNow
  <2> QED
    BY <2>1 DEF Incoming
<1>4. PICK m : m = head[r]
  OBVIOUS
<1>5. Greatest(m, Incoming(r)) /\ m # c
  BY <1>1, <1>2, <1>4 DEF ReceiverOK, HeadOK, Greatest
<1>6. HeadOK(r)'
  <2>1. Greatest(c, Incoming(r) \cup {c})
    BY <1>1, <1>2 DEF Greatest
  <2> QED
    BY <1>3, <2>1 DEF HeadOK, Greatest, AddedNow
<1>7. NextOK(c)' /\ PrevOK(c)'
  <2>1. Older(c)' = Incoming(r)
    <3>1. Older(c)' = {e \in Incoming(r) \cup {c} : e < c}
      BY <1>3 DEF Older, AddedNow
    <3>2. ~(c < c)
      BY <1>1
    <3> QED
      BY <1>2, <3>1, <3>2
  <2>2. conn'[c].next = m
    BY <1>4 DEF AddedNow
  <2>3. NextOK(c)'
    BY <1>5, <2>1, <2>2 DEF NextOK, Greatest
  <2>4. PrevOK(c)'
    BY DEF PrevOK, AddedNow
  <2> QED
    BY <2>3, <2>4
<1>8. ASSUME NEW e \in Incoming(r) PROVE NextOK(e)' /\ PrevOK(e)'
  <2>1. /\ conn[e].receiver = r /\ conn'[e].receiver = r /\ e \in Ids /\ e # c
        /\ NextOK(e) /\ PrevOK(e) /\ conn'[e].next = conn[e].next
    <3>1. e \in Ids /\ e # c /\ NextOK(e) /\ PrevOK(e)
      BY <1>1, <1>2, <1>8 DEF ReceiverOK
    <3> QED
      BY <1>8, <3>1 DEF Incoming, AddedNow
  <2>2. Connected(e) /\ Connected(e)'
    BY <1>1, <2>1 DEF Connected
  <2>3. Older(e)' = Older(e)
    <3>1. Older(e) = {x \in Incoming(r) : x < e} /\ Older(e)' = {x \in Incoming(r) \cup {c} : x < e}
      BY <1>3, <2>1 DEF Older
    <3>2. ~(c < e)
      <4>1. e \in Nat /\ e < c
        BY <1>1, <1>2, <1>8
      <4> QED
        BY <1>1, <4>1
    <3> QED
      BY <3>1, <3>2
  <2>4. NextOK(e)'
    BY <2>1, <2>2, <2>3 DEF NextOK, Greatest
  <2>5. CASE e = m
    <3>1. conn'[e].prev = NextOf(c) /\ conn'[c].next = e /\ c \in Incoming(r)'
      BY <1>3, <1>4, <2>1, <2>5 DEF AddedNow
    <3> QED
      BY <2>1, <2>4, <3>1 DEF PrevOK
  <2>6. CASE e # m
    <3>1. ~Walking(r)
      BY DEF Walking
    <3>2. PICK d \in Incoming(r) : conn[e].prev = NextOf(d) /\ conn[d].next = e
      BY <1>4, <2>1, <2>2, <2>6, <3>1 DEF PrevOK
    <3>3. d \in Ids \ {c}
      BY <1>1, <1>2, <3>2
    <3>4. d \in Incoming(r)' /\ conn'[d].next = e /\ conn'[e].prev = NextOf(d)
      BY <1>3, <1>4, <2>1, <2>6, <3>2, <3>3 DEF AddedNow
    <3> QED
      BY <2>1, <2>4, <3>4 DEF PrevOK
  <2> QED
    BY <2>5, <2>6
<1>9. \A e \in Incoming(r)' : NextOK(e)' /\ PrevOK(e)'
  BY <1>3, <1>7, <1>8
<1> QED
  BY <1>6, <1>9 DEF ReceiverOK

-----------------------------------------------------------------------------
\* The lists of the senders, the relocks, the references and the handles.

\* A connection stays in the list of its sender until it is disconnected.
LEMMA KeptSenders ==
    ASSUME SenderListsOK, TypeOK, SendersSame,
           \A c \in Ids : Connected(c)' => Connected(c),
           \A o \in Objects : \A c \in Listed(o) : c \in Listed(o)' \/ ~Connected(c)'
    PROVE  SenderListsOK'
<1> SUFFICES ASSUME NEW c \in Ids, Connected(c)' PROVE c \in Made' /\ c \in Listed(conn[c].sender)'
  BY DEF SenderListsOK
<1>1. Connected(c) /\ c \in Made /\ c \in Listed(conn[c].sender)
  BY DEF SenderListsOK
<1>2. PICK s \in Objects : s = conn[c].sender
  BY <1>1, ConnFacts DEF Made
<1>3. conn'[c].sender = s /\ c \in Made' /\ c \in Listed(s)'
  BY <1>1, <1>2, KeptMade DEF SendersSame
<1> QED
  BY <1>3

\* The connection that a relock is for was made.
LEMMA RelockMade ==
    ASSUME CallInv, NEW t \in Threads, Calling(t), Top(t).kind \in {"disconnect", "receivers"},
           Top(t).pc \in RelockPcs
    PROVE  Top(t).c \in Made /\ Top(t).c \in Listed(Top(t).obj) /\ Top(t).obj \in Objects
<1>1. /\ TypeOK /\ FrameOK(t, Top(t)) /\ Top(t).obj \in Objects
  BY AtFacts DEF At
<1>2. PICK o, c : o \in Objects /\ o = Top(t).obj /\ c = Top(t).c
  BY <1>1
<1>3. ListOK(o) /\ lists[o].seq \in Seq(Ids) /\ Listed(o) \subseteq Ids /\ o # Nobody
  BY <1>1, <1>2, ListedFacts, ConnectionsAssumption DEF CallInv, ListsOK
<1>4. c \in Listed(o)
  <2>1. CASE Top(t).kind = "disconnect"
    BY <1>1, <1>2, <2>1 DEF FrameOK, DisconnectOK, RelockPcs
  <2>2. CASE Top(t).kind = "receivers"
    <3>1. c # 0 /\ c = First(lists[o].seq)
      BY <1>1, <1>2, <2>2 DEF FrameOK, ReceiversOK
    <3> QED
      BY <1>3, <3>1, FirstFacts DEF Listed
  <2> QED
    BY <2>1, <2>2
<1>5. c \in Made
  BY <1>3, <1>4 DEF ListOK, Made
<1> QED
  BY <1>2, <1>4, <1>5

\* Receivers are never replaced: what a relock remembers stays right.
LEMMA KeptPeers ==
    ASSUME CallInv, PeersOK, NEW t \in Threads, OthersGoOn(t),
           \A c \in Made : conn'[c].receiver \in {conn[c].receiver, Nobody},
           Calling(t)' => PeerOK(Top(t))'
    PROVE  PeersOK'
<1> SUFFICES ASSUME NEW u \in Threads, Calling(u)', u # t PROVE PeerOK(Top(u))'
  BY DEF PeersOK
<1>1. PICK f : f = Top(u)
  OBVIOUS
<1>2. Calling(u) /\ Top(u)' = f /\ PeerOK(f)
  BY <1>1 DEF OthersGoOn, PeersOK
<1>3. PeerOK(f)'
  <2>1. CASE f.kind \in {"disconnect", "receivers"} /\ f.pc \in RelockPcs
    <3>1. f.c \in Made
      BY <1>1, <1>2, <2>1, RelockMade
    <3> QED
      BY <1>2, <2>1, <3>1 DEF PeerOK
  <2>2. CASE ~(f.kind \in {"disconnect", "receivers"} /\ f.pc \in RelockPcs)
    BY <2>2 DEF PeerOK
  <2> QED
    BY <2>1, <2>2
<1> QED
  BY <1>2, <1>3

\* A connection that is being broken was made, by a thread that both ends live in.
LEMMA BreakingFacts ==
    ASSUME CallInv, BreaksOK, NEW t \in Threads, NEW c, Breaking(t, c)
    PROVE  /\ c \in Made /\ c \in Ids /\ c \notin handles
           /\ conn[c].sender \in Objects /\ conn[c].sender = Top(t).obj
           /\ Home[conn[c].sender] = t
           /\ Connected(c) => Home[conn[c].receiver] = t
           /\ Top(t).pc # "functor" => Connected(c) /\ conn[c].receiver = Top(t).other
<1>1. BreakOK(t, Top(t)) /\ FrameOK(t, Top(t)) /\ Top(t).obj \in Objects
  BY AtFacts DEF BreaksOK, Breaking, At
<1>2. Top(t).other \in Objects /\ Nobody \notin Objects
  BY <1>1, ConnectionsAssumption DEF FrameOK, BreakShape, Breaking
<1> QED
  BY <1>1, <1>2 DEF BreakOK, Made, Breaking, Connected

\* The connection that a thread breaks by handle is not changed by others.
LEMMA KeptBreaks ==
    ASSUME CallInv, BreaksOK, NEW t \in Threads, OthersGoOn(t),
           handles' \subseteq Made', \A c \in Made \ handles : c \notin handles',
           \A c \in Made : conn'[c].sender = conn[c].sender,
           \A u \in Threads \ {t} : \A c : Breaking(u, c) => conn'[c].receiver = conn[c].receiver,
           Calling(t)' /\ Top(t)'.kind = "break" => BreakOK(t, Top(t))'
    PROVE  BreaksOK'
<1>1. ASSUME NEW u \in Threads, Calling(u)', Top(u)'.kind = "break", u # t
      PROVE  BreakOK(u, Top(u))'
  <2>1. PICK f, c : f = Top(u) /\ c = f.c
    OBVIOUS
  <2>2. Calling(u) /\ Top(u)' = f /\ Breaking(u, c) /\ BreakOK(u, f)
    BY <1>1, <2>1 DEF OthersGoOn, Breaking, BreaksOK
  <2>3. c \in Made /\ c \in Ids /\ c \notin handles
    BY <2>2, BreakingFacts
  <2>4. conn'[c].receiver = conn[c].receiver /\ conn'[c].sender = conn[c].sender /\ c \notin handles'
    BY <1>1, <2>2, <2>3
  <2>5. BreakOK(u, f)'
    BY <2>1, <2>2, <2>3, <2>4 DEF BreakOK
  <2> QED
    BY <2>2, <2>5
<1> QED
  BY <1>1 DEF BreaksOK

\* A connection that is dropped is in no list and stays out of them.
LEMMA KeptDrops ==
    ASSUME RefsOK, NEW t \in Threads, OthersGoOn(t),
           \A c \in Made : /\ c \in Made' /\ conn'[c].sender = conn[c].sender
                           /\ ~InList(c) => ~InList(c)',
           At(t, {"receivers"}, "functor")' => DropOK(Top(t))'
    PROVE  \A u \in Threads : At(u, {"receivers"}, "functor")' => DropOK(Top(u))'
<1> SUFFICES ASSUME NEW u \in Threads, At(u, {"receivers"}, "functor")', u # t
             PROVE  DropOK(Top(u))'
  OBVIOUS
<1>1. PICK f : f = Top(u)
  OBVIOUS
<1>2. Top(u)' = f /\ At(u, {"receivers"}, "functor")
  BY <1>1 DEF OthersGoOn, At
<1>3. DropOK(f)
  BY <1>1, <1>2 DEF RefsOK
<1>4. DropOK(f)'
  BY <1>3 DEF DropOK
<1> QED
  BY <1>2, <1>4

\* References that a step leaves alone are still counted right,
LEMMA KeptRef ==
    ASSUME NEW c \in Ids, RefOK(c), conn'[c].ref = conn[c].ref,
           Held(c)' <=> Held(c), Owned(c)' <=> Owned(c)
    PROVE  RefOK(c)'
  BY DEF RefOK

\* and so is one that it drops.
LEMMA LostRef ==
    ASSUME NEW c \in Ids, RefOK(c), conn'[c].ref = conn[c].ref - 1,
           \/ Held(c) /\ ~Held(c)' /\ (Owned(c)' <=> Owned(c))
           \/ Owned(c) /\ ~Owned(c)' /\ (Held(c)' <=> Held(c))
    PROVE  RefOK(c)'
<1>1. PICK h \in {0, 1}, o \in {0, 1} :
          h = (IF Held(c) THEN 1 ELSE 0) /\ o = IF Owned(c) THEN 1 ELSE 0
  OBVIOUS
<1>2. PICK h2 \in {0, 1}, o2 \in {0, 1} :
          h2 = (IF Held(c)' THEN 1 ELSE 0) /\ o2 = IF Owned(c)' THEN 1 ELSE 0
  OBVIOUS
<1>3. conn[c].ref = h + o
  BY <1>1 DEF RefOK
<1>4. h2 + o2 = (h + o) - 1
  BY <1>1, <1>2
<1>5. conn'[c].ref = h2 + o2
  BY <1>3, <1>4
<1> QED
  BY <1>2, <1>5 DEF RefOK

\* Steps that leave the connections, the handles and the lists as they are.
SameSeqs == \A o \in Objects : lists'[o].seq = lists[o].seq

\* Lists with the same elements.
LEMMA SameInList ==
    ASSUME SameSeqs
    PROVE  /\ \A o \in Objects : Listed(o)' = Listed(o)
           /\ \A c : InList(c)' <=> InList(c)
<1>1. \A o \in Objects : Listed(o)' = Listed(o)
  BY DEF SameSeqs, Listed
<1> QED
  BY <1>1 DEF InList

\* A step that changes neither connections, lists nor the part of a call.
LEMMA QuietConn ==
    ASSUME CallInv, ConnInv, NEW t \in Threads, OthersGoOn(t), SameRole(t),
           UNCHANGED <<conn, handles, head, node>>, SameSeqs, GoneStay,
           Calling(t)' => PeerOK(Top(t))'
    PROVE  ConnInv'
<1>1. /\ TypeOK /\ ReceiverListsOK /\ SenderListsOK /\ PeersOK /\ RefsOK /\ BreaksOK
      /\ SendersSame /\ Made' = Made
  BY DEF CallInv, ConnInv, SendersSame, Made
<1>2. /\ SendersStay
      /\ \A u \in Threads : \A c : /\ Dropping(u, c)' <=> Dropping(u, c)
                                   /\ Breaking(u, c)' <=> Breaking(u, c)
  BY RolesStay
<1>3. ReceiverListsOK'
  BY <1>1, <1>2, KeptReceivers DEF ReceiversSame
<1>4. /\ \A o \in Objects : Listed(o)' = Listed(o)
      /\ \A c : InList(c)' <=> InList(c)
  BY SameInList
<1>5. SenderListsOK'
  BY <1>1, <1>4, KeptSenders DEF Connected
<1>6. PeersOK'
  BY <1>1, KeptPeers
<1>7. \A c \in Ids : RefOK(c)'
  <2>1. ASSUME NEW c \in Ids PROVE RefOK(c)'
    <3>1. RefOK(c) /\ (Held(c)' <=> Held(c)) /\ (Owned(c)' <=> Owned(c))
      BY <1>1, <1>2, <1>4 DEF RefsOK, Held, Owned
    <3> QED
      BY <3>1, KeptRef
  <2> QED
    BY <2>1
<1>8. RefsOK'
  <2>1. At(t, {"receivers"}, "functor")' => DropOK(Top(t))'
    BY DEF SameRole, Plain, At
  <2>2. \A u \in Threads : At(u, {"receivers"}, "functor")' => DropOK(Top(u))'
    BY <1>1, <1>4, <2>1, KeptDrops
  <2> QED
    BY <1>7, <2>2 DEF RefsOK
<1>9. BreaksOK'
  <2>1. Calling(t)' /\ Top(t)'.kind = "break" => BreakOK(t, Top(t))'
    BY <1>1 DEF SameRole, Plain, BreaksOK, BreakOK
  <2> QED
    BY <1>1, <2>1, KeptBreaks DEF BreaksOK
<1> QED
  BY <1>3, <1>5, <1>6, <1>8, <1>9 DEF ConnInv

\* Calls that begin, go on and end.
QuietTop(t) == OthersGoOn(t) /\ SameRole(t) /\ (Calling(t)' => PeerOK(Top(t))')

\* Calls that begin are such steps,
LEMMA QuietPush ==
    ASSUME CallInv, NEW t \in Threads, MayCall(t), NEW f \in FrameType, Call(t, f),
           Plain(f), f.pc = "lock"
    PROVE  QuietTop(t)
<1>1. NewTop(t, f) /\ (Calling(t) => Plain(Top(t)))
  BY CallNewTop, UserFacts DEF Plain
<1>2. PeerOK(f)'
  BY DEF PeerOK, RelockPcs
<1> QED
  BY <1>1, <1>2 DEF QuietTop, NewTop, SameRole

\* and so are calls that go on,
LEMMA QuietReplace ==
    ASSUME CallInv, NEW t \in Threads, Calling(t), NEW f \in FrameType, Replace(t, f),
           \/ Plain(Top(t)) /\ Plain(f)
           \/ /\ Top(t).kind \in {"senders", "break"} /\ f.kind = Top(t).kind /\ f.obj = Top(t).obj
              /\ f.other = Top(t).other /\ f.c = Top(t).c
              /\ Top(t).pc = "walk" => f.pc = "walk"
              /\ f.kind = "break" => Top(t).pc # "functor" /\ f.pc # "functor",
           f.pc \notin RelockPcs \/ f.kind \notin {"disconnect", "receivers"}
    PROVE  QuietTop(t)
<1>1. NewTop(t, f)
  BY ReplaceNewTop
<1>2. PeerOK(f)'
  BY DEF PeerOK
<1> QED
  BY <1>1, <1>2 DEF QuietTop, NewTop, SameRole

\* or return.
LEMMA QuietPop ==
    ASSUME CallInv, NEW t \in Threads, Calling(t), Plain(Top(t)), Return(t)
    PROVE  QuietTop(t)
<1>1. Popped(t)
  BY ReturnPopped
<1> QED
  BY <1>1 DEF QuietTop, Popped, SameRole, Plain, PeerOK

\* What they have to do with the rest.
LEMMA QuietAction ==
    ASSUME CallInv, ConnInv, NEW t \in Threads, QuietTop(t),
           UNCHANGED <<conn, handles, head, node>>, SameSeqs, GoneStay
    PROVE  ConnInv'
  BY QuietConn DEF QuietTop

\* What is unchanged is the same.
LEMMA SameAsBefore ==
    /\ UNCHANGED status => GoneStay
    /\ UNCHANGED lists => SameSeqs
    /\ UNCHANGED listVars => UNCHANGED <<conn, handles, head, node>> /\ SameSeqs
  BY DEF GoneStay, SameSeqs, listVars

\* ++inUse changes no list,
LEMMA UsedSame ==
    ASSUME TypeOK, NEW o \in Objects, lists' = [lists EXCEPT ![o].inUse = @ + 1]
    PROVE  SameSeqs
<1>1. PICK list : list = [lists[o] EXCEPT !.inUse = @ + 1]
  OBVIOUS
<1>2. list.seq = lists[o].seq
  BY <1>1, ListedFacts DEF ListType
<1>3. lists' = [lists EXCEPT ![o] = list]
  BY <1>1
<1> QED
  BY <1>2, <1>3 DEF SameSeqs, TypeOK

\* nor does --inUse, or the end of an orphaned list.
LEMMA UnusedSame ==
    ASSUME TypeOK, NEW o \in Objects, NEW list \in ListType, list.seq = lists[o].seq,
           list.state = "orphaned" => list.seq = <<>>, LastUse(o, list)
    PROVE  SameSeqs
<1>1. Unused(list).seq = list.seq
  <2>1. CASE list.inUse = 1 /\ list.state = "orphaned"
    <3>1. Unused(list) = [seq |-> <<>>, inUse |-> 0, dirty |-> FALSE, state |-> "deleted"]
      BY <2>1 DEF Unused, NoList
    <3> QED
      BY <2>1, <3>1
  <2>2. CASE ~(list.inUse = 1 /\ list.state = "orphaned")
    <3>1. Unused(list) = [list EXCEPT !.inUse = @ - 1]
      BY <2>2 DEF Unused
    <3> QED
      BY <3>1 DEF ListType
  <2> QED
    BY <2>1, <2>2
<1>2. lists'[o].seq = lists[o].seq /\ \A p \in Objects \ {o} : lists'[p] = lists[p]
  BY <1>1 DEF TypeOK, LastUse
<1> QED
  BY <1>2 DEF SameSeqs

\* The calls of user code.
LEMMA ConnConnect ==
    ASSUME CallInv, ConnInv, NEW t \in Threads, NEW l \in Links, Connect(t, l[1], l[2], l[3])
    PROVE  ConnInv'
<1>1. /\ l[1] \in Objects /\ l[2] \in Objects /\ MayCall(t)
      /\ Call(t, [Frame("connect", l[1], l[2]) EXCEPT !.c = IF l[3] THEN 1 ELSE 0])
      /\ UNCHANGED <<listVars, status, holder>>
  BY ConnectionsAssumption DEF Connect
<1>2. PICK s \in Objects, r \in Objects : s = l[1] /\ r = l[2]
  BY <1>1
<1>3. PICK g : g = Frame("connect", s, r)
  OBVIOUS
<1>6. g \in FrameType /\ g.kind = "connect" /\ g.pc = "lock"
  BY <1>3, FrameFacts
<1>4. PICK f : f = [g EXCEPT !.c = IF l[3] THEN 1 ELSE 0]
  OBVIOUS
<1>5. f \in FrameType /\ f.kind = "connect" /\ f.pc = "lock" /\ Call(t, f)
  BY <1>1, <1>2, <1>3, <1>4, <1>6 DEF FrameType
<1>7. QuietTop(t)
  BY <1>1, <1>5, QuietPush DEF Plain
<1> QED
  BY <1>1, <1>7, SameAsBefore, QuietAction

\* A call begins that refers to no connection.
LEMMA ConnOther ==
    ASSUME CallInv, ConnInv, NEW t \in Threads, MayCall(t),
           NEW k \in {"emit", "disconnect", "receivers"}, NEW o \in Objects,
           NEW p \in Objects \cup {Nobody}, Call(t, Frame(k, o, p)), UNCHANGED listVars, GoneStay
    PROVE  ConnInv'
<1>1. PICK f : f = Frame(k, o, p)
  OBVIOUS
<1>2. f \in FrameType /\ f.kind = k /\ f.pc = "lock"
  BY <1>1, FrameFacts DEF Relocking
<1>3. QuietTop(t)
  BY <1>1, <1>2, QuietPush DEF Plain
<1> QED
  BY <1>3, SameAsBefore, QuietAction

\* Emissions and destructors begin.
LEMMA ConnCalls ==
    ASSUME CallInv, ConnInv, NEW t \in Threads, NEW o \in Objects
    PROVE  Emit(t, o) \/ DisconnectAll(t, o) \/ Destroy(t, o) => ConnInv'
<1>1. ASSUME Emit(t, o) PROVE ConnInv'
  BY <1>1, SameAsBefore, ConnOther DEF Emit
<1>2. ASSUME DisconnectAll(t, o) PROVE ConnInv'
  BY <1>2, SameAsBefore, ConnOther DEF DisconnectAll
<1>3. ASSUME Destroy(t, o) PROVE ConnInv'
  <2>1. status' = [status EXCEPT ![o] = "dying"] /\ status[o] = "alive" /\ UNCHANGED listVars
    BY <1>3 DEF Destroy, Alive
  <2>2. GoneStay
    BY <2>1 DEF GoneStay, CallInv, TypeOK
  <2> QED
    BY <1>3, <2>1, <2>2, ConnOther DEF Destroy
<1> QED
  BY <1>1, <1>2, <1>3

\* Disconnect keeps ConnInv.
LEMMA ConnDisconnect ==
    ASSUME CallInv, ConnInv, NEW t \in Threads, NEW l \in Links, Disconnect(t, l[1], l[2])
    PROVE  ConnInv'
<1>1. l[1] \in Objects /\ l[2] \in Objects
  BY ConnectionsAssumption
<1> QED
  BY <1>1, SameAsBefore, ConnOther DEF Disconnect

\* LockFirst keeps ConnInv.
LEMMA ConnLockFirst ==
    ASSUME CallInv, ConnInv, NEW t \in Threads, LockFirst(t)
    PROVE  ConnInv'
<1>1. /\ At(t, {"connect", "break"}, "lock") /\ GoTo(t, "second") /\ UNCHANGED <<listVars, status>>
  BY DEF LockFirst
<1>2. /\ Calling(t) /\ Top(t).kind \in {"connect", "break"} /\ Top(t).pc = "lock" /\ Top(t) \in FrameType
  BY <1>1, AtFacts
<1>3. PICK f : f = [Top(t) EXCEPT !.pc = "second"]
  OBVIOUS
<1>4. /\ f \in FrameType /\ f.kind = Top(t).kind /\ f.obj = Top(t).obj /\ f.other = Top(t).other
      /\ f.c = Top(t).c /\ f.pc = "second" /\ Replace(t, f)
  BY <1>1, <1>2, <1>3 DEF FrameType, GoTo
<1>5. QuietTop(t)
  BY <1>2, <1>4, QuietReplace DEF Plain, RelockPcs
<1> QED
  BY <1>1, <1>5, SameAsBefore, QuietAction

\* Emissions.
LEMMA ConnEmitLeave ==
    ASSUME CallInv, ConnInv, NEW t \in Threads, NEW pc, At(t, {"emit"}, pc), EmitLeave(t),
           UNCHANGED <<conn, handles, head, node, status>>
    PROVE  ConnInv'
<1>1. /\ TypeOK /\ Calling(t) /\ Top(t).kind = "emit" /\ Top(t).obj \in Objects
  BY AtFacts
<1>2. PICK o, list : o \in Objects /\ o = Top(t).obj /\ list = lists[o]
  BY <1>1
<1>3. list \in ListType /\ ListOK(o) /\ LastUse(o, list) /\ Return(t)
  BY <1>1, <1>2, ListedFacts DEF EmitLeave, LastUse, CallInv, ListsOK
<1>4. SameSeqs
  BY <1>1, <1>2, <1>3, UnusedSame DEF ListOK
<1>5. QuietTop(t)
  BY <1>1, <1>3, QuietPop DEF Plain
<1> QED
  BY <1>4, <1>5, SameAsBefore, QuietAction

\* activate goes on with the next connection.
LEMMA ConnEmitOn ==
    ASSUME CallInv, ConnInv, NEW t \in Threads, NEW pc, At(t, {"emit"}, pc), pc # "lock",
           Alive(Top(t).obj), EmitOn(t), UNCHANGED <<conn, handles, head, node, status>>
    PROVE  ConnInv'
<1>1. /\ TypeOK /\ Calling(t) /\ Top(t).kind = "emit" /\ Top(t).pc = pc /\ Top(t).obj \in Objects
      /\ Top(t) \in FrameType /\ EmitOK(t, Top(t))
  BY AtFacts DEF FrameOK
<1>2. CASE AtLast(Top(t))
  BY <1>2, ConnEmitLeave DEF EmitOn
<1>3. CASE ~AtLast(Top(t))
  <2>1. PICK o, c : o \in Objects /\ o = Top(t).obj /\ c = Following(lists[o].seq, Top(t).c)
    BY <1>1
  <2>2. c \in Nat
    BY <1>1, <2>1, NextListed DEF EmitOK, CallInv, ListsOK
  <2>3. PICK f : f = [Top(t) EXCEPT !.pc = "visit", !.other = Nobody, !.c = c]
    OBVIOUS
  <2>4. f \in FrameType /\ f.kind = "emit"
    BY <1>1, <2>2, <2>3 DEF FrameType
  <2>5. Replace(t, f) /\ UNCHANGED lists
    BY <1>3, <2>1, <2>3 DEF EmitOn
  <2>6. QuietTop(t)
    BY <1>1, <2>4, <2>5, QuietReplace DEF Plain
  <2> QED
    BY <2>5, <2>6, SameAsBefore, QuietAction
<1> QED
  BY <1>2, <1>3

\* EmitBegin keeps ConnInv.
LEMMA ConnEmitBegin ==
    ASSUME CallInv, ConnInv, NEW t \in Threads, EmitBegin(t)
    PROVE  ConnInv'
<1>1. /\ At(t, {"emit"}, "lock") /\ UNCHANGED <<conn, handles, head, node, status>>
  BY DEF EmitBegin
<1>2. /\ TypeOK /\ Calling(t) /\ Top(t).kind = "emit" /\ Top(t).obj \in Objects /\ Top(t) \in FrameType
  BY <1>1, AtFacts
<1>3. PICK o, seq : o \in Objects /\ o = Top(t).obj /\ seq = lists[o].seq
  BY <1>2
<1>4. CASE seq = <<>>
  <2>1. Return(t) /\ UNCHANGED lists
    BY <1>3, <1>4 DEF EmitBegin
  <2>2. QuietTop(t)
    BY <1>2, <2>1, QuietPop DEF Plain
  <2> QED
    BY <1>1, <2>1, <2>2, SameAsBefore, QuietAction
<1>5. CASE seq # <<>>
  <2>1. PICK f : f = [Top(t) EXCEPT !.pc = "visit", !.c = Head(seq),
                                    !.last = seq[Len(seq)], !.newest = Newest]
    OBVIOUS
  <2>2. lists' = [lists EXCEPT ![o].inUse = @ + 1] /\ Replace(t, f)
    BY <1>3, <1>5, <2>1 DEF EmitBegin
  <2>3. seq \in Seq(Ids)
    BY <1>2, <1>3, ListedFacts
  <2>4. Head(seq) \in Nat /\ seq[Len(seq)] \in Nat /\ Newest \in Nat
    BY <1>5, <2>3, IdsFinite, NewestType
  <2>5. f \in FrameType /\ f.kind = "emit"
    BY <1>2, <2>1, <2>4 DEF FrameType
  <2>6. QuietTop(t)
    BY <1>2, <2>2, <2>5, QuietReplace DEF Plain
  <2> QED
    BY <1>1, <1>2, <1>3, <2>2, <2>6, UsedSame, SameAsBefore, QuietAction
<1> QED
  BY <1>4, <1>5

\* An emission goes on with its sender unless that is orphaned.
LEMMA SlotSender ==
    ASSUME CallInv, NEW t \in Threads, At(t, {"emit"}, "slot"),
           lists[Top(t).obj].state # "orphaned"
    PROVE  Alive(Top(t).obj)
<1>1. /\ TypeOK /\ Calling(t) /\ Top(t).kind = "emit" /\ Top(t).pc = "slot" /\ Top(t).obj \in Objects
      /\ EmitOK(t, Top(t))
  BY AtFacts DEF FrameOK
<1>2. PICK o \in Objects : o = Top(t).obj
  BY <1>1
<1>3. status[o] # "dying"
  BY <1>1, <1>2 DEF CallInv, DyingOK, Destroying, EmitOK
<1>4. Walkers(o) # {}
  <2>1. Len(stack[t]) \in 1..Len(stack[t]) /\ Walks(stack[t][Len(stack[t])], o)
    BY <1>1, <1>2, TopFacts DEF Walks, Top
  <2> QED
    BY <1>1, <2>1, WalkersFacts
<1>5. ListOK(o) /\ lists[o] \in ListType /\ Cardinality(Walkers(o)) # 0
  BY <1>1, <1>4, ListedFacts, WalkersFinite DEF CallInv, ListsOK
<1>6. lists[o].state = "attached"
  BY <1>2, <1>5 DEF ListOK, ListType
<1>7. status[o] = "alive"
  BY <1>1, <1>3, <1>5, <1>6 DEF ListOK, TypeOK
<1> QED
  BY <1>2, <1>7 DEF Alive

\* The other steps of activate.
LEMMA ConnEmission ==
    ASSUME CallInv, ConnInv, NEW t \in Threads
    PROVE  Visit(t) \/ SlotReturns(t) \/ Queued(t) => ConnInv'
<1>1. ASSUME Queued(t) PROVE ConnInv'
  <2>1. At(t, {"emit"}, "copy") /\ EmitOn(t) /\ UNCHANGED <<conn, handles, head, node, status>>
    BY <1>1 DEF Queued
  <2>2. Alive(Top(t).obj)
    BY <2>1, AtFacts DEF FrameOK, EmitOK
  <2> QED
    BY <2>1, <2>2, ConnEmitOn
<1>2. ASSUME SlotReturns(t) PROVE ConnInv'
  <2>1. At(t, {"emit"}, "slot") /\ UNCHANGED <<conn, handles, head, node, status>>
    BY <1>2 DEF SlotReturns
  <2>2. CASE lists[Top(t).obj].state = "orphaned"
    BY <1>2, <2>1, <2>2, ConnEmitLeave DEF SlotReturns
  <2>3. CASE lists[Top(t).obj].state # "orphaned"
    BY <1>2, <2>1, <2>3, SlotSender, ConnEmitOn DEF SlotReturns
  <2> QED
    BY <2>2, <2>3
<1>3. ASSUME Visit(t) PROVE ConnInv'
  <2>1. At(t, {"emit"}, "visit") /\ UNCHANGED <<conn, handles, head, node, status>>
    BY <1>3 DEF Visit
  <2>2. /\ TypeOK /\ Calling(t) /\ Top(t).kind = "emit" /\ Top(t).pc = "visit" /\ Top(t).obj \in Objects
        /\ Top(t) \in FrameType /\ EmitOK(t, Top(t)) /\ Alive(Top(t).obj)
    BY <2>1, AtFacts DEF FrameOK, EmitOK
  <2>3. CASE ~Connected(Top(t).c)
    BY <1>3, <2>1, <2>2, <2>3, ConnEmitOn DEF Visit
  <2>4. CASE Connected(Top(t).c)
    <3>1. Top(t).c \in Ids
      BY <2>2, ListedFacts DEF EmitOK
    <3>2. PICK r \in Objects : r = conn[Top(t).c].receiver
      BY <2>2, <2>4, <3>1, ConnFacts
    <3>3. PICK f : f = [Top(t) EXCEPT !.other = r, !.pc = IF Home[r] = t THEN "slot" ELSE "copy"]
      OBVIOUS
    <3>4. Replace(t, f) /\ UNCHANGED lists
      BY <1>3, <2>4, <3>2, <3>3 DEF Visit
    <3>5. f \in FrameType /\ f.kind = "emit"
      BY <2>2, <3>3 DEF FrameType
    <3>6. QuietTop(t)
      BY <2>2, <3>4, <3>5, QuietReplace DEF Plain
    <3> QED
      BY <2>1, <3>4, <3>6, SameAsBefore, QuietAction
  <2> QED
    BY <2>3, <2>4
<1> QED
  BY <1>1, <1>2, <1>3


\* A call gets, or begins to get, the mutex of the receiver it looked at.
LEMMA ConnRelock ==
    ASSUME CallInv, ConnInv, NEW t \in Threads, At(t, {"disconnect", "receivers"}, "walk"),
           NEW f \in FrameType, f.kind = Top(t).kind, NEW p \in Objects, p = conn[f.c].receiver,
           f.kind = "disconnect" => f.other \in {p, Nobody}, Relock(t, f, p),
           UNCHANGED <<conn, handles, lists, head, node, status>>
    PROVE  ConnInv'
<1>1. Calling(t) /\ Top(t).kind \in {"disconnect", "receivers"} /\ Top(t).pc = "walk"
  BY AtFacts
<1>2. PICK g \in FrameType :
          /\ NewTop(t, g) /\ g.kind = f.kind /\ g.obj = f.obj /\ g.other = f.other
          /\ g.c = f.c /\ g.pc \in RelockPcs /\ g.peer = p
  BY <1>1, RelockTop
<1>3. Plain(Top(t)) /\ Plain(g)
  BY <1>1, <1>2 DEF Plain, RelockPcs
<1>4. PeerOK(g)'
  BY <1>2 DEF PeerOK
<1>5. QuietTop(t)
  BY <1>2, <1>3, <1>4 DEF QuietTop, NewTop, SameRole
<1> QED
  BY <1>5, SameAsBefore, QuietAction

\* A call takes one mutex after the other.
LEMMA ConnRelocking ==
    ASSUME CallInv, ConnInv, NEW t \in Threads, NEW was \in RelockPcs, At(t, Relocking, was),
           NEW pc \in RelockPcs, GoTo(t, pc), UNCHANGED <<listVars, status>>
    PROVE  ConnInv'
<1>1. /\ Calling(t) /\ Top(t).kind \in Relocking /\ Top(t).pc = was /\ Top(t) \in FrameType
  BY AtFacts
<1>2. PICK f : f = [Top(t) EXCEPT !.pc = pc]
  OBVIOUS
<1>3. /\ f \in FrameType /\ f.kind = Top(t).kind /\ f.obj = Top(t).obj /\ f.other = Top(t).other
      /\ f.c = Top(t).c /\ f.peer = Top(t).peer /\ f.pc = pc /\ Replace(t, f)
  BY <1>1, <1>2 DEF FrameType, GoTo, RelockPcs
<1>4. NewTop(t, f) /\ UNCHANGED conn
  BY <1>1, <1>3, ReplaceNewTop DEF listVars
<1>5. PeerOK(Top(t))
  BY <1>1 DEF ConnInv, PeersOK
<1>6. PeerOK(f)'
  BY <1>1, <1>3, <1>4, <1>5 DEF PeerOK
<1>7. Top(t).pc # "walk" /\ Top(t).pc # "functor" /\ f.pc # "functor"
  BY <1>1, <1>3 DEF RelockPcs
<1>8. SameRole(t)
  BY <1>1, <1>3, <1>4, <1>7 DEF SameRole, Plain, Relocking, NewTop
<1>9. QuietTop(t)
  BY <1>4, <1>6, <1>8 DEF QuietTop, NewTop
<1> QED
  BY <1>9, SameAsBefore, QuietAction

\* Lower and Upper keep ConnInv.
LEMMA ConnLowerUpper ==
    ASSUME CallInv, ConnInv, NEW t \in Threads
    PROVE  Lower(t) \/ Upper(t) => ConnInv'
<1>1. {"lower", "upper", "both"} \subseteq RelockPcs
  BY DEF RelockPcs
<1> QED
  BY <1>1, ConnRelocking DEF Lower, Upper

\* Disconnects.
LEMMA ConnDisconnectBegin ==
    ASSUME CallInv, ConnInv, NEW t \in Threads, DisconnectBegin(t)
    PROVE  ConnInv'
<1>1. /\ At(t, {"disconnect"}, "lock") /\ UNCHANGED <<conn, handles, head, node, status>>
  BY DEF DisconnectBegin
<1>2. /\ TypeOK /\ Calling(t) /\ Top(t).kind = "disconnect" /\ Top(t).obj \in Objects
      /\ Top(t) \in FrameType
  BY <1>1, AtFacts
<1>3. PICK o, c : o \in Objects /\ o = Top(t).obj /\ c = First(lists[o].seq)
  BY <1>2
<1>4. CASE ~Attached(o)
  <2>1. Return(t) /\ UNCHANGED lists
    BY <1>3, <1>4 DEF DisconnectBegin
  <2>2. QuietTop(t)
    BY <1>2, <2>1, QuietPop DEF Plain
  <2> QED
    BY <1>1, <2>1, <2>2, SameAsBefore, QuietAction
<1>5. CASE Attached(o)
  <2>1. PICK f : f = [Top(t) EXCEPT !.pc = "walk", !.c = c]
    OBVIOUS
  <2>2. lists' = [lists EXCEPT ![o].inUse = @ + 1] /\ Replace(t, f)
    BY <1>3, <1>5, <2>1 DEF DisconnectBegin
  <2>3. c \in Nat
    BY <1>2, <1>3, FirstFacts, ListedFacts, IdsFinite
  <2>4. f \in FrameType /\ f.kind = "disconnect" /\ f.pc = "walk"
    BY <1>2, <2>1, <2>3 DEF FrameType
  <2>5. QuietTop(t)
    BY <1>2, <2>2, <2>4, QuietReplace DEF Plain, RelockPcs
  <2> QED
    BY <1>1, <1>2, <1>3, <2>2, <2>5, UsedSame, SameAsBefore, QuietAction
<1> QED
  BY <1>4, <1>5

\* DisconnectWalk keeps ConnInv.
LEMMA ConnDisconnectWalk ==
    ASSUME CallInv, ConnInv, NEW t \in Threads, DisconnectWalk(t)
    PROVE  ConnInv'
<1>1. At(t, {"disconnect"}, "walk") /\ UNCHANGED <<conn, handles, head, node, status>>
  BY DEF DisconnectWalk
<1>2. /\ TypeOK /\ Calling(t) /\ Top(t).kind = "disconnect" /\ Top(t).pc = "walk"
      /\ Top(t).obj \in Objects /\ Top(t) \in FrameType /\ DisconnectOK(t, Top(t))
  BY <1>1, AtFacts DEF FrameOK
<1>3. PICK o \in Objects, f \in FrameType : o = Top(t).obj /\ f = Top(t)
  BY <1>2
<1>4. /\ Alive(o) /\ f.c \in Listed(o) \cup {0}
      /\ lists[o] \in ListType /\ ListOK(o)
  BY <1>2, <1>3, ListedFacts DEF DisconnectOK, CallInv, ListsOK
<1>5. CASE f.c = 0
  <2>1. PICK list : list = IF f.last = 0 THEN lists[o] ELSE [lists[o] EXCEPT !.dirty = TRUE]
    OBVIOUS
  <2>2. list \in ListType /\ list.seq = lists[o].seq /\ list.state = lists[o].state
    BY <1>4, <2>1 DEF ListType
  <2>3. LastUse(o, list) /\ Return(t)
    BY <1>3, <1>5, <2>1 DEF DisconnectWalk, LastUse
  <2>4. SameSeqs
    BY <1>2, <1>4, <2>2, <2>3, UnusedSame DEF ListOK
  <2>5. QuietTop(t)
    BY <1>2, <2>3, QuietPop DEF Plain
  <2> QED
    BY <1>1, <2>4, <2>5, SameAsBefore, QuietAction
<1>6. CASE f.c # 0 /\ Connected(f.c) /\ f.other \in {Nobody, conn[f.c].receiver}
  <2>1. f.c \in Ids
    BY <1>2, <1>4, <1>6, ListedFacts
  <2>2. PICK r \in Objects : r = conn[f.c].receiver
    BY <1>2, <1>6, <2>1, ConnFacts
  <2>3. Relock(t, f, r) /\ UNCHANGED lists
    BY <1>3, <1>6, <2>2 DEF DisconnectWalk
  <2>4. At(t, {"disconnect", "receivers"}, "walk")
    BY <1>1 DEF At
  <2> QED
    BY <1>1, <1>3, <1>6, <2>2, <2>3, <2>4, ConnRelock
<1>7. CASE f.c # 0 /\ ~(Connected(f.c) /\ f.other \in {Nobody, conn[f.c].receiver})
  <2>1. PICK c : c = Following(lists[o].seq, f.c)
    OBVIOUS
  <2>2. PICK g : g = [f EXCEPT !.c = c]
    OBVIOUS
  <2>3. Replace(t, g) /\ UNCHANGED lists
    BY <1>3, <1>7, <2>1, <2>2 DEF DisconnectWalk, DisconnectOn
  <2>4. c \in Nat
    BY <1>2, <1>4, <1>7, <2>1, NextListed
  <2>5. g \in FrameType /\ g.kind = "disconnect" /\ g.pc = "walk"
    BY <1>2, <1>3, <2>2, <2>4 DEF FrameType
  <2>6. QuietTop(t)
    BY <1>2, <2>3, <2>5, QuietReplace DEF Plain, RelockPcs
  <2> QED
    BY <1>1, <2>3, <2>6, SameAsBefore, QuietAction
<1> QED
  BY <1>5, <1>6, <1>7

\* DisconnectFunctor keeps ConnInv.
LEMMA ConnDisconnectFunctor ==
    ASSUME CallInv, ConnInv, NEW t \in Threads, DisconnectFunctor(t)
    PROVE  ConnInv'
<1>1. /\ At(t, {"disconnect"}, "functor")
      /\ Replace(t, [DisconnectOn(Top(t)) EXCEPT !.pc = "walk", !.peer = Nobody])
      /\ UNCHANGED <<listVars, status>>
  BY DEF DisconnectFunctor
<1>2. /\ TypeOK /\ Calling(t) /\ Top(t).kind = "disconnect" /\ Top(t).pc = "functor"
      /\ Top(t).obj \in Objects /\ Top(t) \in FrameType
  BY <1>1, AtFacts
<1>3. PICK o, c : o \in Objects /\ o = Top(t).obj /\ c = Following(lists[o].seq, Top(t).c)
  BY <1>2
<1>4. c \in Nat
  <2>1. /\ lists[o].seq \in Seq(Ids) /\ Increasing(lists[o].seq) /\ Top(t).c \in Nat
    BY <1>2, <1>3, ListedFacts DEF CallInv, ListsOK, ListOK, FrameType
  <2>2. Elements(lists[o].seq) \subseteq Ids
    BY <2>1, FirstFacts
  <2> QED
    BY <1>3, <2>1, <2>2, FollowingFacts, IdsFinite
<1>5. PICK f : f = [Top(t) EXCEPT !.c = c, !.pc = "walk", !.peer = Nobody]
  OBVIOUS
<1>6. /\ f \in FrameType /\ f.kind = "disconnect" /\ f.pc = "walk"
  BY <1>2, <1>4, <1>5 DEF FrameType
<1>7. Replace(t, f)
  <2>1. f = [DisconnectOn(Top(t)) EXCEPT !.pc = "walk", !.peer = Nobody]
    BY <1>2, <1>3, <1>5 DEF DisconnectOn, FrameType
  <2> QED
    BY <1>1, <2>1
<1>8. QuietTop(t)
  BY <1>2, <1>6, <1>7, QuietReplace DEF Plain, RelockPcs
<1> QED
  BY <1>1, <1>8, SameAsBefore, QuietAction

\* SendersFunctor keeps ConnInv.
LEMMA ConnSendersFunctor ==
    ASSUME CallInv, ConnInv, NEW t \in Threads, SendersFunctor(t)
    PROVE  ConnInv'
<1>1. /\ At(t, {"senders"}, "functor")
      /\ Replace(t, [Top(t) EXCEPT !.pc = "walk", !.peer = Nobody])
      /\ UNCHANGED <<listVars, status>>
  BY DEF SendersFunctor
<1>2. /\ Calling(t) /\ Top(t).kind = "senders" /\ Top(t).pc = "functor" /\ Top(t) \in FrameType
  BY <1>1, AtFacts
<1>3. PICK f : f = [Top(t) EXCEPT !.pc = "walk", !.peer = Nobody]
  OBVIOUS
<1>4. /\ f \in FrameType /\ f.kind = "senders" /\ f.obj = Top(t).obj /\ f.other = Top(t).other
      /\ f.c = Top(t).c /\ f.pc = "walk" /\ Replace(t, f)
  BY <1>1, <1>2, <1>3 DEF FrameType
<1>5. QuietTop(t)
  BY <1>2, <1>4, QuietReplace DEF RelockPcs
<1> QED
  BY <1>1, <1>5, SameAsBefore, QuietAction

-----------------------------------------------------------------------------
\* Steps that disconnect.

\* ConnInv after a step that disconnects, from what it does.
LEMMA ChangedConn ==
    ASSUME CallInv, ConnInv, NEW t \in Threads, OthersGoOn(t), SendersSame, UNCHANGED handles,
           ReceiverListsOK',
           \A c \in Ids : conn'[c].receiver \in {conn[c].receiver, Nobody},
           \A o \in Objects : \A c \in Listed(o) : c \in Listed(o)' \/ ~Connected(c)',
           \A o \in Objects : Listed(o)' \subseteq Listed(o),
           \A u \in Threads \ {t} : \A c : Breaking(u, c) => conn'[c].receiver = conn[c].receiver,
           Calling(t)' => PeerOK(Top(t))',
           Calling(t)' /\ Top(t)'.kind = "break" => BreakOK(t, Top(t))',
           At(t, {"receivers"}, "functor")' => DropOK(Top(t))',
           \A c \in Ids : RefOK(c)'
    PROVE  ConnInv'
<1>1. TypeOK /\ SenderListsOK /\ PeersOK /\ RefsOK /\ BreaksOK
  BY DEF CallInv, ConnInv
<1>2. Made' = Made /\ Made \subseteq Ids
  BY KeptMade DEF Made
<1>3. SenderListsOK'
  <2>1. \A c \in Ids : Connected(c)' => Connected(c)
    BY DEF Connected
  <2> QED
    BY <1>1, <2>1, KeptSenders
<1>4. PeersOK'
  <2>1. \A c \in Made : conn'[c].receiver \in {conn[c].receiver, Nobody}
    BY <1>2
  <2> QED
    BY <1>1, <2>1, KeptPeers
<1>5. RefsOK'
  <2>1. \A c \in Made : /\ c \in Made' /\ conn'[c].sender = conn[c].sender
                        /\ ~InList(c) => ~InList(c)'
    BY <1>2 DEF SendersSame, InList
  <2>2. \A u \in Threads : At(u, {"receivers"}, "functor")' => DropOK(Top(u))'
    BY <1>1, <2>1, KeptDrops
  <2> QED
    BY <2>2 DEF RefsOK
<1>6. BreaksOK'
  <2>1. /\ handles' \subseteq Made' /\ \A c \in Made \ handles : c \notin handles'
        /\ \A c \in Made : conn'[c].sender = conn[c].sender
    BY <1>1, <1>2 DEF BreaksOK, SendersSame
  <2>2. Calling(t)' /\ Top(t)'.kind = "break" => BreakOK(t, Top(t))'
    OBVIOUS
  <2> QED
    BY <1>1, <2>1, <2>2, KeptBreaks
<1> QED
  BY <1>3, <1>4, <1>5, <1>6 DEF ConnInv

\* A connection is broken only by the thread that both of its ends live in.
LEMMA NotBroken ==
    ASSUME CallInv, BreaksOK, NEW t \in Threads, NEW c,
           Home[conn[c].sender] = t \/ (Connected(c) /\ Home[conn[c].receiver] = t)
    PROVE  \A u \in Threads \ {t} : ~Breaking(u, c)
  BY BreakingFacts

\* A destructor that looks at its list of senders has the object's mutex.
LEMMA NotWalking ==
    ASSUME CallInv, NEW t \in Threads, Calling(t), NEW r \in Objects,
           ~(Top(t).kind = "senders" /\ Top(t).obj = r /\ Top(t).pc = "walk"),
           Home[r] = t \/ Lock[r] \in Locks(Top(t))
    PROVE  ~Walking(r)
<1> SUFFICES ASSUME Walking(r) PROVE FALSE
  OBVIOUS
<1>1. /\ Home[r] \in Threads /\ Calling(Home[r]) /\ Top(Home[r]).obj = r
      /\ Top(Home[r]).kind = "senders" /\ Top(Home[r]).pc = "walk"
  BY ConnectionsAssumption DEF Walking, Sends
<1>2. Home[r] # t
  BY <1>1
<1>3. Lock[r] \in Locks(Top(Home[r]))
  BY <1>1 DEF Locks
<1>4. holder[Lock[r]] = Home[r] /\ holder[Lock[r]] = t
  BY <1>1, <1>2, <1>3 DEF CallInv, MutexOK
<1> QED
  BY <1>2, <1>4

\* Unlinking, whatever becomes of references and slot objects.
LEMMA UnlinksNow ==
    ASSUME TypeOK, NEW c \in Ids, SetPrevious(c), LinkedAs(Unlinked(c))
    PROVE  UnlinkedNow(c) /\ SendersSame
<1>1. \A o \in Objects :
          /\ head'[o] = IF conn[c].prev = HeadOf(o) THEN conn[c].next ELSE head[o]
          /\ node'[o] = IF conn[c].prev = NodeOf(o) THEN conn[c].next ELSE node[o]
  BY SetPreviousFacts
<1> QED
  BY <1>1, UnlinkedFacts DEF UnlinkedNow, SendersSame, LinkedAs

\* Nothing is counted or kept differently.
LEMMA SameRefs ==
    ASSUME RefsOK, \A c \in Ids : conn'[c].ref = conn[c].ref, UNCHANGED handles,
           \A c \in Ids : InList(c)' <=> InList(c),
           \A u \in Threads : \A c : /\ Dropping(u, c)' <=> Dropping(u, c)
                                     /\ Breaking(u, c)' <=> Breaking(u, c)
    PROVE  \A c \in Ids : RefOK(c)'
<1> SUFFICES ASSUME NEW c \in Ids PROVE RefOK(c)'
  OBVIOUS
<1>1. RefOK(c) /\ (Held(c)' <=> Held(c)) /\ (Owned(c)' <=> Owned(c))
  BY DEF RefsOK, Held, Owned
<1> QED
  BY <1>1, KeptRef

\* A call to disconnect that goes on, where slot objects alone go.
LEMMA AlikeAction ==
    ASSUME CallInv, ConnInv, NEW t \in Threads, QuietTop(t), NEW f, NewTop(t, f),
           f.kind = "disconnect", Alike(conn', conn), UNCHANGED <<handles, head, node>>,
           SameSeqs, GoneStay
    PROVE  ConnInv'
<1>1. TypeOK /\ OthersGoOn(t) /\ SameRole(t) /\ (Calling(t)' => PeerOK(Top(t))')
  BY DEF QuietTop, CallInv
<1>2. /\ SendersStay
      /\ \A u \in Threads : \A c : /\ Dropping(u, c)' <=> Dropping(u, c)
                                   /\ Breaking(u, c)' <=> Breaking(u, c)
  BY <1>1, RolesStay
<1>3. SendersSame /\ ReceiversSame
  BY DEF Alike, SendersSame, ReceiversSame
<1>4. ReceiverListsOK'
  BY <1>1, <1>2, <1>3, KeptReceivers DEF ConnInv
<1>5. /\ \A o \in Objects : Listed(o)' = Listed(o)
      /\ \A c : InList(c)' <=> InList(c)
  BY SameInList
<1>6. \A c \in Ids : RefOK(c)'
  BY <1>2, <1>5, SameRefs DEF ConnInv, Alike
<1>7. /\ \A c \in Ids : conn'[c].receiver \in {conn[c].receiver, Nobody}
      /\ \A u \in Threads \ {t} : \A c : Breaking(u, c) => conn'[c].receiver = conn[c].receiver
  BY BreakingFacts DEF Alike, ConnInv
<1>8. Top(t)'.kind # "break" /\ ~At(t, {"receivers"}, "functor")'
  BY DEF NewTop, At
<1> QED
  BY <1>1, <1>3, <1>4, <1>5, <1>6, <1>7, <1>8, ChangedConn

\* DisconnectBoth keeps ConnInv.
LEMMA ConnDisconnectBoth ==
    ASSUME CallInv, ConnInv, NEW t \in Threads, DisconnectBoth(t)
    PROVE  ConnInv'
<1>1. At(t, {"disconnect"}, "both") /\ UNCHANGED <<handles, lists, status>>
  BY DEF DisconnectBoth
<1>2. /\ TypeOK /\ Calling(t) /\ Top(t).kind = "disconnect" /\ Top(t).pc = "both"
      /\ Top(t).obj \in Objects /\ Top(t) \in FrameType /\ DisconnectOK(t, Top(t))
  BY <1>1, AtFacts DEF FrameOK
<1>16. Top(t).peer \in Objects
  BY <1>2 DEF DisconnectOK, RelockPcs
<1>3. PICK o, p, c, functor :
          /\ o \in Objects /\ p \in Objects
          /\ o = Top(t).obj /\ p = Top(t).peer /\ c = Top(t).c /\ functor = conn[Top(t).c].functor
  BY <1>2, <1>16
<1>4. /\ c \in Listed(o) /\ c \in Ids /\ c \in Nat /\ conn[c].sender = o
  BY <1>2, <1>3, ListedFacts, IdsFinite DEF DisconnectOK, RelockPcs, CallInv, ListsOK, ListOK
<1>5. PICK f : f = [Top(t) EXCEPT !.last = c]
  OBVIOUS
<1>6. f \in FrameType /\ f.kind = "disconnect" /\ f.obj = o /\ f.peer = p /\ f.c = c
  BY <1>2, <1>3, <1>4, <1>5 DEF FrameType
<1>7. /\ conn' = Disconnected(c) /\ SetPreviousIfConnected(c)
      /\ Resume(t, IF functor THEN f ELSE DisconnectOn(f), functor)
  BY <1>3, <1>5, <1>6 DEF DisconnectBoth
<1>8. PICK g \in FrameType :
          g.kind = "disconnect" /\ g.obj = o /\ g.peer = p /\ Resume(t, g, functor)
  <2>1. CASE functor
    BY <1>6, <1>7, <2>1
  <2>2. CASE ~functor
    <3>1. PICK e : e = Following(lists[o].seq, c)
      OBVIOUS
    <3>2. e \in Nat
      BY <1>2, <1>3, <1>4, <3>1, NextListed DEF CallInv, ListsOK
    <3>3. PICK g : g = [f EXCEPT !.c = e]
      OBVIOUS
    <3>4. g = DisconnectOn(f)
      BY <1>6, <3>1, <3>3 DEF DisconnectOn
    <3>5. /\ g \in FrameType /\ g.kind = "disconnect" /\ g.obj = o /\ g.peer = p
      BY <1>6, <3>2, <3>3 DEF FrameType
    <3> QED
      BY <1>7, <2>2, <3>4, <3>5
  <2> QED
    BY <2>1, <2>2
<1>9. At(t, Relocking, "both")
  BY <1>1 DEF At, Relocking
<1>10. PICK h \in FrameType :
           /\ Replace(t, h) /\ h.kind = g.kind
           /\ IF functor THEN h.pc = "functor" ELSE h.pc = "walk"
  BY <1>2, <1>3, <1>8, <1>9, ResumeFacts
<1>11. h.kind = "disconnect" /\ h.pc \notin RelockPcs
  BY <1>8, <1>10 DEF RelockPcs
<1>12. QuietTop(t)
  BY <1>2, <1>10, <1>11, QuietReplace DEF Plain
<1>13. SameSeqs /\ GoneStay
  BY <1>1, SameAsBefore
<1>14. CASE ~Connected(c)
  <2>1. UNCHANGED <<head, node>>
    BY <1>7, <1>14 DEF SetPreviousIfConnected
  <2>2. Alike(conn', conn)
    BY <1>2, <1>4, <1>7, <1>14, DisconnectedFacts
  <2>3. NewTop(t, h)
    BY <1>2, <1>10, ReplaceNewTop
  <2> QED
    BY <1>1, <1>11, <1>12, <1>13, <2>1, <2>2, <2>3, AlikeAction
<1>15. CASE Connected(c)
  <2>1. Alike(conn', Unlinked(c)) /\ SetPrevious(c)
    BY <1>2, <1>4, <1>7, <1>15, DisconnectedFacts DEF SetPreviousIfConnected
  <2>2. UnlinkedNow(c) /\ SendersSame
    <3>1. LinkedAs(Unlinked(c))
      BY <2>1 DEF LinkedAs, Alike
    <3> QED
      BY <1>2, <1>4, <2>1, <3>1, UnlinksNow
  <2>3. conn[c].receiver = p /\ Top(t).other \in {p, Nobody}
    <3>1. PeerOK(Top(t))
      BY <1>2 DEF ConnInv, PeersOK
    <3> QED
      BY <1>2, <1>3, <1>15, <3>1 DEF PeerOK, RelockPcs, Connected
  <2>4. ~Walking(p)
    <3>1. Lock[p] \in Locks(Top(t))
      BY <1>2, <1>3 DEF Locks
    <3> QED
      BY <1>2, <1>3, <3>1, NotWalking
  <2>5. OthersGoOn(t) /\ SameRole(t) /\ (Calling(t)' => PeerOK(Top(t))')
    BY <1>12 DEF QuietTop
  <2>6. /\ SendersStay
        /\ \A u \in Threads : \A d : /\ Dropping(u, d)' <=> Dropping(u, d)
                                     /\ Breaking(u, d)' <=> Breaking(u, d)
    BY <2>5, RolesStay
  <2>7. ReceiverListsOK'
    BY <1>2, <1>4, <1>13, <1>15, <2>2, <2>3, <2>4, <2>6, UnlinkReceivers DEF ConnInv
  <2>8. /\ \A q \in Objects : Listed(q)' = Listed(q)
        /\ \A d : InList(d)' <=> InList(d)
    BY <1>13, SameInList
  <2>9. \A d \in Ids : conn'[d].ref = conn[d].ref
    BY <1>2, <1>4, <2>1, UnlinkedFacts DEF Alike
  <2>10. \A d \in Ids : RefOK(d)'
    BY <1>1, <2>6, <2>8, <2>9, SameRefs DEF ConnInv
  <2>11. \A u \in Threads \ {t} : ~Breaking(u, c)
    <3>1. Home[o] = t \/ Home[p] = t
      BY <1>2, <1>3, <2>3 DEF DisconnectOK
    <3> QED
      BY <1>4, <1>15, <2>3, <3>1, NotBroken DEF ConnInv
  <2>12. \A u \in Threads \ {t} : \A d : Breaking(u, d) => conn'[d].receiver = conn[d].receiver
    <3>1. ASSUME NEW u \in Threads \ {t}, NEW d, Breaking(u, d)
          PROVE  conn'[d].receiver = conn[d].receiver
      <4>1. d \in Ids /\ d # c
        BY <2>11, <3>1, BreakingFacts DEF ConnInv
      <4> QED
        BY <2>2, <4>1 DEF UnlinkedNow
    <3> QED
      BY <3>1
  <2>13. \A d \in Ids : conn'[d].receiver \in {conn[d].receiver, Nobody}
    BY <2>2 DEF UnlinkedNow
  <2>14. NewTop(t, h)
    BY <1>2, <1>10, ReplaceNewTop
  <2>15. /\ Calling(t)' => PeerOK(Top(t))' /\ Top(t)'.kind # "break"
         /\ At(t, {"receivers"}, "functor")' => DropOK(Top(t))'
    BY <1>11, <2>5, <2>14 DEF NewTop, At
  <2> QED
    BY <1>1, <2>2, <2>5, <2>7, <2>8, <2>10, <2>12, <2>13, <2>15, ChangedConn
<1> QED
  BY <1>14, <1>15

-----------------------------------------------------------------------------
\* The destructor.

\* A step that neither begins nor ends a use of a connection.
NoRole(f) == f.kind # "break" /\ ~(f.kind = "receivers" /\ f.pc = "functor")

\* A step of a thread that neither drops nor breaks a connection.
LEMMA NoRoleStay ==
    ASSUME NEW t \in Threads, OthersGoOn(t), Calling(t) => NoRole(Top(t)),
           Calling(t)' => NoRole(Top(t)')
    PROVE  \A u \in Threads : \A c : /\ Dropping(u, c)' <=> Dropping(u, c)
                                     /\ Breaking(u, c)' <=> Breaking(u, c)
  BY DEF OthersGoOn, NoRole, Dropping, Breaking, At

\* A step that changes how receivers are destroyed, and no connection.
LEMMA DestroysConn ==
    ASSUME CallInv, ConnInv, NEW t \in Threads, OthersGoOn(t),
           Calling(t) => NoRole(Top(t)), Calling(t)' => NoRole(Top(t)'),
           Calling(t)' => Top(t)'.kind \notin {"disconnect", "receivers"},
           UNCHANGED handles, SameSeqs, SendersSame, ReceiverListsOK',
           \A c \in Ids : conn'[c].receiver = conn[c].receiver /\ conn'[c].ref = conn[c].ref
    PROVE  ConnInv'
<1>1. \A u \in Threads : \A c : /\ Dropping(u, c)' <=> Dropping(u, c)
                                /\ Breaking(u, c)' <=> Breaking(u, c)
  BY NoRoleStay
<1>2. /\ \A o \in Objects : Listed(o)' = Listed(o)
      /\ \A c : InList(c)' <=> InList(c)
  BY SameInList
<1>3. \A c \in Ids : RefOK(c)'
  BY <1>1, <1>2, SameRefs DEF ConnInv
<1>4. \A u \in Threads \ {t} : \A c : Breaking(u, c) => conn'[c].receiver = conn[c].receiver
  BY BreakingFacts DEF ConnInv
<1>5. /\ Calling(t)' => PeerOK(Top(t))' /\ Top(t)'.kind # "break"
      /\ At(t, {"receivers"}, "functor")' => DropOK(Top(t))'
  BY DEF PeerOK, NoRole, At
<1> QED
  BY <1>2, <1>3, <1>4, <1>5, ChangedConn

\* ~QObject ends.
LEMMA ConnGone ==
    ASSUME CallInv, ConnInv, TypeOK', NEW t \in Threads, NEW o \in Objects, Calling(t),
           o = Top(t).obj, Top(t).kind \in {"receivers", "senders"}, Top(t).pc # "functor",
           Home[o] = t, Incoming(o) = {}, Gone(t), UNCHANGED <<conn, handles, lists, head, node>>
    PROVE  ConnInv'
<1>1. TypeOK /\ ReceiverListsOK
  BY DEF CallInv, ConnInv
<1>2. status' = [status EXCEPT ![o] = "gone"] /\ Popped(t)
  BY ReturnPopped DEF Gone
<1>3. /\ ReceiversSame /\ SendersSame /\ SameSeqs
      /\ \A r : Incoming(r)' = Incoming(r)
  BY DEF ReceiversSame, SendersSame, SameSeqs, Incoming
<1>4. ASSUME NEW r \in Objects PROVE ReceiverOK(r)'
  <2>1. Home[r] \in Threads /\ ReceiverOK(r)
    BY <1>1, OneByOne, ConnectionsAssumption
  <2>2. CASE r = o
    <3>1. ~Sends(r)' /\ status'[r] = "gone" /\ Incoming(r)' = {}
      BY <1>1, <1>2, <1>3, <2>2 DEF Sends, Popped, TypeOK
    <3> QED
      BY <3>1 DEF ReceiverOK, HeadOK
  <2>3. CASE r # o
    <3>1. status'[r] = status[r]
      BY <1>2, <2>3
    <3>2. (Sends(r)' <=> Sends(r)) /\ (Walking(r) => Walking(r)')
      <4>1. CASE Home[r] = t
        BY <1>2, <2>3, <4>1 DEF Sends, Walking, Popped
      <4>2. CASE Home[r] # t
        BY <1>2, <2>1, <4>2 DEF Sends, Walking, Popped, OthersGoOn
      <4> QED
        BY <4>1, <4>2
    <3>3. SameReceiver(r)
      BY <1>3, <3>1, <3>2 DEF SameReceiver
    <3> QED
      BY <2>1, <3>3, KeptReceiver
  <2> QED
    BY <2>2, <2>3
<1>5. ReceiverListsOK'
  BY <1>4, OneByOneNext
<1>6. /\ NoRole(Top(t)) /\ (Calling(t)' => NoRole(Top(t)'))
      /\ Calling(t)' => Top(t)'.kind \notin {"disconnect", "receivers"}
      /\ OthersGoOn(t)
  BY <1>2 DEF NoRole, Popped
<1> QED
  BY <1>3, <1>5, <1>6, DestroysConn

\* ~QObject turns to the list of its senders.
LEMMA ConnToSenders ==
    ASSUME CallInv, ConnInv, TypeOK', NEW t \in Threads, NEW o \in Objects, Calling(t),
           o = Top(t).obj, Top(t).kind = "receivers", Top(t).pc # "functor",
           Home[o] = t, status[o] = "dying", ToSenders(t), SameSeqs,
           UNCHANGED <<conn, handles, head, status>>
    PROVE  ConnInv'
<1>1. TypeOK /\ PointersOK /\ ReceiverListsOK
  BY DEF CallInv, ConnInv
<1>2. PICK f \in FrameType : SenderFrame(f, o) /\ Replace(t, f)
  BY <1>1, ToSendersFacts
<1>3. node'[o] = head[o] /\ \A p \in Objects \ {o} : node'[p] = node[p]
  BY <1>1, ToSendersFacts
<1>4. f.kind = "senders" /\ f.obj = o /\ f.pc = "walk" /\ NewTop(t, f)
  BY <1>2, ReplaceNewTop DEF SenderFrame
<1>5. /\ ReceiversSame /\ SendersSame
      /\ \A r : Incoming(r)' = Incoming(r)
  BY DEF ReceiversSame, SendersSame, Incoming
<1>6. ASSUME NEW r \in Objects PROVE ReceiverOK(r)'
  <2>1. Home[r] \in Threads /\ ReceiverOK(r)
    BY <1>1, OneByOne, ConnectionsAssumption
  <2>2. CASE r = o
    <3>1. ~Sends(o) /\ Walking(o)' /\ status'[o] # "gone" /\ status[o] # "gone"
      BY <1>4 DEF Sends, Walking, NewTop
    <3> QED
      BY <1>3, <1>5, <2>1, <2>2, <3>1, ToSendersReceiver
  <2>3. CASE r # o
    <3>1. (Sends(r)' <=> Sends(r)) /\ (Walking(r) => Walking(r)')
      <4>1. CASE Home[r] = t
        BY <1>4, <2>3, <4>1 DEF Sends, Walking, NewTop
      <4>2. CASE Home[r] # t
        BY <1>4, <2>1, <4>2 DEF Sends, Walking, NewTop, OthersGoOn
      <4> QED
        BY <4>1, <4>2
    <3>2. SameReceiver(r)
      BY <1>3, <1>5, <2>3, <3>1 DEF SameReceiver
    <3> QED
      BY <2>1, <3>2, KeptReceiver
  <2> QED
    BY <2>2, <2>3
<1>7. ReceiverListsOK'
  BY <1>6, OneByOneNext
<1>8. /\ NoRole(Top(t)) /\ (Calling(t)' => NoRole(Top(t)'))
      /\ Calling(t)' => Top(t)'.kind \notin {"disconnect", "receivers"}
      /\ OthersGoOn(t)
  BY <1>4 DEF NoRole, NewTop
<1> QED
  BY <1>5, <1>7, <1>8, DestroysConn

\* DestroyBegin keeps ConnInv.
LEMMA ConnDestroyBegin ==
    ASSUME CallInv, ConnInv, TypeOK', NEW t \in Threads, DestroyBegin(t)
    PROVE  ConnInv'
<1>1. At(t, {"receivers"}, "lock")
  BY DEF DestroyBegin
<1>2. /\ TypeOK /\ Calling(t) /\ Top(t).kind = "receivers" /\ Top(t).pc = "lock"
      /\ Top(t).obj \in Objects /\ Top(t) \in FrameType /\ ReceiversOK(t, Top(t))
  BY <1>1, AtFacts DEF FrameOK
<1>3. PICK o \in Objects : o = Top(t).obj
  BY <1>2
<1>4. status[o] = "dying" /\ Home[o] = t
  BY <1>2, <1>3 DEF ReceiversOK
<1>5. CASE ~Attached(o) /\ head[o] = 0 /\ Gone(t) /\ UNCHANGED <<listVars, holder>>
  <2>1. Incoming(o) = {}
    <3>1. ~Sends(o) /\ HeadOK(o)
      BY <1>2, <1>4 DEF Sends, ConnInv, ReceiverListsOK
    <3>2. \A e \in Incoming(o) : e <= 0
      BY <1>4, <1>5, <3>1 DEF HeadOK, Greatest
    <3>3. \A e \in Incoming(o) : e \in 1..MaxConnections
      BY IdsFinite DEF Incoming
    <3>4. MaxConnections \in Nat
      BY IdsFinite
    <3> QED
      BY <3>2, <3>3, <3>4
  <2>2. UNCHANGED <<conn, handles, lists, head, node>>
    BY <1>5 DEF listVars
  <2> QED
    BY <1>2, <1>3, <1>4, <1>5, <2>1, <2>2, ConnGone
<1>6. CASE /\ Attached(o) /\ lists' = [lists EXCEPT ![o].inUse = @ + 1] /\ GoTo(t, "walk")
           /\ UNCHANGED <<conn, handles, head, node, status>>
  <2>1. PICK f : f = [Top(t) EXCEPT !.pc = "walk"]
    OBVIOUS
  <2>2. f \in FrameType /\ f.kind = "receivers" /\ f.pc = "walk" /\ Replace(t, f)
    BY <1>2, <1>6, <2>1 DEF FrameType, GoTo
  <2>3. QuietTop(t)
    BY <1>2, <2>2, QuietReplace DEF Plain, RelockPcs
  <2> QED
    BY <1>2, <1>6, <2>3, UsedSame, SameAsBefore, QuietAction
<1>7. CASE /\ ~Attached(o) /\ ToSenders(t) /\ UNCHANGED lists
           /\ UNCHANGED <<conn, handles, head, status>>
  BY <1>2, <1>3, <1>4, <1>7, SameAsBefore, ConnToSenders
<1> QED
  BY <1>3, <1>5, <1>6, <1>7 DEF DestroyBegin

\* The first connection leaves the list, and is in no other.
LEMMA DroppedList ==
    ASSUME CallInv, ConnInv, NEW o \in Objects, NEW c, c = First(lists[o].seq), c # 0,
           lists' = Dropped(o)
    PROVE  /\ c \in Ids /\ c \in Made /\ conn[c].sender = o /\ InList(c) /\ ~InList(c)'
           /\ \A d : d # c => (InList(d)' <=> InList(d))
           /\ \A p \in Objects : Listed(p)' = Listed(p) \ {c}
           /\ \A u \in Threads : ~Dropping(u, c)
<1>1. /\ TypeOK /\ ListOK(o)
  BY DEF CallInv, ListsOK
<1>2. /\ \A p \in Objects \ {o} : lists'[p] = lists[p]
      /\ Listed(o)' = Listed(o) \ {c} /\ c \in Listed(o)
  BY <1>1, DroppedFacts
<1>3. c \in Ids /\ conn[c].sender = o /\ c \in Made
  BY <1>1, <1>2, ListedFacts, ConnectionsAssumption DEF ListOK, Made
<1>4. ASSUME NEW p \in Objects \ {o} PROVE c \notin Listed(p) /\ Listed(p)' = Listed(p)
  <2>1. c \notin Listed(p)
    BY <1>3 DEF CallInv, ListsOK, ListOK
  <2>2. Listed(p)' = Listed(p)
    BY <1>2 DEF Listed
  <2> QED
    BY <2>1, <2>2
<1>5. \A p \in Objects : Listed(p)' = Listed(p) \ {c}
  BY <1>2, <1>4
<1>6. InList(c) /\ ~InList(c)' /\ \A d : d # c => (InList(d)' <=> InList(d))
  BY <1>2, <1>5 DEF InList
<1>7. \A u \in Threads : ~Dropping(u, c)
  BY <1>6 DEF ConnInv, RefsOK, DropOK, Dropping
<1> QED
  BY <1>3, <1>5, <1>6, <1>7

\* ReceiversWalk keeps ConnInv.
LEMMA ConnReceiversWalk ==
    ASSUME CallInv, ConnInv, TypeOK', NEW t \in Threads, ReceiversWalk(t)
    PROVE  ConnInv'
<1>1. At(t, {"receivers"}, "walk") /\ UNCHANGED <<handles, head, status>>
  BY DEF ReceiversWalk
<1>2. /\ TypeOK /\ Calling(t) /\ Top(t).kind = "receivers" /\ Top(t).pc = "walk"
      /\ Top(t).obj \in Objects /\ Top(t) \in FrameType /\ ReceiversOK(t, Top(t))
  BY <1>1, AtFacts DEF FrameOK
<1>3. PICK o, c : o \in Objects /\ o = Top(t).obj /\ c = First(lists[o].seq)
  BY <1>2
<1>4. status[o] = "dying" /\ Home[o] = t
  BY <1>2, <1>3 DEF ReceiversOK
<1>5. lists[o] \in ListType /\ lists[o].seq \in Seq(Ids)
  BY <1>2, <1>3, ListedFacts
<1>6. CASE c = 0
  <2>1. PICK list : list = [lists[o] EXCEPT !.state = "orphaned"]
    OBVIOUS
  <2>2. list \in ListType /\ list.seq = lists[o].seq /\ lists[o].seq = <<>>
    BY <1>3, <1>5, <1>6, <2>1, FirstFacts DEF ListType
  <2>3. lists' = [lists EXCEPT ![o] = Unused([@ EXCEPT !.state = "orphaned"])]
    BY <1>3, <1>6 DEF ReceiversWalk
  <2>4. LastUse(o, list)
    BY <2>1, <2>3 DEF LastUse
  <2>5. SameSeqs
    BY <1>2, <1>3, <2>2, <2>4, UnusedSame
  <2>6. ToSenders(t) /\ UNCHANGED conn
    BY <1>3, <1>6 DEF ReceiversWalk
  <2> QED
    BY <1>1, <1>2, <1>3, <1>4, <2>5, <2>6, ConnToSenders
<1>7. CASE c # 0 /\ Connected(c)
  <2>1. c \in Ids /\ c \in Nat
    BY <1>3, <1>5, <1>7, FirstFacts, IdsFinite
  <2>2. PICK r \in Objects : r = conn[c].receiver
    BY <1>2, <1>7, <2>1, ConnFacts
  <2>3. PICK f : f = [Top(t) EXCEPT !.c = c]
    OBVIOUS
  <2>4. Relock(t, f, r) /\ UNCHANGED <<conn, lists, node>>
    BY <1>3, <1>7, <2>2, <2>3 DEF ReceiversWalk
  <2>5. f \in FrameType /\ f.kind = "receivers" /\ f.c = c
    BY <1>2, <2>1, <2>3 DEF FrameType
  <2>6. At(t, {"disconnect", "receivers"}, "walk")
    BY <1>1 DEF At
  <2> QED
    BY <1>1, <1>2, <2>2, <2>4, <2>5, <2>6, ConnRelock
<1>8. CASE c # 0 /\ ~Connected(c)
  <2>1. lists' = Dropped(o) /\ conn' = Deref(conn, c) /\ UNCHANGED <<stack, node>>
    BY <1>3, <1>8 DEF ReceiversWalk
  <2>2. /\ c \in Ids /\ InList(c) /\ ~InList(c)'
        /\ \A d : d # c => (InList(d)' <=> InList(d))
        /\ \A p \in Objects : Listed(p)' = Listed(p) \ {c}
        /\ \A u \in Threads : ~Dropping(u, c)
    BY <1>3, <1>8, <2>1, DroppedList
  <2>3. \A d \in Ids : /\ conn'[d].sender = conn[d].sender /\ conn'[d].receiver = conn[d].receiver
                       /\ conn'[d].next = conn[d].next /\ conn'[d].prev = conn[d].prev
                       /\ conn'[d].ref = IF d = c THEN conn[d].ref - 1 ELSE conn[d].ref
    <3>1. conn \in [Ids -> ConnectionType]
      BY <1>2 DEF TypeOK
    <3> QED
      BY <2>1, <3>1, DerefFacts
  <2>4. /\ OthersGoOn(t) /\ SendersStay /\ GoneStay
        /\ (Calling(t)' <=> Calling(t)) /\ Top(t)' = Top(t)
        /\ \A u \in Threads : \A d : /\ Dropping(u, d)' <=> Dropping(u, d)
                                     /\ Breaking(u, d)' <=> Breaking(u, d)
    BY <1>1, <2>1 DEF OthersGoOn, SendersStay, GoneStay, Calling, Top, Sends, Walking, Dropping,
                      Breaking, At
  <2>5. ReceiverListsOK'
    BY <1>1, <1>2, <2>1, <2>3, <2>4, KeptReceivers DEF ConnInv, ReceiversSame
  <2>6. ASSUME NEW d \in Ids PROVE RefOK(d)'
    <3>1. RefOK(d) /\ (Owned(d)' <=> Owned(d))
      BY <1>1, <2>4 DEF ConnInv, RefsOK, Owned
    <3>2. CASE d = c
      <4>1. Held(d) /\ ~Held(d)'
        BY <2>2, <2>4, <3>2 DEF Held
      <4> QED
        BY <2>3, <3>1, <3>2, <4>1, LostRef
    <3>3. CASE d # c
      <4>1. Held(d)' <=> Held(d)
        BY <2>2, <2>4, <3>3 DEF Held
      <4> QED
        BY <2>3, <3>1, <3>3, <4>1, KeptRef
    <3> QED
      BY <3>2, <3>3
  <2>7. ~Connected(c)'
    BY <1>8, <2>2, <2>3 DEF Connected
  <2>8. \A u \in Threads \ {t} : \A d : Breaking(u, d) => conn'[d].receiver = conn[d].receiver
    BY <2>3, BreakingFacts DEF ConnInv
  <2>9. /\ Calling(t)' => PeerOK(Top(t))' /\ Top(t)'.kind # "break"
        /\ At(t, {"receivers"}, "functor")' => DropOK(Top(t))'
    BY <1>2, <2>4 DEF PeerOK, RelockPcs, At
  <2>10. SendersSame
    BY <2>3 DEF SendersSame
  <2> QED
    BY <1>1, <2>2, <2>3, <2>4, <2>5, <2>6, <2>7, <2>8, <2>9, <2>10, ChangedConn
<1> QED
  BY <1>6, <1>7, <1>8

\* ReceiversBoth keeps ConnInv.
LEMMA ConnReceiversBoth ==
    ASSUME CallInv, ConnInv, NEW t \in Threads, ReceiversBoth(t)
    PROVE  ConnInv'
<1>1. At(t, {"receivers"}, "both") /\ UNCHANGED <<handles, status>>
  BY DEF ReceiversBoth
<1>2. /\ TypeOK /\ Calling(t) /\ Top(t).kind = "receivers" /\ Top(t).pc = "both"
      /\ Top(t).obj \in Objects /\ Top(t) \in FrameType /\ ReceiversOK(t, Top(t))
  BY <1>1, AtFacts DEF FrameOK
<1>3. Top(t).peer \in Objects
  BY <1>2 DEF ReceiversOK, RelockPcs
<1>4. PICK o, p, c, functor :
          /\ o \in Objects /\ p \in Objects
          /\ o = Top(t).obj /\ p = Top(t).peer /\ c = Top(t).c /\ functor = conn[Top(t).c].functor
  BY <1>2, <1>3
<1>5. c = First(lists[o].seq) /\ c # 0 /\ Home[o] = t
  BY <1>2, <1>4 DEF ReceiversOK, RelockPcs
<1>6. lists' = Dropped(o) /\ Resume(t, Top(t), functor)
  BY <1>4 DEF ReceiversBoth
<1>7. /\ c \in Ids /\ c \in Made /\ conn[c].sender = o /\ InList(c) /\ ~InList(c)'
      /\ \A d : d # c => (InList(d)' <=> InList(d))
      /\ \A q \in Objects : Listed(q)' = Listed(q) \ {c}
      /\ \A u \in Threads : ~Dropping(u, c)
  BY <1>4, <1>5, <1>6, DroppedList
<1>8. At(t, Relocking, "both")
  BY <1>1 DEF At, Relocking
<1>9. PICK g \in FrameType :
          /\ Replace(t, g) /\ g.kind = Top(t).kind /\ g.obj = Top(t).obj /\ g.c = Top(t).c
          /\ IF functor THEN g.pc = "functor" ELSE g.pc = "walk"
  BY <1>2, <1>6, <1>8, ResumeFacts
<1>10. NewTop(t, g) /\ g.kind = "receivers" /\ g.obj = o /\ g.c = c
       /\ g.pc = IF functor THEN "functor" ELSE "walk"
  BY <1>2, <1>4, <1>9, ReplaceNewTop
<1>11. OthersGoOn(t) /\ SendersStay /\ GoneStay
  <2>1. NotSending(t)
    BY <1>2, <1>10 DEF NotSending, NewTop
  <2> QED
    BY <1>1, <1>10, <2>1, NotSendingStay, SameAsBefore DEF NewTop
<1>12. /\ \A u \in Threads \ {t} : \A d : /\ Dropping(u, d)' <=> Dropping(u, d)
                                          /\ Breaking(u, d)' <=> Breaking(u, d)
       /\ \A d : /\ ~Dropping(t, d) /\ ~Breaking(t, d) /\ ~Breaking(t, d)'
                 /\ Dropping(t, d)' <=> functor /\ d = c
  BY <1>2, <1>10, <1>11 DEF NewTop, OthersGoOn, Dropping, Breaking, At
<1>13. /\ conn' = IF functor THEN Disconnected(c) ELSE Deref(Disconnected(c), c)
       /\ SetPreviousIfConnected(c) /\ Disconnected(c) \in [Ids -> ConnectionType]
  BY <1>2, <1>4, <1>7, DisconnectedFacts DEF ReceiversBoth
<1>14. /\ ReceiverListsOK' /\ SendersSame
       /\ \A d \in Ids : conn'[d].receiver = IF d = c THEN Nobody ELSE conn[d].receiver
       /\ \A d \in Ids : conn'[d].ref = IF d = c /\ ~functor THEN conn[d].ref - 1 ELSE conn[d].ref
  <2>1. PICK cs : cs = Disconnected(c)
    OBVIOUS
  <2>2. \A d \in Ids : cs[d].ref = conn[d].ref
    BY <1>2, <1>7, <2>1, DisconnectedFacts, UnlinkedFacts DEF Alike
  <2>3. \A d \in Ids : conn'[d].ref = IF d = c /\ ~functor THEN conn[d].ref - 1 ELSE conn[d].ref
    <3>1. CASE functor
      BY <1>13, <2>1, <2>2, <3>1
    <3>2. CASE ~functor
      <4>1. \A d \in Ids : conn'[d].ref = IF d = c THEN cs[d].ref - 1 ELSE cs[d].ref
        BY <1>13, <2>1, <3>2, DerefFacts
      <4> QED
        BY <2>2, <3>2, <4>1
    <3> QED
      BY <3>1, <3>2
  <2>4. conn' \in {cs, Deref(cs, c)} /\ cs \in [Ids -> ConnectionType]
    BY <1>13, <2>1
  <2>5. CASE Connected(c)
    <3>1. SetPrevious(c) /\ LinkedAs(Unlinked(c))
      <4>1. Alike(cs, Unlinked(c))
        BY <1>2, <1>7, <2>1, <2>5, DisconnectedFacts
      <4> QED
        BY <1>13, <2>4, <2>5, <4>1, DerefLinked DEF SetPreviousIfConnected
    <3>2. UnlinkedNow(c) /\ SendersSame
      BY <1>2, <1>7, <3>1, UnlinksNow
    <3>3. conn[c].receiver = p
      <4>1. PeerOK(Top(t))
        BY <1>2 DEF ConnInv, PeersOK
      <4> QED
        BY <1>2, <1>4, <2>5, <4>1 DEF PeerOK, RelockPcs, Connected
    <3>4. ~Walking(p)
      <4>1. Lock[p] \in Locks(Top(t))
        BY <1>2, <1>4 DEF Locks
      <4> QED
        BY <1>2, <1>4, <4>1, NotWalking
    <3>5. ReceiverListsOK'
      BY <1>2, <1>7, <1>11, <2>5, <3>2, <3>3, <3>4, UnlinkReceivers DEF ConnInv
    <3> QED
      BY <2>3, <3>2, <3>5 DEF UnlinkedNow
  <2>6. CASE ~Connected(c)
    <3>1. LinkedAs(conn) /\ UNCHANGED <<head, node>>
      <4>1. Alike(cs, conn)
        BY <1>2, <1>7, <2>1, <2>6, DisconnectedFacts
      <4> QED
        BY <1>13, <2>4, <2>6, <4>1, DerefLinked DEF SetPreviousIfConnected
    <3>2. SendersSame /\ ReceiversSame
      BY <3>1 DEF LinkedAs, SendersSame, ReceiversSame
    <3>3. ReceiverListsOK'
      BY <1>2, <1>11, <3>1, <3>2, KeptReceivers DEF ConnInv
    <3>4. \A d \in Ids : conn'[d].receiver = conn[d].receiver
      BY <3>1 DEF LinkedAs
    <3>5. conn[c].receiver = Nobody
      BY <2>6 DEF Connected
    <3> QED
      BY <1>7, <2>3, <3>2, <3>3, <3>4, <3>5
  <2> QED
    BY <2>5, <2>6
<1>15. ASSUME NEW d \in Ids PROVE RefOK(d)'
  <2>1. RefOK(d) /\ (Owned(d)' <=> Owned(d))
    BY <1>1, <1>12 DEF ConnInv, RefsOK, Owned
  <2>2. CASE d = c /\ ~functor
    <3>1. Held(d) /\ ~Held(d)'
      BY <1>7, <1>12, <2>2 DEF Held
    <3> QED
      BY <1>14, <2>1, <2>2, <3>1, LostRef
  <2>3. CASE d = c /\ functor
    <3>1. Held(d) /\ Held(d)'
      BY <1>7, <1>12, <2>3 DEF Held
    <3> QED
      BY <1>14, <2>1, <2>3, <3>1, KeptRef
  <2>4. CASE d # c
    <3>1. Held(d)' <=> Held(d)
      BY <1>7, <1>12, <2>4 DEF Held
    <3> QED
      BY <1>14, <2>1, <2>4, <3>1, KeptRef
  <2> QED
    BY <2>2, <2>3, <2>4
<1>16. \A u \in Threads \ {t} : \A d : Breaking(u, d) => conn'[d].receiver = conn[d].receiver
  <2>1. \A u \in Threads \ {t} : ~Breaking(u, c)
    BY <1>5, <1>7, NotBroken DEF ConnInv
  <2> QED
    BY <1>14, <2>1, BreakingFacts DEF ConnInv
<1>17. Calling(t)' => PeerOK(Top(t))' /\ Top(t)'.kind # "break"
  <2>1. PeerOK(g)'
    BY <1>10 DEF PeerOK, RelockPcs
  <2> QED
    BY <1>10, <2>1 DEF NewTop
<1>18. At(t, {"receivers"}, "functor")' => DropOK(Top(t))'
  <2>1. DropOK(g)'
    <3>1. c \in Made'
      BY <1>7, <1>14, KeptMade
    <3>2. conn'[c].sender = o
      BY <1>7, <1>14 DEF SendersSame
    <3> QED
      BY <1>7, <1>10, <3>1, <3>2 DEF DropOK
  <2> QED
    BY <1>10, <2>1 DEF NewTop
<1>19. /\ \A d \in Ids : conn'[d].receiver \in {conn[d].receiver, Nobody}
       /\ \A q \in Objects : \A d \in Listed(q) : d \in Listed(q)' \/ ~Connected(d)'
       /\ \A q \in Objects : Listed(q)' \subseteq Listed(q)
  BY <1>7, <1>14 DEF Connected
<1> QED
  BY <1>1, <1>11, <1>14, <1>15, <1>16, <1>17, <1>18, <1>19, ChangedConn

\* ReceiversFunctor keeps ConnInv.
LEMMA ConnReceiversFunctor ==
    ASSUME CallInv, ConnInv, NEW t \in Threads, ReceiversFunctor(t)
    PROVE  ConnInv'
<1>1. /\ At(t, {"receivers"}, "functor") /\ conn' = Deref(conn, Top(t).c)
      /\ Replace(t, [Top(t) EXCEPT !.pc = "walk", !.peer = Nobody])
      /\ UNCHANGED <<handles, lists, head, node, status>>
  BY DEF ReceiversFunctor
<1>2. /\ TypeOK /\ Calling(t) /\ Top(t).kind = "receivers" /\ Top(t).pc = "functor"
      /\ Top(t).obj \in Objects /\ Top(t) \in FrameType /\ ReceiversOK(t, Top(t))
  BY <1>1, AtFacts DEF FrameOK
<1>3. PICK o, c : o \in Objects /\ o = Top(t).obj /\ c = Top(t).c
  BY <1>2
<1>4. c \in Made /\ c \in Ids /\ ~InList(c) /\ conn[c].sender = o /\ Home[o] = t
  BY <1>1, <1>2, <1>3 DEF ConnInv, RefsOK, DropOK, ReceiversOK, Made
<1>5. PICK f : f = [Top(t) EXCEPT !.pc = "walk", !.peer = Nobody]
  OBVIOUS
<1>6. f \in FrameType /\ f.kind = "receivers" /\ f.pc = "walk" /\ Replace(t, f)
  BY <1>1, <1>2, <1>5 DEF FrameType
<1>7. NewTop(t, f)
  BY <1>2, <1>6, ReplaceNewTop
<1>8. OthersGoOn(t) /\ SendersStay /\ GoneStay /\ SameSeqs
  <2>1. NotSending(t)
    BY <1>2, <1>6, <1>7 DEF NotSending, NewTop
  <2> QED
    BY <1>1, <1>7, <2>1, NotSendingStay, SameAsBefore DEF NewTop
<1>9. /\ \A u \in Threads \ {t} : \A d : /\ Dropping(u, d)' <=> Dropping(u, d)
                                         /\ Breaking(u, d)' <=> Breaking(u, d)
      /\ \A d : /\ ~Breaking(t, d) /\ ~Breaking(t, d)' /\ ~Dropping(t, d)'
                /\ Dropping(t, d) <=> d = c
  BY <1>2, <1>3, <1>6, <1>7, <1>8 DEF NewTop, OthersGoOn, Dropping, Breaking, At
<1>10. ASSUME NEW u \in Threads \ {t} PROVE ~Dropping(u, c)
  <2> SUFFICES ASSUME Dropping(u, c) PROVE FALSE
    OBVIOUS
  <2>1. At(u, {"receivers"}, "functor") /\ Top(u).c = c
    BY DEF Dropping
  <2>2. conn[c].sender = Top(u).obj
    BY <2>1 DEF ConnInv, RefsOK, DropOK
  <2>3. ReceiversOK(u, Top(u))
    BY <2>1, AtFacts DEF FrameOK
  <2> QED
    BY <1>4, <2>2, <2>3 DEF ReceiversOK
<1>11. conn \in [Ids -> ConnectionType]
  BY <1>2 DEF TypeOK
<1>12. /\ \A d \in Ids : /\ conn'[d].sender = conn[d].sender /\ conn'[d].receiver = conn[d].receiver
                         /\ conn'[d].next = conn[d].next /\ conn'[d].prev = conn[d].prev
                         /\ conn'[d].ref = IF d = c THEN conn[d].ref - 1 ELSE conn[d].ref
  BY <1>1, <1>3, <1>11, DerefFacts
<1>14. SendersSame /\ ReceiversSame
  BY <1>12 DEF SendersSame, ReceiversSame
<1>15. ReceiverListsOK'
  BY <1>1, <1>2, <1>8, <1>14, KeptReceivers DEF ConnInv
<1>16. /\ \A q \in Objects : Listed(q)' = Listed(q)
       /\ \A d : InList(d)' <=> InList(d)
  BY <1>8, SameInList
<1>17. ASSUME NEW d \in Ids PROVE RefOK(d)'
  <2>1. RefOK(d) /\ (Owned(d)' <=> Owned(d))
    BY <1>1, <1>9 DEF ConnInv, RefsOK, Owned
  <2>2. CASE d = c
    <3>1. Held(d)
      BY <1>9, <2>2 DEF Held
    <3>2. ~Held(d)'
      BY <1>4, <1>9, <1>10, <1>16, <2>2 DEF Held
    <3> QED
      BY <1>12, <2>1, <2>2, <3>1, <3>2, LostRef
  <2>3. CASE d # c
    <3>1. Held(d)' <=> Held(d)
      BY <1>9, <1>16, <2>3 DEF Held
    <3> QED
      BY <1>12, <2>1, <2>3, <3>1, KeptRef
  <2> QED
    BY <2>2, <2>3
<1>18. \A u \in Threads \ {t} : \A d : Breaking(u, d) => conn'[d].receiver = conn[d].receiver
  BY <1>12, BreakingFacts DEF ConnInv
<1>19. /\ Calling(t)' => PeerOK(Top(t))' /\ Top(t)'.kind # "break"
       /\ At(t, {"receivers"}, "functor")' => DropOK(Top(t))'
  BY <1>6, <1>7 DEF PeerOK, RelockPcs, At, NewTop
<1> QED
  BY <1>1, <1>8, <1>12, <1>14, <1>15, <1>16, <1>17, <1>18, <1>19, ChangedConn

\* SendersWalk keeps ConnInv.
LEMMA ConnSendersWalk ==
    ASSUME CallInv, ConnInv, TypeOK', NEW t \in Threads, SendersWalk(t)
    PROVE  ConnInv'
<1>1. At(t, {"senders"}, "walk") /\ UNCHANGED <<handles, lists, head, node>>
  BY DEF SendersWalk
<1>2. /\ TypeOK /\ PointersOK /\ Calling(t) /\ Top(t).kind = "senders" /\ Top(t).pc = "walk"
      /\ Top(t).obj \in Objects /\ Top(t) \in FrameType /\ SendersOK(t, Top(t))
  BY <1>1, AtFacts DEF FrameOK, CallInv
<1>3. PICK o, f, c : o \in Objects /\ f \in FrameType /\ o = Top(t).obj /\ f = Top(t) /\ c = node[Top(t).obj]
  BY <1>2
<1>4. status[o] = "dying" /\ Home[o] = t /\ Sends(o)
  BY <1>2, <1>3 DEF SendersOK, Sends
<1>5. Greatest(c, Incoming(o))
  BY <1>3, <1>4 DEF ConnInv, ReceiverListsOK, HeadOK
<1>6. CASE c = 0
  <2>1. Gone(t) /\ UNCHANGED conn
    BY <1>3, <1>6 DEF SendersWalk
  <2>2. Incoming(o) = {}
    <3>1. \A e \in Incoming(o) : e <= 0
      BY <1>5, <1>6 DEF Greatest
    <3>2. \A e \in Incoming(o) : e \in 1..MaxConnections
      BY IdsFinite DEF Incoming
    <3>3. MaxConnections \in Nat
      BY IdsFinite
    <3> QED
      BY <3>1, <3>2, <3>3
  <2> QED
    BY <1>1, <1>2, <1>3, <1>4, <2>1, <2>2, ConnGone
<1>7. CASE c # 0
  <2>1. c \in Made /\ c \in Ids /\ c \in Incoming(o) /\ conn[c].receiver = o
    <3>1. c \in Incoming(o)
      BY <1>5, <1>7 DEF Greatest
    <3> QED
      BY <1>2, <1>3, <1>7, <3>1 DEF PointersOK, Incoming
  <2>2. PICK s \in Objects : s = conn[c].sender
    BY <1>2, <2>1, ConnFacts DEF Made
  <2>3. conn' = [conn EXCEPT ![c].prev = NodeOf(o)] /\ Relock(t, f, s) /\ UNCHANGED status
    BY <1>3, <1>7, <2>2 DEF SendersWalk
  <2>4. PICK g \in FrameType :
            /\ NewTop(t, g) /\ g.kind = f.kind /\ g.obj = f.obj /\ g.pc \in RelockPcs
    BY <1>2, <1>3, <2>3, RelockTop
  <2>5. \A d \in Ids : /\ conn'[d].sender = conn[d].sender /\ conn'[d].receiver = conn[d].receiver
                       /\ conn'[d].next = conn[d].next /\ conn'[d].ref = conn[d].ref
                       /\ conn'[d].prev = IF d = c THEN NodeOf(o) ELSE conn[d].prev
    <3>1. conn \in [Ids -> ConnectionType] /\ conn[c] \in ConnectionType
      BY <1>2, <2>1 DEF TypeOK
    <3>2. PICK new : new = [conn[c] EXCEPT !.prev = NodeOf(o)]
      OBVIOUS
    <3>3. /\ new.sender = conn[c].sender /\ new.receiver = conn[c].receiver
          /\ new.next = conn[c].next /\ new.ref = conn[c].ref /\ new.prev = NodeOf(o)
      BY <3>1, <3>2 DEF ConnectionType
    <3>4. conn' = [conn EXCEPT ![c] = new]
      BY <2>3, <3>2
    <3> QED
      BY <3>1, <3>3, <3>4
  <2>7. \A r : Incoming(r)' = Incoming(r)
    BY <2>5 DEF Incoming
  <2>8. ASSUME NEW r \in Objects PROVE ReceiverOK(r)'
    <3>1. Home[r] \in Threads /\ ReceiverOK(r)
      BY <1>2, OneByOne, ConnectionsAssumption DEF ConnInv
    <3>2. CASE r = o
      <4>1. Sends(o)' /\ status'[o] # "gone" /\ status[o] # "gone"
        BY <1>2, <1>3, <1>4, <2>3, <2>4 DEF Sends, NewTop
      <4> QED
        BY <1>1, <1>3, <1>4, <2>1, <2>5, <3>1, <3>2, <4>1, NodeReceiver
    <3>3. CASE r # o
      <4>1. (Sends(r)' <=> Sends(r)) /\ (Walking(r) => Walking(r)')
        <5>1. CASE Home[r] = t
          BY <1>3, <2>4, <3>3, <5>1 DEF Sends, Walking, NewTop
        <5>2. CASE Home[r] # t
          BY <2>4, <3>1, <5>2 DEF Sends, Walking, NewTop, OthersGoOn
        <5> QED
          BY <5>1, <5>2
      <4>2. \A d \in Incoming(r) : d # c /\ d \in Ids
        BY <2>1, <3>3 DEF Incoming
      <4>3. SameReceiver(r)
        BY <1>1, <2>3, <2>5, <2>7, <4>1, <4>2 DEF SameReceiver
      <4> QED
        BY <3>1, <4>3, KeptReceiver
    <3> QED
      BY <3>2, <3>3
  <2>9. ReceiverListsOK'
    BY <2>8, OneByOneNext
  <2>10. SendersSame /\ SameSeqs
    BY <1>1, <2>5 DEF SendersSame, SameSeqs
  <2>11. /\ NoRole(Top(t)) /\ (Calling(t)' => NoRole(Top(t)'))
         /\ Calling(t)' => Top(t)'.kind \notin {"disconnect", "receivers"}
         /\ OthersGoOn(t)
    BY <1>2, <1>3, <2>4 DEF NoRole, NewTop
  <2> QED
    BY <1>1, <2>5, <2>9, <2>10, <2>11, DestroysConn
<1> QED
  BY <1>6, <1>7

\* SendersBoth keeps ConnInv.
LEMMA ConnSendersBoth ==
    ASSUME CallInv, ConnInv, TypeOK', NEW t \in Threads, SendersBoth(t)
    PROVE  ConnInv'
<1>1. At(t, {"senders"}, "both") /\ UNCHANGED <<handles, head, status>>
  BY DEF SendersBoth
<1>2. /\ TypeOK /\ Calling(t) /\ Top(t).kind = "senders" /\ Top(t).pc = "both"
      /\ Top(t).obj \in Objects /\ Top(t) \in FrameType /\ SendersOK(t, Top(t))
  BY <1>1, AtFacts DEF FrameOK
<1>3. At(t, Relocking, "both")
  BY <1>1 DEF At, Relocking
<1>4. CASE WrongMutex(Top(t))
  <2>1. Resume(t, Top(t), FALSE) /\ UNCHANGED <<conn, lists, node>>
    BY <1>4 DEF SendersBoth
  <2>2. PICK functor : functor = FALSE
    OBVIOUS
  <2>3. PICK g \in FrameType :
            /\ Replace(t, g) /\ g.kind = Top(t).kind /\ g.obj = Top(t).obj
            /\ g.other = Top(t).other /\ g.c = Top(t).c
            /\ IF functor THEN g.pc = "functor" ELSE g.pc = "walk"
    <3>1. Resume(t, Top(t), functor)
      BY <2>1, <2>2
    <3> QED
      BY <1>2, <1>3, <3>1, ResumeFacts
  <2>4. QuietTop(t)
    BY <1>2, <2>2, <2>3, QuietReplace DEF RelockPcs
  <2> QED
    BY <1>1, <2>1, <2>4, SameAsBefore, QuietAction
<1>5. CASE ~WrongMutex(Top(t))
  <2>1. PICK o, c : o = Top(t).obj /\ c = node[Top(t).obj]
    OBVIOUS
  <2>2. /\ o \in Objects /\ c \in Made
        /\ \A d \in Ids :
              /\ conn'[d].sender = conn[d].sender
              /\ conn'[d].receiver = IF d = c THEN Nobody ELSE conn[d].receiver
              /\ conn'[d].next = conn[d].next /\ conn'[d].ref = conn[d].ref
              /\ conn'[d].prev = IF conn[c].functor /\ d = conn[c].next THEN NodeOf(o)
                                                                        ELSE conn[d].prev
        /\ SameLists /\ node'[o] = conn[c].next
        /\ \A p \in Objects \ {o} : node'[p] = node[p]
        /\ Resume(t, Top(t), conn[c].functor)
    BY <1>1, <1>5, <2>1, SendersUnlink
  <2>3. PICK functor : functor = conn[c].functor
    OBVIOUS
  <2>4. PICK g \in FrameType :
            /\ Replace(t, g) /\ g.kind = Top(t).kind /\ g.obj = Top(t).obj
            /\ IF functor THEN g.pc = "functor" ELSE g.pc = "walk"
    BY <1>2, <1>3, <2>2, <2>3, ResumeFacts
  <2>5. NewTop(t, g) /\ g.kind = "senders" /\ g.obj = o
    BY <1>2, <2>1, <2>4, ReplaceNewTop
  <2>6. /\ status[o] = "dying" /\ Home[o] = t /\ Sends(o) /\ Sends(o)' /\ ~Walking(o)
        /\ ~functor => Walking(o)'
        /\ c \in Ids
    BY <1>2, <2>1, <2>2, <2>4, <2>5 DEF SendersOK, Sends, Walking, NewTop, Made
  <2>7. ReceiverOK(o) /\ \A r \in Objects : ReceiverOK(r)
    BY <1>2, <2>2, OneByOne DEF ConnInv
  <2>8. TakenNow(o, c)
    <3>1. \A d \in Ids : d # conn[c].next => conn'[d].prev = conn[d].prev
      BY <2>2
    <3>2. Walking(o)' \/ \A d \in Ids : d = conn[c].next => conn'[d].prev = NodeOf(o)
      BY <2>2, <2>3, <2>6
    <3> QED
      BY <2>2, <3>1, <3>2 DEF TakenNow
  <2>9. ReceiverOK(o)' /\ conn[c].receiver = o
    BY <1>1, <2>1, <2>2, <2>6, <2>7, <2>8, TakenReceiver
  <2>10. conn[c].next \in Incoming(o) \cup {0}
    <3>1. Connected(c) /\ NextOK(c)
      BY <2>2, <2>6, <2>9, ConnectionsAssumption DEF ConnInv, ReceiverListsOK, Connected
    <3> QED
      BY <2>9, <3>1 DEF NextOK, Older, Greatest
  <2>11. ASSUME NEW r \in Objects, r # o PROVE ReceiverOK(r)'
    <3>1. (Sends(r)' <=> Sends(r)) /\ (Walking(r) => Walking(r)')
      <4>1. CASE Home[r] = t
        BY <1>2, <2>1, <2>5, <2>11, <4>1 DEF Sends, Walking, NewTop
      <4>2. CASE Home[r] # t
        <5>1. Home[r] \in Threads
          BY ConnectionsAssumption
        <5> QED
          BY <2>5, <4>2, <5>1 DEF Sends, Walking, NewTop, OthersGoOn
      <4> QED
        BY <4>1, <4>2
    <3>2. r # Nobody
      BY ConnectionsAssumption
    <3>3. Incoming(r)' = Incoming(r)
      BY <2>2, <2>9, <2>11, <3>2 DEF Incoming
    <3>4. ASSUME NEW d \in Incoming(r) PROVE d \in Ids /\ d # conn[c].next
      <4>1. d \in Ids /\ conn[d].receiver = r
        BY <3>4 DEF Incoming
      <4>2. d \notin Incoming(o) /\ d # 0
        BY <2>11, <4>1, IdsFinite DEF Incoming
      <4> QED
        BY <2>10, <4>1, <4>2
    <3>5. \A d \in Incoming(r) : conn'[d].next = conn[d].next /\ conn'[d].prev = conn[d].prev
      BY <2>2, <3>4
    <3>6. SameReceiver(r)
      BY <1>1, <2>2, <2>11, <3>1, <3>3, <3>5 DEF SameReceiver
    <3> QED
      BY <2>7, <3>6, KeptReceiver
  <2>12. ReceiverListsOK'
    BY <2>9, <2>11, OneByOneNext
  <2>13. SendersSame /\ SameSeqs
    BY <2>2 DEF SendersSame, SameLists, SameSeqs
  <2>14. /\ NoRole(Top(t)) /\ (Calling(t)' => NoRole(Top(t)'))
         /\ Calling(t)' => Top(t)'.kind \notin {"disconnect", "receivers", "break"}
         /\ OthersGoOn(t)
    BY <1>2, <2>5 DEF NoRole, NewTop
  <2>15. \A u \in Threads : \A d : /\ Dropping(u, d)' <=> Dropping(u, d)
                                   /\ Breaking(u, d)' <=> Breaking(u, d)
    BY <1>2, <2>14, NoRoleStay
  <2>16. /\ \A q \in Objects : Listed(q)' = Listed(q)
         /\ \A d : InList(d)' <=> InList(d)
    BY <2>13, SameInList
  <2>17. \A d \in Ids : RefOK(d)'
    BY <1>1, <2>2, <2>15, <2>16, SameRefs DEF ConnInv
  <2>18. \A u \in Threads \ {t} : \A d : Breaking(u, d) => conn'[d].receiver = conn[d].receiver
    <3>1. \A u \in Threads \ {t} : ~Breaking(u, c)
      BY <2>2, <2>6, <2>9, NotBroken, ConnectionsAssumption DEF ConnInv, Connected
    <3> QED
      BY <2>2, <3>1, BreakingFacts DEF ConnInv
  <2>19. /\ Calling(t)' => PeerOK(Top(t))' /\ Top(t)'.kind # "break"
         /\ At(t, {"receivers"}, "functor")' => DropOK(Top(t))'
    BY <2>14 DEF PeerOK, At
  <2>20. \A d \in Ids : conn'[d].receiver \in {conn[d].receiver, Nobody}
    BY <2>2
  <2> QED
    BY <1>1, <2>12, <2>13, <2>14, <2>16, <2>17, <2>18, <2>19, <2>20, ChangedConn
<1> QED
  BY <1>4, <1>5

-----------------------------------------------------------------------------
\* Handles, of which the thread that breaks a connection has its own.

\* Break keeps ConnInv.
LEMMA ConnBreak ==
    ASSUME OwnHandles, CallInv, ConnInv, NEW t \in Threads, NEW c \in Made, Break(t, c)
    PROVE  ConnInv'
<1>1. c \in Ids
  BY DEF Made
<1>0. conn[c].sender \in Objects /\ conn[c].receiver \in Objects
  <2>1. <<t, conn[c].sender, conn[c].receiver>> \in Threads \X Objects \X Objects
    BY ConnectionsAssumption DEF Break
  <2> QED
    BY <2>1
<1>2. PICK s \in Objects, r \in Objects : s = conn[c].sender /\ r = conn[c].receiver
  BY <1>0
<1>3. /\ MayCall(t) /\ c \in handles /\ <<t, s, r>> \in Breakers /\ handles' = handles \ {c}
      /\ Call(t, [Frame("break", s, r) EXCEPT !.c = c])
      /\ UNCHANGED <<conn, lists, head, node, status, holder>>
  BY <1>2 DEF Break
<1>4. s \in Objects /\ r \in Objects /\ Home[s] = t /\ Home[r] = t
  BY <1>3 DEF OwnHandles
<1>5. PICK g : g = Frame("break", s, r)
  OBVIOUS
<1>6. /\ g \in FrameType /\ g.kind = "break" /\ g.obj = s /\ g.other = r /\ g.pc = "lock"
  BY <1>4, <1>5, FrameFacts
<1>7. PICK f : f = [g EXCEPT !.c = c]
  OBVIOUS
<1>8. /\ f \in FrameType /\ f.kind = "break" /\ f.obj = s /\ f.other = r /\ f.c = c /\ Call(t, f)
  BY <1>1, <1>3, <1>5, <1>6, <1>7, IdsFinite DEF FrameType
<1>9. NewTop(t, f) /\ (Calling(t) => Top(t).kind = "emit")
  BY <1>3, <1>8, CallNewTop, UserFacts
<1>10. OthersGoOn(t) /\ SendersStay /\ GoneStay /\ SameSeqs
  <2>1. NotSending(t)
    BY <1>8, <1>9 DEF NotSending, NewTop
  <2> QED
    BY <1>3, <1>9, <2>1, NotSendingStay, SameAsBefore DEF NewTop
<1>11. /\ \A u \in Threads \ {t} : \A d : /\ Dropping(u, d)' <=> Dropping(u, d)
                                          /\ Breaking(u, d)' <=> Breaking(u, d)
       /\ \A d : /\ ~Breaking(t, d) /\ ~Dropping(t, d) /\ ~Dropping(t, d)'
                 /\ Breaking(t, d)' <=> d = c
  BY <1>8, <1>9, <1>10 DEF NewTop, OthersGoOn, Dropping, Breaking, At
<1>12. /\ \A q \in Objects : Listed(q)' = Listed(q)
       /\ \A d : InList(d)' <=> InList(d)
  BY <1>10, SameInList
<1>13. /\ TypeOK /\ ReceiverListsOK /\ SenderListsOK /\ PeersOK /\ RefsOK /\ BreaksOK
       /\ SendersSame /\ Made' = Made
  BY <1>3 DEF CallInv, ConnInv, SendersSame, Made
<1>14. ReceiverListsOK'
  BY <1>3, <1>10, <1>13, KeptReceivers DEF ReceiversSame
<1>15. SenderListsOK'
  BY <1>3, <1>12, <1>13, KeptSenders DEF Connected
<1>16. PeersOK'
  <2>1. PeerOK(f)'
    BY <1>8 DEF PeerOK
  <2> QED
    BY <1>3, <1>9, <1>13, <2>1, KeptPeers DEF NewTop
<1>17. ASSUME NEW d \in Ids PROVE RefOK(d)'
  <2>1. RefOK(d) /\ (Held(d)' <=> Held(d))
    BY <1>11, <1>12, <1>13 DEF RefsOK, Held
  <2>2. Owned(d)' <=> Owned(d)
    <3>1. CASE d = c
      BY <1>3, <1>11, <3>1 DEF Owned
    <3>2. CASE d # c
      BY <1>3, <1>11, <3>2 DEF Owned
    <3> QED
      BY <3>1, <3>2
  <2> QED
    BY <1>3, <2>1, <2>2, KeptRef
<1>18. RefsOK'
  <2>1. At(t, {"receivers"}, "functor")' => DropOK(Top(t))'
    BY <1>8, <1>9 DEF NewTop, At
  <2>2. \A u \in Threads : At(u, {"receivers"}, "functor")' => DropOK(Top(u))'
    BY <1>3, <1>10, <1>12, <1>13, <2>1, KeptDrops
  <2> QED
    BY <1>17, <2>2 DEF RefsOK
<1>19. BreaksOK'
  <2>1. BreakOK(t, f)'
    BY <1>1, <1>2, <1>3, <1>4, <1>6, <1>7, <1>8 DEF BreakOK, FrameType
  <2>2. Calling(t)' /\ Top(t)'.kind = "break" => BreakOK(t, Top(t))'
    BY <1>9, <2>1 DEF NewTop
  <2>3. handles' \subseteq Made' /\ \A d \in Made \ handles : d \notin handles'
    BY <1>3, <1>13 DEF BreaksOK
  <2> QED
    BY <1>3, <1>10, <1>13, <2>2, <2>3, KeptBreaks
<1> QED
  BY <1>14, <1>15, <1>16, <1>18, <1>19 DEF ConnInv

\* BreakBoth keeps ConnInv.
LEMMA ConnBreakBoth ==
    ASSUME CallInv, ConnInv, NEW t \in Threads, BreakBoth(t)
    PROVE  ConnInv'
<1>1. At(t, {"break"}, "second") /\ UNCHANGED <<handles, status>>
  BY DEF BreakBoth
<1>2. /\ TypeOK /\ Calling(t) /\ Top(t).kind = "break" /\ Top(t).obj \in Objects
      /\ Top(t) \in FrameType /\ Top(t).pc = "second"
  BY <1>1, AtFacts
<1>3. PICK c : c = Top(t).c
  OBVIOUS
<1>4. /\ c \in Made /\ c \in Ids /\ c \notin handles /\ Connected(c)
      /\ conn[c].sender \in Objects /\ conn[c].receiver \in Objects
      /\ Home[conn[c].sender] = t /\ Home[conn[c].receiver] = t
      /\ conn[c].sender = Top(t).obj /\ conn[c].receiver = Top(t).other
  <2>1. Breaking(t, c)
    BY <1>2, <1>3 DEF Breaking
  <2>2. c \in Ids /\ Connected(c)
    BY <1>2, <2>1, BreakingFacts DEF ConnInv
  <2> QED
    BY <1>2, <2>1, <2>2, BreakingFacts, ConnFacts DEF ConnInv
<1>5. PICK o \in Objects, r \in Objects : o = conn[c].sender /\ r = conn[c].receiver
  BY <1>4
<1>6. PICK f : f = [Top(t) EXCEPT !.pc = "functor"]
  OBVIOUS
<1>7. /\ lists' = [lists EXCEPT ![o].dirty = TRUE] /\ conn' = Unlinked(c)
      /\ SetPrevious(c) /\ Replace(t, f)
  BY <1>3, <1>4, <1>5, <1>6 DEF BreakBoth, GoTo
<1>8. SameSeqs
  BY <1>2, <1>7, DirtyList DEF SameLists, SameSeqs
<1>9. UnlinkedNow(c) /\ SendersSame
  <2>1. LinkedAs(Unlinked(c))
    BY <1>7 DEF LinkedAs
  <2> QED
    BY <1>2, <1>4, <1>7, <2>1, UnlinksNow
<1>10. /\ f \in FrameType /\ f.kind = "break" /\ f.obj = o /\ f.other = r /\ f.c = c
       /\ f.pc = "functor" /\ NewTop(t, f)
  <2>1. /\ f \in FrameType /\ f.kind = "break" /\ f.obj = o /\ f.other = r /\ f.c = c
        /\ f.pc = "functor"
    BY <1>2, <1>3, <1>4, <1>5, <1>6 DEF FrameType
  <2> QED
    BY <1>2, <1>7, <2>1, ReplaceNewTop
<1>11. OthersGoOn(t) /\ SendersStay /\ GoneStay
  <2>1. NotSending(t)
    BY <1>2, <1>10 DEF NotSending, NewTop
  <2> QED
    BY <1>1, <1>10, <2>1, NotSendingStay, SameAsBefore DEF NewTop
<1>12. ReceiverListsOK'
  <2>1. ~Walking(r)
    BY <1>2, <1>4, <1>5, NotWalking
  <2> QED
    BY <1>2, <1>4, <1>5, <1>9, <1>11, <2>1, UnlinkReceivers DEF ConnInv
<1>13. \A u \in Threads : \A d : /\ Dropping(u, d)' <=> Dropping(u, d)
                                 /\ Breaking(u, d)' <=> Breaking(u, d)
  BY <1>2, <1>3, <1>10, <1>11 DEF NewTop, OthersGoOn, Dropping, Breaking, At
<1>14. \A u \in Threads \ {t} : ~Breaking(u, c)
  BY <1>4, NotBroken DEF ConnInv
<1>15. /\ \A q \in Objects : Listed(q)' = Listed(q)
       /\ \A d : InList(d)' <=> InList(d)
  BY <1>8, SameInList
<1>16. \A d \in Ids : conn'[d].ref = conn[d].ref
  BY <1>2, <1>4, <1>7, UnlinkedFacts
<1>17. \A d \in Ids : RefOK(d)'
  BY <1>1, <1>13, <1>15, <1>16, SameRefs DEF ConnInv
<1>18. \A u \in Threads \ {t} : \A d : Breaking(u, d) => conn'[d].receiver = conn[d].receiver
  <2>1. ASSUME NEW u \in Threads \ {t}, NEW d, Breaking(u, d)
        PROVE  conn'[d].receiver = conn[d].receiver
    <3>1. d \in Ids /\ d # c
      BY <1>14, <2>1, BreakingFacts DEF ConnInv
    <3> QED
      BY <1>9, <3>1 DEF UnlinkedNow
  <2> QED
    BY <2>1
<1>19. \A d \in Ids : conn'[d].receiver \in {conn[d].receiver, Nobody}
  BY <1>9 DEF UnlinkedNow
<1>20. BreakOK(t, f)'
  <2>1. conn'[c].receiver = Nobody /\ conn'[c].sender = o /\ c \notin handles'
    BY <1>1, <1>4, <1>5, <1>9 DEF UnlinkedNow, SendersSame
  <2> QED
    BY <1>4, <1>5, <1>10, <2>1 DEF BreakOK
<1>21. /\ Calling(t)' => PeerOK(Top(t))'
       /\ Calling(t)' /\ Top(t)'.kind = "break" => BreakOK(t, Top(t))'
       /\ At(t, {"receivers"}, "functor")' => DropOK(Top(t))'
  <2>1. PeerOK(f)'
    BY <1>10 DEF PeerOK
  <2> QED
    BY <1>10, <1>20, <2>1 DEF NewTop, At
<1> QED
  BY <1>1, <1>9, <1>11, <1>12, <1>15, <1>17, <1>18, <1>19, <1>21, ChangedConn

\* BreakFunctor keeps ConnInv.
LEMMA ConnBreakFunctor ==
    ASSUME CallInv, ConnInv, NEW t \in Threads, BreakFunctor(t)
    PROVE  ConnInv'
<1>1. /\ At(t, {"break"}, "functor") /\ Return(t)
      /\ conn' = Deref(WithoutSlot(conn, Top(t).c), Top(t).c)
      /\ UNCHANGED <<handles, lists, head, node, status, holder>>
  BY DEF BreakFunctor
<1>2. /\ TypeOK /\ Calling(t) /\ Top(t).kind = "break" /\ Top(t) \in FrameType
      /\ conn \in [Ids -> ConnectionType]
  BY <1>1, AtFacts DEF TypeOK
<1>3. PICK c : c = Top(t).c
  OBVIOUS
<1>4. c \in Made /\ c \in Ids /\ c \notin handles /\ Home[conn[c].sender] = t
  <2>1. Breaking(t, c)
    BY <1>2, <1>3 DEF Breaking
  <2> QED
    BY <2>1, BreakingFacts DEF ConnInv
<1>5. /\ LinkedAs(conn)
      /\ \A d \in Ids : conn'[d].ref = IF d = c THEN conn[d].ref - 1 ELSE conn[d].ref
  <2>1. PICK cs : cs = WithoutSlot(conn, c)
    OBVIOUS
  <2>2. cs \in [Ids -> ConnectionType] /\ Alike(cs, conn) /\ conn' = Deref(cs, c)
    BY <1>1, <1>2, <1>3, <2>1, WithoutSlotFacts
  <2>3. conn' \in {cs, Deref(cs, c)}
    BY <2>2
  <2>4. LinkedAs(conn)
    BY <2>2, <2>3, DerefLinked
  <2>5. \A d \in Ids : conn'[d].ref = IF d = c THEN cs[d].ref - 1 ELSE cs[d].ref
    BY <2>2, DerefFacts
  <2> QED
    BY <2>2, <2>4, <2>5 DEF Alike
<1>6. Popped(t)
  BY <1>1, <1>2, ReturnPopped
<1>7. OthersGoOn(t) /\ SendersStay /\ GoneStay /\ SameSeqs
  <2>1. NotSending(t)
    BY <1>2, <1>6 DEF NotSending, Popped
  <2> QED
    BY <1>1, <1>6, <2>1, NotSendingStay, SameAsBefore DEF Popped
<1>8. SendersSame /\ ReceiversSame
  BY <1>5 DEF LinkedAs, SendersSame, ReceiversSame
<1>9. ReceiverListsOK'
  BY <1>1, <1>2, <1>7, <1>8, KeptReceivers DEF ConnInv
<1>10. /\ \A q \in Objects : Listed(q)' = Listed(q)
       /\ \A d : InList(d)' <=> InList(d)
  BY <1>7, SameInList
<1>11. /\ \A u \in Threads \ {t} : \A d : /\ Dropping(u, d)' <=> Dropping(u, d)
                                          /\ Breaking(u, d)' <=> Breaking(u, d)
       /\ \A d : /\ ~Breaking(t, d)' /\ ~Dropping(t, d) /\ ~Dropping(t, d)'
                 /\ Breaking(t, d) <=> d = c
  BY <1>2, <1>3, <1>6, <1>7 DEF Popped, OthersGoOn, Dropping, Breaking, At
<1>12. \A u \in Threads \ {t} : ~Breaking(u, c)
  BY <1>4, NotBroken DEF ConnInv
<1>13. ASSUME NEW d \in Ids PROVE RefOK(d)'
  <2>1. RefOK(d) /\ (Held(d)' <=> Held(d))
    BY <1>10, <1>11 DEF ConnInv, RefsOK, Held
  <2>2. CASE d = c
    <3>1. Owned(d) /\ ~Owned(d)'
      BY <1>1, <1>4, <1>11, <1>12, <2>2 DEF Owned
    <3> QED
      BY <1>5, <2>1, <2>2, <3>1, LostRef
  <2>3. CASE d # c
    <3>1. Owned(d)' <=> Owned(d)
      BY <1>1, <1>11, <2>3 DEF Owned
    <3> QED
      BY <1>5, <2>1, <2>3, <3>1, KeptRef
  <2> QED
    BY <2>2, <2>3
<1>14. /\ \A d \in Ids : conn'[d].receiver \in {conn[d].receiver, Nobody}
       /\ \A u \in Threads \ {t} : \A d : Breaking(u, d) => conn'[d].receiver = conn[d].receiver
  BY <1>5, BreakingFacts DEF LinkedAs, ConnInv
<1>15. /\ Calling(t)' => PeerOK(Top(t))'
       /\ Calling(t)' /\ Top(t)'.kind = "break" => BreakOK(t, Top(t))'
       /\ At(t, {"receivers"}, "functor")' => DropOK(Top(t))'
  BY <1>6 DEF Popped, PeerOK, At
<1> QED
  BY <1>1, <1>7, <1>8, <1>9, <1>10, <1>13, <1>14, <1>15, ChangedConn

\* DropHandle keeps ConnInv.
LEMMA ConnDropHandle ==
    ASSUME CallInv, ConnInv, NEW c \in Made, DropHandle(c)
    PROVE  ConnInv'
<1>1. /\ c \in Ids /\ c \in handles /\ ~Connected(c)
      /\ handles' = handles \ {c} /\ conn' = Deref(conn, c)
      /\ UNCHANGED <<lists, head, node, status, holder, stack>>
  BY DEF DropHandle, Made
<1>2. TypeOK /\ conn \in [Ids -> ConnectionType]
  BY DEF CallInv, TypeOK
<1>3. \A d \in Ids : /\ conn'[d].sender = conn[d].sender /\ conn'[d].receiver = conn[d].receiver
                     /\ conn'[d].next = conn[d].next /\ conn'[d].prev = conn[d].prev
                     /\ conn'[d].ref = IF d = c THEN conn[d].ref - 1 ELSE conn[d].ref
  BY <1>1, <1>2, DerefFacts
<1>5. SendersSame /\ ReceiversSame /\ SameSeqs /\ Made' = Made /\ Made \subseteq Ids
  BY <1>1, <1>3, KeptMade DEF SendersSame, ReceiversSame, SameSeqs, Made
<1>6. /\ SendersStay /\ GoneStay
      /\ \A u : (Calling(u)' <=> Calling(u)) /\ Top(u)' = Top(u)
      /\ \A u, d : /\ Dropping(u, d)' <=> Dropping(u, d)
                   /\ Breaking(u, d)' <=> Breaking(u, d)
  BY <1>1 DEF SendersStay, GoneStay, Calling, Top, Sends, Walking, Dropping, Breaking, At
<1>7. ReceiverListsOK'
  BY <1>1, <1>2, <1>5, <1>6, KeptReceivers DEF ConnInv
<1>8. /\ \A q \in Objects : Listed(q)' = Listed(q)
      /\ \A d : InList(d)' <=> InList(d)
  BY <1>5, SameInList
<1>9. SenderListsOK'
  BY <1>2, <1>3, <1>5, <1>8, KeptSenders DEF ConnInv, Connected
<1>10. PeersOK'
  <2>1. ASSUME NEW u \in Threads, Calling(u) PROVE PeerOK(Top(u))'
    <3>1. PICK f : f = Top(u)
      OBVIOUS
    <3>2. PeerOK(f)
      BY <2>1, <3>1 DEF ConnInv, PeersOK
    <3>3. CASE f.kind \in {"disconnect", "receivers"} /\ f.pc \in RelockPcs
      <4>1. f.c \in Ids
        BY <1>5, <2>1, <3>1, <3>3, RelockMade
      <4>2. PeerOK(f)'
        BY <1>3, <3>2, <4>1 DEF PeerOK
      <4> QED
        BY <1>6, <3>1, <4>2
    <3>4. CASE ~(f.kind \in {"disconnect", "receivers"} /\ f.pc \in RelockPcs)
      BY <1>6, <3>1, <3>4 DEF PeerOK
    <3> QED
      BY <3>3, <3>4
  <2> QED
    BY <1>6, <2>1 DEF PeersOK
<1>11. ASSUME NEW u \in Threads PROVE ~Breaking(u, c)
  BY <1>1, BreakingFacts DEF ConnInv
<1>12. ASSUME NEW d \in Ids PROVE RefOK(d)'
  <2>1. RefOK(d) /\ (Held(d)' <=> Held(d))
    BY <1>6, <1>8 DEF ConnInv, RefsOK, Held
  <2>2. CASE d = c
    <3>1. Owned(d) /\ ~Owned(d)'
      BY <1>1, <1>6, <1>11, <2>2 DEF Owned
    <3> QED
      BY <1>3, <2>1, <2>2, <3>1, LostRef
  <2>3. CASE d # c
    <3>1. Owned(d)' <=> Owned(d)
      BY <1>1, <1>6, <2>3 DEF Owned
    <3> QED
      BY <1>3, <2>1, <2>3, <3>1, KeptRef
  <2> QED
    BY <2>2, <2>3
<1>13. RefsOK'
  <2>1. ASSUME NEW u \in Threads, At(u, {"receivers"}, "functor")' PROVE DropOK(Top(u))'
    <3>1. PICK f : f = Top(u)
      OBVIOUS
    <3>2. DropOK(f) /\ Top(u)' = f
      BY <1>6, <2>1, <3>1 DEF ConnInv, RefsOK, At
    <3>3. f.c \in Made /\ f.c \in Ids
      BY <1>5, <3>2 DEF DropOK
    <3>4. DropOK(f)'
      BY <1>3, <1>5, <1>8, <3>2, <3>3 DEF DropOK
    <3> QED
      BY <3>2, <3>4
  <2> QED
    BY <1>12, <2>1 DEF RefsOK
<1>14. BreaksOK'
  <2>1. ASSUME NEW u \in Threads, Calling(u), Top(u).kind = "break" PROVE BreakOK(u, Top(u))'
    <3>1. PICK f : f = Top(u)
      OBVIOUS
    <3>2. BreakOK(u, f) /\ Top(u)' = f
      BY <1>6, <2>1, <3>1 DEF ConnInv, BreaksOK
    <3>3. BreakOK(u, f)'
      BY <1>1, <1>3, <3>2 DEF BreakOK
    <3> QED
      BY <3>2, <3>3
  <2>2. handles' \subseteq Made'
    BY <1>1, <1>5 DEF ConnInv, BreaksOK
  <2> QED
    BY <1>6, <2>1, <2>2 DEF BreaksOK
<1> QED
  BY <1>7, <1>9, <1>10, <1>13, <1>14 DEF ConnInv

-----------------------------------------------------------------------------
\* A new connection.

\* An object that is alive is in no destructor.
LEMMA AliveNotSending ==
    ASSUME CallInv, NEW r \in Objects, Alive(r)
    PROVE  ~Sends(r)
<1> SUFFICES ASSUME Sends(r) PROVE FALSE
  OBVIOUS
<1>1. Home[r] \in Threads /\ Calling(Home[r]) /\ Top(Home[r]).kind = "senders" /\ Top(Home[r]).obj = r
  BY ConnectionsAssumption DEF Sends
<1>2. FrameOK(Home[r], Top(Home[r]))
  <2>1. PICK t \in Threads : t = Home[r]
    BY <1>1
  <2>2. At(t, {"senders"}, Top(t).pc)
    BY <1>1, <2>1 DEF At
  <2> QED
    BY <2>1, <2>2, AtFacts
<1>3. status[r] = "dying"
  BY <1>1, <1>2 DEF FrameOK, SendersOK
<1> QED
  BY <1>3 DEF Alive

\* AddConnection keeps ConnInv.
LEMMA ConnAddConnection ==
    ASSUME CallInv, ConnInv, TypeOK', NEW t \in Threads, AddConnection(t)
    PROVE  ConnInv'
<1>1. /\ At(t, {"connect"}, "second")
      /\ handles' = IF Kept(Top(t).obj, Top(t).other) THEN handles \cup {Newest + 1} ELSE handles
      /\ head' = [head EXCEPT ![Top(t).other] = Newest + 1]
      /\ Return(t) /\ UNCHANGED <<node, status>>
  BY DEF AddConnection
<1>2. /\ TypeOK /\ Calling(t) /\ Top(t).kind = "connect"
  BY <1>1, AtFacts
<1>3. PICK s, r, c : s = Top(t).obj /\ r = Top(t).other /\ c = Newest + 1
  OBVIOUS
<1>4. /\ s \in Objects /\ r \in Objects /\ Alive(s) /\ Alive(r)
      /\ c \in Ids /\ c \notin Made /\ \A d \in Made : d < c
      /\ conn'[c].sender = s /\ conn'[c].receiver = r
      /\ conn'[c].next = head[r] /\ conn'[c].prev = HeadOf(r)
      /\ conn'[c].ref = IF Kept(s, r) THEN 2 ELSE 1
      /\ \A d \in Ids \ {c} :
            /\ conn'[d].sender = conn[d].sender /\ conn'[d].receiver = conn[d].receiver
            /\ conn'[d].next = conn[d].next
            /\ conn'[d].prev = IF d = head[r] THEN NextOf(c) ELSE conn[d].prev
            /\ conn'[d].ref = IF d \in Taken(s) THEN conn[d].ref - 1 ELSE conn[d].ref
  BY <1>3, AddedConnections
<1>5. /\ \A o \in Objects \ {s} : lists'[o] = lists[o]
      /\ Listed(s)' = (Listed(s) \cup {c}) \ Taken(s)
      /\ c \notin Listed(s) /\ c \notin Taken(s)
  BY <1>3, AddedLists
<1>6. Made' = Made \cup {c}
  BY <1>3, AddedMade
<1>7. /\ head'[r] = c /\ \A o \in Objects \ {r} : head'[o] = head[o]
      /\ handles' = IF Kept(s, r) THEN handles \cup {c} ELSE handles
  BY <1>1, <1>2, <1>3, <1>4 DEF TypeOK
<1>8. /\ Popped(t) /\ OthersGoOn(t) /\ SendersStay /\ GoneStay
  <2>1. Popped(t)
    BY <1>1, <1>2, ReturnPopped
  <2>2. NotSending(t) /\ OthersGoOn(t)
    BY <1>2, <2>1 DEF NotSending, Popped
  <2> QED
    BY <1>1, <2>1, <2>2, NotSendingStay, SameAsBefore
\* The connections that were there.
<1>9. \A d \in Ids : Connected(d) => d \in Made /\ d # c /\ d < c
  BY <1>4 DEF ConnInv, SenderListsOK
<1>10. \A d \in Made : d \in Ids \ {c}
  BY <1>4 DEF Made
<1>11. \A o \in Objects : Incoming(o) \subseteq Ids \ {c} /\ \A d \in Incoming(o) : d < c
  BY <1>9, ConnectionsAssumption DEF Incoming, Connected
<1>12. \A o \in Objects : ReceiverOK(o)
  BY <1>2, OneByOne DEF ConnInv
<1>13. ReceiverOK(r)'
  <2>1. ~Sends(r) /\ ~Sends(r)' /\ status[r] # "gone" /\ status'[r] # "gone"
    BY <1>4, <1>8, AliveNotSending DEF SendersStay, GoneStay, Alive
  <2>2. AddedNow(r, c)
    BY <1>4, <1>7 DEF AddedNow
  <2> QED
    BY <1>4, <1>11, <1>12, <2>1, <2>2, AddedReceiver
<1>14. ASSUME NEW o \in Objects, o # r PROVE ReceiverOK(o)'
  <2>1. o # Nobody
    BY ConnectionsAssumption
  <2>2. Incoming(o)' = Incoming(o)
    <3>1. \A d \in Ids : conn'[d].receiver = o <=> conn[d].receiver = o
      <4>1. conn[c].receiver # o
        BY <1>4, <1>9, <2>1 DEF Connected
      <4> QED
        BY <1>4, <1>14, <4>1
    <3> QED
      BY <3>1 DEF Incoming
  <2>3. head[r] \notin Incoming(o)
    <3>1. Greatest(head[r], Incoming(r))
      BY <1>4, <1>12, AliveNotSending DEF ReceiverOK, HeadOK, Alive
    <3>2. 0 \notin Ids
      BY IdsFinite
    <3>3. \A d : ~(d \in Incoming(o) /\ d \in Incoming(r))
      BY <1>14 DEF Incoming
    <3> QED
      BY <1>11, <3>1, <3>2, <3>3 DEF Greatest
  <2>4. \A d \in Incoming(o) : conn'[d].next = conn[d].next /\ conn'[d].prev = conn[d].prev
    BY <1>4, <1>11, <2>3
  <2>5. SameReceiver(o)
    BY <1>1, <1>7, <1>8, <1>14, <2>2, <2>4 DEF SameReceiver, SendersStay, GoneStay
  <2> QED
    BY <1>12, <2>5, KeptReceiver
<1>15. ReceiverListsOK'
  BY <1>13, <1>14, OneByOneNext
\* The lists of the senders.
<1>16. /\ \A o \in Objects \ {s} : Listed(o)' = Listed(o)
       /\ \A o \in Objects : \A d \in Listed(o) : d \in Made /\ conn[d].sender = o
  <2>1. ASSUME NEW o \in Objects, NEW d \in Listed(o) PROVE d \in Made /\ conn[d].sender = o
    <3>1. ListOK(o) /\ d \in Ids /\ o # Nobody
      BY <1>2, ListedFacts, ConnectionsAssumption DEF CallInv, ListsOK
    <3> QED
      BY <3>1 DEF ListOK, Made
  <2>2. \A o \in Objects \ {s} : Listed(o)' = Listed(o)
    BY <1>5 DEF Listed
  <2> QED
    BY <2>1, <2>2
<1>17. \A d \in Taken(s) : d \in Listed(s) /\ ~Connected(d)
  BY DEF Taken
<1>18. SenderListsOK'
  <2> SUFFICES ASSUME NEW d \in Ids, Connected(d)'
               PROVE  d \in Made' /\ d \in Listed(conn[d].sender)'
    BY DEF SenderListsOK
  <2>1. CASE d = c
    BY <1>4, <1>5, <1>6, <2>1
  <2>2. CASE d # c
    <3>1. Connected(d) /\ conn'[d].sender = conn[d].sender
      BY <1>4, <2>2 DEF Connected
    <3>2. PICK o : o = conn[d].sender
      OBVIOUS
    <3>3. d \in Made /\ d \in Listed(o) /\ o \in Objects
      BY <1>2, <3>1, <3>2, ConnFacts DEF ConnInv, SenderListsOK, Made
    <3>4. d \in Listed(o)'
      <4>1. CASE o = s
        BY <1>5, <1>17, <3>1, <3>3, <4>1
      <4>2. CASE o # s
        BY <1>16, <3>3, <4>2
      <4> QED
        BY <4>1, <4>2
    <3> QED
      BY <1>6, <3>1, <3>2, <3>3, <3>4
  <2> QED
    BY <2>1, <2>2
<1>19. PeersOK'
  <2>1. Calling(t)' => PeerOK(Top(t))'
    BY <1>8 DEF Popped, PeerOK
  <2>2. \A d \in Made : conn'[d].receiver \in {conn[d].receiver, Nobody}
    BY <1>4, <1>10
  <2> QED
    BY <1>8, <2>1, <2>2, KeptPeers DEF ConnInv
\* References.
<1>20. \A u \in Threads : \A d : /\ Dropping(u, d)' <=> Dropping(u, d)
                                 /\ Breaking(u, d)' <=> Breaking(u, d)
  <2>1. NoRole(Top(t)) /\ (Calling(t)' => NoRole(Top(t)'))
    BY <1>2, <1>8 DEF NoRole, Popped
  <2> QED
    BY <1>8, <2>1, NoRoleStay
<1>21. \A d : InList(d)' <=> (InList(d) \/ d = c) /\ d \notin Taken(s)
  <2>1. ASSUME NEW d, InList(d)' PROVE (InList(d) \/ d = c) /\ d \notin Taken(s)
    <3>1. PICK o \in Objects : d \in Listed(o)'
      BY <2>1 DEF InList
    <3>2. CASE o = s
      BY <1>4, <1>5, <3>1, <3>2 DEF InList
    <3>3. CASE o # s
      <4>1. d \in Listed(o) /\ conn[d].sender = o
        BY <1>16, <3>1, <3>3
      <4>2. d \notin Taken(s)
        BY <1>4, <1>16, <1>17, <3>3, <4>1
      <4> QED
        BY <4>1, <4>2 DEF InList
    <3> QED
      BY <3>2, <3>3
  <2>2. ASSUME NEW d, InList(d) \/ d = c, d \notin Taken(s) PROVE InList(d)'
    <3>1. CASE d = c
      BY <1>4, <1>5, <2>2, <3>1 DEF InList
    <3>2. CASE d # c
      <4>1. PICK o \in Objects : d \in Listed(o)
        BY <2>2, <3>2 DEF InList
      <4>2. d \in Listed(o)'
        BY <1>5, <1>16, <2>2, <4>1
      <4> QED
        BY <4>1, <4>2 DEF InList
    <3> QED
      BY <3>1, <3>2
  <2> QED
    BY <2>1, <2>2
<1>22. ASSUME NEW d \in Ids PROVE RefOK(d)'
  <2>1. RefOK(d)
    BY DEF ConnInv, RefsOK
  <2>2. CASE d = c
    <3>1. Held(d)'
      BY <1>5, <1>21, <2>2 DEF Held
    <3>2. c \notin handles /\ \A u \in Threads : ~Breaking(u, c)
      BY <1>4, BreakingFacts DEF ConnInv, BreaksOK
    <3>3. Owned(d)' <=> Kept(s, r)
      BY <1>7, <1>20, <2>2, <3>2 DEF Owned
    <3>4. conn'[d].ref = IF Kept(s, r) THEN 2 ELSE 1
      BY <1>4, <2>2
    <3>5. CASE Kept(s, r)
      BY <3>1, <3>3, <3>4, <3>5 DEF RefOK
    <3>6. CASE ~Kept(s, r)
      BY <3>1, <3>3, <3>4, <3>6 DEF RefOK
    <3> QED
      BY <3>5, <3>6
  <2>3. CASE d # c
    <3>1. Owned(d)' <=> Owned(d)
      BY <1>7, <1>20, <2>3 DEF Owned
    <3>2. CASE d \in Taken(s)
      <4>1. InList(d) /\ ~InList(d)' /\ d \in Made
        BY <1>4, <1>16, <1>17, <1>21, <3>2 DEF InList
      <4>2. \A u \in Threads : ~Dropping(u, d)
        BY <4>1 DEF ConnInv, RefsOK, DropOK, Dropping
      <4>3. Held(d) /\ ~Held(d)'
        BY <1>20, <4>1, <4>2 DEF Held
      <4>4. conn'[d].ref = conn[d].ref - 1
        BY <1>4, <2>3, <3>2
      <4> QED
        BY <2>1, <3>1, <4>3, <4>4, LostRef
    <3>3. CASE d \notin Taken(s)
      <4>1. Held(d)' <=> Held(d)
        BY <1>20, <1>21, <2>3, <3>3 DEF Held
      <4>2. conn'[d].ref = conn[d].ref
        BY <1>4, <2>3, <3>3
      <4> QED
        BY <2>1, <3>1, <4>1, <4>2, KeptRef
    <3> QED
      BY <3>2, <3>3
  <2> QED
    BY <2>2, <2>3
<1>23. RefsOK'
  <2>1. At(t, {"receivers"}, "functor")' => DropOK(Top(t))'
    BY <1>8 DEF Popped, At
  <2>2. \A d \in Made : /\ d \in Made' /\ conn'[d].sender = conn[d].sender
                        /\ ~InList(d) => ~InList(d)'
    BY <1>4, <1>6, <1>10, <1>21
  <2>3. \A u \in Threads : At(u, {"receivers"}, "functor")' => DropOK(Top(u))'
    BY <1>8, <2>1, <2>2, KeptDrops DEF ConnInv
  <2> QED
    BY <1>22, <2>3 DEF RefsOK
<1>24. BreaksOK'
  <2>1. Calling(t)' /\ Top(t)'.kind = "break" => BreakOK(t, Top(t))'
    BY <1>8 DEF Popped
  <2>2. handles' \subseteq Made' /\ \A d \in Made \ handles : d \notin handles'
    BY <1>4, <1>6, <1>7 DEF ConnInv, BreaksOK
  <2>3. \A d \in Made : conn'[d].sender = conn[d].sender
    BY <1>4, <1>10
  <2>4. \A u \in Threads \ {t} : \A d : Breaking(u, d) => conn'[d].receiver = conn[d].receiver
    BY <1>4, <1>10, BreakingFacts DEF ConnInv
  <2> QED
    BY <1>8, <2>1, <2>2, <2>3, <2>4, KeptBreaks DEF ConnInv
<1> QED
  BY <1>15, <1>18, <1>19, <1>23, <1>24 DEF ConnInv

-----------------------------------------------------------------------------
\* The invariant.

\* Nothing changes.
LEMMA ConnStutter ==
    ASSUME CallInv, ConnInv, UNCHANGED vars
    PROVE  ConnInv'
<1>1. UNCHANGED <<conn, handles, lists, head, node, status, holder, stack>>
  BY DEF vars, listVars
<1>2. /\ \A t : (Calling(t)' <=> Calling(t)) /\ Top(t)' = Top(t)
      /\ SendersStay /\ GoneStay /\ ReceiversSame /\ SameSeqs /\ SendersSame /\ Made' = Made
      /\ \A t, c : /\ Dropping(t, c)' <=> Dropping(t, c)
                   /\ Breaking(t, c)' <=> Breaking(t, c)
  BY <1>1 DEF Calling, Top, SendersStay, GoneStay, ReceiversSame, SameSeqs, SendersSame, Made,
     Sends, Walking, Dropping, Breaking, At
<1>3. TypeOK /\ ReceiverListsOK /\ SenderListsOK /\ PeersOK /\ RefsOK /\ BreaksOK
  BY DEF CallInv, ConnInv
<1>4. /\ \A o \in Objects : Listed(o)' = Listed(o)
      /\ \A c : InList(c)' <=> InList(c)
  BY <1>2, SameInList
<1>5. ReceiverListsOK'
  BY <1>1, <1>2, <1>3, KeptReceivers
<1>6. SenderListsOK'
  BY <1>1, <1>2, <1>3, <1>4, KeptSenders DEF Connected
<1>7. PeersOK'
  BY <1>1, <1>2, <1>3 DEF PeersOK, PeerOK
<1>8. RefsOK'
  <2>1. \A c \in Ids : RefOK(c)'
    BY <1>1, <1>2, <1>3, <1>4, SameRefs
  <2>2. \A t \in Threads : At(t, {"receivers"}, "functor")' => DropOK(Top(t))'
    BY <1>1, <1>2, <1>3, <1>4 DEF RefsOK, DropOK, At
  <2> QED
    BY <2>1, <2>2 DEF RefsOK
<1>9. BreaksOK'
  BY <1>1, <1>2, <1>3 DEF BreaksOK, BreakOK
<1> QED
  BY <1>5, <1>6, <1>7, <1>8, <1>9 DEF ConnInv

\* Every step keeps ConnInv, where OwnHandles holds.
LEMMA ConnNext ==
    ASSUME OwnHandles
    PROVE  CallInv /\ ConnInv /\ [Next]_vars => ConnInv'
<1> SUFFICES ASSUME CallInv, ConnInv, [Next]_vars PROVE ConnInv'
  OBVIOUS
<1>1. TypeOK'
  BY CallNext DEF CallInv
<1>2. CASE UNCHANGED vars
  BY <1>2, ConnStutter
<1>3. ASSUME NEW t \in Threads, Step(t) PROVE ConnInv'
  <2>1. CASE \/ LockFirst(t) \/ AddConnection(t)
             \/ EmitBegin(t) \/ Visit(t) \/ Queued(t) \/ Lower(t) \/ Upper(t)
    BY <1>1, <2>1, ConnLockFirst, ConnAddConnection, ConnEmitBegin, ConnEmission, ConnLowerUpper
  <2>2. CASE \/ DisconnectBegin(t) \/ DisconnectWalk(t) \/ DisconnectBoth(t) \/ DisconnectFunctor(t)
             \/ BreakBoth(t) \/ BreakFunctor(t)
    BY <2>2, ConnDisconnectBegin, ConnDisconnectWalk, ConnDisconnectBoth, ConnDisconnectFunctor,
       ConnBreakBoth, ConnBreakFunctor
  <2>3. CASE \/ DestroyBegin(t) \/ ReceiversWalk(t) \/ ReceiversBoth(t) \/ ReceiversFunctor(t)
             \/ SendersWalk(t) \/ SendersBoth(t) \/ SendersFunctor(t)
    BY <1>1, <2>3, ConnDestroyBegin, ConnReceiversWalk, ConnReceiversBoth, ConnReceiversFunctor,
       ConnSendersWalk, ConnSendersBoth, ConnSendersFunctor
  <2> QED
    BY <1>3, <2>1, <2>2, <2>3 DEF Step
<1>4. ASSUME NEW t \in Threads, User(t) PROVE ConnInv'
  <2>1. CASE \E l \in Links : Connect(t, l[1], l[2], l[3])
    BY <2>1, ConnConnect
  <2>2. CASE \E l \in Links : Disconnect(t, l[1], l[2])
    BY <2>2, ConnDisconnect
  <2>3. CASE \E o \in Objects : Emit(t, o) \/ DisconnectAll(t, o) \/ Destroy(t, o)
    BY <2>3, ConnCalls
  <2>4. CASE \E c \in Made : Break(t, c)
    BY <2>4, ConnBreak
  <2>5. CASE SlotReturns(t)
    BY <2>5, ConnEmission
  <2> QED
    BY <1>4, <2>1, <2>2, <2>3, <2>4, <2>5 DEF User
<1>5. ASSUME NEW c \in Made, DropHandle(c) PROVE ConnInv'
  BY <1>5, ConnDropHandle
<1> QED
  BY <1>2, <1>3, <1>4, <1>5 DEF Next

\* At first there is no connection.
LEMMA ConnInit == Init => ConnInv
<1> SUFFICES ASSUME Init PROVE ConnInv
  OBVIOUS
<1>1. /\ \A c \in Ids : /\ conn[c].receiver = Nobody /\ conn[c].ref = 0 /\ ~conn[c].functor
      /\ handles = {} /\ \A o \in Objects : head[o] = 0 /\ lists[o].seq = <<>>
  BY DEF Init, NoList
<1>2. \A t \in Threads : ~Calling(t)
  BY DEF Init, Calling
<1>3. ReceiverListsOK /\ SenderListsOK
  <2>1. \A c \in Ids : ~Connected(c)
    BY <1>1 DEF Connected
  <2>2. \A r \in Objects : Incoming(r) = {} /\ ~Sends(r) /\ head[r] = 0
    BY <1>1, <1>2, ConnectionsAssumption DEF Incoming, Sends
  <2>3. \A r \in Objects : HeadOK(r)
    BY <2>2 DEF HeadOK, Greatest
  <2> QED
    BY <2>1, <2>3 DEF ReceiverListsOK, NextOK, PrevOK, SenderListsOK
<1>4. PeersOK /\ BreaksOK
  BY <1>1, <1>2 DEF PeersOK, BreaksOK
<1>5. RefsOK
  <2>1. \A c : ~InList(c)
    BY <1>1 DEF InList, Listed, Elements
  <2>2. \A c : ~Held(c) /\ ~Owned(c)
    BY <1>1, <1>2, <2>1 DEF Held, Owned, Dropping, Breaking, At
  <2>3. \A c \in Ids : RefOK(c)
    BY <1>1, <2>2 DEF RefOK
  <2> QED
    BY <1>2, <2>3 DEF RefsOK, At
<1> QED
  BY <1>3, <1>4, <1>5 DEF ConnInv

\* Both ends of connections, their references and their handles stay
\* consistent with the calls, if threads break connections of their own only.
THEOREM ConnectionsInvariant ==
    ASSUME OwnHandles
    PROVE  Spec => [](CallInv /\ ConnInv)
<1>1. CallInv /\ ConnInv /\ [Next]_vars => (CallInv /\ ConnInv)'
  BY CallNext, ConnNext
<1>2. Init => CallInv /\ ConnInv
  BY CallInit, ConnInit
<1> QED
  BY <1>1, <1>2, PTL DEF Spec

-----------------------------------------------------------------------------
\* What it says of the properties.

\* A call other than an emission is on top of its thread's stack.
LEMMA OnTop ==
    ASSUME CallInv, NEW t \in Threads, NEW k \in 1..Len(stack[t]), NEW f, f = stack[t][k]
    PROVE  /\ TypeOK /\ Calling(t) /\ f \in FrameType /\ FrameOK(t, f) /\ k \in 1..MaxDepth
           /\ f.kind # "emit" => f = Top(t)
<1>1. TypeOK /\ Suspended /\ FramesOK
  BY DEF CallInv
<1>2. f \in FrameType /\ Len(stack[t]) \in Nat /\ Len(stack[t]) <= MaxDepth
  BY <1>1, TopFacts DEF TypeOK
<1>3. k \in 1..MaxDepth
  BY <1>2, ConnectionsAssumption
<1>4. Calling(t)
  BY <1>2 DEF Calling
<1>5. f.kind # "emit" => f = Top(t)
  <2> SUFFICES ASSUME f.kind # "emit", k # Len(stack[t]) PROVE FALSE
    BY DEF Top
  <2>1. k \in 1..(Len(stack[t]) - 1)
    BY <1>2
  <2> QED
    BY <1>1, <2>1 DEF Suspended
<1> QED
  BY <1>1, <1>2, <1>3, <1>4, <1>5 DEF FramesOK

\* What is held or owned has a reference.
LEMMA HeldRef ==
    ASSUME ConnInv, NEW c \in Ids, Held(c) \/ Owned(c)
    PROVE  conn[c].ref > 0
<1>1. RefOK(c)
  BY DEF ConnInv, RefsOK
<1> QED
  BY <1>1 DEF RefOK

\* A connection in a sender's list has a reference.
LEMMA ListedRef ==
    ASSUME CallInv, ConnInv, NEW o \in Objects, NEW c \in Listed(o)
    PROVE  conn[c].ref > 0
<1>1. c \in Ids /\ Held(c)
  BY ListedFacts DEF CallInv, Held, InList
<1> QED
  BY <1>1, HeldRef

\* An object that is gone has no list.
LEMMA GoneListed ==
    ASSUME CallInv, NEW o \in Objects, status[o] = "gone"
    PROVE  Listed(o) = {} /\ ~Attached(o)
<1>1. ListOK(o)
  BY DEF CallInv, ListsOK
<1>2. lists[o].state # "attached" /\ lists[o].seq = <<>>
  BY <1>1 DEF ListOK
<1> QED
  BY <1>2 DEF Attached, Listed, Elements

\* The two lists of a connection.
LEMMA TwoSidedHolds ==
    ASSUME CallInv, ConnInv
    PROVE  TwoSided
<1> SUFFICES ASSUME NEW c \in Ids, Connected(c), NEW s, NEW r,
                    s = conn[c].sender, r = conn[c].receiver
             PROVE  /\ \E k \in 1..Len(lists[s].seq) : lists[s].seq[k] = c
                    /\ status[s] # "gone" /\ status[r] # "gone"
                    /\ \/ Pointer(conn[c].prev, r) /\ Target(conn[c].prev) = c
                       \/ InSenders(r) /\ node[r] = c /\ ~Free(r)
  BY DEF TwoSided
<1>1. /\ TypeOK /\ s \in Objects /\ r \in Objects /\ c \in Listed(s) /\ c \in Incoming(r)
      /\ HeadOK(r) /\ PrevOK(c)
  <2>1. c \in Made /\ c \in Listed(s)
    BY DEF ConnInv, SenderListsOK
  <2>2. conn[c].sender \in Objects /\ conn[c].receiver \in Objects
    BY <2>1, ConnFacts DEF CallInv, Made, Connected
  <2> QED
    BY <2>1, <2>2 DEF CallInv, Incoming, ConnInv, ReceiverListsOK
<1>2. \E k \in 1..Len(lists[s].seq) : lists[s].seq[k] = c
  BY <1>1 DEF Listed, Elements
<1>3. status[s] # "gone" /\ status[r] # "gone"
  BY <1>1, GoneListed DEF HeadOK
<1>4. CASE \E d \in Incoming(r) : conn[c].prev = NextOf(d) /\ conn[d].next = c
  <2>1. PICK d \in Incoming(r) : conn[c].prev = NextOf(d) /\ conn[d].next = c
    BY <1>4
  <2>2. d \in Ids /\ conn[d].receiver = r
    BY <2>1 DEF Incoming
  <2>3. Target(conn[c].prev) = c
    BY <2>1 DEF Target, NextOf
  <2> QED
    BY <1>2, <1>3, <2>1, <2>2, <2>3 DEF Pointer
<1>5. CASE conn[c].prev = HeadOf(r) /\ head[r] = c
  <2>1. Target(conn[c].prev) = c
    BY <1>5 DEF Target, HeadOf
  <2> QED
    BY <1>2, <1>3, <1>5, <2>1 DEF Pointer
<1>6. CASE conn[c].prev = NodeOf(r) /\ node[r] = c
  <2>1. Target(conn[c].prev) = c
    BY <1>6 DEF Target, NodeOf
  <2> QED
    BY <1>2, <1>3, <1>6, <2>1 DEF Pointer
<1>7. CASE Walking(r) /\ node[r] = c
  <2>1. PICK t \in Threads : t = Home[r]
    BY <1>1, ConnectionsAssumption
  <2>2. Calling(t) /\ Top(t).kind = "senders" /\ Top(t).obj = r /\ Top(t).pc = "walk"
    BY <1>7, <2>1 DEF Walking, Sends
  <2>3. holder[Lock[r]] = t
    <3>1. Locks(Top(t)) = {Lock[r]}
      BY <2>2 DEF Locks
    <3> QED
      BY <2>2, <3>1 DEF CallInv, MutexOK
  <2>4. ~Free(r)
    BY <2>3, ConnectionsAssumption DEF Free
  <2>5. InSenders(r)
    <3>1. Len(stack[t]) \in 1..Len(stack[t]) /\ Top(t) = stack[t][Len(stack[t])]
      BY <1>1, <2>2, TopFacts DEF Top
    <3>2. Top(t) \in Frames
      BY <3>1 DEF Frames
    <3> QED
      BY <2>2, <3>2 DEF InSenders
  <2> QED
    BY <1>2, <1>3, <1>7, <2>4, <2>5
<1> QED
  BY <1>1, <1>4, <1>5, <1>6, <1>7 DEF PrevOK

\* The connection that a call uses has a reference.
LEMMA UsedRef ==
    ASSUME CallInv, ConnInv, NEW t \in Threads, NEW f \in FrameType, FrameOK(t, f), Calling(t),
           f.kind # "emit" => f = Top(t), f.kind # "connect", f.pc # "lock",
           NEW c \in Uses(f) \ {0}
    PROVE  conn[c].ref > 0
<1>1. PICK o \in Objects : o = f.obj
  BY DEF FrameType
<1>2. CASE f.kind = "emit"
  <2>1. Alive(f.obj) /\ c = f.c
    BY <1>2 DEF Uses
  <2>2. c \in Listed(o)
    BY <1>1, <1>2, <2>1 DEF FrameOK, EmitOK
  <2> QED
    BY <2>2, ListedRef
<1>3. CASE f.kind = "disconnect"
  <2>1. c = f.c
    BY <1>3 DEF Uses
  <2>2. c \in Listed(o)
    BY <1>1, <1>3, <2>1 DEF FrameOK, DisconnectOK
  <2> QED
    BY <2>2, ListedRef
<1>4. CASE f.kind = "receivers"
  <2>1. f.pc # "walk" /\ c = f.c
    BY <1>4 DEF Uses
  <2>2. f = Top(t) /\ f.pc \in RelockPcs \cup {"functor"}
    BY <1>4, <2>1 DEF FrameOK, ReceiversOK
  <2>3. CASE f.pc \in RelockPcs
    <3>1. c \in Listed(o)
      BY <1>1, <1>4, <2>1, <2>2, <2>3, RelockMade
    <3> QED
      BY <3>1, ListedRef
  <2>4. CASE f.pc = "functor"
    <3>1. At(t, {"receivers"}, "functor") /\ Dropping(t, c)
      BY <1>4, <2>1, <2>2, <2>4 DEF At, Dropping
    <3>2. c \in Ids
      BY <2>1, <2>2, <3>1 DEF ConnInv, RefsOK, DropOK, Made
    <3> QED
      BY <3>1, <3>2, HeldRef DEF Held
  <2> QED
    BY <2>2, <2>3, <2>4
<1>5. CASE f.kind = "senders"
  <2>1. c = node[o] /\ f = Top(t) /\ Home[o] = t
    BY <1>1, <1>5 DEF Uses, FrameOK, SendersOK
  <2>2. Sends(o)
    BY <1>1, <1>5, <2>1 DEF Sends
  <2>3. c \in Incoming(o)
    BY <2>1, <2>2 DEF ConnInv, ReceiverListsOK, HeadOK, Greatest
  <2>4. c \in Ids /\ Connected(c)
    BY <2>3, ConnectionsAssumption DEF Incoming, Connected
  <2>5. c \in Made /\ c \in Listed(conn[c].sender)
    BY <2>4 DEF ConnInv, SenderListsOK
  <2>6. conn[c].sender \in Objects
    BY <2>5, ConnFacts DEF CallInv, Made
  <2> QED
    BY <2>5, <2>6, ListedRef
<1>6. CASE f.kind = "break"
  <2>1. c = f.c /\ f = Top(t) /\ f.c \in Ids
    BY <1>6 DEF Uses, FrameOK, BreakShape
  <2>2. Breaking(t, c)
    BY <1>6, <2>1 DEF Breaking
  <2> QED
    BY <2>1, <2>2, HeldRef DEF Owned
<1> QED
  BY <1>2, <1>3, <1>4, <1>5, <1>6 DEF FrameType, Relocking

\* No connection or list in use is deleted.
LEMMA NothingDanglingHolds ==
    ASSUME CallInv, ConnInv
    PROVE  NothingDangling
<1> SUFFICES ASSUME NEW f \in Frames, f.kind # "connect", f.pc # "lock"
             PROVE  /\ \A c \in Uses(f) \ {0} : conn[c].ref > 0
                    /\ f.kind \in {"emit", "disconnect"} => lists[f.obj].state # "deleted"
  BY DEF NothingDangling
<1>1. PICK t \in Threads : \E k \in 1..Len(stack[t]) : f = stack[t][k]
  BY DEF Frames
<1>2. PICK k \in 1..Len(stack[t]) : f = stack[t][k]
  BY <1>1
<1>3. /\ TypeOK /\ Calling(t) /\ f \in FrameType /\ FrameOK(t, f) /\ k \in 1..MaxDepth
      /\ f.kind # "emit" => f = Top(t)
  BY <1>2, OnTop
<1>4. \A c \in Uses(f) \ {0} : conn[c].ref > 0
  BY <1>3, UsedRef
<1>5. ASSUME f.kind \in {"emit", "disconnect"} PROVE lists[f.obj].state # "deleted"
  <2>1. PICK o \in Objects : o = f.obj
    BY <1>3 DEF FrameType
  <2>2. Walks(f, o)
    BY <1>5, <2>1 DEF Walks
  <2>3. k <= Len(stack[t])
    BY <1>3
  <2>4. <<t, k>> \in Walkers(o)
    BY <1>2, <1>3, <2>2, <2>3 DEF Walkers, Places
  <2>5. Cardinality(Walkers(o)) # 0
    BY <1>3, <2>4, WalkersFinite
  <2>6. ListOK(o)
    BY DEF CallInv, ListsOK
  <2> QED
    BY <2>1, <2>5, <2>6 DEF ListOK
<1> QED
  BY <1>4, <1>5

\* No connection or list is leaked.
LEMMA NothingLeftHolds ==
    ASSUME CallInv, ConnInv
    PROVE  NothingLeft
<1> SUFFICES ASSUME \A o \in Objects : status[o] = "gone", Frames = {}, handles = {}
             PROVE  /\ \A c \in Ids : conn[c].ref = 0
                    /\ \A o \in Objects : lists[o].state \in {"none", "deleted"}
  BY DEF NothingLeft
<1>1. TypeOK
  BY DEF CallInv
<1>2. \A t \in Threads : ~Calling(t) /\ 1..Len(stack[t]) = {} /\ Len(stack[t]) = 0
  <2> SUFFICES ASSUME NEW t \in Threads
               PROVE  ~Calling(t) /\ 1..Len(stack[t]) = {} /\ Len(stack[t]) = 0
    OBVIOUS
  <2>1. stack[t] \in Seq(FrameType)
    BY <1>1 DEF TypeOK
  <2>2. \A k \in 1..Len(stack[t]) : stack[t][k] \in Frames
    BY DEF Frames
  <2>3. PICK n \in Nat : n = Len(stack[t])
    BY <2>1
  <2>4. \A k \in 1..n : FALSE
    BY <2>2, <2>3
  <2>5. n = 0
    <3>1. n # 0 => 1 \in 1..n
      BY <2>3
    <3> QED
      BY <2>4, <3>1
  <2> QED
    BY <1>1, <2>3, <2>4, <2>5, TopFacts
<1>3. \A o \in Objects : Listed(o) = {} /\ ~Attached(o)
  BY GoneListed
<1>4. ASSUME NEW c \in Ids PROVE conn[c].ref = 0
  <2>1. ~Held(c) /\ ~Owned(c)
    BY <1>2, <1>3 DEF Held, Owned, InList, Dropping, Breaking, At
  <2>2. RefOK(c)
    BY DEF ConnInv, RefsOK
  <2> QED
    BY <2>1, <2>2 DEF RefOK
<1>5. ASSUME NEW o \in Objects PROVE lists[o].state \in {"none", "deleted"}
  <2>1. Walkers(o) = {}
    <3> SUFFICES ASSUME NEW p \in Places, p[2] <= Len(stack[p[1]]) PROVE FALSE
      BY DEF Walkers
    <3>1. p[1] \in Threads /\ p[2] \in 1..MaxDepth
      BY DEF Places
    <3>2. PICK k \in 1..MaxDepth : k = p[2]
      BY <3>1
    <3>3. Len(stack[p[1]]) = 0
      BY <1>2, <3>1
    <3>4. k <= 0
      BY <3>2, <3>3
    <3> QED
      BY <3>2, <3>4, IdsFinite
  <2>2. lists[o].inUse = 0
    <3>1. ListOK(o) /\ Cardinality(Walkers(o)) = 0
      BY <2>1, FS_EmptySet DEF CallInv, ListsOK
    <3> QED
      BY <3>1 DEF ListOK
  <2>3. lists[o].state # "orphaned" /\ lists[o].state # "attached"
    BY <1>3, <2>2 DEF CallInv, ListsOK, ListOK, Attached
  <2>4. lists[o] \in ListType
    BY <1>1, ListedFacts
  <2> QED
    BY <2>3, <2>4 DEF ListType
<1> QED
  BY <1>4, <1>5

\* A connection that is not disconnected is in the lists of both of its ends,
\* by pointers that agree, and neither end is gone.
THEOREM BothSides ==
    ASSUME OwnHandles
    PROVE  Spec => []TwoSided
<1>1. CallInv /\ ConnInv => TwoSided
  BY TwoSidedHolds
<1> QED
  BY <1>1, ConnectionsInvariant, PTL

\* No call that was at a connection or a list without the mutex finds it
\* deleted, whatever destructors and disconnects were run meanwhile.
THEOREM NoDanglingConnections ==
    ASSUME OwnHandles
    PROVE  Spec => []NothingDangling
<1>1. CallInv /\ ConnInv => NothingDangling
  BY NothingDanglingHolds
<1> QED
  BY <1>1, ConnectionsInvariant, PTL

\* Every reference to a connection is dropped, and every list deleted, by the
\* time that all the objects are gone.
THEOREM NoConnectionsLeft ==
    ASSUME OwnHandles
    PROVE  Spec => []NothingLeft
<1>1. CallInv /\ ConnInv => NothingLeft
  BY NothingLeftHolds
<1> QED
  BY <1>1, ConnectionsInvariant, PTL
=============================================================================
