--------------------------- MODULE EventLoop_proofs ---------------------------
(***************************************************************************)
(* The safety properties of EventLoop, and that its list implements        *)
(* ThreadQueue. The invariant IInv ties the list to its offsets and counts *)
(* and the call stack to loopLevel, recursion and the offset that a pass   *)
(* without filters shares; what an action does to either is proved apart,  *)
(* and every step then is one that posts, sends, calls the handler of a    *)
(* native event, or does none of these (Step). Four more invariants stand  *)
(* on it: DInv for deferred deletes and the handlers that posted them,     *)
(* ExitInv for exit() and select(), PassInv for what passes are for, and   *)
(* Nested with IdleInv for what canWait says of the list. The queue needs  *)
(* two more: OffsetInv for the events a pass has found, and NativeInv for  *)
(* the handlers that were sent none.                                       *)
(***************************************************************************)
EXTENDS EventLoop, PostedEventList_proofs, FunctionTheorems

\* Frames of a kind among the first n of a stack.
Deep(s, kinds, n) == Cardinality({k \in 1..n : s[k].kind \in kinds})

HandlerEntries == [receiver : Receivers, priority : Int, event : Nat,
                   type : EventTypes, level : Nat, poster : Nat]

Frames ==
         [kind : {"exec"}, exit : BOOLEAN]
    \cup [kind : {"process"}, wait : BOOLEAN, canWait : BOOLEAN,
          pc : {"send", "select", "native"}]
    \cup [kind : {"send"}, receiver : Receivers \cup {AnyReceiver},
          type : EventTypes \cup {AnyType}, i : Nat]
    \cup [kind : {"handler"}, entry : HandlerEntries]

\* loopLevel is the number of loops and handlers on the stack, recursion that
\* of passes.
Levels == {"exec", "handler"}
Fits(s, level, passes) ==
    /\ s \in Seq(Frames)
    /\ level = Deep(s, Levels, Len(s))
    /\ passes = Deep(s, {"send"}, Len(s))

\* What the properties say of the list, and that it holds each event once and
\* after the older ones of its kind.
GoodQueue(lst, start, ins) ==
    /\ start <= Len(lst) /\ start <= ins
    /\ \A k \in 1..start : ~IsLive(lst[k])
    /\ SortedFrom(lst, ins)
    /\ WellOrdered(lst)

TypeInv ==
    /\ startOffset \in Nat /\ insertionOffset \in Nat /\ lastEvent \in Nat
    /\ list \in Seq(Entries)
    /\ postedEvents \in [Receivers -> Int]
    /\ alive \subseteq Receivers

\* Only a pass without filters that is still on the stack leaves a part to be
\* erased.
Erasing(s) == \E k \in 1..Len(s) : s[k].kind = "send" /\ Unfiltered(s[k])
ErasingPass == startOffset # 0 => Erasing(stack)
StackInv == Fits(stack, loopLevel, recursion) /\ ErasingPass

\* What is in the queue: events for living receivers, and one DeferredDelete
\* for each of these at most.
EventsInv ==
    /\ \A e \in LiveEntries(list) : e.event <= lastEvent /\ e.receiver \in alive
    /\ \A e, f \in LiveEntries(list) :
           /\ e.type = "DeferredDelete" /\ f.type = "DeferredDelete"
           /\ e.receiver = f.receiver
           => e = f

\* An event is in the queue or in the handlers, and in one of these once.
Running(s) == {k \in 1..Len(s) : s[k].kind = "handler"}
RunningInv ==
    /\ \A k \in Running(stack) : stack[k].entry.event <= lastEvent
    /\ \A j, k \in Running(stack) :
           stack[j].entry.event = stack[k].entry.event
               => j = k \/ stack[j].entry.event = 0
    /\ \A k \in Running(stack), e \in LiveEntries(list) :
           e.event # stack[k].entry.event

\* A deferred delete was posted by an event that has left the queue, at a
\* level between the first one and that of the handler of this event.
PosterInv ==
    \A e \in LiveEntries(list) :
        e.type = "DeferredDelete" =>
            /\ \A f \in LiveEntries(list) : e.poster # f.event
            /\ e.poster <= lastEvent
            /\ \A j \in Running(stack) :
                   e.poster = stack[j].entry.event =>
                       \/ e.poster = 0
                       \/ e.level \in 1..Deep(stack, Levels, j)

QueueInv == /\ TypeInv /\ GoodQueue(list, startOffset, insertionOffset)
            /\ PostedCount /\ EventsInv
IInv == QueueInv /\ StackInv

DInv == RunningInv /\ PosterInv /\ NotDeletedUnderPoster

-----------------------------------------------------------------------------
\* The list, and the set of the events in it.

\* Positions and events of a list.
LEMMA Positions ==
    ASSUME NEW lst \in Seq(Entries)
    PROVE  /\ Len(lst) \in Nat /\ Live(lst) \subseteq 1..Len(lst)
           /\ IsFiniteSet(1..Len(lst)) /\ Cardinality(1..Len(lst)) = Len(lst)
           /\ IsFiniteSet(Live(lst))
           /\ \A k \in Live(lst) : k \in Nat /\ lst[k] \in LiveEntries(lst)
           /\ LiveEntries(lst) \subseteq Entries
           /\ \A e \in LiveEntries(lst) : e.event \in Nat /\ e.event # 0
<1>1. Len(lst) \in Nat /\ \A k \in 1..Len(lst) : lst[k] \in Entries
  BY EntriesOfList
<1>2. IsFiniteSet(1..Len(lst)) /\ Cardinality(1..Len(lst)) = Len(lst)
  <2>1. \A m \in Nat : IsFiniteSet(1..m) /\ Cardinality(1..m) = m
    BY FS_Interval
  <2> QED
    BY <1>1, <2>1
<1>3. Live(lst) \in SUBSET (1..Len(lst))
  BY DEF Live
<1>4. IsFiniteSet(Live(lst))
  BY <1>2, <1>3, FS_Subset
<1>5. /\ \A k \in Live(lst) : k \in Nat /\ lst[k] \in LiveEntries(lst)
      /\ LiveEntries(lst) \subseteq Entries
      /\ \A e \in LiveEntries(lst) : IsLive(e)
  BY <1>1, <1>3 DEF LiveEntries, Live
<1> QED
  BY <1>1, <1>2, <1>3, <1>4, <1>5 DEF Entries, IsLive

\* An event is in the list once, so that positions can be counted as events.
LEMMA CountEvents ==
    ASSUME NEW lst \in Seq(Entries), WellOrdered(lst),
           NEW D \in SUBSET Live(lst)
    PROVE  LET E == {lst[k] : k \in D}
           IN IsFiniteSet(E) /\ Cardinality(E) = Cardinality(D)
<1> DEFINE E == {lst[k] : k \in D}
           f == [k \in D |-> lst[k]]
<1>1. IsFiniteSet(D)
  BY Positions, FS_Subset
<1>2. f \in Bijection(D, E)
  <2>1. f \in [D -> E] /\ \A t \in E : \E s \in D : f[s] = t
    OBVIOUS
  <2>2. \A a, b \in D : f[a] = f[b] => a = b
    BY DEF WellOrdered
  <2> QED
    BY <2>1, <2>2, Fun_IsBij
<1>3. ExistsBijection(D, E)
  BY <1>2, Fun_ExistsBij
<1> QED
  BY <1>1, <1>3, FS_Bijection

Of(events, r) == {e \in events : e.receiver = r}

\* The positions that are for a receiver are as many as the events for it.
LEMMA CountOf ==
    ASSUME NEW lst \in Seq(Entries), WellOrdered(lst),
           NEW D \in SUBSET Live(lst), NEW r
    PROVE  LET E == Of({lst[k] : k \in D}, r)
           IN /\ IsFiniteSet(E)
              /\ Cardinality({k \in D : lst[k].receiver = r}) = Cardinality(E)
              /\ Cardinality(E) \in Nat
<1> DEFINE DR == {k \in D : lst[k].receiver = r}
           E == Of({lst[k] : k \in D}, r)
<1>1. DR \in SUBSET Live(lst) /\ E = {lst[k] : k \in DR}
  BY DEF Of
<1>2. IsFiniteSet(E) /\ Cardinality(E) = Cardinality(DR)
  BY <1>1, CountEvents
<1> QED
  BY <1>2, FS_CardinalityType

\* The same for all of the list.
LEMMA CountLive ==
    ASSUME NEW lst \in Seq(Entries), WellOrdered(lst), NEW r
    PROVE  /\ IsFiniteSet(Of(LiveEntries(lst), r))
           /\ Cardinality({k \in Live(lst) : lst[k].receiver = r})
                = Cardinality(Of(LiveEntries(lst), r))
           /\ Cardinality(Of(LiveEntries(lst), r)) \in Nat
<1> DEFINE D == Live(lst)
<1>1. LiveEntries(lst) = {lst[k] : k \in D}
  BY DEF LiveEntries
<1>2. D \in SUBSET Live(lst)
  OBVIOUS
<1> HIDE DEF D
<1>3. /\ IsFiniteSet(Of({lst[k] : k \in D}, r))
      /\ Cardinality({k \in D : lst[k].receiver = r})
           = Cardinality(Of({lst[k] : k \in D}, r))
      /\ Cardinality(Of({lst[k] : k \in D}, r)) \in Nat
  BY <1>2, CountOf
<1> QED
  BY <1>1, <1>3 DEF D

-----------------------------------------------------------------------------
\* What happens to the list, for any insertionOffset: a removal may have left
\* it behind the end of the list.

\* What is there of the list in front of the position stays.
KeepsFirst(lst, new, n) ==
    \A k \in 1..n : k <= Len(lst) => k <= Len(new) /\ new[k] = lst[k]

\* addEvent, of an event that is newer than the others of its kind.
LEMMA Added ==
    ASSUME NEW lst \in Seq(Entries), NEW ins \in Nat, SortedFrom(lst, ins),
           WellOrdered(lst), NEW entry \in Entries, IsLive(entry),
           \A f \in LiveEntries(lst) :
               /\ f.event # entry.event
               /\ SameKind(f, entry) => f.event < entry.event
    PROVE  LET new == AddEvent(lst, ins, entry)
           IN /\ new \in Seq(Entries) /\ Len(new) = Len(lst) + 1
              /\ SortedFrom(new, ins) /\ WellOrdered(new)
              /\ LiveEntries(new) = LiveEntries(lst) \cup {entry}
              /\ KeepsFirst(lst, new, ins)
<1> DEFINE new == AddEvent(lst, ins, entry)
<1>1. Len(lst) \in Nat
  BY EntriesOfList
<1>2. CASE ins <= Len(lst)
  <2>1. ins \in 0..Len(lst)
    BY <1>1, <1>2
  <2>2. /\ new \in Seq(Entries) /\ Len(new) = Len(lst) + 1
        /\ SortedFrom(new, ins) /\ \A k \in 1..ins : new[k] = lst[k]
    BY <2>1, AddEventKeeps
  <2>3. LiveEntries(new) = LiveEntries(lst) \cup {entry} /\ WellOrdered(new)
    BY <2>1, AddEventOrder
  <2> HIDE DEF new
  <2>4. KeepsFirst(lst, new, ins)
    BY <1>1, <2>2 DEF KeepsFirst
  <2> QED
    BY <2>2, <2>3, <2>4 DEF new
<1>3. CASE ins > Len(lst)
  <2>1. AddEvent(lst, Len(lst), entry) = new
    BY <1>1, <1>3 DEF AddEvent
  <2>2. Len(lst) \in 0..Len(lst) /\ SortedFrom(lst, Len(lst))
    BY <1>1 DEF SortedFrom
  <2>3. /\ new \in Seq(Entries) /\ Len(new) = Len(lst) + 1
        /\ \A k \in 1..Len(lst) : new[k] = lst[k]
    BY <2>1, <2>2, AddEventKeeps
  <2>4. LiveEntries(new) = LiveEntries(lst) \cup {entry} /\ WellOrdered(new)
    BY <2>1, <2>2, AddEventOrder
  <2> HIDE DEF new
  <2>5. KeepsFirst(lst, new, ins) /\ SortedFrom(new, ins)
    BY <1>1, <1>3, <2>3 DEF KeepsFirst, SortedFrom
  <2> QED
    BY <2>3, <2>4, <2>5 DEF new
<1> QED
  BY <1>1, <1>2, <1>3

\* removePostedEvents while a pass is active.
LEMMA NulledAll ==
    ASSUME NEW lst \in Seq(Entries), WellOrdered(lst),
           NEW D \in SUBSET Live(lst)
    PROVE  LET new == NullAll(lst, D)
           IN /\ new \in Seq(Entries) /\ Len(new) = Len(lst)
              /\ \A ins \in Nat : SortedFrom(lst, ins) => SortedFrom(new, ins)
              /\ Live(new) = Live(lst) \ D
              /\ \A k \in Live(new) : new[k] = lst[k]
              /\ LiveEntries(new) = LiveEntries(lst) \ {lst[k] : k \in D}
              /\ WellOrdered(new)
<1> DEFINE new == NullAll(lst, D)
<1>1. /\ Len(lst) \in Nat /\ \A j \in 1..Len(lst) : lst[j] \in Entries
      /\ Live(lst) \subseteq 1..Len(lst)
  BY EntriesOfList, Positions
<1>2. \A e \in Entries : /\ Nulled(e) \in Entries /\ ~IsLive(Nulled(e))
                        /\ Nulled(e).priority = e.priority
  BY ReceiversAssumption DEF Nulled, Entries, IsLive, EventTypes
<1>3. /\ DOMAIN new = 1..Len(lst)
      /\ \A k \in 1..Len(lst) :
             new[k] = IF k \in D THEN Nulled(lst[k]) ELSE lst[k]
      /\ new \in [1..Len(lst) -> Entries]
  BY <1>1, <1>2 DEF NullAll
<1> HIDE DEF new
<1>4. new \in Seq(Entries) /\ Len(new) = Len(lst)
  <2>1. new \in Seq(Entries)
    BY <1>1, <1>3, IsASeq
  <2> QED
    BY <1>1, <1>3, <2>1, LenProperties
<1>5. Live(new) = Live(lst) \ D /\ \A k \in Live(new) : new[k] = lst[k]
  BY <1>1, <1>2, <1>3, <1>4 DEF Live
<1>6. \A ins \in Nat : SortedFrom(lst, ins) => SortedFrom(new, ins)
  <2>1. \A j \in 1..Len(lst) : new[j].priority = lst[j].priority
    BY <1>1, <1>2, <1>3
  <2> QED
    BY <1>1, <1>4, <2>1 DEF SortedFrom
<1>7. LiveEntries(new) = LiveEntries(lst) \ {lst[k] : k \in D}
  <2>1. \A j, k \in Live(lst) : lst[j] = lst[k] => j = k
    BY DEF WellOrdered
  <2> QED
    BY <1>5, <2>1 DEF LiveEntries
<1>8. WellOrdered(new)
  BY <1>5 DEF WellOrdered
<1> QED
  BY <1>4, <1>5, <1>6, <1>7, <1>8 DEF new

\* An increasing enumeration of the positions that stay is a bijection, and
\* takes none of them towards the end of the list.
LEMMA EnumerationFacts ==
    ASSUME NEW n \in Nat, NEW keep \in SUBSET (1..n),
           NEW f \in Enumerations(keep)
    PROVE  /\ Cardinality(keep) \in Nat
           /\ f \in [1..Cardinality(keep) -> keep]
           /\ \A j, k \in 1..Cardinality(keep) : j < k => f[j] < f[k]
           /\ \A k \in keep : \E j \in 1..Cardinality(keep) : f[j] = k
           /\ \A j \in 1..Cardinality(keep) : f[j] >= j
<1> DEFINE m == Cardinality(keep)
<1>1. \A a \in Nat : IsFiniteSet(1..a) /\ Cardinality(1..a) = a
  BY FS_Interval
<1>2. IsFiniteSet(keep)
  <2>1. IsFiniteSet(1..n)
    BY <1>1
  <2> QED
    BY <2>1, FS_Subset
<1>3. m \in Nat
  BY <1>2, FS_CardinalityType
<1> HIDE DEF m
<1>4. f \in [1..m -> keep] /\ \A j, k \in 1..m : j < k => f[j] < f[k]
  BY DEF Enumerations, m
<1>5. \A j \in 1..m : f[j] \in 1..n
  BY <1>4
<1>6. \A j, k \in 1..m : f[j] = f[k] => j = k
  <2>1. ASSUME NEW j \in 1..m, NEW k \in 1..m, f[j] = f[k], j # k PROVE FALSE
    <3>1. j < k \/ k < j
      BY <1>3, <2>1
    <3>2. f[j] < f[k] \/ f[k] < f[j]
      BY <1>4, <3>1
    <3> QED
      BY <1>5, <2>1, <3>2
  <2> QED
    BY <2>1
<1>7. f \in Surjection(1..m, keep)
  <2>1. f \in Injection(1..m, keep)
    BY <1>4, <1>6, Fun_IsInj
  <2>2. Cardinality(1..m) = Cardinality(keep)
    BY <1>1, <1>3 DEF m
  <2> QED
    BY <1>2, <2>1, <2>2, FS_Injection
<1>8. ASSUME NEW j \in 1..m PROVE f[j] >= j
  <2> DEFINE g == [i \in 1..j |-> f[i]]
  <2>0. j \in Nat /\ f[j] \in Nat
    BY <1>3, <1>5
  <2>1. \A i \in 1..j : i \in 1..m /\ f[i] \in 1..f[j]
    <3> SUFFICES ASSUME NEW i \in 1..j PROVE i \in 1..m /\ f[i] \in 1..f[j]
      OBVIOUS
    <3>1. i \in 1..m /\ (i < j \/ i = j)
      BY <1>3, <2>0
    <3>2. f[i] < f[j] \/ f[i] = f[j]
      BY <1>4, <3>1
    <3> QED
      BY <1>5, <3>1, <3>2
  <2>2. g \in [1..j -> 1..f[j]] /\ \A a, b \in 1..j : g[a] = g[b] => a = b
    BY <1>6, <2>1
  <2>3. g \in Injection(1..j, 1..f[j])
    BY <2>2, Fun_IsInj
  <2>4. IsFiniteSet(1..f[j]) /\ Cardinality(1..f[j]) = f[j]
        /\ Cardinality(1..j) = j
    BY <1>1, <2>0
  <2> HIDE DEF g
  <2>5. Cardinality(1..j) <= Cardinality(1..f[j])
    BY <2>3, <2>4, FS_Injection
  <2> QED
    BY <2>0, <2>4, <2>5
<1>9. \A k \in keep : \E j \in 1..m : f[j] = k
  BY <1>7 DEF Surjection
<1> QED
  BY <1>3, <1>4, <1>8, <1>9 DEF m

\* removePostedEvents otherwise.
LEMMA ClosedUp ==
    ASSUME NEW lst \in Seq(Entries), WellOrdered(lst),
           NEW D \in SUBSET Live(lst),
           NEW f \in Enumerations((1..Len(lst)) \ D)
    PROVE  LET new == Selected(lst, f)
           IN /\ new \in Seq(Entries)
              /\ \A ins \in Nat : SortedFrom(lst, ins) => SortedFrom(new, ins)
              /\ LiveEntries(new) = LiveEntries(lst) \ {lst[k] : k \in D}
              /\ WellOrdered(new)
              /\ \A j \in Live(new) :
                    f[j] \in Live(lst) /\ new[j] = lst[f[j]] /\ j <= f[j]
              /\ \A j, k \in Live(new) : j < k => f[j] < f[k]
<1> DEFINE new == Selected(lst, f)
           keep == (1..Len(lst)) \ D
           m == Cardinality(keep)
<1>1. /\ Len(lst) \in Nat /\ \A j \in 1..Len(lst) : lst[j] \in Entries
      /\ \A j \in 1..Len(lst) : lst[j].priority \in Int
      /\ Live(lst) \subseteq 1..Len(lst)
  BY EntriesOfList, Positions
<1>2. /\ m \in Nat /\ f \in [1..m -> keep]
      /\ \A j, k \in 1..m : j < k => f[j] < f[k]
      /\ \A k \in keep : \E j \in 1..m : f[j] = k
      /\ \A j \in 1..m : f[j] >= j
  <2>1. keep \in SUBSET (1..Len(lst)) /\ f \in Enumerations(keep)
    OBVIOUS
  <2> HIDE DEF keep
  <2> QED
    BY <1>1, <2>1, EnumerationFacts
<1> HIDE DEF m
<1>3. /\ \A j \in 1..m : f[j] \in 1..Len(lst) /\ f[j] \notin D
      /\ DOMAIN f = 1..m
  BY <1>2
<1>4. new \in [1..m -> Entries] /\ \A j \in 1..m : new[j] = lst[f[j]]
  BY <1>1, <1>3 DEF Selected
<1> HIDE DEF new
<1>5. new \in Seq(Entries) /\ Len(new) = m
  <2>1. new \in Seq(Entries)
    BY <1>2, <1>4, IsASeq
  <2>2. DOMAIN new = 1..m /\ Len(new) \in Nat /\ DOMAIN new = 1..Len(new)
    BY <1>4, <2>1, LenProperties
  <2> QED
    BY <1>2, <2>1, <2>2
<1>6. \A j \in 1..m : j \in Live(new) <=> f[j] \in Live(lst) \ D
  BY <1>3, <1>4, <1>5 DEF Live
<1>7. Live(new) \subseteq 1..m
  BY <1>5 DEF Live
<1>8. LiveEntries(new) = LiveEntries(lst) \ {lst[k] : k \in D}
  <2>1. \A j, k \in Live(lst) : lst[j] = lst[k] => j = k
    BY DEF WellOrdered
  <2>2. ASSUME NEW k \in Live(lst) \ D
        PROVE  \E j \in Live(new) : new[j] = lst[k]
    <3>1. k \in keep
      BY <1>1
    <3>2. PICK j \in 1..m : f[j] = k
      BY <1>2, <3>1
    <3> QED
      BY <1>4, <1>6, <3>2
  <2>3. ASSUME NEW j \in Live(new)
        PROVE  new[j] = lst[f[j]] /\ f[j] \in Live(lst) \ D
    BY <1>4, <1>6, <1>7
  <2> QED
    BY <2>1, <2>2, <2>3 DEF LiveEntries
<1>9. ASSUME NEW ins \in Nat, SortedFrom(lst, ins) PROVE SortedFrom(new, ins)
  <2> SUFFICES ASSUME NEW j \in (ins + 1)..m, NEW k \in (ins + 1)..m, j < k
               PROVE  new[j].priority >= new[k].priority
    BY <1>5 DEF SortedFrom
  <2>1. j \in 1..m /\ k \in 1..m
    BY <1>2
  <2>2. f[j] >= j /\ f[j] < f[k] /\ f[j] \in 1..Len(lst) /\ f[k] \in 1..Len(lst)
    BY <1>2, <1>3, <2>1
  <2>3. f[j] \in (ins + 1)..Len(lst) /\ f[k] \in (ins + 1)..Len(lst)
    BY <1>1, <1>2, <2>2
  <2> QED
    BY <1>4, <1>9, <2>1, <2>2, <2>3 DEF SortedFrom
<1>10. WellOrdered(new)
  <2>1. ASSUME NEW i \in Live(new), NEW j \in Live(new)
        PROVE  /\ new[i].event = new[j].event => i = j
               /\ i < j /\ SameKind(new[i], new[j])
                      => new[i].event < new[j].event
    <3>1. /\ i \in 1..m /\ j \in 1..m
          /\ new[i] = lst[f[i]] /\ new[j] = lst[f[j]]
          /\ f[i] \in Live(lst) /\ f[j] \in Live(lst)
      BY <1>4, <1>6, <1>7
    <3>2. f[i] = f[j] => i = j
      <4>1. i < j \/ j < i \/ i = j
        BY <1>2, <3>1
      <4> QED
        BY <1>1, <1>2, <1>3, <3>1, <4>1
    <3> QED
      BY <1>2, <3>1, <3>2 DEF WellOrdered
  <2> QED
    BY <2>1 DEF WellOrdered
<1>11. /\ \A j \in Live(new) :
              f[j] \in Live(lst) /\ new[j] = lst[f[j]] /\ j <= f[j]
       /\ \A j, k \in Live(new) : j < k => f[j] < f[k]
  BY <1>1, <1>2, <1>3, <1>4, <1>6, <1>7
<1> QED
  BY <1>5, <1>8, <1>9, <1>10, <1>11 DEF new

-----------------------------------------------------------------------------
\* The stack.

\* How the number of frames grows.
LEMMA DeepFacts ==
    ASSUME NEW s, NEW kinds, NEW n \in Nat
    PROVE  /\ Deep(s, kinds, n) \in Nat
           /\ s[n + 1].kind \in kinds =>
                  Deep(s, kinds, n + 1) = Deep(s, kinds, n) + 1
           /\ s[n + 1].kind \notin kinds =>
                  Deep(s, kinds, n + 1) = Deep(s, kinds, n)
           /\ \A k \in 1..n : s[k].kind \in kinds => Deep(s, kinds, n) > 0
           /\ \A k \in 0..n : Deep(s, kinds, k) <= Deep(s, kinds, n)
<1> DEFINE S(k) == {j \in 1..k : s[j].kind \in kinds}
<1>1. \A k \in Nat : IsFiniteSet(1..k)
  BY FS_Interval
<1>2. ASSUME NEW k \in Nat PROVE IsFiniteSet(S(k)) /\ Cardinality(S(k)) \in Nat
  <2>1. S(k) \in SUBSET (1..k)
    OBVIOUS
  <2>2. IsFiniteSet(S(k))
    BY <1>1, <2>1, FS_Subset
  <2> QED
    BY <2>2, FS_CardinalityType
<1>3. ASSUME s[n + 1].kind \in kinds
      PROVE  Cardinality(S(n + 1)) = Cardinality(S(n)) + 1
  <2>1. S(n + 1) = S(n) \cup {n + 1} /\ n + 1 \notin S(n)
    BY <1>3
  <2> HIDE DEF S
  <2> QED
    BY <1>2, <2>1, FS_AddElement
<1>6. ASSUME s[n + 1].kind \notin kinds
      PROVE  Cardinality(S(n + 1)) = Cardinality(S(n))
  <2>1. S(n + 1) = S(n)
    BY <1>6
  <2> QED
    BY <2>1
<1>4. ASSUME NEW k \in 1..n, s[k].kind \in kinds PROVE Cardinality(S(n)) > 0
  <2>1. S(n) # {}
    BY <1>4
  <2> HIDE DEF S
  <2>2. Cardinality(S(n)) # 0
    BY <1>2, <2>1, FS_EmptySet
  <2> QED
    BY <1>2, <2>2
<1>5. ASSUME NEW k \in 0..n PROVE Cardinality(S(k)) <= Cardinality(S(n))
  <2>1. S(k) \in SUBSET S(n)
    OBVIOUS
  <2> HIDE DEF S
  <2> QED
    BY <1>2, <2>1, FS_Subset
<1> QED
  BY <1>2, <1>3, <1>4, <1>5, <1>6 DEF Deep

\* It depends on the kinds of the frames only.
LEMMA DeepSame ==
    ASSUME NEW s, NEW t, NEW kinds, NEW n \in Nat,
           \A k \in 1..n : s[k].kind = t[k].kind
    PROVE  Deep(s, kinds, n) = Deep(t, kinds, n)
<1>1. {k \in 1..n : s[k].kind \in kinds} = {k \in 1..n : t[k].kind \in kinds}
  OBVIOUS
<1> QED
  BY <1>1 DEF Deep

\* What the invariant says of a stack, in the form the proofs use.
LEMMA FitsFacts ==
    ASSUME NEW s, NEW level, NEW passes, Fits(s, level, passes)
    PROVE  /\ Len(s) \in Nat /\ level \in Nat /\ passes \in Nat
           /\ \A k \in 1..Len(s) : s[k] \in Frames
           /\ s # <<>> => Len(s) \in 1..Len(s) /\ Len(s) - 1 \in Nat
           /\ s = <<>> => Len(s) = 0
           /\ Len(s) = 0 => s = <<>>
<1>1. s \in Seq(Frames)
  BY DEF Fits
<1>2. Len(s) \in Nat /\ \A k \in 1..Len(s) : s[k] \in Frames
  BY <1>1, LenProperties, ElementOfSeq
<1>3. level \in Nat /\ passes \in Nat
  BY <1>2, DeepFacts DEF Fits
<1>4. /\ s # <<>> => Len(s) \in Nat \ {0}
      /\ Len(<<>>) = 0
  BY <1>1, EmptySeq
<1> QED
  BY <1>2, <1>3, <1>4

\* The stack before anything is called.
LEMMA FitsEmpty == Fits(<<>>, 0, 0)
<1>1. <<>> \in Seq(Frames) /\ Len(<<>>) = 0
  BY EmptySeq
<1>2. \A kinds : Deep(<<>>, kinds, 0) = 0
  <2>1. \A kinds : {k \in 1..0 : <<>>[k].kind \in kinds} = {}
    OBVIOUS
  <2>2. Cardinality({}) = 0
    BY FS_EmptySet
  <2> QED
    BY <2>1, <2>2 DEF Deep
<1> QED
  BY <1>1, <1>2 DEF Fits

\* A call adds to loopLevel or to recursion what its frame counts for.
LEMMA FitsPush ==
    ASSUME NEW s, NEW level, NEW passes, Fits(s, level, passes),
           NEW f \in Frames
    PROVE  LET t == Append(s, f)
           IN /\ Fits(t, level + (IF f.kind \in Levels THEN 1 ELSE 0),
                         passes + (IF f.kind = "send" THEN 1 ELSE 0))
              /\ Len(t) = Len(s) + 1 /\ t # <<>>
              /\ t[Len(s) + 1] = f /\ \A k \in 1..Len(s) : t[k] = s[k]
<1> DEFINE t == Append(s, f)
<1>1. s \in Seq(Frames) /\ Len(s) \in Nat
  BY FitsFacts DEF Fits
<1>2. /\ t \in Seq(Frames) /\ Len(t) = Len(s) + 1
      /\ t[Len(s) + 1] = f /\ \A k \in 1..Len(s) : t[k] = s[k]
  BY <1>1, AppendProperties
<1> HIDE DEF t
<1>3. \A kinds : Deep(t, kinds, Len(s)) = Deep(s, kinds, Len(s))
  BY <1>1, <1>2, DeepSame
<1>4. \A kinds : Deep(t, kinds, Len(s) + 1)
                   = Deep(s, kinds, Len(s))
                       + (IF f.kind \in kinds THEN 1 ELSE 0)
  <2> SUFFICES ASSUME NEW kinds
               PROVE  Deep(t, kinds, Len(s) + 1) = Deep(s, kinds, Len(s))
                          + (IF f.kind \in kinds THEN 1 ELSE 0)
    OBVIOUS
  <2>1. CASE t[Len(s) + 1].kind \in kinds
    BY <1>1, <1>2, <1>3, <2>1, DeepFacts
  <2>2. CASE t[Len(s) + 1].kind \notin kinds
    BY <1>1, <1>2, <1>3, <2>2, DeepFacts
  <2> QED
    BY <2>1, <2>2
<1>5. t # <<>>
  BY <1>1, <1>2, EmptySeq
<1>6. f.kind \in {"send"} <=> f.kind = "send"
  OBVIOUS
<1> QED
  BY <1>1, <1>2, <1>4, <1>5, <1>6 DEF Fits, t

\* A return takes that away again.
LEMMA FitsPop ==
    ASSUME NEW s, NEW level, NEW passes, Fits(s, level, passes), s # <<>>
    PROVE  LET t == SubSeq(s, 1, Len(s) - 1)
           IN /\ Fits(t, level - (IF s[Len(s)].kind \in Levels THEN 1 ELSE 0),
                         passes - (IF s[Len(s)].kind = "send" THEN 1 ELSE 0))
              /\ Len(t) = Len(s) - 1 /\ \A k \in 1..Len(t) : t[k] = s[k]
<1> DEFINE t == SubSeq(s, 1, Len(s) - 1)
           n == Len(s) - 1
<1>1. /\ n \in Nat /\ Len(s) = n + 1 /\ level \in Nat /\ passes \in Nat
      /\ \A k \in 1..Len(s) : s[k] \in Frames
  BY FitsFacts
<1>2. /\ t \in Seq(Frames) /\ Len(t) = n /\ \A k \in 1..n : t[k] = s[k]
  <2>1. \A i \in 1..n : s[i] \in Frames
    BY <1>1
  <2>2. /\ t \in Seq(Frames) /\ Len(t) = IF 1 <= n THEN n - 1 + 1 ELSE 0
        /\ \A i \in 1..(n - 1 + 1) : t[i] = s[1 + i - 1]
    <3> HIDE DEF n
    <3>1. n \in Int /\ 1 \in Int
      BY <1>1
    <3>2. t = SubSeq(s, 1, n)
      BY DEF n
    <3> HIDE DEF t
    <3> QED
      BY <2>1, <3>1, <3>2, SubSeqProperties
  <2> HIDE DEF n, t
  <2> QED
    BY <1>1, <2>2
<1> HIDE DEF t, n
<1>3. \A kinds : Deep(t, kinds, n) = Deep(s, kinds, n)
  BY <1>1, <1>2, DeepSame
<1>4. \A kinds : Deep(s, kinds, n + 1)
                   = Deep(t, kinds, n)
                       + (IF s[n + 1].kind \in kinds THEN 1 ELSE 0)
  <2> SUFFICES ASSUME NEW kinds
               PROVE  Deep(s, kinds, n + 1) = Deep(t, kinds, n)
                          + (IF s[n + 1].kind \in kinds THEN 1 ELSE 0)
    OBVIOUS
  <2>0. n \in Nat /\ Deep(s, kinds, n) \in Nat
    BY <1>1, DeepFacts
  <2>1. CASE s[n + 1].kind \in kinds
    BY <1>3, <2>0, <2>1, DeepFacts
  <2>2. CASE s[n + 1].kind \notin kinds
    BY <1>3, <2>0, <2>2, DeepFacts
  <2> QED
    BY <2>1, <2>2
<1>5. /\ level = Deep(t, Levels, n)
             + (IF s[n + 1].kind \in Levels THEN 1 ELSE 0)
      /\ passes = Deep(t, {"send"}, n)
             + (IF s[n + 1].kind = "send" THEN 1 ELSE 0)
  BY <1>1, <1>4 DEF Fits
<1>6. \A kinds : Deep(t, kinds, n) \in Nat
  BY <1>1, DeepFacts
<1> QED
  BY <1>1, <1>2, <1>5, <1>6 DEF Fits, t

\* Frames may change as long as their kinds do not.
LEMMA FitsChanged ==
    ASSUME NEW s, NEW level, NEW passes, Fits(s, level, passes), NEW t,
           t \in [1..Len(s) -> Frames],
           \A k \in 1..Len(s) : t[k].kind = s[k].kind
    PROVE  Fits(t, level, passes) /\ Len(t) = Len(s)
<1>1. Len(s) \in Nat
  BY FitsFacts
<1>2. t \in Seq(Frames) /\ Len(t) = Len(s)
  <2>1. t \in Seq(Frames)
    BY <1>1, IsASeq
  <2> QED
    BY <1>1, <2>1, LenProperties
<1>3. \A kinds : Deep(t, kinds, Len(s)) = Deep(s, kinds, Len(s))
  BY <1>1, DeepSame
<1> QED
  BY <1>2, <1>3 DEF Fits

-----------------------------------------------------------------------------
\* The operations on the queue.

\* An entry is nulled: its event is gone, and nothing else changes.
LEMMA QueueNulled ==
    ASSUME NEW lst \in Seq(Entries), NEW start \in Nat, NEW ins \in Nat,
           GoodQueue(lst, start, ins), NEW k \in Live(lst)
    PROVE  LET new == [lst EXCEPT ![k] = Nulled(@)]
           IN /\ new \in Seq(Entries) /\ Len(new) = Len(lst)
              /\ GoodQueue(new, start, ins)
              /\ \A j \in 1..Len(lst) : j # k => new[j] = lst[j]
              /\ ~IsLive(new[k])
              /\ LiveEntries(new) = LiveEntries(lst) \ {lst[k]}
<1> DEFINE new == [lst EXCEPT ![k] = Nulled(@)]
<1>1. WellOrdered(lst) /\ SortedFrom(lst, ins)
  BY DEF GoodQueue
<1>2. /\ new \in Seq(Entries) /\ Len(new) = Len(lst)
      /\ SortedFrom(new, ins) /\ WellOrdered(new)
      /\ Live(new) = Live(lst) \ {k}
      /\ LiveEntries(new) = LiveEntries(lst) \ {lst[k]}
  BY <1>1, NulledEvent
<1>3. k \in 1..Len(lst) /\ Len(lst) \in Nat
  BY Positions
<1>4. \A j \in 1..Len(lst) : j # k => new[j] = lst[j]
  BY <1>3, LenProperties
<1> HIDE DEF new
<1>5. ~IsLive(new[k])
  BY <1>2, <1>3 DEF Live
<1>6. GoodQueue(new, start, ins)
  <2>1. \A j \in 1..start : ~IsLive(new[j])
    BY <1>3, <1>4, <1>5 DEF GoodQueue
  <2> QED
    BY <1>2, <2>1 DEF GoodQueue
<1> QED
  BY <1>2, <1>4, <1>5, <1>6 DEF new

\* An event is inserted behind insertionOffset.
LEMMA QueueAdded ==
    ASSUME NEW lst \in Seq(Entries), NEW start \in Nat, NEW ins \in Nat,
           GoodQueue(lst, start, ins), NEW entry \in Entries, IsLive(entry),
           \A f \in LiveEntries(lst) :
               /\ f.event # entry.event
               /\ SameKind(f, entry) => f.event < entry.event
    PROVE  LET new == AddEvent(lst, ins, entry)
           IN /\ new \in Seq(Entries) /\ Len(new) = Len(lst) + 1
              /\ GoodQueue(new, start, ins)
              /\ KeepsFirst(lst, new, ins)
              /\ LiveEntries(new) = LiveEntries(lst) \cup {entry}
<1> DEFINE new == AddEvent(lst, ins, entry)
<1>1. WellOrdered(lst) /\ SortedFrom(lst, ins)
  BY DEF GoodQueue
<1>2. /\ new \in Seq(Entries) /\ Len(new) = Len(lst) + 1
      /\ SortedFrom(new, ins) /\ WellOrdered(new)
      /\ LiveEntries(new) = LiveEntries(lst) \cup {entry}
      /\ KeepsFirst(lst, new, ins)
  BY <1>1, Added
<1> HIDE DEF new
<1>3. Len(lst) \in Nat
  BY EntriesOfList
<1>4. GoodQueue(new, start, ins)
  BY <1>2, <1>3 DEF GoodQueue, KeepsFirst
<1> QED
  BY <1>2, <1>4 DEF new

\* CleanUp erases what is in front of startOffset: no event is lost.
LEMMA QueueDropped ==
    ASSUME NEW lst \in Seq(Entries), NEW start \in Nat, NEW ins \in Nat,
           GoodQueue(lst, start, ins)
    PROVE  LET new == SubSeq(lst, start + 1, Len(lst))
           IN /\ new \in Seq(Entries) /\ GoodQueue(new, 0, ins - start)
              /\ ins - start \in Nat
              /\ \A i \in Live(new) :
                     start + i \in Live(lst) /\ new[i] = lst[start + i]
              /\ LiveEntries(new) = LiveEntries(lst)
<1> DEFINE new == SubSeq(lst, start + 1, Len(lst))
<1>1. /\ WellOrdered(lst) /\ SortedFrom(lst, ins) /\ Len(lst) \in Nat
      /\ start \in 0..Len(lst) /\ ins - start \in Nat
      /\ start + (ins - start) = ins
      /\ \A k \in 1..start : ~IsLive(lst[k])
  BY EntriesOfList DEF GoodQueue
<1>2. \A k \in Live(lst) : k > start
  BY <1>1 DEF Live
<1>3. /\ new \in Seq(Entries) /\ Len(new) \in Nat
      /\ \A i \in Nat : SortedFrom(lst, start + i) => SortedFrom(new, i)
      /\ \A i \in Live(new) : start + i \in Live(lst) /\ new[i] = lst[start + i]
      /\ LiveEntries(new) = LiveEntries(lst)
      /\ WellOrdered(new)
  BY <1>1, <1>2, DroppedPart
<1> HIDE DEF new
<1>4. GoodQueue(new, 0, ins - start)
  BY <1>1, <1>3 DEF GoodQueue
<1> QED
  BY <1>1, <1>3, <1>4 DEF new

\* The count of a receiver is that of its events in the queue.
LEMMA CountedAsEvents ==
    ASSUME NEW lst \in Seq(Entries), WellOrdered(lst), NEW posted
    PROVE  (\A r \in Receivers :
               posted[r] = Cardinality({k \in Live(lst) : lst[k].receiver = r}))
           <=> \A r \in Receivers :
               posted[r] = Cardinality(Of(LiveEntries(lst), r))
  BY CountLive

\* removePostedEvents takes away what matches, and counts it.
Wanted(e, r, ty) == r \in {AnyReceiver, e.receiver} /\ ty \in {AnyType, e.type}

\* removePostedEvents for a receiver and a type.
LEMMA Removed ==
    ASSUME TypeInv, GoodQueue(list, startOffset, insertionOffset), PostedCount,
           recursion = 0 => startOffset = 0,
           NEW r \in Receivers \cup {AnyReceiver}, NEW ty, RemovePosted(r, ty)
    PROVE  /\ list' \in Seq(Entries) /\ postedEvents' \in [Receivers -> Int]
           /\ GoodQueue(list', startOffset, insertionOffset)
           /\ \A o \in Receivers :
                 postedEvents'[o]
                     = Cardinality({k \in Live(list') : list'[k].receiver = o})
           /\ LiveEntries(list')
                = {e \in LiveEntries(list) : ~Wanted(e, r, ty)}
           /\ recursion # 0 => /\ Live(list') \subseteq Live(list)
                               /\ \A k \in Live(list') : list'[k] = list[k]
<1>1. /\ list \in Seq(Entries) /\ startOffset \in Nat /\ insertionOffset \in Nat
      /\ postedEvents \in [Receivers -> Int] /\ WellOrdered(list)
      /\ SortedFrom(list, insertionOffset)
  BY DEF TypeInv, GoodQueue
<1>2. /\ Live(list) \subseteq 1..Len(list) /\ Len(list) \in Nat
      /\ LiveEntries(list) \subseteq Entries
  BY <1>1, Positions
<1>3. CASE r # AnyReceiver /\ postedEvents[r] = 0
  <2>1. list' = list /\ postedEvents' = postedEvents
    BY <1>3 DEF RemovePosted
  <2>2. Of(LiveEntries(list), r) = {}
    <3>1. r \in Receivers
      BY <1>3
    <3>2. Cardinality(Of(LiveEntries(list), r)) = 0
      BY <1>1, <1>3, <3>1, CountLive DEF PostedCount
    <3> QED
      BY <1>1, <3>2, CountLive, FS_EmptySet
  <2>3. LiveEntries(list) = {e \in LiveEntries(list) : ~Wanted(e, r, ty)}
    BY <1>3, <2>2 DEF Of, Wanted
  <2> QED
    BY <1>1, <2>1, <2>3 DEF PostedCount
<1>4. CASE ~(r # AnyReceiver /\ postedEvents[r] = 0)
  <2> DEFINE D == Doomed(r, ty)
             DE == {list[k] : k \in D}
  <2>1. D \in SUBSET Live(list)
    BY DEF Doomed
  <2>2. /\ postedEvents' = [o \in Receivers |-> postedEvents[o]
                              - Cardinality({k \in D : list[k].receiver = o})]
        /\ recursion = 0 => \E f \in Enumerations((1..Len(list)) \ D) :
                                list' = Selected(list, f)
        /\ recursion # 0 => list' = NullAll(list, D)
    BY <1>4 DEF RemovePosted, ClosesUp
  <2>3. DE = {e \in LiveEntries(list) : Wanted(e, r, ty)}
    BY DEF Doomed, LiveEntries, Wanted
  <2> HIDE DEF D
  <2>4. /\ list' \in Seq(Entries) /\ WellOrdered(list')
        /\ SortedFrom(list', insertionOffset)
        /\ LiveEntries(list') = LiveEntries(list) \ DE
    <3>1. CASE recursion = 0
      BY <1>1, <2>1, <2>2, <3>1, ClosedUp
    <3>2. CASE recursion # 0
      BY <1>1, <2>1, <2>2, <3>2, NulledAll
    <3> QED
      BY <3>1, <3>2
  <2>5. recursion # 0
            => /\ Live(list') \subseteq Live(list) /\ Len(list') = Len(list)
                         /\ \A k \in Live(list') : list'[k] = list[k]
    BY <1>1, <2>1, <2>2, NulledAll
  <2>6. GoodQueue(list', startOffset, insertionOffset)
    <3>1. CASE recursion = 0
      <4>1. Len(list') \in Nat
        BY <2>4, EntriesOfList
      <4> QED
        BY <1>1, <2>4, <3>1, <4>1 DEF GoodQueue
    <3>2. CASE recursion # 0
      <4>1. \A k \in 1..startOffset :
                k \in 1..Len(list') /\ k \notin Live(list')
        BY <1>1, <1>2, <2>5, <3>2 DEF GoodQueue, Live
      <4> QED
        BY <1>1, <2>4, <2>5, <3>2, <4>1 DEF GoodQueue, Live
    <3> QED
      BY <3>1, <3>2
  <2>7. ASSUME NEW o \in Receivers
        PROVE  postedEvents[o] - Cardinality({k \in D : list[k].receiver = o})
                 = Cardinality(Of(LiveEntries(list'), o))
    <3> DEFINE L == Of(LiveEntries(list), o)
               R == Of(DE, o)
    <3>1. /\ postedEvents[o] = Cardinality(L) /\ IsFiniteSet(L)
          /\ Cardinality(L) \in Nat
      BY <1>1, CountLive DEF PostedCount
    <3>2. Cardinality({k \in D : list[k].receiver = o}) = Cardinality(R)
      BY <1>1, <2>1, CountOf
    <3>3. Of(LiveEntries(list'), o) = L \ R /\ L \cap R = R
      BY <2>3, <2>4 DEF Of
    <3> HIDE DEF L, R
    <3>4. Cardinality(L \ R) = Cardinality(L) - Cardinality(L \cap R)
      BY <3>1, FS_Difference
    <3> QED
      BY <3>1, <3>2, <3>3, <3>4
  <2>8. postedEvents' \in [Receivers -> Int]
    <3>1. \A o \in Receivers :
              Cardinality({k \in D : list[k].receiver = o}) \in Nat
      BY <1>1, <2>1, CountOf
    <3> QED
      BY <1>1, <2>2, <3>1
  <2>9. \A o \in Receivers :
            postedEvents'[o]
                = Cardinality({k \in Live(list') : list'[k].receiver = o})
    <3>1. \A o \in Receivers :
              postedEvents'[o] = Cardinality(Of(LiveEntries(list'), o))
      BY <2>2, <2>7
    <3> QED
      BY <2>4, <3>1, CountedAsEvents
  <2> QED
    BY <2>3, <2>4, <2>5, <2>6, <2>8, <2>9
<1> QED
  BY <1>3, <1>4

\* postEvent: what is added is newer than all others, and no second
\* DeferredDelete for its receiver.
NewEntry(r, ty, p, level, poster) ==
    [receiver |-> r, priority |-> p, event |-> lastEvent + 1, type |-> ty,
     level |-> IF ty = "DeferredDelete" THEN level ELSE 0, poster |-> poster]

\* What postEvent adds, and that the order and the counts survive it.
LEMMA Enqueued ==
    ASSUME TypeInv, GoodQueue(list, startOffset, insertionOffset), PostedCount,
           EventsInv, NEW r \in alive, NEW ty \in EventTypes,
           NEW p \in Priorities,
           NEW level \in Nat, NEW poster \in Nat,
           ~Compressed(r, ty), Enqueue(r, ty, p, level, poster)
    PROVE  LET e == NewEntry(r, ty, p, level, poster)
           IN /\ list' \in Seq(Entries) /\ postedEvents' \in [Receivers -> Int]
              /\ lastEvent' = lastEvent + 1
              /\ GoodQueue(list', startOffset, insertionOffset)
              /\ \A o \in Receivers : postedEvents'[o] =
                    Cardinality({k \in Live(list') : list'[k].receiver = o})
              /\ LiveEntries(list') = LiveEntries(list) \cup {e}
              /\ e \in Entries
              /\ ty = "DeferredDelete" => \A f \in LiveEntries(list) :
                     f.type = "DeferredDelete" => f.receiver # r
<1> DEFINE e == NewEntry(r, ty, p, level, poster)
<1>1. /\ list \in Seq(Entries) /\ startOffset \in Nat /\ insertionOffset \in Nat
      /\ postedEvents \in [Receivers -> Int] /\ lastEvent \in Nat
      /\ r \in Receivers
      /\ WellOrdered(list)
  BY DEF TypeInv, GoodQueue
<1>2. e \in Entries /\ IsLive(e) /\ e.event = lastEvent + 1 /\ e.receiver = r
  BY <1>1 DEF Entries, NewEntry, IsLive
<1>3. /\ list' = AddEvent(list, insertionOffset, e)
      /\ postedEvents' = [postedEvents EXCEPT ![r] = @ + 1]
      /\ lastEvent' = lastEvent + 1
  BY DEF Enqueue, NewEntry
<1> HIDE DEF e
<1>4. \A f \in LiveEntries(list) : f.event < e.event /\ f.event # e.event
  BY <1>1, <1>2, Positions DEF EventsInv
<1>5. /\ list' \in Seq(Entries)
      /\ GoodQueue(list', startOffset, insertionOffset)
      /\ LiveEntries(list') = LiveEntries(list) \cup {e}
  BY <1>1, <1>2, <1>3, <1>4, QueueAdded
<1>6. ASSUME NEW o \in Receivers
      PROVE  postedEvents'[o] = Cardinality(Of(LiveEntries(list'), o))
  <2> DEFINE L == Of(LiveEntries(list), o)
  <2>1. postedEvents[o] = Cardinality(L) /\ IsFiniteSet(L)
        /\ Cardinality(L) \in Nat
    BY <1>1, CountLive DEF PostedCount
  <2>2. CASE o = r
    <3>1. Of(LiveEntries(list'), o) = L \cup {e} /\ e \notin L
      BY <1>2, <1>4, <1>5, <2>2 DEF Of
    <3> HIDE DEF L
    <3>2. Cardinality(L \cup {e}) = Cardinality(L) + 1
      BY <2>1, <3>1, FS_AddElement
    <3> QED
      BY <1>1, <1>3, <2>1, <2>2, <3>1, <3>2
  <2>3. CASE o # r
    <3>1. Of(LiveEntries(list'), o) = L
      BY <1>2, <1>5, <2>3 DEF Of
    <3> QED
      BY <1>1, <1>3, <2>1, <2>3, <3>1
  <2> QED
    BY <2>2, <2>3
<1>7. \A o \in Receivers :
          postedEvents'[o]
              = Cardinality({k \in Live(list') : list'[k].receiver = o})
  <2>1. WellOrdered(list')
    BY <1>5 DEF GoodQueue
  <2> QED
    BY <1>5, <1>6, <2>1, CountedAsEvents
<1>8. ASSUME ty = "DeferredDelete", NEW f \in LiveEntries(list),
             f.type = "DeferredDelete", f.receiver = r
      PROVE  FALSE
  <2>1. f \in Of(LiveEntries(list), r)
    BY <1>8 DEF Of
  <2>2. /\ Cardinality(Of(LiveEntries(list), r)) \in Nat
        /\ Cardinality(Of(LiveEntries(list), r)) # 0
    BY <1>1, <2>1, CountLive, FS_EmptySet
  <2>3. postedEvents[r] > 0
    <3>1. postedEvents[r] = Cardinality(Of(LiveEntries(list), r))
      BY <1>1, CountLive DEF PostedCount
    <3> QED
      BY <2>2, <3>1
  <2>4. Compressed(r, ty)
    <3>1. \E g \in LiveEntries(list) : g.receiver = r /\ g.type = ty
      BY <1>8
    <3> QED
      BY <1>8, <2>3, <3>1 DEF Compressed
  <2> QED
    BY <2>4
<1> QED
  BY <1>1, <1>2, <1>3, <1>5, <1>7, <1>8 DEF e

-----------------------------------------------------------------------------
\* The operations on the stack.

\* A frame that is still the same call.
Alike(f, g) ==
    /\ g.kind = f.kind
    /\ f.kind = "handler" => g.entry = f.entry
    /\ f.kind = "send" => g.receiver = f.receiver /\ g.type = f.type

\* The passes made, and what is called without being sent an event.
MayPass(r, ty) ==
    \/ r = AnyReceiver /\ ty \in {AnyType, "DeferredDelete"}
    \/ <<r, ty>> \in Filters
MayPush(f) ==
    f.kind # "handler" /\ (f.kind = "send" => MayPass(f.receiver, f.type))

\* The handlers of t were running in s, and what was sent to them has not
\* changed: nothing is delivered.
Quiet(s, t) ==
    \E n \in 0..Len(s) :
        /\ n <= Len(t)
        /\ \A k \in 1..n : Alike(s[k], t[k])
        /\ \A k \in (n + 1)..Len(t) : MayPush(t[k])

\* Two steps without delivery are one.
LEMMA QuietTransitive ==
    ASSUME NEW s, NEW t, NEW u, Len(s) \in Nat, Len(t) \in Nat, Len(u) \in Nat,
           Quiet(s, t), Quiet(t, u)
    PROVE  Quiet(s, u)
<1>1. PICK m \in 0..Len(s) : /\ m <= Len(t)
                             /\ \A k \in 1..m : Alike(s[k], t[k])
                             /\ \A k \in (m + 1)..Len(t) : MayPush(t[k])
  BY DEF Quiet
<1>2. PICK n \in 0..Len(t) : /\ n <= Len(u)
                             /\ \A k \in 1..n : Alike(t[k], u[k])
                             /\ \A k \in (n + 1)..Len(u) : MayPush(u[k])
  BY DEF Quiet
<1>3. \A f, g, h : Alike(f, g) /\ Alike(g, h) => Alike(f, h)
  BY DEF Alike
<1>4. CASE n <= m
  <2>1. n \in 0..Len(s) /\ \A k \in 1..n : Alike(s[k], u[k])
    BY <1>1, <1>2, <1>3, <1>4
  <2> QED
    BY <1>2, <2>1 DEF Quiet
<1>5. CASE m < n
  <2>1. m <= Len(u) /\ \A k \in 1..m : Alike(s[k], u[k])
    BY <1>1, <1>2, <1>3, <1>5
  <2>2. ASSUME NEW k \in (m + 1)..Len(u) PROVE MayPush(u[k])
    <3>1. CASE k <= n
      <4>1. MayPush(t[k]) /\ Alike(t[k], u[k])
        BY <1>1, <1>2, <3>1
      <4> QED
        BY <4>1 DEF Alike, MayPush
    <3>2. CASE k > n
      BY <1>2, <3>2
    <3> QED
      BY <3>1, <3>2
  <2> QED
    BY <2>1, <2>2 DEF Quiet
<1> QED
  BY <1>4, <1>5

\* A call other than that of a handler.
LEMMA Pushed ==
    ASSUME NEW s, NEW level, NEW passes, Fits(s, level, passes),
           NEW f \in Frames
    PROVE  LET t == Append(s, f)
           IN /\ Fits(t, level + (IF f.kind \in Levels THEN 1 ELSE 0),
                         passes + (IF f.kind = "send" THEN 1 ELSE 0))
              /\ Len(t) = Len(s) + 1 /\ t # <<>>
              /\ t[Len(s) + 1] = f /\ \A k \in 1..Len(s) : t[k] = s[k]
              /\ Erasing(s) => Erasing(t)
              /\ f.kind = "send" /\ Unfiltered(f) => Erasing(t)
              /\ MayPush(f) => Quiet(s, t)
<1> DEFINE t == Append(s, f)
<1>1. /\ Fits(t, level + (IF f.kind \in Levels THEN 1 ELSE 0),
                 passes + (IF f.kind = "send" THEN 1 ELSE 0))
      /\ Len(t) = Len(s) + 1 /\ t # <<>>
      /\ t[Len(s) + 1] = f /\ \A k \in 1..Len(s) : t[k] = s[k]
  BY FitsPush
<1>2. Len(s) \in Nat
  BY FitsFacts
<1> HIDE DEF t
<1>3. Erasing(s) => Erasing(t)
  <2> SUFFICES ASSUME NEW k \in 1..Len(s), s[k].kind = "send", Unfiltered(s[k])
               PROVE  Erasing(t)
    BY DEF Erasing
  <2>1. k \in 1..Len(t) /\ t[k] = s[k]
    BY <1>1, <1>2
  <2> QED
    BY <2>1 DEF Erasing
<1>4. f.kind = "send" /\ Unfiltered(f) => Erasing(t)
  <2>1. Len(s) + 1 \in 1..Len(t)
    BY <1>1, <1>2
  <2> QED
    BY <1>1, <2>1 DEF Erasing
<1>5. MayPush(f) => Quiet(s, t)
  <2>1. Len(s) \in 0..Len(s) /\ Len(s) <= Len(t)
    BY <1>1, <1>2
  <2>2. \A k \in 1..Len(s) : Alike(s[k], t[k])
    BY <1>1 DEF Alike
  <2>3. MayPush(f) => \A k \in (Len(s) + 1)..Len(t) : MayPush(t[k])
    BY <1>1, <1>2
  <2> QED
    BY <2>1, <2>2, <2>3 DEF Quiet
<1> QED
  BY <1>1, <1>3, <1>4, <1>5 DEF t

\* A return.
LEMMA TakenOff ==
    ASSUME NEW s, NEW level, NEW passes, Fits(s, level, passes), s # <<>>
    PROVE  LET t == SubSeq(s, 1, Len(s) - 1)
           IN /\ Fits(t, level - (IF s[Len(s)].kind \in Levels THEN 1 ELSE 0),
                         passes - (IF s[Len(s)].kind = "send" THEN 1 ELSE 0))
              /\ Len(t) = Len(s) - 1 /\ \A k \in 1..Len(t) : t[k] = s[k]
              /\ \/ Erasing(s) => Erasing(t)
                 \/ s[Len(s)].kind = "send" /\ Unfiltered(s[Len(s)])
              /\ Quiet(s, t)
<1> DEFINE t == SubSeq(s, 1, Len(s) - 1)
<1>1. /\ Fits(t, level - (IF s[Len(s)].kind \in Levels THEN 1 ELSE 0),
                 passes - (IF s[Len(s)].kind = "send" THEN 1 ELSE 0))
      /\ Len(t) = Len(s) - 1 /\ \A k \in 1..Len(t) : t[k] = s[k]
  BY FitsPop
<1>2. Len(s) \in Nat /\ Len(s) >= 1
  BY FitsFacts
<1> HIDE DEF t
<1>3. ASSUME ~(s[Len(s)].kind = "send" /\ Unfiltered(s[Len(s)])), Erasing(s)
      PROVE  Erasing(t)
  <2>1. PICK k \in 1..Len(s) : s[k].kind = "send" /\ Unfiltered(s[k])
    BY <1>3 DEF Erasing
  <2>2. k \in 1..Len(t)
    BY <1>1, <1>2, <1>3, <2>1
  <2> QED
    BY <1>1, <2>1, <2>2 DEF Erasing
<1>4. Quiet(s, t)
  <2>1. Len(t) \in 0..Len(s) /\ \A k \in 1..Len(t) : Alike(s[k], t[k])
    BY <1>1, <1>2 DEF Alike
  <2>2. \A k \in (Len(t) + 1)..Len(t) : MayPush(t[k])
    BY <1>1, <1>2
  <2> QED
    BY <2>1, <2>2 DEF Quiet
<1> QED
  BY <1>1, <1>3, <1>4 DEF t

\* The calls stay, what they have done so far changes.
LEMMA Changed ==
    ASSUME NEW s, NEW level, NEW passes, Fits(s, level, passes), NEW t,
           t \in [1..Len(s) -> Frames],
           \A k \in 1..Len(s) : Alike(s[k], t[k])
    PROVE  /\ Fits(t, level, passes) /\ Len(t) = Len(s)
           /\ Erasing(s) => Erasing(t)
           /\ Quiet(s, t)
<1>1. Fits(t, level, passes) /\ Len(t) = Len(s) /\ Len(s) \in Nat
  BY FitsChanged, FitsFacts DEF Alike
<1>2. Erasing(s) => Erasing(t)
  BY <1>1 DEF Erasing, Unfiltered, Alike
<1>3. Quiet(s, t)
  <2>1. \A k \in (Len(t) + 1)..Len(t) : MayPush(t[k])
    BY <1>1
  <2>2. Len(s) \in 0..Len(s)
    BY <1>1
  <2> QED
    BY <1>1, <2>1, <2>2 DEF Quiet
<1> QED
  BY <1>1, <1>2, <1>3

\* Only the call on top has gone further.
LEMMA TopReplaced ==
    ASSUME NEW s, NEW level, NEW passes, Fits(s, level, passes), s # <<>>,
           NEW f \in Frames, Alike(s[Len(s)], f)
    PROVE  LET t == Append(SubSeq(s, 1, Len(s) - 1), f)
           IN /\ Fits(t, level, passes) /\ Len(t) = Len(s) /\ t # <<>>
              /\ t[Len(s)] = f /\ \A k \in 1..(Len(s) - 1) : t[k] = s[k]
              /\ Erasing(s) => Erasing(t)
              /\ Quiet(s, t)
<1> DEFINE u == SubSeq(s, 1, Len(s) - 1)
           t == Append(u, f)
           l == level - (IF s[Len(s)].kind \in Levels THEN 1 ELSE 0)
           p == passes - (IF s[Len(s)].kind = "send" THEN 1 ELSE 0)
<1>1. Fits(u, l, p) /\ Len(u) = Len(s) - 1 /\ \A k \in 1..Len(u) : u[k] = s[k]
  BY TakenOff
<1>2. /\ Len(s) \in Nat /\ Len(s) >= 1 /\ \A k \in 1..Len(s) : s[k] \in Frames
  BY FitsFacts
<1> HIDE DEF u
<1>3. /\ Len(t) = Len(u) + 1 /\ t # <<>>
      /\ t[Len(u) + 1] = f /\ \A k \in 1..Len(u) : t[k] = u[k]
      /\ t \in Seq(Frames)
  BY <1>1, Pushed DEF Fits
<1> HIDE DEF t
<1>4. /\ Len(t) = Len(s) /\ t[Len(s)] = f
      /\ \A k \in 1..(Len(s) - 1) : t[k] = s[k]
  BY <1>1, <1>2, <1>3
<1>5. t \in [1..Len(s) -> Frames]
  BY <1>3, <1>4, LenProperties
<1>6. \A k \in 1..Len(s) : Alike(s[k], t[k])
  <2>1. \A k \in 1..Len(s) : k = Len(s) \/ k \in 1..(Len(s) - 1)
    BY <1>2
  <2>2. \A k \in 1..(Len(s) - 1) : Alike(s[k], t[k])
    BY <1>4 DEF Alike
  <2> QED
    BY <1>4, <2>1, <2>2
<1>7. Fits(t, level, passes) /\ (Erasing(s) => Erasing(t)) /\ Quiet(s, t)
  BY <1>5, <1>6, Changed
<1> QED
  BY <1>3, <1>4, <1>7 DEF t, u

\* The changes to frames that the actions make.
LEMMA FrameFacts ==
    ASSUME NEW f \in Frames
    PROVE  /\ f.kind \in {"exec", "process", "send", "handler"}
           /\ f.kind = "send" =>
                 LET g == [f EXCEPT !.i = @ + 1]
                 IN /\ f.i \in Nat
                    /\ f.receiver \in Receivers \cup {AnyReceiver}
                    /\ g \in Frames /\ Alike(f, g)
           /\ f.kind = "exec" => LET g == [f EXCEPT !.exit = TRUE]
                                 IN g \in Frames /\ Alike(f, g) /\ g.exit
           /\ f.kind = "process" =>
                 LET g == [f EXCEPT !.pc = "native"]
                 IN g \in Frames /\ Alike(f, g) /\ g.pc = "native"
           /\ f.kind = "handler" => f.entry \in HandlerEntries
<1>1. CASE f \in [kind : {"exec"}, exit : BOOLEAN]
  BY <1>1 DEF Frames, Alike
<1>2. CASE f \in [kind : {"process"}, wait : BOOLEAN, canWait : BOOLEAN,
                  pc : {"send", "select", "native"}]
  BY <1>2 DEF Frames, Alike
<1>3. CASE f \in [kind : {"send"}, receiver : Receivers \cup {AnyReceiver},
                  type : EventTypes \cup {AnyType}, i : Nat]
  BY <1>3 DEF Frames, Alike
<1>4. CASE f \in [kind : {"handler"}, entry : HandlerEntries]
  BY <1>4 DEF Frames, Alike
<1> QED
  BY <1>1, <1>2, <1>3, <1>4 DEF Frames

\* processEvents goes on to select().
LEMMA SelectFrame ==
    ASSUME NEW f \in Frames, f.kind = "process", NEW wait \in BOOLEAN
    PROVE  LET g == [f EXCEPT !.pc = "select", !.canWait = wait]
           IN g \in Frames /\ Alike(f, g) /\ g.pc = "select" /\ g.canWait = wait
<1> DEFINE P == [kind : {"process"}, wait : BOOLEAN, canWait : BOOLEAN,
                 pc : {"send", "select", "native"}]
           g == [f EXCEPT !.pc = "select", !.canWait = wait]
<1>1. f \in P
  BY DEF Frames
<1>2. g \in P /\ g.kind = "process" /\ g.pc = "select" /\ g.canWait = wait
  BY <1>1
<1> QED
  BY <1>2 DEF Frames, Alike

\* The frames the actions push.
LEMMA NewFrames ==
    /\ Exec \in Frames /\ Exec.kind = "exec"
    /\ \A wait \in BOOLEAN : /\ Process(wait) \in Frames
                             /\ Process(wait).kind = "process"
                             /\ Process(wait).pc = "send"
    /\ \A r \in Receivers \cup {AnyReceiver}, ty \in EventTypes \cup {AnyType},
       i \in Nat :
           /\ Send(r, ty, i) \in Frames /\ Send(r, ty, i).kind = "send"
           /\ Send(r, ty, i).receiver = r /\ Send(r, ty, i).type = ty
    /\ \A e \in HandlerEntries :
           /\ Handler(e) \in Frames /\ Handler(e).entry = e
                                 /\ Handler(e).kind = "handler"
  BY DEF Exec, Process, Send, Handler, Frames

\* The frame on top.
LEMMA TopFacts ==
    ASSUME Fits(stack, loopLevel, recursion), NEW kind, TopIs(kind)
    PROVE  /\ stack # <<>> /\ Len(stack) \in Nat /\ Len(stack) >= 1
           /\ Len(stack) \in 1..Len(stack)
           /\ Top = stack[Len(stack)] /\ Top \in Frames /\ Top.kind = kind
  BY FitsFacts DEF TopIs, Top

-----------------------------------------------------------------------------
\* Every step leaves a stack that fits loopLevel and recursion, with the pass
\* on it whose part of the list is to be erased.

LEMMA StackStays ==
    ASSUME StackInv, UNCHANGED <<stack, loopLevel, recursion, startOffset>>
    PROVE  StackInv' /\ Quiet(stack, stack')
<1>1. stack \in [1..Len(stack) -> Frames]
  BY LenProperties DEF StackInv, Fits
<1>2. Quiet(stack, stack)
  BY <1>1, Changed DEF StackInv, Alike
<1> QED
  BY <1>2 DEF StackInv, ErasingPass

\* A pass goes to the next entry.
LEMMA AdvanceStack ==
    ASSUME StackInv, TopIs("send"), Advance, UNCHANGED <<loopLevel, recursion>>
    PROVE  StackInv' /\ Quiet(stack, stack')
<1>1. /\ Top = stack[Len(stack)] /\ Top \in Frames /\ Top.kind = "send"
      /\ stack # <<>> /\ Len(stack) \in 1..Len(stack)
  BY TopFacts DEF StackInv
<1>2. CASE Unfiltered(Top)
  <2>1. stack' = stack
    BY <1>2 DEF Advance
  <2>2. Erasing(stack)
    BY <1>1, <1>2 DEF Erasing
  <2>3. Quiet(stack, stack)
    <3>1. stack \in [1..Len(stack) -> Frames]
      BY LenProperties DEF StackInv, Fits
    <3> QED
      BY <3>1, Changed DEF StackInv, Alike
  <2> QED
    BY <2>1, <2>2, <2>3 DEF StackInv, ErasingPass
<1>3. CASE ~Unfiltered(Top)
  <2> DEFINE f == [Top EXCEPT !.i = @ + 1]
  <2>1. stack' = Append(SubSeq(stack, 1, Len(stack) - 1), f)
        /\ startOffset' = startOffset
    BY <1>3 DEF Advance, Replaced, Popped
  <2>2. f \in Frames /\ Alike(stack[Len(stack)], f)
    BY <1>1, FrameFacts
  <2> HIDE DEF f
  <2>3. /\ Fits(stack', loopLevel, recursion)
        /\ (Erasing(stack) => Erasing(stack'))
        /\ Quiet(stack, stack')
    BY <1>1, <2>1, <2>2, TopReplaced DEF StackInv
  <2> QED
    BY <2>1, <2>3 DEF StackInv, ErasingPass
<1> QED
  BY <1>2, <1>3

\* A pass returns, and what it leaves to be erased is erased.
LEMMA SendDoneStack ==
    ASSUME StackInv, SendDone
    PROVE  StackInv' /\ Quiet(stack, stack')
<1>1. /\ Top = stack[Len(stack)] /\ Top.kind = "send" /\ stack # <<>>
  BY TopFacts DEF StackInv, SendDone
<1>2. /\ stack' = SubSeq(stack, 1, Len(stack) - 1)
      /\ loopLevel' = loopLevel /\ recursion' = recursion - 1
      /\ Unfiltered(Top) => startOffset' = 0
      /\ ~Unfiltered(Top) => startOffset' = startOffset
  BY DEF SendDone, CleanUp, Popped
<1>3. /\ Fits(stack',
              loopLevel - (IF stack[Len(stack)].kind \in Levels THEN 1 ELSE 0),
              recursion - (IF stack[Len(stack)].kind = "send" THEN 1 ELSE 0))
      /\ \/ Erasing(stack) => Erasing(stack')
         \/ stack[Len(stack)].kind = "send" /\ Unfiltered(stack[Len(stack)])
      /\ Quiet(stack, stack')
  BY <1>1, <1>2, TakenOff DEF StackInv
<1>4. "send" \notin Levels /\ loopLevel \in Nat /\ loopLevel - 0 = loopLevel
  BY FitsFacts DEF Levels, StackInv
<1> QED
  BY <1>1, <1>2, <1>3, <1>4 DEF StackInv, ErasingPass

\* sendPostedEvents, on top of a stack s that is reached without passes.
LEMMA EnterSendStack ==
    ASSUME NEW s, Fits(s, loopLevel, recursion), startOffset \in Nat,
           NEW r \in Receivers \cup {AnyReceiver},
           NEW ty \in EventTypes \cup {AnyType},
           MayPass(r, ty), EnterSend(s, r, ty)
    PROVE  /\ Fits(stack', loopLevel, recursion')
           /\ Erasing(s) => Erasing(stack')
           /\ Quiet(s, stack')
<1>1. CASE list = <<>> \/ (r # AnyReceiver /\ postedEvents[r] = 0)
  <2>1. stack' = s /\ recursion' = recursion
    BY <1>1 DEF EnterSend
  <2>2. s \in [1..Len(s) -> Frames]
    BY LenProperties DEF Fits
  <2>3. Quiet(s, s)
    BY <2>2, Changed DEF Alike
  <2> QED
    BY <2>1, <2>3
<1>2. CASE ~(list = <<>> \/ (r # AnyReceiver /\ postedEvents[r] = 0))
  <2> DEFINE f == Send(r, ty, startOffset)
  <2>1. stack' = Append(s, f) /\ recursion' = recursion + 1
    BY <1>2 DEF EnterSend
  <2>2. f \in Frames /\ f.kind = "send" /\ MayPush(f)
    BY NewFrames DEF MayPush
  <2> HIDE DEF f
  <2>3. /\ Fits(stack', loopLevel + (IF f.kind \in Levels THEN 1 ELSE 0),
                        recursion + (IF f.kind = "send" THEN 1 ELSE 0))
        /\ Erasing(s) => Erasing(stack')
        /\ Quiet(s, stack')
    BY <2>1, <2>2, Pushed
  <2>4. "send" \notin Levels /\ loopLevel \in Nat /\ loopLevel + 0 = loopLevel
    BY FitsFacts DEF Levels
  <2> QED
    BY <2>1, <2>2, <2>3, <2>4
<1> QED
  BY <1>1, <1>2

\* processEvents is called and makes its pass.
LEMMA EnterProcessStack ==
    ASSUME StackInv, startOffset \in Nat, NEW wait \in BOOLEAN,
           EnterProcess(stack, wait)
    PROVE  StackInv' /\ Quiet(stack, stack')
<1> DEFINE s == Append(stack, Process(wait))
<1>1. /\ EnterSend(s, AnyReceiver, AnyType)
      /\ loopLevel' = loopLevel /\ startOffset' = startOffset
  BY DEF EnterProcess
<1>2. /\ Process(wait) \in Frames /\ Process(wait).kind = "process"
      /\ MayPush(Process(wait)) /\ MayPass(AnyReceiver, AnyType)
  BY NewFrames DEF MayPush, MayPass
<1>3. /\ Fits(s, loopLevel + (IF Process(wait).kind \in Levels THEN 1 ELSE 0),
                 recursion + (IF Process(wait).kind = "send" THEN 1 ELSE 0))
      /\ Erasing(stack) => Erasing(s)
      /\ Quiet(stack, s)
  BY <1>2, Pushed DEF StackInv
<1>4. /\ "process" \notin Levels /\ loopLevel \in Nat /\ recursion \in Nat
      /\ loopLevel + 0 = loopLevel /\ recursion + 0 = recursion
  BY FitsFacts DEF Levels, StackInv
<1>5. Fits(s, loopLevel, recursion)
  BY <1>2, <1>3, <1>4
<1> HIDE DEF s
<1>6. /\ Fits(stack', loopLevel, recursion') /\ (Erasing(s) => Erasing(stack'))
      /\ Quiet(s, stack')
  BY <1>1, <1>2, <1>5, EnterSendStack
<1>7. Quiet(stack, stack')
  BY <1>3, <1>5, <1>6, FitsFacts, QuietTransitive DEF StackInv
<1> QED
  BY <1>1, <1>3, <1>6, <1>7 DEF StackInv, ErasingPass

\* A call that is no pass returns.
LEMMA PopStack ==
    ASSUME StackInv, stack # <<>>, Top.kind # "send", stack' = Popped,
           startOffset' = startOffset, recursion' = recursion,
           loopLevel' = loopLevel - (IF Top.kind \in Levels THEN 1 ELSE 0)
    PROVE  StackInv' /\ Quiet(stack, stack')
<1>1. stack' = SubSeq(stack, 1, Len(stack) - 1) /\ Top = stack[Len(stack)]
  BY DEF Popped, Top
<1>2. /\ Fits(stack', loopLevel - (IF Top.kind \in Levels THEN 1 ELSE 0),
                      recursion - (IF Top.kind = "send" THEN 1 ELSE 0))
      /\ Erasing(stack) => Erasing(stack')
      /\ Quiet(stack, stack')
  BY <1>1, TakenOff DEF StackInv
<1>3. recursion \in Nat /\ recursion - 0 = recursion
  BY FitsFacts DEF StackInv
<1> QED
  BY <1>2, <1>3 DEF StackInv, ErasingPass

\* QCoreApplication::exit sets a flag of the loops.
LEMMA ExitedStack ==
    ASSUME NEW s, NEW level, NEW passes, Fits(s, level, passes)
    PROVE  /\ Fits(Exited(s), level, passes) /\ Len(Exited(s)) = Len(s)
           /\ Erasing(s) => Erasing(Exited(s))
           /\ Quiet(s, Exited(s))
           /\ \A k \in 1..Len(s) :
                 /\ Alike(s[k], Exited(s)[k])
                 /\ s[k].kind # "exec" => Exited(s)[k] = s[k]
<1>1. \A k \in 1..Len(s) : s[k] \in Frames
  BY FitsFacts
<1>2. \A k \in 1..Len(s) :
          s[k].kind = "exec" => /\ [s[k] EXCEPT !.exit = TRUE] \in Frames
                                /\ Alike(s[k], [s[k] EXCEPT !.exit = TRUE])
  BY <1>1, FrameFacts
<1>3. /\ Exited(s) \in [1..Len(s) -> Frames]
      /\ \A k \in 1..Len(s) : Alike(s[k], Exited(s)[k])
      /\ \A k \in 1..Len(s) : s[k].kind # "exec" => Exited(s)[k] = s[k]
  BY <1>1, <1>2 DEF Exited, Alike
<1> QED
  BY <1>3, Changed

\* exec returns, and the last one makes a pass for deferred deletes.
LEMMA LeaveLoopStack ==
    ASSUME StackInv, startOffset \in Nat, LeaveLoop
    PROVE  StackInv' /\ Quiet(stack, stack')
<1>1. /\ stack # <<>> /\ Top.kind = "exec" /\ Top = stack[Len(stack)]
      /\ loopLevel' = loopLevel - 1 /\ startOffset' = startOffset
  BY TopFacts DEF LeaveLoop, StackInv
<1>2. "exec" \in Levels /\ loopLevel \in Nat /\ Len(stack) \in Nat
  BY FitsFacts DEF Levels, StackInv
<1>3. CASE Popped # <<>>
  BY <1>1, <1>2, <1>3, PopStack DEF LeaveLoop
<1>4. CASE Popped = <<>>
  <2>1. EnterSend(<<>>, AnyReceiver, "DeferredDelete")
    BY <1>4 DEF LeaveLoop
  <2>2. /\ Fits(<<>>, loopLevel - 1, recursion)
        /\ Erasing(stack) => Erasing(<<>>)
        /\ Quiet(stack, <<>>)
    <3>1. /\ Fits(<<>>, loopLevel - (IF Top.kind \in Levels THEN 1 ELSE 0),
                        recursion - (IF Top.kind = "send" THEN 1 ELSE 0))
          /\ Erasing(stack) => Erasing(<<>>)
          /\ Quiet(stack, <<>>)
      BY <1>1, <1>4, TakenOff DEF StackInv, Popped
    <3>2. recursion \in Nat /\ recursion - 0 = recursion
      BY FitsFacts DEF StackInv
    <3> QED
      BY <1>1, <1>2, <3>1, <3>2
  <2>3. ~Erasing(<<>>)
    BY DEF Erasing
  <2>4. loopLevel - 1 = 0 /\ recursion = 0
    <3>1. Len(<<>>) = 0 /\ \A kinds : {k \in 1..0 : <<>>[k].kind \in kinds} = {}
      BY EmptySeq
    <3>2. Cardinality({}) = 0
      BY FS_EmptySet
    <3> QED
      BY <2>2, <3>1, <3>2 DEF Fits, Deep
  <2>5. CASE list = <<>>
    BY <1>1, <2>1, <2>2, <2>3, <2>5 DEF EnterSend, StackInv, ErasingPass
  <2>6. CASE list # <<>>
    <3> DEFINE f == Send(AnyReceiver, "DeferredDelete", startOffset)
    <3>1. stack' = Append(<<>>, f) /\ recursion' = recursion + 1
      BY <2>1, <2>6 DEF EnterSend
    <3>2. /\ f \in Frames /\ f.kind = "send" /\ "send" \notin Levels
          /\ f.receiver = AnyReceiver /\ f.type = "DeferredDelete"
      BY NewFrames DEF EventTypes, Levels
    <3> HIDE DEF f
    <3>3. /\ Fits(stack',
                  (loopLevel - 1) + (IF f.kind \in Levels THEN 1 ELSE 0),
                  recursion + (IF f.kind = "send" THEN 1 ELSE 0))
          /\ Quiet(<<>>, stack')
      <4>1. MayPush(f)
        BY <3>2 DEF MayPush, MayPass
      <4>2. LET t == Append(<<>>, f)
            IN /\ Fits(t,
                       (loopLevel - 1) + (IF f.kind \in Levels THEN 1 ELSE 0),
                       recursion + (IF f.kind = "send" THEN 1 ELSE 0))
               /\ MayPush(f) => Quiet(<<>>, t)
        BY <2>2, <3>2, Pushed, ZenonT(60)
      <4> QED
        BY <3>1, <4>1, <4>2
    <3>4. (loopLevel - 1) + 0 = loopLevel - 1
      BY <1>2
    <3>5. Fits(stack', loopLevel', recursion')
      BY <1>1, <3>1, <3>2, <3>3, <3>4
    <3>6. Quiet(stack, stack')
      BY <2>2, <3>3, <3>5, FitsFacts, QuietTransitive DEF StackInv
    <3> QED
      BY <1>1, <2>2, <2>3, <3>5, <3>6 DEF StackInv, ErasingPass
  <2> QED
    BY <2>5, <2>6
<1> QED
  BY <1>3, <1>4

\* processEvents goes on, or returns because it is interrupted.
LEMMA AfterSendStack ==
    ASSUME StackInv, AfterSend
    PROVE  StackInv' /\ Quiet(stack, stack')
<1>1. /\ stack # <<>> /\ Top.kind = "process" /\ Top = stack[Len(stack)]
      /\ Top \in Frames /\ "process" \notin Levels
      /\ UNCHANGED <<loopLevel, recursion, startOffset>>
  BY TopFacts DEF AfterSend, StackInv, Levels, queueVars
<1>2. loopLevel \in Nat /\ loopLevel - 0 = loopLevel
  BY FitsFacts DEF StackInv
<1>3. CASE interrupt
  BY <1>1, <1>2, <1>3, PopStack DEF AfterSend
<1>4. CASE ~interrupt
  <2> DEFINE w == canWait /\ Top.wait
             f == [Top EXCEPT !.pc = "select", !.canWait = w]
  <2>1. stack' = Append(SubSeq(stack, 1, Len(stack) - 1), f)
    BY <1>4 DEF AfterSend, Replaced, Popped
  <2>2. f \in Frames /\ Alike(Top, f)
    <3>1. w \in BOOLEAN
      OBVIOUS
    <3> HIDE DEF w
    <3> QED
      BY <1>1, <3>1, SelectFrame
  <2> HIDE DEF f
  <2>3. /\ Fits(stack', loopLevel, recursion)
        /\ (Erasing(stack) => Erasing(stack'))
        /\ Quiet(stack, stack')
    BY <1>1, <2>1, <2>2, TopReplaced DEF StackInv
  <2> QED
    BY <1>1, <2>3 DEF StackInv, ErasingPass
<1> QED
  BY <1>3, <1>4

\* processEvents returns.
LEMMA LeaveProcessStack ==
    ASSUME StackInv, Select \/ AfterNative
    PROVE  StackInv' /\ Quiet(stack, stack')
<1>1. /\ TopIs("process") /\ stack' = Popped
      /\ UNCHANGED <<loopLevel, recursion, startOffset>>
  BY DEF Select, AfterNative, queueVars
<1>2. /\ stack # <<>> /\ Top.kind = "process" /\ "process" \notin Levels
  BY <1>1, TopFacts DEF StackInv, Levels
<1>3. loopLevel \in Nat /\ loopLevel - 0 = loopLevel
  BY FitsFacts DEF StackInv
<1> QED
  BY <1>1, <1>2, <1>3, PopStack

\* QCoreApplication::exit, called by user code.
LEMMA QuitStack ==
    ASSUME StackInv, Quit
    PROVE  StackInv' /\ Quiet(stack, stack')
<1>1. stack' = Exited(stack) /\ UNCHANGED <<loopLevel, recursion, startOffset>>
  BY DEF Quit, ExitAll, queueVars
<1> QED
  BY <1>1, ExitedStack DEF StackInv, ErasingPass

\* QEventLoop::exit.
LEMMA ExitLoopStack ==
    ASSUME StackInv, NEW k \in 1..Len(stack), ExitLoop(k)
    PROVE  StackInv' /\ Quiet(stack, stack')
<1> DEFINE f == [stack[k] EXCEPT !.exit = TRUE]
<1>1. /\ stack[k].kind = "exec" /\ stack' = [stack EXCEPT ![k] = f]
      /\ UNCHANGED <<loopLevel, recursion, startOffset>>
  BY DEF ExitLoop, queueVars
<1>2. \A j \in 1..Len(stack) : stack[j] \in Frames
  BY FitsFacts DEF StackInv
<1>3. f \in Frames /\ Alike(stack[k], f)
  BY <1>1, <1>2, FrameFacts
<1> HIDE DEF f
<1>4. stack' \in [1..Len(stack) -> Frames]
      /\ \A j \in 1..Len(stack) : Alike(stack[j], stack'[j])
  <2>1. stack \in [1..Len(stack) -> Frames]
    BY LenProperties DEF StackInv, Fits
  <2> QED
    BY <1>1, <1>3, <2>1 DEF Alike
<1> QED
  BY <1>1, <1>4, Changed DEF StackInv, ErasingPass

\* A handler returns.
LEMMA ReturnStack ==
    ASSUME StackInv, ReturnFromHandler
    PROVE  StackInv' /\ Quiet(stack, stack')
<1>1. /\ stack # <<>> /\ Top.kind = "handler" /\ Top = stack[Len(stack)]
      /\ "handler" \in Levels
      /\ loopLevel' = loopLevel - 1 /\ recursion' = recursion
      /\ startOffset' = startOffset
      /\ stack' = Popped \/ stack' = Exited(Popped)
  BY TopFacts DEF ReturnFromHandler, InHandler, StackInv, Levels, ExitAll
<1>2. CASE stack' = Popped
  BY <1>1, <1>2, PopStack
<1>3. CASE stack' = Exited(Popped)
  <2>1. /\ Fits(Popped, loopLevel - (IF Top.kind \in Levels THEN 1 ELSE 0),
                       recursion - (IF Top.kind = "send" THEN 1 ELSE 0))
        /\ Erasing(stack) => Erasing(Popped)
        /\ Quiet(stack, Popped)
    BY <1>1, TakenOff DEF StackInv, Popped
  <2>2. recursion \in Nat /\ recursion - 0 = recursion
    BY FitsFacts DEF StackInv
  <2>3. Fits(Popped, loopLevel', recursion')
    BY <1>1, <2>1, <2>2
  <2>4. /\ Fits(stack', loopLevel', recursion')
        /\ Erasing(Popped) => Erasing(stack')
        /\ Quiet(Popped, stack')
    BY <1>3, <2>3, ExitedStack
  <2>5. Quiet(stack, stack')
    BY <2>1, <2>3, <2>4, FitsFacts, QuietTransitive DEF StackInv
  <2> QED
    BY <1>1, <2>1, <2>4, <2>5 DEF StackInv, ErasingPass
<1> QED
  BY <1>1, <1>2, <1>3

\* A loop is entered.
LEMMA EnterLoopStack ==
    ASSUME StackInv, EnterLoop
    PROVE  StackInv' /\ Quiet(stack, stack')
<1>1. /\ stack' = Append(stack, Exec) /\ loopLevel' = loopLevel + 1
      /\ recursion' = recursion /\ startOffset' = startOffset
  BY DEF EnterLoop
<1>2. Exec \in Frames /\ Exec.kind = "exec" /\ "exec" \in Levels
      /\ MayPush(Exec)
  BY NewFrames DEF Levels, MayPush
<1>3. /\ Fits(stack', loopLevel + (IF Exec.kind \in Levels THEN 1 ELSE 0),
                      recursion + (IF Exec.kind = "send" THEN 1 ELSE 0))
      /\ Erasing(stack) => Erasing(stack')
      /\ Quiet(stack, stack')
  BY <1>1, <1>2, Pushed DEF StackInv
<1>4. recursion \in Nat /\ recursion + 0 = recursion
  BY FitsFacts DEF StackInv
<1> QED
  BY <1>1, <1>2, <1>3, <1>4 DEF StackInv, ErasingPass

\* A handler is called on top of what was there, but for what the frame
\* that calls it knows of its progress.
CallsHandler(s, t, entry) ==
    /\ Len(t) = Len(s) + 1
    /\ \A k \in 1..Len(s) : Alike(s[k], t[k])
    /\ t[Len(t)] = Handler(entry)

\* A handler is called.
LEMMA CallStack ==
    ASSUME StackInv, NEW s, Fits(s, loopLevel, recursion), Len(s) = Len(stack),
           \A k \in 1..Len(s) : Alike(stack[k], s[k]),
           Erasing(stack) => Erasing(s),
           NEW entry \in HandlerEntries, stack' = Append(s, Handler(entry)),
           startOffset' = startOffset \/ Erasing(s),
           recursion' = recursion, loopLevel' = loopLevel + 1
    PROVE  StackInv' /\ CallsHandler(stack, stack', entry)
<1> DEFINE f == Handler(entry)
<1>1. f \in Frames /\ f.kind = "handler" /\ "handler" \in Levels
  BY NewFrames DEF Levels
<1>2. Len(stack) \in Nat /\ recursion \in Nat /\ recursion + 0 = recursion
  BY FitsFacts DEF StackInv
<1> HIDE DEF f
<1>3. /\ Fits(stack', loopLevel + (IF f.kind \in Levels THEN 1 ELSE 0),
                      recursion + (IF f.kind = "send" THEN 1 ELSE 0))
      /\ Erasing(s) => Erasing(stack')
      /\ Len(stack') = Len(s) + 1 /\ stack'[Len(s) + 1] = f
      /\ \A k \in 1..Len(s) : stack'[k] = s[k]
  <2>1. stack' = Append(s, f)
    BY DEF f
  <2> QED
    BY <1>1, <2>1, Pushed
<1>4. CallsHandler(stack, stack', entry)
  BY <1>2, <1>3 DEF CallsHandler, f
<1> QED
  BY <1>1, <1>2, <1>3, <1>4 DEF StackInv, ErasingPass

\* A pass calls a handler.
LEMMA DeliverStack ==
    ASSUME StackInv, Deliver, Pe \in HandlerEntries
    PROVE  StackInv' /\ CallsHandler(stack, stack', Pe)
<1>1. /\ stack # <<>> /\ Top.kind = "send" /\ Top = stack[Len(stack)]
      /\ Top \in Frames /\ Len(stack) \in 1..Len(stack) /\ Len(stack) \in Nat
      /\ loopLevel' = loopLevel + 1 /\ recursion' = recursion
  BY TopFacts DEF Deliver, InPass, StackInv
<1>2. CASE Unfiltered(Top)
  <2>1. stack' = Append(stack, Handler(Pe))
    BY <1>2 DEF Deliver
  <2>2. Erasing(stack)
    BY <1>1, <1>2 DEF Erasing
  <2>3. \A k \in 1..Len(stack) : Alike(stack[k], stack[k])
    BY DEF Alike
  <2> QED
    BY <1>1, <2>1, <2>2, <2>3, CallStack DEF StackInv
<1>3. CASE ~Unfiltered(Top)
  <2> DEFINE f == [Top EXCEPT !.i = @ + 1]
             s == Append(SubSeq(stack, 1, Len(stack) - 1), f)
  <2>1. stack' = Append(s, Handler(Pe)) /\ startOffset' = startOffset
    BY <1>3 DEF Deliver, Replaced, Popped
  <2>2. f \in Frames /\ Alike(stack[Len(stack)], f)
    BY <1>1, FrameFacts
  <2> HIDE DEF f
  <2>3. /\ Fits(s, loopLevel, recursion) /\ Len(s) = Len(stack)
        /\ s[Len(stack)] = f /\ \A k \in 1..(Len(stack) - 1) : s[k] = stack[k]
        /\ Erasing(stack) => Erasing(s)
    BY <1>1, <2>2, TopReplaced DEF StackInv
  <2> HIDE DEF s
  <2>4. \A k \in 1..Len(s) : Alike(stack[k], s[k])
    <3>1. \A k \in 1..Len(s) : k = Len(stack) \/ k \in 1..(Len(stack) - 1)
      BY <1>1, <2>3
    <3> QED
      BY <2>2, <2>3, <3>1 DEF Alike
  <2> QED
    BY <1>1, <2>1, <2>3, <2>4, CallStack
<1> QED
  BY <1>2, <1>3

\* processEvents calls the handler of a timer or a notifier.
LEMMA NativeStack ==
    ASSUME StackInv, NativeEvent
    PROVE  StackInv' /\ CallsHandler(stack, stack', NativeEntry)
<1> DEFINE f == [Top EXCEPT !.pc = "native"]
           s == Append(SubSeq(stack, 1, Len(stack) - 1), f)
<1>1. /\ stack # <<>> /\ Top.kind = "process" /\ Top = stack[Len(stack)]
      /\ Top \in Frames /\ Len(stack) \in 1..Len(stack) /\ Len(stack) \in Nat
      /\ loopLevel' = loopLevel + 1 /\ recursion' = recursion
      /\ startOffset' = startOffset /\ stack' = Append(s, Handler(NativeEntry))
  BY TopFacts DEF NativeEvent, StackInv, queueVars, Replaced, Popped
<1>2. f \in Frames /\ Alike(stack[Len(stack)], f)
  BY <1>1, FrameFacts
<1> HIDE DEF f
<1>3. /\ Fits(s, loopLevel, recursion) /\ Len(s) = Len(stack)
      /\ s[Len(stack)] = f /\ \A k \in 1..(Len(stack) - 1) : s[k] = stack[k]
      /\ Erasing(stack) => Erasing(s)
  BY <1>1, <1>2, TopReplaced DEF StackInv
<1> HIDE DEF s
<1>4. \A k \in 1..Len(s) : Alike(stack[k], s[k])
  <2>1. \A k \in 1..Len(s) : k = Len(stack) \/ k \in 1..(Len(stack) - 1)
    BY <1>1, <1>3
  <2> QED
    BY <1>2, <1>3, <2>1 DEF Alike
<1>5. NativeEntry \in HandlerEntries
  BY ReceiversAssumption DEF NativeEntry, HandlerEntries, EventTypes
<1> QED
  BY <1>1, <1>3, <1>4, <1>5, CallStack

-----------------------------------------------------------------------------
\* Every step keeps the queue in order.

\* No pass on the stack, nothing to be erased.
LEMMA NothingToErase ==
    ASSUME StackInv, recursion = 0
    PROVE  startOffset = 0
<1>1. Len(stack) \in Nat
  BY FitsFacts DEF StackInv
<1>2. ASSUME Erasing(stack) PROVE FALSE
  <2>1. PICK k \in 1..Len(stack) : stack[k].kind = "send"
    BY <1>2 DEF Erasing
  <2>2. stack[k].kind \in {"send"}
    BY <2>1
  <2>3. Deep(stack, {"send"}, Len(stack)) > 0
    BY <1>1, <2>2, DeepFacts
  <2> QED
    BY <2>3 DEF StackInv, Fits
<1> QED
  BY <1>2 DEF StackInv, ErasingPass

\* The events of the queue do not change, or some of them go.
LEMMA FewerEvents ==
    ASSUME EventsInv, lastEvent' = lastEvent,
           \A e \in LiveEntries(list') :
               e \in LiveEntries(list) /\ e.receiver \in alive'
    PROVE  EventsInv'
  BY DEF EventsInv

\* Nothing happens to the list, but that a pass may begin.
LEMMA QueueStays ==
    ASSUME QueueInv,
           UNCHANGED <<list, startOffset, postedEvents, alive, lastEvent>>,
           insertionOffset' \in {insertionOffset, Len(list)}
    PROVE  QueueInv' /\ LiveEntries(list') = LiveEntries(list)
<1>1. Len(list) \in Nat
  BY EntriesOfList DEF QueueInv, TypeInv
<1>2. TypeInv'
  BY <1>1 DEF QueueInv, TypeInv
<1>3. GoodQueue(list', startOffset', insertionOffset')
  <2>1. SortedFrom(list, Len(list))
    BY <1>1 DEF SortedFrom
  <2> QED
    BY <2>1 DEF QueueInv, TypeInv, GoodQueue
<1> QED
  BY <1>2, <1>3 DEF QueueInv, PostedCount, EventsInv

\* insertionOffset is the end of the list when a pass begins.
LEMMA EnterSendQueue ==
    ASSUME NEW s, NEW r, NEW ty, EnterSend(s, r, ty), UNCHANGED list
    PROVE  insertionOffset' \in {insertionOffset, Len(list)}
  BY DEF EnterSend

\* The entry a pass has come to.
LEMMA AtPosition ==
    ASSUME TypeInv, StackInv, InPass
    PROVE  /\ Position \in Nat /\ Position + 1 \in 1..Len(list)
           /\ Position + 1 <= insertionOffset
           /\ Pe = list[Position + 1] /\ Pe \in Entries
           /\ IsLive(Pe)
                  => Position + 1 \in Live(list) /\ Pe \in LiveEntries(list)
           /\ Unfiltered(Top) => Position = startOffset
           /\ Unfiltered(Top) => \A e : Matches(e)
<1>1. Top \in Frames /\ Top.kind = "send"
  BY TopFacts DEF InPass, StackInv
<1>2. Position \in Nat
  BY <1>1, FrameFacts DEF Position, TypeInv
<1>3. Len(list) \in Nat /\ \A k \in 1..Len(list) : list[k] \in Entries
  BY EntriesOfList DEF TypeInv
<1>4. Position + 1 \in 1..Len(list) /\ Position + 1 <= insertionOffset
  BY <1>2, <1>3 DEF InPass, TypeInv
<1>5. IsLive(Pe) => Position + 1 \in Live(list) /\ Pe \in LiveEntries(list)
  BY <1>4 DEF Pe, Live, LiveEntries
<1>6. Unfiltered(Top) => \A e : Matches(e)
  BY DEF Unfiltered, Matches
<1> QED
  BY <1>2, <1>3, <1>4, <1>5, <1>6 DEF Pe, Position

\* One more entry has been dealt with.
LEMMA OneFurther ==
    ASSUME NEW lst \in Seq(Entries), NEW start \in Nat, NEW ins \in Nat,
           GoodQueue(lst, start, ins), start + 1 <= Len(lst), start + 1 <= ins,
           ~IsLive(lst[start + 1])
    PROVE  GoodQueue(lst, start + 1, ins)
<1>1. \A k \in 1..(start + 1) : k \in 1..start \/ k = start + 1
  OBVIOUS
<1> QED
  BY <1>1 DEF GoodQueue

\* postEvent by any thread.
LEMMA PostQueue ==
    ASSUME QueueInv, NEW r, NEW ty, NEW p, <<r, ty, p>> \in Posts,
           NEW level \in Nat, NEW poster \in Nat,
           r \in alive, ~Compressed(r, ty), Enqueue(r, ty, p, level, poster),
           UNCHANGED <<startOffset, insertionOffset, alive>>
    PROVE  /\ QueueInv'
           /\ LiveEntries(list')
                = LiveEntries(list) \cup {NewEntry(r, ty, p, level, poster)}
           /\ lastEvent' = lastEvent + 1
<1> DEFINE e == NewEntry(r, ty, p, level, poster)
<1>0. ty \in EventTypes /\ p \in Priorities
  BY EventLoopAssumption
<1>1. /\ list' \in Seq(Entries) /\ postedEvents' \in [Receivers -> Int]
      /\ lastEvent' = lastEvent + 1
      /\ GoodQueue(list', startOffset, insertionOffset)
      /\ \A o \in Receivers : postedEvents'[o] =
            Cardinality({k \in Live(list') : list'[k].receiver = o})
      /\ LiveEntries(list') = LiveEntries(list) \cup {e} /\ e \in Entries
      /\ ty = "DeferredDelete" => \A f \in LiveEntries(list) :
             f.type = "DeferredDelete" => f.receiver # r
  BY <1>0, Enqueued DEF QueueInv
<1>2. e.event = lastEvent + 1 /\ e.receiver = r /\ e.type = ty
  BY DEF NewEntry
<1> HIDE DEF e
<1>3. TypeInv'
  BY <1>1 DEF QueueInv, TypeInv
<1>4. EventsInv'
  <2>1. \A f \in LiveEntries(list') : f \in LiveEntries(list) \/ f = e
    BY <1>1
  <2>2. \A f \in LiveEntries(list') :
            f.event <= lastEvent' /\ f.receiver \in alive'
    <3>1. \A f \in LiveEntries(list) : f.event \in Nat
      BY Positions DEF QueueInv, TypeInv
    <3> QED
      BY <1>1, <1>2, <2>1, <3>1 DEF QueueInv, TypeInv, EventsInv
  <2>3. ASSUME NEW f \in LiveEntries(list'), NEW g \in LiveEntries(list'),
               f.type = "DeferredDelete", g.type = "DeferredDelete",
               f.receiver = g.receiver
        PROVE  f = g
    BY <1>1, <1>2, <2>1, <2>3 DEF QueueInv, EventsInv
  <2> QED
    BY <2>2, <2>3 DEF EventsInv
<1> QED
  BY <1>1, <1>3, <1>4 DEF QueueInv, PostedCount, e

\* removePostedEvents, by itself or from the destructor of a receiver.
LEMMA RemoveQueue ==
    ASSUME QueueInv, StackInv, NEW r \in Receivers \cup {AnyReceiver}, NEW ty,
           RemovePosted(r, ty),
           UNCHANGED <<startOffset, insertionOffset, lastEvent>>,
           \/ alive' = alive
           \/ r # AnyReceiver /\ ty = AnyType /\ alive' = alive \ {r}
    PROVE  /\ QueueInv'
           /\ LiveEntries(list') = {e \in LiveEntries(list) : ~Wanted(e, r, ty)}
           /\ recursion # 0 => /\ Live(list') \subseteq Live(list)
                               /\ \A k \in Live(list') : list'[k] = list[k]
<1>1. /\ list' \in Seq(Entries) /\ postedEvents' \in [Receivers -> Int]
      /\ GoodQueue(list', startOffset, insertionOffset)
      /\ \A o \in Receivers :
            postedEvents'[o]
                = Cardinality({k \in Live(list') : list'[k].receiver = o})
      /\ LiveEntries(list') = {e \in LiveEntries(list) : ~Wanted(e, r, ty)}
      /\ recursion # 0 => /\ Live(list') \subseteq Live(list)
                          /\ \A k \in Live(list') : list'[k] = list[k]
  BY Removed, NothingToErase DEF QueueInv
<1>2. \A e \in LiveEntries(list') :
          e \in LiveEntries(list) /\ e.receiver \in alive'
  BY <1>1 DEF QueueInv, EventsInv, Wanted
<1>3. EventsInv'
  BY <1>2, FewerEvents DEF QueueInv
<1>4. TypeInv'
  BY <1>1 DEF QueueInv, TypeInv
<1> QED
  BY <1>1, <1>3, <1>4 DEF QueueInv, PostedCount

\* A pass steps over a null entry.
LEMMA SkipNullQueue ==
    ASSUME QueueInv, StackInv, SkipNull
    PROVE  QueueInv' /\ LiveEntries(list') = LiveEntries(list)
<1>1. /\ InPass /\ ~IsLive(Pe)
      /\ UNCHANGED <<list, insertionOffset, postedEvents, alive, lastEvent>>
  BY DEF SkipNull
<1>2. CASE Unfiltered(Top)
  <2>1. /\ startOffset' = startOffset + 1 /\ ~IsLive(list[startOffset + 1])
        /\ startOffset + 1 <= Len(list) /\ startOffset + 1 <= insertionOffset
        /\ startOffset \in Nat /\ Len(list) \in Nat
    BY <1>1, <1>2, AtPosition, EntriesOfList DEF SkipNull, Advance, QueueInv,
       TypeInv
  <2>2. GoodQueue(list, startOffset + 1, insertionOffset)
    BY <2>1, OneFurther DEF QueueInv, TypeInv
  <2> QED
    BY <1>1, <2>1, <2>2 DEF QueueInv, TypeInv, PostedCount, EventsInv
<1>3. CASE ~Unfiltered(Top)
  <2>1. startOffset' = startOffset
    BY <1>3 DEF SkipNull, Advance
  <2> QED
    BY <1>1, <2>1, QueueStays
<1> QED
  BY <1>2, <1>3

\* A pass with a filter steps over what it does not ask for.
LEMMA SkipOtherQueue ==
    ASSUME QueueInv, StackInv, SkipOther
    PROVE  QueueInv' /\ LiveEntries(list') = LiveEntries(list)
<1>1. ~Unfiltered(Top)
  BY AtPosition DEF SkipOther, QueueInv
<1>2. UNCHANGED <<list, startOffset, insertionOffset, postedEvents, alive,
                  lastEvent>>
  BY <1>1 DEF SkipOther, Advance
<1> QED
  BY <1>2, QueueStays

\* A deferred delete that may not be sent is posted again: its event stays.
LEMMA HoldDeferredQueue ==
    ASSUME QueueInv, StackInv, HoldDeferred
    PROVE  /\ QueueInv' /\ LiveEntries(list') = LiveEntries(list)
           /\ Unfiltered(Top)
                  => KeepsFirst([list EXCEPT ![startOffset + 1] = Nulled(@)],
                                            list', insertionOffset)
<1>1. /\ InPass /\ IsLive(Pe) /\ Held(Pe)
      /\ UNCHANGED <<insertionOffset, postedEvents, alive, lastEvent>>
  BY DEF HoldDeferred
<1>2. CASE Unfiltered(Top)
  <2> DEFINE lst == [list EXCEPT ![startOffset + 1] = Nulled(@)]
  <2>1. /\ startOffset + 1 \in Live(list) /\ Pe = list[startOffset + 1]
        /\ Pe \in Entries /\ Pe \in LiveEntries(list)
        /\ startOffset + 1 \in 1..Len(list)
        /\ startOffset + 1 <= insertionOffset
        /\ startOffset \in Nat /\ insertionOffset \in Nat
        /\ list \in Seq(Entries) /\ Len(list) \in Nat
        /\ Position = startOffset
    BY <1>1, <1>2, AtPosition, EntriesOfList DEF QueueInv, TypeInv
  <2>2. list' = AddEvent(lst, insertionOffset, Pe)
        /\ startOffset' = startOffset + 1
    BY <1>2, <2>1 DEF HoldDeferred, Advance
  <2>3. /\ lst \in Seq(Entries) /\ Len(lst) = Len(list)
        /\ GoodQueue(lst, startOffset, insertionOffset)
        /\ ~IsLive(lst[startOffset + 1])
        /\ LiveEntries(lst) = LiveEntries(list) \ {Pe}
    BY <2>1, QueueNulled DEF QueueInv
  <2> HIDE DEF lst
  <2>4. GoodQueue(lst, startOffset + 1, insertionOffset)
    BY <2>1, <2>3, OneFurther
  <2>5. ASSUME NEW f \in LiveEntries(lst)
        PROVE  f.event # Pe.event /\ (SameKind(f, Pe) => f.event < Pe.event)
    <3>1. f \in LiveEntries(list) /\ f # Pe
      BY <2>3
    <3>2. f.event # Pe.event
      BY <2>1, <3>1 DEF QueueInv, GoodQueue, WellOrdered, LiveEntries
    <3>3. Pe.type = "DeferredDelete"
      BY <1>1 DEF Held
    <3>4. ~SameKind(f, Pe)
      BY <2>1, <3>1, <3>3 DEF SameKind, QueueInv, EventsInv
    <3> QED
      BY <3>2, <3>4
  <2>6. /\ list' \in Seq(Entries)
        /\ GoodQueue(list', startOffset + 1, insertionOffset)
        /\ LiveEntries(list') = LiveEntries(lst) \cup {Pe}
        /\ KeepsFirst(lst, list', insertionOffset)
    BY <1>1, <2>1, <2>2, <2>3, <2>4, <2>5, QueueAdded
  <2>7. LiveEntries(list') = LiveEntries(list)
    BY <2>1, <2>3, <2>6
  <2>8. PostedCount'
    <3>1. \A r \in Receivers :
              postedEvents[r] = Cardinality(Of(LiveEntries(list), r))
      BY <2>1, CountedAsEvents DEF QueueInv, PostedCount, GoodQueue
    <3>2. \A r \in Receivers :
              postedEvents'[r] = Cardinality(Of(LiveEntries(list'), r))
      BY <1>1, <2>7, <3>1
    <3> QED
      BY <2>6, <3>2, CountedAsEvents DEF PostedCount, GoodQueue
  <2>9. TypeInv'
    BY <1>1, <2>1, <2>2, <2>6 DEF QueueInv, TypeInv
  <2> QED
    BY <1>1, <2>2, <2>6, <2>7, <2>8, <2>9 DEF QueueInv, EventsInv, lst
<1>3. CASE ~Unfiltered(Top)
  <2>1. UNCHANGED <<list, startOffset>>
    BY <1>3 DEF HoldDeferred, Advance
  <2> QED
    BY <1>1, <1>3, <2>1, QueueStays
<1> QED
  BY <1>2, <1>3

\* An event is sent: it is what leaves the queue.
LEMMA DeliverQueue ==
    ASSUME QueueInv, StackInv, Deliver
    PROVE  /\ QueueInv' /\ LiveEntries(list') = LiveEntries(list) \ {Pe}
           /\ Pe \in LiveEntries(list) /\ Pe \in Entries
           /\ Unfiltered(Top) => \A k \in Live(list') :
                  k \in Live(list) /\ list'[k] = list[k]
<1> DEFINE k == Position + 1
<1>1. /\ k \in Live(list) /\ Pe = list[k] /\ Pe \in Entries
      /\ Pe \in LiveEntries(list) /\ IsLive(Pe)
      /\ k \in 1..Len(list) /\ k <= insertionOffset
      /\ list \in Seq(Entries) /\ Len(list) \in Nat
      /\ startOffset \in Nat /\ insertionOffset \in Nat
      /\ Unfiltered(Top) => k = startOffset + 1
  BY AtPosition, EntriesOfList DEF QueueInv, TypeInv, Deliver
<1>2. /\ list' = [list EXCEPT ![k] = Nulled(@)]
      /\ postedEvents' = [postedEvents EXCEPT ![Pe.receiver] = @ - 1]
      /\ UNCHANGED <<insertionOffset, alive, lastEvent>>
      /\ Unfiltered(Top) => startOffset' = startOffset + 1
      /\ ~Unfiltered(Top) => startOffset' = startOffset
  BY DEF Deliver
<1> HIDE DEF k
<1>3. /\ list' \in Seq(Entries) /\ Len(list') = Len(list)
      /\ GoodQueue(list', startOffset, insertionOffset)
      /\ \A j \in 1..Len(list) : j # k => list'[j] = list[j]
      /\ ~IsLive(list'[k])
      /\ LiveEntries(list') = LiveEntries(list) \ {Pe}
  BY <1>1, <1>2, QueueNulled DEF QueueInv
<1>4. GoodQueue(list', startOffset', insertionOffset')
  <2>1. CASE Unfiltered(Top)
    <3>1. /\ startOffset + 1 <= Len(list') /\ startOffset + 1 <= insertionOffset
          /\ ~IsLive(list'[startOffset + 1])
      BY <1>1, <1>3, <2>1
    <3>2. GoodQueue(list', startOffset + 1, insertionOffset)
      BY <1>1, <1>3, <3>1, OneFurther
    <3> QED
      BY <1>2, <2>1, <3>2
  <2>2. CASE ~Unfiltered(Top)
    BY <1>2, <1>3, <2>2
  <2> QED
    BY <2>1, <2>2
<1>5. TypeInv'
  <2>1. startOffset' \in Nat
    BY <1>1, <1>2
  <2>2. postedEvents' \in [Receivers -> Int]
    <3>1. Pe.receiver \in Receivers
      BY <1>1 DEF Entries
    <3>2. postedEvents \in [Receivers -> Int]
      BY DEF QueueInv, TypeInv
    <3> QED
      BY <1>2, <3>1, <3>2
  <2> QED
    BY <1>2, <1>3, <2>1, <2>2 DEF QueueInv, TypeInv
<1>6. EventsInv'
  BY <1>2, <1>3, FewerEvents DEF QueueInv, EventsInv
<1>7. ASSUME NEW r \in Receivers
      PROVE  postedEvents'[r] = Cardinality(Of(LiveEntries(list'), r))
  <2> DEFINE L == Of(LiveEntries(list), r)
  <2>1. postedEvents[r] = Cardinality(L) /\ IsFiniteSet(L)
        /\ Cardinality(L) \in Nat
    BY <1>1, CountLive DEF QueueInv, PostedCount, GoodQueue
  <2>2. CASE r = Pe.receiver
    <3>1. Of(LiveEntries(list'), r) = L \ {Pe} /\ Pe \in L
      BY <1>1, <1>3, <2>2 DEF Of
    <3> HIDE DEF L
    <3>2. Cardinality(L \ {Pe}) = Cardinality(L) - 1
      BY <2>1, <3>1, FS_RemoveElement
    <3> QED
      BY <1>2, <2>1, <2>2, <3>1, <3>2 DEF QueueInv, TypeInv
  <2>3. CASE r # Pe.receiver
    <3>1. Of(LiveEntries(list'), r) = L
      BY <1>3, <2>3 DEF Of
    <3> QED
      BY <1>2, <2>1, <2>3, <3>1 DEF QueueInv, TypeInv
  <2> QED
    BY <2>2, <2>3
<1>8. PostedCount'
  BY <1>3, <1>7, CountedAsEvents DEF PostedCount, GoodQueue
<1>9. \A j \in Live(list') : j \in Live(list) /\ list'[j] = list[j]
  BY <1>3 DEF Live
<1> QED
  BY <1>1, <1>3, <1>4, <1>5, <1>6, <1>8, <1>9 DEF QueueInv

\* A pass ends.
LEMMA SendDoneQueue ==
    ASSUME QueueInv, StackInv, SendDone
    PROVE  QueueInv' /\ LiveEntries(list') = LiveEntries(list)
<1>1. UNCHANGED <<postedEvents, alive, lastEvent>>
  BY DEF SendDone
<1>2. CASE Unfiltered(Top)
  <2>1. /\ list' = SubSeq(list, startOffset + 1, Len(list))
        /\ insertionOffset' = insertionOffset - startOffset
        /\ startOffset' = 0
    BY <1>2 DEF SendDone, CleanUp
  <2>2. /\ list' \in Seq(Entries) /\ GoodQueue(list', 0, insertionOffset')
        /\ insertionOffset' \in Nat /\ LiveEntries(list') = LiveEntries(list)
    BY <2>1, QueueDropped DEF QueueInv, TypeInv
  <2>3. PostedCount'
    <3>1. \A r \in Receivers :
              postedEvents[r] = Cardinality(Of(LiveEntries(list), r))
      BY CountedAsEvents DEF QueueInv, TypeInv, PostedCount, GoodQueue
    <3>2. \A r \in Receivers :
              postedEvents'[r] = Cardinality(Of(LiveEntries(list'), r))
      BY <1>1, <2>2, <3>1
    <3> QED
      BY <2>2, <3>2, CountedAsEvents DEF PostedCount, GoodQueue
  <2> QED
    BY <1>1, <2>1, <2>2, <2>3 DEF QueueInv, TypeInv, EventsInv
<1>3. CASE ~Unfiltered(Top)
  <2>1. UNCHANGED <<list, insertionOffset, startOffset>>
    BY <1>3 DEF SendDone, CleanUp
  <2> QED
    BY <1>1, <2>1, QueueStays
<1> QED
  BY <1>2, <1>3

-----------------------------------------------------------------------------
\* A step posts an event, sends one, calls the handler of a native event, or
\* does none of these.
Posting ==
    /\ stack' = stack /\ lastEvent' = lastEvent + 1 /\ alive' = alive
    /\ \E p \in Posts, level \in Nat, poster \in Nat :
          /\ p[1] \in alive
          /\ LiveEntries(list') = LiveEntries(list)
                \cup {NewEntry(p[1], p[2], p[3], level, poster)}
          /\ \/ poster = 0
             \/ InHandler /\ poster = Top.entry.event /\ level = loopLevel

Sending ==
    /\ Deliver /\ CallsHandler(stack, stack', Pe)
    /\ Pe \in LiveEntries(list) /\ UNCHANGED <<lastEvent, alive>>
    /\ LiveEntries(list') = LiveEntries(list) \ {Pe}

Waking ==
    /\ CallsHandler(stack, stack', NativeEntry)
    /\ LiveEntries(list') = LiveEntries(list) /\ UNCHANGED <<lastEvent, alive>>

\* Nothing leaves the queue but what is to be removed, or what a receiver
\* that is destroyed would have received.
Taking(r, ty) ==
    LiveEntries(list') = {e \in LiveEntries(list) : ~Wanted(e, r, ty)}

Keeping ==
    /\ Quiet(stack, stack') /\ lastEvent' = lastEvent
    /\ \/ LiveEntries(list') = LiveEntries(list) /\ alive' = alive
       \/ \E r \in Receivers \cup {AnyReceiver}, ty \in EventTypes :
             Taking(r, ty) /\ alive' = alive
       \/ \E r \in Receivers : Taking(r, AnyType) /\ alive' = alive \ {r}

\* The steps that post.
LEMMA PostStep ==
    ASSUME IInv, NEW p \in Posts, PostEvent(p[1], p[2], p[3])
    PROVE  IInv' /\ Posting
<1> DEFINE poster == IF InHandler THEN Top.entry.event ELSE 0
<1>1. p = <<p[1], p[2], p[3]>>
  BY EventLoopAssumption
<1>2. loopLevel \in Nat
  BY FitsFacts DEF IInv, StackInv
<1>3. poster \in Nat
  <2>1. InHandler => Top \in Frames /\ Top.kind = "handler"
    BY TopFacts DEF InHandler, IInv, StackInv
  <2>2. InHandler => Top.entry \in HandlerEntries
    BY <2>1, FrameFacts
  <2> QED
    BY <2>2 DEF HandlerEntries
<1>4. /\ p[1] \in alive /\ ~Compressed(p[1], p[2])
      /\ Enqueue(p[1], p[2], p[3], loopLevel, poster)
      /\ UNCHANGED <<startOffset, insertionOffset, recursion, loopLevel, alive,
                     stack>>
  BY DEF PostEvent
<1>5. poster = 0 \/ (InHandler /\ poster = Top.entry.event)
  BY DEF InHandler, TopIs
<1> HIDE DEF poster
<1>6. /\ QueueInv' /\ lastEvent' = lastEvent + 1
      /\ LiveEntries(list') = LiveEntries(list)
            \cup {NewEntry(p[1], p[2], p[3], loopLevel, poster)}
  BY <1>1, <1>2, <1>3, <1>4, PostQueue DEF IInv
<1>7. StackInv'
  BY <1>4, StackStays DEF IInv
<1> QED
  BY <1>2, <1>3, <1>4, <1>5, <1>6, <1>7 DEF IInv, Posting

\* The same from another thread: its deferred deletes have no level.
LEMMA RemotePostStep ==
    ASSUME IInv, NEW t, NEW p \in Posts, RemotePost(t, p[1], p[2], p[3])
    PROVE  IInv' /\ Posting
<1>1. p = <<p[1], p[2], p[3]>>
  BY EventLoopAssumption
<1>2. /\ p[1] \in alive /\ ~Compressed(p[1], p[2])
      /\ Enqueue(p[1], p[2], p[3], 0, 0) /\ 0 \in Nat
      /\ UNCHANGED <<startOffset, insertionOffset, recursion, loopLevel, alive,
                     stack>>
  BY DEF RemotePost
<1>3. /\ QueueInv' /\ lastEvent' = lastEvent + 1
      /\ LiveEntries(list') = LiveEntries(list)
            \cup {NewEntry(p[1], p[2], p[3], 0, 0)}
  BY <1>1, <1>2, PostQueue DEF IInv
<1>4. StackInv'
  BY <1>2, StackStays DEF IInv
<1> QED
  BY <1>2, <1>3, <1>4 DEF IInv, Posting

\* The step that sends.
LEMMA DeliverStep ==
    ASSUME IInv, Deliver
    PROVE  IInv' /\ Sending
<1>1. /\ QueueInv' /\ LiveEntries(list') = LiveEntries(list) \ {Pe}
      /\ Pe \in LiveEntries(list) /\ Pe \in Entries
  BY DeliverQueue DEF IInv
<1>2. Pe \in HandlerEntries
  BY <1>1, PrioritiesAssumption DEF Entries, HandlerEntries
<1>3. StackInv' /\ CallsHandler(stack, stack', Pe)
  BY <1>2, DeliverStack DEF IInv
<1>4. UNCHANGED <<lastEvent, alive>>
  BY DEF Deliver
<1> QED
  BY <1>1, <1>3, <1>4 DEF IInv, Sending

\* The handler of a timer or a notifier.
LEMMA NativeStep ==
    ASSUME IInv, NativeEvent
    PROVE  IInv' /\ Waking
<1>1. StackInv' /\ CallsHandler(stack, stack', NativeEntry)
  BY NativeStack DEF IInv
<1>2. UNCHANGED <<list, startOffset, insertionOffset, postedEvents, alive,
                  lastEvent>>
  BY DEF NativeEvent, queueVars
<1>3. QueueInv'
  BY <1>2, QueueStays DEF IInv
<1> QED
  BY <1>1, <1>2, <1>3 DEF IInv, Waking

\* What is called without touching the queue.
LEMMA QueueUntouched ==
    ASSUME IInv, UNCHANGED <<list, startOffset, postedEvents, alive,
                             lastEvent>>,
           insertionOffset' \in {insertionOffset, Len(list)},
           StackInv', Quiet(stack, stack')
    PROVE  IInv' /\ Keeping
<1>1. QueueInv' /\ LiveEntries(list') = LiveEntries(list)
  BY QueueStays DEF IInv
<1> QED
  BY <1>1 DEF IInv, Keeping

\* What passes and removals are asked for.
LEMMA FilterTypes ==
    /\ \A p \in Filters : /\ p[1] \in Receivers \cup {AnyReceiver}
                          /\ p[2] \in EventTypes \cup {AnyType}
    /\ \A p \in Filters : p = <<p[1], p[2]>>
    /\ \A p \in Removals : /\ p[1] \in Receivers \cup {AnyReceiver}
                           /\ p[2] \in EventTypes
  BY EventLoopAssumption DEF Removals, EventTypes

\* All other steps.
LEMMA QuietStep ==
    ASSUME IInv,
           \/ SkipNull \/ SkipOther \/ HoldDeferred \/ SendDone
           \/ Iterate \/ LeaveLoop \/ AfterSend \/ Select \/ AfterNative
           \/ \E p \in Filters : SendPostedEvents(p[1], p[2])
           \/ \E p \in Removals : RemovePostedEvents(p[1], p[2])
           \/ \E k \in 1..Len(stack) : ExitLoop(k)
           \/ \E wait \in BOOLEAN : ProcessEvents(wait)
           \/ Quit \/ AppExec \/ NestedExec \/ ReturnFromHandler
           \/ \E t \in Posters : RemoteWakeUp(t)
           \/ UNCHANGED vars
    PROVE  IInv' /\ Keeping
<1> USE DEF IInv, Keeping
<1>0. startOffset \in Nat
  BY DEF QueueInv, TypeInv
<1>1. CASE SkipNull
  <2>1. TopIs("send") /\ Advance
        /\ UNCHANGED <<loopLevel, recursion, lastEvent, alive>>
    BY <1>1 DEF SkipNull, InPass
  <2> QED
    BY <1>1, <2>1, SkipNullQueue, AdvanceStack
<1>2. CASE SkipOther
  <2>1. TopIs("send") /\ Advance
        /\ UNCHANGED <<loopLevel, recursion, lastEvent, alive>>
    BY <1>2 DEF SkipOther, InPass
  <2> QED
    BY <1>2, <2>1, SkipOtherQueue, AdvanceStack
<1>3. CASE HoldDeferred
  <2>1. TopIs("send") /\ Advance
        /\ UNCHANGED <<loopLevel, recursion, lastEvent, alive>>
    BY <1>3 DEF HoldDeferred, InPass
  <2> QED
    BY <1>3, <2>1, HoldDeferredQueue, AdvanceStack
<1>4. CASE SendDone
  BY <1>4, SendDoneQueue, SendDoneStack DEF SendDone
<1>5. ASSUME NEW wait \in BOOLEAN, EnterProcess(stack, wait)
      PROVE IInv' /\ Keeping
  <2>1. /\ UNCHANGED <<list, startOffset, postedEvents, alive, lastEvent>>
        /\ insertionOffset' \in {insertionOffset, Len(list)}
    BY <1>5, EnterSendQueue DEF EnterProcess
  <2>2. StackInv' /\ Quiet(stack, stack')
    BY <1>0, <1>5, EnterProcessStack
  <2> QED
    BY <2>1, <2>2, QueueUntouched
<1>6. CASE Iterate \/ \E wait \in BOOLEAN : ProcessEvents(wait)
  <2>1. \E wait \in BOOLEAN : EnterProcess(stack, wait)
    BY <1>6 DEF Iterate, ProcessEvents
  <2> QED
    BY <1>5, <2>1
<1>7. CASE LeaveLoop
  <2>1. /\ UNCHANGED <<list, startOffset, postedEvents, alive, lastEvent>>
        /\ insertionOffset' \in {insertionOffset, Len(list)}
    BY <1>7, EnterSendQueue DEF LeaveLoop
  <2>2. StackInv' /\ Quiet(stack, stack')
    BY <1>0, <1>7, LeaveLoopStack
  <2> QED
    BY <2>1, <2>2, QueueUntouched
<1>8. CASE AfterSend \/ Select \/ AfterNative
  <2>1. UNCHANGED <<list, startOffset, insertionOffset, postedEvents, alive,
                    lastEvent>>
    BY <1>8 DEF AfterSend, Select, AfterNative, queueVars
  <2>2. StackInv' /\ Quiet(stack, stack')
    BY <1>8, AfterSendStack, LeaveProcessStack
  <2> QED
    BY <2>1, <2>2, QueueUntouched
<1>9. ASSUME NEW p \in Filters, SendPostedEvents(p[1], p[2])
      PROVE IInv' /\ Keeping
  <2>1. /\ EnterSend(stack, p[1], p[2])
        /\ UNCHANGED <<list, startOffset, loopLevel, postedEvents, alive,
                       lastEvent>>
    BY <1>9 DEF SendPostedEvents
  <2>2. insertionOffset' \in {insertionOffset, Len(list)}
    BY <2>1, EnterSendQueue
  <2>3. /\ Fits(stack', loopLevel, recursion')
        /\ Erasing(stack) => Erasing(stack') 
        /\ Quiet(stack, stack')
    BY <1>0, <2>1, FilterTypes, EnterSendStack DEF StackInv, MayPass
  <2>4. StackInv'
    BY <2>1, <2>3 DEF StackInv, ErasingPass
  <2> QED
    BY <2>1, <2>2, <2>3, <2>4, QueueUntouched
<1>10. ASSUME NEW p \in Removals, RemovePostedEvents(p[1], p[2])
       PROVE IInv' /\ Keeping
  <2>1. /\ RemovePosted(p[1], p[2])
        /\ UNCHANGED <<startOffset, insertionOffset, recursion, loopLevel,
                       alive,
                       lastEvent, stack>>
    BY <1>10 DEF RemovePostedEvents
  <2>2. StackInv' /\ Quiet(stack, stack')
    BY <2>1, StackStays
  <2>3. QueueInv'
        /\ LiveEntries(list')
               = {e \in LiveEntries(list) : ~Wanted(e, p[1], p[2])}
    BY <2>1, FilterTypes, RemoveQueue
  <2> QED
    BY <2>1, <2>2, <2>3, FilterTypes DEF Taking
<1>11. ASSUME NEW k \in 1..Len(stack), ExitLoop(k) PROVE IInv' /\ Keeping
  <2>1. UNCHANGED <<list, startOffset, insertionOffset, postedEvents, alive,
                    lastEvent>>
    BY <1>11 DEF ExitLoop, queueVars
  <2>2. StackInv' /\ Quiet(stack, stack')
    BY <1>11, ExitLoopStack
  <2> QED
    BY <2>1, <2>2, QueueUntouched
<1>12. CASE Quit
  <2>1. UNCHANGED <<list, startOffset, insertionOffset, postedEvents, alive,
                    lastEvent>>
    BY <1>12 DEF Quit, queueVars
  <2>2. StackInv' /\ Quiet(stack, stack')
    BY <1>12, QuitStack
  <2> QED
    BY <2>1, <2>2, QueueUntouched
<1>13. CASE AppExec \/ NestedExec
  <2>1. EnterLoop
    BY <1>13 DEF AppExec, NestedExec
  <2>2. /\ RemovePosted(App, "Quit")
        /\ UNCHANGED <<startOffset, insertionOffset, alive, lastEvent>>
    BY <2>1 DEF EnterLoop
  <2>3. StackInv' /\ Quiet(stack, stack')
    BY <2>1, EnterLoopStack
  <2>4. QueueInv'
        /\ LiveEntries(list')
               = {e \in LiveEntries(list) : ~Wanted(e, App, "Quit")}
    BY <2>2, ReceiversAssumption, RemoveQueue
  <2> QED
    BY <2>2, <2>3, <2>4, ReceiversAssumption DEF Taking, EventTypes
<1>14. CASE ReturnFromHandler
  <2>1. StackInv' /\ Quiet(stack, stack')
    BY <1>14, ReturnStack
  <2>2. InHandler /\ UNCHANGED <<startOffset, insertionOffset, lastEvent>>
    BY <1>14 DEF ReturnFromHandler
  <2>3. CASE Top.entry.type = "DeferredDelete"
    <3>1. Top.entry.receiver \in Receivers
      <4>1. Top \in Frames /\ Top.kind = "handler"
        BY <2>2, TopFacts DEF InHandler, StackInv
      <4>2. Top.entry \in HandlerEntries
        BY <4>1, FrameFacts
      <4> QED
        BY <4>2 DEF HandlerEntries
    <3>2. /\ RemovePosted(Top.entry.receiver, AnyType)
          /\ alive' = alive \ {Top.entry.receiver}
      BY <1>14, <2>3 DEF ReturnFromHandler
    <3> DEFINE r == Top.entry.receiver
    <3>3. r # AnyReceiver
      BY <3>1, EventLoopAssumption
    <3> HIDE DEF r
    <3>4. QueueInv'
          /\ LiveEntries(list')
                 = {e \in LiveEntries(list) : ~Wanted(e, r, AnyType)}
      <4>1. r \in Receivers /\ RemovePosted(r, AnyType) /\ alive' = alive \ {r}
        BY <3>1, <3>2 DEF r
      <4> QED
        BY <2>2, <3>3, <4>1, RemoveQueue
    <3> QED
      BY <2>1, <2>2, <3>1, <3>2, <3>4 DEF Taking, r
  <2>4. CASE Top.entry.type # "DeferredDelete"
    <3>1. UNCHANGED <<list, postedEvents, alive>>
      BY <1>14, <2>4 DEF ReturnFromHandler
    <3> QED
      BY <2>1, <2>2, <3>1, QueueUntouched
  <2> QED
    BY <2>3, <2>4
<1>15. CASE \E t \in Posters : RemoteWakeUp(t)
  <2>1. /\ UNCHANGED <<list, startOffset, insertionOffset, postedEvents, alive,
                       lastEvent>>
        /\ UNCHANGED <<stack, loopLevel, recursion>>
    BY <1>15 DEF RemoteWakeUp, queueVars
  <2>2. StackInv' /\ Quiet(stack, stack')
    BY <2>1, StackStays
  <2> QED
    BY <2>1, <2>2, QueueUntouched
<1>16. CASE UNCHANGED vars
  <2>1. /\ UNCHANGED <<list, startOffset, insertionOffset, postedEvents, alive,
                       lastEvent>>
        /\ UNCHANGED <<stack, loopLevel, recursion>>
    BY <1>16 DEF vars, queueVars
  <2>2. StackInv' /\ Quiet(stack, stack')
    BY <2>1, StackStays
  <2> QED
    BY <2>1, <2>2, QueueUntouched
<1> HIDE DEF IInv, Keeping
<1> QED
  BY <1>1, <1>2, <1>3, <1>4, <1>6, <1>7, <1>8, <1>9, <1>10, <1>11, <1>12,
     <1>13, <1>14, <1>15, <1>16

\* Every step keeps the invariant and is of one of these sorts.
LEMMA Step ==
    ASSUME IInv, [Next]_vars
    PROVE  IInv' /\ (Posting \/ Sending \/ Waking \/ Keeping)
<1>1. CASE \E p \in Posts : PostEvent(p[1], p[2], p[3])
  BY <1>1, PostStep
<1>2. CASE \E t \in Posters, p \in Posts : RemotePost(t, p[1], p[2], p[3])
  BY <1>2, RemotePostStep
<1>3. CASE Deliver
  BY <1>3, DeliverStep
<1>4. CASE NativeEvent
  BY <1>4, NativeStep
<1>5. CASE \/ SkipNull \/ SkipOther \/ HoldDeferred \/ SendDone
           \/ Iterate \/ LeaveLoop \/ AfterSend \/ Select \/ AfterNative
           \/ \E p \in Filters : SendPostedEvents(p[1], p[2])
           \/ \E p \in Removals : RemovePostedEvents(p[1], p[2])
           \/ \E k \in 1..Len(stack) : ExitLoop(k)
           \/ \E wait \in BOOLEAN : ProcessEvents(wait)
           \/ Quit \/ AppExec \/ NestedExec \/ ReturnFromHandler
           \/ \E t \in Posters : RemoteWakeUp(t)
           \/ UNCHANGED vars
  BY <1>5, QuietStep
<1> QED
  BY <1>1, <1>2, <1>3, <1>4, <1>5 DEF Next, Delivery, User, Environment

\* The thread begins with an empty list and an empty stack.
LEMMA Start == Init => IInv
<1> SUFFICES ASSUME Init PROVE IInv
  OBVIOUS
<1>1. /\ list = <<>> /\ startOffset = 0 /\ insertionOffset = 0 /\ lastEvent = 0
      /\ postedEvents = [r \in Receivers |-> 0] /\ alive = Receivers
      /\ stack = <<>> /\ loopLevel = 0 /\ recursion = 0
  BY DEF Init
<1>2. list \in Seq(Entries) /\ Len(list) = 0 /\ Live(list) = {}
      /\ LiveEntries(list) = {}
  <2>1. list \in Seq(Entries) /\ Len(list) = 0
    BY <1>1, EmptySeq
  <2> QED
    BY <2>1 DEF Live, LiveEntries
<1>3. TypeInv
  BY <1>1, <1>2 DEF TypeInv
<1>4. GoodQueue(list, startOffset, insertionOffset)
  BY <1>1, <1>2 DEF GoodQueue, SortedFrom, WellOrdered
<1>5. PostedCount
  <2>1. \A r \in Receivers : {k \in Live(list) : list[k].receiver = r} = {}
    BY <1>2
  <2>2. Cardinality({}) = 0
    BY FS_EmptySet
  <2> QED
    BY <1>1, <2>1, <2>2 DEF PostedCount
<1>6. EventsInv
  BY <1>2 DEF EventsInv
<1>7. StackInv
  BY <1>1, FitsEmpty DEF StackInv, ErasingPass
<1> QED
  BY <1>3, <1>4, <1>5, <1>6, <1>7 DEF IInv, QueueInv

\* The list and the call stack always match: startOffset and insertionOffset
\* are positions that no pass loses, loopLevel and recursion count what is on
\* the stack (QScopedLoopLevelCounter, CleanUp), and every event is in the
\* list once, behind the older ones of its kind.
THEOREM Invariance == Spec => []IInv
<1>1. IInv /\ [Next]_vars => IInv'
  BY Step
<1> QED
  BY Start, <1>1, PTL DEF Spec

\* QObjectPrivate::postedEvents is the number of the receiver's events in the
\* list, whatever passes are nested and whatever is removed or destroyed in
\* their handlers: the shortcuts of postEvent, sendPostedEvents and
\* removePostedEvents that test it for zero skip nothing.
THEOREM CountsAreRight == Spec => []PostedCount
<1>1. IInv => PostedCount
  BY DEF IInv, QueueInv
<1> QED
  BY <1>1, Invariance, PTL

\* sendPostedEvents erases only what has been sent, removed or posted again,
\* however passes are nested, and its assertion on insertionOffset holds.
THEOREM NothingIsErased == Spec => []NothingErased
<1>1. IInv => NothingErased
  BY DEF IInv, QueueInv, GoodQueue, NothingErased
<1> QED
  BY <1>1, Invariance, PTL

\* std::upper_bound in QPostEventList::addEvent always finds a part of the
\* list that is sorted by priority.
THEOREM SearchesSortedPart == Spec => []SearchedPartSorted
<1>1. IInv => SearchedPartSorted
  BY DEF IInv, QueueInv, GoodQueue, SearchedPartSorted
<1> QED
  BY <1>1, Invariance, PTL

-----------------------------------------------------------------------------
\* A deferred delete and the handler that posted it.

\* An event is in the queue once.
LEMMA SameEvent ==
    ASSUME QueueInv, NEW e \in LiveEntries(list), NEW f \in LiveEntries(list),
           e.event = f.event
    PROVE  e = f
<1>1. PICK j \in Live(list), k \in Live(list) : e = list[j] /\ f = list[k]
  BY DEF LiveEntries
<1> QED
  BY <1>1 DEF QueueInv, GoodQueue, WellOrdered

\* What is in the queue and what is on the stack has numbers to compare.
LEMMA Numbers ==
    ASSUME IInv
    PROVE  /\ lastEvent \in Nat /\ loopLevel \in Nat /\ Len(stack) \in Nat
           /\ loopLevel = Deep(stack, Levels, Len(stack))
           /\ \A e \in LiveEntries(list) :
                 /\ e \in Entries /\ e.event \in Nat /\ e.level \in Nat
                 /\ e.event # 0 /\ e.event <= lastEvent
           /\ \A k \in Running(stack) :
                 /\ k \in 1..Len(stack) /\ stack[k].kind = "handler"
                 /\ stack[k].entry.event \in Nat
           /\ InHandler
                  => /\ Len(stack) \in Running(stack) /\ Top = stack[Len(stack)]
                           /\ loopLevel > 0
           /\ \A k \in 1..Len(stack) : Deep(stack, Levels, k) <= loopLevel
                                       /\ Deep(stack, Levels, k) \in Nat
<1>1. /\ lastEvent \in Nat /\ loopLevel \in Nat /\ Len(stack) \in Nat
      /\ loopLevel = Deep(stack, Levels, Len(stack))
      /\ \A k \in 1..Len(stack) : stack[k] \in Frames
  BY FitsFacts DEF IInv, QueueInv, TypeInv, StackInv, Fits
<1>2. \A e \in LiveEntries(list) :
          /\ e \in Entries /\ e.event \in Nat /\ e.level \in Nat
          /\ e.event # 0 /\ e.event <= lastEvent
  <2>1. \A e \in Entries : e.level \in Nat
    BY DEF Entries
  <2> QED
    BY <2>1, Positions DEF IInv, QueueInv, TypeInv, EventsInv
<1>3. \A k \in Running(stack) :
          /\ k \in 1..Len(stack) /\ stack[k].kind = "handler"
          /\ stack[k].entry.event \in Nat
  <2> TAKE k \in Running(stack)
  <2>1. k \in 1..Len(stack) /\ stack[k].kind = "handler"
    BY DEF Running
  <2>2. stack[k].entry \in HandlerEntries
    BY <1>1, <2>1, FrameFacts
  <2> QED
    BY <2>1, <2>2 DEF HandlerEntries
<1>4. \A k \in 1..Len(stack) : Deep(stack, Levels, k) <= loopLevel
                               /\ Deep(stack, Levels, k) \in Nat
  <2> TAKE k \in 1..Len(stack)
  <2>1. k \in 0..Len(stack) /\ k \in Nat
    BY <1>1
  <2> QED
    BY <1>1, <2>1, DeepFacts
<1>5. ASSUME InHandler
      PROVE  /\ Len(stack) \in Running(stack) /\ Top = stack[Len(stack)]
             /\ loopLevel > 0
  <2>1. /\ Len(stack) \in 1..Len(stack) /\ Top = stack[Len(stack)]
        /\ Top.kind = "handler"
    BY <1>5, TopFacts DEF InHandler, IInv, StackInv
  <2>2. Top.kind \in Levels
    BY <2>1 DEF Levels
  <2>3. loopLevel > 0
    BY <1>1, <2>1, <2>2, DeepFacts
  <2> QED
    BY <2>1, <2>3 DEF Running
<1> QED
  BY <1>1, <1>2, <1>3, <1>4, <1>5

\* A new event has a name that no handler carries.
LEMMA PostingRuns ==
    ASSUME IInv, DInv, Posting
    PROVE  DInv'
<1>1. PICK p \in Posts, level \in Nat, poster \in Nat :
          /\ LiveEntries(list') = LiveEntries(list)
                \cup {NewEntry(p[1], p[2], p[3], level, poster)}
          /\ \/ poster = 0
             \/ InHandler /\ poster = Top.entry.event /\ level = loopLevel
  BY DEF Posting
<1> DEFINE e == NewEntry(p[1], p[2], p[3], level, poster)
<1>2. stack' = stack /\ lastEvent' = lastEvent + 1
  BY DEF Posting
<1>3. /\ e.event = lastEvent + 1 /\ e.poster = poster
      /\ e.type = "DeferredDelete" => e.level = level
  BY DEF NewEntry
<1>4. LiveEntries(list') = LiveEntries(list) \cup {e}
  BY <1>1
<1> HIDE DEF e
<1>5. RunningInv'
  BY <1>2, <1>3, <1>4, Numbers DEF DInv, RunningInv
<1>6. poster <= lastEvent /\ \A f \in LiveEntries(list) : poster # f.event
  BY <1>1, Numbers DEF DInv, RunningInv
<1>7. ASSUME NEW f \in LiveEntries(list'), f.type = "DeferredDelete"
      PROVE  /\ \A g \in LiveEntries(list') : f.poster # g.event
             /\ f.poster <= lastEvent'
             /\ \A j \in Running(stack') :
                    f.poster = stack'[j].entry.event =>
                        \/ f.poster = 0
                        \/ f.level \in 1..Deep(stack', Levels, j)
  <2>1. CASE f \in LiveEntries(list)
    <3>1. /\ \A g \in LiveEntries(list) : f.poster # g.event
          /\ f.poster <= lastEvent /\ f.poster \in Nat
          /\ \A j \in Running(stack) :
                 f.poster = stack[j].entry.event =>
                     \/ f.poster = 0
                     \/ f.level \in 1..Deep(stack, Levels, j)
      <4>1. f.poster \in Nat
        BY <2>1, Numbers DEF Entries
      <4> QED
        BY <1>7, <2>1, <4>1 DEF DInv, PosterInv
    <3> QED
      BY <1>2, <1>3, <1>4, <3>1, Numbers
  <2>2. CASE f = e
    <3>1. ASSUME NEW j \in Running(stack), poster = stack[j].entry.event,
                 poster # 0
          PROVE  level \in 1..Deep(stack, Levels, j)
      <4>1. InHandler /\ poster = Top.entry.event /\ level = loopLevel
        BY <1>1, <3>1
      <4>2. j = Len(stack)
        BY <3>1, <4>1, Numbers DEF DInv, RunningInv
      <4> QED
        BY <4>1, <4>2, Numbers
    <3> QED
      BY <1>2, <1>3, <1>4, <1>6, <1>7, <2>2, <3>1, Numbers
  <2> QED
    BY <1>4, <2>1, <2>2
<1>8. NotDeletedUnderPoster'
  BY <1>2 DEF DInv, NotDeletedUnderPoster
<1> QED
  BY <1>5, <1>7, <1>8 DEF DInv, PosterInv

\* No handler is called: those that were running have what they had.
LEMMA KeepingRuns ==
    ASSUME IInv, DInv, Keeping
    PROVE  DInv'
<1>1. PICK n \in 0..Len(stack) :
          /\ n <= Len(stack')
          /\ \A k \in 1..n : Alike(stack[k], stack'[k])
          /\ \A k \in (n + 1)..Len(stack') : stack'[k].kind # "handler"
  BY DEF Keeping, Quiet, MayPush
<1>2. lastEvent' = lastEvent /\ LiveEntries(list') \subseteq LiveEntries(list)
  BY DEF Keeping, Taking
<1>3. Len(stack) \in Nat /\ n \in Nat
  BY <1>1, Numbers
<1>4. ASSUME NEW k \in 1..Len(stack'), stack'[k].kind = "handler"
      PROVE  /\ k \in 1..n /\ k \in Running(stack)
             /\ stack'[k].entry = stack[k].entry
             /\ Deep(stack', Levels, k) = Deep(stack, Levels, k)
  <2>1. k \in 1..n
    BY <1>1, <1>3, <1>4
  <2>2. k \in Running(stack) /\ stack'[k].entry = stack[k].entry
    BY <1>1, <1>3, <1>4, <2>1 DEF Running, Alike
  <2>3. \A i \in 1..k : stack'[i].kind = stack[i].kind
    BY <1>1, <1>3, <2>1 DEF Alike
  <2>4. k \in Nat
    BY <1>3, <2>1
  <2> QED
    BY <2>1, <2>2, <2>3, <2>4, DeepSame
<1>5. RunningInv'
  BY <1>2, <1>4 DEF DInv, RunningInv, Running
<1>6. PosterInv'
  BY <1>2, <1>4 DEF DInv, PosterInv, Running
<1>7. NotDeletedUnderPoster'
  <2> SUFFICES ASSUME NEW j \in 1..Len(stack'), NEW k \in 1..Len(stack'),
                      j + 1 < k,
                      stack'[j].kind = "handler", stack'[k].kind = "handler",
                      stack'[k].entry.type = "DeferredDelete",
                      stack'[k - 1].kind = "send",
                      stack'[k - 1].type # "DeferredDelete"
               PROVE  \/ stack'[k].entry.poster = 0
                      \/ stack'[k].entry.poster # stack'[j].entry.event
    BY DEF NotDeletedUnderPoster
  <2>1. /\ j \in 1..n /\ k \in 1..n /\ k - 1 \in 1..n
        /\ stack'[j].entry = stack[j].entry /\ stack'[k].entry = stack[k].entry
        /\ stack[j].kind = "handler" /\ stack[k].kind = "handler"
    BY <1>3, <1>4 DEF Running
  <2>2. stack[k - 1].kind = "send" /\ stack[k - 1].type # "DeferredDelete"
    BY <1>1, <2>1 DEF Alike
  <2>3. j \in 1..Len(stack) /\ k \in 1..Len(stack)
    BY <1>3, <2>1
  <2> QED
    BY <2>1, <2>2, <2>3 DEF DInv, NotDeletedUnderPoster
<1> QED
  BY <1>5, <1>6, <1>7 DEF DInv

\* The handlers below a new one are those that were running.
LEMMA CalledFrames ==
    ASSUME IInv, NEW entry, CallsHandler(stack, stack', entry)
    PROVE  /\ Len(stack') = Len(stack) + 1 /\ Len(stack) \in Nat
           /\ stack'[Len(stack')].entry = entry
           /\ stack'[Len(stack')].kind = "handler"
           /\ \A k \in 1..Len(stack') : k \in 1..Len(stack) \/ k = Len(stack')
           /\ \A k \in 1..Len(stack) :
                 /\ Alike(stack[k], stack'[k])
                 /\ Deep(stack', Levels, k) = Deep(stack, Levels, k)
           /\ \A k \in Running(stack') :
                 \/ k = Len(stack')
                 \/ /\ k \in Running(stack) /\ k # Len(stack')
                    /\ stack'[k].entry = stack[k].entry
<1>1. /\ Len(stack') = Len(stack) + 1 /\ Len(stack) \in Nat
      /\ \A k \in 1..Len(stack) : Alike(stack[k], stack'[k])
      /\ stack'[Len(stack')] = Handler(entry)
  BY Numbers DEF CallsHandler
<1>2. \A k \in 1..Len(stack') : k \in 1..Len(stack) \/ k = Len(stack')
  BY <1>1
<1>3. \A k \in 1..Len(stack) : Deep(stack', Levels, k) = Deep(stack, Levels, k)
  <2> TAKE k \in 1..Len(stack)
  <2>1. k \in Nat /\ \A i \in 1..k : stack'[i].kind = stack[i].kind
    BY <1>1 DEF Alike
  <2> QED
    BY <2>1, DeepSame
<1>4. /\ stack'[Len(stack')].entry = entry
      /\ stack'[Len(stack')].kind = "handler"
  BY <1>1 DEF Handler
<1>5. \A k \in Running(stack') :
          \/ k = Len(stack')
          \/ /\ k \in Running(stack) /\ k # Len(stack')
             /\ stack'[k].entry = stack[k].entry
  BY <1>1, <1>2 DEF Running, Alike
<1> QED
  BY <1>1, <1>2, <1>3, <1>4, <1>5

\* A handler is called for an event that has left the queue, and that is no
\* deferred delete of a handler below.
LEMMA CallingRuns ==
    ASSUME IInv, DInv, NEW entry, CallsHandler(stack, stack', entry),
           entry.event \in Nat, entry.event <= lastEvent,
           lastEvent' = lastEvent,
           LiveEntries(list') \subseteq LiveEntries(list),
           \A k \in Running(stack) : entry.event = 0
                                     \/ entry.event # stack[k].entry.event,
           \A f \in LiveEntries(list') : f.event # entry.event,
           \A f \in LiveEntries(list') :
               f.type = "DeferredDelete" /\ f.poster = entry.event
                   => f.poster = 0,
           \A j \in Running(stack) :
               /\ TopIs("send") /\ Top.type # "DeferredDelete"
               /\ entry.type = "DeferredDelete"
               => entry.poster = 0 \/ entry.poster # stack[j].entry.event
    PROVE  DInv'
<1> DEFINE l == Len(stack')
<1>1. /\ l = Len(stack) + 1 /\ Len(stack) \in Nat
      /\ stack'[l].entry = entry /\ stack'[l].kind = "handler"
      /\ \A k \in 1..l : k \in 1..Len(stack) \/ k = l
      /\ \A k \in 1..Len(stack) :
            /\ Alike(stack[k], stack'[k])
            /\ Deep(stack', Levels, k) = Deep(stack, Levels, k)
      /\ \A k \in Running(stack') :
            \/ k = l
            \/ k \in Running(stack) /\ k # l /\ stack'[k].entry = stack[k].entry
  BY CalledFrames
<1> HIDE DEF l
<1>2. RunningInv'
  <2>1. \A k \in Running(stack') : stack'[k].entry.event <= lastEvent'
    BY <1>1 DEF DInv, RunningInv
  <2>2. \A j, k \in Running(stack') :
            stack'[j].entry.event = stack'[k].entry.event
                => j = k \/ stack'[j].entry.event = 0
    BY <1>1 DEF DInv, RunningInv
  <2>3. \A k \in Running(stack'), e \in LiveEntries(list') :
            e.event # stack'[k].entry.event
    BY <1>1 DEF DInv, RunningInv
  <2> QED
    BY <2>1, <2>2, <2>3 DEF RunningInv
<1>3. PosterInv'
  <2> SUFFICES ASSUME NEW e \in LiveEntries(list'), e.type = "DeferredDelete"
               PROVE  /\ \A f \in LiveEntries(list') : e.poster # f.event
                      /\ e.poster <= lastEvent'
                      /\ \A j \in Running(stack') :
                             e.poster = stack'[j].entry.event =>
                                 \/ e.poster = 0
                                 \/ e.level \in 1..Deep(stack', Levels, j)
    BY DEF PosterInv
  <2>1. /\ \A f \in LiveEntries(list) : e.poster # f.event
        /\ e.poster <= lastEvent
        /\ \A j \in Running(stack) :
               e.poster = stack[j].entry.event =>
                   \/ e.poster = 0
                   \/ e.level \in 1..Deep(stack, Levels, j)
    BY DEF DInv, PosterInv
  <2>2. \A j \in Running(stack') :
            e.poster = stack'[j].entry.event =>
                \/ e.poster = 0
                \/ e.level \in 1..Deep(stack', Levels, j)
    BY <1>1, <2>1 DEF Running
  <2> QED
    BY <2>1, <2>2
<1>4. NotDeletedUnderPoster'
  <2> SUFFICES ASSUME NEW j \in 1..l, NEW k \in 1..l, j + 1 < k,
                      stack'[j].kind = "handler", stack'[k].kind = "handler",
                      stack'[k].entry.type = "DeferredDelete",
                      stack'[k - 1].kind = "send",
                      stack'[k - 1].type # "DeferredDelete"
               PROVE  \/ stack'[k].entry.poster = 0
                      \/ stack'[k].entry.poster # stack'[j].entry.event
    BY DEF NotDeletedUnderPoster, l
  <2>1. /\ j \in 1..Len(stack) /\ k - 1 \in 1..Len(stack)
        /\ stack[j].kind = "handler" /\ stack'[j].entry = stack[j].entry
        /\ stack[k - 1].kind = "send" /\ stack[k - 1].type # "DeferredDelete"
    <3>1. j \in 1..Len(stack) /\ k - 1 \in 1..Len(stack)
      BY <1>1
    <3> QED
      BY <1>1, <3>1 DEF Alike
  <2>2. CASE k \in 1..Len(stack)
    <3>1. stack[k].kind = "handler" /\ stack'[k].entry = stack[k].entry
      BY <1>1, <2>2 DEF Alike
    <3> QED
      BY <2>1, <2>2, <3>1 DEF DInv, NotDeletedUnderPoster
  <2>3. CASE k = l
    <3>1. k - 1 = Len(stack) /\ stack # <<>>
      <4>1. stack = <<>> => Len(stack) = 0
        BY FitsFacts DEF IInv, StackInv
      <4> QED
        BY <1>1, <2>1, <2>3, <4>1
    <3>2. TopIs("send") /\ Top.type # "DeferredDelete" /\ j \in Running(stack)
      BY <2>1, <3>1 DEF TopIs, Top, Running
    <3> QED
      BY <1>1, <2>1, <2>3, <3>2
  <2> QED
    BY <1>1, <2>2, <2>3
<1> QED
  BY <1>2, <1>3, <1>4 DEF DInv

\* The event of a timer or a notifier was not posted.
LEMMA WakingRuns ==
    ASSUME IInv, DInv, Waking
    PROVE  DInv'
<1>1. /\ CallsHandler(stack, stack', NativeEntry) /\ lastEvent' = lastEvent
      /\ LiveEntries(list') = LiveEntries(list)
  BY DEF Waking
<1>2. NativeEntry.event = 0 /\ NativeEntry.type = "Plain"
  BY DEF NativeEntry
<1> QED
  BY <1>1, <1>2, Numbers, CallingRuns

\* The level of a deferred delete is at least that of the handler that posted
\* it, and a pass without filters sends it at a smaller loopLevel only.
LEMMA SendingRuns ==
    ASSUME IInv, DInv, Sending
    PROVE  DInv'
<1>1. /\ CallsHandler(stack, stack', Pe) /\ lastEvent' = lastEvent
      /\ Pe \in LiveEntries(list)
      /\ LiveEntries(list') = LiveEntries(list) \ {Pe}
      /\ ~Held(Pe)
  BY DEF Sending, Deliver
<1>2. /\ Pe.event \in Nat /\ Pe.event <= lastEvent /\ Pe.level \in Nat
      /\ \A k \in Running(stack) : Pe.event # stack[k].entry.event
  BY <1>1, Numbers DEF DInv, RunningInv
<1>3. \A f \in LiveEntries(list') : f.event # Pe.event
  BY <1>1, SameEvent DEF IInv
<1>4. \A f \in LiveEntries(list') :
          f.type = "DeferredDelete" => f.poster # Pe.event
  BY <1>1 DEF DInv, PosterInv
<1>5. ASSUME NEW j \in Running(stack), Top.type # "DeferredDelete",
             Pe.type = "DeferredDelete", Pe.poster = stack[j].entry.event
      PROVE  Pe.poster = 0
  <2>1. Pe.poster = 0 \/ Pe.level \in 1..Deep(stack, Levels, j)
    BY <1>1, <1>5 DEF DInv, PosterInv
  <2>2. /\ loopLevel \in Nat /\ Deep(stack, Levels, j) \in Nat
        /\ Deep(stack, Levels, j) <= loopLevel
    BY Numbers
  <2> QED
    BY <1>1, <1>2, <1>5, <2>1, <2>2 DEF Held, AllowDeferredDelete
<1> QED
  BY <1>1, <1>2, <1>3, <1>4, <1>5, CallingRuns

\* QObject::deleteLater: "control must return to the event loop from which
\* deleteLater() was called": no pass sends a deferred delete while the handler
\* that posted it is on the stack, but one asked for it by type.
THEOREM NoDeleteUnderPoster == Spec => []NotDeletedUnderPoster
<1>1. Init => DInv
  <2> SUFFICES ASSUME Init PROVE DInv
    OBVIOUS
  <2>1. Len(stack) = 0 /\ LiveEntries(list) = {}
    <3>1. stack = <<>> /\ list = <<>> /\ Len(<<>>) = 0
      BY EmptySeq DEF Init
    <3> QED
      BY <3>1 DEF LiveEntries, Live
  <2> QED
    BY <2>1 DEF DInv, RunningInv, Running, PosterInv, NotDeletedUnderPoster
<1>2. IInv /\ DInv /\ [Next]_vars => DInv'
  BY Step, PostingRuns, SendingRuns, WakingRuns, KeepingRuns
<1>3. DInv => NotDeletedUnderPoster
  BY DEF DInv
<1> QED
  BY <1>1, <1>2, <1>3, Invariance, PTL DEF Spec

-----------------------------------------------------------------------------
\* Leaving loops.

\* The exit of the innermost loop is known to the dispatcher.
ExitKnown(s, known) ==
    \A k \in 1..Len(s) :
        /\ s[k].kind = "exec" /\ s[k].exit
        /\ \A j \in (k + 1)..Len(s) : s[j].kind # "exec"
        => known

\* Only the innermost call of processEvents is in select, and it is not
\* entered by one that is interrupted.
IsSelect(f) == f.kind = "process" /\ f.pc = "select"
NoSelect(s) == \A k \in 1..Len(s) : ~IsSelect(s[k])
SelectsOnTop(s, known) ==
    \A k \in 1..Len(s) : IsSelect(s[k]) => k = Len(s) /\ ~known

ExitInv == ExitKnown(stack, interrupt) /\ SelectsOnTop(stack, interrupt)

\* A call, seen from the loops and from select().
LEMMA PushedFrame ==
    ASSUME NEW s \in Seq(Frames), NEW f \in Frames
    PROVE  LET t == Append(s, f)
           IN /\ t \in Seq(Frames) /\ Len(s) \in Nat /\ Len(t) = Len(s) + 1
              /\ t # <<>> /\ SubSeq(t, 1, Len(t) - 1) = s
              /\ t[Len(s) + 1] = f /\ \A k \in 1..Len(s) : t[k] = s[k]
              /\ ExitKnown(s, TRUE)
              /\ \A known : f.kind # "exec" /\ ExitKnown(s, known)
                                => ExitKnown(t, known)
              /\ \A known : f.kind = "exec" /\ ~f.exit => ExitKnown(t, known)
              /\ NoSelect(s) /\ ~IsSelect(f) => NoSelect(t)
              /\ \A known : NoSelect(s) => SelectsOnTop(s, known)
              /\ NoSelect(s) => SelectsOnTop(t, FALSE)
<1> DEFINE t == Append(s, f)
<1>1. Fits(s, Deep(s, Levels, Len(s)), Deep(s, {"send"}, Len(s)))
  BY DEF Fits
<1>2. /\ t \in Seq(Frames) /\ Len(s) \in Nat /\ Len(t) = Len(s) + 1
      /\ t # <<>>
      /\ t[Len(s) + 1] = f /\ \A k \in 1..Len(s) : t[k] = s[k]
  BY <1>1, FitsFacts, FitsPush DEF Fits
<1>3. SubSeq(t, 1, Len(t) - 1) = s
  BY <1>2, AppendProperties
<1> HIDE DEF t
<1>4. \A k \in 1..Len(t) : k \in 1..Len(s) \/ k = Len(s) + 1
  BY <1>2
<1>5. ExitKnown(s, TRUE)
  BY DEF ExitKnown
<1>6. ASSUME NEW known, f.kind # "exec", ExitKnown(s, known)
      PROVE  ExitKnown(t, known)
  BY <1>2, <1>4, <1>6 DEF ExitKnown
<1>7. ASSUME NEW known, f.kind = "exec", ~f.exit
      PROVE  ExitKnown(t, known)
  <2>1. \A k \in 1..Len(s) : Len(s) + 1 \in (k + 1)..Len(t)
    BY <1>2
  <2> QED
    BY <1>2, <1>4, <1>7, <2>1 DEF ExitKnown
<1>8. /\ NoSelect(s) /\ ~IsSelect(f) => NoSelect(t)
      /\ \A known : NoSelect(s) => SelectsOnTop(s, known)
      /\ NoSelect(s) => SelectsOnTop(t, FALSE)
  BY <1>2, <1>4 DEF NoSelect, SelectsOnTop
<1> QED
  BY <1>2, <1>3, <1>5, <1>6, <1>7, <1>8 DEF t

\* A return.
LEMMA PoppedFrame ==
    ASSUME NEW s \in Seq(Frames), s # <<>>
    PROVE  LET t == SubSeq(s, 1, Len(s) - 1)
           IN /\ t \in Seq(Frames) /\ Len(s) \in Nat \ {0}
              /\ Len(t) = Len(s) - 1
              /\ \A k \in 1..Len(t) : t[k] = s[k]
              /\ s[Len(s)] \in Frames
              /\ \A known : s[Len(s)].kind # "exec" /\ ExitKnown(s, known)
                                => ExitKnown(t, known)
              /\ \A known : SelectsOnTop(s, known) => NoSelect(t)
              /\ \A known :
                     SelectsOnTop(s, known) /\ ~IsSelect(s[Len(s)])
                         => NoSelect(s)
<1> DEFINE t == SubSeq(s, 1, Len(s) - 1)
<1>1. Fits(s, Deep(s, Levels, Len(s)), Deep(s, {"send"}, Len(s)))
  BY DEF Fits
<1>2. /\ t \in Seq(Frames) /\ Len(t) = Len(s) - 1
      /\ \A k \in 1..Len(t) : t[k] = s[k]
  BY <1>1, FitsPop DEF Fits
<1>3. /\ Len(s) \in Nat \ {0} /\ s[Len(s)] \in Frames
      /\ \A k \in 1..Len(s) : k \in 1..Len(t) \/ k = Len(s)
  <2>1. Len(s) \in Nat \ {0} /\ Len(s) \in 1..Len(s)
    BY EmptySeq
  <2> QED
    BY <1>1, <1>2, <2>1, FitsFacts
<1> HIDE DEF t
<1>4. ASSUME NEW known, s[Len(s)].kind # "exec", ExitKnown(s, known)
      PROVE  ExitKnown(t, known)
  <2> SUFFICES ASSUME NEW k \in 1..Len(t), t[k].kind = "exec", t[k].exit,
                      \A j \in (k + 1)..Len(t) : t[j].kind # "exec"
               PROVE  known
    BY DEF ExitKnown
  <2>1. k \in 1..Len(s) /\ s[k] = t[k]
    BY <1>2, <1>3
  <2>2. \A j \in (k + 1)..Len(s) : j = Len(s) \/ j \in (k + 1)..Len(t)
    BY <1>2, <1>3
  <2>3. \A j \in (k + 1)..Len(t) : s[j] = t[j]
    BY <1>2
  <2>4. \A j \in (k + 1)..Len(s) : s[j].kind # "exec"
    BY <1>4, <2>2, <2>3
  <2> QED
    BY <1>4, <2>1, <2>4 DEF ExitKnown
<1>5. \A known : SelectsOnTop(s, known) => NoSelect(t)
  BY <1>2, <1>3 DEF NoSelect, SelectsOnTop
<1>6. \A known : SelectsOnTop(s, known) /\ ~IsSelect(s[Len(s)]) => NoSelect(s)
  BY <1>3 DEF NoSelect, SelectsOnTop
<1> QED
  BY <1>2, <1>3, <1>4, <1>5, <1>6 DEF t

\* The frame on top gives way to another one.
LEMMA OtherTop ==
    ASSUME stack \in Seq(Frames), stack # <<>>, NEW f \in Frames, ExitInv,
           stack[Len(stack)].kind # "exec", f.kind # "exec"
    PROVE  LET t == Append(SubSeq(stack, 1, Len(stack) - 1), f)
           IN /\ t \in Seq(Frames) /\ Len(t) = Len(stack) /\ t[Len(t)] = f
              /\ ExitKnown(t, interrupt)
              /\ ~IsSelect(f) => NoSelect(t)
              /\ ~interrupt => SelectsOnTop(t, interrupt)
<1> DEFINE u == SubSeq(stack, 1, Len(stack) - 1)
           t == Append(u, f)
<1>1. /\ u \in Seq(Frames) /\ Len(u) = Len(stack) - 1
      /\ Len(stack) \in Nat \ {0}
      /\ ExitKnown(u, interrupt) /\ NoSelect(u)
  BY PoppedFrame DEF ExitInv
<1> HIDE DEF u
<1>2. /\ t \in Seq(Frames) /\ Len(t) = Len(u) + 1 /\ t[Len(u) + 1] = f
      /\ ExitKnown(t, interrupt) /\ (~IsSelect(f) => NoSelect(t))
      /\ \A k \in 1..Len(u) : t[k] = u[k]
  BY <1>1, PushedFrame
<1> HIDE DEF t
<1>3. ~interrupt => SelectsOnTop(t, interrupt)
  BY <1>1, <1>2 DEF NoSelect, SelectsOnTop
<1> QED
  BY <1>1, <1>2, <1>3 DEF t, u

\* sendPostedEvents changes nothing of this.
LEMMA EnterSendExits ==
    ASSUME NEW s \in Seq(Frames), startOffset \in Nat,
           NEW r \in Receivers \cup {AnyReceiver},
           NEW ty \in EventTypes \cup {AnyType},
           EnterSend(s, r, ty), NoSelect(s)
    PROVE  /\ NoSelect(stack') /\ SelectsOnTop(stack', interrupt')
           /\ ExitKnown(s, interrupt') => ExitKnown(stack', interrupt')
<1> DEFINE f == Send(r, ty, startOffset)
           t == Append(s, f)
<1>1. f \in Frames /\ f.kind = "send"
  BY DEF Send, Frames
<1>2. stack' \in {s, t}
  BY DEF EnterSend
<1> HIDE DEF f
<1>3. ~IsSelect(f)
  BY <1>1 DEF IsSelect
<1>4. /\ \A known :
             f.kind # "exec" /\ ExitKnown(s, known) => ExitKnown(t, known)
      /\ NoSelect(t) /\ t \in Seq(Frames)
  BY <1>1, <1>3, PushedFrame
<1> HIDE DEF t
<1>5. \A u : NoSelect(u) => \A known : SelectsOnTop(u, known)
  BY DEF NoSelect, SelectsOnTop
<1>6. ExitKnown(s, interrupt') => ExitKnown(t, interrupt')
  BY <1>1, <1>4
<1> QED
  BY <1>2, <1>4, <1>5, <1>6

\* QCoreApplication::exit tells all loops, and the dispatcher if there is one.
LEMMA ExitedExits ==
    ASSUME NEW s \in Seq(Frames), NEW known
    PROVE  /\ NoSelect(s) => SelectsOnTop(Exited(s), known)
           /\ (Looping(s) => known) => ExitKnown(Exited(s), known)
<1>1. Fits(s, Deep(s, Levels, Len(s)), Deep(s, {"send"}, Len(s)))
  BY DEF Fits
<1>2. /\ Len(Exited(s)) = Len(s)
      /\ \A k \in 1..Len(s) : /\ Exited(s)[k].kind = s[k].kind
                              /\ s[k].kind # "exec" => Exited(s)[k] = s[k]
  BY <1>1, ExitedStack DEF Alike
<1>3. NoSelect(s) => SelectsOnTop(Exited(s), known)
  BY <1>2 DEF NoSelect, SelectsOnTop, IsSelect
<1>4. (Looping(s) => known) => ExitKnown(Exited(s), known)
  BY <1>2 DEF Looping, ExitKnown
<1> QED
  BY <1>3, <1>4

\* What a call made by a handler, or by the thread before it has a loop, finds.
LEMMA UserFinds ==
    ASSUME IInv, ExitInv, UserCode
    PROVE  NoSelect(stack) /\ stack \in Seq(Frames)
<1>1. stack \in Seq(Frames)
  BY DEF IInv, StackInv, Fits
<1>2. CASE stack = <<>>
  BY <1>2, EmptySeq DEF NoSelect
<1>3. CASE InHandler
  <2>1. stack # <<>> /\ Top.kind = "handler" /\ Top = stack[Len(stack)]
    BY <1>3 DEF InHandler, TopIs, Top
  <2>2. ~IsSelect(stack[Len(stack)])
    BY <2>1 DEF IsSelect
  <2> QED
    BY <1>1, <2>1, <2>2, PoppedFrame DEF ExitInv
<1> QED
  BY <1>1, <1>2, <1>3 DEF UserCode

\* interrupt is reset only by a loop that has not been told to exit.
LEMMA ExitStep ==
    ASSUME IInv, ExitInv, [Next]_vars, "processEvents" \notin Calls
    PROVE  ExitInv'
<1>0. stack \in Seq(Frames) /\ startOffset \in Nat
  BY DEF IInv, StackInv, Fits, QueueInv, TypeInv
<1>a. \A s, known : NoSelect(s) => SelectsOnTop(s, known)
  BY DEF NoSelect, SelectsOnTop
<1>b. AnyReceiver \in Receivers \cup {AnyReceiver}
      /\ AnyType \in EventTypes \cup {AnyType}
      /\ "DeferredDelete" \in EventTypes \cup {AnyType}
  BY DEF EventTypes
<1>1. CASE UNCHANGED <<stack, interrupt>>
  BY <1>1 DEF ExitInv
<1>2. ASSUME NEW k \in 1..Len(stack), ExitLoop(k) PROVE ExitInv'
  <2>1. /\ stack' = [stack EXCEPT ![k].exit = TRUE] /\ interrupt' = TRUE
        /\ stack[k].kind = "exec" /\ UserCode
    BY <1>2 DEF ExitLoop, UserCode
  <2>2. NoSelect(stack)
    BY <2>1, UserFinds
  <2>3. /\ Len(stack') = Len(stack)
        /\ \A j \in 1..Len(stack) : IsSelect(stack'[j]) => IsSelect(stack[j])
    <3>1. DOMAIN stack = 1..Len(stack) /\ stack \in [1..Len(stack) -> Frames]
      BY <1>0, LenProperties
    <3>2. [stack[k] EXCEPT !.exit = TRUE] \in Frames
      BY <1>0, <2>1, <3>1, FrameFacts
    <3>3. stack' = [stack EXCEPT ![k] = [stack[k] EXCEPT !.exit = TRUE]]
      BY <2>1
    <3>4. stack' \in [1..Len(stack) -> Frames]
      BY <3>1, <3>2, <3>3
    <3>5. stack' \in Seq(Frames) /\ Len(stack') = Len(stack)
      <4>1. Len(stack) \in Nat
        BY <1>0, LenProperties
      <4>2. stack' \in Seq(Frames)
        BY <3>4, <4>1, IsASeq
      <4> QED
        BY <3>4, <4>1, <4>2, LenProperties
    <3>6. \A j \in 1..Len(stack) : j # k => stack'[j] = stack[j]
      BY <3>1, <3>3
    <3>7. ~IsSelect(stack'[k])
      <4>1. stack[k] \in Frames
        BY <3>1
      <4>2. Alike(stack[k], [stack[k] EXCEPT !.exit = TRUE])
        BY <2>1, <4>1, FrameFacts
      <4>3. stack'[k] = [stack[k] EXCEPT !.exit = TRUE]
        BY <3>1, <3>3
      <4> QED
        BY <2>1, <4>2, <4>3 DEF Alike, IsSelect
    <3> QED
      BY <3>5, <3>6, <3>7
  <2>4. NoSelect(stack')
    BY <2>2, <2>3 DEF NoSelect
  <2>5. ExitKnown(stack', TRUE)
    BY DEF ExitKnown
  <2> QED
    BY <1>a, <2>1, <2>4, <2>5 DEF ExitInv
<1>3. CASE Quit
  <2>1. /\ stack' = Exited(stack) /\ interrupt' = (interrupt \/ Looping(stack))
        /\ UserCode
    BY <1>3 DEF Quit, ExitAll
  <2>2. Looping(stack) => interrupt'
    BY <2>1
  <2> QED
    BY <2>1, <2>2, UserFinds, ExitedExits DEF ExitInv
<1>4. CASE ReturnFromHandler
  <2>1. /\ stack # <<>> /\ stack[Len(stack)].kind = "handler"
        /\ stack' = Popped \/ stack' = Exited(Popped)
    BY <1>4 DEF ReturnFromHandler, ExitAll, InHandler, TopIs, Top
  <2>2. /\ Popped \in Seq(Frames) /\ ExitKnown(Popped, interrupt)
        /\ NoSelect(Popped)
    BY <1>0, <2>1, PoppedFrame DEF Popped, ExitInv
  <2>3. CASE Top.entry.type = "Quit"
    <3>1. /\ stack' = Exited(Popped)
          /\ interrupt' = (interrupt \/ Looping(Popped))
      BY <1>4, <2>3 DEF ReturnFromHandler, ExitAll
    <3>2. Looping(Popped) => interrupt'
      BY <3>1
    <3> QED
      BY <2>2, <3>1, <3>2, ExitedExits DEF ExitInv
  <2>4. CASE Top.entry.type # "Quit"
    <3>1. stack' = Popped /\ interrupt' = interrupt
      BY <1>4, <2>4 DEF ReturnFromHandler
    <3> QED
      BY <1>a, <2>2, <3>1 DEF ExitInv
  <2> QED
    BY <2>3, <2>4
<1>5. CASE AppExec \/ NestedExec
  <2>1. UserCode /\ stack' = Append(stack, Exec)
    BY <1>5 DEF AppExec, NestedExec, EnterLoop, UserCode
  <2>2. Exec \in Frames /\ Exec.kind = "exec" /\ ~Exec.exit /\ ~IsSelect(Exec)
    BY NewFrames DEF Exec, IsSelect
  <2>3. NoSelect(stack)
    BY <2>1, UserFinds
  <2>4. ExitKnown(stack', interrupt') /\ NoSelect(stack')
    BY <1>0, <2>1, <2>2, <2>3, PushedFrame
  <2> QED
    BY <1>a, <2>4 DEF ExitInv
<1>6. ASSUME NEW p \in Filters, SendPostedEvents(p[1], p[2]) PROVE ExitInv'
  <2>1. UserCode /\ EnterSend(stack, p[1], p[2]) /\ interrupt' = interrupt
    BY <1>6 DEF SendPostedEvents
  <2> QED
    BY <1>0, <2>1, FilterTypes, UserFinds, EnterSendExits DEF ExitInv
<1>7. CASE Iterate
  <2> DEFINE s == Append(stack, Process(TRUE))
  <2>1. /\ stack # <<>> /\ stack[Len(stack)].kind = "exec"
        /\ ~stack[Len(stack)].exit
        /\ interrupt' = FALSE /\ EnterSend(s, AnyReceiver, AnyType)
    BY <1>7 DEF Iterate, EnterProcess, TopIs, Top
  <2>2. Process(TRUE) \in Frames /\ Process(TRUE).kind = "process"
        /\ ~IsSelect(Process(TRUE))
    BY NewFrames DEF IsSelect
  <2>3. NoSelect(stack)
    <3>1. ~IsSelect(stack[Len(stack)])
      BY <2>1 DEF IsSelect
    <3> QED
      BY <1>0, <2>1, <3>1, PoppedFrame DEF ExitInv
  <2>4. ExitKnown(stack, FALSE)
    <3>1. Len(stack) \in Nat \ {0}
      BY <1>0, <2>1, PoppedFrame
    <3>2. \A k \in 1..Len(stack) :
              k = Len(stack) \/ Len(stack) \in (k + 1)..Len(stack)
      BY <3>1
    <3> QED
      BY <2>1, <3>2 DEF ExitKnown
  <2>5. s \in Seq(Frames) /\ NoSelect(s) /\ ExitKnown(s, FALSE)
    BY <1>0, <2>2, <2>3, <2>4, PushedFrame
  <2> HIDE DEF s
  <2> QED
    BY <1>0, <1>b, <2>1, <2>5, EnterSendExits DEF ExitInv
<1>8. CASE LeaveLoop
  <2>1. /\ stack # <<>> /\ stack[Len(stack)].kind = "exec"
        /\ stack[Len(stack)].exit
        /\ interrupt' = interrupt
    BY <1>8 DEF LeaveLoop, TopIs, Top
  <2>2. /\ Popped \in Seq(Frames) /\ NoSelect(Popped)
        /\ Len(stack) \in Nat \ {0}
    BY <1>0, <2>1, PoppedFrame DEF Popped, ExitInv
  <2>3. interrupt
    <3>1. Len(stack) \in 1..Len(stack) /\ (Len(stack) + 1)..Len(stack) = {}
      BY <2>2
    <3> QED
      BY <2>1, <3>1 DEF ExitInv, ExitKnown
  <2>4. \A s : ExitKnown(s, interrupt')
    BY <2>1, <2>3 DEF ExitKnown
  <2>5. NoSelect(stack')
    <3>1. CASE Popped = <<>>
      <4>1. EnterSend(Popped, AnyReceiver, "DeferredDelete")
        BY <1>8, <3>1 DEF LeaveLoop
      <4> QED
        BY <1>0, <1>b, <2>2, <4>1, EnterSendExits
    <3>2. CASE Popped # <<>>
      BY <1>8, <2>2, <3>2 DEF LeaveLoop
    <3> QED
      BY <3>1, <3>2
  <2> QED
    BY <1>a, <2>4, <2>5 DEF ExitInv
<1>9. CASE AfterSend
  <2>1. /\ stack # <<>> /\ stack[Len(stack)].kind = "process"
        /\ Top = stack[Len(stack)]
        /\ interrupt' = interrupt
    BY <1>9 DEF AfterSend, TopIs, Top
  <2>2. CASE interrupt
    <3>1. stack' = Popped
      BY <1>9, <2>2 DEF AfterSend
    <3>2. ExitKnown(Popped, interrupt) /\ NoSelect(Popped)
      BY <1>0, <2>1, PoppedFrame DEF Popped, ExitInv
    <3> QED
      BY <1>a, <2>1, <3>1, <3>2 DEF ExitInv
  <2>3. CASE ~interrupt
    <3> DEFINE w == canWait /\ Top.wait
               f == [Top EXCEPT !.pc = "select", !.canWait = w]
    <3>1. stack' = Append(SubSeq(stack, 1, Len(stack) - 1), f)
      BY <1>9, <2>3 DEF AfterSend, Replaced, Popped
    <3>2. f \in Frames /\ f.kind = "process"
      <4>1. w \in BOOLEAN /\ Top \in Frames /\ Top.kind = "process"
        BY <1>0, <2>1, PoppedFrame
      <4> HIDE DEF w
      <4>2. f \in Frames /\ Alike(Top, f)
        BY <4>1, SelectFrame
      <4> HIDE DEF f
      <4> QED
        BY <4>1, <4>2 DEF Alike
    <3> HIDE DEF f
    <3>3. ExitKnown(stack', interrupt) /\ SelectsOnTop(stack', interrupt)
      <4>1. LET t == Append(SubSeq(stack, 1, Len(stack) - 1), f)
            IN /\ ExitKnown(t, interrupt)
               /\ ~interrupt => SelectsOnTop(t, interrupt)
        BY <1>0, <2>1, <3>2, OtherTop
      <4> QED
        BY <2>3, <3>1, <4>1
    <3> QED
      BY <2>1, <3>3 DEF ExitInv
  <2> QED
    BY <2>2, <2>3
<1>10. CASE Select \/ AfterNative
  <2>1. /\ stack # <<>> /\ stack[Len(stack)].kind = "process"
        /\ interrupt' = interrupt /\ stack' = Popped
    BY <1>10 DEF Select, AfterNative, TopIs, Top
  <2>2. ExitKnown(Popped, interrupt) /\ NoSelect(Popped)
    BY <1>0, <2>1, PoppedFrame DEF Popped, ExitInv
  <2> QED
    BY <1>a, <2>1, <2>2 DEF ExitInv
<1>11. CASE SendDone
  <2>1. /\ stack # <<>> /\ stack[Len(stack)].kind = "send"
        /\ interrupt' = interrupt /\ stack' = Popped
    BY <1>11 DEF SendDone, TopIs, Top
  <2>2. ExitKnown(Popped, interrupt) /\ NoSelect(Popped)
    BY <1>0, <2>1, PoppedFrame DEF Popped, ExitInv
  <2> QED
    BY <1>a, <2>1, <2>2 DEF ExitInv
<1>12. ASSUME TopIs("send"), NEW f, f = [Top EXCEPT !.i = @ + 1]
       PROVE  /\ stack # <<>> /\ stack[Len(stack)].kind = "send"
              /\ f \in Frames /\ f.kind = "send"
  <2>1. stack # <<>> /\ Top = stack[Len(stack)] /\ Top.kind = "send"
    BY <1>12 DEF TopIs, Top
  <2>2. Top \in Frames
    BY <1>0, <2>1, PoppedFrame
  <2>3. f \in Frames /\ Alike(Top, f)
    BY <1>12, <2>1, <2>2, FrameFacts
  <2> QED
    BY <2>1, <2>3 DEF Alike
<1>13. CASE SkipNull \/ SkipOther \/ HoldDeferred
  <2> DEFINE f == [Top EXCEPT !.i = @ + 1]
  <2>1. TopIs("send") /\ Advance /\ interrupt' = interrupt
    BY <1>13 DEF SkipNull, SkipOther, HoldDeferred, InPass
  <2>2. CASE Unfiltered(Top)
    <3>1. stack' = stack
      BY <2>1, <2>2 DEF Advance
    <3> QED
      BY <1>1, <2>1, <3>1
  <2>3. CASE ~Unfiltered(Top)
    <3>1. stack' = Append(SubSeq(stack, 1, Len(stack) - 1), f)
      BY <2>1, <2>3 DEF Advance, Replaced, Popped
    <3>2. /\ stack # <<>> /\ stack[Len(stack)].kind = "send"
          /\ f \in Frames /\ f.kind = "send"
      BY <1>12, <2>1
    <3> HIDE DEF f
    <3>3. ExitKnown(stack', interrupt) /\ NoSelect(stack')
      BY <1>0, <3>1, <3>2, OtherTop DEF ExitInv, IsSelect
    <3> QED
      BY <1>a, <2>1, <3>3 DEF ExitInv
  <2> QED
    BY <2>2, <2>3
<1>14. ASSUME NEW s \in Seq(Frames), NEW entry \in HandlerEntries,
              NoSelect(s), ExitKnown(s, interrupt),
              stack' = Append(s, Handler(entry)), interrupt' = interrupt
       PROVE  ExitInv'
  <2>1. Handler(entry) \in Frames /\ Handler(entry).kind = "handler"
        /\ ~IsSelect(Handler(entry))
    BY NewFrames DEF IsSelect
  <2>2. ExitKnown(stack', interrupt) /\ NoSelect(stack')
    BY <1>14, <2>1, PushedFrame
  <2> QED
    BY <1>14, <1>a, <2>2 DEF ExitInv
<1>15. CASE Deliver
  <2> DEFINE f == [Top EXCEPT !.i = @ + 1]
  <2>1. TopIs("send") /\ interrupt' = interrupt /\ InPass /\ IsLive(Pe)
    BY <1>15 DEF Deliver, InPass
  <2>2. Pe \in HandlerEntries
    <3>1. Pe \in Entries
      BY <2>1, AtPosition DEF IInv, QueueInv
    <3> QED
      BY <3>1, PrioritiesAssumption DEF Entries, HandlerEntries
  <2>3. /\ stack # <<>> /\ stack[Len(stack)].kind = "send"
        /\ f \in Frames /\ f.kind = "send"
    BY <1>12, <2>1
  <2>4. CASE Unfiltered(Top)
    <3>1. stack' = Append(stack, Handler(Pe))
      BY <1>15, <2>4 DEF Deliver
    <3>2. NoSelect(stack)
      <4>1. ~IsSelect(stack[Len(stack)])
        BY <2>3 DEF IsSelect
      <4> QED
        BY <1>0, <2>3, <4>1, PoppedFrame DEF ExitInv
    <3> QED
      BY <1>0, <1>14, <2>1, <2>2, <3>1, <3>2 DEF ExitInv
  <2>5. CASE ~Unfiltered(Top)
    <3> DEFINE s == Append(SubSeq(stack, 1, Len(stack) - 1), f)
    <3>1. stack' = Append(s, Handler(Pe))
      BY <1>15, <2>5 DEF Deliver, Replaced, Popped
    <3> HIDE DEF f
    <3>2. s \in Seq(Frames) /\ ExitKnown(s, interrupt) /\ NoSelect(s)
      BY <1>0, <2>3, OtherTop DEF ExitInv, IsSelect
    <3> HIDE DEF s
    <3> QED
      BY <1>14, <2>1, <2>2, <3>1, <3>2
  <2> QED
    BY <2>4, <2>5
<1>16. CASE NativeEvent
  <2> DEFINE f == [Top EXCEPT !.pc = "native"]
             s == Append(SubSeq(stack, 1, Len(stack) - 1), f)
  <2>1. /\ stack # <<>> /\ stack[Len(stack)].kind = "process"
        /\ Top = stack[Len(stack)] /\ interrupt' = interrupt
        /\ stack' = Append(s, Handler(NativeEntry))
    BY <1>16 DEF NativeEvent, TopIs, Top, Replaced, Popped
  <2>2. f \in Frames /\ f.kind = "process" /\ f.pc = "native"
    <3>1. Top \in Frames
      BY <1>0, <2>1, PoppedFrame
    <3> QED
      BY <2>1, <3>1, FrameFacts DEF Alike
  <2> HIDE DEF f
  <2>3. s \in Seq(Frames) /\ ExitKnown(s, interrupt) /\ NoSelect(s)
    BY <1>0, <2>1, <2>2, OtherTop DEF ExitInv, IsSelect
  <2> HIDE DEF s
  <2>4. NativeEntry \in HandlerEntries
    BY ReceiversAssumption DEF NativeEntry, HandlerEntries, EventTypes
  <2> QED
    BY <1>14, <2>1, <2>3, <2>4
<1>17. CASE \/ \E p \in Posts : PostEvent(p[1], p[2], p[3])
            \/ \E t \in Posters, p \in Posts : RemotePost(t, p[1], p[2], p[3])
            \/ \E p \in Removals : RemovePostedEvents(p[1], p[2])
            \/ \E t \in Posters : RemoteWakeUp(t)
            \/ UNCHANGED vars
  <2>1. UNCHANGED <<stack, interrupt>>
    BY <1>17 DEF PostEvent, RemotePost, RemovePostedEvents, RemoteWakeUp, vars
  <2> QED
    BY <1>1, <2>1
<1>18. CASE \E wait \in BOOLEAN : ProcessEvents(wait)
  BY <1>18 DEF ProcessEvents
<1> QED
  BY <1>2, <1>3, <1>4, <1>5, <1>6, <1>7, <1>8, <1>9, <1>10, <1>11, <1>13, <1>15,
     <1>16, <1>17, <1>18 DEF Next, Delivery, User, Environment

\* QEventLoop::exit: "After this function has been called, the event loop
\* returns from the call to exec()": the thread does not sleep in a loop that
\* was told to exit.  processEvents resets the dispatcher's interrupt flag on
\* entry, so a handler that calls it may lose the exit of its loop: the
\* theorem is about code whose handlers do not.
THEOREM ExitIsHonoured ==
    ASSUME "processEvents" \notin Calls
    PROVE  Spec => []ExitHonoured
<1>1. Init => ExitInv
  <2> SUFFICES ASSUME Init PROVE ExitInv
    OBVIOUS
  <2>1. Len(stack) = 0
    BY EmptySeq DEF Init
  <2> QED
    BY <2>1 DEF ExitInv, ExitKnown, SelectsOnTop
<1>2. IInv /\ ExitInv /\ [Next]_vars => ExitInv'
  BY ExitStep
<1>3. IInv /\ ExitInv => ExitHonoured
  <2> SUFFICES ASSUME IInv, ExitInv, ExecAsleep, stack[Len(stack) - 1].exit
               PROVE  FALSE
    BY DEF ExitHonoured
  <2>1. /\ stack # <<>> /\ IsSelect(stack[Len(stack)])
        /\ Len(stack) > 1 /\ stack[Len(stack) - 1].kind = "exec"
    BY DEF ExecAsleep, Asleep, TopIs, Top, IsSelect
  <2>2. Len(stack) \in Nat
    BY FitsFacts DEF IInv, StackInv
  <2>3. ~interrupt
    <3>1. Len(stack) \in 1..Len(stack)
      BY <2>1, <2>2
    <3> QED
      BY <2>1, <3>1 DEF ExitInv, SelectsOnTop
  <2>4. interrupt
    <3> DEFINE k == Len(stack) - 1
    <3>1. k \in 1..Len(stack) /\ \A j \in (k + 1)..Len(stack) : j = Len(stack)
      BY <2>1, <2>2
    <3>2. \A j \in (k + 1)..Len(stack) : stack[j].kind # "exec"
      BY <2>1, <3>1 DEF IsSelect
    <3> QED
      BY <2>1, <3>1, <3>2 DEF ExitInv, ExitKnown
  <2> QED
    BY <2>3, <2>4
<1> QED
  BY <1>1, <1>2, <1>3, Invariance, PTL DEF Spec

-----------------------------------------------------------------------------
\* The queue implements what its users are promised, as long as a pass for
\* one receiver or of one type is one for deferred deletes, of which there is
\* only one for a receiver.
OrderedFilters ==
    \A p \in Filters :
        p = <<AnyReceiver, AnyType>> \/ p[2] = "DeferredDelete"

PassInv ==
    \A k \in 1..Len(stack) :
        stack[k].kind = "send" => MayPass(stack[k].receiver, stack[k].type)

\* The passes on the stack are those asked for.
LEMMA PassStep ==
    ASSUME IInv, PassInv, [Next]_vars
    PROVE  PassInv'
<1>1. Posting \/ Sending \/ Waking \/ Keeping
  BY Step
<1>2. CASE Posting
  BY <1>2 DEF Posting, PassInv
<1>3. CASE Keeping
  <2>1. PICK n \in 0..Len(stack) :
            /\ n <= Len(stack')
            /\ \A k \in 1..n : Alike(stack[k], stack'[k])
            /\ \A k \in (n + 1)..Len(stack') : MayPush(stack'[k])
    BY <1>3 DEF Keeping, Quiet
  <2>2. \A k \in 1..Len(stack') : k \in (n + 1)..Len(stack')
                                  \/ (k \in 1..n /\ k \in 1..Len(stack))
    BY <2>1, Numbers
  <2> QED
    BY <2>1, <2>2 DEF PassInv, Alike, MayPush
<1>4. ASSUME NEW entry, CallsHandler(stack, stack', entry) PROVE PassInv'
  BY <1>4, CalledFrames DEF PassInv, Alike
<1> QED
  BY <1>1, <1>2, <1>3, <1>4 DEF Sending, Waking

\* The fields of an abstracted event.
LEMMA Fields ==
    ASSUME NEW e
    PROVE  /\ Abstracted(e).event = e.event
           /\ Abstracted(e).receiver = e.receiver
           /\ Abstracted(e).type = e.type /\ Abstracted(e).priority = e.priority
  BY DEF Abstracted

\* What the abstract queue reads off the list.
LEMMA ReadOff ==
    ASSUME NEW lst \in Seq(Entries), WellOrdered(lst)
    PROVE  /\ \A j, k \in Live(lst) :
                  Abstracted(lst[j]) = Abstracted(lst[k]) => j = k
           /\ \A j \in Live(lst) : Abstracted(lst[j]) \in Waiting(lst)
           /\ \A o \in Waiting(lst) : \E j \in Live(lst) : o = Abstracted(lst[j])
           /\ \A j, k \in Live(lst) :
                  <<Abstracted(lst[j]), Abstracted(lst[k])>> \in Precedence(lst)
                      <=> j < k
           /\ Precedence(lst) \subseteq Waiting(lst) \X Waiting(lst)
           /\ \A off \in Int, j \in Live(lst) :
                  Abstracted(lst[j]) \in Found(lst, off) <=> j <= off
           /\ \A off \in Int : Found(lst, off) \subseteq Waiting(lst)
<1>1. ASSUME NEW j \in Live(lst), NEW k \in Live(lst),
             Abstracted(lst[j]) = Abstracted(lst[k])
      PROVE  j = k
  BY <1>1, Fields DEF WellOrdered
<1>2. /\ \A j \in Live(lst) : Abstracted(lst[j]) \in Waiting(lst)
      /\ \A o \in Waiting(lst) : \E j \in Live(lst) : o = Abstracted(lst[j])
  BY DEF Waiting
<1>3. ASSUME NEW x \in Precedence(lst)
      PROVE  \E j, k \in Live(lst) :
                 j < k /\ x = <<Abstracted(lst[j]), Abstracted(lst[k])>>
  <2>1. PICK y \in Live(lst) \X Live(lst) :
            y[1] < y[2] /\ x = <<Abstracted(lst[y[1]]), Abstracted(lst[y[2]])>>
    BY DEF Precedence
  <2>2. y[1] \in Live(lst) /\ y[2] \in Live(lst)
    OBVIOUS
  <2> QED
    BY <2>1, <2>2
<1>4. ASSUME NEW j \in Live(lst), NEW k \in Live(lst), j < k
      PROVE  <<Abstracted(lst[j]), Abstracted(lst[k])>> \in Precedence(lst)
  <2>1. <<j, k>> \in {y \in Live(lst) \X Live(lst) : y[1] < y[2]}
    BY <1>4
  <2> QED
    BY <2>1 DEF Precedence
<1>5. ASSUME NEW j \in Live(lst), NEW k \in Live(lst),
             <<Abstracted(lst[j]), Abstracted(lst[k])>> \in Precedence(lst)
      PROVE  j < k
  <2>1. PICK m \in Live(lst), n \in Live(lst) :
            /\ m < n
            /\ <<Abstracted(lst[j]), Abstracted(lst[k])>>
                   = <<Abstracted(lst[m]), Abstracted(lst[n])>>
    BY <1>3, <1>5
  <2>2. m = j /\ n = k
    BY <1>1, <2>1
  <2> QED
    BY <2>1, <2>2
<1>6. Precedence(lst) \subseteq Waiting(lst) \X Waiting(lst)
  BY <1>2, <1>3
<1>7. ASSUME NEW off \in Int, NEW j \in Live(lst)
      PROVE  Abstracted(lst[j]) \in Found(lst, off) <=> j <= off
  BY <1>1 DEF Found
<1>8. \A off \in Int : Found(lst, off) \subseteq Waiting(lst)
  BY DEF Found, Waiting
<1> QED
  BY <1>1, <1>2, <1>4, <1>5, <1>6, <1>7, <1>8

\* A list holds some of the events of another one, in the order they have.
Within(new, lst, at) ==
    /\ at \in [Live(new) -> Live(lst)]
    /\ \A j, k \in Live(new) : j < k => at[j] < at[k]
    /\ \A j \in Live(new) : new[j] = lst[at[j]]

LEMMA WithinOrder ==
    ASSUME NEW lst \in Seq(Entries), WellOrdered(lst),
           NEW new \in Seq(Entries), WellOrdered(new),
           NEW at, Within(new, lst, at)
    PROVE  /\ Waiting(new) \subseteq Waiting(lst)
           /\ Precedence(new)
                = Precedence(lst) \cap (Waiting(new) \X Waiting(new))
           /\ \A m, n \in Int :
                (\A j \in Live(new) : at[j] <= m => j <= n)
                    => Found(lst, m) \cap Waiting(new) \subseteq Found(new, n)
           /\ \A m, n \in Int :
                (\A j \in Live(new) : at[j] <= m <=> j <= n)
                    => Found(new, n) = Found(lst, m) \cap Waiting(new)
<1>0. /\ Live(lst) \subseteq Nat /\ Live(new) \subseteq Nat
      /\ \A j \in Live(new) : at[j] \in Live(lst) /\ new[j] = lst[at[j]]
      /\ \A j, k \in Live(new) : j < k => at[j] < at[k]
  BY Positions DEF Within
<1>1. \A j \in Live(new) : Abstracted(new[j]) = Abstracted(lst[at[j]])
  BY <1>0
<1>2. Waiting(new) \subseteq Waiting(lst)
  BY <1>0, <1>1 DEF Waiting
<1>3. ASSUME NEW j \in Live(new), NEW k \in Live(new)
      PROVE  at[j] < at[k] <=> j < k
  <2>1. j = k => at[j] = at[k]
    OBVIOUS
  <2>2. k < j => at[k] < at[j]
    BY <1>0
  <2>3. at[j] \in Nat /\ at[k] \in Nat /\ j \in Nat /\ k \in Nat
    BY <1>0
  <2> QED
    BY <1>0, <2>1, <2>2, <2>3
<1>4. ASSUME NEW a \in Waiting(new), NEW b \in Waiting(new)
      PROVE  <<a, b>> \in Precedence(new) <=> <<a, b>> \in Precedence(lst)
  <2>1. PICK j \in Live(new) : a = Abstracted(new[j])
    BY ReadOff
  <2>2. PICK k \in Live(new) : b = Abstracted(new[k])
    BY ReadOff
  <2>3. <<a, b>> \in Precedence(new) <=> j < k
    BY <2>1, <2>2, ReadOff
  <2>4. <<a, b>> \in Precedence(lst) <=> at[j] < at[k]
    <3>1. a = Abstracted(lst[at[j]]) /\ b = Abstracted(lst[at[k]])
      BY <1>1, <2>1, <2>2
    <3>2. at[j] \in Live(lst) /\ at[k] \in Live(lst)
      BY <1>0
    <3> QED
      BY <3>1, <3>2, ReadOff
  <2> QED
    BY <1>3, <2>3, <2>4
<1>5. Precedence(new) = Precedence(lst) \cap (Waiting(new) \X Waiting(new))
  <2>1. Precedence(new) \subseteq Waiting(new) \X Waiting(new)
    BY ReadOff
  <2> QED
    BY <1>4, <2>1
<1>6. ASSUME NEW m \in Int, NEW n \in Int,
             \A j \in Live(new) : at[j] <= m => j <= n,
             NEW o \in Found(lst, m), o \in Waiting(new)
      PROVE  o \in Found(new, n)
  <2>1. PICK j \in Live(new) : o = Abstracted(new[j])
    BY <1>6, ReadOff
  <2>2. at[j] <= m
    <3>1. o = Abstracted(lst[at[j]]) /\ at[j] \in Live(lst)
      BY <1>0, <1>1, <2>1
    <3> QED
      BY <3>1, ReadOff
  <2> QED
    BY <1>6, <2>1, <2>2, ReadOff
<1>7. ASSUME NEW m \in Int, NEW n \in Int,
             \A j \in Live(new) : at[j] <= m <=> j <= n,
             NEW o \in Found(new, n)
      PROVE  o \in Found(lst, m) /\ o \in Waiting(new)
  <2>1. o \in Waiting(new)
    BY ReadOff
  <2>2. PICK j \in Live(new) : o = Abstracted(new[j])
    BY <2>1, ReadOff
  <2>3. j <= n
    BY <2>2, ReadOff
  <2>4. o = Abstracted(lst[at[j]]) /\ at[j] \in Live(lst) /\ at[j] <= m
    BY <1>0, <1>1, <1>7, <2>2, <2>3
  <2> QED
    BY <2>1, <2>4, ReadOff
<1>8. ASSUME NEW m \in Int, NEW n \in Int,
             \A j \in Live(new) : at[j] <= m <=> j <= n
      PROVE  Found(new, n) = Found(lst, m) \cap Waiting(new)
  <2>1. \A j \in Live(new) : at[j] <= m => j <= n
    BY <1>8
  <2>2. Found(lst, m) \cap Waiting(new) \subseteq Found(new, n)
    BY <1>6, <2>1
  <2>3. Found(new, n) \subseteq Found(lst, m) \cap Waiting(new)
    BY <1>7, <1>8
  <2> QED
    BY <2>2, <2>3
<1>9. ASSUME NEW m \in Int, NEW n \in Int,
             \A j \in Live(new) : at[j] <= m => j <= n
      PROVE  Found(lst, m) \cap Waiting(new) \subseteq Found(new, n)
  BY <1>6, <1>9
<1> QED
  BY <1>2, <1>5, <1>8, <1>9

\* Where addEvent puts the new entry: behind what a pass has found, and what
\* has no lower priority.
LEMMA Place ==
    ASSUME NEW lst \in Seq(Entries), NEW ins \in Nat, SortedFrom(lst, ins),
           NEW entry \in Entries
    PROVE  \E p \in 1..(Len(lst) + 1) :
              /\ AddEvent(lst, ins, entry) = InsertBefore(lst, p, entry)
              /\ \A k \in 1..Len(lst) :
                    k < p <=> k <= ins \/ lst[k].priority >= entry.priority
              /\ p <= ins <=> ins > Len(lst)
<1>1. /\ Len(lst) \in Nat /\ \A k \in 1..Len(lst) : lst[k].priority \in Int
      /\ entry.priority \in Int
  BY EntriesOfList, PrioritiesAssumption DEF Entries
<1>2. CASE ins <= Len(lst)
  <2>1. ins \in 0..Len(lst)
    BY <1>1, <1>2
  <2>2. PICK p \in Nat : GoesTo(lst, ins, entry, p)
    BY <2>1, AddEventPlace
  <2>3. /\ p \in (ins + 1)..(Len(lst) + 1)
        /\ AddEvent(lst, ins, entry) = InsertBefore(lst, p, entry)
        /\ \A k \in (ins + 1)..(p - 1) : lst[k].priority >= entry.priority
        /\ \A k \in p..Len(lst) : lst[k].priority < entry.priority
    BY <2>2 DEF GoesTo
  <2>4. p \in 1..(Len(lst) + 1) /\ (p <= ins <=> ins > Len(lst))
    BY <1>1, <1>2, <2>3
  <2>5. ASSUME NEW k \in 1..Len(lst)
        PROVE  k < p <=> k <= ins \/ lst[k].priority >= entry.priority
    <3>1. k < p => k <= ins \/ k \in (ins + 1)..(p - 1)
      BY <1>1, <2>3
    <3>2. ~(k < p) => k \in p..Len(lst) /\ ~(k <= ins)
      BY <1>1, <2>3
    <3> QED
      BY <1>1, <2>3, <3>1, <3>2
  <2> QED
    BY <2>3, <2>4, <2>5
<1>3. CASE ins > Len(lst)
  <2>1. AddEvent(lst, Len(lst), entry) = AddEvent(lst, ins, entry)
    BY <1>1, <1>3 DEF AddEvent
  <2>2. Len(lst) \in 0..Len(lst) /\ SortedFrom(lst, Len(lst))
    BY <1>1 DEF SortedFrom
  <2>3. PICK p \in Nat : GoesTo(lst, Len(lst), entry, p)
    BY <2>2, AddEventPlace
  <2>4. /\ p = Len(lst) + 1
        /\ AddEvent(lst, ins, entry) = InsertBefore(lst, p, entry)
    BY <1>1, <2>1, <2>3 DEF GoesTo
  <2>5. p \in 1..(Len(lst) + 1) /\ (p <= ins <=> ins > Len(lst))
    BY <1>1, <1>3, <2>4
  <2>6. \A k \in 1..Len(lst) : k < p /\ k <= ins
    BY <1>1, <1>3, <2>4
  <2> QED
    BY <2>4, <2>5, <2>6
<1> QED
  BY <1>1, <1>2, <1>3

\* The entries the new event goes behind.
InFront(others, due, e) ==
    {o \in others : o \in due \/ o.priority >= e.priority}

\* What addEvent does to the order of the events.
LEMMA JoinsOrder ==
    ASSUME NEW lst \in Seq(Entries), NEW ins \in Nat, SortedFrom(lst, ins),
           WellOrdered(lst), NEW entry \in Entries, IsLive(entry),
           \A f \in LiveEntries(lst) :
               /\ f.event # entry.event
               /\ SameKind(f, entry) => f.event < entry.event
    PROVE  LET new == AddEvent(lst, ins, entry)
               e == Abstracted(entry)
               ahead == InFront(Waiting(lst), Found(lst, ins), e)
           IN /\ Waiting(new) = Waiting(lst) \cup {e}
              /\ e \notin Waiting(lst)
              /\ Precedence(new) = Precedence(lst) \cup (ahead \X {e})
                                       \cup ({e} \X (Waiting(lst) \ ahead))
              /\ Len(new) = Len(lst) + 1
              /\ ins > Len(lst) => Found(new, ins) = Found(lst, ins) \cup {e}
              /\ ins <= Len(lst) => Found(new, ins) = Found(lst, ins)
<1> DEFINE new == AddEvent(lst, ins, entry)
           e == Abstracted(entry)
           ahead == InFront(Waiting(lst), Found(lst, ins), e)
<1>1. /\ new \in Seq(Entries) /\ Len(new) = Len(lst) + 1 /\ WellOrdered(new)
      /\ LiveEntries(new) = LiveEntries(lst) \cup {entry}
  BY Added
<1>2. PICK p \in 1..(Len(lst) + 1) :
          /\ new = InsertBefore(lst, p, entry)
          /\ \A k \in 1..Len(lst) :
                k < p <=> k <= ins \/ lst[k].priority >= entry.priority
          /\ p <= ins <=> ins > Len(lst)
  BY Place
<1>3. Len(lst) \in Nat /\ p \in Nat
  BY EntriesOfList
<1>4. Shifted(lst, new, entry, p)
  BY <1>2, InsertShifts
<1> HIDE DEF new
<1> DEFINE at == [k \in Live(lst) |-> IF k < p THEN k ELSE k + 1]
<1>5. /\ new[p] = entry
      /\ \A k \in 1..(p - 1) : new[k] = lst[k]
      /\ \A k \in (p + 1)..(Len(lst) + 1) : new[k] = lst[k - 1]
  BY <1>4 DEF Shifted
<1>6. Live(lst) \subseteq 1..Len(lst)
  BY DEF Live
<1>7. ASSUME NEW k \in Live(lst)
      PROVE  /\ at[k] = (IF k < p THEN k ELSE k + 1) /\ k \in 1..Len(lst)
             /\ at[k] \in Live(new) /\ new[at[k]] = lst[k]
             /\ at[k] # p /\ (at[k] < p <=> k < p) /\ (p < at[k] <=> ~(k < p))
  <2>0. k \in 1..Len(lst) /\ IsLive(lst[k])
    BY DEF Live
  <2>1. CASE k < p
    <3>1. at[k] = k /\ k \in 1..(p - 1) /\ k \in 1..Len(new)
      BY <1>1, <1>3, <2>0, <2>1
    <3>2. new[k] = lst[k]
      BY <1>5, <3>1
    <3>3. k \in Live(new)
      BY <2>0, <3>1, <3>2 DEF Live
    <3> HIDE DEF at
    <3> QED
      BY <1>3, <2>0, <2>1, <3>1, <3>2, <3>3
  <2>2. CASE ~(k < p)
    <3>1. at[k] = k + 1 /\ k + 1 \in (p + 1)..(Len(lst) + 1)
          /\ k + 1 \in 1..Len(new) /\ (k + 1) - 1 = k
      BY <1>1, <1>3, <2>0, <2>2
    <3>2. new[k + 1] = lst[k]
      BY <1>5, <3>1
    <3>3. k + 1 \in Live(new)
      BY <2>0, <3>1, <3>2 DEF Live
    <3> HIDE DEF at
    <3> QED
      BY <1>3, <2>0, <2>2, <3>1, <3>2, <3>3
  <2> HIDE DEF at
  <2> QED
    BY <2>1, <2>2
<1>8. DOMAIN at = Live(lst) /\ at \in [Live(lst) -> Live(new)]
  <2>1. \A k \in Live(lst) : (IF k < p THEN k ELSE k + 1) \in Live(new)
    BY <1>7
  <2> QED
    BY <2>1
<1>9. \A j, k \in Live(lst) : j < k => at[j] < at[k]
  <2> HIDE DEF at
  <2> QED
    BY <1>3, <1>7
<1> HIDE DEF at
<1>10. Within(lst, new, at)
  BY <1>7, <1>8, <1>9 DEF Within
<1>11. /\ Waiting(lst) \subseteq Waiting(new)
       /\ Precedence(lst)
             = Precedence(new) \cap (Waiting(lst) \X Waiting(lst))
  BY <1>1, <1>10, WithinOrder
<1>12. p \in Live(new) /\ Abstracted(new[p]) = e
  BY <1>1, <1>3, <1>5 DEF Live
<1>13. \A k \in Live(lst) : Abstracted(new[at[k]]) = Abstracted(lst[k])
  BY <1>7
<1>14. \A j \in Live(new) : j = p \/ \E k \in Live(lst) : j = at[k]
  <2> SUFFICES ASSUME NEW j \in Live(new), j # p
               PROVE  \E k \in Live(lst) : j = at[k]
    OBVIOUS
  <2>0. j \in 1..(Len(lst) + 1) /\ IsLive(new[j])
    BY <1>1 DEF Live
  <2>1. CASE j < p
    <3>1. j \in 1..(p - 1) /\ j \in 1..Len(lst)
      BY <1>3, <2>0, <2>1
    <3>2. j \in Live(lst)
      BY <1>5, <2>0, <3>1 DEF Live
    <3> QED
      BY <1>7, <2>1, <3>2
  <2>2. CASE j > p
    <3>1. j \in (p + 1)..(Len(lst) + 1) /\ j - 1 \in 1..Len(lst)
          /\ ~(j - 1 < p) /\ (j - 1) + 1 = j
      BY <1>3, <2>0, <2>2
    <3>2. j - 1 \in Live(lst)
      BY <1>5, <2>0, <3>1 DEF Live
    <3> QED
      BY <1>7, <3>1, <3>2
  <2> QED
    BY <1>3, <2>0, <2>1, <2>2
<1> HIDE DEF e
<1>15. e \notin Waiting(lst) /\ Waiting(new) = Waiting(lst) \cup {e}
  <2>1. ASSUME NEW k \in Live(lst) PROVE Abstracted(lst[k]) # e
    <3>1. at[k] \in Live(new) /\ at[k] # p
      BY <1>7
    <3> QED
      BY <1>1, <1>12, <1>13, <3>1, ReadOff
  <2>2. e \notin Waiting(lst)
    BY <2>1, ReadOff
  <2>3. e \in Waiting(new)
    BY <1>1, <1>12, ReadOff
  <2>4. ASSUME NEW o \in Waiting(new), o # e PROVE o \in Waiting(lst)
    <3>1. PICK j \in Live(new) : o = Abstracted(new[j])
      BY <1>1, ReadOff
    <3>2. PICK k \in Live(lst) : j = at[k]
      BY <1>12, <1>14, <2>4, <3>1
    <3> QED
      BY <1>13, <3>1, <3>2, ReadOff
  <2> QED
    BY <1>11, <2>2, <2>3, <2>4
<1>16. ASSUME NEW k \in Live(lst)
       PROVE  k < p <=> Abstracted(lst[k]) \in ahead
  <2>1. Abstracted(lst[k]) \in Waiting(lst)
    BY ReadOff
  <2>2. Abstracted(lst[k]) \in Found(lst, ins) <=> k <= ins
    BY ReadOff
  <2>3. /\ Abstracted(lst[k]).priority = lst[k].priority
        /\ e.priority = entry.priority
    BY Fields DEF e
  <2>4. k \in 1..Len(lst)
    BY <1>7
  <2> QED
    BY <1>2, <2>1, <2>2, <2>3, <2>4 DEF InFront
<1>17. ASSUME NEW o \in Waiting(lst)
       PROVE  /\ <<o, e>> \in Precedence(new) <=> o \in ahead
              /\ <<e, o>> \in Precedence(new) <=> o \notin ahead
  <2>1. PICK k \in Live(lst) : o = Abstracted(lst[k])
    BY ReadOff
  <2>2. o = Abstracted(new[at[k]]) /\ at[k] \in Live(new)
    BY <1>7, <1>13, <2>1
  <2>3. /\ <<o, e>> \in Precedence(new) <=> at[k] < p
        /\ <<e, o>> \in Precedence(new) <=> p < at[k]
    BY <1>1, <1>12, <2>2, ReadOff
  <2>4. k < p <=> o \in ahead
    BY <1>16, <2>1
  <2> QED
    BY <1>7, <2>3, <2>4
<1>18. <<e, e>> \notin Precedence(new)
  <2>1. <<e, e>> \in Precedence(new) <=> p < p
    BY <1>1, <1>12, ReadOff
  <2> QED
    BY <1>3, <2>1
<1>19. Precedence(new) \subseteq Waiting(new) \X Waiting(new)
  BY <1>1, ReadOff
<1>20. ahead \subseteq Waiting(lst)
  BY DEF InFront
<1> HIDE DEF ahead
<1>21. Precedence(new) = Precedence(lst) \cup (ahead \X {e})
                             \cup ({e} \X (Waiting(lst) \ ahead))
  <2>1. ASSUME NEW x \in Precedence(new)
        PROVE  x \in Precedence(lst) \cup (ahead \X {e})
                         \cup ({e} \X (Waiting(lst) \ ahead))
    <3>1. PICK o \in Waiting(new), q \in Waiting(new) : x = <<o, q>>
      BY <1>19
    <3> QED
      BY <1>11, <1>15, <1>17, <1>18, <2>1, <3>1
  <2>2. ASSUME NEW o \in ahead PROVE <<o, e>> \in Precedence(new)
    BY <1>17, <1>20
  <2>3. ASSUME NEW o \in Waiting(lst), o \notin ahead
        PROVE  <<e, o>> \in Precedence(new)
    BY <1>17, <2>3
  <2>4. Precedence(lst) \subseteq Precedence(new)
    BY <1>11
  <2> QED
    BY <2>1, <2>2, <2>3, <2>4
<1>22. ASSUME NEW o \in Waiting(lst)
       PROVE  o \in Found(new, ins) <=> o \in Found(lst, ins)
  <2>1. PICK k \in Live(lst) : o = Abstracted(lst[k])
    BY ReadOff
  <2>2. o = Abstracted(new[at[k]]) /\ at[k] \in Live(new)
    BY <1>7, <1>13, <2>1
  <2>3. o \in Found(new, ins) <=> at[k] <= ins
    BY <1>1, <2>2, ReadOff
  <2>4. o \in Found(lst, ins) <=> k <= ins
    BY <2>1, ReadOff
  <2>5. at[k] <= ins <=> k <= ins
    BY <1>2, <1>3, <1>7
  <2> QED
    BY <2>3, <2>4, <2>5
<1>23. e \in Found(new, ins) <=> ins > Len(lst)
  BY <1>1, <1>2, <1>12, ReadOff
<1>24. /\ Found(new, ins) \subseteq Waiting(new)
       /\ Found(lst, ins) \subseteq Waiting(lst)
  BY <1>1, ReadOff
<1>25. /\ ins > Len(lst) => Found(new, ins) = Found(lst, ins) \cup {e}
       /\ ins <= Len(lst) => Found(new, ins) = Found(lst, ins)
  <2>1. ins <= Len(lst) <=> ~(ins > Len(lst))
    BY <1>3
  <2> QED
    BY <1>15, <1>22, <1>23, <1>24, <2>1
<1> QED
  BY <1>1, <1>15, <1>21, <1>25 DEF new, e, ahead

\* Entries are nulled in place.
LEMMA InPlaceOrder ==
    ASSUME NEW lst \in Seq(Entries), WellOrdered(lst),
           NEW new \in Seq(Entries), WellOrdered(new),
           Live(new) \subseteq Live(lst),
           \A k \in Live(new) : new[k] = lst[k]
    PROVE  /\ Waiting(new) \subseteq Waiting(lst)
           /\ Precedence(new)
                = Precedence(lst) \cap (Waiting(new) \X Waiting(new))
           /\ \A m \in Int : Found(new, m) = Found(lst, m) \cap Waiting(new)
<1> DEFINE at == [k \in Live(new) |-> k]
<1>1. Within(new, lst, at)
  BY DEF Within
<1>2. \A j \in Live(new) : at[j] = j
  OBVIOUS
<1> HIDE DEF at
<1> QED
  BY <1>1, <1>2, WithinOrder

\* The rest of the list moves up.
LEMMA ClosedUpOrder ==
    ASSUME NEW lst \in Seq(Entries), WellOrdered(lst),
           NEW D \in SUBSET Live(lst),
           NEW f \in Enumerations((1..Len(lst)) \ D)
    PROVE  LET new == Selected(lst, f)
           IN /\ Precedence(new)
                    = Precedence(lst) \cap (Waiting(new) \X Waiting(new))
              /\ \A m \in Int : Found(lst, m) \cap Waiting(new) \subseteq Found(new, m)
<1> DEFINE new == Selected(lst, f)
           at == [j \in Live(new) |-> f[j]]
<1>1. /\ new \in Seq(Entries) /\ WellOrdered(new)
      /\ \A j \in Live(new) :
            f[j] \in Live(lst) /\ new[j] = lst[f[j]] /\ j <= f[j]
      /\ \A j, k \in Live(new) : j < k => f[j] < f[k]
  BY ClosedUp
<1> HIDE DEF new
<1>2. Within(new, lst, at)
  BY <1>1 DEF Within
<1>3. ASSUME NEW m \in Int, NEW j \in Live(new), at[j] <= m
      PROVE  j <= m
  <2>1. /\ at[j] = f[j] /\ j <= f[j] /\ f[j] \in Live(lst)
    BY <1>1
  <2>2. j \in Nat /\ f[j] \in Nat
    BY <1>1, <2>1, Positions
  <2> HIDE DEF at
  <2> QED
    BY <1>3, <2>1, <2>2
<1> HIDE DEF at
<1> QED
  BY <1>1, <1>2, <1>3, WithinOrder DEF new

\* The front of the list, in which no event is left, is erased.
LEMMA DroppedOrder ==
    ASSUME NEW lst \in Seq(Entries), WellOrdered(lst),
           NEW n \in 0..Len(lst), \A k \in Live(lst) : k > n
    PROVE  LET new == SubSeq(lst, n + 1, Len(lst))
           IN /\ Waiting(new) = Waiting(lst)
              /\ Precedence(new) = Precedence(lst)
              /\ \A m \in Int : Found(new, m - n) = Found(lst, m)
<1> DEFINE new == SubSeq(lst, n + 1, Len(lst))
           at == [j \in Live(new) |-> n + j]
<1>1. /\ new \in Seq(Entries) /\ WellOrdered(new)
      /\ \A j \in Live(new) : n + j \in Live(lst) /\ new[j] = lst[n + j]
      /\ LiveEntries(new) = LiveEntries(lst)
  BY DroppedPart
<1> HIDE DEF new
<1>2. n \in Nat /\ Live(new) \subseteq Nat
  BY <1>1, EntriesOfList, Positions
<1>3. \A j \in Live(new) : at[j] = n + j
  OBVIOUS
<1>4. Within(new, lst, at)
  <2>1. \A j, k \in Live(new) : j < k => n + j < n + k
    BY <1>2
  <2> QED
    BY <1>1, <2>1 DEF Within
<1>5. ASSUME NEW m \in Int, NEW j \in Live(new)
      PROVE  at[j] <= m <=> j <= m - n
  <2> HIDE DEF at
  <2> QED
    BY <1>2, <1>3
<1> HIDE DEF at
<1>6. Waiting(new) = Waiting(lst)
  <2>1. /\ Waiting(new) = {Abstracted(e) : e \in LiveEntries(new)}
        /\ Waiting(lst) = {Abstracted(e) : e \in LiveEntries(lst)}
    BY DEF Waiting, LiveEntries
  <2> QED
    BY <1>1, <2>1
<1>7. /\ Precedence(new) = Precedence(lst) \cap (Waiting(lst) \X Waiting(lst))
      /\ \A m \in Int : Found(new, m - n) = Found(lst, m) \cap Waiting(lst)
  <2>1. /\ Precedence(new)
              = Precedence(lst) \cap (Waiting(new) \X Waiting(new))
        /\ \A m, i \in Int :
             (\A j \in Live(new) : at[j] <= m <=> j <= i)
                 => Found(new, i) = Found(lst, m) \cap Waiting(new)
    BY <1>1, <1>4, WithinOrder
  <2>2. ASSUME NEW m \in Int
        PROVE  Found(new, m - n) = Found(lst, m) \cap Waiting(new)
    <3>1. PICK i \in Int : i = m - n
      BY <1>2
    <3>2. \A j \in Live(new) : at[j] <= m <=> j <= i
      BY <1>5, <3>1
    <3>3. Found(new, i) = Found(lst, m) \cap Waiting(new)
      BY <2>1, <3>2
    <3> QED
      BY <3>1, <3>3
  <2> QED
    BY <1>6, <2>1, <2>2
<1>8. /\ Precedence(lst) \subseteq Waiting(lst) \X Waiting(lst)
      /\ \A m \in Int : Found(lst, m) \subseteq Waiting(lst)
  BY ReadOff
<1> QED
  BY <1>6, <1>7, <1>8 DEF new

\* An insertionOffset behind the end of the list.
LEMMA AllFound ==
    ASSUME NEW lst \in Seq(Entries), WellOrdered(lst), NEW off \in Nat
    PROVE  /\ Beyond(lst, off) \in Nat
           /\ Beyond(lst, off) > 0 <=> off > Len(lst)
           /\ off >= Len(lst) => Found(lst, off) = Waiting(lst)
<1>1. Len(lst) \in Nat /\ \A k \in Live(lst) : k \in 1..Len(lst)
  BY EntriesOfList DEF Live
<1>2. ASSUME off >= Len(lst) PROVE Found(lst, off) = Waiting(lst)
  <2>1. \A k \in Live(lst) : k <= off
    BY <1>1, <1>2
  <2> QED
    BY <2>1 DEF Found, Waiting
<1> QED
  BY <1>1, <1>2 DEF Beyond

-----------------------------------------------------------------------------
\* The steps.
Pending == Waiting(list)
Order   == Precedence(list)
Due     == Found(list, insertionOffset)
Late    == Beyond(list, insertionOffset)
Sent    == Handled(stack)

\* What is removed is what was named.
LEMMA MatchingGone ==
    ASSUME list \in Seq(Entries), NEW r, NEW ty, Taking(r, ty)
    PROVE  Pending' = Pending \ Queue!Matching(r, ty)
<1>1. /\ Pending = {Abstracted(e) : e \in LiveEntries(list)}
      /\ Pending' = {Abstracted(e) : e \in LiveEntries(list')}
  BY DEF Pending, Waiting, LiveEntries
<1>2. \A e \in LiveEntries(list) :
          Abstracted(e) \in Queue!Matching(r, ty) <=> Wanted(e, r, ty)
  BY <1>1, Fields DEF Queue!Matching, Pending, Wanted
<1>3. /\ \A e \in LiveEntries(list') : e \in LiveEntries(list) /\ ~Wanted(e, r, ty)
      /\ \A e \in LiveEntries(list) : Wanted(e, r, ty) \/ e \in LiveEntries(list')
  BY DEF Taking
<1>4. ASSUME NEW o \in Pending' PROVE o \in Pending \ Queue!Matching(r, ty)
  <2>1. PICK e \in LiveEntries(list') : o = Abstracted(e)
    BY <1>1, <1>4
  <2> QED
    BY <1>1, <1>2, <1>3, <2>1
<1>5. ASSUME NEW o \in Pending, o \notin Queue!Matching(r, ty)
      PROVE  o \in Pending'
  <2>1. PICK e \in LiveEntries(list) : o = Abstracted(e)
    BY <1>1, <1>5
  <2> QED
    BY <1>1, <1>2, <1>3, <1>5, <2>1
<1> QED
  BY <1>4, <1>5

\* A removal keeps the order of the rest.
LEMMA RemovalInOrder ==
    ASSUME IInv, NEW r \in Receivers \cup {AnyReceiver}, NEW ty,
           RemovePosted(r, ty), Taking(r, ty), QueueInv',
           UNCHANGED <<insertionOffset, recursion>>
    PROVE  /\ Pending' = Pending \ Queue!Matching(r, ty)
           /\ Queue!Leaving /\ Queue!MovingUp
<1>1. /\ list \in Seq(Entries) /\ WellOrdered(list) /\ insertionOffset \in Nat
      /\ list' \in Seq(Entries) /\ WellOrdered(list')
      /\ insertionOffset \in Int /\ recursion \in Nat
  BY FitsFacts DEF IInv, QueueInv, TypeInv, GoodQueue, StackInv
<1>2. Pending' = Pending \ Queue!Matching(r, ty)
  BY <1>1, MatchingGone
<1>3. /\ Order \subseteq Pending \X Pending /\ Due \subseteq Pending
      /\ Due' \subseteq Pending'
      /\ Late' \in Nat /\ Late \in Nat
      /\ Late' > 0 => Due' = Pending'
  <2>1. /\ Late' \in Nat /\ (Late' > 0 <=> insertionOffset > Len(list'))
        /\ insertionOffset >= Len(list') => Due' = Pending'
    BY <1>1, AllFound DEF Late, Due, Pending
  <2>2. Len(list') \in Nat
    BY <1>1, EntriesOfList
  <2>3. Late' > 0 => Due' = Pending'
    BY <1>1, <2>1, <2>2
  <2>4. Late \in Nat
    BY <1>1, AllFound DEF Late
  <2>5. Order \subseteq Pending \X Pending /\ Due \subseteq Pending
    BY <1>1, ReadOff DEF Order, Due, Pending
  <2>6. Due' \subseteq Pending'
    BY <1>1, ReadOff DEF Due, Pending
  <2> QED
    BY <2>1, <2>3, <2>4, <2>5, <2>6
<1>4. CASE list' = list
  <2>1. Pending' = Pending /\ Order' = Order /\ Due' = Due /\ Late' = Late
    BY <1>4 DEF Pending, Order, Due, Late
  <2>2. Queue!Leaving
    BY <1>3, <2>1 DEF Queue!Leaving, Queue!Pairs, Order, Pending
  <2>3. Queue!MovingUp
    BY <1>1, <1>3, <2>1 DEF Queue!MovingUp, Due, Pending, Late
  <2> QED
    BY <1>2, <2>2, <2>3
<1>5. CASE ~(r # AnyReceiver /\ postedEvents[r] = 0)
  <2> DEFINE D == Doomed(r, ty)
  <2>1. /\ D \in SUBSET Live(list)
        /\ recursion = 0 => \E f \in Enumerations((1..Len(list)) \ D) :
                                list' = Selected(list, f)
        /\ recursion # 0 => list' = NullAll(list, D)
    BY <1>5 DEF RemovePosted, ClosesUp, Doomed
  <2> HIDE DEF D
  <2>2. CASE recursion # 0
    <3>1. /\ Len(list') = Len(list) /\ Live(list') \subseteq Live(list)
          /\ \A k \in Live(list') : list'[k] = list[k]
      BY <1>1, <2>1, <2>2, NulledAll
    <3>2. /\ Order' = Order \cap (Pending' \X Pending')
          /\ Due' = Due \cap Pending'
      BY <1>1, <3>1, InPlaceOrder DEF Order, Due, Pending
    <3>3. Late' = Late
      BY <3>1 DEF Late, Beyond
    <3>4. Queue!Leaving
      BY <3>2 DEF Queue!Leaving, Queue!Pairs, Order, Pending
    <3>5. Queue!MovingUp
      BY <1>1, <2>2, <3>2, <3>3 DEF Queue!MovingUp, Due, Pending, Late
    <3> QED
      BY <1>2, <3>4, <3>5
  <2>3. CASE recursion = 0
    <3>1. PICK f \in Enumerations((1..Len(list)) \ D) : list' = Selected(list, f)
      BY <2>1, <2>3
    <3>2. /\ Order' = Order \cap (Pending' \X Pending')
          /\ Due \cap Pending' \subseteq Due'
      BY <1>1, <2>1, <3>1, ClosedUpOrder DEF Order, Due, Pending
    <3>3. Queue!Leaving
      BY <3>2 DEF Queue!Leaving, Queue!Pairs, Order, Pending
    <3>4. Queue!MovingUp
      BY <1>3, <2>3, <3>2 DEF Queue!MovingUp, Due, Pending, Late
    <3> QED
      BY <1>2, <3>3, <3>4
  <2> QED
    BY <2>2, <2>3
<1> QED
  BY <1>4, <1>5 DEF RemovePosted

\* The handlers that run in s run in t too.
Stays(s, t) ==
    \A k \in Running(s) : k \in Running(t) /\ t[k].entry = s[k].entry

LEMMA SentSame ==
    ASSUME IInv, Quiet(stack, stack'), Stays(stack, stack')
    PROVE  Sent' = Sent
<1>1. PICK n \in 0..Len(stack) :
          /\ n <= Len(stack')
          /\ \A k \in 1..n : Alike(stack[k], stack'[k])
          /\ \A k \in (n + 1)..Len(stack') : stack'[k].kind # "handler"
  BY DEF Quiet, MayPush
<1>2. Len(stack) \in Nat /\ n \in Nat
  BY <1>1, Numbers
<1>3. ASSUME NEW k \in Running(stack')
      PROVE  k \in Running(stack) /\ stack'[k].entry = stack[k].entry
  <2>1. k \in 1..Len(stack') /\ stack'[k].kind = "handler"
    BY DEF Running
  <2>2. k \in 1..n
    BY <1>1, <1>2, <2>1
  <2>3. k \in 1..Len(stack)
    BY <1>1, <1>2, <2>2
  <2> QED
    BY <1>1, <2>1, <2>2, <2>3 DEF Running, Alike
<1>4. \A s : Handling(s) = {k \in Running(s) : IsLive(s[k].entry)}
  BY DEF Handling, Running
<1>5. Handling(stack') = Handling(stack)
  BY <1>3, <1>4 DEF Stays
<1>6. \A k \in Handling(stack) : stack'[k].entry = stack[k].entry
  BY <1>4 DEF Stays
<1> QED
  BY <1>5, <1>6 DEF Sent, Handled

\* Only a frame that is not a handler's has gone.
LEMMA BelowTop ==
    ASSUME IInv, stack # <<>>, Top.kind # "handler", NEW t, Len(t) \in Nat,
           Len(t) >= Len(stack) - 1,
           \A k \in 1..(Len(stack) - 1) : t[k] = stack[k]
    PROVE  Stays(stack, t)
<1>1. Len(stack) \in Nat /\ Top = stack[Len(stack)]
  BY Numbers DEF Top
<1>2. ASSUME NEW k \in Running(stack)
      PROVE  k \in 1..(Len(stack) - 1) /\ stack[k].kind = "handler"
  BY <1>1 DEF Running
<1>3. \A k \in 1..(Len(stack) - 1) : k \in 1..Len(t)
  BY <1>1
<1> QED
  BY <1>2, <1>3 DEF Stays, Running

LEMMA PoppedStays ==
    ASSUME IInv, stack # <<>>, Top.kind # "handler"
    PROVE  Stays(stack, Popped)
<1>1. stack \in Seq(Frames) /\ Len(stack) \in Nat
  BY Numbers DEF IInv, StackInv, Fits
<1>2. /\ Len(Popped) = Len(stack) - 1 /\ Popped \in Seq(Frames)
      /\ \A k \in 1..Len(Popped) : Popped[k] = stack[k]
  BY <1>1, PoppedFrame DEF Popped
<1>3. Len(Popped) \in Nat
  BY <1>2, LenProperties
<1> QED
  BY <1>1, <1>2, <1>3, BelowTop

LEMMA ReplacedStays ==
    ASSUME IInv, stack # <<>>, Top.kind # "handler", NEW f \in Frames
    PROVE  Stays(stack, Replaced(f))
<1>1. stack \in Seq(Frames) /\ Len(stack) \in Nat
  BY Numbers DEF IInv, StackInv, Fits
<1>2. /\ Len(Popped) = Len(stack) - 1 /\ Popped \in Seq(Frames)
      /\ \A k \in 1..Len(Popped) : Popped[k] = stack[k]
  BY <1>1, PoppedFrame DEF Popped
<1>3. /\ Len(Append(Popped, f)) = Len(Popped) + 1
      /\ \A k \in 1..Len(Popped) : Append(Popped, f)[k] = Popped[k]
  BY <1>2, PushedFrame
<1>4. Len(Replaced(f)) = Len(stack)
      /\ \A k \in 1..(Len(stack) - 1) : Replaced(f)[k] = stack[k]
  BY <1>1, <1>2, <1>3 DEF Replaced
<1> QED
  BY <1>1, <1>4, BelowTop

LEMMA AppendStays ==
    ASSUME NEW s \in Seq(Frames), NEW f \in Frames
    PROVE  Stays(s, Append(s, f)) /\ Append(s, f) \in Seq(Frames)
<1> DEFINE t == Append(s, f)
<1>1. /\ t \in Seq(Frames) /\ Len(s) \in Nat /\ Len(t) = Len(s) + 1
      /\ \A k \in 1..Len(s) : t[k] = s[k]
  BY PushedFrame
<1> HIDE DEF t
<1>2. Stays(s, t)
  BY <1>1 DEF Stays, Running
<1> QED
  BY <1>1, <1>2 DEF t

LEMMA EnterSendStays ==
    ASSUME IInv, NEW s \in Seq(Frames), Stays(stack, s),
           NEW r \in Receivers \cup {AnyReceiver},
           NEW ty \in EventTypes \cup {AnyType}, EnterSend(s, r, ty)
    PROVE  Stays(stack, stack')
<1> DEFINE f == Send(r, ty, startOffset)
<1>1. f \in Frames
  BY NewFrames DEF IInv, QueueInv, TypeInv
<1>2. stack' = s \/ stack' = Append(s, f)
  BY DEF EnterSend
<1> HIDE DEF f
<1>3. Stays(s, Append(s, f))
  BY <1>1, AppendStays
<1> QED
  BY <1>2, <1>3 DEF Stays

\* No step but its return ends a handler.
LEMMA QuietStays ==
    ASSUME IInv,
           \/ SkipNull \/ SkipOther \/ HoldDeferred \/ SendDone
           \/ Iterate \/ LeaveLoop \/ AfterSend \/ Select \/ AfterNative
           \/ \E p \in Filters : SendPostedEvents(p[1], p[2])
           \/ \E p \in Removals : RemovePostedEvents(p[1], p[2])
           \/ \E k \in 1..Len(stack) : ExitLoop(k)
           \/ \E wait \in BOOLEAN : ProcessEvents(wait)
           \/ Quit \/ AppExec \/ NestedExec
           \/ \E t \in Posters : RemoteWakeUp(t)
           \/ UNCHANGED vars
    PROVE  Stays(stack, stack')
<1>0. /\ stack \in Seq(Frames) /\ Len(stack) \in Nat
      /\ \A k \in 1..Len(stack) : stack[k] \in Frames
      /\ stack # <<>> => Len(stack) \in 1..Len(stack)
  BY FitsFacts DEF IInv, StackInv, Fits
<1>1. ASSUME stack' = stack PROVE Stays(stack, stack')
  BY <1>1 DEF Stays
<1>2. CASE SkipNull \/ SkipOther \/ HoldDeferred
  <2>1. TopIs("send") /\ Advance
    BY <1>2 DEF SkipNull, SkipOther, HoldDeferred, InPass
  <2>2. stack # <<>> /\ Top \in Frames /\ Top.kind = "send"
    BY <2>1, TopFacts DEF IInv, StackInv
  <2>3. [Top EXCEPT !.i = @ + 1] \in Frames
    BY <2>2, FrameFacts
  <2>4. stack' = stack \/ stack' = Replaced([Top EXCEPT !.i = @ + 1])
    BY <2>1 DEF Advance
  <2> QED
    BY <1>1, <2>2, <2>3, <2>4, ReplacedStays
<1>3. CASE SendDone \/ Select \/ AfterNative
  <2>1. /\ stack' = Popped
        /\ TopIs("send") \/ TopIs("process")
    BY <1>3 DEF SendDone, Select, AfterNative
  <2>2. stack # <<>> /\ Top.kind # "handler"
    BY <2>1 DEF TopIs
  <2> QED
    BY <2>1, <2>2, PoppedStays
<1>4. CASE AfterSend
  <2>1. stack # <<>> /\ Top \in Frames /\ Top.kind = "process"
    BY <1>4, TopFacts DEF AfterSend, IInv, StackInv
  <2>2. CASE interrupt
    BY <1>4, <2>1, <2>2, PoppedStays DEF AfterSend
  <2>3. CASE ~interrupt
    <3> DEFINE w == canWait /\ Top.wait
    <3>1. stack' = Replaced([Top EXCEPT !.pc = "select", !.canWait = w])
      BY <1>4, <2>3 DEF AfterSend
    <3>2. w \in BOOLEAN
      OBVIOUS
    <3> HIDE DEF w
    <3>3. [Top EXCEPT !.pc = "select", !.canWait = w] \in Frames
      BY <2>1, <3>2, SelectFrame
    <3> QED
      BY <2>1, <3>1, <3>3, ReplacedStays
  <2> QED
    BY <2>2, <2>3
<1>5. ASSUME NEW wait \in BOOLEAN, EnterProcess(stack, wait)
      PROVE  Stays(stack, stack')
  <2> DEFINE s == Append(stack, Process(wait))
  <2>1. EnterSend(s, AnyReceiver, AnyType)
    BY <1>5 DEF EnterProcess
  <2>2. s \in Seq(Frames) /\ Stays(stack, s)
    BY <1>0, NewFrames, AppendStays
  <2> HIDE DEF s
  <2> QED
    BY <2>1, <2>2, EnterSendStays
<1>6. CASE Iterate \/ \E wait \in BOOLEAN : ProcessEvents(wait)
  <2>1. \E wait \in BOOLEAN : EnterProcess(stack, wait)
    BY <1>6 DEF Iterate, ProcessEvents
  <2> QED
    BY <1>5, <2>1
<1>7. CASE \E p \in Filters : SendPostedEvents(p[1], p[2])
  <2>1. PICK p \in Filters : EnterSend(stack, p[1], p[2])
    BY <1>7 DEF SendPostedEvents
  <2>2. Stays(stack, stack)
    BY DEF Stays
  <2> QED
    BY <1>0, <2>1, <2>2, FilterTypes, EnterSendStays
<1>8. CASE AppExec \/ NestedExec
  <2>1. stack' = Append(stack, Exec)
    BY <1>8 DEF AppExec, NestedExec, EnterLoop
  <2> QED
    BY <1>0, <2>1, NewFrames, AppendStays
<1>9. CASE LeaveLoop
  <2>1. stack # <<>> /\ Top.kind = "exec" /\ Top = stack[Len(stack)]
    BY <1>9, TopFacts DEF LeaveLoop, IInv, StackInv
  <2>2. CASE Popped # <<>>
    <3>1. stack' = Popped
      BY <1>9, <2>2 DEF LeaveLoop
    <3> QED
      BY <2>1, <3>1, PoppedStays
  <2>3. CASE Popped = <<>>
    <3>1. Len(Popped) = Len(stack) - 1
      BY <1>0, <2>1, PoppedFrame DEF Popped
    <3>2. Len(<<>>) = 0
      BY EmptySeq
    <3>3. Len(stack) = 1
      BY <1>0, <2>3, <3>1, <3>2
    <3>4. \A k \in 1..Len(stack) : k = Len(stack)
      BY <3>3
    <3> QED
      BY <2>1, <3>4 DEF Stays, Running
  <2> QED
    BY <2>2, <2>3
<1>10. CASE Quit
  <2>1. stack' = Exited(stack)
    BY <1>10 DEF Quit, ExitAll
  <2>2. /\ Len(Exited(stack)) = Len(stack)
        /\ \A k \in 1..Len(stack) : Alike(stack[k], Exited(stack)[k])
    BY ExitedStack DEF IInv, StackInv
  <2> QED
    BY <2>1, <2>2 DEF Stays, Running, Alike
<1>11. ASSUME NEW k \in 1..Len(stack), ExitLoop(k) PROVE Stays(stack, stack')
  <2>1. stack' = [stack EXCEPT ![k].exit = TRUE] /\ stack[k].kind = "exec"
    BY <1>11 DEF ExitLoop
  <2>2. stack \in [1..Len(stack) -> Frames]
    BY <1>0, LenProperties
  <2>3. \A j \in 1..Len(stack) : j # k => stack'[j] = stack[j]
    BY <2>1, <2>2
  <2>4. Len(stack') = Len(stack)
    <3>1. stack' \in Seq(Frames)
      <4>1. [stack[k] EXCEPT !.exit = TRUE] \in Frames
        BY <1>0, <2>1, FrameFacts
      <4>2. stack' \in [1..Len(stack) -> Frames]
        BY <2>1, <2>2, <4>1
      <4> QED
        BY <1>0, <4>2, IsASeq
    <3>2. DOMAIN stack' = 1..Len(stack)
      BY <2>1, <2>2
    <3>3. Len(stack') \in Nat /\ DOMAIN stack' = 1..Len(stack')
      BY <3>1, LenProperties
    <3> QED
      BY <1>0, <3>2, <3>3
  <2>5. \A j \in Running(stack) : j # k /\ j \in 1..Len(stack)
    BY <2>1 DEF Running
  <2> QED
    BY <2>3, <2>4, <2>5 DEF Stays, Running
<1>12. CASE \/ \E p \in Removals : RemovePostedEvents(p[1], p[2])
            \/ \E t \in Posters : RemoteWakeUp(t)
            \/ UNCHANGED vars
  BY <1>1, <1>12 DEF RemovePostedEvents, RemoteWakeUp, vars
<1> QED
  BY <1>2, <1>3, <1>4, <1>6, <1>7, <1>8, <1>9, <1>10, <1>11, <1>12

\* What has no event is not a deferred delete; and during a pass nothing was
\* removed in front of insertionOffset but in place.
NativeInv == \A k \in Running(stack) :
                 stack[k].entry.event = 0 => stack[k].entry.type = "Plain"
OffsetInv == recursion # 0 => insertionOffset <= Len(list)

SameQueue == UNCHANGED <<Pending, Sent, lastEvent, alive, Order, Due,
                         recursion, Late>>

LEMMA QueueTypes ==
    ASSUME IInv
    PROVE  /\ list \in Seq(Entries) /\ WellOrdered(list) /\ Len(list) \in Nat
           /\ SortedFrom(list, insertionOffset)
           /\ insertionOffset \in Nat /\ insertionOffset \in Int
           /\ startOffset \in Nat /\ startOffset <= Len(list)
           /\ startOffset <= insertionOffset
           /\ \A k \in 1..startOffset : ~IsLive(list[k])
           /\ recursion \in Nat /\ lastEvent \in Nat
           /\ GoodQueue(list, startOffset, insertionOffset)
           /\ Order \subseteq Pending \X Pending /\ Due \subseteq Pending
           /\ Late \in Nat /\ (Late > 0 <=> insertionOffset > Len(list))
<1>1. /\ list \in Seq(Entries) /\ WellOrdered(list)
      /\ SortedFrom(list, insertionOffset)
      /\ insertionOffset \in Nat /\ insertionOffset \in Int
      /\ startOffset \in Nat /\ startOffset <= Len(list)
      /\ startOffset <= insertionOffset
      /\ \A k \in 1..startOffset : ~IsLive(list[k])
      /\ recursion \in Nat /\ lastEvent \in Nat
      /\ GoodQueue(list, startOffset, insertionOffset)
  BY FitsFacts DEF IInv, QueueInv, TypeInv, GoodQueue, StackInv
<1>2. Len(list) \in Nat
  BY <1>1, EntriesOfList
<1>3. Order \subseteq Pending \X Pending /\ Due \subseteq Pending
  BY <1>1, ReadOff DEF Order, Due, Pending
<1>4. Late \in Nat /\ (Late > 0 <=> insertionOffset > Len(list))
  BY <1>1, AllFound DEF Late
<1> QED
  BY <1>1, <1>2, <1>3, <1>4

\* Nothing the abstract queue sees has changed.
LEMMA NothingSeen ==
    ASSUME IInv, OffsetInv, Quiet(stack, stack'), Stays(stack, stack'),
           UNCHANGED <<list, insertionOffset, recursion, lastEvent, alive>>
    PROVE  SameQueue /\ OffsetInv'
<1>1. Sent' = Sent
  BY SentSame
<1> QED
  BY <1>1 DEF SameQueue, OffsetInv, Pending, Order, Due, Late

\* Posting.
LEMMA PostInQueue ==
    ASSUME IInv, OffsetInv, NEW p \in Posts, NEW level \in Nat,
           NEW poster \in Nat, p[1] \in alive,
           Enqueue(p[1], p[2], p[3], level, poster),
           UNCHANGED <<insertionOffset, recursion, alive, stack>>
    PROVE  Queue!PostInOrder(p[1], p[2], p[3]) /\ OffsetInv'
<1> DEFINE entry == NewEntry(p[1], p[2], p[3], level, poster)
           e == Abstracted(entry)
           ahead == InFront(Pending, Due, e)
<1>1. /\ list' = AddEvent(list, insertionOffset, entry)
      /\ lastEvent' = lastEvent + 1
  BY DEF Enqueue, NewEntry
<1>2. p[1] \in Receivers /\ p[2] \in EventTypes /\ p[3] \in Priorities
  BY EventLoopAssumption
<1>3. lastEvent \in Nat /\ lastEvent + 1 \in Nat /\ lastEvent + 1 # 0
  BY QueueTypes
<1>4. /\ entry \in Entries /\ IsLive(entry) /\ entry.event = lastEvent + 1
      /\ e = Queue!Event(lastEvent + 1, p[1], p[2], p[3])
      /\ e.priority = p[3]
  BY <1>2, <1>3 DEF NewEntry, Entries, IsLive, Abstracted, Queue!Event
<1> HIDE DEF entry
<1>5. \A f \in LiveEntries(list) :
          f.event # entry.event /\ f.event < entry.event
  BY <1>3, <1>4, Numbers
<1> HIDE DEF e
<1>6. /\ Pending' = Pending \cup {e}
      /\ Order' = Order \cup (ahead \X {e}) \cup ({e} \X (Pending \ ahead))
      /\ Len(list') = Len(list) + 1
      /\ insertionOffset > Len(list) => Due' = Due \cup {e}
      /\ insertionOffset <= Len(list) => Due' = Due
  BY <1>1, <1>4, <1>5, QueueTypes, JoinsOrder DEF Pending, Order, Due, e
<1>7. /\ insertionOffset > Len(list)
             => Late > 0 /\ Late' = Late - 1
      /\ insertionOffset <= Len(list) => Late = 0 /\ Late' = 0
  BY <1>6, QueueTypes DEF Late, Beyond
<1>8. insertionOffset > Len(list) \/ insertionOffset <= Len(list)
  BY QueueTypes
<1>9. Queue!Post(p[1], p[2], p[3])
  <2>1. Sent' = Sent
    BY DEF Sent
  <2> QED
    BY <1>1, <1>4, <1>6, <2>1 DEF Queue!Post, Pending, Sent
<1>10. Queue!Joins(Pending, e)
  <2>1. Order \cap (Pending \X Pending) = Order
    BY QueueTypes
  <2> QED
    BY <1>6, <2>1 DEF Queue!Joins, Queue!Pairs, InFront, Order, Due
<1>11. \/ Late > 0 /\ Due' = Due \cup {e} /\ Late' = Late - 1
       \/ Late = 0 /\ Due' = Due /\ Late' = Late
  BY <1>6, <1>7, <1>8
<1>12. Queue!PostInOrder(p[1], p[2], p[3])
  BY <1>4, <1>9, <1>10, <1>11 DEF Queue!PostInOrder, Pending, Due, Late
<1>13. OffsetInv'
  BY <1>6, QueueTypes DEF OffsetInv
<1> QED
  BY <1>12, <1>13

\* Removal on request, and by a loop that begins.
LEMMA RemoveInQueue ==
    ASSUME IInv, OffsetInv, NEW r \in Receivers \cup {AnyReceiver},
           NEW ty \in EventTypes, RemovePosted(r, ty),
           UNCHANGED <<startOffset, insertionOffset, recursion, lastEvent, alive>>,
           Quiet(stack, stack'), Stays(stack, stack')
    PROVE  Queue!RemoveInOrder(r, ty) /\ OffsetInv'
<1>1. QueueInv' /\ Taking(r, ty)
  BY RemoveQueue DEF IInv, Taking
<1>2. /\ Pending' = Pending \ Queue!Matching(r, ty)
      /\ Queue!Leaving /\ Queue!MovingUp
  BY <1>1, RemovalInOrder
<1>3. Sent' = Sent
  BY SentSame
<1>4. Queue!RemoveInOrder(r, ty)
  BY <1>2, <1>3 DEF Queue!RemoveInOrder, Queue!Remove, Pending, Sent
<1>5. OffsetInv'
  <2>1. CASE list' = list
    BY <2>1 DEF OffsetInv
  <2>2. CASE recursion # 0 /\ list' = NullAll(list, Doomed(r, ty))
    <3>1. Len(list') = Len(list)
      <4>1. Doomed(r, ty) \in SUBSET Live(list)
        BY DEF Doomed
      <4> QED
        BY <2>2, <4>1, QueueTypes, NulledAll
    <3> QED
      BY <3>1 DEF OffsetInv
  <2> QED
    BY <2>1, <2>2 DEF RemovePosted, ClosesUp, OffsetInv
<1> QED
  BY <1>4, <1>5

\* One entry is nulled: its event leaves the rest as it is.
LEMMA OneNulled ==
    ASSUME IInv, NEW k \in Live(list)
    PROVE  LET new == [list EXCEPT ![k] = Nulled(@)]
               q == Abstracted(list[k])
           IN /\ new \in Seq(Entries) /\ Len(new) = Len(list)
              /\ WellOrdered(new) /\ SortedFrom(new, insertionOffset)
              /\ LiveEntries(new) = LiveEntries(list) \ {list[k]}
              /\ q \in Pending /\ Waiting(new) = Pending \ {q}
              /\ Precedence(new) = Order \cap (Waiting(new) \X Waiting(new))
              /\ Found(new, insertionOffset) = Due \ {q}
<1> DEFINE new == [list EXCEPT ![k] = Nulled(@)]
           q == Abstracted(list[k])
<1>1. /\ new \in Seq(Entries) /\ Len(new) = Len(list)
      /\ WellOrdered(new) /\ SortedFrom(new, insertionOffset)
      /\ Live(new) = Live(list) \ {k}
      /\ LiveEntries(new) = LiveEntries(list) \ {list[k]}
  BY QueueTypes, NulledEvent
<1>2. \A j \in Live(new) : new[j] = list[j]
  <2>1. list \in [1..Len(list) -> Entries]
    BY QueueTypes, LenProperties
  <2>2. \A j \in Live(new) : j \in 1..Len(list) /\ j # k
    BY <1>1 DEF Live
  <2> QED
    BY <2>1, <2>2
<1> HIDE DEF new
<1>3. /\ Waiting(new) \subseteq Pending
      /\ Precedence(new) = Order \cap (Waiting(new) \X Waiting(new))
      /\ Found(new, insertionOffset) = Due \cap Waiting(new)
  BY <1>1, <1>2, QueueTypes, InPlaceOrder DEF Pending, Order, Due
<1>4. q \in Pending
  BY QueueTypes, ReadOff DEF Pending
<1>5. ASSUME NEW o \in Pending PROVE o \in Waiting(new) <=> o # q
  <2>1. PICK j \in Live(list) : o = Abstracted(list[j])
    BY QueueTypes, ReadOff DEF Pending
  <2>2. o = q <=> j = k
    BY <2>1, QueueTypes, ReadOff
  <2>3. j # k => o \in Waiting(new)
    BY <1>1, <1>2, <2>1 DEF Waiting
  <2>4. q \notin Waiting(new)
    <3> SUFFICES ASSUME NEW i \in Live(new), q = Abstracted(new[i]) PROVE FALSE
      BY DEF Waiting
    <3>1. i \in Live(list) /\ i # k /\ q = Abstracted(list[i])
      BY <1>1, <1>2
    <3> QED
      BY <3>1, QueueTypes, ReadOff
  <2> QED
    BY <2>2, <2>3, <2>4
<1> HIDE DEF q
<1>6. Waiting(new) = Pending \ {q}
  BY <1>3, <1>5
<1>7. Due \cap Waiting(new) = Due \ {q}
  BY <1>6, QueueTypes
<1> QED
  BY <1>1, <1>3, <1>4, <1>6, <1>7 DEF new, q

\* The entry a pass has come to is due, and the pass is under way.
LEMMA DueNext ==
    ASSUME IInv, InPass, IsLive(Pe)
    PROVE  /\ Position + 1 \in Live(list) /\ Pe = list[Position + 1]
           /\ Abstracted(Pe) \in Due /\ Abstracted(Pe) \in Pending
           /\ recursion > 0
<1>1. /\ Position + 1 \in Live(list) /\ Pe = list[Position + 1]
      /\ Position + 1 <= insertionOffset
  BY AtPosition DEF IInv, QueueInv
<1>2. PICK k \in Live(list) : k = Position + 1
  BY <1>1
<1>3. Abstracted(list[k]) \in Due /\ Abstracted(list[k]) \in Pending
  BY <1>1, <1>2, QueueTypes, ReadOff DEF Due, Pending
<1>4. recursion > 0
  <2>1. /\ Len(stack) \in Nat /\ Len(stack) \in 1..Len(stack)
        /\ stack[Len(stack)].kind \in {"send"}
    BY TopFacts DEF InPass, IInv, StackInv
  <2> QED
    BY <2>1, DeepFacts DEF IInv, StackInv, Fits
<1> QED
  BY <1>1, <1>2, <1>3, <1>4

\* A pass without filters sends the first event of the list, another one a
\* deferred delete.
LEMMA FirstOrDelete ==
    ASSUME IInv, PassInv, OrderedFilters, InPass, IsLive(Pe), Matches(Pe),
           Pe.type # "DeferredDelete"
    PROVE  \A k \in Live(list) : k = Position + 1 \/ Position + 1 < k
<1>1. TopIs("send") /\ Position \in Nat
  BY AtPosition DEF InPass, IInv, QueueInv
<1>2. Unfiltered(Top)
  <2>1. MayPass(Top.receiver, Top.type)
    BY <1>1, TopFacts DEF IInv, StackInv, PassInv
  <2>2. Top.type # "DeferredDelete"
    <3>1. "DeferredDelete" # AnyType
      BY EventLoopAssumption DEF EventTypes
    <3> QED
      BY <3>1 DEF Matches
  <2>3. <<Top.receiver, Top.type>> \in Filters
            => <<Top.receiver, Top.type>> = <<AnyReceiver, AnyType>>
    BY <2>2 DEF OrderedFilters
  <2> QED
    BY <2>1, <2>2, <2>3 DEF MayPass, Unfiltered
<1>3. Position = startOffset
  BY <1>2 DEF Position
<1>4. ASSUME NEW k \in Live(list) PROVE k > startOffset /\ k \in Nat
  <2>1. k \in 1..Len(list) /\ IsLive(list[k])
    BY DEF Live
  <2> QED
    BY <2>1, QueueTypes
<1> QED
  BY <1>1, <1>3, <1>4

\* Sending.
LEMMA SendInQueue ==
    ASSUME IInv, OffsetInv, PassInv, OrderedFilters, Deliver
    PROVE  Queue!SendInOrder(Abstracted(Pe)) /\ Abstracted(Pe) \in Pending
           /\ OffsetInv'
<1> DEFINE q == Abstracted(Pe)
<1>1. /\ InPass /\ IsLive(Pe) /\ Matches(Pe)
      /\ list' = [list EXCEPT ![Position + 1] = Nulled(@)]
      /\ UNCHANGED <<insertionOffset, recursion, alive, lastEvent>>
  BY DEF Deliver
<1>2. PICK k \in Live(list) : k = Position + 1 /\ Pe = list[k]
  BY <1>1, DueNext
<1>3. /\ Len(list') = Len(list) /\ q \in Pending /\ Pending' = Pending \ {q}
      /\ Order' = Order \cap (Pending' \X Pending')
      /\ Due' = Due \ {q}
  BY <1>1, <1>2, OneNulled DEF Pending, Order, Due
<1>4. q \in Due /\ recursion > 0
  BY <1>1, DueNext
<1>5. Late' = Late /\ OffsetInv'
  BY <1>1, <1>3 DEF Late, Beyond, OffsetInv
<1>6. /\ q.event = Pe.event /\ q.receiver = Pe.receiver /\ q.type = Pe.type
      /\ q.priority = Pe.priority
  BY Fields
<1> HIDE DEF q
<1>7. Sent' = Sent \cup {q}
  <2>1. CallsHandler(stack, stack', Pe)
    BY DeliverStep DEF Sending
  <2>2. /\ Len(stack') = Len(stack) + 1 /\ Len(stack) \in Nat
        /\ stack'[Len(stack')].entry = Pe
        /\ stack'[Len(stack')].kind = "handler"
        /\ \A j \in 1..Len(stack) : Alike(stack[j], stack'[j])
        /\ \A j \in Running(stack') :
              \/ j = Len(stack')
              \/ j \in Running(stack) /\ stack'[j].entry = stack[j].entry
    BY <2>1, CalledFrames
  <2>3. \A s : Handling(s) = {j \in Running(s) : IsLive(s[j].entry)}
    BY DEF Handling, Running
  <2>4. Len(stack') \in Handling(stack')
    BY <1>1, <2>2 DEF Handling
  <2>5. \A j \in Running(stack) :
            j \in Running(stack') /\ stack'[j].entry = stack[j].entry
    BY <2>2 DEF Running, Alike
  <2>6. \A j \in Handling(stack) :
            j \in Handling(stack') /\ stack'[j].entry = stack[j].entry
    BY <2>3, <2>5
  <2>7. \A j \in Handling(stack') :
            \/ j = Len(stack')
            \/ j \in Handling(stack) /\ stack'[j].entry = stack[j].entry
    BY <2>2, <2>3
  <2>8. /\ Sent = {Abstracted(stack[j].entry) : j \in Handling(stack)}
        /\ Sent' = {Abstracted(stack'[j].entry) : j \in Handling(stack')}
    BY DEF Sent, Handled
  <2>9. ASSUME NEW o \in Sent' PROVE o \in Sent \cup {q}
    <3>1. PICK j \in Handling(stack') : o = Abstracted(stack'[j].entry)
      BY <2>8, <2>9
    <3> QED
      BY <2>2, <2>7, <2>8, <3>1 DEF q
  <2>10. ASSUME NEW o \in Sent PROVE o \in Sent'
    <3>1. PICK j \in Handling(stack) : o = Abstracted(stack[j].entry)
      BY <2>8, <2>10
    <3> QED
      BY <2>6, <2>8, <3>1
  <2>11. q \in Sent'
    BY <2>2, <2>4, <2>8 DEF q
  <2> QED
    BY <2>9, <2>10, <2>11
<1>8. ASSUME NEW o \in Pending, Pe.type # "DeferredDelete"
      PROVE  /\ <<o, q>> \notin Order
             /\ o.receiver = q.receiver /\ o.priority = q.priority
                /\ o.type # "DeferredDelete" => q.event <= o.event
  <2>1. PICK j \in Live(list) : o = Abstracted(list[j])
    BY QueueTypes, ReadOff DEF Pending
  <2>2. j = k \/ k < j
    BY <1>1, <1>2, <1>8, FirstOrDelete
  <2>3. j \in Nat /\ k \in Nat /\ list[j].event \in Nat /\ list[k].event \in Nat
    BY QueueTypes, Positions
  <2>4. <<o, q>> \notin Order
    <3>1. <<o, q>> \in Order <=> j < k
      BY <1>2, <2>1, QueueTypes, ReadOff DEF Order, q
    <3> QED
      BY <2>2, <2>3, <3>1
  <2>5. /\ o.event = list[j].event /\ o.receiver = list[j].receiver
        /\ o.type = list[j].type /\ o.priority = list[j].priority
    BY <2>1, Fields
  <2>6. ASSUME o.receiver = q.receiver, o.priority = q.priority,
               o.type # "DeferredDelete", k < j
        PROVE  list[k].event < list[j].event
    <3>1. SameKind(list[k], list[j])
      BY <1>2, <1>6, <1>8, <2>5, <2>6 DEF SameKind
    <3> QED
      BY <2>6, <3>1, QueueTypes DEF WellOrdered
  <2> QED
    BY <1>2, <1>6, <2>2, <2>3, <2>4, <2>5, <2>6
<1>9. Queue!Oldest(q)
  <2> SUFFICES ASSUME NEW o \in Pending, o.receiver = q.receiver,
                      o.priority = q.priority,
                      "DeferredDelete" \notin {o.type, q.type}
               PROVE  q.event <= o.event
    BY DEF Queue!Oldest, Pending
  <2> QED
    BY <1>6, <1>8
<1>10. Queue!Take(q)
  <2>1. q.receiver \in alive
    <3>1. Pe \in LiveEntries(list)
      BY <1>2 DEF LiveEntries
    <3> QED
      BY <1>6, <3>1 DEF IInv, QueueInv, EventsInv
  <2> QED
    BY <1>1, <1>3, <1>7, <2>1 DEF Queue!Take, Pending, Sent
<1>11. Queue!Leaving
  BY <1>3 DEF Queue!Leaving, Queue!Pairs, Order, Pending
<1>12. q.type = "DeferredDelete" \/ \A o \in Pending : <<o, q>> \notin Order
  BY <1>6, <1>8
<1>13. Queue!SendInOrder(q)
  BY <1>1, <1>3, <1>4, <1>5, <1>9, <1>10, <1>11, <1>12
     DEF Queue!SendInOrder, Queue!Send, Pending, Order, Due, Late
<1> QED
  BY <1>3, <1>5, <1>13 DEF q

\* Putting a deferred delete back.
LEMMA HoldInQueue ==
    ASSUME IInv, OffsetInv, HoldDeferred
    PROVE  /\ \/ Queue!PutBack(Abstracted(Pe)) /\ Abstracted(Pe) \in Pending
              \/ SameQueue
           /\ OffsetInv'
<1>1. /\ InPass /\ IsLive(Pe) /\ Held(Pe)
      /\ UNCHANGED <<insertionOffset, recursion, alive, lastEvent>>
  BY DEF HoldDeferred
<1>2. Quiet(stack, stack') /\ Stays(stack, stack')
  BY QuietStep, QuietStays DEF Keeping
<1>3. CASE ~Unfiltered(Top)
  <2>1. list' = list
    BY <1>3 DEF HoldDeferred
  <2> QED
    BY <1>1, <1>2, <2>1, NothingSeen
<1>4. CASE Unfiltered(Top)
  <2> DEFINE lst == [list EXCEPT ![Position + 1] = Nulled(@)]
             q == Abstracted(Pe)
             rest == Pending \ {q}
             ahead == InFront(rest, Due \ {q}, q)
  <2>1. PICK k \in Live(list) : k = Position + 1 /\ Pe = list[k]
    BY <1>1, DueNext
  <2>2. /\ lst \in Seq(Entries) /\ Len(lst) = Len(list)
        /\ WellOrdered(lst) /\ SortedFrom(lst, insertionOffset)
        /\ LiveEntries(lst) = LiveEntries(list) \ {Pe}
        /\ q \in Pending /\ Waiting(lst) = rest
        /\ Precedence(lst) = Order \cap (rest \X rest)
        /\ Found(lst, insertionOffset) = Due \ {q}
    BY <2>1, OneNulled
  <2>3. list' = AddEvent(lst, insertionOffset, Pe)
    BY <1>4 DEF HoldDeferred
  <2>4. Pe \in LiveEntries(list) /\ Pe \in Entries
    BY <2>1, Numbers DEF LiveEntries
  <2>5. q \in Due /\ recursion > 0 /\ insertionOffset <= Len(list)
        /\ recursion \in Nat
    BY <1>1, DueNext, QueueTypes DEF OffsetInv
  <2> HIDE DEF lst
  <2>6. Pe.type = "DeferredDelete"
    BY <1>1 DEF Held
  <2>7. ASSUME NEW f \in LiveEntries(lst)
        PROVE  /\ f.event # Pe.event
               /\ SameKind(f, Pe) => f.event < Pe.event
    <3>1. f \in LiveEntries(list) /\ f # Pe
      BY <2>2
    <3>2. f.event # Pe.event
      BY <2>4, <3>1, SameEvent DEF IInv
    <3>3. ~SameKind(f, Pe)
      BY <2>4, <2>6, <3>1 DEF SameKind, IInv, QueueInv, EventsInv
    <3> QED
      BY <3>2, <3>3
  <2>8. q.type = Pe.type
    BY Fields
  <2>9. /\ Pending' = rest \cup {q}
        /\ Order' = (Order \cap (rest \X rest)) \cup (ahead \X {q})
                        \cup ({q} \X (rest \ ahead))
        /\ Due' = Due \ {q}
        /\ Len(list') = Len(list) + 1
    <3> DEFINE new == AddEvent(lst, insertionOffset, Pe)
               front == InFront(Waiting(lst), Found(lst, insertionOffset), q)
    <3>1. /\ insertionOffset \in Nat /\ IsLive(Pe)
          /\ lst \in Seq(Entries) /\ WellOrdered(lst)
          /\ SortedFrom(lst, insertionOffset) /\ Pe \in Entries
      BY <1>1, <2>2, <2>4, QueueTypes
    <3>2. /\ Waiting(new) = Waiting(lst) \cup {q}
          /\ Precedence(new) = Precedence(lst) \cup (front \X {q})
                                   \cup ({q} \X (Waiting(lst) \ front))
          /\ Len(new) = Len(lst) + 1
          /\ insertionOffset <= Len(lst)
                => Found(new, insertionOffset) = Found(lst, insertionOffset)
      BY <2>7, <3>1, JoinsOrder
    <3>3. front = ahead
      BY <2>2
    <3> HIDE DEF new, front, ahead, q, rest
    <3>4. list' = new /\ insertionOffset' = insertionOffset
      BY <1>1, <2>3 DEF new
    <3> QED
      BY <2>2, <2>5, <3>2, <3>3, <3>4 DEF Pending, Order, Due
  <2> HIDE DEF q
  <2>10. Pending' = Pending
    BY <2>2, <2>9
  <2>11. Late' = Late /\ OffsetInv'
    BY <1>1, <2>5, <2>9, QueueTypes DEF Late, Beyond, OffsetInv
  <2>12. Sent' = Sent
    BY <1>2, SentSame
  <2>13. Queue!Joins(rest, q)
    <3>1. ahead = {o \in rest : o \in Due \/ o.priority >= q.priority}
      BY DEF InFront
    <3> HIDE DEF ahead, rest
    <3> QED
      BY <2>9, <3>1 DEF Queue!Joins, Queue!Pairs, Order, Due
  <2>14. Queue!PutBack(q)
    BY <1>1, <2>5, <2>6, <2>8, <2>9, <2>10, <2>11, <2>12, <2>13
       DEF Queue!PutBack, Pending, Due, Late, Sent
  <2> QED
    BY <2>2, <2>11, <2>14 DEF q
<1> QED
  BY <1>3, <1>4

\* A pass begins, or has nothing to do.
LEMMA PassInQueue ==
    ASSUME IInv, OffsetInv, NEW s, NEW r, NEW ty, EnterSend(s, r, ty),
           UNCHANGED <<list, lastEvent, alive>>,
           Quiet(stack, stack'), Stays(stack, stack')
    PROVE  (Queue!Begin \/ SameQueue) /\ OffsetInv'
<1>1. CASE UNCHANGED <<recursion, insertionOffset>>
  BY <1>1, NothingSeen
<1>2. CASE recursion' = recursion + 1 /\ insertionOffset' = Len(list)
  <2>1. list \in Seq(Entries) /\ WellOrdered(list) /\ Len(list) \in Nat
    BY QueueTypes
  <2>2. /\ Found(list, Len(list)) = Pending
        /\ Beyond(list, Len(list)) = 0
    BY <2>1, AllFound DEF Beyond, Pending
  <2>3. Pending' = Pending /\ Order' = Order /\ Due' = Pending /\ Late' = 0
    BY <1>2, <2>2 DEF Pending, Order, Due, Late
  <2>4. Sent' = Sent
    BY SentSame
  <2>5. Queue!Begin
    BY <1>2, <2>3, <2>4 DEF Queue!Begin, Pending, Order, Due, Late, Sent
  <2>6. OffsetInv'
    BY <1>2, <2>1 DEF OffsetInv
  <2> QED
    BY <2>5, <2>6
<1> QED
  BY <1>1, <1>2 DEF EnterSend

\* A pass ends.
LEMMA EndInQueue ==
    ASSUME IInv, OffsetInv, SendDone
    PROVE  Queue!End /\ OffsetInv'
<1>1. /\ recursion > 0 /\ recursion' = recursion - 1 /\ recursion \in Nat
      /\ UNCHANGED <<lastEvent, alive>>
  <2>1. /\ Len(stack) \in Nat /\ Len(stack) \in 1..Len(stack)
        /\ stack[Len(stack)].kind \in {"send"}
    BY TopFacts DEF SendDone, IInv, StackInv
  <2>2. recursion > 0
    BY <2>1, DeepFacts DEF IInv, StackInv, Fits
  <2> QED
    BY <2>2, QueueTypes DEF SendDone, CleanUp
<1>2. Sent' = Sent
  <2>1. Quiet(stack, stack') /\ Stays(stack, stack')
    BY QuietStep, QuietStays DEF Keeping
  <2> QED
    BY <2>1, SentSame
<1>3. insertionOffset <= Len(list)
  BY <1>1, QueueTypes DEF OffsetInv
<1>4. /\ Pending' = Pending /\ Order' = Order /\ Due' = Due
      /\ insertionOffset' <= Len(list') /\ Len(list') \in Nat
      /\ insertionOffset' \in Nat
  <2>1. CASE ~Unfiltered(Top)
    <3>1. UNCHANGED <<list, insertionOffset>>
      BY <2>1 DEF SendDone, CleanUp
    <3> QED
      BY <1>3, <3>1, QueueTypes DEF Pending, Order, Due
  <2>2. CASE Unfiltered(Top)
    <3> DEFINE new == SubSeq(list, startOffset + 1, Len(list))
    <3>1. list' = new /\ insertionOffset' = insertionOffset - startOffset
      BY <2>2 DEF SendDone, CleanUp
    <3>2. \A k \in Live(list) : k > startOffset
      <4>1. \A k \in Live(list) : k \in 1..Len(list) /\ IsLive(list[k])
        BY DEF Live
      <4> QED
        BY <4>1, QueueTypes
    <3>3. startOffset \in 0..Len(list)
      BY QueueTypes
    <3>4. /\ Waiting(new) = Waiting(list)
          /\ Precedence(new) = Precedence(list)
          /\ Found(new, insertionOffset - startOffset)
                = Found(list, insertionOffset)
      BY <3>2, <3>3, QueueTypes, DroppedOrder
    <3>5. Len(new) = Len(list) - startOffset
      BY <3>2, <3>3, QueueTypes, DroppedPart
    <3> HIDE DEF new
    <3>6. Pending' = Pending /\ Order' = Order /\ Due' = Due
      BY <3>1, <3>4 DEF Pending, Order, Due
    <3> QED
      BY <1>3, <3>1, <3>5, <3>6, QueueTypes
  <2> QED
    BY <2>1, <2>2
<1>5. Late' = Late
  BY <1>3, <1>4, QueueTypes DEF Late, Beyond
<1>6. Queue!End
  BY <1>1, <1>2, <1>4, <1>5
     DEF Queue!End, Pending, Order, Due, Late, Sent
<1>7. OffsetInv'
  BY <1>4 DEF OffsetInv
<1> QED
  BY <1>6, <1>7

\* The order of a list that has not changed.
LEMMA OrderKept ==
    ASSUME IInv, UNCHANGED <<list, insertionOffset, recursion>>
    PROVE  Pending' = Pending /\ Queue!Leaving /\ Queue!MovingUp
<1>1. Pending' = Pending /\ Order' = Order /\ Due' = Due /\ Late' = Late
  BY DEF Pending, Order, Due, Late
<1>2. Queue!Leaving
  BY <1>1, QueueTypes DEF Queue!Leaving, Queue!Pairs, Order, Pending
<1>3. Late > 0 => Due = Pending
  BY QueueTypes, AllFound DEF Late, Due, Pending
<1>4. Queue!MovingUp
  BY <1>1, <1>3, QueueTypes DEF Queue!MovingUp, Due, Pending, Late
<1> QED
  BY <1>1, <1>2, <1>4

\* The handlers below the one that returns run on.
LEMMA HandlerGone ==
    ASSUME IInv, RunningInv, InHandler, Len(stack') = Len(stack) - 1,
           \A k \in 1..(Len(stack) - 1) : Alike(stack[k], stack'[k])
    PROVE  /\ IsLive(Top.entry) => /\ Abstracted(Top.entry) \in Sent
                                   /\ Sent' = Sent \ {Abstracted(Top.entry)}
           /\ ~IsLive(Top.entry) => Sent' = Sent
           /\ Quiet(stack, stack')
<1> DEFINE n == Len(stack)
           q == Abstracted(Top.entry)
<1>1. n \in Nat /\ n \in Running(stack) /\ Top = stack[n] /\ n \in 1..n
  BY Numbers DEF Running
<1>2. \A s : Handling(s) = {k \in Running(s) : IsLive(s[k].entry)}
  BY DEF Handling, Running
<1>3. \A k \in Running(stack) :
          k \in 1..n /\ stack[k].kind = "handler"
  BY DEF Running
<1>4. \A k \in Running(stack) :
          k = n \/ (k \in Running(stack') /\ stack'[k].entry = stack[k].entry)
  BY <1>1, <1>3 DEF Running, Alike
<1>5. \A k \in Running(stack') :
          k # n /\ k \in Running(stack) /\ stack'[k].entry = stack[k].entry
  <2> TAKE k \in Running(stack')
  <2>1. k \in 1..Len(stack') /\ stack'[k].kind = "handler"
    BY DEF Running
  <2>2. k \in 1..(n - 1) /\ k \in 1..n /\ k # n
    BY <1>1, <2>1
  <2> QED
    BY <2>1, <2>2 DEF Running, Alike
<1> HIDE DEF n
<1>6. /\ \A k \in Handling(stack') : /\ k # n /\ k \in Handling(stack)
                                     /\ stack'[k].entry = stack[k].entry
      /\ \A k \in Handling(stack) :
            \/ k = n
            \/ k \in Handling(stack') /\ stack'[k].entry = stack[k].entry
  BY <1>2, <1>4, <1>5
<1>7. /\ Sent = {Abstracted(stack[k].entry) : k \in Handling(stack)}
      /\ Sent' = {Abstracted(stack'[k].entry) : k \in Handling(stack')}
  BY DEF Sent, Handled
<1>8. \A k \in Handling(stack) : Abstracted(stack[k].entry) = q => k = n
  <2> SUFFICES ASSUME NEW k \in Handling(stack),
                      Abstracted(stack[k].entry) = Abstracted(stack[n].entry)
               PROVE  k = n
    BY <1>1
  <2>1. stack[k].entry.event = stack[n].entry.event
    BY Fields
  <2>2. k \in Running(stack) /\ stack[k].entry.event # 0
    BY <1>2 DEF IsLive
  <2> QED
    BY <1>1, <2>1, <2>2 DEF RunningInv
<1>9. Sent' \subseteq Sent
  <2> SUFFICES ASSUME NEW o \in Sent' PROVE o \in Sent
    OBVIOUS
  <2>1. PICK k \in Handling(stack') : o = Abstracted(stack'[k].entry)
    BY <1>7
  <2> QED
    BY <1>6, <1>7, <2>1
<1>10. ASSUME IsLive(Top.entry) PROVE q \in Sent /\ Sent' = Sent \ {q}
  <2>1. n \in Handling(stack)
    BY <1>1, <1>2, <1>10
  <2>2. q \in Sent
    BY <1>1, <1>7, <2>1
  <2>3. q \notin Sent'
    <3> SUFFICES ASSUME q \in Sent' PROVE FALSE
      OBVIOUS
    <3>1. PICK k \in Handling(stack') : q = Abstracted(stack'[k].entry)
      BY <1>7
    <3> HIDE DEF q
    <3> QED
      BY <1>6, <1>8, <3>1
  <2>4. ASSUME NEW o \in Sent, o # q PROVE o \in Sent'
    <3>1. PICK k \in Handling(stack) : o = Abstracted(stack[k].entry)
      BY <1>7
    <3>2. k # n
      BY <1>1, <2>4, <3>1
    <3> QED
      BY <1>6, <1>7, <3>1, <3>2
  <2> HIDE DEF q
  <2> QED
    BY <1>9, <2>2, <2>3, <2>4
<1>11. ASSUME ~IsLive(Top.entry) PROVE Sent' = Sent
  <2>1. n \notin Handling(stack)
    BY <1>1, <1>2, <1>11
  <2>2. ASSUME NEW o \in Sent PROVE o \in Sent'
    <3>1. PICK k \in Handling(stack) : o = Abstracted(stack[k].entry)
      BY <1>7
    <3> QED
      BY <1>6, <1>7, <2>1, <3>1
  <2> QED
    BY <1>9, <2>2
<1>12. Quiet(stack, stack')
  <2>1. n - 1 \in 0..n /\ Len(stack') = n - 1
    BY <1>1 DEF n
  <2>2. PICK m \in 0..n : m = n - 1
    BY <2>1
  <2>3. (\A k \in 1..m : Alike(stack[k], stack'[k])) /\ Len(stack') = m
    BY <2>1, <2>2 DEF n
  <2>4. m \in Nat /\ m <= Len(stack')
    BY <1>1, <2>2, <2>3
  <2>5. \A k \in (m + 1)..Len(stack') : MayPush(stack'[k])
    BY <2>3, <2>4
  <2> QED
    BY <2>3, <2>4, <2>5 DEF Quiet, n
<1> QED
  BY <1>10, <1>11, <1>12 DEF q

\* A handler returns.
LEMMA ReturnInQueue ==
    ASSUME IInv, RunningInv, NativeInv, OffsetInv, ReturnFromHandler
    PROVE  /\ \/ /\ Queue!ReturnInOrder(Abstracted(Top.entry))
                 /\ Abstracted(Top.entry) \in Sent
              \/ SameQueue
           /\ OffsetInv'
<1> DEFINE e == Top.entry
           q == Abstracted(e)
<1>1. /\ InHandler
      /\ UNCHANGED <<startOffset, insertionOffset, recursion, lastEvent>>
      /\ stack' = Popped \/ stack' = Exited(Popped)
      /\ e.type = "DeferredDelete" =>
            RemovePosted(e.receiver, AnyType) /\ alive' = alive \ {e.receiver}
      /\ e.type # "DeferredDelete" => UNCHANGED <<list, alive>>
  BY DEF ReturnFromHandler, ExitAll
<1>2. /\ Len(stack) \in Running(stack) /\ Top = stack[Len(stack)]
      /\ stack \in Seq(Frames) /\ stack # <<>> /\ Len(stack) \in Nat
      /\ e \in HandlerEntries /\ e.receiver \in Receivers
  <2>1. /\ Len(stack) \in Running(stack) /\ Top = stack[Len(stack)]
        /\ Len(stack) \in Nat
    BY <1>1, Numbers
  <2>2. stack # <<>> /\ Top \in Frames /\ Top.kind = "handler"
    BY <1>1, TopFacts DEF InHandler, IInv, StackInv
  <2>3. e \in HandlerEntries
    BY <2>2, FrameFacts
  <2>4. e.receiver \in Receivers
    BY <2>3 DEF HandlerEntries
  <2> QED
    BY <2>1, <2>2, <2>3, <2>4 DEF IInv, StackInv, Fits
<1>3. /\ Len(stack') = Len(stack) - 1
      /\ \A k \in 1..(Len(stack) - 1) : Alike(stack[k], stack'[k])
  <2>1. /\ Len(Popped) = Len(stack) - 1 /\ Popped \in Seq(Frames)
        /\ \A k \in 1..Len(Popped) : Popped[k] = stack[k]
    BY <1>2, PoppedFrame DEF Popped
  <2>2. \A k \in 1..Len(Popped) : Alike(stack[k], Popped[k])
    BY <2>1 DEF Alike
  <2>3. /\ Len(Exited(Popped)) = Len(Popped)
        /\ \A k \in 1..Len(Popped) : Alike(Popped[k], Exited(Popped)[k])
    <3>1. Fits(Popped, Deep(Popped, Levels, Len(Popped)),
                       Deep(Popped, {"send"}, Len(Popped)))
      BY <2>1 DEF Fits
    <3> QED
      BY <3>1, ExitedStack
  <2> QED
    BY <1>1, <2>1, <2>2, <2>3 DEF Alike
<1>4. /\ IsLive(e) => q \in Sent /\ Sent' = Sent \ {q}
      /\ ~IsLive(e) => Sent' = Sent
  BY <1>1, <1>3, HandlerGone
<1>5. q.type = e.type /\ q.receiver = e.receiver
  BY Fields
<1> HIDE DEF e, q
<1>6. CASE ~IsLive(e)
  <2>1. e.type = "Plain"
    BY <1>2, <1>6 DEF NativeInv, IsLive, e
  <2>2. UNCHANGED <<list, alive>>
    BY <1>1, <2>1
  <2>3. SameQueue
    BY <1>1, <1>4, <1>6, <2>2 DEF SameQueue, Pending, Order, Due, Late
  <2>4. OffsetInv'
    BY <1>1, <2>2 DEF OffsetInv
  <2> QED
    BY <2>3, <2>4
<1>7. CASE IsLive(e) /\ e.type # "DeferredDelete"
  <2>1. UNCHANGED <<list, alive>>
    BY <1>1, <1>7
  <2>2. Pending' = Pending /\ Queue!Leaving /\ Queue!MovingUp
    BY <1>1, <2>1, OrderKept
  <2>3. Queue!Return(q)
    BY <1>1, <1>4, <1>5, <1>7, <2>1, <2>2 DEF Queue!Return, Pending, Sent
  <2>4. Queue!ReturnInOrder(q)
    BY <1>1, <2>2, <2>3 DEF Queue!ReturnInOrder
  <2>5. OffsetInv'
    BY <1>1, <2>1 DEF OffsetInv
  <2> QED
    BY <1>4, <1>7, <2>4, <2>5 DEF q, e
<1>8. CASE IsLive(e) /\ e.type = "DeferredDelete"
  <2>1. /\ RemovePosted(e.receiver, AnyType) /\ alive' = alive \ {e.receiver}
        /\ e.receiver \in Receivers \cup {AnyReceiver}
        /\ e.receiver # AnyReceiver
    BY <1>1, <1>2, <1>8, EventLoopAssumption
  <2>2. QueueInv' /\ Taking(e.receiver, AnyType)
    BY <1>1, <2>1, RemoveQueue DEF IInv, Taking
  <2>3. /\ Pending' = Pending \ Queue!Matching(e.receiver, AnyType)
        /\ Queue!Leaving /\ Queue!MovingUp
    BY <1>1, <2>1, <2>2, RemovalInOrder
  <2>4. Queue!Return(q)
    BY <1>1, <1>4, <1>5, <1>8, <2>1, <2>3 DEF Queue!Return, Pending, Sent
  <2>5. Queue!ReturnInOrder(q)
    BY <1>1, <2>3, <2>4 DEF Queue!ReturnInOrder
  <2>6. OffsetInv'
    <3>1. CASE list' = list
      BY <1>1, <3>1 DEF OffsetInv
    <3>2. CASE recursion # 0 /\ list' = NullAll(list, Doomed(e.receiver, AnyType))
      <4>1. Len(list') = Len(list)
        <5>1. Doomed(e.receiver, AnyType) \in SUBSET Live(list)
          BY DEF Doomed
        <5> QED
          BY <3>2, <5>1, QueueTypes, NulledAll
      <4> QED
        BY <1>1, <4>1 DEF OffsetInv
    <3> QED
      BY <1>1, <2>1, <3>1, <3>2 DEF RemovePosted, ClosesUp, OffsetInv
  <2> QED
    BY <1>4, <1>8, <2>5, <2>6 DEF q, e
<1> QED
  BY <1>6, <1>7, <1>8

\* A native event is none of the queue's.
LEMMA NativeInQueue ==
    ASSUME IInv, OffsetInv, NativeEvent
    PROVE  SameQueue /\ OffsetInv'
<1>1. /\ UNCHANGED <<list, insertionOffset, recursion, lastEvent, alive>>
      /\ CallsHandler(stack, stack', NativeEntry)
  BY NativeStep DEF NativeEvent, queueVars, Waking
<1>2. /\ Len(stack') = Len(stack) + 1 /\ Len(stack) \in Nat
      /\ stack'[Len(stack')].entry = NativeEntry
      /\ \A j \in 1..Len(stack) : Alike(stack[j], stack'[j])
      /\ \A j \in Running(stack') :
            \/ j = Len(stack')
            \/ j \in Running(stack) /\ stack'[j].entry = stack[j].entry
  BY <1>1, CalledFrames
<1>3. ~IsLive(NativeEntry)
  BY DEF NativeEntry, IsLive
<1>4. \A s : Handling(s) = {j \in Running(s) : IsLive(s[j].entry)}
  BY DEF Handling, Running
<1>5. \A j \in Running(stack) :
          j \in Running(stack') /\ stack'[j].entry = stack[j].entry
  BY <1>2 DEF Running, Alike
<1>6. Handling(stack') = Handling(stack)
  BY <1>2, <1>3, <1>4, <1>5
<1>7. \A j \in Handling(stack) : stack'[j].entry = stack[j].entry
  BY <1>4, <1>5
<1>8. Sent' = Sent
  BY <1>6, <1>7 DEF Sent, Handled
<1> QED
  BY <1>1, <1>8 DEF SameQueue, OffsetInv, Pending, Order, Due, Late

LEMMA NativeKept ==
    ASSUME IInv, NativeInv, [Next]_vars
    PROVE  NativeInv'
<1>1. Posting \/ Sending \/ Waking \/ Keeping
  BY Step
<1>2. CASE Posting
  BY <1>2 DEF Posting, NativeInv, Running
<1>3. CASE Keeping
  <2>1. PICK n \in 0..Len(stack) :
            /\ n <= Len(stack')
            /\ \A k \in 1..n : Alike(stack[k], stack'[k])
            /\ \A k \in (n + 1)..Len(stack') : stack'[k].kind # "handler"
    BY <1>3 DEF Keeping, Quiet, MayPush
  <2>2. \A k \in Running(stack') :
            k \in Running(stack) /\ stack'[k].entry = stack[k].entry
    <3> TAKE k \in Running(stack')
    <3>1. k \in 1..Len(stack') /\ stack'[k].kind = "handler"
      BY DEF Running
    <3>2. k \in 1..n /\ k \in 1..Len(stack)
      BY <2>1, <3>1, Numbers
    <3> QED
      BY <2>1, <3>1, <3>2 DEF Running, Alike
  <2> QED
    BY <2>2 DEF NativeInv
<1>4. ASSUME NEW entry, CallsHandler(stack, stack', entry),
             entry.event = 0 => entry.type = "Plain"
      PROVE  NativeInv'
  <2>1. /\ stack'[Len(stack')].entry = entry
        /\ \A k \in Running(stack') :
              \/ k = Len(stack')
              \/ k \in Running(stack) /\ stack'[k].entry = stack[k].entry
    BY <1>4, CalledFrames
  <2> QED
    BY <1>4, <2>1 DEF NativeInv
<1>5. CASE Sending
  <2>1. CallsHandler(stack, stack', Pe) /\ Pe.event # 0
    BY <1>5, Numbers DEF Sending
  <2> QED
    BY <1>4, <2>1
<1>6. CASE Waking
  <2>1. CallsHandler(stack, stack', NativeEntry) /\ NativeEntry.type = "Plain"
    BY <1>6 DEF Waking, NativeEntry
  <2> QED
    BY <1>4, <2>1
<1> QED
  BY <1>1, <1>2, <1>3, <1>5, <1>6

\* Every step is one of the queue, or one it does not see.
LEMMA QueueStep ==
    ASSUME IInv, RunningInv, NativeInv, PassInv, OffsetInv, OrderedFilters,
           [Next]_vars
    PROVE  (Queue!NextInOrder \/ SameQueue) /\ OffsetInv'
<1>1. ASSUME NEW p \in Posts, NEW level \in Nat, NEW poster \in Nat,
             p[1] \in alive, Enqueue(p[1], p[2], p[3], level, poster),
             UNCHANGED <<insertionOffset, recursion, alive, stack>>
      PROVE  Queue!NextInOrder /\ OffsetInv'
  <2>1. Queue!PostInOrder(p[1], p[2], p[3]) /\ OffsetInv'
    BY <1>1, PostInQueue
  <2>2. p[1] \in Receivers /\ p[2] \in EventTypes /\ p[3] \in Priorities
    BY EventLoopAssumption
  <2> QED
    BY <2>1, <2>2 DEF Queue!NextInOrder
<1>2. CASE \E p \in Posts : PostEvent(p[1], p[2], p[3])
  <2>1. PICK p \in Posts : PostEvent(p[1], p[2], p[3])
    BY <1>2
  <2> DEFINE poster == IF InHandler THEN Top.entry.event ELSE 0
  <2>2. /\ p[1] \in alive
        /\ Enqueue(p[1], p[2], p[3], loopLevel, poster)
        /\ UNCHANGED <<insertionOffset, recursion, alive, stack>>
    BY <2>1 DEF PostEvent
  <2>3. loopLevel \in Nat /\ poster \in Nat
    BY Numbers
  <2> HIDE DEF poster
  <2> QED
    BY <1>1, <2>2, <2>3
<1>3. CASE \E t \in Posters, p \in Posts : RemotePost(t, p[1], p[2], p[3])
  <2>1. PICK t \in Posters, p \in Posts : RemotePost(t, p[1], p[2], p[3])
    BY <1>3
  <2>2. /\ p[1] \in alive /\ Enqueue(p[1], p[2], p[3], 0, 0) /\ 0 \in Nat
        /\ UNCHANGED <<insertionOffset, recursion, alive, stack>>
    BY <2>1 DEF RemotePost
  <2> QED
    BY <1>1, <2>2
<1>4. CASE Deliver
  <2>1. /\ Queue!SendInOrder(Abstracted(Pe)) /\ Abstracted(Pe) \in Pending
        /\ OffsetInv'
    BY <1>4, SendInQueue
  <2> QED
    BY <2>1 DEF Queue!NextInOrder, Pending
<1>5. CASE HoldDeferred
  <2>1. /\ \/ Queue!PutBack(Abstracted(Pe)) /\ Abstracted(Pe) \in Pending
           \/ SameQueue
        /\ OffsetInv'
    BY <1>5, HoldInQueue
  <2> QED
    BY <2>1 DEF Queue!NextInOrder, Pending
<1>6. CASE ReturnFromHandler
  <2>1. /\ \/ /\ Queue!ReturnInOrder(Abstracted(Top.entry))
              /\ Abstracted(Top.entry) \in Sent
           \/ SameQueue
        /\ OffsetInv'
    BY <1>6, ReturnInQueue
  <2> QED
    BY <2>1 DEF Queue!NextInOrder, Sent
<1>7. CASE SendDone
  BY <1>7, EndInQueue DEF Queue!NextInOrder
<1>8. CASE NativeEvent
  BY <1>8, NativeInQueue
<1>9. CASE \E p \in Filters : SendPostedEvents(p[1], p[2])
  <2>1. Quiet(stack, stack') /\ Stays(stack, stack')
    BY <1>9, QuietStep, QuietStays DEF Keeping
  <2>2. PICK p \in Filters : SendPostedEvents(p[1], p[2])
    BY <1>9
  <2>3. /\ EnterSend(stack, p[1], p[2])
        /\ UNCHANGED <<list, lastEvent, alive>>
    BY <2>2 DEF SendPostedEvents
  <2>4. (Queue!Begin \/ SameQueue) /\ OffsetInv'
    BY <2>1, <2>3, PassInQueue
  <2> QED
    BY <2>4 DEF Queue!NextInOrder
<1>10. CASE Iterate \/ \E wait \in BOOLEAN : ProcessEvents(wait)
  <2>1. Quiet(stack, stack') /\ Stays(stack, stack')
    BY <1>10, QuietStep, QuietStays DEF Keeping
  <2>2. PICK wait \in BOOLEAN : EnterProcess(stack, wait)
    BY <1>10 DEF Iterate, ProcessEvents
  <2>3. /\ EnterSend(Append(stack, Process(wait)), AnyReceiver, AnyType)
        /\ UNCHANGED <<list, lastEvent, alive>>
    BY <2>2 DEF EnterProcess
  <2>4. (Queue!Begin \/ SameQueue) /\ OffsetInv'
    BY <2>1, <2>3, PassInQueue
  <2> QED
    BY <2>4 DEF Queue!NextInOrder
<1>11. CASE LeaveLoop
  <2>1. Quiet(stack, stack') /\ Stays(stack, stack')
    BY <1>11, QuietStep, QuietStays DEF Keeping
  <2>2. UNCHANGED <<list, lastEvent, alive>>
    BY <1>11 DEF LeaveLoop
  <2>3. CASE Popped = <<>>
    <3>1. EnterSend(<<>>, AnyReceiver, "DeferredDelete")
      BY <1>11, <2>3 DEF LeaveLoop
    <3>2. (Queue!Begin \/ SameQueue) /\ OffsetInv'
      BY <2>1, <2>2, <3>1, PassInQueue
    <3> QED
      BY <3>2 DEF Queue!NextInOrder
  <2>4. CASE Popped # <<>>
    <3>1. UNCHANGED <<recursion, insertionOffset>>
      BY <1>11, <2>4 DEF LeaveLoop
    <3> QED
      BY <2>1, <2>2, <3>1, NothingSeen
  <2> QED
    BY <2>3, <2>4
<1>12. CASE \E p \in Removals : RemovePostedEvents(p[1], p[2])
  <2>1. Quiet(stack, stack') /\ Stays(stack, stack')
    BY <1>12, QuietStep, QuietStays DEF Keeping
  <2>2. PICK p \in Removals : RemovePostedEvents(p[1], p[2])
    BY <1>12
  <2>3. /\ RemovePosted(p[1], p[2]) /\ "remove" \in Calls
        /\ UNCHANGED <<startOffset, insertionOffset, recursion, lastEvent, alive>>
    BY <2>2 DEF RemovePostedEvents
  <2>4. /\ p[1] \in Receivers \cup {AnyReceiver} /\ p[2] \in EventTypes
        /\ p \in Requested
    BY <2>3, FilterTypes DEF Requested
  <2>5. Queue!RemoveInOrder(p[1], p[2]) /\ OffsetInv'
    BY <2>1, <2>3, <2>4, RemoveInQueue
  <2> QED
    BY <2>4, <2>5 DEF Queue!NextInOrder
<1>13. CASE AppExec \/ NestedExec
  <2>1. Quiet(stack, stack') /\ Stays(stack, stack')
    BY <1>13, QuietStep, QuietStays DEF Keeping
  <2>2. /\ RemovePosted(App, "Quit")
        /\ UNCHANGED <<startOffset, insertionOffset, recursion, lastEvent, alive>>
    BY <1>13 DEF AppExec, NestedExec, EnterLoop
  <2>3. /\ App \in Receivers \cup {AnyReceiver} /\ "Quit" \in EventTypes
        /\ <<App, "Quit">> \in Requested
    BY ReceiversAssumption DEF EventTypes, Requested
  <2>4. Queue!RemoveInOrder(App, "Quit") /\ OffsetInv'
    BY <2>1, <2>2, <2>3, RemoveInQueue
  <2>5. <<App, "Quit">>[1] = App /\ <<App, "Quit">>[2] = "Quit"
    OBVIOUS
  <2> QED
    BY <2>3, <2>4, <2>5 DEF Queue!NextInOrder
<1>14. CASE \/ SkipNull \/ SkipOther \/ AfterSend \/ Select \/ AfterNative
            \/ \E k \in 1..Len(stack) : ExitLoop(k)
            \/ Quit
            \/ \E t \in Posters : RemoteWakeUp(t)
            \/ UNCHANGED vars
  <2>1. Quiet(stack, stack') /\ Stays(stack, stack')
    BY <1>14, QuietStep, QuietStays DEF Keeping
  <2>2. UNCHANGED <<list, insertionOffset, recursion, lastEvent, alive>>
    BY <1>14 DEF SkipNull, SkipOther, AfterSend, Select, AfterNative, ExitLoop,
                 Quit, RemoteWakeUp, vars, queueVars
  <2> QED
    BY <2>1, <2>2, NothingSeen
<1> QED
  BY <1>2, <1>3, <1>4, <1>5, <1>6, <1>7, <1>8, <1>9, <1>10, <1>11, <1>12,
     <1>13, <1>14 DEF Next, Delivery, User, Environment

\* The list with its offsets, null entries, nested passes and events that are
\* posted again implements the queue its users are promised, as long as no
\* pass is made for one receiver or type but for deferred deletes: each event
\* is sent once or removed, never lost; and what a pass has found is sent from
\* the highest priority to the lowest, and the oldest first.
THEOREM QueueImplemented ==
    ASSUME OrderedFilters
    PROVE  Spec => ImplementsQueue
<1> DEFINE Inv == DInv /\ NativeInv /\ PassInv /\ OffsetInv
<1>1. Init => Inv /\ Queue!InitInOrder
  <2> SUFFICES ASSUME Init PROVE Inv /\ Queue!InitInOrder
    OBVIOUS
  <2>1. /\ Len(stack) = 0 /\ Live(list) = {} /\ lastEvent = 0
        /\ alive = Receivers /\ recursion = 0 /\ insertionOffset = 0
        /\ Len(list) = 0
    <3>1. stack = <<>> /\ list = <<>> /\ Len(<<>>) = 0
      BY EmptySeq DEF Init
    <3> QED
      BY <3>1 DEF Live, Init
  <2>2. LiveEntries(list) = {} /\ Running(stack) = {} /\ Handling(stack) = {}
    BY <2>1 DEF LiveEntries, Running, Handling
  <2>3. DInv
    BY <2>1, <2>2 DEF DInv, RunningInv, PosterInv, NotDeletedUnderPoster
  <2>4. NativeInv /\ PassInv /\ OffsetInv
    BY <2>1, <2>2 DEF NativeInv, PassInv, OffsetInv
  <2>5. /\ Waiting(list) = {} /\ Precedence(list) = {}
        /\ Found(list, insertionOffset) = {} /\ Handled(stack) = {}
        /\ Beyond(list, insertionOffset) = 0
    BY <2>1, <2>2 DEF Waiting, Precedence, Found, Handled, Beyond
  <2>6. Queue!InitInOrder
    BY <2>1, <2>5 DEF Queue!InitInOrder, Queue!Init
  <2> QED
    BY <2>3, <2>4, <2>6
<1>2. IInv /\ Inv /\ [Next]_vars
          => Inv' /\ [Queue!NextInOrder]_<<Waiting(list), Handled(stack),
                        lastEvent, alive, Precedence(list),
                        Found(list, insertionOffset), recursion,
                        Beyond(list, insertionOffset)>>
  <2> SUFFICES ASSUME IInv, Inv, [Next]_vars
               PROVE  Inv' /\ (Queue!NextInOrder \/ SameQueue)
    BY DEF SameQueue, Pending, Sent, Order, Due, Late
  <2>1. DInv'
    BY Step, PostingRuns, SendingRuns, WakingRuns, KeepingRuns
  <2>2. NativeInv' /\ PassInv'
    BY NativeKept, PassStep
  <2>3. (Queue!NextInOrder \/ SameQueue) /\ OffsetInv'
    BY QueueStep DEF DInv
  <2> QED
    BY <2>1, <2>2, <2>3
<1> HIDE DEF Inv
<1> QED
  BY <1>1, <1>2, Invariance, PTL DEF Spec, ImplementsQueue, Queue!SpecInOrder

-----------------------------------------------------------------------------
\* The calls of a thread whose own code makes no passes and runs no
\* dispatcher: frame f as the n-th one of the stack, on top of g.
NoOwnPasses == Filters = {} /\ "processEvents" \notin Calls

Placed(f, n, g) ==
    /\ f.kind = "exec" => n = 1 \/ g.kind = "handler"
    /\ f.kind = "process" => n > 1 /\ g.kind = "exec"
    /\ f.kind = "send" =>
          \/ n = 1 /\ f.receiver = AnyReceiver /\ f.type = "DeferredDelete"
          \/ n > 1 /\ g.kind = "process" /\ Unfiltered(f)
    /\ f.kind = "handler" =>
          n > 1 /\ (g.kind = "send" \/ (g.kind = "process" /\ g.pc = "native"))

Nested(s) == \A k \in 1..Len(s) : Placed(s[k], k, s[k - 1])

\* A call from where it may come from.
LEMMA NestedPush ==
    ASSUME NEW s \in Seq(Frames), NEW f \in Frames, Nested(s),
           Placed(f, Len(s) + 1, s[Len(s)])
    PROVE  Nested(Append(s, f))
<1> DEFINE t == Append(s, f)
<1>1. /\ Len(s) \in Nat /\ Len(t) = Len(s) + 1
      /\ t[Len(s) + 1] = f /\ \A k \in 1..Len(s) : t[k] = s[k]
  BY PushedFrame
<1> HIDE DEF t
<1>2. ASSUME NEW k \in 1..Len(t) PROVE Placed(t[k], k, t[k - 1])
  <2>1. k = 1 \/ k - 1 \in 1..Len(s)
    BY <1>1
  <2>2. CASE k \in 1..Len(s)
    <3>1. Placed(s[k], k, s[k - 1])
      BY <2>2 DEF Nested
    <3> QED
      BY <1>1, <2>1, <2>2, <3>1 DEF Placed
  <2>3. CASE k = Len(s) + 1
    BY <1>1, <2>1, <2>3 DEF Placed
  <2> QED
    BY <1>1, <2>2, <2>3
<1> QED
  BY <1>2 DEF Nested, t

\* A return.
LEMMA NestedPop ==
    ASSUME NEW s \in Seq(Frames), s # <<>>, Nested(s)
    PROVE  Nested(SubSeq(s, 1, Len(s) - 1))
<1> DEFINE t == SubSeq(s, 1, Len(s) - 1)
<1>1. Len(s) \in Nat \ {0} /\ Len(t) = Len(s) - 1
      /\ \A k \in 1..Len(t) : t[k] = s[k]
  BY PoppedFrame
<1> HIDE DEF t
<1>2. ASSUME NEW k \in 1..Len(t) PROVE Placed(t[k], k, t[k - 1])
  <2>1. k \in 1..Len(s) /\ (k = 1 \/ k - 1 \in 1..Len(t))
    BY <1>1
  <2>2. Placed(s[k], k, s[k - 1])
    BY <2>1 DEF Nested
  <2> QED
    BY <1>1, <2>1, <2>2 DEF Placed
<1> QED
  BY <1>2 DEF Nested, t

\* Frames may change, but for how far the calls of processEvents are that
\* have called something.
LEMMA NestedAlike ==
    ASSUME NEW s, NEW t, Len(s) \in Nat, Len(t) = Len(s), Nested(s),
           \A k \in 1..Len(s) : Alike(s[k], t[k]),
           \A k \in 1..(Len(s) - 1) : s[k].kind = "process" => t[k] = s[k]
    PROVE  Nested(t)
<1> SUFFICES ASSUME NEW k \in 1..Len(t) PROVE Placed(t[k], k, t[k - 1])
  BY DEF Nested
<1>1. k = 1 \/ (k > 1 /\ k - 1 \in 1..Len(s) /\ k - 1 \in 1..(Len(s) - 1))
  OBVIOUS
<1>2. Placed(s[k], k, s[k - 1]) /\ Alike(s[k], t[k])
  BY DEF Nested
<1>3. k > 1 => Alike(s[k - 1], t[k - 1])
               /\ (s[k - 1].kind = "process" => t[k - 1] = s[k - 1])
  BY <1>1
<1> QED
  BY <1>1, <1>2, <1>3 DEF Placed, Alike, Unfiltered

\* The call on top goes further.
LEMMA NestedTop ==
    ASSUME NEW f \in Frames, StackInv, stack # <<>>, Alike(Top, f),
           Nested(stack)
    PROVE  LET t == Append(SubSeq(stack, 1, Len(stack) - 1), f)
           IN /\ Nested(t) /\ t \in Seq(Frames) /\ Len(t) = Len(stack)
              /\ t[Len(stack)] = f /\ Len(stack) \in Nat \ {0}
<1> DEFINE t == Append(SubSeq(stack, 1, Len(stack) - 1), f)
<1>1. /\ t \in Seq(Frames) /\ Len(t) = Len(stack)
      /\ t[Len(stack)] = f /\ \A k \in 1..(Len(stack) - 1) : t[k] = stack[k]
  BY TopReplaced DEF StackInv, Fits, Top
<1>2. Len(stack) \in Nat \ {0}
  BY PoppedFrame DEF StackInv, Fits
<1> HIDE DEF t
<1>3. \A k \in 1..Len(stack) : Alike(stack[k], t[k])
  <2>1. \A k \in 1..Len(stack) : k = Len(stack) \/ k \in 1..(Len(stack) - 1)
    BY <1>2
  <2> QED
    BY <1>1, <2>1 DEF Alike, Top
<1>4. Nested(t)
  BY <1>1, <1>2, <1>3, NestedAlike
<1> QED
  BY <1>1, <1>2, <1>4 DEF t

\* exit sets flags of loops only.
LEMMA NestedExited ==
    ASSUME NEW s \in Seq(Frames), Nested(s)
    PROVE  Nested(Exited(s))
<1>1. Fits(s, Deep(s, Levels, Len(s)), Deep(s, {"send"}, Len(s)))
  BY DEF Fits
<1>2. /\ Len(Exited(s)) = Len(s) /\ Len(s) \in Nat
      /\ \A k \in 1..Len(s) : /\ Alike(s[k], Exited(s)[k])
                              /\ s[k].kind # "exec" => Exited(s)[k] = s[k]
  <2>1. Len(s) \in Nat
    BY <1>1, FitsFacts
  <2> QED
    BY <1>1, <2>1, ExitedStack
<1>3. \A k \in 1..(Len(s) - 1) : s[k].kind = "process" => Exited(s)[k] = s[k]
  <2>1. \A k \in 1..(Len(s) - 1) : k \in 1..Len(s)
    BY <1>2
  <2> QED
    BY <1>2, <2>1
<1> QED
  BY <1>2, <1>3, NestedAlike

\* The frame on top of the stack, and what it is on.
LEMMA OnTop ==
    ASSUME StackInv, NEW kind, TopIs(kind)
    PROVE  /\ stack \in Seq(Frames) /\ stack # <<>> /\ Len(stack) \in Nat \ {0}
           /\ Top = stack[Len(stack)] /\ Top \in Frames /\ Top.kind = kind
           /\ Popped \in Seq(Frames) /\ Len(Popped) = Len(stack) - 1
           /\ \A k \in 1..Len(Popped) : Popped[k] = stack[k]
           /\ Nested(stack)
                  => Nested(Popped)
                  /\ Placed(Top, Len(stack), stack[Len(stack) - 1])
<1>1. stack \in Seq(Frames) /\ stack # <<>> /\ Top = stack[Len(stack)]
      /\ Top.kind = kind
  BY DEF StackInv, Fits, TopIs, Top
<1>2. /\ Popped \in Seq(Frames) /\ Len(stack) \in Nat \ {0}
      /\ Len(Popped) = Len(stack) - 1
      /\ \A k \in 1..Len(Popped) : Popped[k] = stack[k]
      /\ stack[Len(stack)] \in Frames
  BY <1>1, PoppedFrame DEF Popped
<1>3. Nested(stack) => Nested(Popped)
  BY <1>1, NestedPop DEF Popped
<1>4. Nested(stack) => Placed(Top, Len(stack), stack[Len(stack) - 1])
  <2>1. Len(stack) \in 1..Len(stack)
    BY <1>2
  <2> QED
    BY <1>1, <2>1 DEF Nested
<1> QED
  BY <1>1, <1>2, <1>3, <1>4

\* The passes such a thread makes: in processEvents, and after the last exec.
LEMMA EnterSendNested ==
    ASSUME NEW s \in Seq(Frames), startOffset \in Nat,
           NEW ty \in EventTypes \cup {AnyType},
           EnterSend(s, AnyReceiver, ty), Nested(s),
           \/ s = <<>> /\ ty = "DeferredDelete"
           \/ Len(s) > 0 /\ s[Len(s)].kind = "process" /\ ty = AnyType
    PROVE  Nested(stack')
<1> DEFINE f == Send(AnyReceiver, ty, startOffset)
<1>1. /\ f \in Frames /\ f.kind = "send" /\ f.receiver = AnyReceiver
      /\ f.type = ty
  BY DEF Send, Frames
<1>2. stack' \in {s, Append(s, f)}
  BY DEF EnterSend
<1> HIDE DEF f
<1>3. Placed(f, Len(s) + 1, s[Len(s)])
  <2>1. Len(s) \in Nat /\ (s = <<>> => Len(s) = 0)
    BY PushedFrame, <1>1, EmptySeq
  <2> QED
    BY <1>1, <2>1 DEF Placed, Unfiltered
<1> QED
  BY <1>1, <1>2, <1>3, NestedPush

\* Without calls of their own handlers find the dispatcher below them.
LEMMA NestStep ==
    ASSUME IInv, Nested(stack), [Next]_vars, NoOwnPasses
    PROVE  Nested(stack')
<1>0. stack \in Seq(Frames) /\ startOffset \in Nat /\ StackInv
  BY DEF IInv, StackInv, Fits, QueueInv, TypeInv
<1>1. CASE stack' = stack
  BY <1>1
<1>2. ASSUME NEW k \in 1..Len(stack), ExitLoop(k) PROVE Nested(stack')
  <2> DEFINE f == [stack[k] EXCEPT !.exit = TRUE]
  <2>1. stack' = [stack EXCEPT ![k] = f] /\ stack[k].kind = "exec"
    BY <1>2 DEF ExitLoop
  <2>2. stack \in [1..Len(stack) -> Frames] /\ Len(stack) \in Nat
    BY <1>0, LenProperties
  <2>3. f \in Frames /\ Alike(stack[k], f)
    BY <2>1, <2>2, FrameFacts
  <2> HIDE DEF f
  <2>4. /\ stack' \in [1..Len(stack) -> Frames] /\ stack'[k] = f
        /\ \A j \in 1..Len(stack) : j # k => stack'[j] = stack[j]
    BY <2>1, <2>2, <2>3
  <2>5. Len(stack') = Len(stack)
    <3>1. stack' \in Seq(Frames)
      BY <2>2, <2>4, IsASeq
    <3> QED
      BY <2>2, <2>4, <3>1, LenProperties
  <2>6. \A j \in 1..Len(stack) : Alike(stack[j], stack'[j])
    BY <2>3, <2>4 DEF Alike
  <2>7. \A j \in 1..(Len(stack) - 1) :
            stack[j].kind = "process" => stack'[j] = stack[j]
    <3>1. \A j \in 1..(Len(stack) - 1) : j \in 1..Len(stack)
      BY <2>2
    <3> QED
      BY <2>1, <2>4, <3>1
  <2> QED
    BY <2>2, <2>5, <2>6, <2>7, NestedAlike
<1>3. CASE Quit
  BY <1>0, <1>3, NestedExited DEF Quit, ExitAll
<1>4. CASE ReturnFromHandler
  <2>1. TopIs("handler") /\ (stack' = Popped \/ stack' = Exited(Popped))
    BY <1>4 DEF ReturnFromHandler, ExitAll, InHandler
  <2> QED
    BY <1>0, <2>1, OnTop, NestedExited
<1>5. CASE AppExec \/ NestedExec
  <2>1. (stack = <<>> \/ InHandler) /\ stack' = Append(stack, Exec)
    BY <1>5 DEF AppExec, NestedExec, EnterLoop
  <2>2. Exec \in Frames /\ Exec.kind = "exec"
    BY NewFrames
  <2>3. Placed(Exec, Len(stack) + 1, stack[Len(stack)])
    <3>1. CASE stack = <<>>
      <4>1. Len(stack) = 0
        BY <3>1, EmptySeq
      <4> QED
        BY <2>2, <4>1 DEF Placed
    <3>2. CASE InHandler
      BY <1>0, <2>2, <3>2, OnTop DEF InHandler, Placed
    <3> QED
      BY <2>1, <3>1, <3>2
  <2> QED
    BY <1>0, <2>1, <2>2, <2>3, NestedPush
<1>6. CASE Iterate
  <2> DEFINE f == Process(TRUE)
             s == Append(stack, f)
  <2>1. TopIs("exec") /\ EnterSend(s, AnyReceiver, AnyType)
    BY <1>6 DEF Iterate, EnterProcess
  <2>2. f \in Frames /\ f.kind = "process"
    BY NewFrames
  <2> HIDE DEF f
  <2>3. /\ Top.kind = "exec" /\ Top = stack[Len(stack)]
        /\ Len(stack) \in Nat \ {0}
    BY <1>0, <2>1, OnTop
  <2>4. Placed(f, Len(stack) + 1, stack[Len(stack)])
    BY <2>2, <2>3 DEF Placed
  <2>5. Nested(s)
    BY <1>0, <2>2, <2>4, NestedPush
  <2>6. s \in Seq(Frames) /\ Len(s) = Len(stack) + 1 /\ s[Len(stack) + 1] = f
    BY <1>0, <2>2, PushedFrame
  <2> HIDE DEF s
  <2>7. Len(s) > 0 /\ s[Len(s)].kind = "process"
    BY <2>2, <2>3, <2>6
  <2> QED
    BY <1>0, <2>1, <2>5, <2>6, <2>7, EnterSendNested
<1>7. CASE LeaveLoop
  <2>1. TopIs("exec")
    BY <1>7 DEF LeaveLoop
  <2>2. Popped \in Seq(Frames) /\ Nested(Popped)
    BY <1>0, <2>1, OnTop
  <2>3. CASE Popped = <<>>
    <3>1. EnterSend(Popped, AnyReceiver, "DeferredDelete")
          /\ "DeferredDelete" \in EventTypes \cup {AnyType}
      BY <1>7, <2>3 DEF LeaveLoop, EventTypes
    <3> QED
      BY <1>0, <2>2, <2>3, <3>1, EnterSendNested
  <2>4. CASE Popped # <<>>
    BY <1>7, <2>2, <2>4 DEF LeaveLoop
  <2> QED
    BY <2>3, <2>4
<1>8. CASE AfterSend
  <2>1. TopIs("process")
    BY <1>8 DEF AfterSend
  <2>2. CASE interrupt
    BY <1>0, <1>8, <2>1, <2>2, OnTop DEF AfterSend
  <2>3. CASE ~interrupt
    <3> DEFINE w == canWait /\ Top.wait
               f == [Top EXCEPT !.pc = "select", !.canWait = w]
    <3>1. stack' = Append(SubSeq(stack, 1, Len(stack) - 1), f)
      BY <1>8, <2>3 DEF AfterSend, Replaced, Popped
    <3>2. f \in Frames /\ Alike(Top, f) /\ stack # <<>>
      <4>1. w \in BOOLEAN /\ Top \in Frames /\ Top.kind = "process"
            /\ stack # <<>>
        BY <1>0, <2>1, OnTop
      <4> HIDE DEF w
      <4> QED
        BY <4>1, SelectFrame
    <3> HIDE DEF f
    <3> QED
      BY <1>0, <3>1, <3>2, NestedTop
  <2> QED
    BY <2>2, <2>3
<1>9. CASE Select \/ AfterNative \/ SendDone
  <2>1. (TopIs("process") \/ TopIs("send")) /\ stack' = Popped
    BY <1>9 DEF Select, AfterNative, SendDone
  <2> QED
    BY <1>0, <2>1, OnTop
<1>10. ASSUME TopIs("send"), NEW f, f = [Top EXCEPT !.i = @ + 1]
       PROVE  /\ f \in Frames /\ Alike(Top, f) /\ stack # <<>>
  BY <1>0, <1>10, OnTop, FrameFacts
<1>11. CASE SkipNull \/ SkipOther \/ HoldDeferred
  <2> DEFINE f == [Top EXCEPT !.i = @ + 1]
  <2>1. TopIs("send") /\ Advance
    BY <1>11 DEF SkipNull, SkipOther, HoldDeferred, InPass
  <2>2. CASE Unfiltered(Top)
    BY <1>1, <2>1, <2>2 DEF Advance
  <2>3. CASE ~Unfiltered(Top)
    <3>1. stack' = Append(SubSeq(stack, 1, Len(stack) - 1), f)
      BY <2>1, <2>3 DEF Advance, Replaced, Popped
    <3>2. f \in Frames /\ Alike(Top, f) /\ stack # <<>>
      BY <1>10, <2>1
    <3> HIDE DEF f
    <3> QED
      BY <1>0, <3>1, <3>2, NestedTop
  <2> QED
    BY <2>2, <2>3
<1>12. ASSUME NEW s \in Seq(Frames), NEW entry \in HandlerEntries, Nested(s),
              Len(s) \in Nat \ {0},
              \/ s[Len(s)].kind = "send"
              \/ s[Len(s)].kind = "process" /\ s[Len(s)].pc = "native",
              stack' = Append(s, Handler(entry))
       PROVE  Nested(stack')
  <2>1. Handler(entry) \in Frames /\ Handler(entry).kind = "handler"
    BY NewFrames
  <2>2. Placed(Handler(entry), Len(s) + 1, s[Len(s)])
    BY <1>12, <2>1 DEF Placed
  <2> QED
    BY <1>12, <2>1, <2>2, NestedPush
<1>13. CASE Deliver
  <2> DEFINE f == [Top EXCEPT !.i = @ + 1]
  <2>1. TopIs("send") /\ InPass /\ IsLive(Pe)
    BY <1>13 DEF Deliver, InPass
  <2>2. Pe \in HandlerEntries
    <3>1. Pe \in Entries
      BY <2>1, AtPosition DEF IInv, QueueInv
    <3> QED
      BY <3>1, PrioritiesAssumption DEF Entries, HandlerEntries
  <2>3. f \in Frames /\ Alike(Top, f) /\ stack # <<>>
    BY <1>10, <2>1
  <2>4. CASE Unfiltered(Top)
    <3>1. stack' = Append(stack, Handler(Pe))
      BY <1>13, <2>4 DEF Deliver
    <3>2. Len(stack) \in Nat \ {0} /\ stack[Len(stack)].kind = "send"
      BY <1>0, <2>1, OnTop
    <3> QED
      BY <1>0, <1>12, <2>2, <3>1, <3>2
  <2>5. CASE ~Unfiltered(Top)
    <3> DEFINE s == Append(SubSeq(stack, 1, Len(stack) - 1), f)
    <3>1. stack' = Append(s, Handler(Pe))
      BY <1>13, <2>5 DEF Deliver, Replaced, Popped
    <3>2. Top.kind = "send"
      BY <1>0, <2>1, OnTop
    <3> HIDE DEF f
    <3>3. /\ s \in Seq(Frames) /\ Nested(s) /\ Len(s) \in Nat \ {0}
          /\ s[Len(s)].kind = "send"
      BY <1>0, <2>3, <3>2, NestedTop DEF Alike
    <3> HIDE DEF s
    <3> QED
      BY <1>12, <2>2, <3>1, <3>3
  <2> QED
    BY <2>4, <2>5
<1>14. CASE NativeEvent
  <2> DEFINE f == [Top EXCEPT !.pc = "native"]
             s == Append(SubSeq(stack, 1, Len(stack) - 1), f)
  <2>1. TopIs("process") /\ stack' = Append(s, Handler(NativeEntry))
    BY <1>14 DEF NativeEvent, Replaced, Popped
  <2>2. f \in Frames /\ Alike(Top, f) /\ f.kind = "process" /\ f.pc = "native"
        /\ stack # <<>>
    <3>1. Top \in Frames /\ Top.kind = "process" /\ stack # <<>>
      BY <1>0, <2>1, OnTop
    <3> QED
      BY <3>1, FrameFacts DEF Alike
  <2> HIDE DEF f
  <2>3. /\ s \in Seq(Frames) /\ Nested(s) /\ Len(s) \in Nat \ {0}
        /\ s[Len(s)] = f
    BY <1>0, <2>2, NestedTop
  <2> HIDE DEF s
  <2>4. NativeEntry \in HandlerEntries
    BY ReceiversAssumption DEF NativeEntry, HandlerEntries, EventTypes
  <2> QED
    BY <1>12, <2>1, <2>2, <2>3, <2>4
<1>15. CASE \/ \E p \in Posts : PostEvent(p[1], p[2], p[3])
            \/ \E t \in Posters, p \in Posts : RemotePost(t, p[1], p[2], p[3])
            \/ \E p \in Removals : RemovePostedEvents(p[1], p[2])
            \/ \E t \in Posters : RemoteWakeUp(t)
            \/ UNCHANGED vars
  <2>1. stack' = stack
    BY <1>15 DEF PostEvent, RemotePost, RemovePostedEvents, RemoteWakeUp, vars
  <2> QED
    BY <1>1, <2>1
<1>16. CASE \/ \E wait \in BOOLEAN : ProcessEvents(wait)
            \/ \E p \in Filters : SendPostedEvents(p[1], p[2])
  BY <1>16 DEF ProcessEvents, NoOwnPasses
<1> QED
  BY <1>2, <1>3, <1>4, <1>5, <1>6, <1>7, <1>8, <1>9, <1>11, <1>13, <1>14, <1>15,
     <1>16 DEF Next, Delivery, User, Environment

-----------------------------------------------------------------------------
\* What the thread may sleep over.

\* What is left behind position n has to wait for this level or an outer one.
WaitFrom(lst, n, level) ==
    \A k \in Live(lst) :
        k > n => lst[k].type = "DeferredDelete" /\ lst[k].level \in 1..level
AllWait(lst, level) ==
    \A e \in LiveEntries(lst) :
        e.type = "DeferredDelete" /\ e.level \in 1..level

\* canWait is trusted by the call of processEvents that made the pass: a pass
\* that has not found it FALSE knows of what is behind its insertionOffset.
Below == stack[Len(stack) - 1]
IdleInv ==
    /\ canWait /\ ~interrupt =>
          /\ TopIs("send") /\ Unfiltered(Top)
                => WaitFrom(list, insertionOffset, loopLevel)
          /\ InHandler /\ Below.kind = "send" /\ Unfiltered(Below)
                => WaitFrom(list, insertionOffset, loopLevel - 1)
          /\ TopIs("process") /\ Top.pc = "send" => AllWait(list, loopLevel)
    /\ Asleep => AllWait(list, loopLevel)

\* The invariant asks nothing while the thread is in none of the places where
\* canWait is decided or used.
LEMMA Elsewhere ==
    ASSUME \/ stack' = <<>>
           \/ stack'[Len(stack')].kind = "exec"
           \/ /\ stack'[Len(stack')].kind = "process"
              /\ stack'[Len(stack')].pc = "native"
           \/ /\ stack'[Len(stack')].kind = "send"
              /\ ~Unfiltered(stack'[Len(stack')])
           \/ /\ stack'[Len(stack')].kind = "handler"
              /\ ~( /\ stack'[Len(stack') - 1].kind = "send"
                    /\ Unfiltered(stack'[Len(stack') - 1]))
    PROVE  IdleInv'
  BY DEF IdleInv, TopIs, Top, InHandler, Asleep, Below

\* A removal leaves less to wait for.
LEMMA FewerWait ==
    ASSUME NEW lst, NEW new, NEW level,
           LiveEntries(new) \subseteq LiveEntries(lst),
           AllWait(lst, level)
    PROVE  AllWait(new, level)
  BY DEF AllWait

\* The level of a loop or a handler on the stack.
LEMMA InsideLoop ==
    ASSUME IInv, Nested(stack), TopIs("send"), Unfiltered(Top)
    PROVE  loopLevel \in Nat /\ loopLevel > 0
<1>1. /\ Len(stack) \in Nat \ {0} /\ Top.kind = "send"
      /\ Placed(Top, Len(stack), stack[Len(stack) - 1])
  BY OnTop DEF IInv
<1>2. "DeferredDelete" # AnyType
  BY EventLoopAssumption DEF EventTypes
<1>3. Len(stack) > 1 /\ stack[Len(stack) - 1].kind = "process"
  BY <1>1, <1>2 DEF Placed, Unfiltered
<1>4. Placed(stack[Len(stack) - 1], Len(stack) - 1, stack[(Len(stack) - 1) - 1])
  <2>1. Len(stack) - 1 \in 1..Len(stack)
    BY <1>1, <1>3
  <2> QED
    BY <2>1 DEF Nested
<1>5. /\ Len(stack) - 2 \in 1..Len(stack)
      /\ stack[Len(stack) - 2].kind = "exec"
  <2>1. (Len(stack) - 1) - 1 = Len(stack) - 2
    BY <1>1
  <2> QED
    BY <1>1, <1>3, <1>4, <2>1 DEF Placed
<1>6. stack[Len(stack) - 2].kind \in Levels
  BY <1>5 DEF Levels
<1>7. Deep(stack, Levels, Len(stack)) > 0
  BY <1>1, <1>5, <1>6, DeepFacts
<1> QED
  BY <1>7, Numbers

\* A post clears canWait, and wakes the thread up.
LEMMA PostIdle ==
    ASSUME IInv, IdleInv,
           \/ \E p \in Posts : PostEvent(p[1], p[2], p[3])
           \/ \E t \in Posters, p \in Posts : RemotePost(t, p[1], p[2], p[3])
    PROVE  IdleInv'
<1>1. canWait' = FALSE /\ (wakeUps' = TRUE \/ waking' # {})
  BY DEF PostEvent, RemotePost, Enqueue
<1> QED
  BY <1>1 DEF IdleInv, Asleep

\* A removal.
LEMMA RemoveIdle ==
    ASSUME IInv, Nested(stack), IdleInv, NEW p \in Removals,
           RemovePostedEvents(p[1], p[2])
    PROVE  IdleInv'
<1>1. /\ RemovePosted(p[1], p[2])
      /\ UNCHANGED <<startOffset, insertionOffset, recursion, canWait,
                     loopLevel,
                     alive, lastEvent, stack, waking, wakeUps, interrupt>>
      /\ ~TopIs("send")
  BY DEF RemovePostedEvents, UserCode, MutexFree, InHandler, TopIs
<1>2. /\ LiveEntries(list') = {e \in LiveEntries(list) : ~Wanted(e, p[1], p[2])}
      /\ recursion # 0 => /\ Live(list') \subseteq Live(list)
                          /\ \A k \in Live(list') : list'[k] = list[k]
  BY <1>1, FilterTypes, RemoveQueue DEF IInv
<1>3. LiveEntries(list') \subseteq LiveEntries(list)
  BY <1>2
<1>4. AllWait(list, loopLevel) => AllWait(list', loopLevel)
  BY <1>3, FewerWait
<1>5. ASSUME InHandler, Below.kind = "send",
             WaitFrom(list, insertionOffset, loopLevel - 1)
      PROVE  WaitFrom(list', insertionOffset, loopLevel - 1)
  <2>1. Len(stack) \in Nat /\ Len(stack) - 1 \in 1..Len(stack)
    <3>1. /\ Len(stack) \in Nat \ {0} /\ Top.kind = "handler"
          /\ Placed(Top, Len(stack), stack[Len(stack) - 1])
      BY <1>5, OnTop DEF IInv, InHandler
    <3> QED
      BY <3>1 DEF Placed
  <2>2. Below.kind \in {"send"}
    BY <1>5
  <2>3. recursion # 0
    <3>1. Deep(stack, {"send"}, Len(stack)) > 0
      BY <2>1, <2>2, DeepFacts DEF Below
    <3> QED
      BY <3>1 DEF IInv, StackInv, Fits
  <2> QED
    BY <1>2, <1>5, <2>3 DEF WaitFrom
<1> QED
  BY <1>1, <1>4, <1>5 DEF IdleInv, TopIs, Top, InHandler, Below, Asleep

\* What the pass posts again behind insertionOffset waits for this level or an
\* outer one: that is why it was not sent.
LEMMA HoldIdle ==
    ASSUME IInv, Nested(stack), IdleInv, HoldDeferred
    PROVE  IdleInv'
<1>1. /\ InPass /\ IsLive(Pe) /\ Held(Pe) /\ Advance /\ TopIs("send")
      /\ UNCHANGED <<insertionOffset, loopLevel, canWait, interrupt>>
  BY DEF HoldDeferred, InPass
<1>2. CASE ~Unfiltered(Top)
  <2> DEFINE f == [Top EXCEPT !.i = @ + 1]
  <2>1. stack' = Append(SubSeq(stack, 1, Len(stack) - 1), f)
    BY <1>1, <1>2 DEF Advance, Replaced, Popped
  <2>2. f \in Frames /\ Alike(Top, f) /\ stack # <<>> /\ Top.kind = "send"
    BY <1>1, OnTop, FrameFacts DEF IInv
  <2> HIDE DEF f
  <2>3. stack'[Len(stack')] = f
    BY <2>1, <2>2, NestedTop DEF IInv
  <2> QED
    BY <1>2, <2>2, <2>3, Elsewhere DEF Alike, Unfiltered
<1>3. CASE Unfiltered(Top)
  <2> DEFINE lst == [list EXCEPT ![startOffset + 1] = Nulled(@)]
  <2>1. stack' = stack
    BY <1>1, <1>3 DEF Advance
  <2>2. /\ LiveEntries(list') = LiveEntries(list)
        /\ KeepsFirst(lst, list', insertionOffset)
        /\ QueueInv'
    BY <1>3, HoldDeferredQueue DEF IInv
  <2>3. /\ startOffset + 1 \in Live(list) /\ Pe = list[startOffset + 1]
        /\ Pe \in LiveEntries(list) /\ list \in Seq(Entries)
    BY <1>1, <1>3, AtPosition DEF IInv, QueueInv, TypeInv
  <2>4. /\ Len(lst) = Len(list) /\ Live(list) \subseteq 1..Len(list)
        /\ \A j \in 1..Len(list) : j # startOffset + 1 => lst[j] = list[j]
        /\ Len(list) \in Nat
    BY <2>3, Positions, LenProperties
  <2> HIDE DEF lst
  <2>5. /\ Pe.type = "DeferredDelete" /\ Pe.level \in 1..loopLevel
    <3>1. loopLevel \in Nat /\ loopLevel > 0
      BY <1>1, <1>3, InsideLoop
    <3>2. Pe.level \in Nat
      BY <2>3, Numbers
    <3> QED
      BY <1>1, <3>1, <3>2 DEF Held, AllowDeferredDelete
  <2>6. ASSUME WaitFrom(list, insertionOffset, loopLevel)
        PROVE  WaitFrom(list', insertionOffset, loopLevel)
    <3> SUFFICES ASSUME NEW k \in Live(list'), k > insertionOffset
                 PROVE  /\ list'[k].type = "DeferredDelete"
                        /\ list'[k].level \in 1..loopLevel
      BY DEF WaitFrom
    <3>0. /\ insertionOffset \in Nat /\ k \in Nat /\ WellOrdered(list')
          /\ list'[k] \in LiveEntries(list') /\ IsLive(list'[k])
      <4>1. list' \in Seq(Entries) /\ insertionOffset \in Nat
            /\ WellOrdered(list')
        BY <2>2 DEF QueueInv, TypeInv, GoodQueue, IInv
      <4> QED
        BY <4>1, Positions DEF Live
    <3>1. PICK j \in Live(list) : list[j] = list'[k]
      BY <2>2, <3>0 DEF LiveEntries
    <3>2. CASE j = startOffset + 1
      BY <2>3, <2>5, <3>1, <3>2
    <3>3. CASE j # startOffset + 1
      <4>1. j \in 1..Len(list) /\ j \in Nat /\ lst[j] = list'[k]
        BY <2>4, <3>1, <3>3
      <4>2. CASE j <= insertionOffset
        <5>1. j <= Len(list') /\ list'[j] = list'[k]
          BY <2>2, <2>4, <3>0, <4>1, <4>2 DEF KeepsFirst
        <5>2. j \in Live(list')
          BY <3>0, <4>1, <5>1 DEF Live
        <5>3. j = k
          BY <3>0, <5>1, <5>2 DEF WellOrdered
        <5> QED
          BY <3>0, <4>2, <5>3
      <4>3. CASE j > insertionOffset
        BY <2>6, <3>1, <4>3 DEF WaitFrom
      <4> QED
        BY <3>0, <4>1, <4>2, <4>3
    <3> QED
      BY <3>2, <3>3
  <2>7. /\ stack # <<>> /\ Top.kind = "send"
    BY <1>1 DEF TopIs
  <2> QED
    BY <1>1, <1>3, <2>1, <2>6, <2>7 DEF IdleInv, TopIs, Top, InHandler, Asleep
<1> QED
  BY <1>2, <1>3

\* A handler begins: what waits for the level of its loop still does.
LEMMA DeliverIdle ==
    ASSUME IInv, Nested(stack), IdleInv, Deliver
    PROVE  IdleInv'
<1>1. CallsHandler(stack, stack', Pe)
  BY DeliverStep DEF Sending
<1>2. /\ TopIs("send") /\ UNCHANGED <<canWait, interrupt, insertionOffset>>
      /\ loopLevel' = loopLevel + 1
  BY DEF Deliver, InPass
<1>3. /\ Len(stack') = Len(stack) + 1 /\ Len(stack) \in 1..Len(stack)
      /\ stack'[Len(stack')].kind = "handler"
      /\ stack'[Len(stack') - 1] = stack'[Len(stack)]
      /\ Alike(Top, stack'[Len(stack)])
      /\ Top.kind = "send"
  <2>1. /\ Len(stack') = Len(stack) + 1 /\ Len(stack) \in Nat
        /\ stack'[Len(stack')].kind = "handler"
        /\ \A k \in 1..Len(stack) : Alike(stack[k], stack'[k])
    BY <1>1, CalledFrames
  <2>2. Len(stack) \in Nat \ {0} /\ Top = stack[Len(stack)] /\ Top.kind = "send"
    BY <1>2, OnTop DEF IInv
  <2> QED
    BY <2>1, <2>2
<1>4. CASE ~Unfiltered(Top)
  BY <1>3, <1>4, Elsewhere DEF Alike, Unfiltered
<1>5. CASE Unfiltered(Top)
  <2>1. \A k \in Live(list') : k \in Live(list) /\ list'[k] = list[k]
    BY <1>5, DeliverQueue DEF IInv
  <2>2. WaitFrom(list, insertionOffset, loopLevel)
            => WaitFrom(list', insertionOffset, loopLevel)
    BY <2>1 DEF WaitFrom
  <2>3. loopLevel' - 1 = loopLevel
    BY <1>2, Numbers
  <2>4. ~TopIs("send")' /\ ~TopIs("process")' /\ ~Asleep'
    BY <1>3 DEF TopIs, Top, Asleep
  <2> QED
    BY <1>2, <1>5, <2>2, <2>3, <2>4 DEF IdleInv
<1> QED
  BY <1>4, <1>5

\* A pass has come to its insertionOffset: all that is left is what is behind
\* it.
LEMMA SendDoneIdle ==
    ASSUME IInv, ExitInv, Nested(stack), IdleInv, SendDone
    PROVE  IdleInv'
<1>1. /\ TopIs("send") /\ ~InPass /\ stack' = Popped
      /\ UNCHANGED <<canWait, interrupt, loopLevel>>
  BY DEF SendDone
<1>2. /\ stack \in Seq(Frames) /\ stack # <<>> /\ Len(stack) \in Nat \ {0}
      /\ Len(Popped) = Len(stack) - 1 /\ Popped \in Seq(Frames)
      /\ \A k \in 1..Len(Popped) : Popped[k] = stack[k]
      /\ Placed(Top, Len(stack), stack[Len(stack) - 1]) /\ Top.kind = "send"
  BY <1>1, OnTop DEF IInv
<1>3. NoSelect(Popped)
  BY <1>2, PoppedFrame DEF ExitInv, Popped
<1>4. CASE Len(stack) = 1
  <2>1. stack' = <<>>
    BY <1>1, <1>2, <1>4, EmptySeq
  <2> QED
    BY <2>1, Elsewhere
<1>5. CASE Len(stack) > 1
  <2>1. /\ Unfiltered(Top) /\ stack'[Len(stack')].kind = "process"
        /\ Len(stack') \in 1..Len(Popped)
    BY <1>1, <1>2, <1>5 DEF Placed
  <2>2. stack'[Len(stack')].pc # "select"
    BY <1>1, <1>3, <2>1 DEF NoSelect, IsSelect
  <2>3. LiveEntries(list') = LiveEntries(list)
    BY SendDoneQueue DEF IInv
  <2>4. ASSUME WaitFrom(list, insertionOffset, loopLevel)
        PROVE  AllWait(list, loopLevel)
    <3> SUFFICES ASSUME NEW k \in Live(list)
                 PROVE  /\ list[k].type = "DeferredDelete"
                        /\ list[k].level \in 1..loopLevel
      BY DEF AllWait, LiveEntries
    <3>1. /\ k \in 1..Len(list) /\ IsLive(list[k]) /\ Len(list) \in Nat
          /\ startOffset \in Nat /\ insertionOffset \in Nat
          /\ \A j \in 1..startOffset : ~IsLive(list[j])
      BY Positions DEF Live, IInv, QueueInv, TypeInv, GoodQueue
    <3>2. ~(startOffset < Len(list) /\ startOffset < insertionOffset)
      BY <1>1, <2>1 DEF InPass, Position
    <3>3. k > insertionOffset
      BY <3>1, <3>2
    <3> QED
      BY <2>4, <3>3 DEF WaitFrom
  <2>5. ~TopIs("send")' /\ ~InHandler' /\ ~Asleep'
    BY <2>1, <2>2 DEF TopIs, Top, InHandler, Asleep
  <2>6. AllWait(list, loopLevel) => AllWait(list', loopLevel)
    BY <2>3 DEF AllWait
  <2> QED
    BY <1>1, <2>1, <2>4, <2>5, <2>6 DEF IdleInv
<1> QED
  BY <1>2, <1>4, <1>5

\* A pass begins with nothing behind its insertionOffset.
LEMMA IterateIdle ==
    ASSUME IInv, IdleInv, Iterate
    PROVE  IdleInv'
<1> DEFINE s == Append(stack, Process(TRUE))
           f == Send(AnyReceiver, AnyType, startOffset)
<1>1. EnterSend(s, AnyReceiver, AnyType) /\ UNCHANGED <<list, loopLevel>>
  BY DEF Iterate, EnterProcess
<1>2. stack \in Seq(Frames) /\ startOffset \in Nat
  BY DEF IInv, StackInv, Fits, QueueInv, TypeInv
<1>3. Process(TRUE) \in Frames /\ Process(TRUE).kind = "process"
      /\ Process(TRUE).pc = "send"
  BY NewFrames
<1>4. /\ s \in Seq(Frames) /\ s[Len(s)].kind = "process"
      /\ s[Len(s)].pc = "send"
  <2>1. s \in Seq(Frames) /\ Len(s) = Len(stack) + 1
        /\ s[Len(stack) + 1] = Process(TRUE)
    BY <1>2, <1>3, PushedFrame
  <2> HIDE DEF s
  <2> QED
    BY <1>3, <2>1
<1> HIDE DEF s
<1>5. CASE list = <<>>
  <2>1. stack' = s /\ AllWait(list', loopLevel')
    <3>1. LiveEntries(list) = {}
      BY <1>5, EmptySeq DEF LiveEntries, Live
    <3> QED
      BY <1>1, <1>5, <3>1 DEF EnterSend, AllWait
  <2> QED
    BY <1>4, <2>1 DEF IdleInv, TopIs, Top, InHandler, Asleep
<1>6. CASE list # <<>>
  <2>1. stack' = Append(s, f) /\ insertionOffset' = Len(list)
    BY <1>1, <1>6 DEF EnterSend
  <2>2. f \in Frames /\ f.kind = "send"
    BY <1>2 DEF Send, Frames
  <2> HIDE DEF f
  <2>3. stack'[Len(stack')].kind = "send"
    <3>1. Len(stack') = Len(s) + 1 /\ stack'[Len(s) + 1] = f
      BY <1>4, <2>1, <2>2, PushedFrame
    <3> QED
      BY <2>2, <3>1
  <2>4. WaitFrom(list', insertionOffset', loopLevel')
    <3>1. list \in Seq(Entries)
      BY DEF IInv, QueueInv, TypeInv
    <3>2. Len(list) \in Nat /\ Live(list) \subseteq 1..Len(list)
      BY <3>1, Positions
    <3>3. \A k \in Live(list) : ~(k > Len(list))
      BY <3>2
    <3> QED
      BY <1>1, <2>1, <3>3 DEF WaitFrom
  <2> QED
    BY <2>3, <2>4 DEF IdleInv, TopIs, Top, InHandler, Asleep
<1> QED
  BY <1>5, <1>6

\* A nested loop returns, with the dispatcher below it interrupted.
LEMMA LeaveLoopIdle ==
    ASSUME IInv, ExitInv, Nested(stack), IdleInv, LeaveLoop
    PROVE  IdleInv'
<1>1. TopIs("exec") /\ Top.exit
  BY DEF LeaveLoop
<1>2. /\ stack # <<>> /\ Len(stack) \in Nat \ {0} /\ Top = stack[Len(stack)]
      /\ Top.kind = "exec"
      /\ Len(Popped) = Len(stack) - 1 /\ Popped \in Seq(Frames)
      /\ \A k \in 1..Len(Popped) : Popped[k] = stack[k]
      /\ Placed(Top, Len(stack), stack[Len(stack) - 1])
  BY <1>1, OnTop DEF IInv
<1>3. CASE Popped = <<>>
  <2> DEFINE f == Send(AnyReceiver, "DeferredDelete", startOffset)
  <2>1. stack' \in {<<>>, Append(<<>>, f)}
    BY <1>3 DEF LeaveLoop, EnterSend
  <2>2. f \in Frames /\ f.kind = "send" /\ ~Unfiltered(f)
    <3>1. "DeferredDelete" # AnyType /\ startOffset \in Nat
      BY EventLoopAssumption DEF EventTypes, IInv, QueueInv, TypeInv
    <3> QED
      BY <3>1 DEF Send, Frames, Unfiltered, EventTypes
  <2> HIDE DEF f
  <2>3. Append(<<>>, f)[Len(Append(<<>>, f))] = f
    <3>1. <<>> \in Seq(Frames)
      BY EmptySeq
    <3>2. Len(Append(<<>>, f)) = Len(<<>>) + 1
          /\ Append(<<>>, f)[Len(<<>>) + 1] = f
      BY <2>2, <3>1, PushedFrame
    <3> QED
      BY <3>2
  <2> QED
    BY <2>1, <2>2, <2>3, Elsewhere
<1>4. CASE Popped # <<>>
  <2>1. stack' = Popped /\ interrupt' = interrupt
    BY <1>4 DEF LeaveLoop
  <2>2. interrupt
    <3>1. Len(stack) \in 1..Len(stack) /\ (Len(stack) + 1)..Len(stack) = {}
      BY <1>2
    <3> QED
      BY <1>1, <1>2, <3>1 DEF ExitInv, ExitKnown
  <2>3. stack'[Len(stack')].kind = "handler"
    <3>1. Len(Popped) \in 1..Len(Popped)
      BY <1>2, <1>4, EmptySeq
    <3> QED
      BY <1>2, <2>1, <3>1 DEF Placed
  <2> QED
    BY <2>1, <2>2, <2>3 DEF IdleInv, Asleep, TopIs, Top
<1> QED
  BY <1>3, <1>4

\* A handler returns to the pass that called it.
LEMMA ReturnIdle ==
    ASSUME IInv, Nested(stack), IdleInv, ReturnFromHandler
    PROVE  IdleInv'
<1>1. /\ TopIs("handler") /\ loopLevel' = loopLevel - 1
      /\ UNCHANGED <<canWait, insertionOffset, recursion>>
      /\ interrupt' => TRUE
  BY DEF ReturnFromHandler, InHandler
<1>2. /\ stack # <<>> /\ Len(stack) \in Nat \ {0} /\ Top = stack[Len(stack)]
      /\ Top.kind = "handler" /\ Top \in Frames
      /\ Len(Popped) = Len(stack) - 1 /\ Popped \in Seq(Frames)
      /\ \A k \in 1..Len(Popped) : Popped[k] = stack[k]
      /\ Placed(Top, Len(stack), stack[Len(stack) - 1])
  BY <1>1, OnTop DEF IInv
<1>3. /\ Len(stack) - 1 \in 1..Len(Popped) /\ Popped[Len(stack) - 1] = Below
      /\ Len(stack) - 1 \in 1..Len(stack)
      /\ Below.kind = "send" \/ (Below.kind = "process" /\ Below.pc = "native")
  BY <1>2 DEF Placed, Below
<1>4. stack'[Len(stack')] = Below
  <2>1. stack' = Popped \/ stack' = Exited(Popped)
    BY DEF ReturnFromHandler, ExitAll
  <2>2. Len(Exited(Popped)) = Len(Popped) /\ Exited(Popped)[Len(Popped)] = Below
    <3>1. Fits(Popped, Deep(Popped, Levels, Len(Popped)),
                       Deep(Popped, {"send"}, Len(Popped)))
      BY <1>2 DEF Fits
    <3>2. /\ Len(Exited(Popped)) = Len(Popped)
          /\ \A k \in 1..Len(Popped) :
                Popped[k].kind # "exec" => Exited(Popped)[k] = Popped[k]
      BY <3>1, ExitedStack
    <3> QED
      BY <1>2, <1>3, <3>2
  <2> QED
    BY <1>2, <1>3, <2>1, <2>2
<1>5. CASE ~(Below.kind = "send" /\ Unfiltered(Below))
  BY <1>3, <1>4, <1>5, Elsewhere
<1>6. CASE Below.kind = "send" /\ Unfiltered(Below)
  <2>1. recursion # 0
    <3>1. Below.kind \in {"send"} /\ Len(stack) \in Nat
      BY <1>2, <1>6
    <3>2. Deep(stack, {"send"}, Len(stack)) > 0
      BY <1>3, <3>1, DeepFacts DEF Below
    <3> QED
      BY <3>2 DEF IInv, StackInv, Fits
  <2>2. /\ Live(list') \subseteq Live(list)
        /\ \A k \in Live(list') : list'[k] = list[k]
    <3>1. CASE Top.entry.type = "DeferredDelete"
      <4> DEFINE r == Top.entry.receiver
      <4>1. r \in Receivers
        <5>1. Top.entry \in HandlerEntries
          BY <1>2, FrameFacts
        <5> QED
          BY <5>1 DEF HandlerEntries
      <4>2. /\ RemovePosted(r, AnyType) /\ alive' = alive \ {r}
            /\ UNCHANGED <<startOffset, insertionOffset, lastEvent>>
        BY <3>1 DEF ReturnFromHandler
      <4> HIDE DEF r
      <4>3. r # AnyReceiver /\ r \in Receivers \cup {AnyReceiver}
        BY <4>1, EventLoopAssumption
      <4> QED
        BY <2>1, <4>2, <4>3, RemoveQueue DEF IInv
    <3>2. CASE Top.entry.type # "DeferredDelete"
      BY <3>2 DEF ReturnFromHandler
    <3> QED
      BY <3>1, <3>2
  <2>3. WaitFrom(list, insertionOffset, loopLevel - 1)
            => WaitFrom(list', insertionOffset, loopLevel - 1)
    BY <2>2 DEF WaitFrom
  <2>4. ~interrupt' => ~interrupt
    BY DEF ReturnFromHandler, ExitAll
  <2>5. ~InHandler' /\ ~TopIs("process")' /\ ~Asleep'
    BY <1>4, <1>6 DEF TopIs, Top, InHandler, Asleep
  <2> QED
    BY <1>1, <1>6, <2>3, <2>4, <2>5 DEF IdleInv, InHandler
<1> QED
  BY <1>5, <1>6

\* exit of all loops.
LEMMA QuitIdle ==
    ASSUME IInv, IdleInv, Nested(stack), Quit
    PROVE  IdleInv'
<1>1. /\ UserCode /\ stack' = Exited(stack)
      /\ UNCHANGED <<list, insertionOffset, canWait, loopLevel>>
      /\ ~interrupt' => ~interrupt
  BY DEF Quit, ExitAll, queueVars
<1>2. /\ Len(Exited(stack)) = Len(stack) /\ Len(stack) \in Nat
      /\ \A k \in 1..Len(stack) :
            stack[k].kind # "exec" => Exited(stack)[k] = stack[k]
  <2>1. Len(stack) \in Nat
    BY Numbers
  <2> QED
    BY <2>1, ExitedStack DEF IInv, StackInv
<1>3. CASE stack = <<>>
  <2>1. stack' = <<>>
    <3>1. Len(stack') = 0 /\ stack' \in Seq(Frames)
      <4>1. Fits(stack', loopLevel, recursion)
        BY <1>1, ExitedStack DEF IInv, StackInv
      <4> QED
        BY <1>1, <1>2, <1>3, <4>1, EmptySeq DEF Fits
    <3> QED
      BY <3>1, EmptySeq
  <2> QED
    BY <2>1, Elsewhere
<1>4. CASE InHandler
  <2>1. /\ Len(stack) \in Nat \ {0} /\ Top = stack[Len(stack)]
        /\ Top.kind = "handler"
        /\ Placed(Top, Len(stack), stack[Len(stack) - 1])
    BY <1>4, OnTop DEF IInv, InHandler
  <2>2. /\ Len(stack) - 1 \in 1..Len(stack) /\ Len(stack) \in 1..Len(stack)
        /\ Below.kind # "exec"
    BY <2>1 DEF Placed, Below
  <2>3. /\ stack'[Len(stack')].kind = "handler"
        /\ stack'[Len(stack') - 1] = Below
    BY <1>1, <1>2, <2>1, <2>2 DEF Below
  <2>4. ~TopIs("send")' /\ ~TopIs("process")' /\ ~Asleep' /\ Below' = Below
    BY <2>3 DEF TopIs, Top, Asleep, Below
  <2> QED
    BY <1>1, <1>4, <2>4 DEF IdleInv
<1> QED
  BY <1>1, <1>3, <1>4 DEF UserCode

\* exit of one loop.
LEMMA ExitLoopIdle ==
    ASSUME IInv, NEW k \in 1..Len(stack), ExitLoop(k)
    PROVE  IdleInv'
<1>1. /\ TopIs("handler") /\ interrupt' = TRUE /\ stack[k].kind = "exec"
      /\ stack' = [stack EXCEPT ![k].exit = TRUE]
  BY DEF ExitLoop, InHandler
<1>2. /\ Len(stack) \in 1..Len(stack) /\ stack[Len(stack)].kind = "handler"
      /\ DOMAIN stack = 1..Len(stack) /\ Len(stack) \in Nat
  <2>1. stack \in Seq(Frames) /\ Len(stack) \in Nat \ {0}
        /\ stack[Len(stack)].kind = "handler"
    BY <1>1, OnTop DEF IInv
  <2> QED
    BY <2>1, LenProperties
<1>3. Len(stack') = Len(stack)
  BY ExitLoopStack, Changed, LenProperties, <1>1, <1>2
<1>4. stack'[Len(stack')].kind = "handler"
  BY <1>1, <1>2, <1>3
<1> QED
  BY <1>1, <1>4 DEF IdleInv, Asleep, TopIs, Top

\* A pass steps over an entry.
LEMMA SkipIdle ==
    ASSUME IInv, Nested(stack), IdleInv, SkipNull \/ SkipOther
    PROVE  IdleInv'
<1>1. /\ InPass /\ Advance /\ TopIs("send")
      /\ UNCHANGED <<list, insertionOffset, loopLevel, interrupt, wakeUps,
                     waking>>
      /\ canWait' = canWait \/ canWait' = FALSE
  BY DEF SkipNull, SkipOther, InPass
<1>2. CASE ~Unfiltered(Top)
  <2> DEFINE f == [Top EXCEPT !.i = @ + 1]
  <2>1. stack' = Append(SubSeq(stack, 1, Len(stack) - 1), f)
    BY <1>1, <1>2 DEF Advance, Replaced, Popped
  <2>2. f \in Frames /\ Alike(Top, f) /\ stack # <<>> /\ Top.kind = "send"
    BY <1>1, OnTop, FrameFacts DEF IInv
  <2> HIDE DEF f
  <2>3. stack'[Len(stack')] = f
    BY <2>1, <2>2, NestedTop DEF IInv
  <2> QED
    BY <1>2, <2>2, <2>3, Elsewhere DEF Alike, Unfiltered
<1>3. CASE Unfiltered(Top)
  <2>1. stack' = stack
    BY <1>1, <1>3 DEF Advance
  <2>2. Top.kind = "send" /\ stack # <<>>
    BY <1>1 DEF TopIs
  <2>3. ~InHandler' /\ ~TopIs("process")' /\ ~Asleep'
    BY <2>1, <2>2 DEF TopIs, Top, InHandler, Asleep
  <2>4. canWait' => canWait
    BY <1>1
  <2>5. canWait' /\ ~interrupt' => WaitFrom(list', insertionOffset', loopLevel')
    BY <1>1, <1>3, <2>4 DEF IdleInv
  <2> QED
    BY <2>3, <2>5 DEF IdleInv
<1> QED
  BY <1>2, <1>3

\* A loop is entered, from where it will make its own pass.
LEMMA EnterLoopIdle ==
    ASSUME IInv, AppExec \/ NestedExec
    PROVE  IdleInv'
<1>1. stack \in Seq(Frames) /\ stack' = Append(stack, Exec)
  BY DEF AppExec, NestedExec, EnterLoop, IInv, StackInv, Fits
<1>2. Exec \in Frames /\ Exec.kind = "exec"
  BY NewFrames
<1>3. stack'[Len(stack')].kind = "exec"
  <2>1. Len(stack') = Len(stack) + 1 /\ stack'[Len(stack) + 1] = Exec
    BY <1>1, <1>2, PushedFrame
  <2> QED
    BY <1>2, <2>1
<1> QED
  BY <1>3, Elsewhere

\* processEvents returns to the exec below it.
LEMMA ProcessReturns ==
    ASSUME IInv, Nested(stack), TopIs("process"), stack' = Popped
    PROVE  IdleInv'
<1>1. /\ Len(stack) \in Nat \ {0} /\ Top = stack[Len(stack)]
      /\ Top.kind = "process"
      /\ Len(Popped) = Len(stack) - 1
      /\ \A k \in 1..Len(Popped) : Popped[k] = stack[k]
      /\ Placed(Top, Len(stack), stack[Len(stack) - 1])
  BY OnTop DEF IInv
<1>2. Len(stack') \in 1..Len(Popped) /\ stack'[Len(stack')].kind = "exec"
  BY <1>1 DEF Placed
<1> QED
  BY <1>2, Elsewhere

\* The call of processEvents trusts canWait, unless it is interrupted.
LEMMA AfterSendIdle ==
    ASSUME IInv, Nested(stack), IdleInv, AfterSend
    PROVE  IdleInv'
<1>1. /\ TopIs("process") /\ Top.pc = "send"
      /\ UNCHANGED <<list, loopLevel, canWait, interrupt, wakeUps, waking>>
  BY DEF AfterSend, queueVars
<1>2. CASE interrupt
  BY <1>1, <1>2, ProcessReturns DEF AfterSend
<1>3. CASE ~interrupt
  <2> DEFINE w == canWait /\ Top.wait
             f == [Top EXCEPT !.pc = "select", !.canWait = w]
  <2>1. stack' = Append(SubSeq(stack, 1, Len(stack) - 1), f)
    BY <1>3 DEF AfterSend, Replaced, Popped
  <2>2. /\ f \in Frames /\ Alike(Top, f) /\ stack # <<>>
        /\ f.kind = "process" /\ f.pc = "select" /\ f.canWait = w
    <3>1. w \in BOOLEAN /\ Top \in Frames /\ Top.kind = "process"
          /\ stack # <<>>
      BY <1>1, OnTop DEF IInv
    <3> HIDE DEF w
    <3> QED
      BY <3>1, SelectFrame DEF Alike
  <2> HIDE DEF f
  <2>3. stack'[Len(stack')] = f
    BY <2>1, <2>2, NestedTop DEF IInv
  <2>4. ~TopIs("send")' /\ ~InHandler'
        /\ (TopIs("process")' => Top'.pc = "select")
    BY <2>2, <2>3 DEF TopIs, Top, InHandler
  <2>5. Asleep' => w
    BY <2>2, <2>3 DEF Asleep, Top
  <2>6. w => AllWait(list', loopLevel')
    BY <1>1, <1>3 DEF IdleInv
  <2> QED
    BY <2>4, <2>5, <2>6 DEF IdleInv
<1> QED
  BY <1>2, <1>3

\* select() has returned.
LEMMA NativeIdle ==
    ASSUME IInv, Nested(stack), NativeEvent
    PROVE  IdleInv'
<1> DEFINE f == [Top EXCEPT !.pc = "native"]
           s == Append(SubSeq(stack, 1, Len(stack) - 1), f)
<1>1. TopIs("process") /\ stack' = Append(s, Handler(NativeEntry))
  BY DEF NativeEvent, Replaced, Popped
<1>2. f \in Frames /\ Alike(Top, f) /\ f.kind = "process" /\ stack # <<>>
  <2>1. Top \in Frames /\ Top.kind = "process" /\ stack # <<>>
    BY <1>1, OnTop DEF IInv
  <2> QED
    BY <2>1, FrameFacts DEF Alike
<1> HIDE DEF f
<1>3. s \in Seq(Frames) /\ Len(s) \in Nat \ {0} /\ s[Len(s)] = f
  BY <1>2, NestedTop DEF IInv
<1> HIDE DEF s
<1>4. Handler(NativeEntry) \in Frames /\ Handler(NativeEntry).kind = "handler"
  <2>1. NativeEntry \in HandlerEntries
    BY ReceiversAssumption DEF NativeEntry, HandlerEntries, EventTypes
  <2> QED
    BY <2>1, NewFrames
<1>5. /\ Len(stack') = Len(s) + 1 /\ stack'[Len(s) + 1] = Handler(NativeEntry)
      /\ \A k \in 1..Len(s) : stack'[k] = s[k]
  BY <1>1, <1>3, <1>4, PushedFrame
<1>6. /\ stack'[Len(stack')].kind = "handler"
      /\ stack'[Len(stack') - 1].kind = "process"
  <2>1. Len(s) \in 1..Len(s) /\ Len(stack') - 1 = Len(s)
    BY <1>3, <1>5
  <2> QED
    BY <1>2, <1>3, <1>4, <1>5, <2>1
<1> QED
  BY <1>6, Elsewhere

\* Every step keeps it.
LEMMA IdleStep ==
    ASSUME IInv, ExitInv, Nested(stack), IdleInv, NoOwnPasses, [Next]_vars
    PROVE  IdleInv'
<1>1. CASE \/ \E p \in Posts : PostEvent(p[1], p[2], p[3])
           \/ \E t \in Posters, p \in Posts : RemotePost(t, p[1], p[2], p[3])
  BY <1>1, PostIdle
<1>2. ASSUME NEW t \in Posters, RemoteWakeUp(t) PROVE IdleInv'
  BY <1>2 DEF RemoteWakeUp, queueVars, IdleInv, TopIs, Top, InHandler, Below,
     Asleep
<1>3. CASE UNCHANGED vars
  BY <1>3 DEF vars, queueVars, IdleInv, TopIs, Top, InHandler, Below, Asleep
<1>4. CASE \E p \in Removals : RemovePostedEvents(p[1], p[2])
  BY <1>4, RemoveIdle
<1>5. CASE SkipNull \/ SkipOther
  BY <1>5, SkipIdle
<1>6. CASE HoldDeferred
  BY <1>6, HoldIdle
<1>7. CASE Deliver
  BY <1>7, DeliverIdle
<1>8. CASE SendDone
  BY <1>8, SendDoneIdle
<1>9. CASE Iterate
  BY <1>9, IterateIdle
<1>10. CASE LeaveLoop
  BY <1>10, LeaveLoopIdle
<1>11. CASE AfterSend
  BY <1>11, AfterSendIdle
<1>12. CASE Select \/ AfterNative
  BY <1>12, ProcessReturns DEF Select, AfterNative
<1>13. CASE AppExec \/ NestedExec
  BY <1>13, EnterLoopIdle
<1>14. CASE Quit
  BY <1>14, QuitIdle
<1>15. ASSUME NEW k \in 1..Len(stack), ExitLoop(k) PROVE IdleInv'
  BY <1>15, ExitLoopIdle
<1>16. CASE ReturnFromHandler
  BY <1>16, ReturnIdle
<1>17. CASE NativeEvent
  BY <1>17, NativeIdle
<1>18. CASE \/ \E wait \in BOOLEAN : ProcessEvents(wait)
            \/ \E p \in Filters : SendPostedEvents(p[1], p[2])
  BY <1>18 DEF ProcessEvents, NoOwnPasses
<1> QED
  BY <1>1, <1>2, <1>3, <1>4, <1>5, <1>6, <1>7, <1>8, <1>9, <1>10, <1>11, <1>12,
     <1>13, <1>14, <1>15, <1>16, <1>17, <1>18
     DEF Next, Delivery, User, Environment

\* QObject::deleteLater: "The object will be deleted when control returns to
\* the event loop" (qobject.cpp): a thread whose own code calls neither
\* sendPostedEvents nor processEvents never sleeps in the select() of an exec
\* over an event that the loop it is in could deliver: what is left in the
\* queue is deferred deletes of this level or an outer one.
THEOREM IdleDeletes ==
    ASSUME NoOwnPasses
    PROVE  Spec => []DeletedWhenIdle
<1> DEFINE Inv == ExitInv /\ Nested(stack) /\ IdleInv
<1>1. Init => Inv
  <2> SUFFICES ASSUME Init PROVE Inv
    OBVIOUS
  <2>1. stack = <<>> /\ Len(stack) = 0 /\ stack \in Seq(Frames)
    BY EmptySeq DEF Init
  <2>2. Nested(stack)
    BY <2>1 DEF Nested
  <2>3. IdleInv
    BY <2>1 DEF IdleInv, TopIs, InHandler, Asleep
  <2>4. ExitInv
    BY <2>1 DEF ExitInv, ExitKnown, SelectsOnTop, NoSelect
  <2> QED
    BY <2>2, <2>3, <2>4
<1>2. IInv /\ Inv /\ [Next]_vars => Inv'
  BY NestStep, IdleStep, ExitStep DEF NoOwnPasses
<1>3. Inv => DeletedWhenIdle
  BY DEF DeletedWhenIdle, ExecAsleep, IdleInv, AllWait
<1> HIDE DEF Inv
<1> QED
  BY <1>1, <1>2, <1>3, Invariance, PTL DEF Spec
===============================================================================
