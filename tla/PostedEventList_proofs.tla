---------------------- MODULE PostedEventList_proofs ----------------------
(***************************************************************************)
(* What QPostEventList::addEvent does to the list: it keeps the part it    *)
(* searches sorted, puts the event behind those that were posted before it *)
(* with the same priority, and touches nothing a running pass of           *)
(* sendPostedEvents has in front of insertionOffset.                       *)
(***************************************************************************)
EXTENDS PostedEventList, FiniteSetTheorems, SequenceTheorems, TLAPS

\* The new entry comes to stand at position p of the list.
GoesTo(lst, insOffset, entry, p) ==
    /\ p \in (insOffset + 1)..(Len(lst) + 1)
    /\ AddEvent(lst, insOffset, entry) = InsertBefore(lst, p, entry)
    /\ \A k \in (insOffset + 1)..(p - 1) : lst[k].priority >= entry.priority
    /\ \A k \in p..Len(lst) : lst[k].priority < entry.priority

LEMMA EntriesOfList ==
    ASSUME NEW lst \in Seq(Entries)
    PROVE  /\ Len(lst) \in Nat
           /\ \A k \in 1..Len(lst) : lst[k] \in Entries
           /\ \A k \in 1..Len(lst) : lst[k].priority \in Int
<1>1. Len(lst) \in Nat /\ \A k \in 1..Len(lst) : lst[k] \in Entries
  BY LenProperties, ElementOfSeq
<1> QED
  BY <1>1, PrioritiesAssumption DEF Entries

\* In a sorted list the entries the new one goes behind are the first ones, so
\* that their number is the place std::upper_bound finds.
LEMMA AheadIsPrefix ==
    ASSUME NEW lst \in Seq(Entries), NEW insOffset \in 0..Len(lst),
           SortedFrom(lst, insOffset), NEW prio \in Int
    PROVE  /\ Cardinality(Ahead(lst, insOffset, prio)) \in insOffset..Len(lst)
           /\ Ahead(lst, insOffset, prio) =
                  1..Cardinality(Ahead(lst, insOffset, prio))
<1> DEFINE A == Ahead(lst, insOffset, prio)
           n == Cardinality(A)
<1>0. Len(lst) \in Nat /\ \A k \in 1..Len(lst) : lst[k].priority \in Int
  BY EntriesOfList
<1>1. IsFiniteSet(1..Len(lst)) /\ A \in SUBSET (1..Len(lst))
  <2>1. \A m \in Nat : IsFiniteSet(1..m)
    BY FS_Interval
  <2>2. A \in SUBSET (1..Len(lst))
    BY DEF Ahead
  <2> QED
    BY <1>0, <2>1, <2>2
<1>2. IsFiniteSet(A) /\ n \in Nat /\ n <= Len(lst)
  <2>1. Cardinality(1..Len(lst)) = Len(lst)
    <3>1. \A m \in Nat : Cardinality(1..m) = m
      BY FS_Interval
    <3> QED
      BY <1>0, <3>1
  <2>2. Cardinality(A) <= Cardinality(1..Len(lst)) /\ IsFiniteSet(A)
    BY <1>1, FS_Subset
  <2> HIDE DEF A
  <2> QED
    BY <2>1, <2>2, FS_CardinalityType
<1>3. ASSUME NEW k \in A PROVE 1..k \in SUBSET A
  <2> SUFFICES ASSUME NEW j \in 1..k, j # k, ~(j <= insOffset)
               PROVE  j \in 1..Len(lst) /\ lst[j].priority >= prio
    BY DEF Ahead
  <2>1. /\ k \in 1..Len(lst) /\ j \in (insOffset + 1)..Len(lst)
        /\ k \in (insOffset + 1)..Len(lst) /\ j < k
    BY <1>0 DEF Ahead
  <2>2. lst[j].priority >= lst[k].priority
    BY <2>1 DEF SortedFrom
  <2>3. lst[k].priority >= prio
    BY <1>0, <2>1 DEF Ahead
  <2> QED
    BY <1>0, <2>1, <2>2, <2>3
<1>4. ASSUME NEW k \in A PROVE k <= n
  <2>0. k \in Nat /\ k >= 1
    BY <1>0 DEF Ahead
  <2>1. Cardinality(1..k) = k
    <3>1. \A m \in Nat : Cardinality(1..m) = m
      BY FS_Interval
    <3> QED
      BY <2>0, <3>1
  <2>2. Cardinality(1..k) <= Cardinality(A)
    BY <1>2, <1>3, FS_Subset
  <2> QED
    BY <2>1, <2>2
<1>5. A \in SUBSET (1..n)
  BY <1>0, <1>2, <1>4 DEF Ahead
<1>6. IsFiniteSet(1..n) /\ Cardinality(1..n) = n
  <2>1. \A m \in Nat : IsFiniteSet(1..m) /\ Cardinality(1..m) = m
    BY FS_Interval
  <2> HIDE DEF n
  <2> QED
    BY <1>2, <2>1
<1>7. A = 1..n
  BY <1>5, <1>6, FS_Subset
<1>8. insOffset <= n
  <2>1. CASE insOffset = 0
    BY <1>2, <2>1
  <2>2. CASE insOffset # 0
    BY <1>0, <1>4, <2>2 DEF Ahead
  <2> QED
    BY <2>1, <2>2
<1> QED
  BY <1>0, <1>2, <1>7, <1>8

LEMMA AddEventPlace ==
    ASSUME NEW lst \in Seq(Entries), NEW insOffset \in 0..Len(lst),
           SortedFrom(lst, insOffset), NEW entry \in Entries
    PROVE  \E p \in Nat : GoesTo(lst, insOffset, entry, p)
<1>0. /\ Len(lst) \in Nat /\ \A k \in 1..Len(lst) : lst[k].priority \in Int
      /\ entry.priority \in Int
  BY EntriesOfList, PrioritiesAssumption DEF Entries
<1>1. CASE \/ lst = <<>>
           \/ lst[Len(lst)].priority >= entry.priority
           \/ insOffset >= Len(lst)
  <2>1. Append(lst, entry) = InsertBefore(lst, Len(lst) + 1, entry)
    <3>1. /\ Append(lst, entry) \in Seq(Entries)
          /\ Len(Append(lst, entry)) = Len(lst) + 1
          /\ \A k \in 1..Len(lst) : Append(lst, entry)[k] = lst[k]
          /\ Append(lst, entry)[Len(lst) + 1] = entry
      BY AppendProperties
    <3>2. Append(lst, entry)
            = [k \in 1..(Len(lst) + 1) |-> Append(lst, entry)[k]]
      BY <3>1, IsASeq, LenProperties
    <3> QED
      BY <1>0, <3>1, <3>2 DEF InsertBefore
  <2>2. \A k \in (insOffset + 1)..Len(lst) : lst[k].priority >= entry.priority
    BY <1>0, <1>1 DEF SortedFrom
  <2>3. GoesTo(lst, insOffset, entry, Len(lst) + 1)
    BY <1>0, <1>1, <2>1, <2>2 DEF AddEvent, GoesTo
  <2> QED
    BY <1>0, <2>3
<1>2. CASE ~ \/ lst = <<>>
             \/ lst[Len(lst)].priority >= entry.priority
             \/ insOffset >= Len(lst)
  <2> DEFINE A == Ahead(lst, insOffset, entry.priority)
             p == Cardinality(A) + 1
  <2>1. Cardinality(A) \in insOffset..Len(lst) /\ A = 1..Cardinality(A)
    BY <1>0, AheadIsPrefix
  <2>2. AddEvent(lst, insOffset, entry) = InsertBefore(lst, p, entry)
    BY <1>2 DEF AddEvent, UpperBound
  <2>3. \A k \in (insOffset + 1)..(p - 1) : lst[k].priority >= entry.priority
    <3> HIDE DEF A
    <3>1. \A k \in (insOffset + 1)..(p - 1) : k \in A
      BY <1>0, <2>1
    <3> QED
      BY <1>0, <3>1 DEF A, Ahead
  <2>4. \A k \in p..Len(lst) : lst[k].priority < entry.priority
    <3> HIDE DEF A
    <3>1. \A k \in p..Len(lst) : k \in 1..Len(lst) /\ k \notin A
      BY <1>0, <2>1
    <3> QED
      BY <1>0, <3>1 DEF A, Ahead
  <2> HIDE DEF A
  <2>5. p \in Nat /\ p \in (insOffset + 1)..(Len(lst) + 1)
    BY <1>0, <2>1
  <2> QED
    BY <2>2, <2>3, <2>4, <2>5 DEF GoesTo
<1> QED
  BY <1>1, <1>2

-----------------------------------------------------------------------------
\* What the list is afterwards.

\* The new list, position by position.
Shifted(lst, new, entry, p) ==
    /\ DOMAIN new = 1..(Len(lst) + 1) /\ new[p] = entry
    /\ \A k \in 1..(p - 1) : new[k] = lst[k]
    /\ \A k \in (p + 1)..(Len(lst) + 1) : new[k] = lst[k - 1]

LEMMA InsertShifts ==
    ASSUME NEW lst \in Seq(Entries), NEW entry, NEW p \in 1..(Len(lst) + 1)
    PROVE  Shifted(lst, InsertBefore(lst, p, entry), entry, p)
<1>1. Len(lst) \in Nat
  BY EntriesOfList
<1> QED
  BY <1>1 DEF InsertBefore, Shifted

LEMMA AddEventKeeps ==
    ASSUME NEW lst \in Seq(Entries), NEW insOffset \in 0..Len(lst),
           SortedFrom(lst, insOffset), NEW entry \in Entries
    PROVE  LET new == AddEvent(lst, insOffset, entry)
           IN /\ new \in Seq(Entries) /\ Len(new) = Len(lst) + 1
              /\ SortedFrom(new, insOffset)
              /\ \A k \in 1..insOffset : new[k] = lst[k]
<1> DEFINE new == AddEvent(lst, insOffset, entry)
<1>1. PICK p \in Nat : GoesTo(lst, insOffset, entry, p)
  BY AddEventPlace
<1>2. /\ Len(lst) \in Nat /\ \A k \in 1..Len(lst) : lst[k] \in Entries
      /\ \A k \in 1..Len(lst) : lst[k].priority \in Int
      /\ entry.priority \in Int
  BY EntriesOfList, PrioritiesAssumption DEF Entries
<1>3. /\ p \in (insOffset + 1)..(Len(lst) + 1)
      /\ new = InsertBefore(lst, p, entry)
  BY <1>1 DEF GoesTo
<1>4. /\ DOMAIN new = 1..(Len(lst) + 1) /\ new[p] = entry
      /\ \A k \in 1..(p - 1) : new[k] = lst[k]
      /\ \A k \in (p + 1)..(Len(lst) + 1) : new[k] = lst[k - 1]
  <2> HIDE DEF new
  <2>1. Shifted(lst, new, entry, p)
    BY <1>2, <1>3, InsertShifts
  <2> QED
    BY <2>1 DEF Shifted
<1>5. new \in [1..(Len(lst) + 1) -> Entries]
  <2>1. InsertBefore(lst, p, entry) \in [1..(Len(lst) + 1) -> Entries]
    BY <1>2, <1>3 DEF InsertBefore
  <2> QED
    BY <1>3, <2>1
<1>6. new \in Seq(Entries) /\ Len(new) = Len(lst) + 1
  <2>1. Len(lst) + 1 \in Nat
    BY <1>2
  <2> HIDE DEF new
  <2>2. new \in Seq(Entries)
    BY <1>5, <2>1, IsASeq
  <2> QED
    BY <1>4, <2>1, <2>2, LenProperties
<1>7. ASSUME NEW j \in (insOffset + 1)..(Len(lst) + 1),
             NEW k \in (insOffset + 1)..(Len(lst) + 1), j < k
      PROVE  new[j].priority >= new[k].priority
  <2> HIDE DEF new
  <2>1. /\ \A i \in (insOffset + 1)..(p - 1) : lst[i].priority >= entry.priority
        /\ \A i \in p..Len(lst) : lst[i].priority < entry.priority
    BY <1>1 DEF GoesTo
  <2>2. \A i, m \in (insOffset + 1)..Len(lst) :
            i < m => lst[i].priority >= lst[m].priority
    BY DEF SortedFrom
  <2>3. CASE k < p
    BY <1>2, <1>3, <1>4, <1>7, <2>2, <2>3
  <2>4. CASE k = p
    BY <1>2, <1>3, <1>4, <1>7, <2>1, <2>4
  <2>5. CASE k > p
    <3>1. new[k] = lst[k - 1] /\ k - 1 \in p..Len(lst)
      BY <1>2, <1>3, <1>4, <2>5
    <3>2. CASE j < p
      BY <1>2, <1>3, <1>4, <1>7, <2>2, <3>1, <3>2
    <3>3. CASE j = p
      BY <1>2, <1>3, <1>4, <2>1, <3>1, <3>3
    <3>4. CASE j > p
      BY <1>2, <1>3, <1>4, <1>7, <2>2, <3>1, <3>4
    <3> QED
      BY <1>3, <3>2, <3>3, <3>4
  <2> QED
    BY <1>2, <1>3, <2>3, <2>4, <2>5
<1> QED
  BY <1>2, <1>3, <1>4, <1>6, <1>7 DEF SortedFrom

-----------------------------------------------------------------------------
\* The events in the list.  No event is there twice, and those with the same
\* receiver and priority stand in the order they were posted in, but for the
\* deferred deletes, which may be posted again.

SameKind(e, f) ==
    /\ e.receiver = f.receiver /\ e.priority = f.priority
    /\ (e.type = "DeferredDelete") = (f.type = "DeferredDelete")

WellOrdered(lst) ==
    /\ \A j, k \in Live(lst) : lst[j].event = lst[k].event => j = k
    /\ \A j, k \in Live(lst) :
           j < k /\ SameKind(lst[j], lst[k]) => lst[j].event < lst[k].event

\* An event newer than those of its kind is added as the last of its kind.
LEMMA AddEventOrder ==
    ASSUME NEW lst \in Seq(Entries), NEW insOffset \in 0..Len(lst),
           SortedFrom(lst, insOffset), WellOrdered(lst),
           NEW entry \in Entries, IsLive(entry),
           \A f \in LiveEntries(lst) :
               /\ f.event # entry.event
               /\ SameKind(f, entry) => f.event < entry.event
    PROVE  LET new == AddEvent(lst, insOffset, entry)
           IN /\ LiveEntries(new) = LiveEntries(lst) \cup {entry}
              /\ WellOrdered(new)
<1> DEFINE new == AddEvent(lst, insOffset, entry)
<1>1. PICK p \in Nat : GoesTo(lst, insOffset, entry, p)
  BY AddEventPlace
<1>2. /\ Len(lst) \in Nat /\ \A k \in 1..Len(lst) : lst[k] \in Entries
      /\ \A k \in 1..Len(lst) : lst[k].priority \in Int
      /\ \A k \in 1..Len(lst) : lst[k].event \in Nat
      /\ entry.priority \in Int /\ entry.event \in Nat
  BY EntriesOfList, PrioritiesAssumption DEF Entries
<1>3. /\ p \in (insOffset + 1)..(Len(lst) + 1)
      /\ new = InsertBefore(lst, p, entry)
      /\ \A k \in p..Len(lst) : lst[k].priority < entry.priority
  BY <1>1 DEF GoesTo
<1>4. Len(new) = Len(lst) + 1
  BY AddEventKeeps
<1> HIDE DEF new
<1>5. /\ new[p] = entry
      /\ \A k \in 1..(p - 1) : new[k] = lst[k]
      /\ \A k \in (p + 1)..(Len(lst) + 1) : new[k] = lst[k - 1]
  BY <1>2, <1>3, InsertShifts DEF Shifted
<1>6. /\ p \in Live(new)
      /\ \A k \in 1..(p - 1) : k \in Live(new) <=> k \in Live(lst)
      /\ \A k \in (p + 1)..(Len(lst) + 1) : k \in Live(new) <=> k - 1 \in Live(lst)
  BY <1>2, <1>3, <1>4, <1>5 DEF Live
<1>7. Live(new) \subseteq 1..(Len(lst) + 1) /\ Live(lst) \subseteq 1..Len(lst)
  BY <1>4 DEF Live
<1>8. LiveEntries(new) = LiveEntries(lst) \cup {entry}
  <2>1. ASSUME NEW k \in Live(new) PROVE new[k] \in LiveEntries(lst) \cup {entry}
    BY <1>2, <1>3, <1>5, <1>6, <1>7 DEF LiveEntries
  <2>2. ASSUME NEW k \in Live(lst) PROVE \E j \in Live(new) : new[j] = lst[k]
    <3>1. CASE k < p
      BY <1>2, <1>3, <1>5, <1>6, <1>7, <3>1
    <3>2. CASE k >= p
      <4>1. k + 1 \in (p + 1)..(Len(lst) + 1) /\ (k + 1) - 1 = k
        BY <1>2, <1>3, <1>7, <3>2
      <4> QED
        BY <1>5, <1>6, <4>1
    <3> QED
      BY <1>3, <1>7, <3>1, <3>2
  <2>3. entry \in LiveEntries(new)
    BY <1>5, <1>6 DEF LiveEntries
  <2> QED
    BY <2>1, <2>2, <2>3 DEF LiveEntries
<1>9. ASSUME NEW j \in Live(new), NEW k \in Live(new), j < k
      PROVE  /\ new[j].event # new[k].event
             /\ SameKind(new[j], new[k]) => new[j].event < new[k].event
  <2>1. CASE k < p
    <3>1. j \in Live(lst) /\ k \in Live(lst) /\ new[j] = lst[j] /\ new[k] = lst[k]
      BY <1>2, <1>3, <1>5, <1>6, <1>7, <1>9, <2>1
    <3> QED
      BY <1>7, <1>9, <3>1 DEF WellOrdered
  <2>2. CASE k = p
    <3>1. j \in Live(lst) /\ new[j] = lst[j] /\ new[k] = entry
      BY <1>2, <1>3, <1>5, <1>6, <1>7, <1>9, <2>2
    <3> QED
      BY <3>1 DEF LiveEntries
  <2>3. CASE k > p
    <3>1. k - 1 \in Live(lst) /\ new[k] = lst[k - 1] /\ k - 1 \in p..Len(lst)
      BY <1>2, <1>3, <1>5, <1>6, <1>7, <2>3
    <3>2. CASE j < p
      <4>1. j \in Live(lst) /\ new[j] = lst[j] /\ j < k - 1
        BY <1>2, <1>3, <1>5, <1>6, <1>7, <2>3, <3>2
      <4> QED
        BY <1>7, <3>1, <4>1 DEF WellOrdered
    <3>3. CASE j = p
      <4>1. new[j] = entry /\ new[k].priority < entry.priority
        BY <1>2, <1>3, <1>5, <3>1, <3>3
      <4>2. ~SameKind(new[j], new[k])
        BY <1>2, <3>1, <4>1 DEF SameKind
      <4> QED
        BY <3>1, <4>1, <4>2 DEF LiveEntries
    <3>4. CASE j > p
      <4>1. j - 1 \in Live(lst) /\ new[j] = lst[j - 1] /\ j - 1 < k - 1
        BY <1>2, <1>3, <1>5, <1>6, <1>7, <1>9, <3>4
      <4> QED
        BY <1>7, <3>1, <4>1 DEF WellOrdered
    <3> QED
      BY <1>3, <1>7, <3>2, <3>3, <3>4
  <2> QED
    BY <1>3, <1>7, <2>1, <2>2, <2>3
<1>10. WellOrdered(new)
  <2>1. ASSUME NEW j \in Live(new), NEW k \in Live(new),
               new[j].event = new[k].event
        PROVE  j = k
    BY <1>2, <1>7, <1>9, <2>1
  <2> QED
    BY <1>9, <2>1 DEF WellOrdered
<1> QED
  BY <1>8, <1>10 DEF new

\* An event that is taken leaves the others where they are.
LEMMA NulledEvent ==
    ASSUME NEW lst \in Seq(Entries), WellOrdered(lst), NEW k \in Live(lst)
    PROVE  LET new == [lst EXCEPT ![k] = Nulled(@)]
           IN /\ new \in Seq(Entries) /\ Len(new) = Len(lst)
              /\ \A ins \in Nat : SortedFrom(lst, ins) => SortedFrom(new, ins)
              /\ Live(new) = Live(lst) \ {k}
              /\ LiveEntries(new) = LiveEntries(lst) \ {lst[k]}
              /\ WellOrdered(new)
<1> DEFINE new == [lst EXCEPT ![k] = Nulled(@)]
<1>1. /\ Len(lst) \in Nat /\ \A j \in 1..Len(lst) : lst[j] \in Entries
      /\ k \in 1..Len(lst)
  BY EntriesOfList DEF Live
<1>2. Nulled(lst[k]) \in Entries /\ ~IsLive(Nulled(lst[k]))
      /\ Nulled(lst[k]).priority = lst[k].priority
  BY <1>1, ReceiversAssumption DEF Nulled, Entries, IsLive, EventTypes
<1>3. new \in Seq(Entries) /\ Len(new) = Len(lst)
  BY <1>1, <1>2, ExceptSeq
<1>4. /\ new[k] = Nulled(lst[k])
      /\ \A j \in 1..Len(lst) : j # k => new[j] = lst[j]
  BY <1>1, LenProperties
<1> HIDE DEF new
<1>5. Live(new) = Live(lst) \ {k}
  BY <1>1, <1>2, <1>3, <1>4 DEF Live
<1>6. \A ins \in Nat : SortedFrom(lst, ins) => SortedFrom(new, ins)
  <2>1. \A j \in 1..Len(lst) : new[j].priority = lst[j].priority
    BY <1>1, <1>2, <1>4
  <2> QED
    BY <1>1, <1>3, <2>1 DEF SortedFrom
<1>7. \A j \in Live(new) : j \in Live(lst) /\ j # k /\ new[j] = lst[j]
  BY <1>4, <1>5 DEF Live
<1>8. LiveEntries(new) = LiveEntries(lst) \ {lst[k]}
  <2>1. \A j \in Live(lst) : j # k => lst[j] # lst[k]
    BY DEF WellOrdered
  <2> QED
    BY <1>5, <1>7, <2>1 DEF LiveEntries
<1>9. WellOrdered(new)
  BY <1>7 DEF WellOrdered
<1> QED
  BY <1>3, <1>5, <1>6, <1>8, <1>9 DEF new

\* The end of a pass: the part it went through, all null by then, is dropped.
LEMMA DroppedPart ==
    ASSUME NEW lst \in Seq(Entries), WellOrdered(lst),
           NEW n \in 0..Len(lst), \A k \in Live(lst) : k > n
    PROVE  LET new == SubSeq(lst, n + 1, Len(lst))
           IN /\ new \in Seq(Entries) /\ Len(new) \in Nat
              /\ Len(new) = Len(lst) - n
              /\ \A ins \in Nat : SortedFrom(lst, n + ins) => SortedFrom(new, ins)
              /\ \A i \in Live(new) : n + i \in Live(lst) /\ new[i] = lst[n + i]
              /\ LiveEntries(new) = LiveEntries(lst)
              /\ WellOrdered(new)
<1> DEFINE new == SubSeq(lst, n + 1, Len(lst))
<1>1. /\ Len(lst) \in Nat /\ \A j \in 1..Len(lst) : lst[j] \in Entries
      /\ n \in Nat /\ n <= Len(lst)
  BY EntriesOfList
<1>2. \A i \in (n + 1)..Len(lst) : lst[i] \in Entries
  BY <1>1
<1>3. /\ new \in Seq(Entries)
      /\ Len(new) = IF n + 1 <= Len(lst) THEN Len(lst) - (n + 1) + 1 ELSE 0
      /\ \A i \in 1..(Len(lst) - (n + 1) + 1) : new[i] = lst[n + 1 + i - 1]
  <2>1. n + 1 \in Int /\ Len(lst) \in Int
    BY <1>1
  <2> QED
    BY <1>2, <2>1, SubSeqProperties
<1> HIDE DEF new
<1>4. /\ Len(new) = Len(lst) - n
      /\ \A i \in 1..Len(new) : new[i] = lst[n + i]
  <2>1. Len(new) = Len(lst) - n
    BY <1>1, <1>3
  <2>2. ASSUME NEW i \in 1..Len(new) PROVE new[i] = lst[n + i]
    <3>1. i \in 1..(Len(lst) - (n + 1) + 1) /\ n + 1 + i - 1 = n + i
      BY <1>1, <2>1
    <3> QED
      BY <1>3, <3>1
  <2> QED
    BY <2>1, <2>2
<1>5. \A i \in 1..Len(new) : i \in Live(new) <=> n + i \in Live(lst)
  BY <1>1, <1>4 DEF Live
<1>6. \A k \in Live(lst) : k - n \in Live(new) /\ new[k - n] = lst[k]
  <2>1. ASSUME NEW k \in Live(lst)
        PROVE  k - n \in 1..Len(new) /\ n + (k - n) = k
    BY <1>1, <1>4, <2>1 DEF Live
  <2> QED
    BY <1>4, <1>5, <2>1
<1>7. \A i \in Live(new) : /\ i \in 1..Len(new) /\ n + i \in Live(lst)
                          /\ new[i] = lst[n + i]
  BY <1>4, <1>5 DEF Live
<1>8. LiveEntries(new) = LiveEntries(lst)
  BY <1>6, <1>7 DEF LiveEntries
<1>9. ASSUME NEW ins \in Nat, SortedFrom(lst, n + ins) PROVE SortedFrom(new, ins)
  <2> SUFFICES ASSUME NEW j \in (ins + 1)..Len(new), NEW k \in (ins + 1)..Len(new),
                      j < k
               PROVE  new[j].priority >= new[k].priority
    BY DEF SortedFrom
  <2>1. /\ n + j \in (n + ins + 1)..Len(lst) /\ n + k \in (n + ins + 1)..Len(lst)
        /\ n + j < n + k /\ j \in 1..Len(new) /\ k \in 1..Len(new)
    BY <1>1, <1>4
  <2>2. lst[n + j].priority >= lst[n + k].priority
    BY <1>9, <2>1 DEF SortedFrom
  <2> QED
    BY <1>4, <2>1, <2>2
<1>10. WellOrdered(new)
  <2>1. ASSUME NEW i \in Live(new), NEW j \in Live(new)
        PROVE  /\ new[i].event = new[j].event => i = j
               /\ i < j /\ SameKind(new[i], new[j]) => new[i].event < new[j].event
    <3>1. n + i = n + j => i = j
      BY <1>1, <1>7, <1>4
    <3>2. i < j => n + i < n + j
      BY <1>1, <1>7, <1>4
    <3> QED
      BY <1>7, <3>1, <3>2 DEF WellOrdered
  <2> QED
    BY <2>1 DEF WellOrdered
<1>11. Len(new) \in Nat
  BY <1>1, <1>4
<1> QED
  BY <1>3, <1>4, <1>7, <1>8, <1>9, <1>10, <1>11 DEF new
===========================================================================
