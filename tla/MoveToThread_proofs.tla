------------------------ MODULE MoveToThread_proofs ------------------------
(***************************************************************************)
(* However objects move between threads while others post to them, no      *)
(* event is sent in a thread its receiver does not live in, and timers go  *)
(* with their objects: for any number of threads, objects and events.      *)
(***************************************************************************)
EXTENDS MoveToThread, PostedEventList_proofs

\* A list of posted events with its offsets, between two sections of code that
\* hold its mutex or inside a pass: what is in front of startOffset was sent,
\* what the next insertion searches is sorted.
GoodList(lst, start, ins) ==
    /\ lst \in Seq(Entries)
    /\ ins \in 0..Len(lst) /\ start \in 0..ins
    /\ SortedFrom(lst, ins) /\ WellOrdered(lst)
    /\ \A k \in Live(lst) : k > start

LEMMA GoodAdd ==
    ASSUME NEW lst, NEW start, NEW ins, GoodList(lst, start, ins),
           NEW entry \in Entries, IsLive(entry),
           \A f \in LiveEntries(lst) :
               /\ f.event # entry.event
               /\ SameKind(f, entry) => f.event < entry.event
    PROVE  /\ GoodList(AddEvent(lst, ins, entry), start, ins)
           /\ LiveEntries(AddEvent(lst, ins, entry)) = LiveEntries(lst) \cup {entry}
<1> DEFINE new == AddEvent(lst, ins, entry)
<1>0. /\ lst \in Seq(Entries) /\ ins \in 0..Len(lst) /\ start \in 0..ins
      /\ Len(lst) \in Nat
      /\ SortedFrom(lst, ins) /\ WellOrdered(lst)
      /\ \A k \in Live(lst) : k > start
  BY EntriesOfList DEF GoodList
<1>1. /\ new \in Seq(Entries) /\ Len(new) = Len(lst) + 1
      /\ SortedFrom(new, ins)
      /\ \A k \in 1..ins : new[k] = lst[k]
  BY <1>0, AddEventKeeps
<1>2. LiveEntries(new) = LiveEntries(lst) \cup {entry} /\ WellOrdered(new)
  BY <1>0, AddEventOrder
<1> HIDE DEF new
<1>3. ASSUME NEW k \in Live(new) PROVE k > start
  <2>1. CASE k <= ins
    <3>1. k \in Live(lst)
      BY <1>0, <1>1, <2>1 DEF Live
    <3> QED
      BY <1>0, <3>1
  <2>2. CASE k > ins
    BY <1>0, <2>2 DEF Live
  <2> QED
    BY <1>0, <2>1, <2>2 DEF Live
<1> QED
  BY <1>0, <1>1, <1>2, <1>3 DEF new, GoodList

LEMMA GoodNull ==
    ASSUME NEW lst, NEW start, NEW ins, GoodList(lst, start, ins),
           NEW k \in Live(lst)
    PROVE  /\ GoodList([lst EXCEPT ![k] = Nulled(@)], start, ins)
           /\ LiveEntries([lst EXCEPT ![k] = Nulled(@)])
                  = LiveEntries(lst) \ {lst[k]}
           /\ Live([lst EXCEPT ![k] = Nulled(@)]) = Live(lst) \ {k}
           /\ Len([lst EXCEPT ![k] = Nulled(@)]) = Len(lst)
<1>1. lst \in Seq(Entries) /\ Len(lst) \in Nat /\ WellOrdered(lst) /\ ins \in Nat
  BY EntriesOfList DEF GoodList
<1>2. /\ [lst EXCEPT ![k] = Nulled(@)] \in Seq(Entries)
      /\ Len([lst EXCEPT ![k] = Nulled(@)]) = Len(lst)
      /\ \A i \in Nat : SortedFrom(lst, i)
                           => SortedFrom([lst EXCEPT ![k] = Nulled(@)], i)
      /\ Live([lst EXCEPT ![k] = Nulled(@)]) = Live(lst) \ {k}
      /\ LiveEntries([lst EXCEPT ![k] = Nulled(@)])
             = LiveEntries(lst) \ {lst[k]}
      /\ WellOrdered([lst EXCEPT ![k] = Nulled(@)])
  BY <1>1, NulledEvent
<1> QED
  BY <1>1, <1>2 DEF GoodList

LEMMA GoodDrop ==
    ASSUME NEW lst, NEW start, NEW ins, GoodList(lst, start, ins),
           \A k \in Live(lst) : k > ins
    PROVE  /\ GoodList(SubSeq(lst, ins + 1, Len(lst)), 0, 0)
           /\ LiveEntries(SubSeq(lst, ins + 1, Len(lst))) = LiveEntries(lst)
<1>1. /\ lst \in Seq(Entries) /\ ins \in 0..Len(lst)
      /\ SortedFrom(lst, ins) /\ WellOrdered(lst)
  BY DEF GoodList
<1> DEFINE new == SubSeq(lst, ins + 1, Len(lst))
<1>2. /\ new \in Seq(Entries) /\ Len(new) \in Nat
      /\ SortedFrom(new, 0)
      /\ LiveEntries(new) = LiveEntries(lst)
      /\ WellOrdered(new)
  <2>1. ins + 0 = ins /\ 0 \in Nat
    BY <1>1, EntriesOfList
  <2> QED
    BY <1>1, <2>1, DroppedPart
<1> HIDE DEF new
<1>3. \A k \in Live(new) : k > 0
  BY <1>2 DEF Live
<1> QED
  BY <1>2, <1>3 DEF new, GoodList

-----------------------------------------------------------------------------
\* The inductive invariant.

E(t) == LiveEntries(lists[t])
Moving(t) == pc[t] \in {"change", "second", "move"}
Family(t) == Members[object[t]]

Lists == \A t \in Threads : GoodList(lists[t], startOffset[t], insertionOffset[t])

\* Who holds which mutex, and where the calls of moveToThread are.
Places ==
    \A t \in Threads :
        /\ pc[t] = "send" => holder[t] = t
        /\ pc[t] = "second" => holder[Lower(t, target[t])] = t
        /\ pc[t] = "move" => holder[t] = t /\ holder[target[t]] = t
        /\ Moving(t) => /\ target[t] # t /\ object[t] \in DOMAIN Members
                        /\ done[t] \in 0..Len(Family(t))
        /\ pc[t] \notin {"change", "move"} => done[t] = 0

\* A family is in one thread, or on its way from one to another.
Together(o) ==
    \A k \in 1..Len(Members[o]) : threadData[Members[o][k]] = threadData[o]
Carried(o) == \E t \in Threads : pc[t] = "move" /\ object[t] = o
Carries(t) ==
    /\ pc[t] = "move" =>
           \A k \in 1..Len(Family(t)) :
               threadData[Family(t)[k]] = IF k <= done[t] THEN target[t] ELSE t
    /\ pc[t] \in {"change", "second"} => threadData[object[t]] = t
Families ==
    /\ \A o \in DOMAIN Members : Together(o) \/ Carried(o)
    /\ \A t \in Threads : Carries(t)

\* Only the dispatcher of an object's thread knows its timer, and forgets it
\* before the object moves.  A queued call is handled where its receiver lives.
Knows(t) == \A o \in registered[t] : threadData[o] = t
Forgets(t) ==
    Moving(t) =>
        \A k \in 1..Len(Family(t)) :
            pc[t] # "change" \/ k <= done[t] => Family(t)[k] \notin registered[t]
Calls(t) ==
    handled[t].type = "MetaCall" =>
        pc[t] = "handler" /\ threadData[handled[t].receiver] = t
Registrations == \A t \in Threads : Knows(t) /\ Forgets(t) /\ Calls(t)

\* Every event has a name of its own.
Names ==
    \A t \in Threads : \A e \in E(t) :
        /\ e.event <= lastEvent
        /\ \A u \in Threads : \A f \in E(u) : e.event = f.event => t = u /\ e = f

\* An event moves after the older ones of its kind.
OldFirst ==
    \A t \in Threads : pc[t] = "move" /\ ~AllDone(t) =>
        \A e \in E(target[t]), f \in E(t) :
            e.receiver = Member(t) /\ SameKind(e, f) => e.event < f.event

\* An event that is handled is in no list, and in no other handler.
Idle == {"off", "process", "send", "poll", "select"}
Handlers ==
    \A t \in Threads :
        /\ pc[t] \in Idle => ~IsLive(handled[t])
        /\ handled[t].type # "DeferredDelete"
        /\ \A e \in E(t) : e.type # "DeferredDelete"
        /\ IsLive(handled[t]) =>
               /\ handled[t].event <= lastEvent
               /\ \A u \in Threads : \A e \in E(u) : e.event # handled[t].event
               /\ \A u \in Threads :
                     handled[u].event = handled[t].event => u = t

\* The queued call that will make the timer known again is underway.
Registering == \A o \in Receivers :
    timer[o] = "running" => o \in registered[threadData[o]] \/ ToRegister(o)

IInv == /\ TypeOK /\ Lists /\ Places /\ Families /\ Registrations
        /\ Names /\ OldFirst /\ EventsFollowReceiver /\ Registering
        /\ Handlers

-----------------------------------------------------------------------------
\* What the steps do to the lists.

SameEvents == \A t \in Threads : E(t)' = E(t)
Gains(t, e) == \A u \in Threads : E(u)' = IF u = t THEN E(t) \cup {e} ELSE E(u)
Loses(t, e) == \A u \in Threads : E(u)' = IF u = t THEN E(t) \ {e} ELSE E(u)
Passes(t, u, e) ==
    \A v \in Threads : E(v)' = IF v = t THEN E(t) \ {e}
                               ELSE IF v = u THEN E(u) \cup {e} ELSE E(v)

NewEntry(r, ty, p) == [receiver |-> r, priority |-> p, event |-> lastEvent + 1,
                       type |-> ty, level |-> 0, poster |-> 0]

LEMMA ListFacts ==
    ASSUME TypeOK, Lists, NEW t \in Threads
    PROVE  /\ lists[t] \in Seq(Entries) /\ Len(lists[t]) \in Nat
           /\ \A k \in Live(lists[t]) : k \in Nat /\ lists[t][k] \in E(t)
           /\ \A e \in E(t) : e \in Entries /\ IsLive(e)
<1>1. lists[t] \in Seq(Entries)
  BY DEF Lists, GoodList
<1>2. /\ Len(lists[t]) \in Nat
      /\ \A k \in 1..Len(lists[t]) : lists[t][k] \in Entries
  BY <1>1, EntriesOfList
<1> QED
  BY <1>1, <1>2 DEF E, LiveEntries, Live

LEMMA EnqueueLists ==
    ASSUME TypeOK, Lists, Names, NEW t \in Threads, NEW r \in Receivers,
           NEW ty \in EventTypes, NEW p \in Priorities,
           Enqueue(t, r, ty, p), UNCHANGED <<startOffset, insertionOffset>>
    PROVE  /\ Lists' /\ Gains(t, NewEntry(r, ty, p))
           /\ NewEntry(r, ty, p) \in Entries
           /\ lastEvent' = lastEvent + 1
           /\ canWait' = [canWait EXCEPT ![t] = FALSE]
<1> DEFINE new == NewEntry(r, ty, p)
<1>0. lastEvent \in Nat /\ DOMAIN lists = Threads
  BY DEF TypeOK
<1>1. new \in Entries /\ IsLive(new) /\ new.event = lastEvent + 1
  BY <1>0 DEF NewEntry, Entries, IsLive
<1>2. \A f \in E(t) : f.event \in Nat /\ f.event <= lastEvent
  BY ListFacts DEF Names, Entries
<1>3. /\ lists' = [lists EXCEPT ![t] = AddEvent(@, insertionOffset[t], new)]
      /\ lastEvent' = lastEvent + 1
      /\ canWait' = [canWait EXCEPT ![t] = FALSE]
  BY DEF Enqueue, NewEntry
<1> HIDE DEF new
<1>4. \A f \in LiveEntries(lists[t]) :
          f.event # new.event /\ (SameKind(f, new) => f.event < new.event)
  BY <1>0, <1>1, <1>2 DEF E
<1>5. GoodList(lists[t], startOffset[t], insertionOffset[t])
  BY DEF Lists
<1>6. /\ GoodList(AddEvent(lists[t], insertionOffset[t], new), startOffset[t],
                  insertionOffset[t])
      /\ LiveEntries(AddEvent(lists[t], insertionOffset[t], new))
            = LiveEntries(lists[t]) \cup {new}
  BY <1>1, <1>4, <1>5, GoodAdd
<1>7. /\ lists'[t] = AddEvent(lists[t], insertionOffset[t], new)
      /\ \A u \in Threads : u # t => lists'[u] = lists[u]
  BY <1>0, <1>3
<1>8. Lists'
  BY <1>6, <1>7 DEF Lists
<1>9. Gains(t, new)
  BY <1>6, <1>7 DEF Gains, E
<1> QED
  BY <1>1, <1>3, <1>8, <1>9 DEF new

\* What is sent is the first event of its kind.
LEMMA DeliverLists ==
    ASSUME TypeOK, Lists, NEW t \in Threads, Deliver(t)
    PROVE  /\ Lists'
           /\ \E e \in E(t) : /\ handled' = [handled EXCEPT ![t] = e]
                             /\ Loses(t, e)
                             /\ \A f \in E(t) : SameKind(e, f) => e.event <= f.event
<1>0. \A k \in Live(lists[t]) : k \in Nat /\ lists[t][k] \in E(t)
  BY ListFacts
<1>1. PICK k \in ToSend(t) :
          /\ \A j \in ToSend(t) : k <= j
          /\ lists' = [lists EXCEPT ![t][k] = Nulled(@)]
          /\ startOffset' = [startOffset EXCEPT ![t] = k]
          /\ handled' = [handled EXCEPT ![t] = lists[t][k]]
  BY DEF Deliver
<1>2. insertionOffset' = insertionOffset
  BY DEF Deliver
<1>3. /\ k \in Live(lists[t]) /\ startOffset[t] < k /\ k <= insertionOffset[t]
      /\ k \in Nat
  BY <1>0 DEF ToSend
<1>4. GoodList(lists[t], startOffset[t], insertionOffset[t])
  BY DEF Lists
<1> DEFINE new == [lists[t] EXCEPT ![k] = Nulled(@)]
<1>5. /\ GoodList(new, startOffset[t], insertionOffset[t])
      /\ LiveEntries(new) = LiveEntries(lists[t]) \ {lists[t][k]}
      /\ Live(new) = Live(lists[t]) \ {k}
  BY <1>3, <1>4, GoodNull
<1>6. /\ lists'[t] = new
      /\ \A u \in Threads : u # t => lists'[u] = lists[u]
  <2>1. lists \in [Threads -> Seq(Entries)]
    BY DEF TypeOK
  <2>2. lists' = [lists EXCEPT ![t] = new]
    BY <1>1
  <2> HIDE DEF new
  <2> QED
    BY <2>1, <2>2
<1> HIDE DEF new
<1>7. \A j \in Live(lists[t]) : j \in Nat /\ k <= j
  <2>1. ASSUME NEW j \in Live(lists[t]) PROVE j \in Nat /\ k <= j
    <3>0. startOffset[t] \in Nat
      BY DEF TypeOK
    <3>1. j \in Nat /\ startOffset[t] < j
      BY <1>0, <1>4, <3>0 DEF GoodList
    <3>2. CASE j <= insertionOffset[t]
      BY <1>1, <3>1, <3>2 DEF ToSend
    <3>3. CASE ~(j <= insertionOffset[t])
      <4>1. insertionOffset[t] \in Nat
        BY DEF TypeOK
      <4> QED
        BY <1>3, <3>1, <3>3, <4>1
    <3> QED
      BY <3>1, <3>2, <3>3
  <2> QED
    BY <2>1
<1>8. GoodList(new, k, insertionOffset[t])
  <2>1. \A j \in Live(new) : j > k
    BY <1>3, <1>5, <1>7
  <2> QED
    BY <1>3, <1>5, <2>1 DEF GoodList
<1>9. Lists'
  <2>1. startOffset \in [Threads -> Nat]
    BY DEF TypeOK
  <2> QED
    BY <1>1, <1>2, <1>6, <1>8, <2>1 DEF Lists
<1>10. lists[t][k] \in E(t)
  BY <1>3, ListFacts
<1>11. Loses(t, lists[t][k])
  BY <1>5, <1>6 DEF Loses, E
<1>12. ASSUME NEW f \in E(t), SameKind(lists[t][k], f)
       PROVE  lists[t][k].event <= f.event
  <2>1. PICK j \in Live(lists[t]) : f = lists[t][j]
    BY DEF E, LiveEntries
  <2>2. f.event \in Nat
    BY ListFacts DEF Entries
  <2>3. CASE j = k
    BY <2>1, <2>2, <2>3
  <2>4. CASE j # k
    <3>1. k < j
      <4>1. j \in Nat /\ k <= j
        BY <1>7, <2>1
      <4> QED
        BY <1>3, <2>4, <4>1
    <3>2. lists[t][k].event < lists[t][j].event
      BY <1>3, <1>4, <1>12, <2>1, <3>1 DEF GoodList, WellOrdered
    <3>3. lists[t][k].event \in Nat
      BY <1>10, ListFacts DEF Entries
    <3> QED
      BY <2>1, <2>2, <3>2, <3>3
  <2> QED
    BY <2>3, <2>4
<1> QED
  BY <1>1, <1>9, <1>10, <1>11, <1>12

LEMMA SendDoneLists ==
    ASSUME TypeOK, Lists, NEW t \in Threads, SendDone(t)
    PROVE  Lists' /\ SameEvents
<1>0. /\ \A k \in Live(lists[t]) : k \in Nat
      /\ GoodList(lists[t], startOffset[t], insertionOffset[t])
      /\ insertionOffset[t] \in Nat
  BY ListFacts DEF Lists, TypeOK
<1> DEFINE new == SubSeq(lists[t], insertionOffset[t] + 1, Len(lists[t]))
<1>1. /\ lists' = [lists EXCEPT ![t] = new]
      /\ startOffset' = [startOffset EXCEPT ![t] = 0]
      /\ insertionOffset' = [insertionOffset EXCEPT ![t] = 0]
      /\ ToSend(t) = {}
  BY DEF SendDone
<1>2. \A k \in Live(lists[t]) : k > insertionOffset[t]
  BY <1>0, <1>1 DEF ToSend, GoodList
<1>3. GoodList(new, 0, 0) /\ LiveEntries(new) = LiveEntries(lists[t])
  BY <1>0, <1>2, GoodDrop
<1>4. /\ lists'[t] = new /\ startOffset'[t] = 0 /\ insertionOffset'[t] = 0
      /\ \A u \in Threads : u # t => /\ lists'[u] = lists[u]
                                   /\ startOffset'[u] = startOffset[u]
                                   /\ insertionOffset'[u] = insertionOffset[u]
  <2> HIDE DEF new
  <2> QED
    BY <1>1 DEF TypeOK
<1> HIDE DEF new
<1> QED
  BY <1>3, <1>4 DEF Lists, SameEvents, E

LEMMA EnterSendLists ==
    ASSUME TypeOK, Lists, NEW t \in Threads, EnterSend(t)
    PROVE  Lists' /\ SameEvents
<1>0. lists' = lists /\ startOffset' = startOffset
  BY DEF EnterSend
<1>1. SameEvents
  BY <1>0 DEF SameEvents, E
<1>2. CASE insertionOffset' = insertionOffset
  BY <1>0, <1>1, <1>2 DEF Lists
<1>3. CASE insertionOffset' = [insertionOffset EXCEPT ![t] = Len(lists[t])]
  <2>1. /\ insertionOffset'[t] = Len(lists[t])
        /\ \A u \in Threads : u # t => insertionOffset'[u] = insertionOffset[u]
    BY <1>3 DEF TypeOK
  <2>2. GoodList(lists[t], startOffset[t], insertionOffset[t])
    BY DEF Lists
  <2>3. Len(lists[t]) \in Nat
    BY ListFacts
  <2>4. GoodList(lists[t], startOffset[t], Len(lists[t]))
    BY <2>2, <2>3 DEF GoodList, SortedFrom
  <2> QED
    BY <1>0, <1>1, <2>1, <2>4 DEF Lists
<1> QED
  BY <1>2, <1>3 DEF EnterSend

LEMMA MoveEventLists ==
    ASSUME TypeOK, Lists, Names, OldFirst, NEW t \in Threads,
           target[t] \in Threads \ {t}, MoveEvent(t)
    PROVE  /\ Lists'
           /\ \E e \in E(t) : /\ e.receiver = Member(t)
                             /\ Passes(t, target[t], e)
                             /\ \A f \in E(t) : SameKind(e, f) => e.event <= f.event
<1> DEFINE u == target[t]
<1>0. /\ \A k \in Live(lists[t]) : k \in Nat /\ lists[t][k] \in E(t)
      /\ \A e \in E(t) : e \in Entries /\ IsLive(e)
      /\ pc[t] = "move" /\ ~AllDone(t)
      /\ startOffset' = startOffset /\ insertionOffset' = insertionOffset
  BY ListFacts DEF MoveEvent
<1>1. PICK k \in MembersEvents(t) :
          /\ \A j \in MembersEvents(t) : k <= j
          /\ lists' = [lists EXCEPT
                ![t][k] = Nulled(@),
                ![u] = AddEvent(@, insertionOffset[u], lists[t][k])]
  BY DEF MoveEvent
<1> DEFINE e == lists[t][k]
           old == [lists[t] EXCEPT ![k] = Nulled(@)]
           new == AddEvent(lists[u], insertionOffset[u], e)
<1>2. /\ k \in Live(lists[t]) /\ k \in Nat /\ e \in E(t) /\ e \in Entries
      /\ IsLive(e) /\ e.receiver = Member(t)
  BY <1>0 DEF MembersEvents
<1>3. /\ GoodList(lists[t], startOffset[t], insertionOffset[t])
      /\ GoodList(lists[u], startOffset[u], insertionOffset[u])
  BY DEF Lists
<1>4. /\ GoodList(old, startOffset[t], insertionOffset[t])
      /\ LiveEntries(old) = E(t) \ {e}
  BY <1>2, <1>3, GoodNull DEF E
<1>5. \A f \in E(u) : f.event # e.event /\ (SameKind(f, e) => f.event < e.event)
  BY <1>0, <1>2 DEF Names, OldFirst, SameKind
<1>6. /\ GoodList(new, startOffset[u], insertionOffset[u])
      /\ LiveEntries(new) = E(u) \cup {e}
  <2> HIDE DEF e
  <2> QED
    BY <1>2, <1>3, <1>5, GoodAdd DEF E
<1>7. /\ lists'[t] = old /\ lists'[u] = new
      /\ \A v \in Threads : v \notin {t, u} => lists'[v] = lists[v]
  <2>1. lists' = [[lists EXCEPT ![t] = old] EXCEPT
                     ![u] = AddEvent(@, insertionOffset[u], e)]
    BY <1>1
  <2>2. lists \in [Threads -> Seq(Entries)]
    BY DEF TypeOK
  <2> HIDE DEF old, e
  <2> QED
    BY <2>1, <2>2
<1> HIDE DEF old, new, e
<1>8. Lists'
  BY <1>0, <1>4, <1>6, <1>7 DEF Lists
<1>9. Passes(t, u, e)
  BY <1>4, <1>6, <1>7 DEF Passes, E
<1>10. ASSUME NEW f \in E(t), SameKind(e, f) PROVE e.event <= f.event
  <2>1. PICK j \in Live(lists[t]) : f = lists[t][j]
    BY DEF E, LiveEntries
  <2>2. f.event \in Nat /\ e.event \in Nat
    BY <1>0, <1>2 DEF Entries
  <2>3. j \in Nat /\ k <= j
    BY <1>0, <1>1, <1>2, <1>10, <2>1 DEF MembersEvents, SameKind
  <2>4. CASE j = k
    BY <2>1, <2>2, <2>4 DEF e
  <2>5. CASE j # k
    <3>1. k < j
      BY <1>2, <2>3, <2>5
    <3>2. lists[t][k].event < lists[t][j].event
      BY <1>2, <1>3, <1>10, <2>1, <3>1 DEF GoodList, WellOrdered, e
    <3> QED
      BY <2>1, <2>2, <3>2 DEF e
  <2> QED
    BY <2>4, <2>5
<1> QED
  BY <1>2, <1>8, <1>9, <1>10

LEMMA MemberFacts ==
    ASSUME Places, NEW t \in Threads, Moving(t)
    PROVE  /\ Family(t) \in Seq(Receivers) /\ Len(Family(t)) \in Nat \ {0}
           /\ done[t] \in 0..Len(Family(t)) /\ target[t] # t
           /\ object[t] \in DOMAIN Members /\ Family(t)[1] = object[t]
           /\ \A k \in 1..Len(Family(t)) : Family(t)[k] \in Receivers
           /\ ~AllDone(t) => /\ done[t] + 1 \in 1..Len(Family(t))
                             /\ Member(t) = Family(t)[done[t] + 1]
                             /\ Member(t) \in Receivers
<1>1. /\ target[t] # t /\ object[t] \in DOMAIN Members
      /\ done[t] \in 0..Len(Family(t))
  BY DEF Places
<1>2. Family(t) \in Seq(Receivers) /\ Family(t) # <<>> /\ Family(t)[1] = object[t]
  BY <1>1, MoveToThreadAssumption, FamiliesAssumption DEF Family
<1>3. Len(Family(t)) \in Nat /\ Len(Family(t)) # 0
  BY <1>2, LenProperties, EmptySeq
<1>4. \A k \in 1..Len(Family(t)) : Family(t)[k] \in Receivers
  BY <1>2, ElementOfSeq
<1>5. ~AllDone(t) => done[t] + 1 \in 1..Len(Family(t))
  BY <1>1, <1>3 DEF AllDone, Family
<1> QED
  BY <1>1, <1>2, <1>3, <1>4, <1>5 DEF Member, Family

LEMMA ThreadChangeLists ==
    ASSUME TypeOK, Lists, Places, Registrations, Names, NEW t \in Threads,
           ThreadChange(t)
    PROVE  /\ Lists'
           /\ \/ /\ Member(t) \notin registered[t] /\ SameEvents
                 /\ UNCHANGED <<lastEvent, registered, canWait>>
              \/ /\ Member(t) \in registered[t]
                 /\ Gains(t, NewEntry(Member(t), "MetaCall", 0))
                 /\ NewEntry(Member(t), "MetaCall", 0) \in Entries
                 /\ lastEvent' = lastEvent + 1
                 /\ canWait' = [canWait EXCEPT ![t] = FALSE]
                 /\ registered' = [registered EXCEPT ![t] = @ \ {Member(t)}]
<1>1. /\ pc[t] = "change" /\ ~AllDone(t)
      /\ startOffset' = startOffset /\ insertionOffset' = insertionOffset
  BY DEF ThreadChange
<1>2. Member(t) \in Receivers
  BY <1>1, MemberFacts DEF Moving
<1>3. CASE Member(t) \in registered[t]
  <2>1. /\ Enqueue(t, Member(t), "MetaCall", 0)
        /\ registered' = [registered EXCEPT ![t] = @ \ {Member(t)}]
    BY <1>3 DEF ThreadChange
  <2>2. "MetaCall" \in EventTypes /\ 0 \in Priorities
    BY MoveToThreadAssumption DEF EventTypes
  <2> QED
    BY <1>1, <1>2, <1>3, <2>1, <2>2, EnqueueLists
<1>4. CASE Member(t) \notin registered[t]
  <2>1. UNCHANGED <<lists, registered, canWait, lastEvent>>
    BY <1>4 DEF ThreadChange
  <2> QED
    BY <1>1, <1>4, <2>1 DEF Lists, SameEvents, E
<1> QED
  BY <1>3, <1>4

LEMMA InsertLists ==
    ASSUME TypeOK, Lists, Names, NEW a \in Posters, Insert(a)
    PROVE  LET post == posts[a]
               new == NewEntry(post.receiver, "Plain", post.priority)
           IN /\ Lists'
              /\ post.data \in Threads /\ post.receiver \in Receivers
              /\ Gains(post.data, new) /\ new \in Entries
              /\ lastEvent' = lastEvent + 1
              /\ canWait' = [canWait EXCEPT ![post.data] = FALSE]
              /\ threadData[post.receiver] = post.data
              /\ holder[post.data] = NoOne
<1>1. /\ posts[a].data \in Threads /\ posts[a].receiver \in Receivers
      /\ posts[a].priority \in Priorities /\ "Plain" \in EventTypes
  BY DEF TypeOK, EventTypes
<1>2. /\ Enqueue(posts[a].data, posts[a].receiver, "Plain", posts[a].priority)
      /\ startOffset' = startOffset /\ insertionOffset' = insertionOffset
      /\ threadData[posts[a].receiver] = posts[a].data
      /\ holder[posts[a].data] = NoOne
  BY DEF Insert
<1> QED
  BY <1>1, <1>2, EnqueueLists

\* Every step of the system, in the form in which the lemmas below go through
\* them.
LoopOrUser(t) ==
    \/ Start(t) \/ EnterSend(t) \/ Poll(t) \/ Select(t)
    \/ \E o \in Timers : TimerEvent(t, o) \/ StartTimer(t, o) \/ KillTimer(t, o)
Posting(a) ==
    \/ \E p \in Posts : PostEvent(a, p[1], p[2])
    \/ Follow(a) \/ PosterWakesUp(a)
Moves(t) ==
    \/ \E o \in DOMAIN Members, u \in Threads : MoveToThread(t, o, u)
    \/ LockFirst(t) \/ LockSecond(t) \/ SetThreadData(t) \/ Unlock(t)

LEMMA Steps ==
    ASSUME [Next]_vars
    PROVE  \/ UNCHANGED vars
           \/ \E a \in Posters : Posting(a) \/ Insert(a)
           \/ \E t \in Threads :
                 \/ LoopOrUser(t) \/ Deliver(t) \/ SendDone(t) \/ Return(t)
                 \/ Moves(t) \/ ThreadChange(t) \/ MoveEvent(t)
BY DEF Next, LoopStep, MoveStep, PostStep, User, LoopOrUser, Posting, Moves

LEMMA ListsStep ==
    ASSUME TypeOK, Lists, Places, Registrations, Names, OldFirst, [Next]_vars
    PROVE  Lists'
<1>1. CASE UNCHANGED listVars
  BY <1>1 DEF listVars, Lists
<1>2. ASSUME UNCHANGED vars PROVE Lists'
  BY <1>1, <1>2 DEF vars
<1>3. ASSUME NEW a \in Posters, Posting(a) PROVE Lists'
  BY <1>1, <1>3 DEF Posting, PostEvent, Follow, PosterWakesUp
<1>4. ASSUME NEW a \in Posters, Insert(a) PROVE Lists'
  BY <1>4, InsertLists
<1>5. ASSUME NEW t \in Threads, LoopOrUser(t) PROVE Lists'
  BY <1>1, <1>5, EnterSendLists
     DEF LoopOrUser, Start, Poll, Select, TimerEvent, StartTimer, KillTimer
<1>6. ASSUME NEW t \in Threads, Deliver(t) PROVE Lists'
  BY <1>6, DeliverLists
<1>7. ASSUME NEW t \in Threads, SendDone(t) PROVE Lists'
  BY <1>7, SendDoneLists
<1>8. ASSUME NEW t \in Threads, Return(t) PROVE Lists'
  BY <1>1, <1>8 DEF Return
<1>9. ASSUME NEW t \in Threads, Moves(t) PROVE Lists'
  BY <1>1, <1>9 DEF Moves, MoveToThread, LockFirst, LockSecond, SetThreadData, Unlock
<1>10. ASSUME NEW t \in Threads, ThreadChange(t) PROVE Lists'
  BY <1>10, ThreadChangeLists
<1>11. ASSUME NEW t \in Threads, MoveEvent(t) PROVE Lists'
  <2>1. target[t] \in Threads \ {t}
    BY <1>11 DEF MoveEvent, Places, Moving, TypeOK
  <2> QED
    BY <1>11, <2>1, MoveEventLists
<1> QED
  BY Steps, <1>2, <1>3, <1>4, <1>5, <1>6, <1>7, <1>8, <1>9, <1>10, <1>11

-----------------------------------------------------------------------------
\* Types, and who is where.

LEMMA EntryTypes ==
    /\ \A o \in Receivers : TimerEntry(o) \in Entries
    /\ Nulled(TimerEntry(App)) \in Entries
    /\ \A o : IsLive(TimerEntry(o)) = FALSE /\ TimerEntry(o).type = "Plain"
    /\ Nulled(TimerEntry(App)).type = "Plain"
    /\ NotPosting \in [pc : {"none", "lock", "wake"}, data : Threads,
                       receiver : Receivers, priority : Priorities]
BY MoveToThreadAssumption, ReceiversAssumption
   DEF TimerEntry, Nulled, Entries, EventTypes, NotPosting, IsLive

PCs == {"off", "process", "send", "handler", "poll", "select", "change",
        "second", "move"}
PostStates == [pc : {"none", "lock", "wake"}, data : Threads,
               receiver : Receivers, priority : Priorities]

LEMMA TypeStep ==
    ASSUME TypeOK, Lists, Places, Registrations, Names, OldFirst, [Next]_vars
    PROVE  TypeOK'
<1> USE DEF TypeOK
<1>0. Lists' /\ \A t \in Threads : lists'[t] \in Seq(Entries)
  BY ListsStep DEF Lists, GoodList
<1>a. pc \in [Threads -> PCs] /\ holder \in [Threads -> Threads \cup {NoOne}]
  BY DEF PCs
<1>b. /\ lastEvent \in Nat /\ canWait \in [Threads -> BOOLEAN]
      /\ insertionOffset \in [Threads -> Nat]
  OBVIOUS
<1>c. /\ object \in [Threads -> Receivers] /\ target \in [Threads -> Threads]
      /\ done \in [Threads -> Nat] /\ eventsMoved \in [Threads -> BOOLEAN]
      /\ moves \in Nat /\ threadData \in [Receivers -> Threads]
  OBVIOUS
<1>d. posts \in [Posters -> PostStates]
  BY DEF PostStates
<1>1. ASSUME UNCHANGED vars PROVE TypeOK'
  BY <1>1 DEF vars, listVars, moveVars, timerVars
<1>2. ASSUME NEW a \in Posters, Posting(a) PROVE TypeOK'
  <2>0. /\ UNCHANGED <<listVars, canWait, holder, threadData, lastEvent, pc, handled,
                       waits, moveVars, timerVars>>
        /\ \/ \E p \in Posts : PostEvent(a, p[1], p[2])
           \/ Follow(a) \/ PosterWakesUp(a)
    BY <1>2 DEF Posting, PostEvent, Follow, PosterWakesUp, moveVars, listVars, timerVars
  <2>a. posts[a] \in PostStates
    BY <1>d
  <2>1. ASSUME NEW q \in PostStates, posts' = [posts EXCEPT ![a] = q],
               wakeUps' \in [Threads -> BOOLEAN]
        PROVE  TypeOK'
    <3>1. posts' \in [Posters -> PostStates]
      BY <1>d, <2>1
    <3> QED
      BY <2>0, <2>1, <3>1 DEF PostStates, listVars, moveVars, timerVars
  <2>2. CASE \E p \in Posts : PostEvent(a, p[1], p[2])
    <3>1. PICK p \in Posts : PostEvent(a, p[1], p[2])
      BY <2>2
    <3>2. p[1] \in Receivers /\ p[2] \in Priorities
      BY MoveToThreadAssumption
    <3> DEFINE q == [pc |-> "lock", data |-> threadData[p[1]],
                     receiver |-> p[1], priority |-> p[2]]
    <3>3. q \in PostStates
      BY <3>2 DEF PostStates
    <3>4. posts' = [posts EXCEPT ![a] = q] /\ wakeUps' = wakeUps
      BY <3>1 DEF PostEvent
    <3> QED
      BY <2>1, <3>3, <3>4
  <2>3. CASE Follow(a)
    <3> DEFINE q == [posts[a] EXCEPT !.data = threadData[posts[a].receiver]]
    <3>1. q \in PostStates
      BY <2>a DEF PostStates
    <3>2. posts' = [posts EXCEPT ![a] = q] /\ wakeUps' = wakeUps
      BY <2>3 DEF Follow
    <3> QED
      BY <2>1, <3>1, <3>2
  <2>4. CASE PosterWakesUp(a)
    <3>1. NotPosting \in PostStates
      BY EntryTypes DEF PostStates
    <3>2. posts' = [posts EXCEPT ![a] = NotPosting] /\ wakeUps' \in [Threads -> BOOLEAN]
      BY <2>4 DEF PosterWakesUp, Started
    <3> QED
      BY <2>1, <3>1, <3>2
  <2> QED
    BY <2>0, <2>2, <2>3, <2>4
<1>3. ASSUME NEW a \in Posters, Insert(a) PROVE TypeOK'
  <2>1. lists' \in [Threads -> Seq(Entries)]
    <3>1. DOMAIN lists' = Threads /\ lists' = [t \in DOMAIN lists' |-> lists'[t]]
      BY <1>3 DEF Insert, Enqueue
    <3> QED
      BY <1>0, <3>1
  <2>2. lastEvent' \in Nat /\ canWait' \in [Threads -> BOOLEAN]
    <3> HIDE DEF TypeOK
    <3>1. /\ lastEvent' = lastEvent + 1
          /\ canWait' = [canWait EXCEPT ![posts[a].data] = FALSE]
      BY <1>3, InsertLists
    <3> DEFINE d == posts[a].data
    <3>2. canWait' = [canWait EXCEPT ![d] = FALSE]
      BY <3>1
    <3> HIDE DEF d
    <3>3. canWait' \in [Threads -> BOOLEAN]
      BY <1>b, <3>2
    <3> QED
      BY <1>b, <3>1, <3>3
  <2>3. posts' = [posts EXCEPT ![a] = [posts[a] EXCEPT !.pc = "wake"]]
    BY <1>3 DEF Insert
  <2>4. posts' \in [Posters -> PostStates]
    <3> HIDE DEF TypeOK
    <3>1. [posts[a] EXCEPT !.pc = "wake"] \in PostStates
      BY <1>d DEF PostStates
    <3> QED
      BY <1>d, <2>3, <3>1
  <2>5. UNCHANGED <<startOffset, insertionOffset, holder, threadData, pc, handled,
                    waits, wakeUps, moveVars, timerVars>>
    BY <1>3 DEF Insert
  <2> QED
    BY <2>1, <2>2, <2>4, <2>5 DEF moveVars, timerVars, PostStates
<1>4. ASSUME NEW t \in Threads, LoopOrUser(t) PROVE TypeOK'
  <2>1. CASE Start(t)
    BY <2>1 DEF Start, GoTo, listVars, moveVars, timerVars
  <2>2. CASE EnterSend(t)
    <3>1. Len(lists[t]) \in Nat
      BY ListFacts
    <3>2. /\ pc' \in [Threads -> PCs]
          /\ insertionOffset' \in [Threads -> Nat]
          /\ holder' \in [Threads -> Threads \cup {NoOne}]
          /\ canWait' \in [Threads -> BOOLEAN]
      <4> HIDE DEF TypeOK
      <4>1. CASE lists[t] = <<>>
        BY <1>a, <1>b, <2>2, <4>1 DEF EnterSend, GoTo, PCs
      <4>2. CASE lists[t] # <<>>
        BY <1>a, <1>b, <2>2, <3>1, <4>2 DEF EnterSend, GoTo, PCs
      <4> QED
        BY <4>1, <4>2
    <3>3. UNCHANGED <<lists, startOffset, threadData, lastEvent, handled, waits,
                      wakeUps, moveVars, posts, timerVars>>
      BY <2>2 DEF EnterSend
    <3> QED
      BY <3>2, <3>3 DEF moveVars, timerVars, PCs
  <2>3. CASE Poll(t)
    BY <2>3 DEF Poll, GoTo, listVars, moveVars, timerVars
  <2>4. CASE Select(t)
    BY <2>4 DEF Select, GoTo, listVars, moveVars, timerVars
  <2>5. ASSUME NEW o \in Timers, TimerEvent(t, o) PROVE TypeOK'
    <3>1. TimerEntry(o) \in Entries
      BY EntryTypes, MoveToThreadAssumption
    <3> QED
      BY <2>5, <3>1 DEF TimerEvent, GoTo, listVars, moveVars, timerVars
  <2>6. ASSUME NEW o \in Timers, StartTimer(t, o) PROVE TypeOK'
    <3>1. o \in Receivers
      BY MoveToThreadAssumption
    <3> QED
      BY <2>6, <3>1, SMTT(30) DEF StartTimer, listVars, moveVars
  <2>7. ASSUME NEW o \in Timers, KillTimer(t, o) PROVE TypeOK'
    BY <2>7 DEF KillTimer, listVars, moveVars
  <2> QED
    BY <1>4, <2>1, <2>2, <2>3, <2>4, <2>5, <2>6, <2>7 DEF LoopOrUser
<1>5. ASSUME NEW t \in Threads, Deliver(t) PROVE TypeOK'
  <2>1. lists' \in [Threads -> Seq(Entries)]
    <3>1. DOMAIN lists' = Threads /\ lists' = [u \in DOMAIN lists' |-> lists'[u]]
      BY <1>5 DEF Deliver
    <3> QED
      BY <1>0, <3>1
  <2>2. PICK k \in ToSend(t) : /\ startOffset' = [startOffset EXCEPT ![t] = k]
                              /\ handled' = [handled EXCEPT ![t] = lists[t][k]]
    BY <1>5 DEF Deliver
  <2>3. k \in Nat /\ lists[t][k] \in Entries
    BY ListFacts DEF ToSend
  <2> QED
    BY <1>5, <2>1, <2>2, <2>3 DEF Deliver, GoTo, moveVars, timerVars
<1>6. ASSUME NEW t \in Threads, SendDone(t) PROVE TypeOK'
  <2>1. lists' \in [Threads -> Seq(Entries)]
    <3>1. DOMAIN lists' = Threads /\ lists' = [u \in DOMAIN lists' |-> lists'[u]]
      BY <1>6 DEF SendDone
    <3> QED
      BY <1>0, <3>1
  <2> QED
    BY <1>6, <2>1 DEF SendDone, GoTo, moveVars, timerVars
<1>7. ASSUME NEW t \in Threads, Return(t) PROVE TypeOK'
  <2>1. handled[t].receiver \in Receivers
    BY DEF Entries
  <2>2. registered' \in [Threads -> SUBSET Receivers]
    BY <1>7, <2>1 DEF Return
  <2>3. /\ pc' \in [Threads -> PCs]
        /\ holder' \in [Threads -> Threads \cup {NoOne}]
    <3> HIDE DEF TypeOK
    <3>1. \/ holder' = [holder EXCEPT ![t] = t] /\ pc' = [pc EXCEPT ![t] = "send"]
          \/ holder' = holder /\ pc' = [pc EXCEPT ![t] = "process"]
      BY <1>7 DEF Return, GoTo
    <3> QED
      BY <1>a, <3>1 DEF PCs
  <2>4. handled' \in [Threads -> Entries]
    BY <1>7, EntryTypes DEF Return
  <2>5. UNCHANGED <<listVars, canWait, threadData, lastEvent, waits, wakeUps,
                    moveVars, posts, timer>>
    BY <1>7 DEF Return
  <2> QED
    BY <2>2, <2>3, <2>4, <2>5 DEF listVars, moveVars, PCs
<1>8. ASSUME NEW t \in Threads, Moves(t) PROVE TypeOK'
  <2>1. ASSUME NEW o \in DOMAIN Members, NEW u \in Threads, MoveToThread(t, o, u)
        PROVE  TypeOK'
    <3>1. o \in Receivers
      BY MoveToThreadAssumption
    <3>2. /\ object' \in [Threads -> Receivers] /\ target' \in [Threads -> Threads]
          /\ pc' \in [Threads -> PCs]
          /\ moves' \in Nat
      <4> HIDE DEF TypeOK
      <4> QED
        BY <1>a, <1>c, <2>1, <3>1 DEF MoveToThread, GoTo, PCs
    <3>3. UNCHANGED <<listVars, canWait, holder, threadData, lastEvent, handled,
                      waits, wakeUps, done, eventsMoved, posts, timerVars>>
      BY <2>1 DEF MoveToThread
    <3> QED
      BY <3>2, <3>3 DEF listVars, timerVars, PCs
  <2>2. CASE LockFirst(t)
    BY <2>2 DEF LockFirst, FirstMember, Lower, GoTo, listVars, timerVars
  <2>3. CASE LockSecond(t)
    <3>1. PICK u \in {t, target[t]} : holder' = [holder EXCEPT ![u] = t]
      BY <2>3 DEF LockSecond
    <3>2. holder' \in [Threads -> Threads \cup {NoOne}]
      BY <3>1
    <3>3. pc' \in [Threads -> {"off", "process", "send", "handler", "poll",
                               "select", "change", "second", "move"}]
      BY <2>3 DEF LockSecond, GoTo
    <3>4. UNCHANGED <<listVars, canWait, threadData, lastEvent, handled, waits,
                      wakeUps, moveVars, posts, timerVars>>
      BY <2>3 DEF LockSecond
    <3> QED
      BY <3>2, <3>3, <3>4 DEF listVars, moveVars, timerVars
  <2>4. CASE SetThreadData(t)
    <3>1. Member(t) \in Receivers
      BY <2>4, MemberFacts DEF SetThreadData, Moving
    <3>2. /\ threadData' \in [Receivers -> Threads]
          /\ eventsMoved' \in [Threads -> BOOLEAN] /\ done' \in [Threads -> Nat]
      <4> HIDE DEF TypeOK
      <4> QED
        BY <1>c, <2>4, <3>1 DEF SetThreadData, NextMember
    <3>3. canWait' \in [Threads -> BOOLEAN] /\ wakeUps' \in [Threads -> BOOLEAN]
      <4>1. PICK wakes \in BOOLEAN :
                /\ canWait' = [canWait EXCEPT ![target[t]] = @ /\ ~wakes]
                /\ wakeUps' = [wakeUps EXCEPT ![target[t]] = @ \/ wakes]
        BY <2>4 DEF SetThreadData
      <4>2. CASE wakes
        BY <4>1, <4>2
      <4>3. CASE ~wakes
        BY <4>1, <4>3
      <4> QED
        BY <4>2, <4>3
    <3>4. UNCHANGED <<listVars, holder, lastEvent, pc, handled, waits, object,
                      target, moves, posts, timerVars>>
      BY <2>4 DEF SetThreadData
    <3> QED
      BY <3>2, <3>3, <3>4 DEF listVars, timerVars
  <2>5. CASE Unlock(t)
    BY <2>5, ReceiversAssumption DEF Unlock, FirstMember, GoTo, listVars, timerVars
  <2> QED
    BY <1>8, <2>1, <2>2, <2>3, <2>4, <2>5 DEF Moves
<1>9. ASSUME NEW t \in Threads, ThreadChange(t) PROVE TypeOK'
  <2>1. lists' \in [Threads -> Seq(Entries)]
    <3>1. CASE lists' = lists
      BY <3>1
    <3>2. CASE Enqueue(t, Member(t), "MetaCall", 0)
      <4>1. DOMAIN lists' = Threads /\ lists' = [u \in DOMAIN lists' |-> lists'[u]]
        BY <3>2 DEF Enqueue
      <4> QED
        BY <1>0, <4>1
    <3> QED
      BY <1>9, <3>1, <3>2, SMTT(30) DEF ThreadChange
  <2>2. /\ lastEvent' \in Nat /\ canWait' \in [Threads -> BOOLEAN]
        /\ wakeUps' \in [Threads -> BOOLEAN]
        /\ registered' \in [Threads -> SUBSET Receivers]
    <3>1. CASE Member(t) \in registered[t]
      <4>1. /\ registered' = [registered EXCEPT ![t] = @ \ {Member(t)}]
            /\ lastEvent' = lastEvent + 1 /\ canWait' = [canWait EXCEPT ![t] = FALSE]
            /\ wakeUps' = [wakeUps EXCEPT ![t] = TRUE]
        BY <1>9, <3>1 DEF ThreadChange, Enqueue
      <4> QED
        BY <4>1, SMTT(30)
    <3>2. CASE Member(t) \notin registered[t]
      BY <1>9, <3>2, SMTT(30) DEF ThreadChange
    <3> QED
      BY <3>1, <3>2
  <2>3. /\ done' \in [Threads -> Nat]
        /\ UNCHANGED <<startOffset, insertionOffset, holder, threadData, pc, handled,
                       waits, object, target, eventsMoved, moves, posts, timer>>
    <3> HIDE DEF TypeOK
    <3> QED
      BY <1>9, <1>c, SMTT(30) DEF ThreadChange, NextMember
  <2> QED
    BY <2>1, <2>2, <2>3
<1>10. ASSUME NEW t \in Threads, MoveEvent(t) PROVE TypeOK'
  <2>1. lists' \in [Threads -> Seq(Entries)]
    <3>1. DOMAIN lists' = Threads /\ lists' = [u \in DOMAIN lists' |-> lists'[u]]
      BY <1>10 DEF MoveEvent
    <3> QED
      BY <1>0, <3>1
  <2> QED
    BY <1>10, <2>1 DEF MoveEvent, timerVars
<1> QED
  BY Steps, <1>1, <1>2, <1>3, <1>4, <1>5, <1>6, <1>7, <1>8, <1>9, <1>10

LEMMA PlacesStep ==
    ASSUME TypeOK, Places, [Next]_vars
    PROVE  Places'
<1>0. /\ pc \in [Threads -> PCs] /\ holder \in [Threads -> Threads \cup {NoOne}]
      /\ object \in [Threads -> Receivers] /\ target \in [Threads -> Threads]
      /\ done \in [Threads -> Nat] /\ NoOne \notin Threads
  BY MoveToThreadAssumption DEF TypeOK, PCs
<1> USE DEF Places, Moving, Family
<1>1. CASE UNCHANGED <<pc, holder, object, target, done>>
  BY <1>1 DEF Lower
<1>2. ASSUME UNCHANGED vars PROVE Places'
  BY <1>1, <1>2 DEF vars, moveVars
<1>3. ASSUME NEW a \in Posters, Posting(a) \/ Insert(a) PROVE Places'
  BY <1>1, <1>3 DEF Posting, Insert, PostEvent, Follow, PosterWakesUp, moveVars
<1>4. ASSUME NEW t \in Threads, LoopOrUser(t) PROVE Places'
  <2>1. CASE UNCHANGED <<holder, object, target, done>> /\ pc[t] \notin {"second", "move"}
             /\ \E l \in {"process", "handler", "poll", "select"} : pc' = [pc EXCEPT ![t] = l]
             /\ ~Moving(t)
    BY <1>0, <2>1 DEF Lower
  <2>2. CASE EnterSend(t)
    <3>1. /\ pc[t] = "process" /\ UNCHANGED <<object, target, done>>
          /\ \/ pc' = [pc EXCEPT ![t] = "poll"] /\ holder' = holder
             \/ /\ holder[t] = NoOne /\ holder' = [holder EXCEPT ![t] = t]
                /\ pc' = [pc EXCEPT ![t] = "send"]
      BY <2>2 DEF EnterSend, GoTo, moveVars
    <3> QED
      BY <1>0, <3>1 DEF Lower
  <2>3. CASE Start(t) \/ Poll(t) \/ Select(t)
    BY <2>1, <2>3 DEF Start, Poll, Select, GoTo, moveVars
  <2>4. ASSUME NEW o \in Timers, TimerEvent(t, o) PROVE Places'
    BY <2>1, <2>4 DEF TimerEvent, GoTo, moveVars
  <2>5. ASSUME NEW o \in Timers, StartTimer(t, o) \/ KillTimer(t, o) PROVE Places'
    BY <1>1, <2>5 DEF StartTimer, KillTimer, moveVars
  <2> QED
    BY <1>4, <2>2, <2>3, <2>4, <2>5 DEF LoopOrUser
<1>5. ASSUME NEW t \in Threads, Deliver(t) \/ SendDone(t) PROVE Places'
  <2>1. /\ pc[t] = "send" /\ UNCHANGED <<object, target, done>>
        /\ holder' = [holder EXCEPT ![t] = NoOne]
        /\ \E l \in {"handler", "poll"} : pc' = [pc EXCEPT ![t] = l]
    BY <1>5 DEF Deliver, SendDone, GoTo, moveVars
  <2> QED
    BY <1>0, <2>1 DEF Lower
<1>6. ASSUME NEW t \in Threads, Return(t) PROVE Places'
  <2>1. /\ pc[t] = "handler" /\ UNCHANGED <<object, target, done>>
        /\ \/ pc' = [pc EXCEPT ![t] = "process"] /\ holder' = holder
           \/ /\ holder[t] = NoOne /\ holder' = [holder EXCEPT ![t] = t]
              /\ pc' = [pc EXCEPT ![t] = "send"]
    BY <1>6 DEF Return, GoTo, moveVars
  <2> QED
    BY <1>0, <2>1 DEF Lower
<1>7. ASSUME NEW t \in Threads, Moves(t) PROVE Places'
  <2>1. ASSUME NEW o \in DOMAIN Members, NEW u \in Threads, MoveToThread(t, o, u)
        PROVE  Places'
    <3>1. /\ pc[t] = "handler" /\ u # t /\ UNCHANGED <<holder, done>>
          /\ object' = [object EXCEPT ![t] = o] /\ target' = [target EXCEPT ![t] = u]
          /\ pc' = [pc EXCEPT ![t] = "change"]
      BY <2>1 DEF MoveToThread, InUserCode, GoTo
    <3>2. Len(Members[o]) \in Nat
      BY MoveToThreadAssumption, LenProperties
    <3> QED
      BY <1>0, <3>1, <3>2 DEF Lower
  <2>2. CASE LockFirst(t)
    <3>1. /\ pc[t] = "change" /\ UNCHANGED <<object, target>>
          /\ holder[Lower(t, target[t])] = NoOne
          /\ holder' = [holder EXCEPT ![Lower(t, target[t])] = t]
          /\ done' = [done EXCEPT ![t] = 0]
          /\ pc' = [pc EXCEPT ![t] = "second"]
      BY <2>2 DEF LockFirst, FirstMember, GoTo
    <3>2. Len(Family(t)) \in Nat
      BY <3>1, MemberFacts
    <3> QED
      BY <1>0, <3>1, <3>2 DEF Lower
  <2>3. CASE LockSecond(t)
    <3>1. PICK u \in {t, target[t]} :
              holder[u] = NoOne /\ holder' = [holder EXCEPT ![u] = t]
      BY <2>3 DEF LockSecond
    <3>2. /\ pc[t] = "second" /\ UNCHANGED <<object, target, done>>
          /\ pc' = [pc EXCEPT ![t] = "move"]
      BY <2>3 DEF LockSecond, GoTo, moveVars
    <3>3. holder'[t] = t /\ holder'[target[t]] = t
      BY <1>0, <3>1, <3>2 DEF Lower
    <3>4. \A v \in Threads : holder[v] # NoOne => holder'[v] = holder[v]
      BY <1>0, <3>1
    <3> QED
      BY <1>0, <3>2, <3>3, <3>4 DEF Lower
  <2>4. CASE SetThreadData(t)
    <3>1. /\ pc[t] = "move" /\ ~AllDone(t) /\ UNCHANGED <<pc, holder, object, target>>
          /\ done' = [done EXCEPT ![t] = @ + 1]
      BY <2>4 DEF SetThreadData, NextMember
    <3>2. Len(Family(t)) \in Nat /\ done[t] + 1 \in 1..Len(Family(t))
      BY <3>1, MemberFacts
    <3> QED
      BY <1>0, <3>1, <3>2 DEF Lower
  <2>5. CASE Unlock(t)
    <3>1. /\ pc[t] = "move"
          /\ holder' = [u \in Threads |-> IF holder[u] = t THEN NoOne ELSE holder[u]]
          /\ object' = [object EXCEPT ![t] = App] /\ target' = [target EXCEPT ![t] = t]
          /\ done' = [done EXCEPT ![t] = 0]
          /\ pc' = [pc EXCEPT ![t] = "handler"]
      BY <2>5 DEF Unlock, FirstMember, GoTo
    <3> QED
      BY <1>0, <3>1 DEF Lower
  <2> QED
    BY <1>7, <2>1, <2>2, <2>3, <2>4, <2>5 DEF Moves
<1>8. ASSUME NEW t \in Threads, ThreadChange(t) PROVE Places'
  <2>1. /\ pc[t] = "change" /\ ~AllDone(t) /\ UNCHANGED <<pc, holder, object, target>>
        /\ done' = [done EXCEPT ![t] = @ + 1]
    BY <1>8 DEF ThreadChange, NextMember
  <2>2. Len(Family(t)) \in Nat /\ done[t] + 1 \in 1..Len(Family(t))
    BY <2>1, MemberFacts
  <2> QED
    BY <1>0, <2>1, <2>2 DEF Lower
<1>9. ASSUME NEW t \in Threads, MoveEvent(t) PROVE Places'
  BY <1>1, <1>9 DEF MoveEvent
<1> QED
  BY Steps, <1>2, <1>3, <1>4, <1>5, <1>6, <1>7, <1>8, <1>9

-----------------------------------------------------------------------------
\* A thread that moves an object holds the lists of both threads, so nobody
\* else moves it or anything of its family.

\* The current member of a moving family is still in the old thread, and in
\* nobody else's hands.
LEMMA CurrentMember ==
    ASSUME TypeOK, Places, Families, NEW t \in Threads,
           pc[t] = "move", ~AllDone(t)
    PROVE  /\ threadData[Member(t)] = t
           /\ \A v \in Threads : Underway(v, Member(t)) => v = t
<1>1. \A v \in Threads : pc[v] = "move" /\ ~AllDone(v) => threadData[Member(v)] = v
  <2>1. ASSUME NEW v \in Threads, pc[v] = "move", ~AllDone(v)
        PROVE  threadData[Member(v)] = v
    <3>1. /\ done[v] + 1 \in 1..Len(Family(v)) /\ done[v] \in Nat
          /\ Member(v) = Family(v)[done[v] + 1]
      BY <2>1, MemberFacts DEF Moving, TypeOK
    <3> QED
      BY <2>1, <3>1 DEF Families, Carries
  <2> QED
    BY <2>1
<1> QED
  BY <1>1 DEF Underway

\* When both mutexes are taken, nobody else is moving the family.
LEMMA OwnFamily ==
    ASSUME TypeOK, Places, Families, NEW t \in Threads, LockSecond(t)
    PROVE  \A k \in 1..Len(Family(t)) : threadData[Family(t)[k]] = t
<1> DEFINE o == object[t]
<1>0. /\ pc[t] = "second" /\ holder[Lower(t, target[t])] = t
      /\ o \in DOMAIN Members /\ t # NoOne /\ target[t] # t
      /\ threadData[o] = t
  BY MoveToThreadAssumption DEF LockSecond, Places, Moving, Families, Carries
<1>1. holder[t] \in {t, NoOne}
  BY <1>0 DEF LockSecond, Lower
<1>2. CASE Together(o)
  BY <1>0, <1>2 DEF Together, Family
<1>3. ASSUME NEW v \in Threads, pc[v] = "move", object[v] = o PROVE FALSE
  <2>1. /\ Family(v)[1] = o /\ Len(Family(v)) \in Nat \ {0}
        /\ holder[v] = v /\ holder[target[v]] = v /\ done[v] \in Nat
    BY <1>3, MemberFacts DEF Moving, Places, TypeOK
  <2>2. threadData[o] = IF 1 <= done[v] THEN target[v] ELSE v
    BY <1>3, <2>1 DEF Families, Carries
  <2>3. v # t /\ v # NoOne
    BY <1>0, <1>3, MoveToThreadAssumption
  <2> QED
    BY <1>0, <1>1, <2>1, <2>2, <2>3
<1> QED
  BY <1>0, <1>2, <1>3 DEF Families, Carried

LEMMA FamiliesStep ==
    ASSUME TypeOK, Places, Families, [Next]_vars
    PROVE  Families'
<1>0. /\ pc \in [Threads -> PCs] /\ object \in [Threads -> Receivers]
      /\ target \in [Threads -> Threads] /\ done \in [Threads -> Nat]
      /\ threadData \in [Receivers -> Threads]
  BY DEF TypeOK, PCs
<1>1. /\ \A o \in DOMAIN Members : Together(o) \/ Carried(o)
      /\ \A t \in Threads : Carries(t)
  BY DEF Families
<1> DEFINE Aim1 == \A o \in DOMAIN Members : Together(o)' \/ Carried(o)'
           Aim2 == \A t \in Threads : Carries(t)'
           Aim == Aim1 /\ Aim2
<1> USE DEF Family
<1>2. ASSUME UNCHANGED threadData,
             \A t \in Threads : pc[t] = "move" => pc'[t] = "move" /\ object'[t] = object[t]
      PROVE  Aim1
  BY <1>1, <1>2 DEF Together, Carried
\* Steps that move nothing.
<1>3. ASSUME UNCHANGED <<threadData, object, target, done>>,
             \/ UNCHANGED pc
             \/ \E t \in Threads, l \in {"process", "send", "handler", "poll", "select"} :
                   pc[t] # "move" /\ pc' = [pc EXCEPT ![t] = l]
      PROVE  Aim
  <2>1. Aim1
    BY <1>0, <1>2, <1>3
  <2>2. ASSUME NEW v \in Threads PROVE Carries(v)'
    <3>1. pc'[v] = pc[v] \/ pc'[v] \notin {"move", "change", "second"}
      BY <1>0, <1>3
    <3> QED
      BY <1>1, <1>3, <3>1 DEF Carries
  <2> QED
    BY <2>1, <2>2
<1>4. ASSUME UNCHANGED vars PROVE Aim
  BY <1>3, <1>4 DEF vars, moveVars
<1>5. ASSUME NEW a \in Posters, Posting(a) \/ Insert(a) PROVE Aim
  BY <1>3, <1>5 DEF Posting, Insert, PostEvent, Follow, PosterWakesUp, moveVars
<1>6. ASSUME NEW t \in Threads,
             LoopOrUser(t) \/ Deliver(t) \/ SendDone(t) \/ Return(t)
      PROVE  Aim
  <2>1. /\ UNCHANGED <<threadData, object, target, done>>
        /\ \/ UNCHANGED pc
           \/ \E l \in {"process", "send", "handler", "poll", "select"} :
                 pc[t] # "move" /\ pc' = [pc EXCEPT ![t] = l]
    <3>1. ASSUME LoopOrUser(t)
          PROVE  /\ UNCHANGED <<threadData, object, target, done>>
                 /\ \/ UNCHANGED pc
                    \/ \E l \in {"process", "send", "handler", "poll", "select"} :
                          pc[t] # "move" /\ pc' = [pc EXCEPT ![t] = l]
      BY <3>1 DEF LoopOrUser, Start, EnterSend, Poll, Select, TimerEvent, StartTimer,
                  KillTimer, GoTo, moveVars
    <3> QED
      BY <1>6, <3>1 DEF Deliver, SendDone, Return, GoTo, moveVars
  <2> QED
    BY <1>3, <2>1
<1>7. ASSUME NEW t \in Threads, Moves(t) PROVE Aim
  <2>1. ASSUME NEW o \in DOMAIN Members, NEW u \in Threads, MoveToThread(t, o, u)
        PROVE  Aim
    <3>1. /\ pc[t] = "handler" /\ threadData[o] = t /\ UNCHANGED <<threadData, done>>
          /\ object' = [object EXCEPT ![t] = o] /\ target' = [target EXCEPT ![t] = u]
          /\ pc' = [pc EXCEPT ![t] = "change"]
      BY <2>1 DEF MoveToThread, InUserCode, GoTo
    <3>2. Aim1
      BY <1>0, <1>2, <3>1
    <3>3. ASSUME NEW v \in Threads PROVE Carries(v)'
      <4>1. CASE v = t
        BY <1>0, <3>1, <4>1 DEF Carries
      <4>2. CASE v # t
        <5>1. /\ pc'[v] = pc[v] /\ object'[v] = object[v] /\ target'[v] = target[v]
              /\ UNCHANGED <<threadData, done>>
          BY <1>0, <3>1, <4>2
        <5> QED
          BY <1>1, <5>1 DEF Carries
      <4> QED
        BY <4>1, <4>2
    <3> QED
      BY <3>2, <3>3
  <2>2. CASE LockFirst(t)
    <3>1. /\ pc[t] = "change" /\ UNCHANGED <<threadData, object, target>>
          /\ done' = [done EXCEPT ![t] = 0] /\ pc' = [pc EXCEPT ![t] = "second"]
      BY <2>2 DEF LockFirst, FirstMember, GoTo
    <3>2. Aim1
      BY <1>0, <1>2, <3>1
    <3>3. ASSUME NEW v \in Threads PROVE Carries(v)'
      <4>1. CASE v = t
        BY <1>0, <1>1, <3>1, <4>1 DEF Carries
      <4>2. CASE v # t
        BY <1>0, <1>1, <3>1, <4>2 DEF Carries
      <4> QED
        BY <4>1, <4>2
    <3> QED
      BY <3>2, <3>3
  <2>3. CASE LockSecond(t)
    <3>1. /\ pc[t] = "second" /\ UNCHANGED <<threadData, object, target, done>>
          /\ pc' = [pc EXCEPT ![t] = "move"]
      BY <2>3 DEF LockSecond, GoTo, moveVars
    <3>2. done[t] = 0 /\ \A k \in 1..Len(Members[object[t]]) :
                             threadData[Members[object[t]][k]] = t
      BY <2>3, <3>1, OwnFamily DEF Places
    <3>3. Aim1
      BY <1>0, <1>2, <3>1
    <3>4. ASSUME NEW v \in Threads PROVE Carries(v)'
      <4>1. CASE v = t
        BY <1>0, <3>1, <3>2, <4>1 DEF Carries
      <4>2. CASE v # t
        BY <1>0, <1>1, <3>1, <4>2 DEF Carries
      <4> QED
        BY <4>1, <4>2
    <3> QED
      BY <3>3, <3>4
  <2>4. CASE SetThreadData(t)
    <3> DEFINE m == Member(t)
    <3>1. /\ pc[t] = "move" /\ ~AllDone(t) /\ UNCHANGED <<pc, object, target>>
          /\ threadData' = [threadData EXCEPT ![m] = target[t]]
          /\ done' = [done EXCEPT ![t] = @ + 1]
      BY <2>4 DEF SetThreadData, NextMember
    <3>2. /\ object[t] \in DOMAIN Members /\ Len(Members[object[t]]) \in Nat
          /\ done[t] + 1 \in 1..Len(Members[object[t]])
          /\ m = Members[object[t]][done[t] + 1] /\ m \in Receivers
          /\ \A k \in 1..Len(Members[object[t]]) : Members[object[t]][k] \in Receivers
      BY <3>1, MemberFacts DEF Moving
    <3>3. threadData[m] = t
      BY <3>1, CurrentMember
    <3> HIDE DEF m
    <3>4. /\ threadData'[m] = target[t]
          /\ \A r \in Receivers : r # m => threadData'[r] = threadData[r]
      BY <1>0, <3>1, <3>2
    <3>5. ASSUME NEW o \in DOMAIN Members, o # object[t],
                 NEW k \in 1..Len(Members[o])
          PROVE  Members[o][k] # m
      BY <3>2, <3>5, FamiliesAssumption
    <3>6. ASSUME NEW o \in DOMAIN Members
          PROVE  Together(o)' \/ Carried(o)'
      <4>1. CASE o = object[t]
        BY <3>1, <4>1 DEF Carried
      <4>2. CASE o # object[t]
        <5>1. \A k \in 1..Len(Members[o]) : /\ Members[o][k] \in Receivers
                                           /\ Members[o][k] # m
          BY <3>5, <4>2, MoveToThreadAssumption, ElementOfSeq
        <5>2. o \in Receivers /\ o # m
          <6>1. Members[o][1] = o /\ Members[o] \in Seq(Receivers) /\ Members[o] # <<>>
            BY MoveToThreadAssumption, FamiliesAssumption
          <6>2. 1 \in 1..Len(Members[o])
            BY <6>1, LenProperties, EmptySeq
          <6> QED
            BY <5>1, <6>1, <6>2
        <5> QED
          BY <1>1, <3>1, <3>4, <5>1, <5>2 DEF Together, Carried
      <4> QED
        BY <4>1, <4>2
    <3>7. ASSUME NEW v \in Threads, pc[v] = "move", NEW k \in 1..Len(Members[object[v]])
          PROVE  threadData'[Members[object[v]][k]]
                     = IF k <= done'[v] THEN target[v] ELSE v
      <4>1. CASE v = t
        <5>1. ASSUME k = done[t] + 1 PROVE threadData'[Members[object[t]][k]] = target[t]
          BY <3>2, <3>4, <5>1
        <5>2. ASSUME k # done[t] + 1
              PROVE  threadData'[Members[object[t]][k]] = threadData[Members[object[t]][k]]
          BY <3>2, <3>4, <4>1, <5>2, FamiliesAssumption
        <5>3. done'[t] = done[t] + 1 /\ done[t] \in Nat /\ k \in Nat
          BY <1>0, <3>1, <3>2, <4>1
        <5>4. threadData[Members[object[t]][k]] = IF k <= done[t] THEN target[t] ELSE t
          BY <1>1, <3>1, <3>7, <4>1 DEF Carries
        <5> QED
          BY <4>1, <5>1, <5>2, <5>3, <5>4
      <4>2. CASE v # t
        <5>1. done'[v] = done[v]
          BY <1>0, <3>1, <4>2
        <5>2. threadData[Members[object[v]][k]] = IF k <= done[v] THEN target[v] ELSE v
          BY <1>1, <3>7 DEF Carries
        <5>3. Members[object[v]][k] # m
          <6>1. /\ holder[t] = t /\ holder[v] = v /\ holder[target[v]] = v
            BY <3>1, <3>7 DEF Places
          <6> QED
            BY <3>3, <4>2, <5>2, <6>1
        <5>4. Members[object[v]][k] \in Receivers
          BY <3>7, MemberFacts DEF Moving
        <5> QED
          BY <3>4, <5>1, <5>2, <5>3, <5>4
      <4> QED
        BY <4>1, <4>2
    <3>8. ASSUME NEW v \in Threads, pc[v] \in {"change", "second"}
          PROVE  threadData'[object[v]] = v
      <4>1. threadData[object[v]] = v /\ v # t /\ object[v] \in Receivers
        BY <1>0, <1>1, <3>1, <3>8 DEF Carries
      <4> QED
        BY <3>3, <3>4, <4>1
    <3> QED
      BY <3>1, <3>6, <3>7, <3>8 DEF Carries
  <2>5. CASE Unlock(t)
    <3>1. /\ pc[t] = "move" /\ AllDone(t) /\ UNCHANGED threadData
          /\ object' = [object EXCEPT ![t] = App] /\ target' = [target EXCEPT ![t] = t]
          /\ done' = [done EXCEPT ![t] = 0]
          /\ pc' = [pc EXCEPT ![t] = "handler"]
      BY <2>5 DEF Unlock, FirstMember, GoTo
    <3>2. Together(object[t])
      <4>1. /\ Len(Members[object[t]]) \in Nat \ {0}
            /\ Members[object[t]][1] = object[t]
            /\ done[t] = Len(Members[object[t]])
        BY <3>1, MemberFacts DEF Moving, AllDone
      <4>2. \A k \in 1..Len(Members[object[t]]) :
                threadData[Members[object[t]][k]] = target[t]
        BY <1>1, <3>1, <4>1 DEF Carries
      <4> QED
        BY <4>1, <4>2 DEF Together
    <3>3. ASSUME NEW o \in DOMAIN Members PROVE Together(o)' \/ Carried(o)'
      <4>1. CASE Together(o)
        BY <3>1, <4>1 DEF Together
      <4>2. CASE ~Together(o)
        <5>1. PICK v \in Threads : pc[v] = "move" /\ object[v] = o
          BY <1>1, <4>2 DEF Carried
        <5>2. v # t
          BY <3>2, <4>2, <5>1
        <5> QED
          BY <1>0, <3>1, <5>1, <5>2 DEF Carried
      <4> QED
        BY <4>1, <4>2
    <3>4. ASSUME NEW v \in Threads PROVE Carries(v)'
      <4>1. CASE v = t
        BY <1>0, <3>1, <4>1 DEF Carries
      <4>2. CASE v # t
        BY <1>0, <1>1, <3>1, <4>2 DEF Carries
      <4> QED
        BY <4>1, <4>2
    <3> QED
      BY <3>3, <3>4
  <2> QED
    BY <1>7, <2>1, <2>2, <2>3, <2>4, <2>5 DEF Moves
<1>8. ASSUME NEW t \in Threads, ThreadChange(t) PROVE Aim
  <2>1. /\ pc[t] = "change" /\ UNCHANGED <<threadData, pc, object, target>>
        /\ done' = [done EXCEPT ![t] = @ + 1]
    BY <1>8 DEF ThreadChange, NextMember
  <2>2. Aim1
    BY <1>0, <1>2, <2>1
  <2>3. ASSUME NEW v \in Threads PROVE Carries(v)'
    <3>1. CASE v = t
      BY <1>0, <1>1, <2>1, <3>1 DEF Carries
    <3>2. CASE v # t
      BY <1>0, <1>1, <2>1, <3>2 DEF Carries
    <3> QED
      BY <3>1, <3>2
  <2> QED
    BY <2>2, <2>3
<1>9. ASSUME NEW t \in Threads, MoveEvent(t) PROVE Aim
  BY <1>3, <1>9 DEF MoveEvent
<1> HIDE DEF Aim
<1>10. Aim
  BY Steps, <1>4, <1>5, <1>6, <1>7, <1>8, <1>9
<1> QED
  BY <1>10 DEF Aim, Families

-----------------------------------------------------------------------------
\* Timers and queued calls stay in the thread of their object.

\* What a pass sends is for an object of its thread.
LEMMA DeliveredAtHome ==
    ASSUME TypeOK, Places, EventsFollowReceiver, NEW t \in Threads, pc[t] = "send",
           NEW e \in E(t)
    PROVE  threadData[e.receiver] = t
<1>1. ASSUME NEW u \in Threads, target[u] = t, Underway(u, e.receiver)
      PROVE  FALSE
  BY <1>1 DEF Underway, Places
<1> QED
  BY <1>1 DEF EventsFollowReceiver, E

LEMMA RegistrationsStep ==
    ASSUME TypeOK, Lists, Places, Families, Registrations, Names,
           EventsFollowReceiver, [Next]_vars
    PROVE  Registrations'
<1>0. /\ pc \in [Threads -> PCs] /\ object \in [Threads -> Receivers]
      /\ target \in [Threads -> Threads] /\ done \in [Threads -> Nat]
      /\ threadData \in [Receivers -> Threads] /\ handled \in [Threads -> Entries]
      /\ registered \in [Threads -> SUBSET Receivers]
  BY DEF TypeOK, PCs
<1>1. \A t \in Threads : Knows(t) /\ Forgets(t) /\ Calls(t)
  BY DEF Registrations
<1> DEFINE Aim == \A t \in Threads : Knows(t)' /\ Forgets(t)' /\ Calls(t)'
<1> USE DEF Family
\* Steps of a thread that neither move anything nor handle a queued call.
<1>2. ASSUME UNCHANGED <<threadData, object, target, done, registered>>,
             \/ UNCHANGED <<pc, handled>>
             \/ \E t \in Threads, l \in {"process", "send", "handler", "poll", "select"} :
                   /\ pc' = [pc EXCEPT ![t] = l]
                   /\ \/ handled' = handled /\ handled[t].type # "MetaCall"
                      \/ \E e \in Entries :
                            /\ handled' = [handled EXCEPT ![t] = e]
                            /\ e.type = "MetaCall" =>
                                  l = "handler" /\ threadData[e.receiver] = t
      PROVE  Aim
  <2>1. CASE UNCHANGED <<pc, handled>>
    BY <1>1, <1>2, <2>1 DEF Knows, Forgets, Calls, Moving
  <2>2. ASSUME NEW t \in Threads, NEW l \in {"process", "send", "handler", "poll", "select"},
               pc' = [pc EXCEPT ![t] = l],
               \/ handled' = handled /\ handled[t].type # "MetaCall"
               \/ \E e \in Entries :
                     /\ handled' = [handled EXCEPT ![t] = e]
                     /\ e.type = "MetaCall" =>
                           l = "handler" /\ threadData[e.receiver] = t
        PROVE  Aim
    <3>1. \A v \in Threads : Knows(v)' /\ Forgets(v)'
      BY <1>0, <1>1, <1>2, <2>2 DEF Knows, Forgets, Moving
    <3>2. ASSUME NEW v \in Threads PROVE Calls(v)'
      <4>1. CASE v = t
        <5>1. CASE handled' = handled /\ handled[t].type # "MetaCall"
          BY <4>1, <5>1 DEF Calls
        <5>2. ASSUME NEW e \in Entries, handled' = [handled EXCEPT ![t] = e],
                     e.type = "MetaCall" => l = "handler" /\ threadData[e.receiver] = t
              PROVE  Calls(v)'
          <6>1. handled'[v] = e /\ pc'[v] = l
            BY <1>0, <2>2, <4>1, <5>2
          <6> QED
            BY <1>2, <4>1, <5>2, <6>1 DEF Calls
        <5> QED
          BY <2>2, <5>1, <5>2
      <4>2. CASE v # t
        <5>1. handled'[v] = handled[v] /\ pc'[v] = pc[v]
          BY <1>0, <2>2, <4>2
        <5>2. threadData' = threadData
          BY <1>2
        <5> QED
          BY <1>1, <5>1, <5>2 DEF Calls
      <4> QED
        BY <4>1, <4>2
    <3> QED
      BY <3>1, <3>2
  <2> QED
    BY <1>2, <2>1, <2>2
<1>3. ASSUME UNCHANGED vars PROVE Aim
  BY <1>2, <1>3 DEF vars, moveVars, timerVars
<1>4. ASSUME NEW a \in Posters, Posting(a) \/ Insert(a) PROVE Aim
  BY <1>2, <1>4
     DEF Posting, Insert, PostEvent, Follow, PosterWakesUp, moveVars, timerVars
<1>5. ASSUME NEW t \in Threads, LoopOrUser(t) PROVE Aim
  <2>1. CASE Start(t) \/ EnterSend(t) \/ Poll(t) \/ Select(t)
    <3>1. /\ pc[t] # "handler" /\ UNCHANGED <<threadData, object, target, done, registered>>
          /\ handled' = handled
          /\ \E l \in {"process", "send", "poll", "select"} : pc' = [pc EXCEPT ![t] = l]
      BY <2>1 DEF Start, EnterSend, Poll, Select, GoTo, moveVars, timerVars
    <3>2. handled[t].type # "MetaCall"
      BY <1>1, <3>1 DEF Calls
    <3> QED
      BY <1>2, <3>1, <3>2
  <2>2. ASSUME NEW o \in Timers, TimerEvent(t, o) PROVE Aim
    <3>1. /\ UNCHANGED <<threadData, object, target, done, registered>>
          /\ handled' = [handled EXCEPT ![t] = TimerEntry(o)]
          /\ pc' = [pc EXCEPT ![t] = "handler"]
      BY <2>2 DEF TimerEvent, GoTo, moveVars, timerVars
    <3>2. TimerEntry(o) \in Entries /\ TimerEntry(o).type # "MetaCall"
      BY EntryTypes, MoveToThreadAssumption
    <3> QED
      BY <1>2, <3>1, <3>2
  <2>3. ASSUME NEW o \in Timers, StartTimer(t, o) \/ KillTimer(t, o) PROVE Aim
    <3>1. /\ UNCHANGED <<threadData, object, target, done, pc, handled>>
          /\ pc[t] = "handler" /\ threadData[o] = t
          /\ \A v \in Threads : v # t => registered'[v] = registered[v]
          /\ registered'[t] \subseteq registered[t] \cup {o}
      BY <1>0, <2>3 DEF StartTimer, KillTimer, InUserCode, moveVars
    <3>2. ASSUME NEW v \in Threads PROVE Knows(v)' /\ Forgets(v)' /\ Calls(v)'
      <4>1. CASE v = t
        BY <1>1, <3>1, <4>1 DEF Knows, Forgets, Calls, Moving
      <4>2. CASE v # t
        BY <1>1, <3>1, <4>2 DEF Knows, Forgets, Calls, Moving
      <4> QED
        BY <4>1, <4>2
    <3> QED
      BY <3>2
  <2> QED
    BY <1>5, <2>1, <2>2, <2>3 DEF LoopOrUser
<1>6. ASSUME NEW t \in Threads, Deliver(t) PROVE Aim
  <2>1. /\ pc[t] = "send" /\ pc' = [pc EXCEPT ![t] = "handler"]
        /\ UNCHANGED <<threadData, object, target, done, registered>>
    BY <1>6 DEF Deliver, GoTo, moveVars, timerVars
  <2>2. PICK e \in E(t) : handled' = [handled EXCEPT ![t] = e]
    BY <1>6, DeliverLists
  <2>3. e \in Entries /\ threadData[e.receiver] = t
    BY <2>1, ListFacts, DeliveredAtHome
  <2> QED
    BY <1>2, <2>1, <2>2, <2>3
<1>7. ASSUME NEW t \in Threads, SendDone(t) PROVE Aim
  <2>1. /\ pc[t] = "send" /\ pc' = [pc EXCEPT ![t] = "poll"] /\ handled' = handled
        /\ UNCHANGED <<threadData, object, target, done, registered>>
    BY <1>7 DEF SendDone, GoTo, moveVars, timerVars
  <2>2. handled[t].type # "MetaCall"
    BY <1>1, <2>1 DEF Calls
  <2> QED
    BY <1>2, <2>1, <2>2
<1>8. ASSUME NEW t \in Threads, Return(t) PROVE Aim
  <2>1. /\ pc[t] = "handler" /\ UNCHANGED <<threadData, object, target, done>>
        /\ \E l \in {"send", "process"} : pc' = [pc EXCEPT ![t] = l]
        /\ handled' = [handled EXCEPT ![t] = Nulled(TimerEntry(App))]
    BY <1>8 DEF Return, GoTo, moveVars
  <2>2. Nulled(TimerEntry(App)).type # "MetaCall"
    BY EntryTypes
  <2>3. \/ registered' = registered
        \/ /\ threadData[handled[t].receiver] = t
           /\ registered' = [registered EXCEPT ![t] = @ \cup {handled[t].receiver}]
    BY <1>1, <1>8 DEF Return, Calls
  <2>4. ASSUME NEW v \in Threads PROVE Knows(v)' /\ Forgets(v)' /\ Calls(v)'
    <3>1. CASE v = t
      <4>1. Knows(v)'
        BY <1>0, <1>1, <2>1, <2>3, <3>1 DEF Knows
      <4>2. Forgets(v)' /\ Calls(v)'
        BY <1>0, <2>1, <2>2, <3>1 DEF Forgets, Calls, Moving
      <4> QED
        BY <4>1, <4>2
    <3>2. CASE v # t
      <4>1. registered'[v] = registered[v] /\ pc'[v] = pc[v] /\ handled'[v] = handled[v]
        BY <1>0, <2>1, <2>3, <3>2
      <4> QED
        BY <1>1, <2>1, <4>1 DEF Knows, Forgets, Calls, Moving
    <3> QED
      BY <3>1, <3>2
  <2> QED
    BY <2>4
<1>9. ASSUME NEW t \in Threads, Moves(t) PROVE Aim
  <2>1. ASSUME NEW o \in DOMAIN Members, NEW u \in Threads, MoveToThread(t, o, u)
        PROVE  Aim
    <3>1. /\ pc[t] = "handler" /\ handled[t].type # "MetaCall" /\ done[t] = 0
          /\ UNCHANGED <<threadData, done, registered, handled>>
          /\ object' = [object EXCEPT ![t] = o] /\ pc' = [pc EXCEPT ![t] = "change"]
      BY <2>1 DEF MoveToThread, InUserCode, GoTo, Places, timerVars
    <3>2. ASSUME NEW v \in Threads PROVE Knows(v)' /\ Forgets(v)' /\ Calls(v)'
      <4>1. CASE v = t
        BY <1>0, <1>1, <3>1, <4>1 DEF Knows, Forgets, Calls, Moving
      <4>2. CASE v # t
        BY <1>0, <1>1, <3>1, <4>2 DEF Knows, Forgets, Calls, Moving
      <4> QED
        BY <4>1, <4>2
    <3> QED
      BY <3>2
  <2>2. CASE LockFirst(t)
    <3>1. /\ pc[t] = "change" /\ AllDone(t) /\ pc' = [pc EXCEPT ![t] = "second"]
          /\ UNCHANGED <<threadData, object, target, registered, handled>>
          /\ done' = [done EXCEPT ![t] = 0]
      BY <2>2 DEF LockFirst, FirstMember, GoTo, timerVars
    <3>2. Len(Members[object[t]]) \in Nat /\ done[t] = Len(Members[object[t]])
      BY <3>1, MemberFacts DEF AllDone, Moving
    <3>3. ASSUME NEW v \in Threads PROVE Knows(v)' /\ Forgets(v)' /\ Calls(v)'
      <4>1. CASE v = t
        BY <1>0, <1>1, <3>1, <3>2, <4>1 DEF Knows, Forgets, Calls, Moving
      <4>2. CASE v # t
        BY <1>0, <1>1, <3>1, <4>2 DEF Knows, Forgets, Calls, Moving
      <4> QED
        BY <4>1, <4>2
    <3> QED
      BY <3>3
  <2>3. CASE LockSecond(t)
    <3>1. /\ pc[t] = "second" /\ pc' = [pc EXCEPT ![t] = "move"]
          /\ UNCHANGED <<threadData, object, target, done, registered, handled>>
      BY <2>3 DEF LockSecond, GoTo, moveVars, timerVars
    <3>2. ASSUME NEW v \in Threads PROVE Knows(v)' /\ Forgets(v)' /\ Calls(v)'
      <4>1. CASE v = t
        BY <1>0, <1>1, <3>1, <4>1 DEF Knows, Forgets, Calls, Moving
      <4>2. CASE v # t
        BY <1>0, <1>1, <3>1, <4>2 DEF Knows, Forgets, Calls, Moving
      <4> QED
        BY <4>1, <4>2
    <3> QED
      BY <3>2
  <2>4. CASE SetThreadData(t)
    <3> DEFINE m == Member(t)
    <3>1. /\ pc[t] = "move" /\ ~AllDone(t)
          /\ UNCHANGED <<pc, object, target, registered, handled>>
          /\ threadData' = [threadData EXCEPT ![m] = target[t]]
          /\ done' = [done EXCEPT ![t] = @ + 1]
      BY <2>4 DEF SetThreadData, NextMember, timerVars
    <3>2. /\ done[t] + 1 \in 1..Len(Members[object[t]])
          /\ m = Members[object[t]][done[t] + 1] /\ m \in Receivers
      BY <3>1, MemberFacts DEF Moving
    <3>3. threadData[m] = t
      BY <3>1, CurrentMember
    <3> HIDE DEF m
    <3>4. m \notin registered[t]
      BY <1>1, <3>1, <3>2 DEF Forgets, Moving
    <3>5. \A r \in Receivers : r # m => threadData'[r] = threadData[r]
      BY <1>0, <3>1, <3>2
    <3>6. ASSUME NEW v \in Threads PROVE Knows(v)' /\ Forgets(v)' /\ Calls(v)'
      <4>1. Knows(v)'
        <5>1. \A o \in registered[v] : o \in Receivers /\ o # m
          BY <1>0, <1>1, <3>3, <3>4 DEF Knows
        <5> QED
          BY <1>1, <3>1, <3>5, <5>1 DEF Knows
      <4>2. Forgets(v)'
        BY <1>0, <1>1, <3>1 DEF Forgets, Moving
      <4>3. Calls(v)'
        <5>1. handled[v].receiver \in Receivers
          BY <1>0 DEF Entries
        <5>2. handled[v].type = "MetaCall" => handled[v].receiver # m
          BY <1>1, <3>1, <3>3 DEF Calls
        <5> QED
          BY <1>1, <3>1, <3>5, <5>1, <5>2 DEF Calls
      <4> QED
        BY <4>1, <4>2, <4>3
    <3> QED
      BY <3>6
  <2>5. CASE Unlock(t)
    <3>1. /\ pc[t] = "move" /\ pc' = [pc EXCEPT ![t] = "handler"]
          /\ UNCHANGED <<threadData, registered, handled>>
          /\ \A v \in Threads : v # t => object'[v] = object[v] /\ done'[v] = done[v]
      BY <1>0, <2>5 DEF Unlock, FirstMember, GoTo, timerVars
    <3>2. ASSUME NEW v \in Threads PROVE Knows(v)' /\ Forgets(v)' /\ Calls(v)'
      <4>1. CASE v = t
        <5>1. pc'[v] = "handler" /\ handled[v].type # "MetaCall"
          BY <1>0, <1>1, <3>1, <4>1 DEF Calls
        <5>2. Forgets(v)' /\ Calls(v)'
          BY <3>1, <5>1 DEF Forgets, Calls, Moving
        <5>3. Knows(v)'
          BY <1>1, <3>1 DEF Knows
        <5> QED
          BY <5>2, <5>3
      <4>2. CASE v # t
        <5>1. /\ pc'[v] = pc[v] /\ object'[v] = object[v] /\ done'[v] = done[v]
              /\ UNCHANGED <<threadData, registered, handled>>
          BY <1>0, <3>1, <4>2
        <5> QED
          BY <1>1, <5>1 DEF Knows, Forgets, Calls, Moving
      <4> QED
        BY <4>1, <4>2
    <3> QED
      BY <3>2
  <2> QED
    BY <1>9, <2>1, <2>2, <2>3, <2>4, <2>5 DEF Moves
<1>10. ASSUME NEW t \in Threads, ThreadChange(t) PROVE Aim
  <2>1. /\ pc[t] = "change" /\ ~AllDone(t)
        /\ UNCHANGED <<threadData, pc, object, target, handled>>
        /\ done' = [done EXCEPT ![t] = @ + 1]
    BY <1>10 DEF ThreadChange, NextMember
  <2>2. /\ done[t] + 1 \in 1..Len(Members[object[t]])
        /\ Member(t) = Members[object[t]][done[t] + 1]
    BY <2>1, MemberFacts DEF Moving
  <2>3. /\ \A v \in Threads : v # t => registered'[v] = registered[v]
        /\ registered'[t] = registered[t] \ {Member(t)}
    <3>1. CASE Member(t) \in registered[t]
      <4>1. registered' = [registered EXCEPT ![t] = @ \ {Member(t)}]
        BY <1>10, <3>1 DEF ThreadChange
      <4> QED
        BY <1>0, <4>1
    <3>2. CASE Member(t) \notin registered[t]
      BY <1>10, <3>2 DEF ThreadChange
    <3> QED
      BY <3>1, <3>2
  <2>4. ASSUME NEW v \in Threads PROVE Knows(v)' /\ Forgets(v)' /\ Calls(v)'
    <3>1. CASE v = t
      <4>1. Knows(v)' /\ Calls(v)'
        BY <1>1, <2>1, <2>3, <3>1 DEF Knows, Calls
      <4>2. ASSUME NEW k \in 1..Len(Members[object[t]]), k <= done[t] + 1
            PROVE  Members[object[t]][k] \notin registered'[t]
        <5>1. CASE k <= done[t]
          BY <1>1, <2>1, <2>3, <5>1 DEF Forgets, Moving
        <5>2. CASE ~(k <= done[t])
          <6>1. k = done[t] + 1
            BY <1>0, <4>2, <5>2
          <6> QED
            BY <2>2, <2>3, <6>1
        <5> QED
          BY <5>1, <5>2
      <4>3. Forgets(v)'
        BY <1>0, <2>1, <3>1, <4>2 DEF Forgets, Moving
      <4> QED
        BY <4>1, <4>3
    <3>2. CASE v # t
      BY <1>0, <1>1, <2>1, <2>3, <3>2 DEF Knows, Forgets, Calls, Moving
    <3> QED
      BY <3>1, <3>2
  <2> QED
    BY <2>4
<1>11. ASSUME NEW t \in Threads, MoveEvent(t) PROVE Aim
  BY <1>2, <1>11 DEF MoveEvent, timerVars
<1> HIDE DEF Aim
<1>12. Aim
  BY Steps, <1>3, <1>4, <1>5, <1>6, <1>7, <1>8, <1>9, <1>10, <1>11
<1> QED
  BY <1>12 DEF Aim, Registrations

-----------------------------------------------------------------------------
\* Events stay with their receivers, in order.

\* What a step does to the events: nothing, or one is queued, sent or moved.
Queues(t, e) ==
    /\ Gains(t, e) /\ e \in Entries /\ IsLive(e) /\ e.event = lastEvent + 1
    /\ e.type # "DeferredDelete"
    /\ lastEvent' = lastEvent + 1
    /\ threadData[e.receiver] = t /\ holder[t] = NoOne
    /\ UNCHANGED <<threadData, pc, target, object>>
    /\ \A u \in Threads : pc[u] = "move" => done'[u] = done[u]
Sends(t, e) ==
    /\ e \in E(t) /\ Loses(t, e) /\ pc[t] = "send" /\ pc' = [pc EXCEPT ![t] = "handler"]
    /\ UNCHANGED <<lastEvent, threadData, target, object, done>>
    /\ handled' = [handled EXCEPT ![t] = e]
    /\ \A f \in E(t) : SameKind(e, f) => e.event <= f.event
Hands(t, e) ==
    /\ e \in E(t) /\ Passes(t, target[t], e) /\ e.receiver = Member(t)
    /\ pc[t] = "move" /\ ~AllDone(t)
    /\ UNCHANGED <<lastEvent, threadData, pc, target, object, done>>
    /\ \A f \in E(t) : SameKind(e, f) => e.event <= f.event

\* Steps that leave the events and the members that are moving alone.
Keeps ==
    /\ SameEvents /\ UNCHANGED <<lastEvent, threadData>>
    /\ \A u \in Threads : pc[u] = "move" /\ ~AllDone(u) => pc'[u] = "move"
    /\ \A u \in Threads : pc'[u] = "move" =>
           /\ pc[u] = "move" /\ target'[u] = target[u]
           /\ object'[u] = object[u] /\ done'[u] = done[u]

LEMMA DeliverSends ==
    ASSUME TypeOK, Lists, NEW t \in Threads, Deliver(t)
    PROVE  \E e \in E(t) : Sends(t, e)
<1>1. /\ pc[t] = "send" /\ pc' = [pc EXCEPT ![t] = "handler"]
      /\ UNCHANGED <<lastEvent, threadData, target, object, done>>
  BY DEF Deliver, GoTo, moveVars
<1>2. PICK e \in E(t) : /\ handled' = [handled EXCEPT ![t] = e]
                       /\ Loses(t, e)
                       /\ \A f \in E(t) : SameKind(e, f) => e.event <= f.event
  BY DeliverLists
<1>3. Sends(t, e)
  BY <1>1, <1>2 DEF Sends
<1> QED
  BY <1>3

LEMMA EventSteps ==
    ASSUME TypeOK, Lists, Places, Registrations, Names, OldFirst, [Next]_vars
    PROVE  \/ Keeps
           \/ \E t \in Threads, e \in Entries : Queues(t, e)
           \/ \E t \in Threads : \E e \in E(t) : Sends(t, e) \/ Hands(t, e)
           \/ \E t \in Threads :
                 (LockSecond(t) \/ SetThreadData(t)) /\ SameEvents /\ UNCHANGED lastEvent
<1> DEFINE Goal ==
             \/ Keeps
             \/ \E t \in Threads, e \in Entries : Queues(t, e)
             \/ \E t \in Threads : \E e \in E(t) : Sends(t, e) \/ Hands(t, e)
             \/ \E t \in Threads :
                   (LockSecond(t) \/ SetThreadData(t)) /\ SameEvents /\ UNCHANGED lastEvent
<1>0. /\ pc \in [Threads -> PCs] /\ object \in [Threads -> Receivers]
      /\ target \in [Threads -> Threads] /\ done \in [Threads -> Nat]
      /\ lastEvent \in Nat
  BY DEF TypeOK, PCs
<1>1. ASSUME UNCHANGED <<threadData, object, target, done, lastEvent>>, SameEvents,
             \/ UNCHANGED pc
             \/ \E t \in Threads, l \in PCs \ {"move"} :
                   pc[t] # "move" /\ pc' = [pc EXCEPT ![t] = l]
      PROVE  Keeps
  BY <1>0, <1>1 DEF Keeps, AllDone
<1>2. ASSUME UNCHANGED vars PROVE Keeps
  <2>1. SameEvents
    BY <1>2 DEF vars, listVars, SameEvents, E
  <2> QED
    BY <1>1, <1>2, <2>1 DEF vars, moveVars
<1>3. ASSUME NEW a \in Posters, Posting(a) PROVE Keeps
  <2>1. UNCHANGED <<lists, threadData, object, target, done, lastEvent, pc>>
    BY <1>3 DEF Posting, PostEvent, Follow, PosterWakesUp, listVars, moveVars
  <2>2. SameEvents
    BY <2>1 DEF SameEvents, E
  <2> QED
    BY <1>1, <2>1, <2>2
<1>4. ASSUME NEW a \in Posters, Insert(a) PROVE Goal
  <2> DEFINE t == posts[a].data
             new == NewEntry(posts[a].receiver, "Plain", posts[a].priority)
  <2>1. /\ t \in Threads /\ Gains(t, new) /\ new \in Entries
        /\ lastEvent' = lastEvent + 1 /\ threadData[new.receiver] = t
        /\ holder[t] = NoOne
    BY <1>4, InsertLists DEF NewEntry
  <2>2. new.event = lastEvent + 1 /\ IsLive(new) /\ new.type # "DeferredDelete"
    BY <1>0 DEF NewEntry, IsLive
  <2>3. UNCHANGED <<threadData, pc, target, object, done>>
    BY <1>4 DEF Insert, moveVars
  <2> HIDE DEF t, new
  <2>4. Queues(t, new)
    BY <2>1, <2>2, <2>3 DEF Queues
  <2> QED
    BY <2>1, <2>4
<1>5. ASSUME NEW t \in Threads, LoopOrUser(t) \/ Return(t) \/ SendDone(t) PROVE Keeps
  <2>1. SameEvents
    <3>1. CASE EnterSend(t)
      BY <3>1, EnterSendLists
    <3>2. CASE SendDone(t)
      BY <3>2, SendDoneLists
    <3>3. CASE ~EnterSend(t) /\ ~SendDone(t)
      <4>1. UNCHANGED lists
        BY <1>5, <3>3 DEF LoopOrUser, Start, Poll, Select, TimerEvent, StartTimer,
                          KillTimer, Return, listVars
      <4> QED
        BY <4>1 DEF SameEvents, E
    <3> QED
      BY <3>1, <3>2, <3>3
  <2>2. /\ UNCHANGED <<threadData, object, target, done, lastEvent>>
        /\ \/ UNCHANGED pc
           \/ \E l \in PCs \ {"move"} : pc[t] # "move" /\ pc' = [pc EXCEPT ![t] = l]
    <3>1. CASE LoopOrUser(t)
      BY <3>1 DEF LoopOrUser, Start, EnterSend, Poll, Select, TimerEvent, StartTimer,
                  KillTimer, GoTo, moveVars, PCs
    <3>2. CASE Return(t) \/ SendDone(t)
      BY <3>2 DEF Return, SendDone, GoTo, moveVars, PCs
    <3> QED
      BY <1>5, <3>1, <3>2
  <2> QED
    BY <1>1, <2>1, <2>2
<1>6. ASSUME NEW t \in Threads, Deliver(t) PROVE Goal
  BY <1>6, DeliverSends
<1>7. ASSUME NEW t \in Threads, MoveEvent(t) PROVE Goal
  <2>1. /\ pc[t] = "move" /\ ~AllDone(t)
        /\ UNCHANGED <<lastEvent, threadData, pc, target, object, done>>
    BY <1>7 DEF MoveEvent
  <2>2. target[t] \in Threads \ {t}
    BY <1>0, <2>1 DEF Places, Moving
  <2>3. PICK e \in E(t) : /\ e.receiver = Member(t) /\ Passes(t, target[t], e)
                         /\ \A f \in E(t) : SameKind(e, f) => e.event <= f.event
    BY <1>7, <2>2, MoveEventLists
  <2>4. Hands(t, e)
    BY <2>1, <2>3 DEF Hands
  <2> QED
    BY <2>4
<1>8. ASSUME NEW t \in Threads, Moves(t) PROVE Goal
  <2>1. SameEvents /\ UNCHANGED lastEvent
    <3>1. UNCHANGED lists /\ UNCHANGED lastEvent
      BY <1>8 DEF Moves, MoveToThread, LockFirst, LockSecond, SetThreadData, Unlock,
                  listVars
    <3> QED
      BY <3>1 DEF SameEvents, E
  <2>2. ASSUME NEW o \in DOMAIN Members, NEW u \in Threads, MoveToThread(t, o, u)
        PROVE  Keeps
    <3>1. /\ pc[t] = "handler" /\ pc' = [pc EXCEPT ![t] = "change"]
          /\ UNCHANGED <<threadData, done>>
          /\ object' = [object EXCEPT ![t] = o] /\ target' = [target EXCEPT ![t] = u]
      BY <2>2 DEF MoveToThread, InUserCode, GoTo
    <3> QED
      BY <1>0, <2>1, <3>1 DEF Keeps
  <2>3. CASE LockFirst(t)
    <3>1. /\ pc[t] = "change" /\ pc' = [pc EXCEPT ![t] = "second"]
          /\ UNCHANGED <<threadData, object, target>> /\ done' = [done EXCEPT ![t] = 0]
      BY <2>3 DEF LockFirst, FirstMember, GoTo
    <3> QED
      BY <1>0, <2>1, <3>1 DEF Keeps
  <2>4. CASE Unlock(t)
    <3>1. /\ pc[t] = "move" /\ AllDone(t) /\ pc' = [pc EXCEPT ![t] = "handler"]
          /\ UNCHANGED threadData
          /\ object' = [object EXCEPT ![t] = App] /\ target' = [target EXCEPT ![t] = t]
          /\ done' = [done EXCEPT ![t] = 0]
      BY <2>4 DEF Unlock, FirstMember, GoTo
    <3> QED
      BY <1>0, <2>1, <3>1 DEF Keeps
  <2> QED
    BY <1>8, <2>1, <2>2, <2>3, <2>4 DEF Moves
<1>9. ASSUME NEW t \in Threads, ThreadChange(t) PROVE Goal
  <2>1. /\ pc[t] = "change" /\ UNCHANGED <<threadData, pc, object, target>>
        /\ done' = [done EXCEPT ![t] = @ + 1]
    BY <1>9 DEF ThreadChange, NextMember
  <2>2. CASE SameEvents /\ UNCHANGED lastEvent
    BY <1>0, <2>1, <2>2 DEF Keeps
  <2> DEFINE new == NewEntry(Member(t), "MetaCall", 0)
  <2>3. CASE Member(t) \in registered[t] /\ Gains(t, new) /\ new \in Entries
             /\ lastEvent' = lastEvent + 1
    <3>1. threadData[Member(t)] = t
      BY <2>3 DEF Registrations, Knows
    <3>2. holder[t] = NoOne
      BY <1>9, <2>3 DEF ThreadChange
    <3>3. /\ new.event = lastEvent + 1 /\ IsLive(new) /\ new.receiver = Member(t)
          /\ new.type # "DeferredDelete"
      BY <1>0 DEF NewEntry, IsLive
    <3> HIDE DEF new
    <3>4. Queues(t, new)
      BY <1>0, <2>1, <2>3, <3>1, <3>2, <3>3 DEF Queues
    <3> QED
      BY <2>3, <3>4
  <2> QED
    BY <1>9, <2>2, <2>3, ThreadChangeLists
<1> HIDE DEF Goal
<1>10. Goal
  <2>1. Keeps => Goal
    BY DEF Goal
  <2> QED
    BY Steps, <2>1, <1>2, <1>3, <1>4, <1>5, <1>6, <1>7, <1>8, <1>9
<1> QED
  BY <1>10 DEF Goal

\* A handler is entered and left by Deliver and Return only, but for those of
\* the native events, which have no posted event.
Quiet ==
    \A t \in Threads :
        /\ pc'[t] \in Idle => pc[t] \in Idle
        /\ \/ handled'[t] = handled[t]
           \/ /\ ~IsLive(handled[t]) /\ ~IsLive(handled'[t])
              /\ handled'[t].type = "Plain"
Returns(t) ==
    /\ SameEvents /\ lastEvent' = lastEvent /\ pc[t] = "handler"
    /\ \E l \in PCs : pc' = [pc EXCEPT ![t] = l]
    /\ handled' = [handled EXCEPT ![t] = Nulled(TimerEntry(App))]

LEMMA HandlerSteps ==
    ASSUME TypeOK, Lists, [Next]_vars, Handlers
    PROVE  \/ Quiet
           \/ \E t \in Threads : Returns(t)
           \/ \E t \in Threads : \E e \in E(t) : Sends(t, e)
<1>0. pc \in [Threads -> PCs] /\ handled \in [Threads -> Entries]
  BY DEF TypeOK, PCs
<1>1. ASSUME UNCHANGED handled,
             \/ UNCHANGED pc
             \/ \E t \in Threads, l \in PCs :
                   /\ pc' = [pc EXCEPT ![t] = l]
                   /\ l \in Idle => pc[t] \in Idle
      PROVE  Quiet
  BY <1>0, <1>1 DEF Quiet
<1>2. CASE UNCHANGED vars
  BY <1>1, <1>2 DEF vars
<1>3. ASSUME NEW a \in Posters, Posting(a) \/ Insert(a) PROVE Quiet
  <2>1. UNCHANGED <<handled, pc>>
    BY <1>3 DEF Posting, PostEvent, Follow, PosterWakesUp, Insert
  <2> QED
    BY <1>1, <2>1
<1>4. ASSUME NEW t \in Threads, NEW o \in Timers, TimerEvent(t, o) PROVE Quiet
  <2>1. /\ pc[t] = "select" /\ pc' = [pc EXCEPT ![t] = "handler"]
        /\ handled' = [handled EXCEPT ![t] = TimerEntry(o)]
    BY <1>4 DEF TimerEvent, GoTo
  <2>2. o \in Receivers
    BY MoveToThreadAssumption
  <2>3. ~IsLive(TimerEntry(o)) /\ TimerEntry(o).type = "Plain"
    BY <2>2, EntryTypes
  <2>4. ~IsLive(handled[t])
    BY <2>1 DEF Handlers, Idle
  <2> QED
    BY <1>0, <2>1, <2>3, <2>4 DEF Quiet, Idle
<1>5. ASSUME NEW t \in Threads, LoopOrUser(t) \/ SendDone(t),
             ~ \E o \in Timers : TimerEvent(t, o)
      PROVE  Quiet
  <2>1. /\ UNCHANGED handled
        /\ \/ UNCHANGED pc
           \/ \E l \in Idle : pc[t] \in Idle /\ pc' = [pc EXCEPT ![t] = l]
    BY <1>5 DEF LoopOrUser, Start, EnterSend, Poll, Select, StartTimer, KillTimer,
                SendDone, GoTo, Idle
  <2> QED
    BY <1>1, <2>1 DEF Idle, PCs
<1>6. ASSUME NEW t \in Threads, Return(t) PROVE Returns(t)
  <2>1. UNCHANGED lists /\ lastEvent' = lastEvent /\ pc[t] = "handler"
    BY <1>6 DEF Return, listVars
  <2>2. \E l \in PCs : pc' = [pc EXCEPT ![t] = l]
    BY <1>6 DEF Return, GoTo, PCs
  <2>3. handled' = [handled EXCEPT ![t] = Nulled(TimerEntry(App))]
    BY <1>6 DEF Return
  <2> QED
    BY <2>1, <2>2, <2>3 DEF Returns, SameEvents, E
<1>7. ASSUME NEW t \in Threads, Moves(t) \/ ThreadChange(t) \/ MoveEvent(t)
      PROVE  Quiet
  <2>1. /\ UNCHANGED handled
        /\ \/ UNCHANGED pc
           \/ \E l \in PCs \ Idle : pc' = [pc EXCEPT ![t] = l]
    BY <1>7 DEF Moves, MoveToThread, LockFirst, LockSecond, SetThreadData, Unlock,
                ThreadChange, MoveEvent, GoTo, Idle, PCs
  <2> QED
    BY <1>1, <2>1
<1> QED
  BY Steps, <1>2, <1>3, <1>4, <1>5, <1>6, <1>7, DeliverSends

LEMMA HandlersStep ==
    ASSUME TypeOK, Lists, Places, Registrations, Names, OldFirst, Handlers,
           [Next]_vars
    PROVE  Handlers'
<1>0. /\ lastEvent \in Nat
      /\ \A t \in Threads : \A e \in E(t) : e \in Entries /\ IsLive(e) /\ e.event \in Nat
      /\ pc \in [Threads -> PCs] /\ handled \in [Threads -> Entries]
      /\ \A t \in Threads : handled[t].event \in Nat
  BY ListFacts DEF TypeOK, Entries, PCs
<1>1. ASSUME NEW t \in Threads, NEW e \in E(t), Sends(t, e) PROVE Handlers'
  <2>1. /\ lastEvent' = lastEvent
        /\ pc[t] = "send" /\ pc' = [pc EXCEPT ![t] = "handler"]
        /\ handled' = [handled EXCEPT ![t] = e]
        /\ \A u \in Threads : E(u)' = IF u = t THEN E(t) \ {e} ELSE E(u)
    BY <1>1 DEF Sends, Loses
  <2>2. /\ e.event <= lastEvent /\ e.type # "DeferredDelete" /\ e.event # 0
        /\ \A u \in Threads : \A f \in E(u) : f.event = e.event => u = t /\ f = e
    BY <1>0 DEF Names, Handlers, IsLive
  <2>3. \A u \in Threads : handled[u].event # e.event
    BY <1>0, <2>2 DEF Handlers, IsLive
  <2>4. \A u \in Threads : \A f \in E(u)' : f.event # e.event
    BY <2>1, <2>2
  <2>5. ASSUME NEW u \in Threads, u # t
        PROVE  handled'[u] = handled[u] /\ pc'[u] = pc[u]
    BY <1>0, <2>1, <2>5
  <2>6. handled'[t] = e /\ pc'[t] = "handler"
    BY <1>0, <2>1
  <2>7. \A u \in Threads : E(u)' \subseteq E(u)
    BY <2>1
  <2>8. ASSUME NEW u \in Threads
        PROVE  /\ pc'[u] \in Idle => ~IsLive(handled'[u])
               /\ handled'[u].type # "DeferredDelete"
               /\ \A f \in E(u)' : f.type # "DeferredDelete"
               /\ IsLive(handled'[u]) =>
                      /\ handled'[u].event <= lastEvent'
                      /\ \A v \in Threads : \A f \in E(v)' : f.event # handled'[u].event
                      /\ \A v \in Threads :
                            handled'[v].event = handled'[u].event => v = u
    <3>1. CASE u = t
      BY <2>1, <2>2, <2>3, <2>4, <2>5, <2>6, <2>7, <3>1 DEF Handlers, Idle
    <3>2. CASE u # t
      BY <2>1, <2>2, <2>3, <2>4, <2>5, <2>6, <2>7, <3>2 DEF Handlers
    <3> QED
      BY <3>1, <3>2
  <2> QED
    BY <2>8 DEF Handlers
<1>2. ASSUME NEW t \in Threads, Returns(t) PROVE Handlers'
  <2>1. /\ lastEvent' = lastEvent /\ \A u \in Threads : E(u)' = E(u)
        /\ handled'[t] = Nulled(TimerEntry(App))
        /\ \A u \in Threads : u # t => handled'[u] = handled[u] /\ pc'[u] = pc[u]
    BY <1>0, <1>2 DEF Returns, SameEvents
  <2>2. ~IsLive(handled'[t]) /\ handled'[t].type # "DeferredDelete"
        /\ handled'[t].event = 0
    BY <2>1, EntryTypes DEF IsLive, Nulled, TimerEntry
  <2> QED
    BY <1>0, <2>1, <2>2 DEF Handlers, IsLive
<1>3. ASSUME Quiet, SameEvents, UNCHANGED lastEvent PROVE Handlers'
  BY <1>0, <1>3 DEF Handlers, Quiet, SameEvents, IsLive
<1>4. ASSUME Quiet, NEW t \in Threads, NEW new \in Entries, Queues(t, new)
      PROVE  Handlers'
  <2>1. /\ new.event = lastEvent + 1 /\ lastEvent' = lastEvent + 1
        /\ new.type # "DeferredDelete"
        /\ \A u \in Threads : E(u)' = IF u = t THEN E(t) \cup {new} ELSE E(u)
    BY <1>4 DEF Queues, Gains
  <2>2. \A u \in Threads : \A f \in E(u)' : f = new \/ f \in E(u)
    BY <2>1
  <2> QED
    BY <1>0, <1>4, <2>1, <2>2 DEF Handlers, Quiet, IsLive
<1>5. ASSUME Quiet, NEW t \in Threads, NEW g \in E(t), Hands(t, g) PROVE Handlers'
  <2>1. /\ lastEvent' = lastEvent
        /\ \A v \in Threads : E(v)' = IF v = t THEN E(t) \ {g}
                              ELSE IF v = target[t] THEN E(v) \cup {g} ELSE E(v)
    BY <1>5 DEF Hands, Passes
  <2>2. \A u \in Threads : \A f \in E(u)' : f = g \/ f \in E(u)
    BY <2>1
  <2> QED
    BY <1>0, <1>5, <2>1, <2>2 DEF Handlers, Quiet, IsLive
<1> QED
  BY EventSteps, HandlerSteps, <1>1, <1>2, <1>3, <1>4, <1>5 DEF Keeps

LEMMA NamesStep ==
    ASSUME TypeOK, Lists, Places, Registrations, Names, OldFirst, [Next]_vars
    PROVE  Names'
<1>0. /\ lastEvent \in Nat
      /\ \A t \in Threads : \A e \in E(t) : e.event \in Nat
  BY ListFacts DEF TypeOK, Entries
<1>1. CASE SameEvents /\ UNCHANGED lastEvent
  BY <1>1 DEF Names, SameEvents
<1>2. ASSUME NEW t \in Threads, NEW new \in Entries, Queues(t, new) PROVE Names'
  <2>1. /\ new.event = lastEvent + 1 /\ lastEvent' = lastEvent + 1
        /\ \A u \in Threads : E(u)' = IF u = t THEN E(t) \cup {new} ELSE E(u)
    BY <1>2 DEF Queues, Gains
  <2>2. ASSUME NEW u \in Threads, NEW e \in E(u)'
        PROVE  \/ e = new /\ u = t
               \/ e \in E(u) /\ e.event <= lastEvent /\ e.event # new.event
    <3>1. e \in E(u) => e.event <= lastEvent /\ e.event \in Nat
      BY <1>0 DEF Names
    <3> QED
      BY <1>0, <2>1, <3>1
  <2>3. ASSUME NEW u \in Threads, NEW e \in E(u)'
        PROVE  e.event <= lastEvent'
    <3>1. \/ e.event = lastEvent + 1
          \/ e.event \in Nat /\ e.event <= lastEvent
      BY <1>0, <2>1, <2>2
    <3> QED
      BY <1>0, <2>1, <3>1
  <2>4. ASSUME NEW u \in Threads, NEW e \in E(u)', NEW v \in Threads, NEW f \in E(v)',
               e.event = f.event
        PROVE  u = v /\ e = f
    <3>1. CASE e = new /\ u = t
      BY <2>2, <2>4, <3>1
    <3>2. CASE e \in E(u) /\ e.event # new.event
      <4>1. f \in E(v)
        BY <2>2, <2>4, <3>2
      <4> QED
        BY <2>4, <3>2, <4>1 DEF Names
    <3> QED
      BY <2>2, <3>1, <3>2
  <2> QED
    BY <2>3, <2>4 DEF Names
<1>3. ASSUME NEW t \in Threads, NEW e \in E(t), Sends(t, e) PROVE Names'
  <2>1. /\ \A u \in Threads : E(u)' \subseteq E(u)
        /\ lastEvent' = lastEvent
    BY <1>3 DEF Sends, Loses
  <2> QED
    BY <2>1 DEF Names
<1>4. ASSUME NEW t \in Threads, NEW g \in E(t), Hands(t, g) PROVE Names'
  <2>1. /\ lastEvent' = lastEvent
        /\ \A v \in Threads : E(v)' = IF v = t THEN E(t) \ {g}
                              ELSE IF v = target[t] THEN E(v) \cup {g} ELSE E(v)
    BY <1>4 DEF Hands, Passes
  <2>2. ASSUME NEW u \in Threads, NEW e \in E(u)'
        PROVE  \/ e = g /\ u = target[t] /\ u # t
               \/ e \in E(u) /\ ~(u = t /\ e = g)
    BY <2>1
  <2>3. ASSUME NEW u \in Threads, NEW e \in E(u)'
        PROVE  e.event <= lastEvent'
    BY <2>1, <2>2 DEF Names
  <2>4. ASSUME NEW u \in Threads, NEW e \in E(u)', NEW v \in Threads, NEW f \in E(v)',
               e.event = f.event
        PROVE  u = v /\ e = f
    <3>1. CASE e = g /\ u = target[t]
      <4>1. CASE f = g /\ v = target[t]
        BY <3>1, <4>1
      <4>2. CASE f \in E(v) /\ ~(v = t /\ f = g)
        BY <2>4, <3>1, <4>2 DEF Names
      <4> QED
        BY <2>2, <4>1, <4>2
    <3>2. CASE e \in E(u) /\ ~(u = t /\ e = g)
      <4>1. CASE f = g /\ v = target[t]
        BY <2>4, <3>2, <4>1 DEF Names
      <4>2. CASE f \in E(v)
        BY <2>4, <3>2, <4>2 DEF Names
      <4> QED
        BY <2>2, <4>1, <4>2
    <3> QED
      BY <2>2, <3>1, <3>2
  <2> QED
    BY <2>3, <2>4 DEF Names
<1> QED
  BY EventSteps, <1>1, <1>2, <1>3, <1>4 DEF Keeps

LEMMA OldFirstStep ==
    ASSUME TypeOK, Lists, Places, Families, Registrations, Names, OldFirst,
           EventsFollowReceiver, [Next]_vars
    PROVE  OldFirst'
<1>0. /\ threadData \in [Receivers -> Threads] /\ pc \in [Threads -> PCs]
      /\ done \in [Threads -> Nat] /\ target \in [Threads -> Threads]
      /\ \A t \in Threads : \A e \in E(t) : e.event \in Nat
  BY ListFacts DEF TypeOK, PCs, Entries
\* A mover's list is not the mover's target, and it holds both.
<1>1. \A v \in Threads : pc[v] = "move" =>
          target[v] # v /\ holder[v] = v /\ holder[target[v]] = v
  BY DEF Places, Moving
<1> SUFFICES ASSUME NEW v \in Threads, pc'[v] = "move", ~AllDone(v)',
                    NEW e \in E(target[v])', NEW f \in E(v)',
                    e.receiver = Member(v)', SameKind(e, f)
             PROVE  e.event < f.event
  BY DEF OldFirst
<1>2. ASSUME UNCHANGED <<pc, target, object, done>>
      PROVE  /\ pc[v] = "move" /\ ~AllDone(v) /\ target'[v] = target[v]
             /\ Member(v)' = Member(v) /\ target[v] \in Threads
  BY <1>0, <1>2 DEF AllDone, Member
<1>3. ASSUME pc[v] = "move", ~AllDone(v), Member(v)' = Member(v),
             e \in E(target[v]), f \in E(v)
      PROVE  e.event < f.event
  BY <1>3 DEF OldFirst
<1>4. CASE Keeps
  <2>1. /\ pc[v] = "move" /\ ~AllDone(v) /\ target'[v] = target[v]
        /\ Member(v)' = Member(v) /\ target[v] \in Threads
    BY <1>0, <1>4 DEF Keeps, AllDone, Member
  <2>2. E(target[v])' = E(target[v]) /\ E(v)' = E(v)
    BY <1>4, <2>1 DEF Keeps, SameEvents, E
  <2> QED
    BY <1>3, <2>1, <2>2
<1>5. ASSUME NEW t \in Threads, NEW new \in Entries, Queues(t, new)
      PROVE  e.event < f.event
  <2>1. /\ pc[v] = "move" /\ ~AllDone(v) /\ Member(v)' = Member(v)
        /\ target'[v] = target[v] /\ target[v] \in Threads
    <3>1. pc[v] = "move" /\ UNCHANGED <<pc, target, object>> /\ done'[v] = done[v]
      BY <1>5 DEF Queues
    <3> QED
      BY <1>0, <3>1 DEF AllDone, Member
  <2>2. v # t /\ target[v] # t
    <3>1. holder[t] = NoOne /\ NoOne \notin Threads
      BY <1>5, MoveToThreadAssumption DEF Queues
    <3> QED
      BY <1>1, <2>1, <3>1
  <2>3. E(v)' = E(v) /\ E(target[v])' = E(target[v])
    BY <1>5, <2>1, <2>2 DEF Queues, Gains, E
  <2> QED
    BY <1>3, <2>1, <2>3
<1>6. ASSUME NEW t \in Threads, NEW g \in E(t), Sends(t, g)
      PROVE  e.event < f.event
  <2>1. /\ pc[v] = "move" /\ ~AllDone(v) /\ Member(v)' = Member(v)
        /\ target'[v] = target[v] /\ target[v] \in Threads
    <3>1. pc' = [pc EXCEPT ![t] = "handler"] /\ UNCHANGED <<target, object, done>>
      BY <1>6 DEF Sends
    <3>2. pc[v] = "move"
      BY <1>0, <3>1
    <3> QED
      BY <1>0, <3>1, <3>2 DEF AllDone, Member
  <2>2. E(v)' \subseteq E(v) /\ E(target[v])' \subseteq E(target[v])
    BY <1>6, <2>1 DEF Sends, Loses, E
  <2> QED
    BY <1>3, <2>1, <2>2
\* The event handed over is older than what stays; the other movers' lists
\* are neither of the two.
<1>7. ASSUME NEW t \in Threads, NEW g \in E(t), Hands(t, g)
      PROVE  e.event < f.event
  <2>1. /\ pc[v] = "move" /\ ~AllDone(v) /\ Member(v)' = Member(v)
        /\ target'[v] = target[v] /\ target[v] \in Threads
    BY <1>2, <1>7 DEF Hands
  <2>2. /\ pc[t] = "move" /\ target[t] \in Threads
        /\ \A u \in Threads : E(u)' = IF u = t THEN E(t) \ {g}
                              ELSE IF u = target[t] THEN E(u) \cup {g} ELSE E(u)
    BY <1>0, <1>7 DEF Hands, Passes
  <2>3. CASE v = t
    <3>1. f \in E(v) /\ f # g /\ target[v] # v
      BY <1>1, <2>2, <2>3
    <3>2. CASE e \in E(target[v])
      BY <1>3, <2>1, <3>1, <3>2
    <3>3. CASE e = g
      <4>1. g.event <= f.event
        BY <1>7, <2>3, <3>1, <3>3 DEF Hands
      <4>2. g.event # f.event
        BY <2>3, <3>1 DEF Names
      <4> QED
        BY <1>0, <2>3, <3>1, <3>3, <4>1, <4>2
    <3>4. e \in E(target[v]) \/ e = g
      <4>1. E(target[v])' = E(target[v]) \cup {g}
        BY <2>1, <2>2, <2>3, <3>1 DEF E
      <4> QED
        BY <4>1
    <3> QED
      BY <3>2, <3>3, <3>4
  <2>4. CASE v # t
    <3>1. v # target[t] /\ target[v] # t /\ target[v] # target[t]
      BY <1>1, <2>1, <2>2, <2>4
    <3>2. E(v)' = E(v) /\ E(target[v])' = E(target[v])
      BY <2>1, <2>2, <2>4, <3>1 DEF E
    <3> QED
      BY <1>3, <2>1, <3>2
  <2> QED
    BY <2>3, <2>4
\* What is in the target's list is for who lives there or is underway to it.
<1>8. ASSUME NEW t \in Threads, LockSecond(t) \/ SetThreadData(t), SameEvents
      PROVE  e.event < f.event
  <2>1. CASE v # t
    <3>1. /\ pc[v] = "move" /\ ~AllDone(v) /\ Member(v)' = Member(v)
          /\ target'[v] = target[v] /\ target[v] \in Threads
      <4>1. /\ pc'[v] = pc[v] /\ done'[v] = done[v]
            /\ UNCHANGED <<target, object>>
        BY <1>0, <1>8, <2>1
           DEF LockSecond, SetThreadData, GoTo, NextMember, moveVars
      <4> QED
        BY <1>0, <4>1 DEF AllDone, Member
    <3>2. E(v)' = E(v) /\ E(target[v])' = E(target[v])
      BY <1>8, <3>1 DEF SameEvents, E
    <3> QED
      BY <1>3, <3>1, <3>2
  <2>2. ASSUME v = t, UNCHANGED <<target, object>>,
               Member(t)' \in Receivers, threadData[Member(t)'] = t,
               ~Underway(t, Member(t)')
        PROVE  FALSE
    <3>1. target[t] \in Threads /\ e \in E(target[t]) /\ target'[t] = target[t]
      BY <1>0, <1>8, <2>2 DEF SameEvents, E
    <3>2. target[t] # t
      BY <1>8 DEF LockSecond, SetThreadData, Places, Moving
    <3>3. \/ threadData[e.receiver] = target[t]
          \/ \E u \in Threads : Underway(u, e.receiver)
      BY <3>1 DEF EventsFollowReceiver, E
    <3>4. PICK u \in Threads : Underway(u, Member(t)')
      BY <2>2, <3>2, <3>3
    <3>5. threadData[Member(t)'] = u
      <4>1. pc[u] = "move" /\ ~AllDone(u) /\ Member(u) = Member(t)'
        BY <3>4 DEF Underway
      <4> QED
        BY <4>1, CurrentMember
    <3> QED
      BY <2>2, <3>4, <3>5
  <2>3. CASE v = t /\ LockSecond(t)
    <3>1. pc[t] = "second" /\ UNCHANGED <<target, object, done>>
      BY <2>3 DEF LockSecond, moveVars
    <3>2. Moving(t) /\ done[t] = 0
      BY <3>1 DEF Moving, Places
    <3>3. Member(t)' = Family(t)[1] /\ 1 \in 1..Len(Family(t))
      BY <3>1, <3>2, MemberFacts DEF Member, Family
    <3>4. Member(t)' \in Receivers /\ threadData[Member(t)'] = t
      BY <2>3, <3>2, <3>3, MemberFacts, OwnFamily
    <3>5. ~Underway(t, Member(t)')
      BY <3>1 DEF Underway
    <3> QED
      BY <2>2, <2>3, <3>1, <3>4, <3>5
  <2>4. CASE v = t /\ SetThreadData(t)
    <3>1. /\ pc[t] = "move" /\ UNCHANGED <<target, object>> /\ ~AllDone(t)
          /\ done'[t] = done[t] + 1
      BY <1>0, <2>4 DEF SetThreadData, NextMember
    <3> DEFINE k == done[t] + 2
    <3>2. /\ Family(t) \in Seq(Receivers) /\ done[t] \in 0..Len(Family(t))
          /\ Len(Family(t)) \in Nat
          /\ object[t] \in DOMAIN Members
          /\ Member(t) = Family(t)[done[t] + 1]
          /\ done[t] + 1 \in 1..Len(Family(t))
      BY <3>1, MemberFacts DEF Moving
    <3>3. k \in 1..Len(Family(t)) /\ Member(t)' = Family(t)[k]
      <4>1. Member(t)' = Family(t)[(done[t] + 1) + 1]
        BY <3>1 DEF Member, Family
      <4>2. done[t] + 1 # Len(Family(t))
        BY <2>4, <3>1 DEF AllDone, Family
      <4> QED
        BY <3>2, <4>1, <4>2
    <3>4. Member(t)' \in Receivers
      BY <3>2, <3>3
    <3>5. threadData[Member(t)'] = t
      BY <3>1, <3>2, <3>3 DEF Families, Carries
    <3>6. Member(t)' # Member(t)
      BY <3>2, <3>3, FamiliesAssumption DEF Family
    <3>7. ~Underway(t, Member(t)')
      BY <3>6 DEF Underway
    <3> QED
      BY <2>2, <2>4, <3>1, <3>4, <3>5, <3>7
  <2> QED
    BY <1>8, <2>1, <2>3, <2>4
<1> QED
  BY EventSteps, <1>4, <1>5, <1>6, <1>7, <1>8

LEMMA FollowStep ==
    ASSUME TypeOK, Lists, Places, Families, Registrations, Names, OldFirst,
           EventsFollowReceiver, [Next]_vars
    PROVE  EventsFollowReceiver'
<1>0. /\ threadData \in [Receivers -> Threads] /\ pc \in [Threads -> PCs]
      /\ done \in [Threads -> Nat] /\ target \in [Threads -> Threads]
      /\ \A t \in Threads : \A e \in E(t) : e.receiver \in Receivers
  BY ListFacts DEF TypeOK, PCs, Entries
<1> DEFINE At(e, v) == \/ threadData[e.receiver] = v
                       \/ \E u \in Threads : target[u] = v /\ Underway(u, e.receiver)
<1>1. \A v \in Threads : \A e \in E(v) : At(e, v)
  BY DEF EventsFollowReceiver, E
<1> SUFFICES ASSUME NEW v \in Threads, NEW e \in E(v)'
             PROVE  \/ threadData'[e.receiver] = v
                    \/ \E u \in Threads : target'[u] = v /\ Underway(u, e.receiver)'
  BY DEF EventsFollowReceiver, E
<1> DEFINE Goal == \/ threadData'[e.receiver] = v
                   \/ \E u \in Threads : target'[u] = v /\ Underway(u, e.receiver)'
\* A member that is underway stays so unless its mover steps.
<1>2. ASSUME threadData' = threadData, At(e, v),
             \A u \in Threads : pc[u] = "move" /\ ~AllDone(u) =>
                 /\ pc'[u] = "move" /\ target'[u] = target[u]
                 /\ object'[u] = object[u] /\ done'[u] = done[u]
      PROVE  Goal
  <2>1. \A u \in Threads : Underway(u, e.receiver) =>
            target'[u] = target[u] /\ Underway(u, e.receiver)'
    BY <1>2 DEF Underway, AllDone, Member
  <2> QED
    BY <1>2, <2>1
<1>3. CASE Keeps
  <2>1. e \in E(v)
    BY <1>3 DEF Keeps, SameEvents
  <2>2. threadData' = threadData
    BY <1>3 DEF Keeps
  <2>3. \A u \in Threads : pc[u] = "move" /\ ~AllDone(u) =>
            /\ pc'[u] = "move" /\ target'[u] = target[u]
            /\ object'[u] = object[u] /\ done'[u] = done[u]
    BY <1>3 DEF Keeps
  <2> QED
    BY <1>1, <1>2, <2>1, <2>2, <2>3
<1>4. ASSUME NEW t \in Threads, NEW new \in Entries, Queues(t, new) PROVE Goal
  <2>1. CASE e = new /\ v = t
    BY <1>4, <2>1 DEF Queues
  <2>2. CASE e \in E(v)
    <3>1. /\ UNCHANGED <<threadData, pc, target, object>>
          /\ \A u \in Threads : pc[u] = "move" => done'[u] = done[u]
      BY <1>4 DEF Queues
    <3> QED
      BY <1>1, <1>2, <2>2, <3>1
  <2>3. (e = new /\ v = t) \/ e \in E(v)
    BY <1>4 DEF Queues, Gains
  <2> QED
    BY <2>1, <2>2, <2>3
<1>5. ASSUME NEW t \in Threads, NEW g \in E(t), Sends(t, g) PROVE Goal
  <2>1. e \in E(v)
    BY <1>5 DEF Sends, Loses
  <2>2. /\ UNCHANGED <<threadData, target, object, done>>
        /\ \A u \in Threads : pc[u] = "move" => pc'[u] = "move"
    BY <1>0, <1>5 DEF Sends
  <2> QED
    BY <1>1, <1>2, <2>1, <2>2
<1>6. ASSUME NEW t \in Threads, NEW g \in E(t), Hands(t, g) PROVE Goal
  <2>1. UNCHANGED <<threadData, target, object, done, pc>>
    BY <1>6 DEF Hands
  <2>2. e \in E(v) \/ (e = g /\ v = target[t])
    BY <1>6 DEF Hands, Passes
  <2>3. CASE e = g /\ v = target[t]
    <3>1. pc[t] = "move" /\ ~AllDone(t) /\ e.receiver = Member(t)
      BY <1>6, <2>3 DEF Hands
    <3> QED
      BY <2>1, <2>3, <3>1 DEF Underway, AllDone, Member
  <2> QED
    BY <1>1, <1>2, <2>1, <2>2, <2>3
<1>7. ASSUME NEW t \in Threads, LockSecond(t), SameEvents PROVE Goal
  <2>1. e \in E(v)
    BY <1>7 DEF SameEvents
  <2>2. /\ UNCHANGED <<threadData, target, object, done>>
        /\ \A u \in Threads : pc[u] = "move" => pc'[u] = "move"
    BY <1>0, <1>7 DEF LockSecond, GoTo, moveVars
  <2> QED
    BY <1>1, <1>2, <2>1, <2>2
\* The member arrives: none of its events is left in the old list.
<1>8. ASSUME NEW t \in Threads, SetThreadData(t), SameEvents PROVE Goal
  <2>1. e \in E(v)
    BY <1>8 DEF SameEvents
  <2>2. /\ pc[t] = "move" /\ ~AllDone(t) /\ UNCHANGED <<pc, target, object>>
        /\ threadData' = [threadData EXCEPT ![Member(t)] = target[t]]
        /\ \A u \in Threads : u # t => done'[u] = done[u]
    BY <1>0, <1>8 DEF SetThreadData, NextMember
  <2>3. /\ threadData[Member(t)] = t
        /\ \A u \in Threads : Underway(u, Member(t)) => u = t
    BY <2>2, CurrentMember
  <2>4. CASE e.receiver = Member(t)
    <3>1. v # t
      <4>1. SUFFICES ASSUME v = t PROVE FALSE
        OBVIOUS
      <4>2. PICK k \in Live(lists[t]) : lists[t][k] = e
        BY <2>1, <4>1 DEF E, LiveEntries
      <4>3. k \in MembersEvents(t)
        BY <2>4, <4>2 DEF MembersEvents
      <4> QED
        BY <1>8, <4>3 DEF SetThreadData
    <3>2. v = target[t]
      <4>1. threadData[e.receiver] # v
        BY <2>3, <2>4, <3>1
      <4>2. PICK u \in Threads : target[u] = v /\ Underway(u, e.receiver)
        BY <1>1, <2>1, <4>1
      <4> QED
        BY <2>3, <2>4, <4>2
    <3>3. threadData'[e.receiver] = v
      BY <1>0, <2>1, <2>2, <2>4, <3>2
    <3> QED
      BY <3>3
  <2>5. CASE e.receiver # Member(t)
    <3>1. threadData'[e.receiver] = threadData[e.receiver]
      BY <1>0, <2>1, <2>2, <2>5
    <3>2. ASSUME NEW u \in Threads, Underway(u, e.receiver)
          PROVE  Underway(u, e.receiver)' /\ target'[u] = target[u]
      <4>1. u # t
        BY <2>5, <3>2 DEF Underway
      <4> QED
        BY <2>2, <3>2, <4>1 DEF Underway, AllDone, Member
    <3> QED
      BY <1>1, <2>1, <3>1, <3>2
  <2> QED
    BY <2>4, <2>5
<1> QED
  BY EventSteps, <1>3, <1>4, <1>5, <1>6, <1>7, <1>8

LEMMA RegisteringStep ==
    ASSUME TypeOK, Lists, Places, Families, Registrations, Names, OldFirst,
           Registering, [Next]_vars
    PROVE  Registering'
<1>0. /\ threadData \in [Receivers -> Threads] /\ pc \in [Threads -> PCs]
      /\ registered \in [Threads -> SUBSET Receivers]
      /\ timer \in [Receivers -> {"none", "running", "killed"}]
      /\ handled \in [Threads -> Entries]
      /\ target \in [Threads -> Threads]
  BY DEF TypeOK, PCs
<1> DEFINE Has(t, e) == e \in E(t) \cup {handled[t]}
           Held(t, e) == e \in E(t)' \cup {handled'[t]}
           Known(r) == r \in registered[threadData[r]]
           KnownNext(r) == r \in registered'[threadData'[r]]
           Awaits(f, r) == f.type = "MetaCall" /\ f.receiver = r
           Awaited(r) == \E u \in Threads : \E f \in Entries : Held(u, f) /\ Awaits(f, r)
<1> SUFFICES ASSUME NEW o \in Receivers, timer'[o] = "running"
             PROVE  KnownNext(o) \/ Awaited(o)
  <2>1. ASSUME NEW o \in Receivers, Awaited(o) PROVE ToRegister(o)'
    BY <2>1 DEF ToRegister, E
  <2> QED
    BY <2>1 DEF Registering
<1>1. timer[o] = "running" =>
          Known(o) \/ \E t \in Threads, f \in Entries : Has(t, f) /\ Awaits(f, o)
  <2>1. \A t \in Threads : \A f : Has(t, f) => f \in Entries
    BY <1>0, ListFacts
  <2> QED
    BY <2>1 DEF Registering, ToRegister, E
\* The queued calls are kept, and the dispatchers know what they knew.
<1>2. ASSUME timer[o] = "running", Known(o) => KnownNext(o) \/ Awaited(o),
             \A t \in Threads, e \in Entries :
                 Has(t, e) /\ Awaits(e, o) =>
                     KnownNext(o) \/ \E u \in Threads : Held(u, e)
      PROVE  KnownNext(o) \/ Awaited(o)
  BY <1>1, <1>2
<1>3. ASSUME UNCHANGED <<timer, registered, threadData, handled>>,
             \A t \in Threads : E(t) \subseteq UNION {E(u)' : u \in Threads}
      PROVE  KnownNext(o) \/ Awaited(o)
  <2>1. \A t \in Threads, e \in Entries : Has(t, e) => \E u \in Threads : Held(u, e)
    BY <1>3
  <2> QED
    BY <1>2, <1>3, <2>1
<1> DEFINE Goal == KnownNext(o) \/ Awaited(o)
<1>4. ASSUME UNCHANGED <<timer, registered, threadData, handled>>, SameEvents
      PROVE  Goal
  BY <1>3, <1>4 DEF SameEvents
<1>5. ASSUME UNCHANGED vars PROVE Goal
  BY <1>4, <1>5 DEF vars, listVars, timerVars, SameEvents, E
<1>6. ASSUME NEW a \in Posters, Posting(a) PROVE Goal
  BY <1>4, <1>6 DEF Posting, PostEvent, Follow, PosterWakesUp, listVars, timerVars,
                    SameEvents, E
<1>7. ASSUME NEW a \in Posters, Insert(a) PROVE Goal
  <2>1. /\ posts[a].data \in Threads
        /\ Gains(posts[a].data, NewEntry(posts[a].receiver, "Plain", posts[a].priority))
    BY <1>7, InsertLists
  <2>2. \A t \in Threads : E(t) \subseteq E(t)'
    BY <2>1 DEF Gains
  <2>3. UNCHANGED <<timer, registered, threadData, handled>>
    BY <1>7 DEF Insert, timerVars
  <2> HIDE DEF Goal
  <2>4. \A t \in Threads : E(t) \subseteq UNION {E(u)' : u \in Threads}
    BY <2>2
  <2> QED
    BY <1>3, <2>3, <2>4 DEF Goal
<1>8. ASSUME NEW t \in Threads, Deliver(t) PROVE Goal
  <2>1. PICK e \in E(t) : handled' = [handled EXCEPT ![t] = e] /\ Loses(t, e)
    BY <1>8, DeliverLists
  <2>2. /\ pc[t] = "send" /\ UNCHANGED <<timer, registered, threadData>>
    BY <1>8 DEF Deliver, timerVars
  <2>3. handled[t].type # "MetaCall"
    BY <2>2 DEF Registrations, Calls
  <2>4. ASSUME NEW u \in Threads, NEW f \in Entries, Has(u, f), f.type = "MetaCall"
        PROVE  \E w \in Threads : Held(w, f)
    <3>1. CASE f = e
      BY <1>0, <2>1, <3>1
    <3>2. CASE f # e /\ f \in E(u)
      BY <2>1, <3>2 DEF Loses
    <3>3. CASE f = handled[u]
      BY <1>0, <2>1, <2>3, <2>4, <3>3
    <3> QED
      BY <2>4, <3>1, <3>2, <3>3
  <2> QED
    BY <1>2, <2>2, <2>4
<1>9. ASSUME NEW t \in Threads, Return(t) PROVE Goal
  <2>1. SameEvents /\ UNCHANGED <<timer, threadData>>
    BY <1>9 DEF Return, listVars, SameEvents, E
  <2>2. \A u \in Threads : u # t => handled'[u] = handled[u]
    BY <1>9 DEF Return
  <2>3. Known(o) => KnownNext(o)
    BY <1>0, <1>9, <2>1 DEF Return
  <2>4. handled[t].type = "MetaCall" /\ handled[t].receiver = o => KnownNext(o)
    BY <1>0, <1>9, <2>1 DEF Return
  <2>5. ASSUME NEW u \in Threads, NEW f \in Entries, Has(u, f), f.type = "MetaCall",
               f.receiver = o
        PROVE  KnownNext(o) \/ \E w \in Threads : Held(w, f)
    BY <2>1, <2>2, <2>4, <2>5 DEF SameEvents
  <2> QED
    BY <1>2, <2>1, <2>3, <2>5
<1>10. ASSUME NEW t \in Threads, SendDone(t) PROVE Goal
  BY <1>4, <1>10, SendDoneLists DEF SendDone, timerVars
<1>11. ASSUME NEW t \in Threads, Moves(t) PROVE Goal
  <2>1. SameEvents /\ UNCHANGED <<timer, registered, handled>>
    BY <1>11 DEF Moves, MoveToThread, LockFirst, LockSecond, SetThreadData, Unlock,
                 listVars, timerVars, SameEvents, E
  <2>2. CASE UNCHANGED threadData
    BY <1>4, <2>1, <2>2
  \* The dispatcher it leaves has forgotten the member.
  <2>3. CASE SetThreadData(t)
    <3>1. /\ pc[t] = "move" /\ ~AllDone(t)
          /\ threadData' = [threadData EXCEPT ![Member(t)] = target[t]]
      BY <2>3 DEF SetThreadData
    <3>2. threadData[Member(t)] = t
      BY <3>1, CurrentMember
    <3>3. Member(t) \notin registered[t]
      <4>1. Moving(t)
        BY <3>1 DEF Moving
      <4>2. done[t] + 1 \in 1..Len(Family(t)) /\ Member(t) = Family(t)[done[t] + 1]
        BY <3>1, <4>1, MemberFacts
      <4> QED
        BY <3>1, <4>1, <4>2 DEF Registrations, Forgets
    <3>4. Known(o) => KnownNext(o)
      BY <1>0, <2>1, <3>1, <3>2, <3>3
    <3>5. \A u \in Threads, f \in Entries : Has(u, f) => Held(u, f)
      BY <2>1 DEF SameEvents
    <3> QED
      BY <1>2, <2>1, <3>4, <3>5
  <2>4. UNCHANGED threadData \/ SetThreadData(t)
    BY <1>11 DEF Moves, MoveToThread, LockFirst, LockSecond, Unlock
  <2> QED
    BY <2>2, <2>3, <2>4
<1>12. ASSUME NEW t \in Threads, ThreadChange(t) PROVE Goal
  <2>1. UNCHANGED <<timer, threadData, handled>>
    BY <1>12 DEF ThreadChange
  <2>2. CASE SameEvents /\ UNCHANGED registered
    BY <1>4, <2>1, <2>2
  <2> DEFINE new == NewEntry(Member(t), "MetaCall", 0)
  <2>3. CASE /\ Gains(t, new)
             /\ registered' = [registered EXCEPT ![t] = @ \ {Member(t)}]
             /\ new \in Entries
    <3>1. new.type = "MetaCall" /\ new.receiver = Member(t)
      BY DEF NewEntry
    <3> HIDE DEF new
    <3>2. \A u \in Threads : E(u) \subseteq E(u)' /\ new \in E(t)'
      BY <2>3 DEF Gains
    <3>3. Known(o) => KnownNext(o) \/ Awaited(o)
      <4>1. CASE o = Member(t)
        BY <2>3, <3>1, <3>2, <4>1
      <4>2. CASE o # Member(t)
        BY <1>0, <2>1, <2>3, <4>2
      <4> QED
        BY <4>1, <4>2
    <3>4. \A u \in Threads, f \in Entries : Has(u, f) => Held(u, f)
      BY <2>1, <3>2
    <3> QED
      BY <1>2, <2>1, <3>3, <3>4
  <2> QED
    BY <1>12, <2>2, <2>3, ThreadChangeLists
<1>13. ASSUME NEW t \in Threads, MoveEvent(t) PROVE Goal
  <2>1. UNCHANGED <<timer, registered, threadData, handled>>
    BY <1>13 DEF MoveEvent, timerVars
  <2>2. pc[t] = "move" /\ target[t] \in Threads \ {t}
    BY <1>0, <1>13 DEF MoveEvent, Places, Moving
  <2>3. PICK e \in E(t) : Passes(t, target[t], e)
    BY <1>13, <2>2, MoveEventLists
  <2>4. ASSUME NEW u \in Threads, NEW f \in E(u)
        PROVE  \E w \in Threads : f \in E(w)'
    <3>1. CASE u = t /\ f = e
      BY <2>2, <2>3, <3>1 DEF Passes
    <3>2. CASE ~(u = t /\ f = e)
      BY <2>3, <3>2 DEF Passes
    <3> QED
      BY <3>1, <3>2
  <2>5. \A u \in Threads : E(u) \subseteq UNION {E(w)' : w \in Threads}
    BY <2>4
  <2> QED
    BY <1>3, <2>1, <2>5
<1>14. ASSUME NEW t \in Threads, LoopOrUser(t) PROVE Goal
  <2>1. SameEvents
    <3>1. CASE EnterSend(t)
      BY <3>1, EnterSendLists
    <3>2. CASE ~EnterSend(t)
      BY <1>14, <3>2 DEF LoopOrUser, Start, Poll, Select, TimerEvent, StartTimer,
                         KillTimer, listVars, SameEvents, E
    <3> QED
      BY <3>1, <3>2
  <2>2. CASE UNCHANGED <<timer, registered, threadData, handled>>
    BY <1>4, <2>1, <2>2
  <2>3. ASSUME NEW r \in Timers, TimerEvent(t, r) PROVE Goal
    <3>1. /\ UNCHANGED <<timer, registered, threadData>> /\ pc[t] = "select"
          /\ \A u \in Threads : u # t => handled'[u] = handled[u]
      BY <2>3 DEF TimerEvent, timerVars
    <3>2. handled[t].type # "MetaCall"
      BY <3>1 DEF Registrations, Calls
    <3>3. \A u \in Threads, f \in Entries :
              Has(u, f) /\ f.type = "MetaCall" => Held(u, f)
      BY <2>1, <3>1, <3>2 DEF SameEvents
    <3> QED
      BY <1>2, <3>1, <3>3
  <2>4. ASSUME NEW r \in Timers, StartTimer(t, r) \/ KillTimer(t, r) PROVE Goal
    <3>1. UNCHANGED <<threadData, handled>> /\ threadData[r] = t /\ r \in Receivers
      BY <2>4, MoveToThreadAssumption DEF StartTimer, KillTimer
    <3>2. \A u \in Threads, f \in Entries : Has(u, f) => Held(u, f)
      BY <2>1, <3>1 DEF SameEvents
    <3>3. CASE o = r
      <4>1. StartTimer(t, r)
        BY <1>0, <2>4, <3>1, <3>3 DEF KillTimer
      <4> QED
        BY <1>0, <3>1, <3>3, <4>1 DEF StartTimer
    <3>4. CASE o # r
      <4>1. timer'[o] = timer[o] /\ (Known(o) => KnownNext(o))
        BY <1>0, <2>4, <3>1, <3>4 DEF StartTimer, KillTimer
      <4> QED
        BY <1>2, <3>2, <4>1
    <3> QED
      BY <3>3, <3>4
  <2>5. \/ UNCHANGED <<timer, registered, threadData, handled>>
        \/ \E r \in Timers : \/ TimerEvent(t, r)
                             \/ StartTimer(t, r) \/ KillTimer(t, r)
    BY <1>14 DEF LoopOrUser, Start, EnterSend, Poll, Select, timerVars
  <2> QED
    BY <2>2, <2>3, <2>4, <2>5
<1> QED
  BY Steps, <1>5, <1>6, <1>7, <1>8, <1>9, <1>10, <1>11, <1>12, <1>13, <1>14

-----------------------------------------------------------------------------
\* The theorems.

LEMMA InitIInv == Init => IInv
<1> SUFFICES ASSUME Init PROVE IInv
  OBVIOUS
<1>1. /\ \A t \in Threads : /\ lists[t] = <<>> /\ E(t) = {} /\ ~Moving(t)
                            /\ startOffset[t] = 0 /\ insertionOffset[t] = 0
                            /\ pc[t] \in {"handler", "off"} /\ registered[t] = {}
                            /\ done[t] = 0 /\ handled[t] = Nulled(TimerEntry(App))
      /\ threadData = Home /\ timer = [o \in Receivers |-> "none"]
  BY DEF Init, E, LiveEntries, Live, Moving
<1>2. TypeOK
  BY EntryTypes, MoveToThreadAssumption, ReceiversAssumption
     DEF Init, TypeOK
<1>3. Lists
  <2>1. <<>> \in Seq(Entries) /\ Len(<<>>) = 0
    OBVIOUS
  <2>2. Live(<<>>) = {} /\ SortedFrom(<<>>, 0)
    BY <2>1 DEF Live, SortedFrom
  <2>3. GoodList(<<>>, 0, 0)
    BY <2>1, <2>2 DEF GoodList, WellOrdered
  <2> QED
    BY <1>1, <2>3 DEF Lists
<1>4. Places
  BY <1>1 DEF Places, Moving
<1>5. Families
  <2>1. \A o \in DOMAIN Members : Together(o)
    <3> SUFFICES ASSUME NEW o \in DOMAIN Members, NEW k \in 1..Len(Members[o])
                 PROVE  Home[Members[o][k]] = Home[o]
      BY <1>1 DEF Together
    <3> QED
      BY FamiliesAssumption
  <2>2. \A t \in Threads : Carries(t)
    BY <1>1 DEF Carries, Moving
  <2> QED
    BY <2>1, <2>2 DEF Families
<1>6. Registrations
  BY <1>1, EntryTypes DEF Registrations, Knows, Forgets, Calls
<1>7. Names /\ EventsFollowReceiver
  BY <1>1 DEF Names, EventsFollowReceiver, E
<1>8. OldFirst /\ Registering
  BY <1>1 DEF OldFirst, Registering, Moving
<1>9. Handlers
  <2>1. \A t \in Threads :
            E(t) = {} /\ handled[t].event = 0 /\ handled[t].type = "Plain"
    BY <1>1 DEF Nulled, TimerEntry
  <2> QED
    BY <2>1 DEF Handlers, IsLive
<1> QED
  BY <1>2, <1>3, <1>4, <1>5, <1>6, <1>7, <1>8, <1>9 DEF IInv

LEMMA StepIInv == IInv /\ [Next]_vars => IInv'
BY TypeStep, ListsStep, PlacesStep, FamiliesStep, RegistrationsStep, NamesStep,
   OldFirstStep, FollowStep, RegisteringStep, HandlersStep DEF IInv

LEMMA Invariance == Spec => []IInv
BY InitIInv, StepIInv, PTL DEF Spec

\* Every variable keeps its type: an insertion never leaves the list, an index
\* never runs past the family that is moved.
THEOREM TypeCorrect == Spec => []TypeOK
<1>1. IInv => TypeOK
  BY DEF IInv
<1> QED
  BY Invariance, <1>1, PTL

\* However many threads post to objects that any number of other threads move,
\* an event is in the list of the thread its receiver lives in, or with the
\* thread that is moving the receiver (setThreadData_helper, postEvent).
THEOREM EventsAreFollowing == Spec => []EventsFollowReceiver
<1>1. IInv => EventsFollowReceiver
  BY DEF IInv
<1> QED
  BY Invariance, <1>1, PTL

\* The timers of an object and of its children go with them: no dispatcher
\* knows one of an object that lives elsewhere, and a running one is known, or
\* the queued call of _q_reregisterTimers is on its way (QObject::event).
THEOREM TimersAreFollowing == Spec => []TimersFollow
<1>1. IInv => TimersFollow
  <2> SUFFICES ASSUME IInv PROVE TimersFollow
    OBVIOUS
  <2>1. ASSUME NEW t \in Threads, NEW o \in registered[t]
        PROVE  threadData[o] = t /\ ~Underway(t, o)
    <3>1. threadData[o] = t
      BY DEF IInv, Registrations, Knows
    <3>2. ~Underway(t, o)
      <4> SUFFICES ASSUME pc[t] = "move", ~AllDone(t), Member(t) = o PROVE FALSE
        BY DEF Underway
      <4>1. Moving(t)
        BY DEF Moving
      <4>2. done[t] + 1 \in 1..Len(Family(t)) /\ Member(t) = Family(t)[done[t] + 1]
        BY <4>1, MemberFacts DEF IInv
      <4> QED
        BY <4>1, <4>2 DEF IInv, Registrations, Forgets
    <3> QED
      BY <3>1, <3>2
  <2>2. \A o \in Receivers :
            timer[o] = "running" => o \in registered[threadData[o]] \/ ToRegister(o)
    BY DEF IInv, Registering
  <2> QED
    BY <2>1, <2>2 DEF TimersFollow
<1> QED
  BY Invariance, <1>1, PTL

-----------------------------------------------------------------------------
\* The lists of all threads are one queue (module EventQueue).

\* The queue, and the events that are handled.
Abs(e) == Abstracted(e)
Pending == UNION {{Abs(e) : e \in E(t)} : t \in Threads}
Handling == {Abs(handled[t]) : t \in {u \in Threads : IsLive(handled[u])}}

LEMMA PendingEvents ==
    /\ \A x : x \in Pending <=> \E t \in Threads : \E e \in E(t) : x = Abs(e)
    /\ \A x : x \in Pending' <=> \E t \in Threads : \E e \in E(t)' : x = Abs(e)
BY DEF Pending, E

\* What is sent is the oldest of its kind in all lists: the others for its
\* receiver are in the same one, since nobody moves it meanwhile.
LEMMA SentIsFirst ==
    ASSUME IInv, NEW t \in Threads, NEW e \in E(t), Sends(t, e),
           NEW u \in Threads, NEW f \in E(u), SameKind(e, f)
    PROVE  e.event <= f.event
<1>1. threadData[e.receiver] = t /\ f.receiver = e.receiver /\ pc[t] = "send"
  BY DeliveredAtHome DEF IInv, Sends, SameKind
<1>2. u = t
  <2>1. \/ threadData[f.receiver] = u
        \/ \E v \in Threads : Underway(v, f.receiver)
    BY DEF IInv, EventsFollowReceiver, E
  <2>2. ASSUME NEW v \in Threads, Underway(v, f.receiver) PROVE FALSE
    <3>1. pc[v] = "move" /\ ~AllDone(v) /\ Member(v) = f.receiver
      BY <2>2 DEF Underway
    <3>2. threadData[f.receiver] = v
      BY <3>1, CurrentMember DEF IInv
    <3> QED
      BY <1>1, <3>1, <3>2
  <2> QED
    BY <1>1, <2>1, <2>2
<1> QED
  BY <1>2 DEF Sends

LEMMA QueueInit == Init => Queue!Init
<1> SUFFICES ASSUME Init PROVE Pending = {} /\ Handling = {} /\ lastEvent = 0
  BY DEF Queue!Init, Pending, Handling, Abs, E
<1>1. \A t \in Threads : E(t) = {}
  BY DEF Init, E, LiveEntries, Live
<1>2. Pending = {} /\ lastEvent = 0
  BY <1>1, PendingEvents DEF Init
<1>3. Handling = {}
  <2>1. \A t \in Threads : handled[t].event = 0
    BY DEF Init, Nulled, TimerEntry
  <2> QED
    BY <2>1 DEF Handling, IsLive
<1> QED
  BY <1>2, <1>3

QueueVars == <<Pending, Handling, lastEvent, Receivers>>

LEMMA QueueStep ==
    ASSUME IInv, [Next]_vars
    PROVE  [Queue!Next]_QueueVars
<1>0. /\ \A t \in Threads : \A e \in E(t) : e \in Entries /\ IsLive(e)
      /\ lastEvent \in Nat /\ handled \in [Threads -> Entries]
  BY ListFacts DEF IInv, TypeOK
<1>h. \A x : x \in Handling' <=> \E t \in Threads : IsLive(handled'[t]) /\ x = Abs(handled'[t])
  BY DEF Handling, Abs, Abstracted
<1>1. ASSUME SameEvents PROVE Pending' = Pending
  BY <1>1, PendingEvents DEF SameEvents
<1>2. ASSUME Quiet PROVE Handling' = Handling
  BY <1>2, <1>h DEF Quiet, Handling
<1>3. ASSUME NEW t \in Threads, NEW e \in Entries, Queues(t, e), Handling' = Handling
      PROVE  Queue!Next
  <2>1. /\ e.receiver \in Receivers /\ e.type \in EventTypes
        /\ e.priority \in Priorities
        /\ e.event = lastEvent + 1 /\ lastEvent' = lastEvent + 1
    BY <1>3 DEF Queues, Entries
  <2>2. Pending' = Pending \cup {Abs(e)}
    BY <1>3, PendingEvents DEF Queues, Gains
  <2>3. Abs(e) = Queue!Event(lastEvent + 1, e.receiver, e.type, e.priority)
    BY <2>1 DEF Abs, Abstracted, Queue!Event
  <2>4. Queue!Post(e.receiver, e.type, e.priority)
    BY <1>3, <2>1, <2>2, <2>3 DEF Queue!Post, Pending, Handling, Abs, E
  <2> QED
    BY <2>1, <2>4 DEF Queue!Next
<1>4. ASSUME NEW t \in Threads, NEW e \in E(t), Sends(t, e)
      PROVE  Queue!Next
  <2>1. Abs(e) \in Pending /\ e.receiver \in Receivers /\ lastEvent' = lastEvent
    BY <1>0, <1>4, PendingEvents DEF Entries, Sends
  <2>2. Pending' = Pending \ {Abs(e)}
    <3>1. \A u \in Threads : E(u)' = IF u = t THEN E(t) \ {e} ELSE E(u)
      BY <1>4 DEF Sends, Loses
    <3>2. \A u \in Threads : \A f \in E(u) : Abs(f) = Abs(e) => u = t /\ f = e
      BY DEF Abs, Abstracted, IInv, Names
    <3> QED
      BY <3>1, <3>2, PendingEvents
  <2>3. Handling' = Handling \cup {Abs(e)}
    <3>1. handled' = [handled EXCEPT ![t] = e] /\ ~IsLive(handled[t])
      BY <1>4 DEF Sends, IInv, Handlers, Idle
    <3>2. /\ handled'[t] = e /\ IsLive(e)
          /\ \A u \in Threads : u # t => handled'[u] = handled[u]
      BY <1>0, <3>1
    <3> QED
      BY <1>h, <3>1, <3>2 DEF Handling
  <2>4. ASSUME NEW x \in Pending, x.receiver = e.receiver, x.priority = e.priority
        PROVE  e.event <= x.event
    <3>1. PICK u \in Threads : \E f \in E(u) : x = Abs(f)
      BY PendingEvents
    <3>2. PICK f \in E(u) : x = Abs(f)
      BY <3>1
    <3>3. SameKind(e, f) /\ x.event = f.event
      BY <2>4, <3>2 DEF SameKind, Abs, Abstracted, IInv, Handlers
    <3> QED
      BY <1>4, <3>3, SentIsFirst
  <2>5. Abs(e).receiver = e.receiver /\ Abs(e).priority = e.priority
        /\ Abs(e).event = e.event
    BY DEF Abs, Abstracted
  <2>6. Queue!Oldest(Abs(e))
    BY <2>4, <2>5 DEF Queue!Oldest, Pending, Abs, E
  <2>7. Queue!Take(Abs(e))
    BY <2>1, <2>2, <2>3, <2>5 DEF Queue!Take, Pending, Handling, Abs, E
  <2>8. Queue!Send(Abs(e))
    BY <2>6, <2>7 DEF Queue!Send
  <2> QED
    BY <2>1, <2>8 DEF Queue!Next, Pending, Abs, E
<1>5. ASSUME NEW t \in Threads, NEW e \in E(t), Hands(t, e)
      PROVE  Pending' = Pending /\ lastEvent' = lastEvent
  <2>1. /\ lastEvent' = lastEvent /\ target[t] \in Threads \ {t}
        /\ \A u \in Threads : E(u)' = IF u = t THEN E(t) \ {e}
                              ELSE IF u = target[t] THEN E(u) \cup {e} ELSE E(u)
    BY <1>5 DEF Hands, Passes, IInv, TypeOK, Places, Moving
  <2>2. ASSUME NEW x PROVE x \in Pending' <=> x \in Pending
    <3>1. ASSUME NEW u \in Threads, NEW f \in E(u)', x = Abs(f) PROVE x \in Pending
      BY <2>1, <3>1, PendingEvents
    <3>2. ASSUME NEW u \in Threads, NEW f \in E(u), x = Abs(f) PROVE x \in Pending'
      <4>1. CASE u = t /\ f = e
        BY <2>1, <3>2, <4>1, PendingEvents
      <4>2. CASE ~(u = t /\ f = e)
        BY <2>1, <3>2, <4>2, PendingEvents
      <4> QED
        BY <4>1, <4>2
    <3> QED
      BY <3>1, <3>2, PendingEvents
  <2> QED
    BY <2>1, <2>2
<1>6. ASSUME NEW t \in Threads, Returns(t)
      PROVE  [Queue!Next]_QueueVars
  <2>1. Pending' = Pending /\ lastEvent' = lastEvent
    BY <1>1, <1>6 DEF Returns
  <2>2. /\ ~IsLive(handled'[t])
        /\ \A u \in Threads : u # t => handled'[u] = handled[u]
    BY <1>0, <1>6, EntryTypes DEF Returns, IsLive, Nulled
  <2>3. CASE ~IsLive(handled[t])
    <3>1. Handling' = Handling
      BY <1>h, <2>2, <2>3 DEF Handling
    <3> QED
      BY <2>1, <3>1 DEF QueueVars
  <2>4. CASE IsLive(handled[t])
    <3>1. /\ Abs(handled[t]) \in Handling
          /\ Abs(handled[t]).type # "DeferredDelete"
      BY <2>4 DEF Handling, Abs, Abstracted, IInv, Handlers
    <3>2. \A u \in Threads : Abs(handled[u]) = Abs(handled[t]) => u = t
      BY <2>4 DEF Abs, Abstracted, IInv, Handlers
    <3>3. Handling' = Handling \ {Abs(handled[t])}
      BY <1>h, <2>2, <3>2 DEF Handling
    <3>4. Queue!Return(Abs(handled[t]))
      BY <2>1, <3>1, <3>3 DEF Queue!Return, Pending, Handling, Abs, E
    <3> QED
      BY <3>1, <3>4 DEF Queue!Next, Handling, Abs
  <2> QED
    BY <2>3, <2>4
<1>7. ASSUME Quiet, NEW t \in Threads, NEW e \in E(t) PROVE ~Sends(t, e)
  <2> SUFFICES ASSUME Sends(t, e) PROVE FALSE
    OBVIOUS
  <2>1. handled'[t] = e /\ IsLive(e) /\ ~IsLive(handled[t])
    BY <1>0 DEF Sends, IInv, Handlers, Idle
  <2> QED
    BY <1>7, <2>1 DEF Quiet
<1>8. ASSUME Quiet PROVE [Queue!Next]_QueueVars
  <2>1. \/ Keeps
        \/ \E t \in Threads, e \in Entries : Queues(t, e)
        \/ \E t \in Threads : \E e \in E(t) : Hands(t, e)
        \/ SameEvents /\ UNCHANGED lastEvent
    BY EventSteps, <1>7, <1>8 DEF IInv
  <2>2. ASSUME SameEvents, UNCHANGED lastEvent PROVE UNCHANGED QueueVars
    BY <1>1, <1>2, <1>8, <2>2 DEF QueueVars
  <2>3. ASSUME NEW t \in Threads, NEW e \in E(t), Hands(t, e) PROVE UNCHANGED QueueVars
    BY <1>2, <1>5, <1>8, <2>3 DEF QueueVars
  <2> QED
    BY <2>1, <2>2, <2>3, <1>2, <1>3, <1>8 DEF Keeps
<1> QED
  BY HandlerSteps, <1>4, <1>6, <1>8 DEF IInv

\* The lists of all threads are one queue to whoever posts: each event leaves
\* it once, when its handler is entered, and after the older ones its receiver
\* was posted with the same priority; none is lost or sent again, however often
\* its receiver moves (postEvent, setThreadData_helper, sendPostedEvents).
THEOREM Implementation == Spec => ImplementsQueue
<1>1. Init => Queue!Init
  BY QueueInit
<1>2. IInv /\ [Next]_vars => [Queue!Next]_QueueVars
  BY QueueStep
<1> QED
  BY <1>1, <1>2, Invariance, PTL
     DEF ImplementsQueue, Queue!Spec, Spec, QueueVars, Pending, Handling, Abs, E
=============================================================================
