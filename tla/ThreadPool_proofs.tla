------------------------- MODULE ThreadPool_proofs -------------------------
(***************************************************************************)
(* Proofs about ThreadPool, for any runnables, any finite set of pool      *)
(* threads and any priorities and limits: no runnable is deleted while it  *)
(* is in use and waitForDone waits for all of them; and its two ways of    *)
(* counting the active threads agree until somebody starts a runnable, or  *)
(* begins another waitForDone(), while reset() removes the threads.  Any   *)
(* number of threads uses the pool, and some of them wait for it.          *)
(***************************************************************************)
EXTENDS ThreadPool, FiniteSetTheorems, FunctionTheorems, SequenceTheorems, TLAPS

PCs == {"none", "begin", "task", "idle", "woken", "done", "finish", "ended"}
Over == {"done", "finish", "ended"}
Entries == [task : Tasks, priority : Int]

\* The variables have their types; a thread that begins or runs has a runnable,
\* and a client that joins a thread has one to join.
TypeOK ==
    /\ queue \in Seq(Entries) /\ allThreads \in SUBSET Workers
    /\ waitingThreads \in Seq(Workers) /\ expiredThreads \in Seq(Workers)
    /\ activeThreads \in Int /\ reservedThreads \in Int
    /\ maxThreadCount \in Int /\ isExiting \in BOOLEAN /\ more \in BOOLEAN
    /\ runnable \in [Workers -> Tasks \cup {NoTask}] /\ pc \in [Workers -> PCs]
    /\ current \in [Workers -> Tasks \cup {NoTask}]
    /\ ref \in [Tasks -> Int] /\ deleted \subseteq Tasks
    /\ starts \in [Tasks -> Nat]
    /\ at \in [Clients -> {"free", "checks", "asleep", "reset", "again",
                           "joins", "joining"}]
    /\ copy \in [Clients -> SUBSET Workers]
    /\ join \in [Clients -> Workers \cup {NoWorker}]
    /\ \A w \in Workers : /\ pc[w] = "begin" => runnable[w] # NoTask
                          /\ pc[w] = "task" => current[w] # NoTask
    /\ \A c \in Clients : at[c] = "joining" => join[c] \in copy[c]

\* Where the pool has a runnable: in the queue, and with its threads.
Waiting(q, t) == Cardinality({i \in 1..Len(q) : q[i].task = t})
Holders == [Workers -> Tasks \cup {NoTask}]
Holding(f, t) == Cardinality({w \in Workers : f[w] = t})
Uses(t) == Waiting(queue, t) + Holding(runnable, t) + Holding(current, t)

\* Every place that will run a runnable has a reference to it.  One that was
\* never started is nowhere, and one that was deleted has no references.
RefInv ==
    /\ \A t \in Tasks : Uses(t) <= ref[t]
    /\ \A t \in Tasks : starts[t] = 0 => t \notin deleted /\ Uses(t) = 0
    /\ \A t \in deleted : ref[t] <= 0

-----------------------------------------------------------------------------
\* Counting.

One(b) == IF b THEN 1 ELSE 0
Same(x, y) == IF x = y THEN 1 ELSE 0

\* Sets of pool threads are finite.
LEMMA WorkersCount ==
    ASSUME NEW S \in SUBSET Workers
    PROVE  /\ IsFiniteSet(S) /\ Cardinality(S) \in Nat
           /\ Cardinality(S) = 0 <=> S = {}
<1>1. IsFiniteSet(S)
  BY ConstantsAssumption, FS_Subset
<1> QED
  BY <1>1, FS_CardinalityType, FS_EmptySet

\* How the size of a set changes when one thread enters or leaves it.
LEMMA OneMoves ==
    ASSUME NEW S \in SUBSET Workers, NEW T \in SUBSET Workers,
           NEW w \in Workers,
           \A v \in Workers \ {w} : v \in S <=> v \in T
    PROVE  Cardinality(T) = Cardinality(S) + One(w \in T) - One(w \in S)
<1> USE DEF One
<1>1. Cardinality(S) \in Nat /\ IsFiniteSet(S)
  BY WorkersCount
<1>2. CASE w \in S <=> w \in T
  <2>1. S = T
    BY <1>2
  <2> QED
    BY <1>1, <1>2, <2>1
<1>3. CASE w \in T /\ w \notin S
  <2>1. T = S \cup {w}
    BY <1>3
  <2> QED
    BY <1>1, <1>3, <2>1, FS_AddElement
<1>4. CASE w \in S /\ w \notin T
  <2>1. T = S \ {w}
    BY <1>4
  <2> QED
    BY <1>1, <1>4, <2>1, FS_RemoveElement
<1> QED
  BY <1>2, <1>3, <1>4

\* A thread that gets another runnable, or none.
LEMMA HoldingChanged ==
    ASSUME NEW f \in Holders, NEW g \in Holders, NEW w \in Workers, NEW t,
           \A x \in Workers \ {w} : g[x] = f[x]
    PROVE  /\ Holding(f, t) \in Nat /\ Holding(g, t) \in Nat
           /\ Holding(g, t) = Holding(f, t) + Same(g[w], t) - Same(f[w], t)
<1> DEFINE S == {x \in Workers : f[x] = t}
           T == {x \in Workers : g[x] = t}
<1>1. /\ w \in T <=> g[w] = t
      /\ w \in S <=> f[w] = t
      /\ \A x \in Workers \ {w} : x \in S <=> x \in T
  OBVIOUS
<1>2. S \in SUBSET Workers /\ T \in SUBSET Workers
  OBVIOUS
<1>3. Cardinality(S) \in Nat /\ Cardinality(T) \in Nat
  BY <1>2, WorkersCount
<1> HIDE DEF S, T
<1>4. Cardinality(T) = Cardinality(S) + One(w \in T) - One(w \in S)
  BY <1>1, <1>2, OneMoves
<1>5. One(w \in T) = Same(g[w], t) /\ One(w \in S) = Same(f[w], t)
  BY <1>1 DEF One, Same
<1> QED
  BY <1>3, <1>4, <1>5 DEF Holding, S, T

\* Entries of the queue are finitely many.
LEMMA EntriesCount ==
    ASSUME NEW q \in Seq(Entries), NEW t
    PROVE  /\ Len(q) \in Nat /\ IsFiniteSet({i \in 1..Len(q) : q[i].task = t})
           /\ Waiting(q, t) \in Nat
           /\ Waiting(q, t) = 0 <=> \A i \in 1..Len(q) : q[i].task # t
<1> DEFINE S == {i \in 1..Len(q) : q[i].task = t}
<1>1. Len(q) \in Nat
  OBVIOUS
<1>2. IsFiniteSet(1..Len(q))
  <2>1. \A m \in Nat : IsFiniteSet(1..m)
    BY FS_Interval
  <2> QED
    BY <1>1, <2>1
<1>3. IsFiniteSet(S)
  BY <1>2, FS_Subset
<1>4. Cardinality(S) \in Nat /\ (Cardinality(S) = 0 <=> S = {})
  BY <1>3, FS_CardinalityType, FS_EmptySet
<1> QED
  BY <1>1, <1>3, <1>4 DEF Waiting

\* r is q with one more entry, behind the first n.
Longer(q, r, n) ==
    /\ n \in 0..Len(q) /\ Len(r) = Len(q) + 1
    /\ \A i \in 1..n : r[i] = q[i]
    /\ \A i \in (n + 1)..Len(q) : r[i + 1] = q[i]

LEMMA OneMoreEntry ==
    ASSUME NEW q \in Seq(Entries), NEW r \in Seq(Entries), NEW n \in Nat,
           Longer(q, r, n), NEW t
    PROVE  Waiting(r, t) = Waiting(q, t) + Same(r[n + 1].task, t)
<1> DEFINE S == {i \in 1..Len(q) : q[i].task = t}
           T == {i \in 1..Len(r) : r[i].task = t}
           U == T \ {n + 1}
           f == [i \in S |-> IF i <= n THEN i ELSE i + 1]
<1>1. Len(q) \in Nat /\ Len(r) = Len(q) + 1 /\ n <= Len(q)
  BY DEF Longer
<1>2. IsFiniteSet(S) /\ IsFiniteSet(T)
  BY EntriesCount
<1>3. f \in Bijection(S, U)
  <2>1. \A i \in S : f[i] \in U
    BY <1>1 DEF Longer
  <2>2. \A j \in U : \E i \in S : f[i] = j
    <3>1. ASSUME NEW j \in U PROVE \E i \in S : f[i] = j
      <4>1. j \in 1..Len(r) /\ r[j].task = t /\ j # n + 1
        OBVIOUS
      <4>2. CASE j <= n
        <5>1. j \in S /\ f[j] = j
          BY <1>1, <4>1, <4>2 DEF Longer
        <5> QED
          BY <5>1
      <4>3. CASE j > n + 1
        <5>1. j - 1 \in (n + 1)..Len(q) /\ (j - 1) + 1 = j
          BY <1>1, <4>1, <4>3
        <5>2. r[j] = q[j - 1]
          BY <5>1 DEF Longer
        <5>3. j - 1 \in S /\ f[j - 1] = j
          BY <1>1, <4>1, <4>3, <5>1, <5>2
        <5> QED
          BY <5>3
      <4>4. j <= n \/ j > n + 1
        BY <1>1, <4>1
      <4> HIDE DEF f, S
      <4> QED
        BY <4>2, <4>3, <4>4
    <3> QED
      BY <3>1
  <2>3. \A i, j \in S : f[i] = f[j] => i = j
    BY <1>1
  <2>4. f \in [S -> U]
    BY <2>1
  <2> HIDE DEF f, S, U
  <2> QED
    BY <2>2, <2>3, <2>4, Fun_IsBij
<1>4. Cardinality(U) = Cardinality(S)
  <2> HIDE DEF f, S, T, U
  <2>1. ExistsBijection(S, U)
    BY <1>3, Fun_ExistsBij
  <2> QED
    BY <1>2, <2>1, FS_Bijection
<1>5. Cardinality(S) \in Nat /\ Cardinality(T) \in Nat
  BY <1>2, FS_CardinalityType
<1>6. n + 1 \in 1..Len(r)
  BY <1>1
<1>7. CASE r[n + 1].task = t
  <2>1. n + 1 \in T
    BY <1>6, <1>7
  <2>2. Cardinality(T \ {n + 1}) = Cardinality(T) - 1
    <3> HIDE DEF T
    <3> QED
      BY <1>2, <2>1, FS_RemoveElement
  <2> QED
    BY <1>4, <1>5, <1>7, <2>2 DEF Waiting, Same
<1>8. CASE r[n + 1].task # t
  <2>1. U = T
    <3>1. n + 1 \notin T
      BY <1>8
    <3> HIDE DEF T
    <3> QED
      BY <3>1
  <2>2. Cardinality(T) = Cardinality(S) + 0
    <3> HIDE DEF S, T, U
    <3> QED
      BY <1>4, <1>5, <2>1
  <2>3. Same(r[n + 1].task, t) = 0
    BY <1>8 DEF Same
  <2> QED
    BY <2>2, <2>3 DEF Waiting
<1> QED
  BY <1>7, <1>8

\* The queue without its first entry.
LEMMA FirstRemoved ==
    ASSUME NEW q \in Seq(Entries), q # <<>>
    PROVE  /\ Tail(q) \in Seq(Entries) /\ Head(q) = q[1] /\ Head(q) \in Entries
           /\ \A t : Waiting(Tail(q), t) = Waiting(q, t) - Same(Head(q).task, t)
<1>1. /\ Len(q) \in Nat /\ Len(q) >= 1 /\ Tail(q) \in Seq(Entries)
      /\ Head(q) = q[1] /\ q[1] \in Entries
      /\ Len(Tail(q)) = Len(q) - 1
      /\ \A i \in 1..(Len(q) - 1) : Tail(q)[i] = q[i + 1]
  OBVIOUS
<1>2. Longer(Tail(q), q, 0)
  BY <1>1 DEF Longer
<1>3. ASSUME NEW t
      PROVE  Waiting(Tail(q), t) = Waiting(q, t) - Same(Head(q).task, t)
  <2> DEFINE s == Tail(q)
  <2>1. s \in Seq(Entries) /\ Longer(s, q, 0) /\ Waiting(s, t) \in Nat
    BY <1>1, <1>2, EntriesCount
  <2> HIDE DEF s
  <2>2. Waiting(q, t) = Waiting(s, t) + Same(q[0 + 1].task, t)
    BY <2>1, OneMoreEntry
  <2>3. Waiting(s, t) = Waiting(q, t) - Same(Head(q).task, t)
    BY <1>1, <2>1, <2>2 DEF Same
  <2> QED
    BY <2>3 DEF s
<1> QED
  BY <1>1, <1>3

\* An element between two sequences.
LEMMA Between ==
    ASSUME NEW a \in Seq(Entries), NEW b \in Seq(Entries), NEW e \in Entries
    PROVE  /\ a \o <<e>> \o b \in Seq(Entries)
           /\ Len(a \o <<e>> \o b) = Len(a) + Len(b) + 1
           /\ (a \o <<e>> \o b)[Len(a) + 1] = e
           /\ \A i \in 1..Len(a) : (a \o <<e>> \o b)[i] = a[i]
           /\ \A i \in 1..Len(b) : (a \o <<e>> \o b)[Len(a) + 1 + i] = b[i]
<1> DEFINE c == a \o <<e>>
           n == Len(a)
           m == Len(b)
<1>1. n \in Nat /\ m \in Nat
  OBVIOUS
<1>2. /\ c \in Seq(Entries) /\ Len(c) = n + 1 /\ c[n + 1] = e
      /\ \A i \in 1..n : c[i] = a[i]
  OBVIOUS
<1> HIDE DEF c
<1>3. c \o b \in Seq(Entries) /\ Len(c \o b) = n + 1 + m
  BY <1>2
<1>4. /\ \A i \in 1..(n + 1) : (c \o b)[i] = c[i]
      /\ \A i \in 1..m : (c \o b)[n + 1 + i] = b[i]
  BY <1>2
<1>5. (c \o b)[n + 1] = e /\ \A i \in 1..n : (c \o b)[i] = a[i]
  BY <1>1, <1>2, <1>4
<1> QED
  BY <1>1, <1>3, <1>4, <1>5 DEF c

\* enqueueTask.
LEMMA Inserted ==
    ASSUME NEW q \in Seq(Entries), NEW t \in Tasks, NEW p \in Int
    PROVE  /\ Insert(q, t, p) \in Seq(Entries)
           /\ Len(Insert(q, t, p)) = Len(q) + 1
           /\ \A u : Waiting(Insert(q, t, p), u) = Waiting(q, u) + Same(t, u)
           /\ q # <<>> => \/ Head(Insert(q, t, p)) = Head(q)
                          \/ Head(Insert(q, t, p)).task = t
<1> DEFINE S == {i \in DOMAIN q : q[i].priority >= p}
           n == Cardinality(S)
           e == [task |-> t, priority |-> p]
           r == SubSeq(q, 1, n) \o <<e>> \o SubSeq(q, n + 1, Len(q))
<1>1. Len(q) \in Nat /\ DOMAIN q = 1..Len(q)
  OBVIOUS
<1>2. n \in 0..Len(q)
  <2>1. \A m \in Nat : IsFiniteSet(1..m) /\ Cardinality(1..m) = m
    BY FS_Interval
  <2>2. IsFiniteSet(1..Len(q)) /\ Cardinality(1..Len(q)) = Len(q)
    BY <1>1, <2>1
  <2>3. S \subseteq 1..Len(q)
    BY <1>1
  <2>4. IsFiniteSet(S) /\ Cardinality(S) <= Len(q)
    <3> HIDE DEF S
    <3> QED
      BY <2>2, <2>3, FS_Subset
  <2>5. Cardinality(S) \in Nat
    BY <2>4, FS_CardinalityType
  <2> QED
    BY <1>1, <2>4, <2>5
<1> HIDE DEF n
<1>3. e \in Entries
  BY DEF Entries
<1> DEFINE a == SubSeq(q, 1, n)
           b == SubSeq(q, n + 1, Len(q))
<1>4. /\ a \in Seq(Entries) /\ Len(a) = n /\ \A i \in 1..n : a[i] = q[i]
  <2>1. \A i \in 1..n : q[i] \in Entries
    BY <1>1, <1>2
  <2>2. /\ a \in Seq(Entries)
        /\ Len(a) = IF 1 <= n THEN n - 1 + 1 ELSE 0
        /\ \A i \in 1..(n - 1 + 1) : a[i] = q[1 + i - 1]
    BY <2>1, <1>2, SubSeqProperties
  <2> HIDE DEF a
  <2> QED
    BY <1>2, <2>2
<1>5. /\ b \in Seq(Entries) /\ Len(b) = Len(q) - n
      /\ \A i \in 1..(Len(q) - n) : b[i] = q[n + i]
  <2> DEFINE m == n + 1
             l == Len(q)
  <2>1. m \in Int /\ l \in Int /\ \A i \in m..l : q[i] \in Entries
    BY <1>1, <1>2
  <2> HIDE DEF m, l
  <2>2. LET c == SubSeq(q, m, l)
        IN  /\ c \in Seq(Entries) /\ Len(c) = IF m <= l THEN l - m + 1 ELSE 0
            /\ \A i \in 1..(l - m + 1) : c[i] = q[m + i - 1]
    BY <2>1, SubSeqProperties
  <2>3. /\ b \in Seq(Entries) /\ Len(b) = IF m <= l THEN l - m + 1 ELSE 0
        /\ \A i \in 1..(l - m + 1) : b[i] = q[m + i - 1]
    BY <2>2 DEF m, l
  <2> HIDE DEF b
  <2>4. Len(b) = Len(q) - n
    <3>1. /\ m = n + 1 /\ l = Len(q) /\ m \in Int /\ l \in Int
          /\ Len(b) = IF m <= l THEN l - m + 1 ELSE 0
      BY <2>1, <2>3 DEF m, l
    <3>2. n \in Int /\ n <= Len(q)
      BY <1>1, <1>2
    <3>3. CASE m <= l
      BY <3>1, <3>2, <3>3
    <3>4. CASE ~(m <= l)
      BY <3>1, <3>2, <3>4
    <3> QED
      BY <3>3, <3>4
  <2>5. ASSUME NEW i \in 1..(Len(q) - n) PROVE b[i] = q[n + i]
    <3>1. i \in 1..(l - m + 1) /\ m + i - 1 = n + i
      BY <1>1, <1>2 DEF m, l
    <3> QED
      BY <2>3, <3>1
  <2> QED
    BY <2>3, <2>4, <2>5
<1>7. /\ a \in Seq(Entries) /\ b \in Seq(Entries)
      /\ Len(a) = n /\ Len(b) = Len(q) - n
      /\ \A i \in 1..n : a[i] = q[i]
      /\ \A i \in 1..(Len(q) - n) : b[i] = q[n + i]
  BY <1>4, <1>5
<1> HIDE DEF a, b, e
<1>8. /\ a \o <<e>> \o b \in Seq(Entries)
      /\ Len(a \o <<e>> \o b) = Len(q) + 1
      /\ (a \o <<e>> \o b)[n + 1] = e
      /\ \A i \in 1..n : (a \o <<e>> \o b)[i] = q[i]
      /\ \A i \in 1..(Len(q) - n) : (a \o <<e>> \o b)[n + 1 + i] = b[i]
  <2>0. /\ a \o <<e>> \o b \in Seq(Entries)
        /\ Len(a \o <<e>> \o b) = Len(a) + Len(b) + 1
        /\ (a \o <<e>> \o b)[Len(a) + 1] = e
        /\ \A i \in 1..Len(a) : (a \o <<e>> \o b)[i] = a[i]
        /\ \A i \in 1..Len(b) : (a \o <<e>> \o b)[Len(a) + 1 + i] = b[i]
    BY <1>3, <1>7, Between
  <2>1. /\ a \o <<e>> \o b \in Seq(Entries)
        /\ Len(a \o <<e>> \o b) = n + (Len(q) - n) + 1
        /\ (a \o <<e>> \o b)[n + 1] = e
        /\ \A i \in 1..n : (a \o <<e>> \o b)[i] = a[i]
        /\ \A i \in 1..(Len(q) - n) : (a \o <<e>> \o b)[n + 1 + i] = b[i]
    BY <1>7, <2>0
  <2>2. n + (Len(q) - n) + 1 = Len(q) + 1
    BY <1>1, <1>2
  <2>3. \A i \in 1..n : (a \o <<e>> \o b)[i] = q[i]
    BY <1>7, <2>1
  <2> QED
    BY <2>1, <2>2, <2>3
<1>9. ASSUME NEW i \in (n + 1)..Len(q)
      PROVE  (a \o <<e>> \o b)[i + 1] = q[i]
  <2> DEFINE j == i - n
  <2>1. j \in 1..(Len(q) - n) /\ n + j = i /\ n + 1 + j = i + 1
    BY <1>1, <1>2
  <2> HIDE DEF j
  <2>2. b[j] = q[i]
    BY <1>7, <2>1
  <2>3. (a \o <<e>> \o b)[n + 1 + j] = b[j]
    BY <1>8, <2>1
  <2> QED
    BY <2>1, <2>2, <2>3
<1>10. r = a \o <<e>> \o b
  BY DEF a, b, e
<1> HIDE DEF r
<1>11. Insert(q, t, p) = r
  BY DEF Insert, r, n, S, e
<1>12. Longer(q, r, n) /\ r \in Seq(Entries) /\ r[n + 1] = e
  BY <1>2, <1>8, <1>9, <1>10 DEF Longer
<1>13. e.task = t
  BY DEF e
<1>14. ASSUME NEW u
       PROVE  Waiting(r, u) = Waiting(q, u) + Same(t, u)
  BY <1>2, <1>12, <1>13, OneMoreEntry
<1>15. r # <<>> /\ Head(r) = r[1]
  BY <1>1, <1>8, <1>10
<1>16. q # <<>> => Head(r) = Head(q) \/ Head(r).task = t
  <2>1. CASE n = 0
    BY <1>12, <1>13, <1>15, <2>1
  <2>2. CASE n # 0
    <3>1. 1 \in 1..n
      BY <1>1, <1>2, <2>2
    <3>2. r[1] = q[1]
      BY <1>8, <1>10, <3>1
    <3>3. q # <<>> => Head(q) = q[1]
      OBVIOUS
    <3> QED
      BY <1>15, <3>2, <3>3
  <2> QED
    BY <2>1, <2>2
<1>17. Len(r) = Len(q) + 1
  BY <1>8, <1>10
<1> QED
  BY <1>11, <1>12, <1>14, <1>16, <1>17

-----------------------------------------------------------------------------
\* Types.

\* A sequence of threads without its first one, and with one more.
LEMMA ThreadSeqs ==
    ASSUME NEW s \in Seq(Workers)
    PROVE  /\ s # <<>> => /\ Head(s) \in Workers /\ Tail(s) \in Seq(Workers)
                          /\ Head(s) = s[1] /\ Len(Tail(s)) = Len(s) - 1
                          /\ \A i \in 1..(Len(s) - 1) : Tail(s)[i] = s[i + 1]
           /\ \A w \in Workers :
                  /\ Append(s, w) \in Seq(Workers)
                  /\ Len(Append(s, w)) = Len(s) + 1
                  /\ Append(s, w)[Len(s) + 1] = w
                  /\ \A i \in 1..Len(s) : Append(s, w)[i] = s[i]
           /\ Len(s) \in Nat /\ DOMAIN s = 1..Len(s)
           /\ \A i \in 1..Len(s) : s[i] \in Workers
  OBVIOUS

\* A sequence of threads without the i-th one.
LEMMA WithoutOne ==
    ASSUME NEW s \in Seq(Workers), NEW i \in 1..Len(s)
    PROVE  /\ Without(s, i) \in Seq(Workers) /\ Len(Without(s, i)) = Len(s) - 1
           /\ \A j \in 1..(i - 1) : Without(s, i)[j] = s[j]
           /\ \A j \in i..(Len(s) - 1) : Without(s, i)[j] = s[j + 1]
<1> DEFINE a == SubSeq(s, 1, i - 1)
           m == i + 1
           l == Len(s)
           b == SubSeq(s, m, l)
<1>1. l \in Nat /\ i \in 1..l /\ \A j \in 1..l : s[j] \in Workers
  OBVIOUS
<1>2. /\ a \in Seq(Workers) /\ Len(a) = i - 1
      /\ \A j \in 1..(i - 1) : a[j] = s[j]
  <2> DEFINE k == i - 1
  <2>1. k \in Nat /\ \A j \in 1..k : s[j] \in Workers
    BY <1>1
  <2> HIDE DEF k
  <2>2. LET c == SubSeq(s, 1, k)
        IN  /\ c \in Seq(Workers) /\ Len(c) = IF 1 <= k THEN k - 1 + 1 ELSE 0
            /\ \A j \in 1..(k - 1 + 1) : c[j] = s[1 + j - 1]
    BY <2>1, SubSeqProperties
  <2>3. LET c == SubSeq(s, 1, k)
        IN  /\ c \in Seq(Workers) /\ Len(c) = k /\ \A j \in 1..k : c[j] = s[j]
    BY <2>1, <2>2
  <2> QED
    BY <2>3 DEF k
<1>3. /\ b \in Seq(Workers) /\ Len(b) = l - i
      /\ \A j \in 1..(l - i) : b[j] = s[i + j]
  <2>1. m \in Int /\ l \in Int /\ m <= l + 1 /\ \A j \in m..l : s[j] \in Workers
    BY <1>1
  <2>2. m = i + 1 /\ i \in Int
    BY <1>1
  <2> HIDE DEF m, l
  <2>3. LET c == SubSeq(s, m, l)
        IN  /\ c \in Seq(Workers) /\ Len(c) = IF m <= l THEN l - m + 1 ELSE 0
            /\ \A j \in 1..(l - m + 1) : c[j] = s[m + j - 1]
    BY <2>1, SubSeqProperties
  <2>4. LET c == SubSeq(s, m, l)
        IN  /\ c \in Seq(Workers) /\ Len(c) = l - m + 1
            /\ \A j \in 1..(l - m + 1) : c[j] = s[m + j - 1]
    BY <2>1, <2>3
  <2>5. l - m + 1 = l - i /\ \A j \in Int : m + j - 1 = i + j
    BY <2>1, <2>2
  <2> QED
    BY <2>1, <2>2, <2>4, <2>5
<1> HIDE DEF a, b
<1>4. Without(s, i) = a \o b
  BY DEF Without, Dropped, a, b
<1>5. /\ a \o b \in Seq(Workers) /\ Len(a \o b) = l - 1
      /\ \A j \in 1..(i - 1) : (a \o b)[j] = s[j]
  BY <1>1, <1>2, <1>3
<1>6. ASSUME NEW j \in i..(l - 1) PROVE (a \o b)[j] = s[j + 1]
  <2>1. /\ j - (i - 1) \in 1..(l - i) /\ i + (j - (i - 1)) = j + 1
        /\ j \in (Len(a) + 1)..(Len(a) + Len(b))
    BY <1>1, <1>2, <1>3
  <2>2. (a \o b)[j] = b[j - Len(a)]
    BY <1>2, <1>3, <2>1
  <2> QED
    BY <1>2, <1>3, <2>1, <2>2
<1> QED
  BY <1>4, <1>5, <1>6

\* Types after tryStart, whose caller removes the first n runnables.
LEMMA TryStartTyped ==
    ASSUME TypeOK, NEW t \in Tasks, NEW n \in {0, 1}, n = 1 => queue # <<>>,
           TryStartTask(t, n)
    PROVE  /\ queue' \in Seq(Entries) /\ allThreads' \in SUBSET Workers
           /\ waitingThreads' \in Seq(Workers)
           /\ expiredThreads' \in Seq(Workers) /\ activeThreads' \in Int
           /\ runnable' \in [Workers -> Tasks \cup {NoTask}]
           /\ pc' \in [Workers -> PCs]
           /\ ref' \in [Tasks -> Int]
           /\ \A w \in Workers : /\ pc'[w] = "begin" => runnable'[w] # NoTask
                                 /\ pc'[w] = "task" => current[w] # NoTask
           /\ UNCHANGED <<deleted, current, limits, users>>
<1>0. t # NoTask
  BY ConstantsAssumption
<1>1. ASSUME NEW q \in Seq(Entries), n = 1 => q # <<>>
      PROVE  Dropped(q, n) \in Seq(Entries)
  <2>1. CASE n = 0
    <3>1. SubSeq(q, 1, Len(q)) = q
      BY <1>1, SubSeqFull
    <3> QED
      BY <2>1, <3>1 DEF Dropped
  <2>2. CASE n = 1
    <3>1. Tail(q) = SubSeq(q, 2, Len(q)) /\ Tail(q) \in Seq(Entries)
      BY <1>1, <2>2, TailIsSubSeq
    <3> QED
      BY <2>2, <3>1 DEF Dropped
  <2> QED
    BY <2>1, <2>2
<1>2. Insert(queue, t, 0) \in Seq(Entries) /\ Insert(queue, t, 0) # <<>>
  <2>1. queue \in Seq(Entries) /\ 0 \in Int
    BY DEF TypeOK
  <2>2. /\ Insert(queue, t, 0) \in Seq(Entries)
        /\ Len(Insert(queue, t, 0)) = Len(queue) + 1
    BY <2>1, Inserted
  <2>3. \A q \in Seq(Entries) : Len(q) = Len(queue) + 1 => q # <<>>
    BY <2>1
  <2> QED
    BY <2>2, <2>3
<1>3. /\ Dropped(queue, n) \in Seq(Entries)
      /\ Dropped(Insert(queue, t, 0), n) \in Seq(Entries)
  BY <1>1, <1>2 DEF TypeOK
<1>4. /\ waitingThreads # <<>> => /\ Head(waitingThreads) \in Workers
                                  /\ Tail(waitingThreads) \in Seq(Workers)
      /\ expiredThreads # <<>> => /\ Head(expiredThreads) \in Workers
                                  /\ Tail(expiredThreads) \in Seq(Workers)
  BY ThreadSeqs DEF TypeOK
<1>5. ASSUME NEW w \in Workers, StartThread(w, t)
      PROVE  /\ runnable' \in [Workers -> Tasks \cup {NoTask}]
             /\ pc' \in [Workers -> PCs] /\ current' = current
             /\ \A v \in Workers : /\ pc'[v] = "begin" => runnable'[v] # NoTask
                                   /\ pc'[v] = "task" => current[v] # NoTask
  BY <1>0, <1>5 DEF StartThread, TypeOK, PCs, Become
<1>6. CASE RecycleThread(t) /\ queue' = Dropped(Insert(queue, t, 0), n)
           /\ waitingThreads # <<>>
  <2> DEFINE h == Head(waitingThreads)
             i == Insert(queue, t, 0)
  <2>1. /\ h \in Workers /\ Wake(h) /\ waitingThreads' = Tail(waitingThreads)
        /\ Ref(t) /\ queue' = Dropped(i, n) /\ Dropped(i, n) \in Seq(Entries)
        /\ UNCHANGED <<allThreads, expiredThreads, activeThreads, runnable,
                       current, limits, users>>
    BY <1>3, <1>4, <1>6 DEF RecycleThread, TryStartTask
  <2> HIDE DEF h, i
  <2>2. /\ pc' \in [Workers -> PCs]
        /\ \A v \in Workers : pc'[v] = pc[v] \/ pc'[v] = "woken"
    BY <2>1 DEF Wake, TypeOK, PCs
  <2>3. ref' \in [Tasks -> Int] /\ deleted' = deleted
    BY <2>1 DEF Ref, TypeOK
  <2> QED
    BY <1>4, <1>6, <2>1, <2>2, <2>3 DEF TypeOK
<1>7. CASE RestartThread(t) /\ queue' = Dropped(queue, n)
           /\ expiredThreads # <<>>
  BY <1>3, <1>4, <1>5, <1>7 DEF RestartThread, Ref, TypeOK, TryStartTask
<1>8. CASE NewThread(t) /\ queue' = Dropped(queue, n)
  BY <1>3, <1>5, <1>8 DEF NewThread, Ref, TypeOK, TryStartTask
<1> QED
  BY <1>6, <1>7, <1>8 DEF TryStartTask

LEMMA TryStartTypes ==
    ASSUME TypeOK, NEW t \in Tasks, NEW n \in {0, 1}, n = 1 => queue # <<>>,
           TryStartTask(t, n), UNCHANGED more, starts' \in [Tasks -> Nat]
    PROVE  TypeOK'
<1> USE DEF limits, users
<1>1. /\ queue' \in Seq(Entries) /\ allThreads' \in SUBSET Workers
      /\ waitingThreads' \in Seq(Workers)
      /\ expiredThreads' \in Seq(Workers) /\ activeThreads' \in Int
  BY TryStartTyped
<1>2. /\ runnable' \in [Workers -> Tasks \cup {NoTask}]
      /\ pc' \in [Workers -> PCs]
      /\ \A w \in Workers : /\ pc'[w] = "begin" => runnable'[w] # NoTask
                            /\ pc'[w] = "task" => current[w] # NoTask
  BY TryStartTyped
<1>3. ref' \in [Tasks -> Int] /\ UNCHANGED <<deleted, current, limits, users>>
  BY TryStartTyped
<1> QED
  BY <1>1, <1>2, <1>3 DEF TypeOK

\* What a thread does with the next runnable, or without one.
LEMMA ContinueTyped ==
    ASSUME TypeOK, NEW w \in Workers, NEW n \in Int, Continue(w, n)
    PROVE  /\ queue' \in Seq(Entries) /\ activeThreads' \in Int
           /\ waitingThreads' \in Seq(Workers)
           /\ expiredThreads' \in Seq(Workers)
           /\ pc' \in [Workers -> PCs]
           /\ current' \in [Workers -> Tasks \cup {NoTask}]
           /\ at' \in [Clients -> {"free", "checks", "asleep", "reset",
                                   "again", "joins", "joining"}]
           /\ \A v \in Workers : /\ pc'[v] = "begin" => runnable[v] # NoTask
                                 /\ pc'[v] = "task" => current'[v] # NoTask
           /\ \A c \in Clients : at'[c] = "joining" => at[c] = "joining"
           /\ UNCHANGED <<allThreads, limits, more, runnable, starts, copy, join>>
<1>0. /\ Append(waitingThreads, w) \in Seq(Workers)
      /\ Append(expiredThreads, w) \in Seq(Workers)
  BY ThreadSeqs DEF TypeOK
<1>1. CASE Rest(w, n)
  <2>1. ASSUME RegisterThreadInactive(n)
        PROVE  /\ activeThreads' \in Int
               /\ at' \in [Clients -> {"free", "checks", "asleep", "reset",
                                       "again", "joins", "joining"}]
               /\ \A c \in Clients : at'[c] = "joining" => at[c] = "joining"
    BY <2>1 DEF RegisterThreadInactive, TypeOK
  <2>2. ASSUME NEW l \in {"done", "idle"}, Become(w, l),
               current' = [current EXCEPT ![w] = NoTask]
        PROVE  /\ pc' \in [Workers -> PCs]
               /\ current' \in [Workers -> Tasks \cup {NoTask}]
               /\ \A v \in Workers : /\ pc'[v] = "begin" => runnable[v] # NoTask
                                     /\ pc'[v] = "task" => current'[v] # NoTask
    BY <2>2 DEF Become, TypeOK, PCs
  <2>3. queue' = queue /\ UNCHANGED <<allThreads, limits, more, runnable,
                                     starts, copy, join>>
    BY <1>1 DEF Continue, Rest
  <2> QED
    BY <1>0, <1>1, <2>1, <2>2, <2>3 DEF Rest, TypeOK
<1>2. CASE /\ queue # <<>> /\ queue' = Tail(queue) /\ Become(w, "task")
           /\ current' = [current EXCEPT ![w] = Head(queue).task]
           /\ activeThreads' = n
           /\ UNCHANGED <<waitingThreads, expiredThreads, at>>
  <2>1. Tail(queue) \in Seq(Entries) /\ Head(queue) \in Entries
    BY <1>2, FirstRemoved DEF TypeOK
  <2>2. Head(queue).task \in Tasks /\ Head(queue).task # NoTask
    BY <2>1, ConstantsAssumption DEF Entries
  <2>3. UNCHANGED <<allThreads, limits, more, runnable, starts, copy, join>>
    BY DEF Continue
  <2> DEFINE u == Head(queue).task
  <2> HIDE DEF u
  <2> QED
    BY <1>2, <2>1, <2>2, <2>3 DEF TypeOK, Become, PCs, u
<1> QED
  BY <1>1, <1>2 DEF Continue

LEMMA InitTyped == Init => TypeOK
<1> SUFFICES ASSUME Init PROVE TypeOK
  OBVIOUS
<1>1. /\ queue \in Seq(Entries) /\ allThreads \in SUBSET Workers
      /\ waitingThreads \in Seq(Workers) /\ expiredThreads \in Seq(Workers)
  BY DEF Init
<1>2. /\ activeThreads \in Int /\ reservedThreads \in Int
      /\ maxThreadCount \in Int /\ isExiting \in BOOLEAN /\ more \in BOOLEAN
  <2>1. maxThreadCount \in Int
    BY ConstantsAssumption DEF Init
  <2>2. isExiting \in BOOLEAN /\ more \in BOOLEAN
    BY DEF Init
  <2> QED
    BY <2>1, <2>2 DEF Init
<1>3. /\ runnable \in [Workers -> Tasks \cup {NoTask}]
      /\ pc \in [Workers -> PCs]
      /\ current \in [Workers -> Tasks \cup {NoTask}]
      /\ \A w \in Workers : pc[w] = "none"
  BY DEF Init, PCs
<1>4. /\ ref \in [Tasks -> Int] /\ deleted \subseteq Tasks
      /\ starts \in [Tasks -> Nat]
  BY DEF Init
<1>5. /\ at \in [Clients -> {"free", "checks", "asleep", "reset", "again",
                             "joins", "joining"}]
      /\ copy \in [Clients -> SUBSET Workers]
      /\ join \in [Clients -> Workers \cup {NoWorker}]
      /\ \A c \in Clients : at[c] = "free"
  BY DEF Init
<1> QED
  BY <1>1, <1>2, <1>3, <1>4, <1>5 DEF TypeOK

\* Every step preserves the types.
LEMMA TypeStep == TypeOK /\ [Next]_vars => TypeOK'
<1> SUFFICES ASSUME TypeOK, [Next]_vars PROVE TypeOK'
  OBVIOUS
<1> USE DEF pool, limits, threads, tasks, users
<1>1. CASE UNCHANGED vars
  BY <1>1 DEF TypeOK, vars
<1>2. ASSUME NEW t \in Tasks, TryStart(t) PROVE TypeOK'
  <2>1. TryStartTask(t, 0) /\ UNCHANGED more /\ Accept(t)
    BY <1>2 DEF TryStart
  <2>2. starts' \in [Tasks -> Nat]
    BY <2>1 DEF TypeOK, Accept
  <2> QED
    BY <2>1, <2>2, TryStartTypes
<1>3. ASSUME NEW t \in Tasks, NEW p \in Priorities, Start(t, p) PROVE TypeOK'
  <2>1. UNCHANGED more /\ Accept(t)
    BY <1>3 DEF Start
  <2>2. CASE TryStartTask(t, 0)
    <3>1. starts' \in [Tasks -> Nat]
      BY <2>1 DEF TypeOK, Accept
    <3> QED
      BY <2>1, <2>2, <3>1, TryStartTypes
  <2>3. CASE Enqueue(t, p)
    <3>1. queue' \in Seq(Entries)
      <4>1. queue \in Seq(Entries) /\ p \in Int /\ queue' = Insert(queue, t, p)
        BY <2>3, ConstantsAssumption DEF TypeOK, Enqueue
      <4> QED
        BY <4>1, Inserted
    <3>2. waitingThreads' \in Seq(Workers) /\ pc' \in [Workers -> PCs]
          /\ \A v \in Workers : pc'[v] = pc[v] \/ pc'[v] = "woken"
      <4>1. CASE waitingThreads = <<>>
        BY <2>3, <4>1 DEF Enqueue, TypeOK
      <4>2. CASE waitingThreads # <<>>
        <5> DEFINE h == Head(waitingThreads)
        <5>1. /\ h \in Workers /\ Wake(h)
              /\ waitingThreads' = Tail(waitingThreads)
              /\ Tail(waitingThreads) \in Seq(Workers)
          BY <2>3, <4>2, ThreadSeqs DEF Enqueue, TypeOK
        <5> HIDE DEF h
        <5> QED
          BY <5>1 DEF Wake, TypeOK, PCs
      <4> QED
        BY <4>1, <4>2
    <3>3. ref' \in [Tasks -> Int] /\ starts' \in [Tasks -> Nat]
      BY <2>1, <2>3 DEF Enqueue, Ref, Accept, TypeOK
    <3>4. UNCHANGED <<allThreads, expiredThreads, activeThreads, limits,
                      runnable, current, users, deleted>>
      BY <2>3 DEF Enqueue, Ref
    <3> QED
      BY <2>1, <3>1, <3>2, <3>3, <3>4 DEF TypeOK
  <2> QED
    BY <1>3, <2>2, <2>3 DEF Start
<1>4. ASSUME NEW n \in MaxCounts, SetMaxThreadCount(n) PROVE TypeOK'
  BY <1>4, ConstantsAssumption DEF SetMaxThreadCount, TypeOK
<1>5. CASE ReserveThread
  BY <1>5 DEF ReserveThread, TypeOK
<1>6. CASE ReleaseThread
  BY <1>6 DEF ReleaseThread, TypeOK
<1>7. CASE TryToStartMoreThreads
  <2>1. CASE queue # <<>> /\ TryStartTask(Head(queue).task, 1)
             /\ UNCHANGED <<more, starts>>
    <3> DEFINE t == Head(queue).task
    <3>1. t \in Tasks
      BY <2>1, FirstRemoved DEF TypeOK, Entries
    <3> HIDE DEF t
    <3>2. TryStartTask(t, 1) /\ queue # <<>>
      BY <2>1 DEF t
    <3> QED
      <4>1. UNCHANGED more /\ starts' \in [Tasks -> Nat]
        BY <2>1 DEF TypeOK
      <4> QED
        BY <3>1, <3>2, <4>1, TryStartTypes
  <2>2. CASE more' = FALSE /\ UNCHANGED <<pool, activeThreads, limits, threads,
                                         ref, deleted, users, starts>>
    BY <2>2 DEF TypeOK
  <2> QED
    BY <1>7, <2>1, <2>2 DEF TryToStartMoreThreads
<1>8. CASE Clear
  <2>1. \A t \in Tasks : Occurrences(t) \in Int
    <3>1. queue \in Seq(Entries) /\ DOMAIN queue = 1..Len(queue)
      BY DEF TypeOK
    <3>2. \A t : Waiting(queue, t) \in Nat
      BY <3>1, EntriesCount
    <3>3. \A t : Occurrences(t) = Waiting(queue, t)
      BY <3>1 DEF Occurrences, Waiting
    <3> QED
      BY <3>2, <3>3
  <2>2. queue' = <<>> /\ ref' \in [Tasks -> Int] /\ deleted' \subseteq Tasks
    BY <1>8, <2>1 DEF Clear, TypeOK
  <2> QED
    BY <1>8, <2>2 DEF Clear, TypeOK
<1>9. ASSUME NEW w \in Workers, Begin(w) PROVE TypeOK'
  BY <1>9 DEF Begin, TypeOK, Become, PCs
<1>10. ASSUME NEW w \in Workers, EndTask(w) PROVE TypeOK'
  <2>1. ref' \in [Tasks -> Int] /\ deleted' \subseteq Tasks
    <3>1. current[w] \in Tasks
      BY <1>10 DEF EndTask, TypeOK
    <3> QED
      BY <1>10, <3>1 DEF EndTask, Deref, TypeOK
  <2>2. Continue(w, activeThreads) /\ activeThreads \in Int
    BY <1>10 DEF EndTask, TypeOK
  <2> QED
    BY <2>1, <2>2, ContinueTyped DEF TypeOK
<1>11. ASSUME NEW w \in Workers, Resume(w) PROVE TypeOK'
  <2>1. UNCHANGED <<ref, deleted>>
    BY <1>11 DEF Resume
  <2>2. CASE ~InSeq(waitingThreads, w) /\ Continue(w, activeThreads + 1)
    <3>1. activeThreads + 1 \in Int
      BY DEF TypeOK
    <3> QED
      BY <2>1, <2>2, <3>1, ContinueTyped DEF TypeOK
  <2>3. ASSUME NEW i \in DOMAIN waitingThreads,
               waitingThreads' = Without(waitingThreads, i),
               expiredThreads' = Append(expiredThreads, w),
               Become(w, "done"), RegisterThreadInactive(activeThreads + 1),
               UNCHANGED <<queue, allThreads, limits, more, runnable, current,
                           starts, copy, join>>
        PROVE  TypeOK'
    <3>1. waitingThreads' \in Seq(Workers) /\ expiredThreads' \in Seq(Workers)
      <4>1. /\ waitingThreads \in Seq(Workers) /\ i \in 1..Len(waitingThreads)
            /\ expiredThreads \in Seq(Workers)
        BY ThreadSeqs DEF TypeOK
      <4> QED
        BY <2>3, <4>1, ThreadSeqs, WithoutOne
    <3>2. pc' \in [Workers -> PCs] /\ \A v \in Workers : pc'[v] \in {pc[v], "done"}
      BY <2>3 DEF Become, TypeOK, PCs
    <3>3. /\ activeThreads' \in Int
          /\ at' \in [Clients -> {"free", "checks", "asleep", "reset", "again",
                                  "joins", "joining"}]
          /\ \A c \in Clients : at'[c] = "joining" => at[c] = "joining"
      BY <2>3 DEF RegisterThreadInactive, TypeOK
    <3> QED
      BY <2>1, <2>3, <3>1, <3>2, <3>3 DEF TypeOK
  <2> QED
    BY <1>11, <2>2, <2>3 DEF Resume
<1>12. ASSUME NEW w \in Workers, Finish(w) \/ TimesOut(w) PROVE TypeOK'
  BY <1>12 DEF Finish, TimesOut, TypeOK, Become, PCs
<1>13. ASSUME NEW c \in Clients, WaitForDone(c) \/ CheckDone(c) \/ GiveUp(c)
       PROVE  TypeOK'
  BY <1>13 DEF WaitForDone, CheckDone, GiveUp, GoTo, TypeOK
<1>14. ASSUME NEW c \in Clients, Reset(c) PROVE TypeOK'
  <2>1. CASE /\ GoTo(c, "joins") /\ copy' = [copy EXCEPT ![c] = allThreads]
             /\ allThreads' = {} /\ isExiting' = (isExiting \/ at[c] = "reset")
             /\ UNCHANGED <<waitingThreads, expiredThreads>>
    <3>1. /\ copy' \in [Clients -> SUBSET Workers]
          /\ at' \in [Clients -> {"free", "checks", "asleep", "reset", "again",
                                  "joins", "joining"}]
          /\ \A d \in Clients : at'[d] = "joining" => join[d] \in copy'[d]
      BY <2>1 DEF GoTo, TypeOK
    <3>2. isExiting' \in BOOLEAN
      BY <2>1 DEF TypeOK
    <3>3. UNCHANGED <<queue, activeThreads, reservedThreads, maxThreadCount,
                      more, threads, tasks, join>>
      BY <1>14 DEF Reset
    <3> QED
      BY <2>1, <3>1, <3>2, <3>3 DEF TypeOK
  <2>2. CASE /\ GoTo(c, "free") /\ UNCHANGED <<allThreads, copy>>
             /\ waitingThreads' = <<>> /\ expiredThreads' = <<>>
             /\ isExiting' = FALSE
    <3>1. /\ at' \in [Clients -> {"free", "checks", "asleep", "reset", "again",
                                  "joins", "joining"}]
          /\ \A d \in Clients : at'[d] = "joining" => join[d] \in copy[d]
      BY <2>2 DEF GoTo, TypeOK
    <3>2. waitingThreads' \in Seq(Workers) /\ expiredThreads' \in Seq(Workers)
      BY <2>2
    <3>3. UNCHANGED <<queue, activeThreads, reservedThreads, maxThreadCount,
                      more, threads, tasks, join>>
      BY <1>14 DEF Reset
    <3> QED
      BY <2>2, <3>1, <3>2, <3>3 DEF TypeOK
  <2> QED
    BY <1>14, <2>1, <2>2 DEF Reset
<1>15. ASSUME NEW c \in Clients, WakeForJoin(c) PROVE TypeOK'
  BY <1>15 DEF WakeForJoin, Wake, GoTo, TypeOK, PCs
<1>16. ASSUME NEW c \in Clients, Joined(c) PROVE TypeOK'
  <2> DEFINE w == join[c]
  <2>1. w \in Workers
    BY <1>16 DEF Joined, TypeOK
  <2>2. /\ pc' = [pc EXCEPT ![w] = "none"]
        /\ runnable' = [runnable EXCEPT ![w] = NoTask]
        /\ copy' = [copy EXCEPT ![c] = @ \ {w}]
        /\ at' = [at EXCEPT ![c] = IF copy[c] = {w} THEN "again" ELSE "joins"]
        /\ join' = [join EXCEPT ![c] = NoWorker]
        /\ UNCHANGED <<pool, activeThreads, limits, more, current, tasks>>
    BY <1>16 DEF Joined, Become, GoTo
  <2> HIDE DEF w
  <2>3. /\ pc' \in [Workers -> PCs]
        /\ runnable' \in [Workers -> Tasks \cup {NoTask}]
        /\ \A v \in Workers : /\ pc'[v] = "begin" => runnable'[v] # NoTask
                              /\ pc'[v] = "task" => current[v] # NoTask
    BY <2>1, <2>2 DEF TypeOK, PCs
  <2>4. /\ copy' \in [Clients -> SUBSET Workers]
        /\ join' \in [Clients -> Workers \cup {NoWorker}]
        /\ at' \in [Clients -> {"free", "checks", "asleep", "reset", "again",
                                "joins", "joining"}]
        /\ \A d \in Clients : at'[d] = "joining" => join'[d] \in copy'[d]
    BY <2>2 DEF TypeOK
  <2> QED
    BY <2>2, <2>3, <2>4 DEF TypeOK
<1> QED
  BY <1>1, <1>2, <1>3, <1>4, <1>5, <1>6, <1>7, <1>8, <1>9, <1>10, <1>11, <1>12,
     <1>13, <1>14, <1>15, <1>16, ConstantsAssumption
     DEF Next, WorkerStep, ClientStep

-----------------------------------------------------------------------------
\* References.

\* The uses of a runnable are natural numbers; it has none when it is not in
\* use.
LEMMA UsesCounted ==
    ASSUME TypeOK, NEW t \in Tasks
    PROVE  /\ Waiting(queue, t) \in Nat /\ Holding(runnable, t) \in Nat
           /\ Holding(current, t) \in Nat /\ Uses(t) \in Nat
           /\ InUse(t) <=> Uses(t) # 0
<1>1. /\ Waiting(queue, t) \in Nat
      /\ Waiting(queue, t) = 0 <=> \A i \in DOMAIN queue : queue[i].task # t
  <2>1. queue \in Seq(Entries) /\ DOMAIN queue = 1..Len(queue)
    BY DEF TypeOK
  <2> QED
    BY <2>1, EntriesCount
<1>2. ASSUME NEW f
      PROVE  /\ Holding(f, t) \in Nat
             /\ Holding(f, t) = 0 <=> \A w \in Workers : f[w] # t
  <2> DEFINE S == {w \in Workers : f[w] = t}
  <2>1. Cardinality(S) \in Nat /\ (Cardinality(S) = 0 <=> S = {})
    <3>1. S \in SUBSET Workers
      OBVIOUS
    <3> HIDE DEF S
    <3> QED
      BY <3>1, WorkersCount
  <2> QED
    BY <2>1 DEF Holding
<1>3. /\ Holding(runnable, t) \in Nat /\ Holding(current, t) \in Nat
      /\ Holding(runnable, t) = 0 <=> \A w \in Workers : runnable[w] # t
      /\ Holding(current, t) = 0 <=> \A w \in Workers : current[w] # t
  BY <1>2
<1>4. Uses(t) \in Nat
  BY <1>1, <1>3 DEF Uses
<1>5. Uses(t) # 0 <=> \/ Waiting(queue, t) # 0
                      \/ Holding(runnable, t) # 0
                      \/ Holding(current, t) # 0
  BY <1>1, <1>3 DEF Uses
<1>6. InUse(t) <=> Uses(t) # 0
  BY <1>1, <1>3, <1>5 DEF InUse
<1> QED
  BY <1>1, <1>3, <1>4, <1>6

\* tryStart gives a runnable one more use at most, and none when it is taken
\* out of the queue.
LEMMA TryStartUses ==
    ASSUME TypeOK, NEW t \in Tasks, NEW n \in {0, 1},
           n = 1 => queue # <<>> /\ Head(queue).task = t,
           TryStartTask(t, n), NEW u \in Tasks
    PROVE  /\ Uses(u)' <= Uses(u) + Same(u, t)
           /\ n = 1 => Uses(u)' <= Uses(u)
<1> DEFINE W == Waiting(queue, u)
           R == Holding(runnable, u)
           C == Holding(current, u)
<1>1. /\ W \in Nat /\ R \in Nat /\ C \in Nat /\ Uses(u) = W + R + C
      /\ Uses(u)' = Waiting(queue', u) + Holding(runnable', u)
                    + Holding(current', u)
  BY UsesCounted DEF Uses
<1>2. current' = current
  BY TryStartTyped
<1>3. Same(u, t) \in {0, 1} /\ Same(t, u) = Same(u, t)
  BY DEF Same
<1>4. ASSUME NEW w \in Workers, StartThread(w, t)
      PROVE  /\ Holding(runnable', u) \in Nat
             /\ Holding(runnable', u) <= R + Same(u, t)
  <2>1. runnable' = [runnable EXCEPT ![w] = t]
    BY <1>4 DEF StartThread
  <2>2. /\ Holding(runnable', u) \in Nat
        /\ Holding(runnable', u) = R + Same(t, u) - Same(runnable[w], u)
    <3>1. /\ runnable'[w] = t
          /\ \A x \in Workers \ {w} : runnable'[x] = runnable[x]
      BY <2>1 DEF TypeOK
    <3>2. runnable \in Holders /\ runnable' \in Holders
      BY TryStartTyped DEF TypeOK, Holders
    <3>3. /\ Holding(runnable', u) \in Nat
          /\ Holding(runnable', u)
                 = Holding(runnable, u) + Same(runnable'[w], u)
                   - Same(runnable[w], u)
      BY <3>1, <3>2, HoldingChanged
    <3> QED
      BY <3>1, <3>2, <3>3
  <2>3. Same(runnable[w], u) \in {0, 1}
    BY DEF Same
  <2> HIDE DEF R
  <2> QED
    BY <1>1, <1>3, <2>2, <2>3
<1>5. ASSUME NEW q \in Seq(Entries)
      PROVE  /\ Dropped(q, 0) = q
             /\ q # <<>> => Dropped(q, 1) = Tail(q)
  <2>1. SubSeq(q, 1, Len(q)) = q
    BY SubSeqFull
  <2>2. q # <<>> => Tail(q) = SubSeq(q, 2, Len(q))
    BY TailIsSubSeq
  <2> QED
    BY <2>1, <2>2 DEF Dropped
<1>6. queue \in Seq(Entries)
  BY DEF TypeOK
<1>7. ASSUME queue' = Dropped(queue, n)
      PROVE  /\ Waiting(queue', u) \in Nat
             /\ Waiting(queue', u) = W - (IF n = 1 THEN Same(u, t) ELSE 0)
  <2>1. CASE n = 0
    BY <1>1, <1>5, <1>6, <1>7, <2>1
  <2>2. CASE n = 1
    <3>1. queue' = Tail(queue) /\ Head(queue).task = t /\ queue # <<>>
      BY <1>5, <1>6, <1>7, <2>2
    <3>2. /\ Waiting(Tail(queue), u) = W - Same(Head(queue).task, u)
          /\ Tail(queue) \in Seq(Entries)
      BY <1>6, <3>1, FirstRemoved
    <3>3. Waiting(Tail(queue), u) \in Nat
      BY <3>2, EntriesCount
    <3> QED
      BY <1>3, <2>2, <3>1, <3>2, <3>3
  <2> QED
    BY <2>1, <2>2
<1>8. ASSUME queue' = Dropped(Insert(queue, t, 0), n)
      PROVE  /\ Waiting(queue', u) \in Nat
             /\ Waiting(queue', u)
                    = W + Same(u, t) - (IF n = 1 THEN Same(u, t) ELSE 0)
  <2> DEFINE q == Insert(queue, t, 0)
  <2>1. /\ q \in Seq(Entries) /\ Len(q) = Len(queue) + 1
        /\ Waiting(q, u) = W + Same(t, u)
        /\ queue # <<>> => Head(q) = Head(queue) \/ Head(q).task = t
    BY <1>6, Inserted
  <2>2. queue' = Dropped(q, n)
    BY <1>8
  <2> HIDE DEF q
  <2>3. q # <<>>
    BY <1>6, <2>1
  <2>4. CASE n = 0
    <3>1. queue' = q
      BY <1>5, <2>1, <2>2, <2>4
    <3> QED
      BY <1>1, <1>3, <2>1, <2>4, <3>1
  <2>5. CASE n = 1
    <3>1. queue' = Tail(q) /\ Head(q).task = t
      BY <1>5, <2>1, <2>2, <2>3, <2>5
    <3>2. /\ Waiting(Tail(q), u) = Waiting(q, u) - Same(Head(q).task, u)
          /\ Tail(q) \in Seq(Entries)
      BY <2>1, <2>3, FirstRemoved
    <3>3. Waiting(Tail(q), u) = W + Same(u, t) - Same(u, t)
      BY <1>1, <1>3, <2>1, <3>1, <3>2 DEF Same
    <3> QED
      BY <1>1, <1>3, <2>5, <3>1, <3>3
  <2> QED
    BY <2>4, <2>5
<1> HIDE DEF W, R, C
<1>9. CASE RecycleThread(t) /\ queue' = Dropped(Insert(queue, t, 0), n)
  <2>1. runnable' = runnable
    BY <1>9 DEF RecycleThread
  <2>2. Holding(runnable', u) = R /\ Holding(current', u) = C
    BY <1>2, <2>1 DEF R, C
  <2> QED
    BY <1>1, <1>3, <1>8, <1>9, <2>2
<1>10. CASE /\ queue' = Dropped(queue, n)
            /\ \E w \in Workers : StartThread(w, t)
  <2>1. /\ Holding(runnable', u) \in Nat
        /\ Holding(runnable', u) <= R + Same(u, t)
    BY <1>4, <1>10
  <2>2. Holding(current', u) = C
    BY <1>2 DEF C
  <2> QED
    BY <1>1, <1>3, <1>7, <1>10, <2>1, <2>2
<1>11. \/ RecycleThread(t) /\ queue' = Dropped(Insert(queue, t, 0), n)
       \/ /\ queue' = Dropped(queue, n)
          /\ \E w \in Workers : StartThread(w, t)
  <2>1. expiredThreads # <<>> => Head(expiredThreads) \in Workers
    BY ThreadSeqs DEF TypeOK
  <2> QED
    BY <2>1 DEF TryStartTask, RestartThread, NewThread
<1> QED
  BY <1>9, <1>10, <1>11

\* A thread that goes on has done with its runnable; the one that it takes out
\* of the queue it holds.
LEMMA ContinueUses ==
    ASSUME TypeOK, NEW w \in Workers, NEW n \in Int, Continue(w, n),
           NEW u \in Tasks
    PROVE  Uses(u)' = Uses(u) - Same(current[w], u)
<1>0. NoTask # u
  BY ConstantsAssumption
<1>1. /\ Waiting(queue, u) \in Nat /\ Holding(runnable, u) \in Nat
      /\ Holding(current, u) \in Nat /\ runnable' = runnable
  BY UsesCounted DEF Continue
<1>2. queue \in Seq(Entries) /\ current \in [Workers -> Tasks \cup {NoTask}]
  BY DEF TypeOK
<1>3. Same(current[w], u) \in {0, 1}
  BY DEF Same
<1>4. CASE Rest(w, n)
  <2>1. current' = [current EXCEPT ![w] = NoTask] /\ queue' = queue
    BY <1>4 DEF Rest
  <2>2. Holding(current', u)
            = Holding(current, u) + Same(NoTask, u) - Same(current[w], u)
    <3>1. /\ current'[w] = NoTask
          /\ \A x \in Workers \ {w} : current'[x] = current[x]
          /\ current \in Holders /\ current' \in Holders
      BY <1>2, <2>1, ContinueTyped DEF Holders
    <3>2. Holding(current', u)
              = Holding(current, u) + Same(current'[w], u) - Same(current[w], u)
      BY <3>1, HoldingChanged
    <3> QED
      BY <3>1, <3>2
  <2>3. Same(NoTask, u) = 0
    BY <1>0 DEF Same
  <2> QED
    BY <1>1, <1>3, <2>1, <2>2, <2>3 DEF Uses
<1>5. CASE /\ queue # <<>> /\ queue' = Tail(queue)
           /\ current' = [current EXCEPT ![w] = Head(queue).task]
  <2> DEFINE h == Head(queue).task
  <2>1. /\ Waiting(queue', u) = Waiting(queue, u) - Same(h, u)
        /\ Head(queue) \in Entries
    BY <1>2, <1>5, FirstRemoved
  <2>2. h \in Tasks /\ current' = [current EXCEPT ![w] = h]
    BY <1>5, <2>1 DEF Entries
  <2> HIDE DEF h
  <2>3. Holding(current', u)
            = Holding(current, u) + Same(h, u) - Same(current[w], u)
    <3>1. /\ current'[w] = h
          /\ \A x \in Workers \ {w} : current'[x] = current[x]
          /\ current \in Holders /\ current' \in Holders
      BY <1>2, <2>2, ContinueTyped DEF Holders
    <3>2. Holding(current', u)
              = Holding(current, u) + Same(current'[w], u) - Same(current[w], u)
      BY <3>1, HoldingChanged
    <3> QED
      BY <3>1, <3>2
  <2>4. Same(h, u) \in {0, 1}
    BY DEF Same
  <2> QED
    BY <1>1, <1>3, <2>1, <2>3, <2>4 DEF Uses
<1> QED
  BY <1>4, <1>5 DEF Continue

\* What becomes of the references when a runnable gets one, and when nothing
\* gets or loses one.
LEMMA RefsKept ==
    ASSUME TypeOK, RefInv, UNCHANGED deleted,
           \A u \in Tasks : /\ Uses(u)' \in Nat /\ Uses(u)' <= Uses(u)
                            /\ ref'[u] = ref[u]
                            /\ starts'[u] = 0 => starts[u] = 0
    PROVE  RefInv'
<1>1. ASSUME NEW u \in Tasks PROVE Uses(u)' <= ref'[u]
  <2>1. Uses(u) \in Nat /\ ref[u] \in Int /\ Uses(u) <= ref[u]
    BY UsesCounted DEF TypeOK, RefInv
  <2> QED
    BY <2>1
<1>2. ASSUME NEW u \in Tasks, starts'[u] = 0
      PROVE  u \notin deleted' /\ Uses(u)' = 0
  <2>1. u \notin deleted /\ Uses(u) = 0
    BY <1>2 DEF RefInv
  <2> QED
    BY <2>1
<1>3. ASSUME NEW u \in deleted' PROVE ref'[u] <= 0
  BY DEF RefInv, TypeOK
<1> QED
  BY <1>1, <1>2, <1>3 DEF RefInv

LEMMA RefTaken ==
    ASSUME TypeOK, RefInv, NEW t \in Tasks, t \notin deleted, Ref(t),
           starts[t] # 0 \/ starts'[t] # 0,
           \A u \in Tasks : /\ Uses(u)' \in Nat
                            /\ Uses(u)' <= Uses(u) + Same(u, t)
                            /\ u # t => starts'[u] = starts[u]
                            /\ starts'[u] = 0 => starts[u] = 0
    PROVE  RefInv'
<1>1. /\ deleted' = deleted /\ ref'[t] = ref[t] + 1
      /\ \A u \in Tasks : u # t => ref'[u] = ref[u]
  BY DEF Ref, TypeOK
<1>2. ASSUME NEW u \in Tasks PROVE Uses(u)' <= ref'[u]
  <2>1. /\ Uses(u) \in Nat /\ ref[u] \in Int /\ Uses(u) <= ref[u]
        /\ Uses(u)' \in Nat /\ Uses(u)' <= Uses(u) + Same(u, t)
    BY UsesCounted DEF TypeOK, RefInv
  <2>2. ref'[u] = ref[u] + Same(u, t)
    BY <1>1, <2>1 DEF Same
  <2>3. Same(u, t) \in {0, 1}
    BY DEF Same
  <2> QED
    BY <2>1, <2>2, <2>3
<1>3. ASSUME NEW u \in Tasks, starts'[u] = 0
      PROVE  u \notin deleted' /\ Uses(u)' = 0
  <2>1. u \notin deleted /\ Uses(u) = 0 /\ starts[u] = 0
    BY <1>3 DEF RefInv
  <2>2. u # t
    BY <1>3, <2>1
  <2>3. Same(u, t) = 0
    BY <2>2 DEF Same
  <2>4. Uses(u)' \in Nat /\ Uses(u)' <= Uses(u) + Same(u, t)
    OBVIOUS
  <2> QED
    BY <1>1, <2>1, <2>3, <2>4
<1>4. ASSUME NEW u \in deleted' PROVE ref'[u] <= 0
  BY <1>1 DEF RefInv, TypeOK
<1> QED
  BY <1>2, <1>3, <1>4 DEF RefInv

\* A runnable in use is referenced, hence not deleted and started.
LEMMA InUseReferenced ==
    ASSUME TypeOK, RefInv, NEW t \in Tasks, InUse(t)
    PROVE  ref[t] > 0 /\ t \notin deleted /\ starts[t] # 0
<1>1. Uses(t) \in Nat /\ Uses(t) # 0 /\ Uses(t) <= ref[t] /\ ref[t] \in Int
  BY UsesCounted DEF TypeOK, RefInv
<1>2. ref[t] > 0
  BY <1>1
<1> QED
  BY <1>1, <1>2 DEF RefInv

\* A step that moves no runnable and changes no count of references.
LEMMA NoRefs ==
    ASSUME TypeOK, RefInv, UNCHANGED <<queue, runnable, current, tasks>>
    PROVE  RefInv'
<1>1. ASSUME NEW u \in Tasks
      PROVE  /\ Uses(u)' \in Nat /\ Uses(u)' <= Uses(u)
             /\ ref'[u] = ref[u] /\ starts'[u] = starts[u]
  <2>1. Uses(u)' = Uses(u)
    BY DEF Uses
  <2>2. Uses(u) \in Nat
    BY UsesCounted
  <2> QED
    BY <2>1, <2>2 DEF tasks
<1> QED
  BY <1>1, RefsKept DEF tasks

LEMMA UsesCountedNext ==
    ASSUME TypeOK', NEW t \in Tasks
    PROVE  Uses(t)' \in Nat
<1>1. Waiting(queue', t) \in Nat
  BY EntriesCount DEF TypeOK
<1>2. ASSUME NEW f PROVE Holding(f, t) \in Nat
  <2> DEFINE S == {w \in Workers : f[w] = t}
  <2>1. S \in SUBSET Workers
    OBVIOUS
  <2>2. Cardinality(S) \in Nat
    <3> HIDE DEF S
    <3> QED
      BY <2>1, WorkersCount
  <2> QED
    BY <2>2 DEF Holding
<1>3. Holding(runnable', t) \in Nat /\ Holding(current', t) \in Nat
  BY <1>2
<1> QED
  BY <1>1, <1>3 DEF Uses

\* tryStart of a runnable that is accepted, or that is taken out of the queue.
LEMMA TryStartRefs ==
    ASSUME TypeOK, TypeOK', RefInv, NEW t \in Tasks, NEW n \in {0, 1},
           n = 1 => queue # <<>> /\ Head(queue).task = t,
           TryStartTask(t, n), starts[t] = 0 \/ InUse(t),
           \A u \in Tasks : u # t => starts'[u] = starts[u],
           starts'[t] >= starts[t], starts[t] = 0 => starts'[t] # 0
    PROVE  RefInv'
<1>1. /\ t \notin deleted
      /\ starts[t] # 0 \/ starts'[t] # 0
  BY InUseReferenced DEF RefInv
<1>2. Ref(t)
  BY DEF TryStartTask, NewThread, RecycleThread, RestartThread
<1>3. ASSUME NEW u \in Tasks
      PROVE  /\ Uses(u)' \in Nat /\ Uses(u)' <= Uses(u) + Same(u, t)
             /\ starts'[u] = 0 => starts[u] = 0
  <2>1. Uses(u)' \in Nat
    BY UsesCountedNext
  <2>2. Uses(u)' <= Uses(u) + Same(u, t)
    BY TryStartUses
  <2>3. starts[u] \in Nat /\ starts[t] \in Nat /\ starts'[t] \in Nat
    BY DEF TypeOK
  <2>4. starts'[u] = 0 => starts[u] = 0
    BY <2>3
  <2> QED
    BY <2>1, <2>2, <2>4
<1> QED
  BY <1>1, <1>2, <1>3, RefTaken

\* The runnable of a thread that goes on with another, or with none.
LEMMA EndTaskRefs ==
    ASSUME TypeOK, TypeOK', RefInv, NEW w \in Workers, EndTask(w)
    PROVE  RefInv'
<1> DEFINE t == current[w]
<1>1. t \in Tasks /\ Deref(t) /\ Continue(w, activeThreads) /\ activeThreads \in Int
  BY DEF EndTask, TypeOK
<1>2. InUse(t)
  BY <1>1 DEF InUse
<1>3. ref[t] > 0 /\ t \notin deleted /\ starts[t] # 0
  BY <1>1, <1>2, InUseReferenced
<1>4. starts' = starts
  BY <1>1 DEF Continue
<1>5. ASSUME NEW u \in Tasks
      PROVE  /\ Uses(u) \in Nat /\ Uses(u)' \in Nat
             /\ Uses(u)' = Uses(u) - Same(t, u)
             /\ Uses(u) <= ref[u]
             /\ ref[u] \in Int /\ ref'[u] = ref[u] - Same(t, u)
             /\ Same(t, u) \in {0, 1}
  <2>1. Uses(u) \in Nat /\ Uses(u)' \in Nat /\ Uses(u) <= ref[u]
    BY UsesCounted, UsesCountedNext DEF RefInv
  <2>2. Uses(u)' = Uses(u) - Same(t, u)
    BY <1>1, ContinueUses
  <2>3. ref[u] \in Int /\ ref'[u] = ref[u] - Same(t, u)
    <3>1. ref' = [ref EXCEPT ![t] = @ - 1] /\ t \in Tasks
      BY <1>1 DEF Deref
    <3>2. ref \in [Tasks -> Int]
      BY DEF TypeOK
    <3>3. ref'[u] = IF t = u THEN ref[u] - 1 ELSE ref[u]
      BY <3>1, <3>2
    <3> QED
      BY <3>2, <3>3 DEF Same
  <2>4. Same(t, u) \in {0, 1}
    BY DEF Same
  <2> QED
    BY <2>1, <2>2, <2>3, <2>4
<1>6. deleted' = deleted \cup IF ref[t] = 1 THEN {t} ELSE {}
  BY <1>1 DEF Deref
<1> HIDE DEF t
<1>7. ASSUME NEW u \in Tasks PROVE Uses(u)' <= ref'[u]
  BY <1>5
<1>8. ASSUME NEW u \in Tasks, starts'[u] = 0
      PROVE  u \notin deleted' /\ Uses(u)' = 0
  <2>1. u \notin deleted /\ Uses(u) = 0 /\ u # t
    BY <1>3, <1>4, <1>8 DEF RefInv
  <2> QED
    BY <1>5, <1>6, <2>1
<1>9. ASSUME NEW u \in deleted' PROVE ref'[u] <= 0
  <2>1. CASE u \in deleted
    <3>1. u \in Tasks /\ ref[u] <= 0
      BY <2>1 DEF RefInv, TypeOK
    <3> QED
      BY <1>5, <3>1
  <2>2. CASE u = t /\ ref[t] = 1
    <3>1. Same(t, u) = 1
      BY <2>2 DEF Same
    <3> QED
      BY <1>1, <1>5, <2>2, <3>1
  <2> QED
    BY <1>6, <2>1, <2>2
<1> QED
  BY <1>7, <1>8, <1>9 DEF RefInv

\* clear() takes back the references of the queue.
LEMMA ClearRefs ==
    ASSUME TypeOK, TypeOK', RefInv, Clear
    PROVE  RefInv'
<1>1. /\ queue' = <<>> /\ UNCHANGED <<runnable, current, starts>>
      /\ ref' = [t \in Tasks |-> ref[t] - Occurrences(t)]
      /\ deleted' = deleted \cup {t \in Tasks : Occurrences(t) > 0
                                                /\ ref[t] = Occurrences(t)}
  BY DEF Clear, threads
<1>2. ASSUME NEW u \in Tasks
      PROVE  /\ Uses(u) \in Nat /\ Occurrences(u) \in Nat
             /\ Uses(u)' = Uses(u) - Occurrences(u)
             /\ Uses(u) <= ref[u] /\ ref[u] \in Int
             /\ ref'[u] = ref[u] - Occurrences(u)
             /\ Occurrences(u) > 0 => InUse(u)
  <2>1. Occurrences(u) = Waiting(queue, u)
    <3>1. DOMAIN queue = 1..Len(queue)
      BY DEF TypeOK
    <3> QED
      BY <3>1 DEF Occurrences, Waiting
  <2>2. Waiting(<<>>, u) = 0
    <3>1. <<>> \in Seq(Entries) /\ \A i \in 1..Len(<<>>) : <<>>[i].task # u
      OBVIOUS
    <3> QED
      BY <3>1, EntriesCount
  <2>3. /\ Waiting(queue, u) \in Nat /\ Holding(runnable, u) \in Nat
        /\ Holding(current, u) \in Nat /\ Uses(u) \in Nat
        /\ InUse(u) <=> Uses(u) # 0
    BY UsesCounted
  <2>4. Uses(u)' = 0 + Holding(runnable, u) + Holding(current, u)
    BY <1>1, <2>2 DEF Uses
  <2>5. Uses(u) = Waiting(queue, u) + Holding(runnable, u) + Holding(current, u)
    BY DEF Uses
  <2>6. Uses(u) <= ref[u] /\ ref[u] \in Int
    BY DEF RefInv, TypeOK
  <2> QED
    BY <1>1, <2>1, <2>3, <2>4, <2>5, <2>6
<1>3. ASSUME NEW u \in Tasks PROVE Uses(u)' <= ref'[u]
  BY <1>2
<1>4. ASSUME NEW u \in Tasks, starts'[u] = 0
      PROVE  u \notin deleted' /\ Uses(u)' = 0
  <2>1. u \notin deleted /\ Uses(u) = 0 /\ ~InUse(u)
    <3>1. starts[u] = 0
      BY <1>1, <1>4
    <3> QED
      BY <3>1, InUseReferenced DEF RefInv
  <2>2. Occurrences(u) = 0
    BY <1>2, <2>1
  <2> QED
    BY <1>1, <1>2, <2>1, <2>2
<1>5. ASSUME NEW u \in deleted' PROVE ref'[u] <= 0
  <2>1. u \in Tasks /\ (ref[u] <= 0 \/ ref[u] = Occurrences(u))
    BY <1>1 DEF RefInv, TypeOK
  <2> QED
    BY <1>2, <2>1
<1> QED
  BY <1>3, <1>4, <1>5 DEF RefInv

\* Every step preserves RefInv.
LEMMA RefStep == TypeOK /\ TypeOK' /\ RefInv /\ [Next]_vars => RefInv'
<1> SUFFICES ASSUME TypeOK, TypeOK', RefInv, [Next]_vars PROVE RefInv'
  OBVIOUS
<1> USE DEF pool, limits, threads, users
<1>1. CASE UNCHANGED vars
  BY <1>1, NoRefs DEF vars
<1>2. ASSUME NEW t \in Tasks, TryStart(t) PROVE RefInv'
  <2>1. TryStartTask(t, 0) /\ starts' = [starts EXCEPT ![t] = @ + 1]
    BY <1>2 DEF TryStart, Accept
  <2>2. starts[t] = 0 \/ InUse(t)
    BY <1>2 DEF TryStart, InUse
  <2>3. /\ \A u \in Tasks : u # t => starts'[u] = starts[u]
        /\ starts'[t] >= starts[t] /\ starts'[t] # 0
    BY <2>1 DEF TypeOK
  <2> QED
    BY <2>1, <2>2, <2>3, TryStartRefs
<1>3. ASSUME NEW t \in Tasks, NEW p \in Priorities, Start(t, p) PROVE RefInv'
  <2>1. starts' = [starts EXCEPT ![t] = @ + 1] /\ starts[t] = 0
    BY <1>3 DEF Start, Accept
  <2>2. /\ \A u \in Tasks : u # t => starts'[u] = starts[u]
        /\ starts'[t] >= starts[t] /\ starts'[t] # 0
    BY <2>1 DEF TypeOK
  <2>3. CASE TryStartTask(t, 0)
    BY <2>1, <2>2, <2>3, TryStartRefs
  <2>4. CASE Enqueue(t, p)
    <3>1. /\ queue' = Insert(queue, t, p) /\ Ref(t)
          /\ UNCHANGED <<runnable, current>>
      BY <2>4 DEF Enqueue
    <3>2. ASSUME NEW u \in Tasks
          PROVE  /\ Uses(u)' \in Nat /\ Uses(u)' <= Uses(u) + Same(u, t)
      <4>1. p \in Int /\ queue \in Seq(Entries)
        BY ConstantsAssumption DEF TypeOK
      <4>2. Waiting(Insert(queue, t, p), u) = Waiting(queue, u) + Same(t, u)
        BY <4>1, Inserted
      <4>3. Same(t, u) = Same(u, t) /\ Same(t, u) \in {0, 1}
        BY DEF Same
      <4>4. /\ Waiting(queue, u) \in Nat /\ Holding(runnable, u) \in Nat
            /\ Holding(current, u) \in Nat
        BY UsesCounted
      <4> QED
        BY <3>1, <4>2, <4>3, <4>4 DEF Uses
    <3>3. t \notin deleted
      BY <2>1 DEF RefInv
    <3>4. \A u \in Tasks : starts'[u] = 0 => starts[u] = 0
      BY <2>1, <2>2
    <3> QED
      BY <2>2, <3>1, <3>2, <3>3, <3>4, RefTaken
  <2> QED
    BY <1>3, <2>3, <2>4 DEF Start
<1>4. ASSUME NEW n \in MaxCounts, SetMaxThreadCount(n) PROVE RefInv'
  BY <1>4, NoRefs DEF SetMaxThreadCount
<1>5. CASE ReserveThread \/ ReleaseThread
  BY <1>5, NoRefs DEF ReserveThread, ReleaseThread
<1>6. CASE TryToStartMoreThreads
  <2>1. CASE queue # <<>> /\ TryStartTask(Head(queue).task, 1)
    <3> DEFINE t == Head(queue).task
    <3>1. t \in Tasks /\ InUse(t)
      <4>1. Head(queue) = queue[1] /\ Head(queue) \in Entries /\ 1 \in DOMAIN queue
        BY <2>1, FirstRemoved DEF TypeOK
      <4> QED
        BY <4>1 DEF InUse, Entries
    <3>2. starts' = starts /\ starts[t] # 0
      BY <1>6, <3>1, InUseReferenced DEF TryToStartMoreThreads
    <3>3. /\ \A u \in Tasks : u # t => starts'[u] = starts[u]
          /\ starts'[t] >= starts[t]
      BY <3>1, <3>2 DEF TypeOK
    <3>4. TryStartTask(t, 1) /\ queue # <<>> /\ Head(queue).task = t
      BY <2>1
    <3> HIDE DEF t
    <3> QED
      BY <3>1, <3>2, <3>3, <3>4, TryStartRefs
  <2>2. CASE UNCHANGED <<queue, runnable, current, tasks>>
    BY <2>2, NoRefs
  <2> QED
    BY <1>6, <2>1, <2>2 DEF TryToStartMoreThreads, tasks
<1>7. CASE Clear
  BY <1>7, ClearRefs
<1>8. ASSUME NEW w \in Workers, Begin(w) PROVE RefInv'
  <2> DEFINE r == runnable[w]
  <2>1. /\ current' = [current EXCEPT ![w] = r]
        /\ runnable' = [runnable EXCEPT ![w] = NoTask]
        /\ UNCHANGED <<queue, tasks>>
    BY <1>8 DEF Begin
  <2>2. ASSUME NEW u \in Tasks PROVE Uses(u)' \in Nat /\ Uses(u)' <= Uses(u)
    <3>1. /\ runnable \in Holders /\ runnable' \in Holders
          /\ current \in Holders /\ current' \in Holders
      BY DEF TypeOK, Holders
    <3>2. /\ current'[w] = r /\ \A x \in Workers \ {w} : current'[x] = current[x]
          /\ runnable'[w] = NoTask
          /\ \A x \in Workers \ {w} : runnable'[x] = runnable[x]
      BY <2>1 DEF TypeOK
    <3>3. Holding(current', u)
              = Holding(current, u) + Same(current'[w], u) - Same(current[w], u)
      BY <3>1, <3>2, HoldingChanged
    <3>4. Holding(runnable', u)
              = Holding(runnable, u) + Same(runnable'[w], u)
                - Same(runnable[w], u)
      BY <3>1, <3>2, HoldingChanged
    <3>5. /\ Same(current'[w], u) = Same(runnable[w], u)
          /\ Same(current[w], u) \in {0, 1} /\ Same(runnable[w], u) \in {0, 1}
          /\ Same(runnable'[w], u) = 0
      BY <3>2, ConstantsAssumption DEF Same
    <3>6. Uses(u)' \in Nat /\ Uses(u) \in Nat
      BY UsesCounted, UsesCountedNext
    <3>7. /\ Waiting(queue, u) \in Nat /\ Holding(runnable, u) \in Nat
          /\ Holding(current, u) \in Nat
      BY UsesCounted
    <3>8. Uses(u)' = Uses(u) - Same(current[w], u)
      BY <2>1, <3>3, <3>4, <3>5, <3>7 DEF Uses
    <3> QED
      BY <3>5, <3>6, <3>8
  <2> QED
    BY <2>1, <2>2, RefsKept DEF tasks
<1>9. ASSUME NEW w \in Workers, EndTask(w) PROVE RefInv'
  BY <1>9, EndTaskRefs
<1>10. ASSUME NEW w \in Workers, Resume(w) PROVE RefInv'
  <2>1. CASE ~InSeq(waitingThreads, w) /\ Continue(w, activeThreads + 1)
    <3>1. activeThreads + 1 \in Int
      BY DEF TypeOK
    <3>2. ASSUME NEW u \in Tasks PROVE Uses(u)' \in Nat /\ Uses(u)' <= Uses(u)
      <4>1. Uses(u)' = Uses(u) - Same(current[w], u)
        BY <2>1, <3>1, ContinueUses
      <4>2. Same(current[w], u) \in {0, 1}
        BY DEF Same
      <4> QED
        BY <4>1, <4>2, UsesCounted, UsesCountedNext
    <3>3. UNCHANGED <<starts, ref, deleted>>
      BY <1>10, <2>1 DEF Resume, Continue
    <3> QED
      BY <3>2, <3>3, RefsKept
  <2>2. CASE UNCHANGED <<queue, runnable, current, starts, ref, deleted>>
    BY <2>2, NoRefs DEF tasks
  <2> QED
    BY <1>10, <2>1, <2>2 DEF Resume
<1>11. ASSUME NEW w \in Workers, Finish(w) \/ TimesOut(w) PROVE RefInv'
  BY <1>11, NoRefs DEF Finish, TimesOut
<1>12. ASSUME NEW c \in Clients, WaitForDone(c) \/ CheckDone(c) \/ GiveUp(c)
       PROVE  RefInv'
  BY <1>12, NoRefs DEF WaitForDone, CheckDone, GiveUp
<1>13. ASSUME NEW c \in Clients, Reset(c) \/ WakeForJoin(c) PROVE RefInv'
  BY <1>13, NoRefs DEF Reset, WakeForJoin
<1>14. ASSUME NEW c \in Clients, Joined(c) PROVE RefInv'
  <2> DEFINE w == join[c]
  <2>1. w \in Workers
    BY <1>14 DEF Joined, TypeOK
  <2>2. /\ runnable' = [runnable EXCEPT ![w] = NoTask]
        /\ UNCHANGED <<queue, current, tasks>>
    BY <1>14 DEF Joined
  <2> HIDE DEF w
  <2>3. ASSUME NEW u \in Tasks PROVE Uses(u)' \in Nat /\ Uses(u)' <= Uses(u)
    <3>1. /\ runnable \in Holders /\ runnable' \in Holders
          /\ runnable'[w] = NoTask
          /\ \A x \in Workers \ {w} : runnable'[x] = runnable[x]
      BY <2>1, <2>2 DEF TypeOK, Holders
    <3>2. Holding(runnable', u)
              = Holding(runnable, u) + Same(runnable'[w], u)
                - Same(runnable[w], u)
      BY <2>1, <3>1, HoldingChanged
    <3>3. Same(runnable'[w], u) = 0 /\ Same(runnable[w], u) \in {0, 1}
      BY <3>1, ConstantsAssumption DEF Same
    <3>4. /\ Waiting(queue, u) \in Nat /\ Holding(runnable, u) \in Nat
          /\ Holding(current, u) \in Nat /\ Uses(u)' \in Nat
      BY UsesCounted, UsesCountedNext
    <3> QED
      BY <2>2, <3>2, <3>3, <3>4 DEF Uses
  <2> QED
    BY <2>2, <2>3, RefsKept DEF tasks
<1> QED
  BY <1>1, <1>2, <1>3, <1>4, <1>5, <1>6, <1>7, <1>8, <1>9, <1>10, <1>11, <1>12,
     <1>13, <1>14, ConstantsAssumption DEF Next, WorkerStep, ClientStep

-----------------------------------------------------------------------------
\* The counter that waitForDone looks at.

Tasked(p) == {w \in Workers : p[w] = "task"}
Given(r) == {w \in Workers : r[w] # NoTask}
Load == Cardinality(Tasked(pc)) + Cardinality(Given(runnable))

\* activeThreads counts every runnable that a thread runs or was given.
LoadInv ==
    /\ Load <= activeThreads
    /\ \A w \in Workers : current[w] # NoTask => pc[w] = "task"

LEMMA LoadChanges ==
    ASSUME NEW w \in Workers,
           \A v \in Workers \ {w} :
               /\ pc'[v] = "task" <=> pc[v] = "task"
               /\ runnable'[v] # NoTask <=> runnable[v] # NoTask
    PROVE  /\ Load \in Nat /\ Load' \in Nat
           /\ Load' = Load + Same(pc'[w], "task") - Same(pc[w], "task")
                      + Same(runnable[w], NoTask) - Same(runnable'[w], NoTask)
<1> DEFINE S == Tasked(pc)
           T == Tasked(pc')
           G == Given(runnable)
           H == Given(runnable')
<1>1. /\ S \in SUBSET Workers /\ T \in SUBSET Workers
      /\ G \in SUBSET Workers /\ H \in SUBSET Workers
  BY DEF Tasked, Given
<1>2. /\ \A v \in Workers \ {w} : v \in S <=> v \in T
      /\ \A v \in Workers \ {w} : v \in G <=> v \in H
  BY DEF Tasked, Given
<1>3. /\ w \in S <=> pc[w] = "task"
      /\ w \in T <=> pc'[w] = "task"
      /\ w \in G <=> runnable[w] # NoTask
      /\ w \in H <=> runnable'[w] # NoTask
  BY DEF Tasked, Given
<1>4. Load = Cardinality(S) + Cardinality(G)
  BY DEF Load
<1>5. Load' = Cardinality(T) + Cardinality(H)
  BY DEF Load
<1> HIDE DEF S, T, G, H
<1>6. /\ Cardinality(S) \in Nat /\ Cardinality(T) \in Nat
      /\ Cardinality(G) \in Nat /\ Cardinality(H) \in Nat
  BY <1>1, WorkersCount
<1>7. Cardinality(T) = Cardinality(S) + One(w \in T) - One(w \in S)
  BY <1>1, <1>2, OneMoves
<1>8. Cardinality(H) = Cardinality(G) + One(w \in H) - One(w \in G)
  BY <1>1, <1>2, OneMoves
<1>9. /\ One(w \in T) = Same(pc'[w], "task")
      /\ One(w \in S) = Same(pc[w], "task")
      /\ One(w \in H) = 1 - Same(runnable'[w], NoTask)
      /\ One(w \in G) = 1 - Same(runnable[w], NoTask)
  BY <1>3 DEF One, Same
<1>10. /\ Same(pc'[w], "task") \in {0, 1} /\ Same(pc[w], "task") \in {0, 1}
       /\ Same(runnable'[w], NoTask) \in {0, 1}
       /\ Same(runnable[w], NoTask) \in {0, 1}
  BY DEF Same
<1> QED
  BY <1>4, <1>5, <1>6, <1>7, <1>8, <1>9, <1>10

\* Steps that give no thread a runnable and take none from it.
LEMMA LoadKept ==
    ASSUME TypeOK, LoadInv, UNCHANGED <<activeThreads, current>>,
           \A v \in Workers : /\ pc'[v] = "task" <=> pc[v] = "task"
                              /\ runnable'[v] # NoTask => runnable[v] # NoTask
    PROVE  LoadInv'
<1>1. Tasked(pc') = Tasked(pc) /\ Given(runnable') \subseteq Given(runnable)
  BY DEF Tasked, Given
<1>2. /\ Cardinality(Given(runnable')) <= Cardinality(Given(runnable))
      /\ Cardinality(Given(runnable')) \in Nat
      /\ Cardinality(Given(runnable)) \in Nat /\ Cardinality(Tasked(pc)) \in Nat
  <2> DEFINE G == Given(runnable)
             H == Given(runnable')
             T == Tasked(pc)
  <2>1. /\ G \in SUBSET Workers /\ H \in SUBSET Workers /\ T \in SUBSET Workers
        /\ H \subseteq G
    BY <1>1 DEF Given, Tasked
  <2> HIDE DEF G, H, T
  <2>2. IsFiniteSet(G) /\ Cardinality(G) \in Nat /\ Cardinality(H) \in Nat
        /\ Cardinality(T) \in Nat
    BY <2>1, WorkersCount
  <2>3. Cardinality(H) <= Cardinality(G)
    BY <2>1, <2>2, FS_Subset
  <2> QED
    BY <2>2, <2>3 DEF G, H, T
<1>3. Load' <= activeThreads'
  <2>1. Load' = Cardinality(Tasked(pc)) + Cardinality(Given(runnable'))
    BY <1>1 DEF Load
  <2>2. Cardinality(Tasked(pc)) + Cardinality(Given(runnable)) <= activeThreads
    BY DEF LoadInv, Load
  <2> QED
    BY <1>2, <2>1, <2>2 DEF TypeOK
<1> QED
  BY <1>3 DEF LoadInv

\* tryStart: the thread that is given a runnable is counted.
LEMMA TryStartLoad ==
    ASSUME TypeOK, LoadInv, NEW t \in Tasks, NEW n \in {0, 1},
           TryStartTask(t, n)
    PROVE  LoadInv'
<1>1. ASSUME NEW w \in Workers, StartThread(w, t),
             activeThreads' = activeThreads + 1
      PROVE  LoadInv'
  <2>1. /\ runnable' = [runnable EXCEPT ![w] = t] /\ current' = current
        /\ \/ pc' = pc
           \/ /\ pc[w] \in {"none", "ended"}
              /\ \E l \in {"begin", "ended"} : pc' = [pc EXCEPT ![w] = l]
    BY <1>1 DEF StartThread, Become
  <2>2. /\ \A v \in Workers : pc'[v] = "task" <=> pc[v] = "task"
        /\ \A v \in Workers \ {w} : runnable'[v] # NoTask <=> runnable[v] # NoTask
    BY <2>1 DEF TypeOK, PCs
  <2>3. /\ Load \in Nat /\ Load' \in Nat
        /\ Load' = Load + Same(pc'[w], "task") - Same(pc[w], "task")
                   + Same(runnable[w], NoTask) - Same(runnable'[w], NoTask)
    BY <2>2, LoadChanges
  <2>4. /\ Same(pc'[w], "task") = Same(pc[w], "task")
        /\ Same(pc[w], "task") \in {0, 1}
        /\ Same(runnable[w], NoTask) \in {0, 1}
        /\ Same(runnable'[w], NoTask) \in {0, 1}
    BY <2>2 DEF Same
  <2>5. Load' <= activeThreads'
    BY <1>1, <2>3, <2>4 DEF LoadInv, TypeOK
  <2> QED
    BY <2>1, <2>2, <2>5 DEF LoadInv
<1>2. CASE RecycleThread(t) /\ waitingThreads # <<>>
  <2> DEFINE h == Head(waitingThreads)
  <2>1. h \in Workers /\ Wake(h) /\ UNCHANGED <<activeThreads, runnable, current>>
    BY <1>2, ThreadSeqs DEF RecycleThread, TypeOK
  <2> HIDE DEF h
  <2>2. \A v \in Workers : pc'[v] = "task" <=> pc[v] = "task"
    BY <2>1 DEF Wake, TypeOK
  <2> QED
    BY <2>1, <2>2, LoadKept
<1>3. CASE RestartThread(t) /\ expiredThreads # <<>>
  <2>1. Head(expiredThreads) \in Workers
    BY <1>3, ThreadSeqs DEF TypeOK
  <2> QED
    BY <1>1, <1>3, <2>1 DEF RestartThread
<1>4. CASE NewThread(t)
  BY <1>1, <1>4 DEF NewThread
<1> QED
  BY <1>2, <1>3, <1>4 DEF TryStartTask

\* A thread that goes on: n counts it, without its runnable.
LEMMA ContinueLoad ==
    ASSUME TypeOK, TypeOK', LoadInv, NEW w \in Workers, NEW n \in Int,
           Continue(w, n),
           n = activeThreads + 1 - Same(pc[w], "task")
    PROVE  LoadInv'
<1>1. Same(pc[w], "task") \in {0, 1} /\ runnable' = runnable
  BY DEF Same, Continue
<1>2. ASSUME NEW l \in PCs, Become(w, l)
      PROVE  /\ Load \in Nat /\ Load' \in Nat
             /\ Load' = Load + Same(l, "task") - Same(pc[w], "task")
  <2>1. /\ pc'[w] = l /\ pc' = [pc EXCEPT ![w] = l]
        /\ \A v \in Workers \ {w} : /\ pc'[v] = "task" <=> pc[v] = "task"
                                    /\ runnable'[v] # NoTask <=> runnable[v] # NoTask
    BY <1>1, <1>2 DEF Become, TypeOK
  <2>2. /\ Load \in Nat /\ Load' \in Nat
        /\ Load' = Load + Same(pc'[w], "task") - Same(pc[w], "task")
                   + Same(runnable[w], NoTask) - Same(runnable'[w], NoTask)
    BY <2>1, LoadChanges
  <2>3. Same(pc'[w], "task") = Same(l, "task")
        /\ Same(l, "task") \in {0, 1}
        /\ Same(runnable'[w], NoTask) = Same(runnable[w], NoTask)
        /\ Same(runnable[w], NoTask) \in {0, 1}
    BY <1>1, <2>1 DEF Same
  <2> QED
    BY <1>1, <2>2, <2>3
<1>3. CASE Rest(w, n)
  <2>1. PICK l \in {"done", "idle"} : Become(w, l)
    BY <1>3 DEF Rest
  <2>2. current' = [current EXCEPT ![w] = NoTask] /\ activeThreads' = n - 1
    BY <1>3 DEF Rest, RegisterThreadInactive
  <2>3. Load' <= activeThreads'
    <3>1. Same(l, "task") = 0 /\ l \in PCs
      BY DEF Same, PCs
    <3> QED
      BY <1>1, <1>2, <2>1, <2>2, <3>1 DEF LoadInv, TypeOK
  <2>4. \A v \in Workers : current'[v] # NoTask => pc'[v] = "task"
    BY <2>1, <2>2 DEF Become, LoadInv, TypeOK
  <2> QED
    BY <2>3, <2>4 DEF LoadInv
<1>4. CASE /\ Become(w, "task") /\ activeThreads' = n
           /\ \E u : current' = [current EXCEPT ![w] = u]
  <2>1. Load' <= activeThreads'
    <3>1. Same("task", "task") = 1 /\ "task" \in PCs
      BY DEF Same, PCs
    <3> QED
      BY <1>1, <1>2, <1>4, <3>1 DEF LoadInv, TypeOK
  <2>2. \A v \in Workers : current'[v] # NoTask => pc'[v] = "task"
    BY <1>4 DEF Become, LoadInv, TypeOK
  <2> QED
    BY <2>1, <2>2 DEF LoadInv
<1> QED
  BY <1>3, <1>4 DEF Continue

\* No runnable is deleted while the pool will still run it, or runs it.
THEOREM RunnablesAreReferenced == Spec => []NotDeletedInUse
<1>1. Init => TypeOK
  BY InitTyped
<1>2. Init => RefInv
  <2> SUFFICES ASSUME Init PROVE RefInv
    OBVIOUS
  <2>1. TypeOK
    BY <1>1
  <2>2. ASSUME NEW t \in Tasks PROVE Uses(t) = 0
    <3>1. ~InUse(t)
      BY ConstantsAssumption DEF Init, InUse
    <3> QED
      BY <2>1, <3>1, UsesCounted
  <2> QED
    BY <2>2 DEF Init, RefInv
<1>3. TypeOK /\ RefInv => NotDeletedInUse
  BY InUseReferenced DEF NotDeletedInUse, TypeOK
<1> QED
  BY <1>1, <1>2, <1>3, TypeStep, RefStep, PTL DEF Spec

\* Every step preserves LoadInv.
LEMMA LoadStep == TypeOK /\ TypeOK' /\ LoadInv /\ [Next]_vars => LoadInv'
<1> SUFFICES ASSUME TypeOK, TypeOK', LoadInv, [Next]_vars PROVE LoadInv'
  OBVIOUS
<1> USE DEF pool, limits, threads, users, history
<1>1. CASE UNCHANGED <<activeThreads, threads>>
  BY <1>1, LoadKept
<1>2. ASSUME NEW t \in Tasks, TryStart(t) PROVE LoadInv'
  BY <1>2, TryStartLoad DEF TryStart
<1>3. ASSUME NEW t \in Tasks, NEW p \in Priorities, Start(t, p) PROVE LoadInv'
  <2>1. CASE TryStartTask(t, 0)
    BY <2>1, TryStartLoad
  <2>2. CASE Enqueue(t, p)
    <3>1. UNCHANGED <<activeThreads, runnable, current>>
      BY <2>2 DEF Enqueue
    <3>2. \A v \in Workers : pc'[v] = "task" <=> pc[v] = "task"
      <4>1. CASE waitingThreads = <<>>
        BY <2>2, <4>1 DEF Enqueue
      <4>2. CASE waitingThreads # <<>>
        <5> DEFINE h == Head(waitingThreads)
        <5>1. h \in Workers /\ Wake(h)
          BY <2>2, <4>2, ThreadSeqs DEF Enqueue, TypeOK
        <5> HIDE DEF h
        <5> QED
          BY <5>1 DEF Wake, TypeOK
      <4> QED
        BY <4>1, <4>2
    <3> QED
      BY <3>1, <3>2, LoadKept
  <2> QED
    BY <1>3, <2>1, <2>2 DEF Start
<1>4. CASE TryToStartMoreThreads
  <2>1. CASE queue # <<>> /\ TryStartTask(Head(queue).task, 1)
    <3> DEFINE t == Head(queue).task
    <3>1. t \in Tasks
      BY <2>1, FirstRemoved DEF TypeOK, Entries
    <3>2. TryStartTask(t, 1)
      BY <2>1
    <3> HIDE DEF t
    <3> QED
      BY <3>1, <3>2, TryStartLoad
  <2> QED
    BY <1>1, <1>4, <2>1 DEF TryToStartMoreThreads
<1>5. ASSUME NEW w \in Workers, Begin(w) PROVE LoadInv'
  <2>1. /\ pc' = [pc EXCEPT ![w] = "task"] /\ pc[w] = "begin"
        /\ runnable' = [runnable EXCEPT ![w] = NoTask] /\ runnable[w] # NoTask
        /\ current' = [current EXCEPT ![w] = runnable[w]]
        /\ activeThreads' = activeThreads
    BY <1>5 DEF Begin, Become, TypeOK
  <2>2. \A v \in Workers \ {w} : /\ pc'[v] = "task" <=> pc[v] = "task"
                                 /\ runnable'[v] # NoTask <=> runnable[v] # NoTask
    BY <2>1 DEF TypeOK
  <2>3. /\ Load \in Nat /\ Load' \in Nat
        /\ Load' = Load + Same(pc'[w], "task") - Same(pc[w], "task")
                   + Same(runnable[w], NoTask) - Same(runnable'[w], NoTask)
    BY <2>2, LoadChanges
  <2>4. /\ Same(pc'[w], "task") = 1 /\ Same(pc[w], "task") = 0
        /\ Same(runnable[w], NoTask) = 0 /\ Same(runnable'[w], NoTask) = 1
    BY <2>1 DEF Same, TypeOK
  <2>5. Load' <= activeThreads'
    BY <2>1, <2>3, <2>4 DEF LoadInv, TypeOK
  <2>6. \A v \in Workers : current'[v] # NoTask => pc'[v] = "task"
    BY <2>1 DEF LoadInv, TypeOK
  <2> QED
    BY <2>5, <2>6 DEF LoadInv
<1>6. ASSUME NEW w \in Workers, EndTask(w) PROVE LoadInv'
  <2>1. Same(pc[w], "task") = 1
    BY <1>6 DEF EndTask, Same
  <2>2. activeThreads \in Int /\ activeThreads = activeThreads + 1 - 1
    BY DEF TypeOK
  <2>3. activeThreads = activeThreads + 1 - Same(pc[w], "task")
    BY <2>1, <2>2
  <2> QED
    BY <1>6, <2>2, <2>3, ContinueLoad DEF EndTask
<1>7. ASSUME NEW w \in Workers, Resume(w) PROVE LoadInv'
  <2>1. CASE Continue(w, activeThreads + 1)
    <3>1. Same(pc[w], "task") = 0
      BY <1>7 DEF Resume, Same
    <3>2. /\ activeThreads + 1 \in Int
          /\ activeThreads + 1 = activeThreads + 1 - Same(pc[w], "task")
      BY <3>1 DEF TypeOK
    <3> QED
      BY <2>1, <3>2, ContinueLoad
  <2>2. CASE /\ Become(w, "done") /\ RegisterThreadInactive(activeThreads + 1)
             /\ UNCHANGED <<runnable, current>>
    <3>1. activeThreads' = activeThreads
      BY <2>2 DEF RegisterThreadInactive, TypeOK
    <3>2. \A v \in Workers : pc'[v] = "task" <=> pc[v] = "task"
      BY <1>7, <2>2 DEF Resume, Become, TypeOK
    <3> QED
      BY <2>2, <3>1, <3>2, LoadKept
  <2> QED
    BY <1>7, <2>1, <2>2 DEF Resume
<1>8. ASSUME NEW w \in Workers, Finish(w) \/ TimesOut(w) PROVE LoadInv'
  <2>1. \A v \in Workers : pc'[v] = "task" <=> pc[v] = "task"
    BY <1>8 DEF Finish, TimesOut, Become, TypeOK
  <2> QED
    BY <1>8, <2>1, LoadKept DEF Finish, TimesOut
<1>9. ASSUME NEW c \in Clients, WakeForJoin(c) PROVE LoadInv'
  <2>1. \A v \in Workers : pc'[v] = "task" <=> pc[v] = "task"
    BY <1>9 DEF WakeForJoin, Wake, TypeOK
  <2> QED
    BY <1>9, <2>1, LoadKept DEF WakeForJoin
<1>10. ASSUME NEW c \in Clients, Joined(c) PROVE LoadInv'
  <2> DEFINE w == join[c]
  <2>1. /\ pc[w] = "ended" /\ pc' = [pc EXCEPT ![w] = "none"]
        /\ runnable' = [runnable EXCEPT ![w] = NoTask]
        /\ UNCHANGED <<activeThreads, current>>
    BY <1>10 DEF Joined, Become
  <2> HIDE DEF w
  <2>2. \A v \in Workers : /\ pc'[v] = "task" <=> pc[v] = "task"
                           /\ runnable'[v] # NoTask => runnable[v] # NoTask
    BY <2>1 DEF TypeOK
  <2> QED
    BY <2>1, <2>2, LoadKept
<1>11. CASE \/ UNCHANGED vars \/ ReserveThread \/ ReleaseThread \/ Clear
            \/ \E n \in MaxCounts : SetMaxThreadCount(n)
            \/ \E c \in Clients : \/ WaitForDone(c) \/ CheckDone(c) \/ GiveUp(c)
                                  \/ Reset(c)
  <2>1. UNCHANGED <<activeThreads, threads>>
    BY <1>11 DEF vars, ReserveThread, ReleaseThread, Clear, SetMaxThreadCount,
                 WaitForDone, CheckDone, GiveUp, Reset
  <2> QED
    BY <1>1, <2>1
<1> QED
  BY <1>2, <1>3, <1>4, <1>5, <1>6, <1>7, <1>8, <1>9, <1>10, <1>11,
     ConstantsAssumption DEF Next, WorkerStep, ClientStep

\* When waitForDone finds the pool done, the pool has no runnable.
LEMMA DoneIsUnused ==
    ASSUME TypeOK, LoadInv, IsDone, NEW t \in Tasks
    PROVE  ~InUse(t)
<1> DEFINE T == Tasked(pc)
           G == Given(runnable)
<1>1. /\ T \in SUBSET Workers /\ G \in SUBSET Workers
      /\ Cardinality(T) + Cardinality(G) <= 0
  BY DEF Tasked, Given, LoadInv, Load, IsDone
<1> HIDE DEF T, G
<1>2. /\ Cardinality(T) \in Nat /\ Cardinality(G) \in Nat
      /\ Cardinality(T) = 0 => T = {}
      /\ Cardinality(G) = 0 => G = {}
  BY <1>1, WorkersCount
<1>3. T = {} /\ G = {}
  BY <1>1, <1>2
<1>4. \A w \in Workers : runnable[w] = NoTask /\ pc[w] # "task"
  BY <1>3 DEF T, G, Tasked, Given
<1>5. \A w \in Workers : current[w] = NoTask
  BY <1>4 DEF LoadInv
<1> QED
  BY <1>4, <1>5, ConstantsAssumption DEF InUse, IsDone

\* waitForDone goes on to remove the threads only when every runnable that the
\* pool accepted has returned or was cleared, however many threads call it.
THEOREM WaitForDoneWaits == Spec => WaitedForAll
<1>1. Init => LoadInv
  <2> SUFFICES ASSUME Init PROVE LoadInv
    OBVIOUS
  <2>1. Tasked(pc) = {} /\ Given(runnable) = {}
    BY DEF Init, Tasked, Given
  <2>2. Cardinality({}) = 0
    BY FS_EmptySet
  <2>3. Load = 0
    BY <2>1, <2>2 DEF Load
  <2> QED
    BY <2>3 DEF Init, LoadInv
<1>2. TypeOK /\ LoadInv /\ [Next]_vars
          => [\A c \in Clients : at[c] \in {"checks", "asleep"} /\ at'[c] = "reset"
                                     => \A t \in Tasks : ~InUse(t)]_vars
  <2> SUFFICES ASSUME TypeOK, LoadInv, Next,
                      NEW c \in Clients, at[c] \in {"checks", "asleep"},
                      at'[c] = "reset"
               PROVE  IsDone
    BY DoneIsUnused
  <2> USE DEF users
  <2>1. at' # at
    OBVIOUS
  <2>2. ASSUME NEW w \in Workers, NEW n, Continue(w, n) PROVE FALSE
    BY <2>2 DEF Continue, Rest, RegisterThreadInactive
  <2>3. ASSUME NEW w \in Workers, EndTask(w) \/ Resume(w) PROVE FALSE
    BY <2>2, <2>3 DEF EndTask, Resume, RegisterThreadInactive
  <2>4. ASSUME NEW d \in Clients,
               \/ WaitForDone(d) \/ Reset(d) \/ WakeForJoin(d) \/ Joined(d)
        PROVE  FALSE
    BY <2>4 DEF WaitForDone, Reset, WakeForJoin, Joined, GoTo, TypeOK
  <2>5. ASSUME NEW d \in Clients, CheckDone(d) \/ GiveUp(d) PROVE IsDone
    BY <2>5 DEF CheckDone, GiveUp, GoTo, TypeOK
  <2>6. \/ \E w \in Workers : EndTask(w) \/ Resume(w)
        \/ \E d \in Clients : \/ WaitForDone(d) \/ Reset(d) \/ WakeForJoin(d)
                              \/ Joined(d) \/ CheckDone(d) \/ GiveUp(d)
    BY <2>1, ConstantsAssumption
       DEF Next, WorkerStep, ClientStep, TryStart, Start, TryStartTask, Enqueue, SetMaxThreadCount, ReserveThread, ReleaseThread,
                TryToStartMoreThreads, Clear, Begin, Finish, TimesOut
  <2> QED
    BY <2>3, <2>4, <2>5, <2>6
<1> QED
  BY <1>1, <1>2, InitTyped, TypeStep, LoadStep, PTL DEF Spec, WaitedForAll

-----------------------------------------------------------------------------
\* The sets and the counter agree, until the pool is used during a reset().

OnceEach(s) == \A i, j \in DOMAIN s : s[i] = s[j] => i = j

\* What is in a sequence without its first thread, without another, and with
\* one more.
LEMMA InTail ==
    ASSUME NEW s \in Seq(Workers), s # <<>>, OnceEach(s)
    PROVE  /\ OnceEach(Tail(s)) /\ InSeq(s, Head(s)) /\ Head(s) \in Workers
           /\ \A v : InSeq(Tail(s), v) <=> InSeq(s, v) /\ v # Head(s)
<1> DEFINE r == Tail(s)
           h == Head(s)
<1>1. /\ h \in Workers /\ r \in Seq(Workers) /\ h = s[1]
      /\ Len(r) = Len(s) - 1 /\ Len(s) \in Nat /\ Len(s) >= 1
      /\ DOMAIN s = 1..Len(s) /\ DOMAIN r = 1..(Len(s) - 1)
      /\ \A i \in 1..(Len(s) - 1) : r[i] = s[i + 1]
  BY ThreadSeqs
<1> HIDE DEF r, h
<1>2. OnceEach(r)
  <2> SUFFICES ASSUME NEW i \in DOMAIN r, NEW j \in DOMAIN r, r[i] = r[j]
               PROVE  i = j
    BY DEF OnceEach
  <2>1. i + 1 \in DOMAIN s /\ j + 1 \in DOMAIN s /\ s[i + 1] = s[j + 1]
    BY <1>1
  <2>2. i + 1 = j + 1
    BY <2>1 DEF OnceEach
  <2> QED
    BY <1>1, <2>2
<1>3. 1 \in DOMAIN s
  BY <1>1
<1>4. ASSUME NEW v PROVE InSeq(r, v) <=> InSeq(s, v) /\ v # h
  <2>1. ASSUME InSeq(r, v) PROVE InSeq(s, v) /\ v # h
    <3>1. PICK i \in DOMAIN r : r[i] = v
      BY <2>1 DEF InSeq
    <3>2. i + 1 \in DOMAIN s /\ s[i + 1] = v /\ i + 1 # 1
      BY <1>1, <3>1
    <3>3. v # h
      BY <1>1, <1>3, <3>2 DEF OnceEach
    <3> QED
      BY <3>2, <3>3 DEF InSeq
  <2>2. ASSUME InSeq(s, v), v # h PROVE InSeq(r, v)
    <3>1. PICK i \in DOMAIN s : s[i] = v
      BY <2>2 DEF InSeq
    <3>2. i # 1
      BY <1>1, <2>2, <3>1
    <3>3. i - 1 \in 1..(Len(s) - 1) /\ (i - 1) + 1 = i
      BY <1>1, <3>1, <3>2
    <3>4. r[i - 1] = s[i]
      BY <1>1, <3>3
    <3> QED
      BY <1>1, <3>1, <3>3, <3>4 DEF InSeq
  <2> QED
    BY <2>1, <2>2
<1>5. InSeq(s, h)
  BY <1>1, <1>3 DEF InSeq
<1> QED
  BY <1>1, <1>2, <1>4, <1>5 DEF r, h

LEMMA InWithout ==
    ASSUME NEW s \in Seq(Workers), NEW k \in DOMAIN s, OnceEach(s)
    PROVE  /\ OnceEach(Without(s, k))
           /\ \A v : InSeq(Without(s, k), v) <=> InSeq(s, v) /\ v # s[k]
<1> DEFINE r == Without(s, k)
           l == Len(s) - 1
<1>1. /\ Len(s) \in Nat /\ DOMAIN s = 1..Len(s) /\ k \in 1..Len(s)
      /\ r \in Seq(Workers) /\ Len(r) = l
      /\ \A j \in 1..(k - 1) : r[j] = s[j]
      /\ \A j \in k..l : r[j] = s[j + 1]
  <2>1. Len(s) \in Nat /\ DOMAIN s = 1..Len(s) /\ k \in 1..Len(s)
    BY ThreadSeqs
  <2> QED
    BY <2>1, WithoutOne
<1>2. DOMAIN r = 1..l /\ l \in Nat /\ Len(s) = l + 1
  BY <1>1
<1> HIDE DEF r, l
<1> DEFINE o(j) == IF j < k THEN j ELSE j + 1
<1>3. ASSUME NEW j \in DOMAIN r
      PROVE  j \in Int /\ o(j) \in DOMAIN s /\ o(j) # k /\ r[j] = s[o(j)]
  BY <1>1, <1>2
<1>4. ASSUME NEW i \in DOMAIN r, NEW j \in DOMAIN r, r[i] = r[j] PROVE i = j
  <2>1. o(i) = o(j)
    BY <1>3, <1>4 DEF OnceEach
  <2> QED
    BY <1>1, <1>2, <2>1
<1>5. ASSUME NEW v, InSeq(r, v) PROVE InSeq(s, v) /\ v # s[k]
  <2>1. PICK j \in DOMAIN r : r[j] = v
    BY <1>5 DEF InSeq
  <2>2. o(j) \in DOMAIN s /\ s[o(j)] = v /\ o(j) # k
    BY <1>3, <2>1
  <2> HIDE DEF o
  <2> QED
    BY <2>2 DEF InSeq, OnceEach
<1>6. ASSUME NEW v, InSeq(s, v), v # s[k] PROVE InSeq(r, v)
  <2>1. PICK i \in DOMAIN s : s[i] = v
    BY <1>6 DEF InSeq
  <2>2. i # k /\ i \in 1..Len(s)
    BY <1>1, <1>6, <2>1
  <2>3. CASE i < k
    <3>1. i \in DOMAIN r /\ r[i] = s[i]
      BY <1>1, <1>2, <2>2, <2>3
    <3> QED
      BY <2>1, <3>1 DEF InSeq
  <2>4. CASE i > k
    <3>1. i - 1 \in k..l /\ (i - 1) + 1 = i /\ i - 1 \in DOMAIN r
      BY <1>1, <1>2, <2>2, <2>4
    <3>2. r[i - 1] = s[i]
      BY <1>1, <3>1
    <3> QED
      BY <2>1, <3>1, <3>2 DEF InSeq
  <2> QED
    BY <1>1, <2>2, <2>3, <2>4
<1> QED
  BY <1>4, <1>5, <1>6 DEF OnceEach, r

LEMMA InAppend ==
    ASSUME NEW s \in Seq(Workers), NEW w \in Workers, OnceEach(s), ~InSeq(s, w)
    PROVE  /\ OnceEach(Append(s, w))
           /\ \A v : InSeq(Append(s, w), v) <=> InSeq(s, v) \/ v = w
<1> DEFINE r == Append(s, w)
<1>1. /\ Len(s) \in Nat /\ DOMAIN s = 1..Len(s) /\ DOMAIN r = 1..(Len(s) + 1)
      /\ r[Len(s) + 1] = w /\ \A i \in 1..Len(s) : r[i] = s[i]
  BY ThreadSeqs
<1> HIDE DEF r
<1>2. ASSUME NEW i \in DOMAIN r
      PROVE  \/ i \in DOMAIN s /\ r[i] = s[i] /\ r[i] # w
             \/ i = Len(s) + 1 /\ r[i] = w
  BY <1>1 DEF InSeq
<1>3. ASSUME NEW i \in DOMAIN r, NEW j \in DOMAIN r, r[i] = r[j] PROVE i = j
  BY <1>2, <1>3 DEF OnceEach
<1>4. ASSUME NEW v PROVE InSeq(r, v) <=> InSeq(s, v) \/ v = w
  <2>1. InSeq(r, v) => InSeq(s, v) \/ v = w
    BY <1>2 DEF InSeq
  <2>2. InSeq(s, v) => InSeq(r, v)
    BY <1>1 DEF InSeq
  <2>3. InSeq(r, w)
    BY <1>1 DEF InSeq
  <2> QED
    BY <2>1, <2>2, <2>3
<1> QED
  BY <1>3, <1>4 DEF OnceEach, r

\* A sequence in which every thread is once is as long as they are many.
LEMMA OnceEachCount ==
    ASSUME NEW s \in Seq(Workers), OnceEach(s)
    PROVE  Len(s) = Cardinality({w \in Workers : InSeq(s, w)})
<1> DEFINE S == {w \in Workers : InSeq(s, w)}
           D == 1..Len(s)
<1>1. Len(s) \in Nat /\ DOMAIN s = D /\ \A i \in D : s[i] \in Workers
  BY ThreadSeqs
<1>2. IsFiniteSet(D) /\ Cardinality(D) = Len(s)
  <2>1. \A m \in Nat : IsFiniteSet(1..m) /\ Cardinality(1..m) = m
    BY FS_Interval
  <2> QED
    BY <1>1, <2>1
<1> DEFINE f == [i \in D |-> s[i]]
<1>3. f \in Bijection(D, S)
  <2>1. \A i \in D : f[i] \in S
    BY <1>1 DEF InSeq
  <2>2. f \in [D -> S]
    BY <2>1
  <2>3. \A w \in S : \E i \in D : f[i] = w
    BY <1>1 DEF InSeq
  <2>4. \A i, j \in D : f[i] = f[j] => i = j
    BY <1>1 DEF OnceEach
  <2> HIDE DEF f, D, S
  <2> QED
    BY <2>2, <2>3, <2>4, Fun_IsBij
<1> HIDE DEF f, D, S
<1>4. ExistsBijection(D, S)
  BY <1>3, Fun_ExistsBij
<1>5. Cardinality(S) = Cardinality(D)
  BY <1>2, <1>4, FS_Bijection
<1> QED
  BY <1>2, <1>5 DEF S

AtReset(c) == at[c] \in {"reset", "again", "joins", "joining"}
Removing(c) == at[c] \in {"again", "joins", "joining"}

\* Every thread is where its state says: in allThreads since it was created,
\* in waitingThreads when it waits and nobody has woken it up, in expiredThreads
\* when it is over and was not started again.
Home ==
    /\ OnceEach(waitingThreads) /\ OnceEach(expiredThreads)
    /\ \A w \in Workers :
        /\ w \in allThreads <=> pc[w] # "none"
        /\ pc[w] = "idle" => InSeq(waitingThreads, w)
        /\ InSeq(waitingThreads, w) => pc[w] \in {"idle", "woken"}
        /\ pc[w] \in Over => (InSeq(expiredThreads, w) <=> runnable[w] = NoTask)
        /\ InSeq(expiredThreads, w) => pc[w] \in Over

\* activeThreads counts the threads that have a runnable; those are given one
\* before they begin only.
PoolInv ==
    /\ activeThreads = Cardinality(Busy)
    /\ \A w \in Workers : runnable[w] # NoTask => pc[w] \in Over \cup {"begin"}

\* From the last check of waitForDone to the end of reset() the pool has nothing
\* to do, and one thread is there; while it removes the threads, those that are
\* left are its own.
UserInv ==
    /\ \A c, d \in Clients : AtReset(c) /\ AtReset(d) => c = d
    /\ \A c \in Clients : AtReset(c) => IsDone
    /\ isExiting <=> \E c \in Clients : Removing(c)
    /\ isExiting \/ Home
    /\ \A c \in Clients : Removing(c) =>
           /\ allThreads = {}
           /\ \A w \in Workers : pc[w] # "none" => w \in copy[c]
    /\ \A c \in Clients : at[c] = "again" => copy[c] = {}

\* As long as nobody has started a runnable during a reset(), or begun another.
CountInv == ~disturbed => PoolInv /\ UserInv

LEMMA BusyChanges ==
    ASSUME NEW w \in Workers,
           \A v \in Workers \ {w} : v \in Busy' <=> v \in Busy
    PROVE  /\ Cardinality(Busy) \in Nat /\ Cardinality(Busy') \in Nat
           /\ w \in Busy /\ w \in Busy'
                  => Cardinality(Busy') = Cardinality(Busy)
           /\ w \notin Busy /\ w \notin Busy'
                  => Cardinality(Busy') = Cardinality(Busy)
           /\ w \notin Busy /\ w \in Busy'
                  => Cardinality(Busy') = Cardinality(Busy) + 1
           /\ w \in Busy /\ w \notin Busy'
                  => Cardinality(Busy') = Cardinality(Busy) - 1
<1> DEFINE S == Busy
           T == Busy'
<1>1. S \in SUBSET Workers /\ T \in SUBSET Workers
  BY DEF Busy
<1>2. \A v \in Workers \ {w} : v \in S <=> v \in T
  OBVIOUS
<1> HIDE DEF S, T
<1>3. Cardinality(S) \in Nat /\ Cardinality(T) \in Nat
  BY <1>1, WorkersCount
<1>4. Cardinality(T) = Cardinality(S) + One(w \in T) - One(w \in S)
  BY <1>1, <1>2, OneMoves
<1>5. /\ w \in S /\ w \in T => Cardinality(T) = Cardinality(S)
      /\ w \notin S /\ w \notin T => Cardinality(T) = Cardinality(S)
      /\ w \notin S /\ w \in T => Cardinality(T) = Cardinality(S) + 1
      /\ w \in S /\ w \notin T => Cardinality(T) = Cardinality(S) - 1
  BY <1>3, <1>4 DEF One
<1> QED
  BY <1>3, <1>5 DEF S, T

\* Without active threads no thread has a runnable.
LEMMA NoneBusy ==
    ASSUME PoolInv, activeThreads = 0
    PROVE  /\ Busy = {}
           /\ \A w \in Workers : runnable[w] = NoTask /\ pc[w] \notin {"begin", "task"}
<1>1. Busy \in SUBSET Workers /\ Cardinality(Busy) = 0
  BY DEF Busy, PoolInv
<1>2. Busy = {}
  BY <1>1, WorkersCount
<1> QED
  BY <1>2 DEF Busy

\* Nobody removes the threads while the pool has something to do.
LEMMA Using ==
    ASSUME PoolInv, UserInv,
           \/ queue # <<>> \/ ~Resetting
           \/ \E w \in Workers : pc[w] \in {"begin", "task"}
    PROVE  /\ Home /\ ~isExiting
           /\ \A c \in Clients : ~AtReset(c)
<1>1. ASSUME NEW c \in Clients, AtReset(c) PROVE FALSE
  <2>1. IsDone
    BY <1>1 DEF UserInv
  <2>2. queue = <<>> /\ \A w \in Workers : pc[w] \notin {"begin", "task"}
    BY <2>1, NoneBusy DEF IsDone
  <2> QED
    BY <1>1, <2>2 DEF Resetting, AtReset
<1>2. \A c \in Clients : ~Removing(c)
  BY <1>1 DEF Removing, AtReset
<1> QED
  BY <1>1, <1>2 DEF UserInv

\* What keeps UserInv: a step of the pool in use, and one that is no business
\* of reset().
LEMMA UserInUse ==
    ASSUME Home', ~isExiting', \A c \in Clients : ~AtReset(c)'
    PROVE  UserInv'
<1>1. \A c \in Clients : ~Removing(c)' /\ at'[c] # "again"
  BY DEF Removing, AtReset
<1> QED
  BY <1>1 DEF UserInv

LEMMA UserKept ==
    ASSUME UserInv, UNCHANGED <<allThreads, isExiting, copy>>,
           \A c \in Clients :
               \/ at'[c] = at[c]
               \/ /\ at[c] \notin {"reset", "joins", "joining", "again"}
                  /\ at'[c] \notin {"reset", "joins", "joining", "again"},
           \A w \in Workers : pc'[w] # "none" => pc[w] # "none",
           IsDone => IsDone',
           ~isExiting /\ Home => Home'
    PROVE  UserInv'
<1>1. \A c \in Clients : /\ Removing(c)' <=> Removing(c)
                         /\ AtReset(c)' <=> AtReset(c)
                         /\ at'[c] = "again" <=> at[c] = "again"
  BY DEF Removing, AtReset
<1>2. /\ \A c \in Clients : AtReset(c)' => IsDone'
      /\ \A c, d \in Clients : AtReset(c)' /\ AtReset(d)' => c = d
  BY <1>1 DEF UserInv
<1>3. isExiting' <=> \E c \in Clients : Removing(c)'
  BY <1>1 DEF UserInv
<1>4. isExiting' \/ Home'
  BY DEF UserInv
<1>5. \A c \in Clients : Removing(c)' =>
           /\ allThreads' = {}
           /\ \A w \in Workers : pc'[w] # "none" => w \in copy'[c]
  BY <1>1 DEF UserInv
<1>6. \A c \in Clients : at'[c] = "again" => copy'[c] = {}
  BY <1>1 DEF UserInv
<1> QED
  BY <1>2, <1>3, <1>4, <1>5, <1>6 DEF UserInv

\* Waking up a thread that waits, with or without taking it out of the sequence.
LEMMA WakeFirstPool ==
    ASSUME TypeOK, PoolInv, Home, waitingThreads # <<>>,
           Wake(Head(waitingThreads)), waitingThreads' = Tail(waitingThreads),
           UNCHANGED <<allThreads, expiredThreads, activeThreads, runnable>>
    PROVE  PoolInv' /\ Home'
<1> DEFINE h == Head(waitingThreads)
<1>1. /\ h \in Workers /\ InSeq(waitingThreads, h) /\ OnceEach(waitingThreads')
      /\ \A v : InSeq(waitingThreads', v) <=> InSeq(waitingThreads, v) /\ v # h
  BY InTail DEF TypeOK, Home
<1>2. pc' = [pc EXCEPT ![h] = IF @ = "idle" THEN "woken" ELSE @]
  BY DEF Wake
<1> HIDE DEF h
<1>3. pc[h] \in {"idle", "woken"} /\ pc'[h] = "woken"
  BY <1>1, <1>2 DEF Home, TypeOK
<1>4. \A v \in Workers \ {h} : pc'[v] = pc[v]
  BY <1>2 DEF TypeOK
<1>5. Busy' = Busy
  BY <1>1, <1>3, <1>4 DEF Busy
<1>6. PoolInv'
  BY <1>3, <1>4, <1>5 DEF PoolInv, Over
<1>7. Home'
  <2> SUFFICES ASSUME NEW w \in Workers
               PROVE  /\ w \in allThreads' <=> pc'[w] # "none"
                      /\ pc'[w] = "idle" => InSeq(waitingThreads', w)
                      /\ InSeq(waitingThreads', w) => pc'[w] \in {"idle", "woken"}
                      /\ pc'[w] \in Over
                             => (InSeq(expiredThreads', w) <=> runnable'[w] = NoTask)
                      /\ InSeq(expiredThreads', w) => pc'[w] \in Over
    BY <1>1 DEF Home
  <2>1. CASE w = h
    BY <1>1, <1>3, <2>1 DEF Home, Over
  <2>2. CASE w # h
    BY <1>1, <1>4, <2>2 DEF Home
  <2> QED
    BY <2>1, <2>2
<1> QED
  BY <1>6, <1>7

\* A thread is started, a new one or one that was expired.
LEMMA StartThreadPool ==
    ASSUME TypeOK, PoolInv, Home, NEW t \in Tasks, NEW w \in Workers,
           StartThread(w, t), activeThreads' = activeThreads + 1,
           UNCHANGED waitingThreads, allThreads' = allThreads \cup {w},
           \/ pc[w] = "none" /\ UNCHANGED expiredThreads
           \/ /\ expiredThreads # <<>> /\ w = Head(expiredThreads)
              /\ expiredThreads' = Tail(expiredThreads)
    PROVE  PoolInv' /\ Home'
<1>0. t # NoTask
  BY ConstantsAssumption
<1>1. /\ OnceEach(expiredThreads')
      /\ \A v : InSeq(expiredThreads', v) <=> InSeq(expiredThreads, v) /\ v # w
      /\ pc[w] \in Over \cup {"none"}
  <2>1. CASE pc[w] = "none" /\ UNCHANGED expiredThreads
    <3>1. ~InSeq(expiredThreads, w)
      BY <2>1 DEF Home, Over
    <3> QED
      BY <2>1, <3>1 DEF Home
  <2>2. CASE /\ expiredThreads # <<>> /\ w = Head(expiredThreads)
             /\ expiredThreads' = Tail(expiredThreads)
    BY <2>2, InTail DEF TypeOK, Home
  <2> QED
    BY <2>1, <2>2
<1>2. /\ runnable[w] = NoTask /\ pc[w] \notin {"begin", "task", "finish"}
      /\ ~InSeq(waitingThreads, w)
  <2>1. pc[w] # "none" => InSeq(expiredThreads, w)
    BY InTail DEF TypeOK, Home
  <2>2. runnable[w] = NoTask
    BY <1>1, <2>1 DEF Home, PoolInv, Over
  <2> QED
    BY <1>1, <2>2 DEF Home, Over, StartThread
<1>3. /\ runnable'[w] = t /\ \A v \in Workers \ {w} : runnable'[v] = runnable[v]
      /\ \A v \in Workers \ {w} : pc'[v] = pc[v]
      /\ pc'[w] \in {"done", "begin", "ended"}
  BY <1>1, <1>2 DEF StartThread, Become, TypeOK, Over
<1>4. /\ w \notin Busy /\ w \in Busy'
      /\ \A v \in Workers \ {w} : v \in Busy' <=> v \in Busy
  BY <1>0, <1>2, <1>3 DEF Busy
<1>5. activeThreads' = Cardinality(Busy')
  BY <1>4, BusyChanges DEF PoolInv
<1>6. PoolInv'
  BY <1>3, <1>5 DEF PoolInv, Over
<1>7. Home'
  <2> SUFFICES ASSUME NEW v \in Workers
               PROVE  /\ v \in allThreads' <=> pc'[v] # "none"
                      /\ pc'[v] = "idle" => InSeq(waitingThreads', v)
                      /\ InSeq(waitingThreads', v) => pc'[v] \in {"idle", "woken"}
                      /\ pc'[v] \in Over
                             => (InSeq(expiredThreads', v) <=> runnable'[v] = NoTask)
                      /\ InSeq(expiredThreads', v) => pc'[v] \in Over
    BY <1>1 DEF Home
  <2>1. CASE v = w
    BY <1>0, <1>1, <1>2, <1>3, <2>1 DEF Home, Over
  <2>2. CASE v # w
    BY <1>1, <1>3, <2>2 DEF Home
  <2> QED
    BY <2>1, <2>2
<1> QED
  BY <1>6, <1>7

LEMMA TryStartPool ==
    ASSUME TypeOK, PoolInv, Home, NEW t \in Tasks, NEW n \in {0, 1},
           TryStartTask(t, n)
    PROVE  PoolInv' /\ Home'
<1>1. CASE RecycleThread(t) /\ waitingThreads # <<>>
  BY <1>1, WakeFirstPool DEF RecycleThread
<1>2. CASE RestartThread(t) /\ expiredThreads # <<>>
  <2> DEFINE w == Head(expiredThreads)
  <2>1. /\ w \in Workers /\ StartThread(w, t) /\ activeThreads' = activeThreads + 1
        /\ UNCHANGED <<allThreads, waitingThreads>>
        /\ expiredThreads' = Tail(expiredThreads)
    BY <1>2, ThreadSeqs DEF RestartThread, TypeOK
  <2>2. w \in allThreads
    <3>1. InSeq(expiredThreads, w)
      BY <1>2, InTail DEF TypeOK, Home
    <3> QED
      BY <2>1, <3>1 DEF Home, Over
  <2>3. allThreads' = allThreads \cup {w}
    BY <2>1, <2>2
  <2> QED
    BY <1>2, <2>1, <2>3, StartThreadPool
<1>3. CASE NewThread(t)
  BY <1>3, StartThreadPool DEF NewThread
<1> QED
  BY <1>1, <1>2, <1>3 DEF TryStartTask

\* A thread that goes on, n threads being active with it.
LEMMA ContinuePool ==
    ASSUME TypeOK, PoolInv, NEW w \in Workers, NEW n \in Int, Continue(w, n),
           \/ pc[w] = "task" /\ n = activeThreads
           \/ pc[w] = "woken" /\ n = activeThreads + 1
    PROVE  PoolInv'
<1>1. runnable[w] = NoTask /\ runnable' = runnable
  BY DEF PoolInv, Over, Continue
<1>2. ASSUME NEW l, Become(w, l)
      PROVE  pc'[w] = l /\ \A v \in Workers \ {w} : pc'[v] = pc[v]
  BY <1>2 DEF Become, TypeOK
<1>3. CASE Rest(w, n)
  <2>1. PICK l \in {"done", "idle"} : Become(w, l)
    BY <1>3 DEF Rest
  <2>2. /\ w \notin Busy' /\ (w \in Busy <=> pc[w] = "task")
        /\ \A v \in Workers \ {w} : v \in Busy' <=> v \in Busy
    BY <1>1, <1>2, <2>1 DEF Busy
  <2>3. activeThreads' = n - 1
    BY <1>3 DEF Rest, RegisterThreadInactive
  <2>4. activeThreads' = Cardinality(Busy')
    BY <2>2, <2>3, BusyChanges DEF PoolInv, TypeOK
  <2> QED
    BY <1>1, <1>2, <2>1, <2>4 DEF PoolInv
<1>4. CASE Become(w, "task") /\ activeThreads' = n
  <2>1. /\ w \in Busy' /\ (w \in Busy <=> pc[w] = "task")
        /\ \A v \in Workers \ {w} : v \in Busy' <=> v \in Busy
    BY <1>1, <1>2, <1>4 DEF Busy
  <2>2. activeThreads' = Cardinality(Busy')
    BY <1>4, <2>1, BusyChanges DEF PoolInv, TypeOK
  <2> QED
    BY <1>1, <1>2, <1>4, <2>2 DEF PoolInv
<1> QED
  BY <1>3, <1>4 DEF Continue

LEMMA ContinueHome ==
    ASSUME TypeOK, PoolInv, Home, ~isExiting, NEW w \in Workers, NEW n \in Int,
           Continue(w, n),
           \/ pc[w] = "task"
           \/ pc[w] = "woken" /\ ~InSeq(waitingThreads, w)
    PROVE  Home'
<1>1. /\ runnable[w] = NoTask /\ UNCHANGED <<runnable, allThreads>>
      /\ ~InSeq(waitingThreads, w) /\ ~InSeq(expiredThreads, w)
      /\ w \in allThreads
  BY DEF PoolInv, Over, Continue, Home
<1>2. ASSUME NEW l \in {"done", "idle", "task"}, Become(w, l),
             OnceEach(waitingThreads'), OnceEach(expiredThreads'),
             \A v : InSeq(waitingThreads', v)
                        <=> InSeq(waitingThreads, v) \/ (l = "idle" /\ v = w),
             \A v : InSeq(expiredThreads', v)
                        <=> InSeq(expiredThreads, v) \/ (l = "done" /\ v = w)
      PROVE  Home'
  <2>1. pc'[w] = l /\ \A v \in Workers \ {w} : pc'[v] = pc[v]
    BY <1>2 DEF Become, TypeOK
  <2> SUFFICES ASSUME NEW v \in Workers
               PROVE  /\ v \in allThreads' <=> pc'[v] # "none"
                      /\ pc'[v] = "idle" => InSeq(waitingThreads', v)
                      /\ InSeq(waitingThreads', v) => pc'[v] \in {"idle", "woken"}
                      /\ pc'[v] \in Over
                             => (InSeq(expiredThreads', v) <=> runnable'[v] = NoTask)
                      /\ InSeq(expiredThreads', v) => pc'[v] \in Over
    BY <1>2 DEF Home
  <2>2. CASE v = w
    BY <1>1, <1>2, <2>1, <2>2 DEF Over
  <2>3. CASE v # w
    BY <1>1, <1>2, <2>1, <2>3 DEF Home
  <2> QED
    BY <2>2, <2>3
<1>3. /\ OnceEach(waitingThreads) /\ OnceEach(expiredThreads)
      /\ waitingThreads \in Seq(Workers) /\ expiredThreads \in Seq(Workers)
  BY DEF Home, TypeOK
<1>4. CASE Become(w, "done") /\ expiredThreads' = Append(expiredThreads, w)
           /\ UNCHANGED waitingThreads
  <2>1. /\ OnceEach(expiredThreads')
        /\ \A v : InSeq(expiredThreads', v) <=> InSeq(expiredThreads, v) \/ v = w
    BY <1>1, <1>3, <1>4, InAppend
  <2> QED
    BY <1>2, <1>3, <1>4, <2>1
<1>5. CASE Become(w, "idle") /\ waitingThreads' = Append(waitingThreads, w)
           /\ UNCHANGED expiredThreads
  <2>1. /\ OnceEach(waitingThreads')
        /\ \A v : InSeq(waitingThreads', v) <=> InSeq(waitingThreads, v) \/ v = w
    BY <1>1, <1>3, <1>5, InAppend
  <2> QED
    BY <1>2, <1>3, <1>5, <2>1
<1>6. CASE Become(w, "task") /\ UNCHANGED <<waitingThreads, expiredThreads>>
  BY <1>2, <1>3, <1>6
<1> QED
  BY <1>4, <1>5, <1>6 DEF Continue, Rest

\* A thread that took itself out of waitingThreads is expired.
LEMMA ExpiredPool ==
    ASSUME TypeOK, PoolInv, NEW w \in Workers, pc[w] = "woken",
           Become(w, "done"), RegisterThreadInactive(activeThreads + 1),
           UNCHANGED <<allThreads, runnable>>,
           NEW i \in DOMAIN waitingThreads, waitingThreads[i] = w,
           waitingThreads' = Without(waitingThreads, i),
           expiredThreads' = Append(expiredThreads, w)
    PROVE  PoolInv' /\ (Home => Home')
<1>1. runnable[w] = NoTask
  BY DEF PoolInv, Over
<1>2. pc'[w] = "done" /\ \A v \in Workers \ {w} : pc'[v] = pc[v]
  BY DEF Become, TypeOK
<1>3. PoolInv'
  <2>1. Busy' = Busy
    BY <1>1, <1>2 DEF Busy
  <2>2. activeThreads' = activeThreads
    BY DEF RegisterThreadInactive, TypeOK
  <2> QED
    BY <1>1, <1>2, <2>1, <2>2 DEF PoolInv
<1>4. ASSUME Home PROVE Home'
  <2>1. ~InSeq(expiredThreads, w) /\ w \in allThreads
    BY <1>4 DEF Home, Over
  <2>2. /\ OnceEach(waitingThreads')
        /\ \A v : InSeq(waitingThreads', v) <=> InSeq(waitingThreads, v) /\ v # w
    BY <1>4, InWithout DEF Home, TypeOK
  <2>3. /\ OnceEach(expiredThreads')
        /\ \A v : InSeq(expiredThreads', v) <=> InSeq(expiredThreads, v) \/ v = w
    BY <1>4, <2>1, InAppend DEF Home, TypeOK
  <2> SUFFICES ASSUME NEW v \in Workers
               PROVE  /\ v \in allThreads' <=> pc'[v] # "none"
                      /\ pc'[v] = "idle" => InSeq(waitingThreads', v)
                      /\ InSeq(waitingThreads', v) => pc'[v] \in {"idle", "woken"}
                      /\ pc'[v] \in Over
                             => (InSeq(expiredThreads', v) <=> runnable'[v] = NoTask)
                      /\ InSeq(expiredThreads', v) => pc'[v] \in Over
    BY <2>2, <2>3 DEF Home
  <2>4. CASE v = w
    BY <1>1, <1>2, <2>1, <2>2, <2>3, <2>4 DEF Over
  <2>5. CASE v # w
    BY <1>2, <1>4, <2>2, <2>3, <2>5 DEF Home
  <2> QED
    BY <2>4, <2>5
<1> QED
  BY <1>3, <1>4

\* Steps of pool threads that only change their place in run().
LEMMA MovedPool ==
    ASSUME TypeOK, PoolInv, NEW w \in Workers, Finish(w) \/ TimesOut(w)
    PROVE  PoolInv' /\ (Home => Home')
<1>1. /\ UNCHANGED <<waitingThreads, expiredThreads, allThreads, activeThreads,
                     runnable>>
      /\ \/ pc[w] = "idle" /\ pc'[w] = "woken"
         \/ pc[w] \in Over /\ pc'[w] \in Over
      /\ \A v \in Workers \ {w} : pc'[v] = pc[v]
  BY DEF Finish, TimesOut, Become, TypeOK, Over, pool
<1>2. Busy' = Busy
  BY <1>1 DEF Busy, Over
<1>3. PoolInv'
  BY <1>1, <1>2 DEF PoolInv, Over
<1>4. ASSUME Home PROVE Home'
  <2> SUFFICES ASSUME NEW v \in Workers
               PROVE  /\ v \in allThreads <=> pc'[v] # "none"
                      /\ pc'[v] = "idle" => InSeq(waitingThreads, v)
                      /\ InSeq(waitingThreads, v) => pc'[v] \in {"idle", "woken"}
                      /\ pc'[v] \in Over
                             => (InSeq(expiredThreads, v) <=> runnable[v] = NoTask)
                      /\ InSeq(expiredThreads, v) => pc'[v] \in Over
    BY <1>1, <1>4 DEF Home
  <2>1. CASE v = w
    BY <1>1, <1>4, <2>1 DEF Home, Over
  <2>2. CASE v # w
    BY <1>1, <1>4, <2>2 DEF Home
  <2> QED
    BY <2>1, <2>2
<1> QED
  BY <1>3, <1>4

LEMMA BeginPool ==
    ASSUME TypeOK, PoolInv, Home, NEW w \in Workers, Begin(w)
    PROVE  PoolInv' /\ Home'
<1>1. /\ UNCHANGED <<waitingThreads, expiredThreads, allThreads, activeThreads>>
      /\ pc[w] = "begin" /\ pc'[w] = "task" /\ runnable'[w] = NoTask
      /\ \A v \in Workers \ {w} : pc'[v] = pc[v] /\ runnable'[v] = runnable[v]
  BY DEF Begin, Become, TypeOK, pool
<1>2. Busy' = Busy
  BY <1>1 DEF Busy
<1>3. PoolInv'
  BY <1>1, <1>2 DEF PoolInv
<1>4. Home'
  <2> SUFFICES ASSUME NEW v \in Workers
               PROVE  /\ v \in allThreads <=> pc'[v] # "none"
                      /\ pc'[v] = "idle" => InSeq(waitingThreads, v)
                      /\ InSeq(waitingThreads, v) => pc'[v] \in {"idle", "woken"}
                      /\ pc'[v] \in Over
                             => (InSeq(expiredThreads, v) <=> runnable'[v] = NoTask)
                      /\ InSeq(expiredThreads, v) => pc'[v] \in Over
    BY <1>1 DEF Home
  <2>1. CASE v = w
    BY <1>1, <2>1 DEF Home, Over
  <2>2. CASE v # w
    BY <1>1, <2>2 DEF Home
  <2> QED
    BY <2>1, <2>2
<1> QED
  BY <1>3, <1>4

\* Steps that touch neither the threads nor where they are.
LEMMA PoolKept ==
    ASSUME UNCHANGED <<allThreads, waitingThreads, expiredThreads, activeThreads,
                       runnable, pc>>
    PROVE  (PoolInv => PoolInv') /\ (Home => Home')
<1>1. Busy' = Busy
  BY DEF Busy
<1>2. PoolInv => PoolInv'
  BY <1>1 DEF PoolInv
<1>3. Home => Home'
  BY DEF Home
<1> QED
  BY <1>2, <1>3

\* The steps of reset() in the user's thread.
LEMMA ResetPool ==
    ASSUME TypeOK, PoolInv, UserInv, NEW c \in Clients, Reset(c)
    PROVE  PoolInv' /\ UserInv'
<1>0. AtReset(c) /\ \A d \in Clients : AtReset(d) => d = c
  BY DEF Reset, UserInv, AtReset
<1>1. PoolInv'
  <2>1. Busy' = Busy
    BY DEF Reset, Busy, threads
  <2> QED
    BY <2>1 DEF PoolInv, Reset, threads
<1>2. IsDone' /\ pc' = pc /\ runnable' = runnable
  BY <1>0 DEF UserInv, Reset, IsDone, threads
<1>3. CASE /\ allThreads # {} /\ GoTo(c, "joins")
           /\ copy' = [copy EXCEPT ![c] = allThreads] /\ allThreads' = {}
           /\ isExiting' = (isExiting \/ at[c] = "reset")
  <2>1. at[c] = "reset" /\ ~isExiting
    <3>1. ~Removing(c)
      BY <1>3 DEF UserInv
    <3>2. at[c] = "reset"
      BY <1>0, <3>1 DEF Removing, AtReset
    <3>3. \A d \in Clients : ~Removing(d)
      BY <1>0, <3>1 DEF Removing, AtReset
    <3> QED
      BY <3>2, <3>3 DEF UserInv
  <2>2. isExiting'
    BY <1>3, <2>1
  <2>3. \A w \in Workers : pc[w] # "none" => w \in allThreads
    BY <2>1 DEF UserInv, Home
  <2>4. /\ at'[c] = "joins" /\ copy'[c] = allThreads
        /\ \A d \in Clients : AtReset(d)' => d = c
    BY <1>0, <1>3 DEF GoTo, TypeOK, AtReset
  <2>5. \A d \in Clients : Removing(d)' => d = c
    BY <2>4 DEF Removing, AtReset
  <2>6. Removing(c)' /\ \A d \in Clients : at'[d] # "again"
    BY <2>4, <2>5 DEF Removing
  <2> QED
    BY <1>1, <1>2, <1>3, <2>2, <2>3, <2>4, <2>5, <2>6 DEF UserInv
<1>4. CASE /\ allThreads = {} /\ GoTo(c, "free") /\ UNCHANGED <<allThreads, copy>>
           /\ waitingThreads' = <<>> /\ expiredThreads' = <<>>
           /\ isExiting' = FALSE
  <2>1. \A w \in Workers : pc[w] = "none"
    <3>1. CASE at[c] = "reset"
      <4>1. \A d \in Clients : ~Removing(d)
        BY <1>0, <3>1 DEF Removing, AtReset
      <4>2. ~isExiting
        BY <4>1 DEF UserInv
      <4> QED
        BY <1>4, <4>2 DEF UserInv, Home
    <3>2. CASE at[c] = "again"
      BY <3>2 DEF UserInv, Removing
    <3> QED
      BY <3>1, <3>2 DEF Reset
  <2>2. Home'
    <3>1. OnceEach(<<>>) /\ \A w : ~InSeq(<<>>, w)
      BY DEF OnceEach, InSeq
    <3>2. OnceEach(waitingThreads') /\ OnceEach(expiredThreads')
      BY <1>4, <3>1
    <3>3. \A w \in Workers : ~InSeq(waitingThreads', w) /\ ~InSeq(expiredThreads', w)
      BY <1>4, <3>1
    <3>4. \A w \in Workers : pc'[w] = "none" /\ w \notin allThreads'
      BY <1>2, <1>4, <2>1
    <3> QED
      BY <3>2, <3>3, <3>4 DEF Home, Over
  <2>3. \A d \in Clients : ~AtReset(d)'
    BY <1>0, <1>4 DEF GoTo, TypeOK, AtReset
  <2>4. ~isExiting'
    BY <1>4
  <2> QED
    BY <1>1, <2>2, <2>3, <2>4, UserInUse
<1> QED
  BY <1>3, <1>4 DEF Reset

LEMMA WakeForJoinPool ==
    ASSUME TypeOK, PoolInv, UserInv, NEW c \in Clients, WakeForJoin(c)
    PROVE  PoolInv' /\ UserInv'
<1> USE DEF pool, limits, tasks
<1>1. PICK w \in copy[c] : Wake(w)
  BY DEF WakeForJoin
<1>2. /\ \A v \in Workers : \/ pc'[v] = pc[v]
                            \/ pc[v] = "idle" /\ pc'[v] = "woken"
      /\ UNCHANGED <<runnable, activeThreads, queue, allThreads, isExiting, copy>>
      /\ at[c] = "joins" /\ at' = [at EXCEPT ![c] = "joining"]
  BY <1>1 DEF Wake, WakeForJoin, TypeOK, GoTo
<1>3. Busy' = Busy
  BY <1>2 DEF Busy
<1>4. PoolInv'
  BY <1>2, <1>3 DEF PoolInv, Over
<1>5. Removing(c) /\ \A d \in Clients : AtReset(d) => d = c
  BY <1>2 DEF UserInv, AtReset, Removing
<1>6. isExiting /\ IsDone /\ allThreads = {}
  BY <1>2, <1>5 DEF UserInv, AtReset
<1>7. \A v \in Workers : pc'[v] # "none" => v \in copy[c]
  BY <1>2, <1>5 DEF UserInv
<1>8. /\ \A d \in Clients : AtReset(d)' => d = c
      /\ \A d \in Clients : Removing(d)' => d = c
      /\ Removing(c)' /\ \A d \in Clients : at'[d] # "again"
  BY <1>2, <1>5 DEF AtReset, Removing, TypeOK
<1> QED
  BY <1>2, <1>4, <1>6, <1>7, <1>8 DEF UserInv, IsDone

LEMMA JoinedPool ==
    ASSUME TypeOK, PoolInv, UserInv, NEW c \in Clients, Joined(c)
    PROVE  PoolInv' /\ UserInv'
<1> USE DEF pool, limits, tasks
<1> DEFINE w == join[c]
<1>1. /\ pc[w] = "ended" /\ pc' = [pc EXCEPT ![w] = "none"]
      /\ runnable' = [runnable EXCEPT ![w] = NoTask]
      /\ copy' = [copy EXCEPT ![c] = @ \ {w}]
      /\ at[c] = "joining" /\ w \in Workers
      /\ at' = [at EXCEPT ![c] = IF copy[c] = {w} THEN "again" ELSE "joins"]
      /\ UNCHANGED <<activeThreads, queue, allThreads, isExiting>>
  BY DEF Joined, Become, GoTo, TypeOK
<1> HIDE DEF w
<1>10. Removing(c) /\ \A d \in Clients : AtReset(d) => d = c
  BY <1>1 DEF UserInv, AtReset, Removing
<1>2. isExiting /\ IsDone /\ allThreads = {}
  BY <1>1, <1>10 DEF UserInv, AtReset
<1>3. \A v \in Workers : runnable[v] = NoTask
  BY <1>2, NoneBusy DEF IsDone
<1>4. /\ pc'[w] = "none" /\ \A v \in Workers \ {w} : pc'[v] = pc[v]
      /\ \A v \in Workers : runnable'[v] = runnable[v]
  BY <1>1, <1>3 DEF TypeOK
<1>5. Busy' = Busy
  BY <1>1, <1>4 DEF Busy
<1>6. PoolInv'
  BY <1>1, <1>3, <1>4, <1>5 DEF PoolInv
<1>7. /\ at'[c] \in {"again", "joins"} /\ copy'[c] = copy[c] \ {w}
      /\ at'[c] = "again" => copy[c] = {w}
  BY <1>1 DEF TypeOK
<1>8. \A v \in Workers : pc'[v] # "none" => v \in copy'[c]
  BY <1>1, <1>4, <1>7, <1>10 DEF UserInv
<1>9. at'[c] = "again" => copy'[c] = {}
  BY <1>7
<1>11. /\ \A d \in Clients : AtReset(d)' => d = c
       /\ \A d \in Clients : Removing(d)' => d = c
       /\ Removing(c)' /\ \A d \in Clients : at'[d] = "again" => d = c
  BY <1>1, <1>7, <1>10 DEF AtReset, Removing, TypeOK
<1> QED
  BY <1>1, <1>2, <1>6, <1>8, <1>9, <1>11 DEF UserInv, IsDone

\* Every step preserves PoolInv and UserInv.
LEMMA CountStep == TypeOK /\ CountInv /\ [Next]_vars => CountInv'
<1> USE DEF pool, limits, threads, users, history
<1>0. ASSUME [Next]_vars, ~disturbed'
      PROVE  ~disturbed
  BY <1>0 DEF Next, vars, TryStart, Start, Used, SetMaxThreadCount, ReserveThread,
              ReleaseThread, TryToStartMoreThreads, Clear, WorkerStep, Begin,
              EndTask, Continue, Resume, Finish, TimesOut, WaitForDone, GiveUp,
              ClientStep, CheckDone, Reset, WakeForJoin, Joined
<1> SUFFICES ASSUME TypeOK, PoolInv, UserInv, [Next]_vars, ~disturbed'
             PROVE  PoolInv' /\ UserInv'
  BY <1>0 DEF CountInv
<1>1. ASSUME PoolInv', Home', UNCHANGED <<isExiting, users>>,
             queue # <<>> \/ ~Resetting \/ \E w \in Workers : pc[w] \in {"begin", "task"}
      PROVE  PoolInv' /\ UserInv'
  <2>1. ~isExiting /\ \A c \in Clients : ~AtReset(c)
    BY <1>1, Using
  <2>2. \A c \in Clients : ~AtReset(c)'
    BY <1>1, <2>1 DEF AtReset
  <2> QED
    BY <1>1, <2>1, <2>2, UserInUse
<1>2. (queue # <<>> \/ ~Resetting \/ \E w \in Workers : pc[w] \in {"begin", "task"})
          => Home /\ ~isExiting
  BY Using
<1>3. CASE UNCHANGED vars
  <2>1. PoolInv' /\ (Home => Home')
    BY <1>3, PoolKept DEF vars
  <2>2. IsDone => IsDone'
    BY <1>3 DEF vars, IsDone
  <2>3. /\ UNCHANGED <<allThreads, isExiting, copy, at, pc>>
    BY <1>3 DEF vars
  <2> QED
    BY <2>1, <2>2, <2>3, UserKept
<1>4. ASSUME NEW t \in Tasks, TryStart(t) PROVE PoolInv' /\ UserInv'
  <2>1. ~Resetting
    BY <1>4 DEF TryStart, Used
  <2>2. PoolInv' /\ Home'
    BY <1>2, <1>4, <2>1, TryStartPool DEF TryStart
  <2> QED
    BY <1>1, <1>4, <2>1, <2>2 DEF TryStart, TryStartTask
<1>5. ASSUME NEW t \in Tasks, NEW p \in Priorities, Start(t, p)
      PROVE  PoolInv' /\ UserInv'
  <2>0. ~Resetting
    BY <1>5 DEF Start, Used
  <2>1. CASE TryStartTask(t, 0)
    <3>1. PoolInv' /\ Home'
      BY <1>2, <2>0, <2>1, TryStartPool
    <3> QED
      BY <1>1, <2>0, <2>1, <3>1 DEF TryStartTask
  <2>2. CASE Enqueue(t, p)
    <3>1. PoolInv' /\ Home'
      <4>1. CASE waitingThreads = <<>>
        BY <1>2, <2>0, <2>2, <4>1, PoolKept DEF Enqueue
      <4>2. CASE waitingThreads # <<>>
        BY <1>2, <2>0, <2>2, <4>2, WakeFirstPool DEF Enqueue
      <4> QED
        BY <4>1, <4>2
    <3> QED
      BY <1>1, <2>0, <2>2, <3>1 DEF Enqueue
  <2> QED
    BY <1>5, <2>1, <2>2 DEF Start
<1>6. ASSUME UNCHANGED <<allThreads, waitingThreads, expiredThreads,
                         activeThreads, runnable, pc, isExiting, copy>>,
             queue' \in {queue, <<>>},
             \A c \in Clients :
               \/ at'[c] = at[c]
               \/ /\ at[c] \notin {"reset", "joins", "joining", "again"}
                  /\ at'[c] \notin {"reset", "joins", "joining", "again"}
      PROVE  PoolInv' /\ UserInv'
  <2>1. PoolInv' /\ (Home => Home')
    BY <1>6, PoolKept
  <2>2. IsDone => IsDone'
    BY <1>6 DEF IsDone
  <2> QED
    BY <1>6, <2>1, <2>2, UserKept
<1>7. CASE \/ ReserveThread \/ ReleaseThread \/ Clear
           \/ \E n \in MaxCounts : SetMaxThreadCount(n)
           \/ \E c \in Clients : WaitForDone(c)
  <2>1. UNCHANGED <<allThreads, waitingThreads, expiredThreads,
                    activeThreads, runnable, pc, isExiting, copy>>
    BY <1>7 DEF ReserveThread, ReleaseThread, Clear, SetMaxThreadCount, WaitForDone
  <2>2. queue' \in {queue, <<>>}
    BY <1>7 DEF ReserveThread, ReleaseThread, Clear, SetMaxThreadCount, WaitForDone
  <2>3. \/ at' = at
        \/ \E c \in Clients : at[c] = "free" /\ at' = [at EXCEPT ![c] = "checks"]
    BY <1>7 DEF ReserveThread, ReleaseThread, Clear, SetMaxThreadCount,
                WaitForDone, GoTo
  <2>4. \A c \in Clients :
           \/ at'[c] = at[c]
           \/ /\ at[c] \notin {"reset", "joins", "joining", "again"}
              /\ at'[c] \notin {"reset", "joins", "joining", "again"}
    BY <2>3 DEF TypeOK
  <2> QED
    BY <1>6, <2>1, <2>2, <2>4
<1>8. CASE TryToStartMoreThreads
  <2>1. CASE queue # <<>> /\ TryStartTask(Head(queue).task, 1)
    <3> DEFINE t == Head(queue).task
    <3>1. t \in Tasks
      BY <2>1, FirstRemoved DEF TypeOK, Entries
    <3>2. TryStartTask(t, 1)
      BY <2>1
    <3> HIDE DEF t
    <3>3. PoolInv' /\ Home'
      BY <1>2, <2>1, <3>1, <3>2, TryStartPool
    <3> QED
      BY <1>1, <2>1, <3>2, <3>3 DEF TryStartTask
  <2>2. CASE UNCHANGED <<pool, activeThreads, limits, threads, users>>
    BY <1>6, <2>2
  <2> QED
    BY <1>8, <2>1, <2>2 DEF TryToStartMoreThreads
<1>9. ASSUME NEW w \in Workers, Begin(w) PROVE PoolInv' /\ UserInv'
  <2>1. pc[w] \in {"begin", "task"} /\ UNCHANGED <<isExiting, users>>
    BY <1>9 DEF Begin
  <2>2. PoolInv' /\ Home'
    BY <1>2, <1>9, <2>1, BeginPool
  <2> QED
    BY <1>1, <2>1, <2>2
<1>10. ASSUME NEW w \in Workers, EndTask(w) PROVE PoolInv' /\ UserInv'
  <2>1. /\ pc[w] = "task" /\ Continue(w, activeThreads) /\ activeThreads \in Int
    BY <1>10 DEF EndTask, TypeOK
  <2>2. PoolInv'
    BY <2>1, ContinuePool
  <2>3. Home /\ ~isExiting /\ \A c \in Clients : ~AtReset(c)
    BY <2>1, Using
  <2>4. Home'
    BY <2>1, <2>3, ContinueHome
  <2>5. /\ isExiting' = isExiting
        /\ \A c \in Clients : ~AtReset(c)'
    BY <2>1, <2>3 DEF Continue, Rest, RegisterThreadInactive, AtReset, TypeOK
  <2> QED
    BY <2>2, <2>3, <2>4, <2>5, UserInUse
<1>11. ASSUME NEW w \in Workers, Resume(w) PROVE PoolInv' /\ UserInv'
  <2>1. pc[w] = "woken"
    BY <1>11 DEF Resume
  <2>2. CASE ~InSeq(waitingThreads, w) /\ Continue(w, activeThreads + 1)
    <3>1. activeThreads + 1 \in Int
      BY DEF TypeOK
    <3>2. PoolInv'
      BY <2>1, <2>2, <3>1, ContinuePool
    <3>3. ~isExiting /\ Home => Home'
      BY <2>1, <2>2, <3>1, ContinueHome
    <3>4. UNCHANGED <<allThreads, isExiting, copy>>
      BY <2>2 DEF Continue
    <3>5. \A c \in Clients :
              \/ at'[c] = at[c]
              \/ /\ at[c] \notin {"reset", "joins", "joining", "again"}
                 /\ at'[c] \notin {"reset", "joins", "joining", "again"}
      BY <2>2 DEF Continue, Rest, RegisterThreadInactive
    <3>6. \A v \in Workers : pc'[v] # "none" => pc[v] # "none"
      BY <2>1, <2>2 DEF Continue, Rest, Become, TypeOK
    <3>7. IsDone => IsDone'
      BY <2>2 DEF IsDone, Continue, Rest, RegisterThreadInactive
    <3> QED
      BY <3>2, <3>3, <3>4, <3>5, <3>6, <3>7, UserKept
  <2>3. ASSUME NEW i \in DOMAIN waitingThreads, waitingThreads[i] = w,
               waitingThreads' = Without(waitingThreads, i),
               expiredThreads' = Append(expiredThreads, w),
               Become(w, "done"), RegisterThreadInactive(activeThreads + 1),
               UNCHANGED <<queue, allThreads, limits, runnable, copy>>
        PROVE  PoolInv' /\ UserInv'
    <3>1. PoolInv' /\ (Home => Home')
      BY <2>1, <2>3, ExpiredPool
    <3>2. \A c \in Clients :
              \/ at'[c] = at[c]
              \/ /\ at[c] \notin {"reset", "joins", "joining", "again"}
                 /\ at'[c] \notin {"reset", "joins", "joining", "again"}
      BY <2>3 DEF RegisterThreadInactive
    <3>3. \A v \in Workers : pc'[v] # "none" => pc[v] # "none"
      BY <2>1, <2>3 DEF Become, TypeOK
    <3>4. activeThreads' = activeThreads
      BY <2>3 DEF RegisterThreadInactive, TypeOK
    <3>5. IsDone => IsDone'
      BY <2>3, <3>4 DEF IsDone
    <3> QED
      BY <2>3, <3>1, <3>2, <3>3, <3>5, UserKept
  <2> QED
    BY <1>11, <2>2, <2>3 DEF Resume
<1>12. ASSUME NEW w \in Workers, Finish(w) \/ TimesOut(w)
       PROVE  PoolInv' /\ UserInv'
  <2>1. PoolInv' /\ (Home => Home')
    BY <1>12, MovedPool
  <2>2. UNCHANGED <<queue, activeThreads, allThreads, isExiting, copy, at>>
    BY <1>12 DEF Finish, TimesOut
  <2>3. \A v \in Workers : pc'[v] # "none" => pc[v] # "none"
    BY <1>12 DEF Finish, TimesOut, Become, TypeOK
  <2>4. IsDone => IsDone'
    BY <2>2 DEF IsDone
  <2> QED
    BY <2>1, <2>2, <2>3, <2>4, UserKept
<1>13. ASSUME NEW c \in Clients, CheckDone(c) \/ GiveUp(c)
       PROVE  PoolInv' /\ UserInv'
  <2>1. /\ UNCHANGED <<allThreads, waitingThreads, expiredThreads, activeThreads,
                       runnable, pc, queue, isExiting, copy>>
        /\ ~Resetting
    BY <1>13 DEF CheckDone, GiveUp, Used
  <2>2. Home /\ ~isExiting /\ \A d \in Clients : ~AtReset(d)
    BY <2>1, Using
  <2>3. PoolInv' /\ Home'
    BY <2>1, <2>2, PoolKept
  <2>4. /\ \A d \in Clients : d # c => at'[d] = at[d]
        /\ at'[c] \in {"reset", "asleep", "free"}
        /\ at'[c] = "reset" => IsDone
    BY <1>13 DEF CheckDone, GiveUp, GoTo, TypeOK
  <2>5. \A d \in Clients : AtReset(d)' => d = c /\ IsDone
    BY <2>2, <2>4 DEF AtReset
  <2>6. \A d \in Clients : ~Removing(d)' /\ at'[d] # "again"
    BY <2>2, <2>4 DEF Removing, AtReset
  <2>7. IsDone' <=> IsDone
    BY <2>1 DEF IsDone
  <2> QED
    BY <2>1, <2>2, <2>3, <2>5, <2>6, <2>7 DEF UserInv
<1>14. ASSUME NEW c \in Clients, Reset(c) \/ WakeForJoin(c) \/ Joined(c)
       PROVE  PoolInv' /\ UserInv'
  BY <1>14, ResetPool, WakeForJoinPool, JoinedPool
<1> QED
  BY <1>3, <1>4, <1>5, <1>7, <1>8, <1>9, <1>10, <1>11, <1>12, <1>13, <1>14,
     ConstantsAssumption DEF Next, WorkerStep, ClientStep

\* The two ways of counting the threads agree.
LEMMA CountsFromHome ==
    ASSUME TypeOK, PoolInv, Home
    PROVE  ActiveThreadCount - reservedThreads = Cardinality(Busy \cup Returning)
<1> DEFINE A == Busy \cup Returning
           S == {w \in Workers : InSeq(waitingThreads, w)}
           E == {w \in Workers : InSeq(expiredThreads, w)}
<1>1. /\ Len(waitingThreads) = Cardinality(S)
      /\ Len(expiredThreads) = Cardinality(E)
  BY OnceEachCount DEF TypeOK, Home
<1>2. allThreads = A \cup S \cup E
  <2>1. ASSUME NEW w \in Workers
        PROVE  w \in allThreads <=> \/ w \in Busy \/ w \in Returning
                                    \/ InSeq(waitingThreads, w)
                                    \/ InSeq(expiredThreads, w)
    <3>1. /\ w \in allThreads <=> pc[w] # "none"
          /\ pc[w] = "idle" => InSeq(waitingThreads, w)
          /\ InSeq(waitingThreads, w) => pc[w] \in {"idle", "woken"}
          /\ pc[w] \in Over => (InSeq(expiredThreads, w) <=> runnable[w] = NoTask)
          /\ InSeq(expiredThreads, w) => pc[w] \in Over
          /\ runnable[w] # NoTask => pc[w] \in Over \cup {"begin"}
          /\ pc[w] \in PCs
      BY DEF Home, PoolInv, TypeOK
    <3>2. /\ w \in Busy <=> pc[w] \in {"begin", "task"} \/ runnable[w] # NoTask
          /\ w \in Returning <=> pc[w] = "woken" /\ ~InSeq(waitingThreads, w)
      BY DEF Busy, Returning
    <3> QED
      BY <3>1, <3>2 DEF PCs, Over
  <2>2. allThreads \subseteq Workers /\ A \subseteq Workers
    BY DEF TypeOK, Busy, Returning
  <2> QED
    BY <2>1, <2>2
<1>3. A \cap S = {} /\ (A \cup S) \cap E = {}
  <2>1. ASSUME NEW w \in Workers, w \in Busy \/ w \in Returning
        PROVE  ~InSeq(waitingThreads, w) /\ ~InSeq(expiredThreads, w)
    <3>1. /\ InSeq(waitingThreads, w) => pc[w] \in {"idle", "woken"}
          /\ pc[w] \in Over => (InSeq(expiredThreads, w) <=> runnable[w] = NoTask)
          /\ InSeq(expiredThreads, w) => pc[w] \in Over
          /\ runnable[w] # NoTask => pc[w] \in Over \cup {"begin"}
      BY DEF Home, PoolInv
    <3>2. \/ pc[w] \in {"begin", "task"} \/ runnable[w] # NoTask
          \/ pc[w] = "woken" /\ ~InSeq(waitingThreads, w)
      BY <2>1 DEF Busy, Returning
    <3> QED
      BY <3>1, <3>2 DEF Over
  <2>2. ASSUME NEW w \in Workers, InSeq(waitingThreads, w)
        PROVE  ~InSeq(expiredThreads, w)
    BY <2>2 DEF Home, Over
  <2>3. A \subseteq Workers
    BY DEF Busy, Returning
  <2> QED
    BY <2>1, <2>2, <2>3
<1>4. A \in SUBSET Workers /\ S \in SUBSET Workers /\ E \in SUBSET Workers
  BY DEF Busy, Returning
<1> HIDE DEF A, S, E
<1>5. /\ IsFiniteSet(A) /\ IsFiniteSet(S) /\ IsFiniteSet(E)
      /\ Cardinality(A) \in Nat /\ Cardinality(S) \in Nat /\ Cardinality(E) \in Nat
  BY <1>4, WorkersCount
<1>6. /\ IsFiniteSet(A \cup S)
      /\ Cardinality(A \cup S) = Cardinality(A) + Cardinality(S)
  <2>1. Cardinality(A \cap S) = 0
    BY <1>3, FS_EmptySet
  <2>2. /\ IsFiniteSet(A \cup S)
        /\ Cardinality(A \cup S)
               = Cardinality(A) + Cardinality(S) - Cardinality(A \cap S)
    BY <1>5, FS_Union
  <2> QED
    BY <1>5, <2>1, <2>2
<1>7. Cardinality(allThreads)
          = Cardinality(A) + Cardinality(S) + Cardinality(E)
  <2> DEFINE B == A \cup S
  <2>1. Cardinality(B \cap E) = 0
    BY <1>3, FS_EmptySet
  <2>2. IsFiniteSet(B) /\ Cardinality(B) = Cardinality(A) + Cardinality(S)
    BY <1>6
  <2>3. allThreads = B \cup E
    BY <1>2
  <2> HIDE DEF B
  <2>4. Cardinality(B \cup E)
            = Cardinality(B) + Cardinality(E) - Cardinality(B \cap E)
    BY <1>5, <2>2, FS_Union
  <2> QED
    BY <1>5, <2>1, <2>2, <2>3, <2>4
<1>8. ActiveThreadCount - reservedThreads = Cardinality(A)
  BY <1>1, <1>5, <1>7 DEF ActiveThreadCount, TypeOK
<1> QED
  BY <1>8 DEF A

LEMMA InitCounts == Init => PoolInv /\ UserInv
<1> SUFFICES ASSUME Init PROVE PoolInv /\ UserInv
  OBVIOUS
<1>1. Busy = {}
  BY DEF Init, Busy
<1>2. Cardinality({}) = 0
  BY FS_EmptySet
<1>3. PoolInv
  BY <1>1, <1>2 DEF Init, PoolInv
<1>4. OnceEach(<<>>) /\ \A w : ~InSeq(<<>>, w)
  BY DEF OnceEach, InSeq
<1>5. Home
  BY <1>4 DEF Init, Home, Over
<1>6. \A c \in Clients : at[c] = "free" /\ ~Removing(c) /\ ~AtReset(c)
  BY DEF Init, Removing, AtReset
<1>7. isExiting = FALSE
  BY DEF Init
<1> QED
  BY <1>3, <1>5, <1>6, <1>7 DEF UserInv

\* The counter of waitForDone and the sets that the limits are computed from
\* count the same threads, until somebody starts a runnable or begins a second
\* waitForDone() while one is in reset().
THEOREM CountsAreRight == Spec => []CountsAgree
<1>1. TypeOK /\ CountInv => CountsAgree
  <2> SUFFICES ASSUME TypeOK, CountInv, ~disturbed PROVE CountsAgree
    BY DEF CountsAgree
  <2>1. PoolInv /\ UserInv
    BY DEF CountInv
  <2> QED
    BY <2>1, CountsFromHome DEF CountsAgree, PoolInv, UserInv
<1>2. Init => CountInv
  BY InitCounts DEF CountInv
<1> QED
  BY <1>1, <1>2, CountStep, InitTyped, TypeStep, PTL DEF Spec

\* The assertion of tryStart, Q_ASSERT(thread->runnable == 0), holds for every
\* thread that was expired, with the same exception.
ExpiredHaveNone ==
    ~disturbed =>
        \A w \in Workers : InSeq(expiredThreads, w) => runnable[w] = NoTask

THEOREM AssertionHolds == Spec => []ExpiredHaveNone
<1>1. CountInv => ExpiredHaveNone
  <2> SUFFICES ASSUME CountInv, ~disturbed PROVE ExpiredHaveNone
    BY DEF ExpiredHaveNone
  <2>1. PoolInv /\ UserInv
    BY DEF CountInv
  <2>2. CASE isExiting
    <3>1. activeThreads = 0
      BY <2>1, <2>2 DEF UserInv, IsDone, AtReset, Removing
    <3> QED
      BY <2>1, <3>1, NoneBusy DEF ExpiredHaveNone
  <2>3. CASE Home
    BY <2>3 DEF Home, ExpiredHaveNone
  <2> QED
    BY <2>1, <2>2, <2>3 DEF UserInv
<1>2. Init => CountInv
  BY InitCounts DEF CountInv
<1> QED
  BY <1>1, <1>2, CountStep, InitTyped, TypeStep, PTL DEF Spec

=============================================================================
