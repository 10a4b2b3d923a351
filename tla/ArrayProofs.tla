---------------------------- MODULE ArrayProofs -----------------------------
(***************************************************************************)
(* Proofs about RecordArray and ZArray: a frozen index stays in order, the *)
(* array of records with its cursor implements the ordered cursor, and the *)
(* array of z-values a list.                                               *)
(***************************************************************************)
EXTENDS RecordArray, ZArray, Numbers, SequenceTheorems, TLAPS

-----------------------------------------------------------------------------
\* The binary search.

Ranges == (0..n) \X (-1..(n - 1))
Mid(r) == (r[1] + r[2]) \div 2

\* A step of the search for key in range r, where g is the rest of it.
Probe(g, key, r) ==
    IF r[1] > r[2] THEN [found |-> FALSE, at |-> r[1]]
    ELSE IF At(Mid(r)) < key THEN g[<<Mid(r) + 1, r[2]>>]
    ELSE IF At(Mid(r)) > key THEN g[<<r[1], Mid(r) - 1>>]
    ELSE [found |-> TRUE, at |-> Mid(r)]

\* The ranges of less than m places, besides empty ones.
Within(m) == {r \in Ranges : r[2] - r[1] < m}

\* The middle of a range lies in it, and the halves beside it are smaller.
LEMMA Halves ==
    ASSUME n \in Nat, NEW m \in Int, NEW r \in Within(m + 1), r[1] <= r[2]
    PROVE  /\ Mid(r) \in 0..(n - 1) /\ r[1] <= Mid(r) /\ Mid(r) <= r[2]
           /\ <<Mid(r) + 1, r[2]>> \in Within(m)
           /\ <<r[1], Mid(r) - 1>> \in Within(m)
<1>1. r[1] \in 0..n /\ r[2] \in -1..(n - 1) /\ r[2] - r[1] < m + 1
  BY DEF Within, Ranges
<1>2. Mid(r) \in Int /\ r[1] <= Mid(r) /\ Mid(r) <= r[2]
  BY <1>1 DEF Mid
<1> QED
  BY <1>1, <1>2 DEF Within, Ranges

\* The recursion ends: a function with that equation exists.
LEMMA SearchEnds ==
    ASSUME n \in Nat, NEW key
    PROVE  \E g : g = [r \in Ranges |-> Probe(g, key, r)]
<1> DEFINE Ends(m) == \E g : g = [r \in Within(m) |-> Probe(g, key, r)]
<1>1. Ends(0)
  <2> DEFINE g == [r \in Within(0) |-> [found |-> FALSE, at |-> r[1]]]
  <2>1. \A r \in Within(0) : r[1] > r[2]
    BY DEF Within, Ranges
  <2>2. g = [r \in Within(0) |-> Probe(g, key, r)]
    BY <2>1 DEF Probe
  <2> QED
    BY <2>2
<1>2. ASSUME NEW m \in Nat, Ends(m)
      PROVE  Ends(m + 1)
  <2>1. PICK g : g = [r \in Within(m) |-> Probe(g, key, r)]
    BY <1>2
  <2> DEFINE h == [r \in Within(m + 1) |-> Probe(g, key, r)]
  <2>2. \A q \in Within(m) : q \in Within(m + 1) /\ g[q] = h[q]
    <3>1. \A q \in Within(m) : g[q] = Probe(g, key, q)
      BY <2>1
    <3>2. \A q \in Within(m) : q \in Within(m + 1)
      BY DEF Within, Ranges
    <3> QED
      BY <3>1, <3>2
  <2>3. ASSUME NEW r \in Within(m + 1)
        PROVE  Probe(g, key, r) = Probe(h, key, r)
    <3>1. CASE r[1] > r[2]
      BY <3>1 DEF Probe
    <3>2. CASE ~(r[1] > r[2])
      <4>1. r[1] <= r[2]
        BY <3>2 DEF Within, Ranges
      <4>2. /\ g[<<Mid(r) + 1, r[2]>>] = h[<<Mid(r) + 1, r[2]>>]
            /\ g[<<r[1], Mid(r) - 1>>] = h[<<r[1], Mid(r) - 1>>]
        BY <2>2, <4>1, Halves
      <4> QED
        BY <4>2 DEF Probe
    <3> QED
      BY <3>1, <3>2
  <2>4. h = [r \in Within(m + 1) |-> Probe(h, key, r)]
    <3> HIDE DEF h
    <3>1. h = [r \in Within(m + 1) |-> Probe(g, key, r)]
      BY DEF h
    <3> QED
      BY <2>3, <3>1
  <2> QED
    BY <2>4
<1> HIDE DEF Ends
<1>3. \A m \in Nat : Ends(m)
  <2> SUFFICES ASSUME NEW k \in Nat, ~Ends(k)
               PROVE  FALSE
    OBVIOUS
  <2> DEFINE T == {m \in Nat : ~Ends(m)}
  <2>1. PICK x \in T : \A y \in T : x <= y
    BY LeastElement
  <2>2. x # 0
    BY <1>1
  <2>3. x - 1 \in Nat /\ Ends(x - 1)
    BY <2>1, <2>2
  <2> QED
    BY <1>2, <2>3
<1>4. Within(n) = Ranges
  BY DEF Within, Ranges
<1> QED
  BY <1>3, <1>4 DEF Ends

\* Where the search may end: at the key, or somewhere in the array.
Plausible(x, key) ==
    /\ x \in [found : BOOLEAN, at : 0..n]
    /\ x.found => x.at < n /\ At(x.at) = key

\* It ends at the key, or at the place where the key belongs.
Exact(x, key) ==
    ~x.found => \A j \in 1..n : /\ j <= x.at <=> records[j] < key
                                /\ records[j] # key

InOrder == \A j, k \in 1..n : j < k => records[j] < records[k]

\* What the search has excluded when it has come to range r.
Excluded(r, key) ==
    /\ r[1] <= r[2] + 1
    /\ \A j \in 1..n : /\ j <= r[1] => records[j] < key
                       /\ j > r[2] + 1 => key < records[j]

\* The search finds the key if the records are in order, and what it finds is
\* the key in any case.
LEMMA SearchFinds ==
    ASSUME n \in Nat, records \in [1..n -> Int], NEW key \in Int, NEW g,
           g = [r \in Ranges |-> Probe(g, key, r)],
           NEW r \in Ranges
    PROVE  /\ Plausible(g[r], key)
           /\ InOrder /\ Excluded(r, key) => Exact(g[r], key)
<1> DEFINE Right(q) == /\ Plausible(g[q], key)
                       /\ InOrder /\ Excluded(q, key) => Exact(g[q], key)
           Rights(m) == \A q \in Within(m) : Right(q)
<1>1. \A q \in Ranges : g[q] = Probe(g, key, q)
  OBVIOUS
<1>2. ASSUME NEW q \in Ranges, q[1] > q[2]
      PROVE  Right(q)
  <2>1. g[q] = [found |-> FALSE, at |-> q[1]]
    BY <1>1, <1>2 DEF Probe
  <2>2. q[1] \in 0..n /\ q[2] \in -1..(n - 1)
    BY DEF Ranges
  <2>3. Plausible(g[q], key)
    <3> DEFINE x == g[q]
    <3>1. x = [found |-> FALSE, at |-> q[1]]
      BY <2>1
    <3> HIDE DEF x
    <3>2. x \in [found : BOOLEAN, at : 0..n] /\ ~x.found
      BY ONLY <2>2, <3>1
    <3> QED
      BY <3>2 DEF Plausible, x
  <2>4. ASSUME Excluded(q, key), NEW j \in 1..n
        PROVE  (j <= q[1] <=> records[j] < key) /\ records[j] # key
    <3>1. q[1] = q[2] + 1
      BY <1>2, <2>2, <2>4 DEF Excluded
    <3>2. records[j] \in Int
      OBVIOUS
    <3> QED
      BY <2>2, <2>4, <3>1, <3>2 DEF Excluded
  <2> QED
    BY <2>1, <2>3, <2>4 DEF Exact
<1>3. Rights(0)
  BY <1>2 DEF Within, Ranges
<1>4. ASSUME NEW m \in Nat, Rights(m)
      PROVE  Rights(m + 1)
  <2> SUFFICES ASSUME NEW q \in Within(m + 1), ~(q[1] > q[2])
               PROVE  Right(q)
    BY <1>2 DEF Within
  <2> DEFINE c == Mid(q)
             u == <<c + 1, q[2]>>
             d == <<q[1], c - 1>>
  <2>1. q \in Ranges /\ q[1] \in 0..n /\ q[2] \in -1..(n - 1) /\ q[1] <= q[2]
    BY DEF Within, Ranges
  <2>2. /\ c \in 0..(n - 1) /\ q[1] <= c /\ c <= q[2]
        /\ u \in Within(m) /\ d \in Within(m)
    BY <2>1, Halves
  <2>3. Right(u) /\ Right(d)
    BY <1>4, <2>2
  <2>4. At(c) \in Int /\ At(c) = records[c + 1] /\ c + 1 \in 1..n
    BY <2>2 DEF At
  <2>5. CASE At(c) < key
    <3>1. g[q] = g[u]
      BY <1>1, <2>1, <2>5 DEF Probe
    <3>2. ASSUME InOrder, Excluded(q, key)
          PROVE  Excluded(u, key)
      <4>1. \A j \in 1..n : j <= c + 1 => records[j] < key
        <5> SUFFICES ASSUME NEW j \in 1..n, j <= c + 1 PROVE records[j] < key
          OBVIOUS
        <5>1. j = c + 1 \/ records[j] < records[c + 1]
          BY <2>2, <2>4, <3>2 DEF InOrder
        <5>2. records[j] \in Int
          OBVIOUS
        <5> QED
          BY <2>4, <2>5, <5>1, <5>2
      <4>2. c + 1 <= q[2] + 1
        BY <2>1, <2>2
      <4> HIDE DEF c
      <4> QED
        BY <3>2, <4>1, <4>2 DEF Excluded
    <3> QED
      BY <2>3, <3>1, <3>2
  <2>6. CASE At(c) > key
    <3>1. g[q] = g[d]
      <4>1. ~(q[1] > q[2]) /\ ~(At(c) < key)
        BY <2>1, <2>4, <2>6
      <4> QED
        BY <1>1, <2>1, <2>6, <4>1 DEF Probe
    <3>2. ASSUME InOrder, Excluded(q, key)
          PROVE  Excluded(d, key)
      <4>1. \A j \in 1..n : j > c => key < records[j]
        <5> SUFFICES ASSUME NEW j \in 1..n, j > c PROVE key < records[j]
          OBVIOUS
        <5>1. j = c + 1 \/ records[c + 1] < records[j]
          BY <2>2, <2>4, <3>2 DEF InOrder
        <5>2. records[j] \in Int
          OBVIOUS
        <5> QED
          BY <2>4, <2>6, <5>1, <5>2
      <4>2. q[1] <= (c - 1) + 1 /\ (c - 1) + 1 = c
        BY <2>1, <2>2
      <4> HIDE DEF c
      <4> QED
        BY <3>2, <4>1, <4>2 DEF Excluded
    <3> QED
      BY <2>3, <3>1, <3>2
  <2>7. CASE At(c) = key
    <3>1. g[q] = [found |-> TRUE, at |-> c]
      BY <1>1, <2>1, <2>4, <2>7 DEF Probe
    <3> DEFINE x == g[q]
    <3> HIDE DEF c, x
    <3>2. x \in [found : BOOLEAN, at : 0..n] /\ x.found /\ x.at = c /\ c < n
      BY ONLY <2>2, <3>1, n \in Nat DEF x
    <3>3. Plausible(x, key) /\ Exact(x, key)
      BY <2>7, <3>2 DEF Plausible, Exact
    <3> QED
      BY <3>3 DEF x
  <2> QED
    BY <2>4, <2>5, <2>6, <2>7
<1> HIDE DEF Rights
<1>5. \A m \in Nat : Rights(m)
  <2> SUFFICES ASSUME NEW k \in Nat, ~Rights(k)
               PROVE  FALSE
    OBVIOUS
  <2> DEFINE T == {m \in Nat : ~Rights(m)}
  <2>1. PICK x \in T : \A y \in T : x <= y
    BY LeastElement
  <2>2. x # 0
    BY <1>3
  <2>3. x - 1 \in Nat /\ Rights(x - 1)
    BY <2>1, <2>2
  <2> QED
    BY <1>4, <2>3
<1>6. r \in Within(n)
  BY DEF Within, Ranges
<1> QED
  BY <1>5, <1>6 DEF Rights

\* Found, without its recursion.
LEMMA FoundFacts ==
    ASSUME n \in Nat, records \in [1..n -> Int], NEW key \in Int
    PROVE  Plausible(Found(key), key) /\ (InOrder => Exact(Found(key), key))
<1> DEFINE g == CHOOSE h : h = [r \in Ranges |-> Probe(h, key, r)]
<1>1. Found(key) = g[<<0, n - 1>>]
  BY DEF Found, Probe, Mid, Ranges
<1>2. g = [r \in Ranges |-> Probe(g, key, r)]
  BY SearchEnds
<1>3. <<0, n - 1>> \in Ranges
  BY DEF Ranges
<1>4. Excluded(<<0, n - 1>>, key)
  BY DEF Excluded
<1> HIDE DEF g
<1> QED
  BY <1>1, <1>2, <1>3, <1>4, SearchFinds

-----------------------------------------------------------------------------
\* The inductive invariant.

Unique == \A j, k \in 1..n : records[j] = records[k] => j = k

\* A cursor in use that has not lost its place stands between the keys up to
\* the one it delivered last and those beyond it.
CursorPlaced ==
    state = "IN_USE" /\ frozen /\ ~stale =>
        IF forward
        THEN /\ position \in 0..n
             /\ \A j \in 1..n : j <= position <=> records[j] <= startAt
        ELSE /\ position \in -1..(n - 1)
             /\ \A j \in 1..n : j <= position + 1 <=> records[j] < startAt

\* Only a cursor in use can lose its place, and one that is done holds EOF.
Settled == (stale => state = "IN_USE") /\ (state = "DONE" => current = EOF)

IInv == FrozenInOrder /\ Unique /\ CursorPlaced /\ Settled

\* The records as a function, and the keys they hold.
LEMMA RecordFacts ==
    ASSUME TypeOK
    PROVE  /\ n \in Nat
           /\ records \in [1..n -> Keys] /\ records \in [1..n -> Int]
           /\ DOMAIN records = 1..n
           /\ Range(records) = {records[j] : j \in 1..n}
           /\ \A j \in 1..n : records[j] \in Keys /\ records[j] \in Int
           /\ startAt \in Int
<1>1. n \in Nat /\ records \in [1..n -> Keys] /\ DOMAIN records = 1..n
  BY LenProperties DEF TypeOK, n
<1>2. Keys \subseteq Int /\ Least \in Int
  BY KeysAssumption
<1> QED
  BY <1>1, <1>2 DEF TypeOK, Range

\* Where position puts a cursor: before or behind the key, as the direction
\* and include_key say.
LEMMA PositionFacts ==
    ASSUME TypeOK, NEW key \in Int, NEW fm \in BOOLEAN, NEW include \in BOOLEAN
    PROVE  LET p == Position(key, fm, include)
           IN  /\ p \in Int
               /\ fm /\ include => p \in 0..n
               /\ InOrder /\ fm =>
                    /\ p \in 0..n
                    /\ \A j \in 1..n :
                         j <= p <=> IF include THEN records[j] < key ELSE records[j] <= key
               /\ InOrder /\ ~fm =>
                    /\ p \in -1..(n - 1)
                    /\ \A j \in 1..n :
                         j <= p + 1 <=> IF include THEN records[j] <= key ELSE records[j] < key
<1> DEFINE f == Found(key)
           p == Position(key, fm, include)
<1>1. n \in Nat /\ records \in [1..n -> Int]
  BY RecordFacts
<1>2. Plausible(f, key) /\ (InOrder => Exact(f, key))
  BY <1>1, FoundFacts
<1>3. f.found \in BOOLEAN /\ f.at \in 0..n /\ (f.found => f.at < n /\ records[f.at + 1] = key)
  BY <1>2 DEF Plausible, At
<1>4. p = IF f.found THEN IF include THEN f.at ELSE IF fm THEN f.at + 1 ELSE f.at - 1
          ELSE IF fm THEN f.at ELSE f.at - 1
  BY DEF Position
<1>5. InOrder /\ ~f.found =>
        \A j \in 1..n : (j <= f.at <=> records[j] < key) /\ records[j] # key
  BY <1>2 DEF Exact
<1>6. InOrder /\ f.found =>
        \A j \in 1..n : /\ j <= f.at <=> records[j] < key
                        /\ j <= f.at + 1 <=> records[j] <= key
  <2> SUFFICES ASSUME InOrder, f.found, NEW j \in 1..n
               PROVE  /\ j <= f.at <=> records[j] < key
                      /\ j <= f.at + 1 <=> records[j] <= key
    OBVIOUS
  <2> DEFINE c == f.at + 1
  <2>1. c \in 1..n /\ records[c] = key
    BY <1>1, <1>3
  <2> HIDE DEF f
  <2>2. (j < c => records[j] < key) /\ (c < j => key < records[j]) /\ (j = c => records[j] = key)
    BY <2>1 DEF InOrder
  <2>3. records[j] \in Int /\ f.at \in Int
    BY <1>1, <1>3
  <2> QED
    BY <2>2, <2>3
<1> HIDE DEF f, p
<1>7. p \in Int /\ (fm /\ include => p \in 0..n)
  BY <1>1, <1>3, <1>4
<1>8. ASSUME InOrder, fm
      PROVE  /\ p \in 0..n
             /\ \A j \in 1..n :
                  j <= p <=> IF include THEN records[j] < key ELSE records[j] <= key
  <2>1. \A j \in 1..n : records[j] \in Int
    BY <1>1
  <2> QED
    BY <1>1, <1>3, <1>4, <1>5, <1>6, <1>8, <2>1
<1>9. ASSUME InOrder, ~fm
      PROVE  /\ p \in -1..(n - 1)
             /\ \A j \in 1..n :
                  j <= p + 1 <=> IF include THEN records[j] <= key ELSE records[j] < key
  <2>1. \A j \in 1..n : records[j] \in Int
    BY <1>1
  <2>2. p + 1 = IF f.found /\ include THEN f.at + 1 ELSE f.at
    BY <1>3, <1>4, <1>9
  <2> QED
    BY <1>1, <1>3, <1>5, <1>6, <1>7, <1>9, <2>1, <2>2
<1> QED
  BY <1>7, <1>8, <1>9 DEF p

\* What is removed: the record of the key, if the search comes to it, which it
\* does when the records are in order.
LEMMA RemovableFacts ==
    ASSUME TypeOK, NEW k \in Keys
    PROVE  /\ Removable(k) \in BOOLEAN
           /\ Removable(k) => /\ Position(k, TRUE, TRUE) + 1 \in 1..n
                              /\ records[Position(k, TRUE, TRUE) + 1] = k
           /\ InOrder => (Removable(k) <=> k \in Range(records))
<1> DEFINE p == Position(k, TRUE, TRUE)
<1>1. /\ n \in Nat /\ Range(records) = {records[j] : j \in 1..n}
      /\ \A j \in 1..n : records[j] \in Int
  BY RecordFacts
<1>2. k \in Int
  BY KeysAssumption
<1>3. p \in 0..n /\ (InOrder => \A j \in 1..n : j <= p <=> records[j] < k)
  BY <1>2, PositionFacts
<1>4. Removable(k) <=> p < n /\ records[p + 1] = k
  BY DEF Removable, At
<1> HIDE DEF p
<1>5. p < n => p + 1 \in 1..n
  BY <1>1, <1>3
<1>6. ASSUME InOrder, NEW i \in 1..n, records[i] = k
      PROVE  p < n /\ records[p + 1] = k
  <2>1. ~(i <= p)
    BY <1>1, <1>2, <1>3, <1>6
  <2>2. p < n /\ p + 1 \in 1..n /\ p + 1 <= i
    BY <1>1, <1>3, <2>1
  <2>3. ~(records[p + 1] < k)
    BY <1>3, <1>6, <2>2
  <2>4. p + 1 < i => records[p + 1] < k
    BY <1>6, <2>2 DEF InOrder
  <2> QED
    BY <1>1, <1>2, <1>6, <2>2, <2>3, <2>4
<1>7. Removable(k) \in BOOLEAN
  BY DEF Removable
<1>8. InOrder => (Removable(k) <=> k \in Range(records))
  <2>1. Removable(k) => records[p + 1] \in Range(records)
    BY <1>1, <1>4, <1>5
  <2> QED
    BY <1>1, <1>4, <1>6, <1>7, <2>1
<1> QED
  BY <1>4, <1>5, <1>7, <1>8 DEF p

\* What remove leaves: the other records, in the order they had.
LEMMA RemovedFacts ==
    ASSUME TypeOK, NEW p \in 1..n, NEW r, r = RemoveAt(records, p)
    PROVE  /\ r \in Seq(Keys) /\ Len(r) = n - 1
           /\ \A j \in 1..(n - 1) : r[j] = IF j < p THEN records[j] ELSE records[j + 1]
           /\ Unique => Range(r) = Range(records) \ {records[p]}
<1> DEFINE u == SubSeq(records, 1, p - 1)
           v == SubSeq(records, p + 1, n)
<1>1. /\ n \in Nat /\ Range(records) = {records[j] : j \in 1..n}
      /\ \A j \in 1..n : records[j] \in Keys
  BY RecordFacts
<1>2. u \in Seq(Keys) /\ Len(u) = p - 1 /\ \A j \in 1..(p - 1) : u[j] = records[j]
  <2>1. \A j \in 1..(p - 1) : records[j] \in Keys
    BY <1>1
  <2>2. /\ u \in Seq(Keys) /\ Len(u) = IF 1 <= p - 1 THEN p - 1 - 1 + 1 ELSE 0
        /\ \A j \in 1..(p - 1 - 1 + 1) : u[j] = records[1 + j - 1]
    BY <2>1, SubSeqProperties, 1 \in Int, p - 1 \in Int
  <2> HIDE DEF u
  <2> QED
    BY <1>1, <2>2
<1>3. v \in Seq(Keys) /\ Len(v) = n - p /\ \A j \in 1..(n - p) : v[j] = records[p + j]
  <2>1. \A j \in (p + 1)..n : records[j] \in Keys
    BY <1>1
  <2>2. /\ v \in Seq(Keys) /\ Len(v) = IF p + 1 <= n THEN n - (p + 1) + 1 ELSE 0
        /\ \A j \in 1..(n - (p + 1) + 1) : v[j] = records[(p + 1) + j - 1]
    BY <1>1, <2>1, SubSeqProperties, n \in Int, p + 1 \in Int
  <2> HIDE DEF v
  <2> QED
    BY <1>1, <2>2
<1>4. r = u \o v
  BY DEF RemoveAt, n
<1> HIDE DEF u, v
<1>5. /\ r \in Seq(Keys) /\ Len(r) = n - 1
      /\ \A j \in 1..(n - 1) : r[j] = IF j <= p - 1 THEN u[j] ELSE v[j - (p - 1)]
  <2>1. Len(u) + Len(v) = n - 1
    BY <1>1, <1>2, <1>3
  <2>2. /\ u \o v \in Seq(Keys) /\ Len(u \o v) = Len(u) + Len(v)
        /\ \A j \in 1..Len(u) + Len(v) :
              (u \o v)[j] = IF j <= Len(u) THEN u[j] ELSE v[j - Len(u)]
    BY <1>2, <1>3, ConcatProperties
  <2> QED
    BY <1>2, <1>4, <2>1, <2>2
<1>6. \A j \in 1..(n - 1) : r[j] = IF j < p THEN records[j] ELSE records[j + 1]
  <2> SUFFICES ASSUME NEW j \in 1..(n - 1)
               PROVE  r[j] = IF j < p THEN records[j] ELSE records[j + 1]
    OBVIOUS
  <2>1. CASE j < p
    <3>1. j \in 1..(p - 1) /\ j <= p - 1
      BY <1>1, <2>1
    <3> QED
      BY <1>2, <1>5, <2>1, <3>1
  <2>2. CASE ~(j < p)
    <3>1. j - (p - 1) \in 1..(n - p) /\ ~(j <= p - 1) /\ p + (j - (p - 1)) = j + 1
      BY <1>1, <2>2
    <3> QED
      BY <1>3, <1>5, <2>2, <3>1
  <2> QED
    BY <2>1, <2>2
<1>7. ASSUME Unique
      PROVE  Range(r) = Range(records) \ {records[p]}
  <2>1. Range(r) = {r[j] : j \in 1..(n - 1)}
    BY <1>5, LenProperties DEF Range
  <2>2. ASSUME NEW j \in 1..(n - 1)
        PROVE  r[j] \in Range(records) \ {records[p]}
    <3>1. CASE j < p
      BY <1>1, <1>6, <1>7, <3>1 DEF Unique
    <3>2. CASE ~(j < p)
      <4>1. j + 1 \in 1..n /\ j + 1 # p
        BY <1>1, <3>2
      <4> QED
        BY <1>1, <1>6, <1>7, <3>2, <4>1 DEF Unique
    <3> QED
      BY <3>1, <3>2
  <2>3. ASSUME NEW i \in 1..n, records[i] # records[p]
        PROVE  records[i] \in Range(r)
    <3>1. CASE i < p
      <4>1. i \in 1..(n - 1)
        BY <1>1, <3>1
      <4> QED
        BY <1>6, <2>1, <3>1, <4>1
    <3>2. CASE ~(i < p)
      <4>1. i # p
        BY <2>3
      <4>2. i - 1 \in 1..(n - 1) /\ ~(i - 1 < p) /\ (i - 1) + 1 = i
        BY <1>1, <3>2, <4>1
      <4> QED
        BY <1>6, <2>1, <4>2
    <3> QED
      BY <3>1, <3>2
  <2> QED
    BY <1>1, <2>1, <2>2, <2>3
<1> QED
  BY <1>5, <1>6, <1>7

\* A set of integers has one order.
LEMMA SameOrder ==
    ASSUME NEW m \in Nat, NEW r \in [1..m -> Int], NEW s \in [1..m -> Int],
           Range(r) = Range(s),
           \A j, k \in 1..m : j < k => r[j] < r[k],
           \A j, k \in 1..m : j < k => s[j] < s[k]
    PROVE  r = s
<1> SUFFICES ASSUME r # s
             PROVE  FALSE
  OBVIOUS
<1> DEFINE T == {j \in 1..m : r[j] # s[j]}
<1>1. T # {} /\ T \subseteq Nat
  OBVIOUS
<1>2. PICK j \in T : \A k \in T : j <= k
  BY <1>1, LeastElement
<1>3. j \in 1..m /\ r[j] # s[j] /\ \A k \in 1..m : k < j => r[k] = s[k]
  BY <1>2
<1>4. PICK k \in 1..m : s[k] = r[j]
  <2>1. r[j] \in Range(r)
    BY ONLY <1>3, r \in [1..m -> Int] DEF Range
  <2>2. r[j] \in Range(s)
    BY ONLY <2>1, Range(r) = Range(s)
  <2> QED
    BY ONLY <2>2, s \in [1..m -> Int] DEF Range
<1>5. PICK l \in 1..m : r[l] = s[j]
  <2>1. s[j] \in Range(s)
    BY ONLY <1>3, s \in [1..m -> Int] DEF Range
  <2>2. s[j] \in Range(r)
    BY ONLY <2>1, Range(r) = Range(s)
  <2> QED
    BY ONLY <2>2, r \in [1..m -> Int] DEF Range
<1>6. k > j
  <2>1. k < j => s[k] = r[k] /\ r[k] < r[j]
    BY <1>3
  <2>2. r[j] \in Int /\ k # j
    BY <1>3, <1>4
  <2> QED
    BY <1>3, <1>4, <2>1, <2>2
<1>7. l > j
  <2>1. l < j => s[l] = r[l] /\ s[l] < s[j]
    BY <1>3
  <2>2. s[j] \in Int /\ l # j
    BY <1>3, <1>5
  <2> QED
    BY <1>3, <1>5, <2>1, <2>2
<1> QED
  <2>1. s[j] < s[k] /\ r[j] < r[l]
    BY <1>3, <1>6, <1>7
  <2>2. r[j] \in Int /\ s[j] \in Int
    BY <1>3
  <2> QED
    BY ONLY <1>4, <1>5, <2>1, <2>2

\* What freeze leaves: the same keys in order.
LEMMA SortedFacts ==
    ASSUME TypeOK, Unique, NEW r,
           r = [k \in 1..Cardinality(Range(records)) |->
                    CHOOSE e \in Range(records) :
                        Cardinality({d \in Range(records) : d < e}) = k - 1]
    PROVE  /\ r \in Seq(Keys) /\ Len(r) = n
           /\ Range(r) = Range(records)
           /\ \A j, k \in 1..n : j < k => r[j] < r[k]
<1> DEFINE S == Range(records)
           R == {p \in Int \X Int : p[1] < p[2]}
<1>1. /\ n \in Nat /\ S = {records[j] : j \in 1..n}
      /\ records \in [1..n -> Int] /\ S \subseteq Keys /\ S \subseteq Int
  BY RecordFacts
<1>2. IsFiniteSet(S) /\ Cardinality(S) = n
  <2>1. records \in Bijection(1..n, S)
    <3>1. records \in [1..n -> S]
      BY <1>1
    <3>2. \A x \in S : \E j \in 1..n : records[j] = x
      BY <1>1
    <3> QED
      BY <3>1, <3>2, Fun_IsBij DEF Unique
  <2>2. IsFiniteSet(1..n) /\ Cardinality(1..n) = n
    <3>1. n \in Nat
      BY <1>1
    <3> HIDE DEF S, R
    <3>2. IsFiniteSet(1..n) /\ Cardinality(1..n) = IF 1 > n THEN 0 ELSE n - 1 + 1
      BY ONLY <3>1, FS_Interval
    <3> QED
      BY ONLY <3>1, <3>2
  <2> QED
    BY <2>1, <2>2, FS_Bijection DEF ExistsBijection
<1>3. \A x, y \in S : <<x, y>> \in R <=> x < y
  BY <1>1
<1> HIDE DEF S, R
<1>4. Orders(S, R)
  <2>1. \A x \in S : x \in Int
    BY <1>1
  <2> QED
    BY ONLY <1>3, <2>1 DEF Orders
<1>5. \A e \in S : {d \in S : d < e} = {d \in S : <<d, e>> \in R}
  BY <1>3
<1>6. PICK f : /\ Arranges(f, Cardinality(S), S, R)
              /\ \A k \in 1..Cardinality(S), e \in S :
                    Cardinality({d \in S : <<d, e>> \in R}) = k - 1 <=> e = f[k]
  BY ONLY <1>2, <1>4, Arrangement
<1>7. /\ r \in [1..n -> S]
      /\ \A e \in S : \E k \in 1..n : r[k] = e
      /\ \A j, k \in 1..n : j < k <=> <<r[j], r[k]>> \in R
  <2>1. /\ f \in [1..Cardinality(S) -> S]
        /\ \A e \in S : \E k \in 1..Cardinality(S) : f[k] = e
        /\ \A j, k \in 1..Cardinality(S) : j < k <=> <<f[j], f[k]>> \in R
    BY ONLY <1>6 DEF Arranges
  <2> DEFINE Is(e, k) == Cardinality({d \in S : d < e}) = k - 1
             One(k) == CHOOSE e \in S : Is(e, k)
  <2>2. r = [k \in 1..Cardinality(S) |-> One(k)]
    BY DEF S
  <2>3. \A k \in 1..Cardinality(S), e \in S : Is(e, k) <=> e = f[k]
    BY ONLY <1>5, <1>6
  <2> HIDE DEF Is
  <2>4. \A k \in 1..Cardinality(S) : One(k) = f[k]
    BY ONLY <2>1, <2>3
  <2> HIDE DEF One
  <2>5. r = f
    BY ONLY <2>1, <2>2, <2>4
  <2> QED
    BY ONLY <1>2, <2>1, <2>5
<1>8. r \in Seq(Keys) /\ Len(r) = n
  <2>1. n \in Nat /\ S \subseteq Keys
    BY <1>1
  <2> QED
    BY ONLY <1>7, <2>1
<1>9. Range(r) = S
  BY ONLY <1>7 DEF Range
<1>10. \A j, k \in 1..n : j < k => r[j] < r[k]
  BY ONLY <1>3, <1>7
<1> QED
  BY ONLY <1>8, <1>9, <1>10 DEF S

-----------------------------------------------------------------------------
\* The steps: each keeps the invariant and is a step of the ordered cursor.

\* Frozen records are in order.
LEMMA FrozenOrder ==
    ASSUME IInv, frozen
    PROVE  InOrder
BY DEF IInv, FrozenInOrder, InOrder

\* A step that leaves the index alone keeps what the invariant says of it.
LEMMA IndexKept ==
    ASSUME IInv, UNCHANGED <<records, frozen>>, TypeOK'
    PROVE  /\ FrozenInOrder' /\ Unique'
           /\ n' = n /\ Range(records)' = Range(records)
BY DEF IInv, FrozenInOrder, Unique, n

LEMMA AddStep ==
    ASSUME IInv, NEW k \in Keys, Add(k)
    PROVE  IInv' /\ Abstract!Add(k)
<1> USE DEF IInv
<1>1. /\ n \in Nat /\ Range(records) = {records[j] : j \in 1..n}
      /\ \A j \in 1..n : records[j] \in Keys /\ records[j] \in Int
      /\ startAt \in Int /\ k \in Int
  BY RecordFacts, KeysAssumption DEF FrozenInOrder
<1>2. /\ k \notin Range(records)
      /\ frozen' = (frozen /\ \A l \in Range(records) : l < k)
      /\ stale' = (stale \/ Displaces(k))
      /\ UNCHANGED cursor
  BY DEF Add
<1>3. /\ records' \in Seq(Keys) /\ n' = n + 1
      /\ \A j \in 1..n : records'[j] = records[j]
      /\ records'[n + 1] = k
  <2>1. records \in Seq(Keys) /\ records' = Append(records, k)
    BY DEF Add, FrozenInOrder, TypeOK
  <2> QED
    BY <2>1, AppendProperties DEF n
<1>4. \A j \in 1..(n + 1) : j \in 1..n \/ j = n + 1
  BY <1>1
<1>5. Range(records)' = Range(records) \cup {k}
  <2>1. Range(records') = {records'[j] : j \in 1..(n + 1)}
    BY <1>3, LenProperties DEF Range, n
  <2>2. n + 1 \in 1..(n + 1) /\ \A j \in 1..n : j \in 1..(n + 1)
    BY <1>1
  <2> QED
    BY <1>1, <1>3, <1>4, <2>1, <2>2
<1>6. TypeOK'
  <2>1. frozen' \in BOOLEAN
    BY <1>2
  <2>2. stale' \in BOOLEAN
    BY <1>2 DEF FrozenInOrder, TypeOK, Displaces
  <2> QED
    BY <1>2, <1>3, <2>1, <2>2 DEF FrozenInOrder, TypeOK, cursor
<1>7. FrozenInOrder'
  <2> SUFFICES ASSUME frozen', NEW i \in 1..(n + 1), NEW j \in 1..(n + 1), i < j
               PROVE  records'[i] < records'[j]
    BY <1>3, <1>6 DEF FrozenInOrder
  <2>1. frozen /\ (\A l \in Range(records) : l < k) /\ InOrder
    BY <1>2, FrozenOrder
  <2>2. i \in 1..n
    BY <1>1
  <2>3. CASE j \in 1..n
    BY <1>3, <2>1, <2>2, <2>3 DEF InOrder
  <2>4. CASE j = n + 1
    BY <1>1, <1>3, <2>1, <2>2, <2>4
  <2> QED
    BY <1>4, <2>3, <2>4
<1>8. Unique'
  <2>1. \A j \in 1..n : records[j] # k
    BY <1>1, <1>2
  <2> QED
    BY <1>3, <1>4, <2>1 DEF Unique
<1>9. CursorPlaced'
  <2> SUFFICES ASSUME state = "IN_USE", frozen', ~stale'
               PROVE  CursorPlaced'
    BY <1>2 DEF CursorPlaced, cursor
  <2>1. frozen /\ ~stale /\ ~Displaces(k)
    BY <1>2
  <2>2. forward \in BOOLEAN
    BY DEF FrozenInOrder, TypeOK
  <2>3. CASE forward
    <3>1. position \in 0..n /\ \A j \in 1..n : j <= position <=> records[j] <= startAt
      BY <2>1, <2>3 DEF CursorPlaced
    <3>2. ~(k <= startAt)
      BY <2>1, <2>3 DEF Displaces
    <3>3. \A j \in 1..(n + 1) : j <= position <=> records'[j] <= startAt
      <4>1. ~(n + 1 <= position)
        BY <1>1, <3>1
      <4> QED
        BY <1>3, <1>4, <3>1, <3>2, <4>1
    <3>4. position \in 0..(n + 1)
      BY <1>1, <3>1
    <3> QED
      BY <1>2, <1>3, <2>3, <3>3, <3>4 DEF CursorPlaced, cursor
  <2>4. CASE ~forward
    <3>1. /\ position \in -1..(n - 1)
          /\ \A j \in 1..n : j <= position + 1 <=> records[j] < startAt
      BY <2>1, <2>4 DEF CursorPlaced
    <3>2. ~(k < startAt)
      BY <2>1, <2>4 DEF Displaces
    <3>3. \A j \in 1..(n + 1) : j <= position + 1 <=> records'[j] < startAt
      <4>1. ~(n + 1 <= position + 1)
        BY <1>1, <3>1
      <4> QED
        BY <1>3, <1>4, <3>1, <3>2, <4>1
    <3>4. position \in -1..((n + 1) - 1)
      BY <1>1, <3>1
    <3> QED
      BY <1>2, <1>3, <2>4, <3>3, <3>4 DEF CursorPlaced, cursor
  <2> QED
    BY <2>2, <2>3, <2>4
<1>10. Settled'
  BY <1>2 DEF Settled, Displaces, cursor
<1>11. Abstract!Add(k)
  BY <1>2, <1>5 DEF Abstract!Add, Abstract!Displaces, Abstract!cursor, Displaces, cursor
<1> QED
  BY <1>7, <1>8, <1>9, <1>10, <1>11

LEMMA RemoveStep ==
    ASSUME IInv, NEW k \in Keys, RemoveKey(k)
    PROVE  IInv' /\ Abstract!Remove(k)
<1> USE DEF IInv
<1> DEFINE p == Position(k, TRUE, TRUE) + 1
<1>1. /\ n \in Nat /\ Range(records) = {records[j] : j \in 1..n}
      /\ \A j \in 1..n : records[j] \in Keys /\ records[j] \in Int
      /\ startAt \in Int /\ k \in Int
  BY RecordFacts, KeysAssumption DEF FrozenInOrder
<1>2. /\ Removable(k) \in BOOLEAN
      /\ Removable(k) => p \in 1..n /\ records[p] = k /\ k \in Range(records)
      /\ frozen => (Removable(k) <=> k \in Range(records))
  BY <1>1, RemovableFacts, FrozenOrder DEF FrozenInOrder
<1>3. /\ stale' = (stale \/ (Removable(k) /\ Displaces(k)))
      /\ frozen' = frozen /\ UNCHANGED cursor
  BY DEF RemoveKey
<1>4. ASSUME Range(records)' = IF Removable(k) THEN Range(records) \ {k} ELSE Range(records)
      PROVE  Abstract!Remove(k)
  BY <1>2, <1>3, <1>4 DEF Abstract!Remove, Abstract!Displaces, Abstract!cursor, Displaces, cursor
<1>5. CASE ~Removable(k)
  <2>1. UNCHANGED <<records, frozen, stale, cursor>>
    BY <1>2, <1>3, <1>5 DEF RemoveKey, FrozenInOrder, TypeOK
  <2>2. TypeOK' /\ Settled'
    BY <2>1 DEF FrozenInOrder, TypeOK, Settled, cursor
  <2>3. FrozenInOrder' /\ Unique' /\ n' = n /\ Range(records)' = Range(records)
    BY <2>1, <2>2, IndexKept
  <2>4. CursorPlaced'
    BY <2>1, <2>3 DEF CursorPlaced, cursor
  <2> QED
    BY <1>4, <1>5, <2>2, <2>3, <2>4
<1>6. CASE Removable(k)
  <2>1. records' = RemoveAt(records, p) /\ p \in 1..n /\ records[p] = k
    BY <1>2, <1>6 DEF RemoveKey
  <2> HIDE DEF p
  <2>2. /\ records' \in Seq(Keys) /\ n' = n - 1
        /\ \A j \in 1..(n - 1) : records'[j] = IF j < p THEN records[j] ELSE records[j + 1]
        /\ Range(records') = Range(records) \ {k}
    <3>1. TypeOK /\ Unique
      BY DEF FrozenInOrder
    <3>2. PICK r : r = records' /\ r = RemoveAt(records, p)
      BY <2>1
    <3>3. /\ r \in Seq(Keys) /\ Len(r) = n - 1
          /\ \A j \in 1..(n - 1) : r[j] = IF j < p THEN records[j] ELSE records[j + 1]
          /\ Range(r) = Range(records) \ {k}
      BY ONLY <2>1, <3>1, <3>2, RemovedFacts
    <3> QED
      BY ONLY <3>2, <3>3 DEF n
  <2> DEFINE from(j) == IF j < p THEN j ELSE j + 1
  <2>3. \A j \in 1..(n - 1) : from(j) \in 1..n /\ records'[j] = records[from(j)]
    BY <1>1, <2>1, <2>2
  <2>4. \A i, j \in 1..(n - 1) : /\ i < j <=> from(i) < from(j)
                                 /\ from(i) = from(j) => i = j
    BY <1>1, <2>1
  <2>5. \A j \in 1..(n - 1) : j < p <=> from(j) < p
    BY <1>1, <2>1
  <2> HIDE DEF from
  <2>6. TypeOK'
    <3>1. stale' \in BOOLEAN
      BY <1>2, <1>3 DEF FrozenInOrder, TypeOK, Displaces
    <3> QED
      BY <1>3, <2>2, <3>1 DEF FrozenInOrder, TypeOK, cursor
  <2>7. FrozenInOrder'
    <3> SUFFICES ASSUME frozen, NEW i \in 1..(n - 1), NEW j \in 1..(n - 1), i < j
                 PROVE  records'[i] < records'[j]
      BY <1>3, <2>2, <2>6 DEF FrozenInOrder
    <3> QED
      BY <2>3, <2>4, FrozenOrder DEF InOrder
  <2>8. Unique'
    BY <2>2, <2>3, <2>4 DEF Unique
  <2>9. Settled'
    BY <1>3 DEF Settled, Displaces, cursor
  <2>10. CursorPlaced'
    <3> SUFFICES ASSUME state = "IN_USE", frozen, ~stale'
                 PROVE  CursorPlaced'
      BY <1>3 DEF CursorPlaced, cursor
    <3>1. ~stale /\ ~Displaces(k)
      BY <1>3, <1>6
    <3>2. forward \in BOOLEAN
      BY DEF FrozenInOrder, TypeOK
    <3>3. CASE forward
      <4>1. position \in 0..n /\ \A j \in 1..n : j <= position <=> records[j] <= startAt
        BY <3>1, <3>3 DEF CursorPlaced
      <4>2. ~(k <= startAt)
        BY <3>1, <3>3 DEF Displaces
      <4>3. position < p
        BY <1>1, <2>1, <4>1, <4>2
      <4>4. \A j \in 1..(n - 1) : j <= position <=> from(j) <= position
        BY <1>1, <2>1, <4>1, <4>3 DEF from
      <4>5. \A j \in 1..(n - 1) : j <= position <=> records'[j] <= startAt
        BY <2>3, <4>1, <4>4
      <4>6. position \in 0..(n - 1)
        BY <1>1, <2>1, <4>1, <4>3
      <4> QED
        BY <1>3, <2>2, <3>3, <4>5, <4>6 DEF CursorPlaced, cursor
    <3>4. CASE ~forward
      <4>1. /\ position \in -1..(n - 1)
            /\ \A j \in 1..n : j <= position + 1 <=> records[j] < startAt
        BY <3>1, <3>4 DEF CursorPlaced
      <4>2. ~(k < startAt)
        BY <3>1, <3>4 DEF Displaces
      <4>3. position + 1 < p
        BY <1>1, <2>1, <4>1, <4>2
      <4>4. \A j \in 1..(n - 1) : j <= position + 1 <=> from(j) <= position + 1
        BY <1>1, <2>1, <4>1, <4>3 DEF from
      <4>5. \A j \in 1..(n - 1) : j <= position + 1 <=> records'[j] < startAt
        BY <2>3, <4>1, <4>4
      <4>6. position \in -1..((n - 1) - 1)
        BY <1>1, <2>1, <4>1, <4>3
      <4> QED
        BY <1>3, <2>2, <3>4, <4>5, <4>6 DEF CursorPlaced, cursor
    <3> QED
      BY <3>2, <3>3, <3>4
  <2> QED
    BY <1>4, <1>6, <2>2, <2>7, <2>8, <2>9, <2>10
<1> QED
  BY <1>2, <1>5, <1>6

LEMMA FreezeStep ==
    ASSUME IInv, Freeze
    PROVE  IInv' /\ Abstract!Freeze
<1> USE DEF IInv
<1>1. /\ frozen' = TRUE /\ stale' = (stale \/ (state = "IN_USE" /\ ~frozen))
      /\ UNCHANGED cursor
  BY DEF Freeze
<1>2. records' = [k \in 1..Cardinality(Range(records)) |->
                      CHOOSE e \in Range(records) :
                          Cardinality({d \in Range(records) : d < e}) = k - 1]
  BY DEF Freeze, Sorted
<1>3. /\ records' \in Seq(Keys) /\ n' = n
      /\ Range(records') = Range(records)
      /\ \A j, k \in 1..n : j < k => records'[j] < records'[k]
  BY <1>2, SortedFacts DEF FrozenInOrder, n
<1>4. n \in Nat /\ \A j \in 1..n : records[j] \in Int /\ records'[j] \in Int
  <2>1. n \in Nat /\ \A j \in 1..n : records[j] \in Int
    BY RecordFacts DEF FrozenInOrder
  <2>2. \A j \in 1..n : records'[j] \in Keys
    BY ONLY <1>3, ElementOfSeq DEF n
  <2> QED
    BY ONLY <2>1, <2>2, KeysAssumption
<1>5. TypeOK' /\ FrozenInOrder' /\ Unique' /\ Settled'
  <2>1. TypeOK /\ Settled
    BY DEF FrozenInOrder
  <2>2. TypeOK' /\ Settled'
    BY ONLY <1>1, <1>3, <2>1 DEF TypeOK, Settled, cursor
  <2>3. FrozenInOrder'
    BY ONLY <1>3, <2>2 DEF FrozenInOrder
  <2>4. \A j, k \in 1..n : j # k => j < k \/ k < j
    BY ONLY <1>4
  <2>5. Unique'
    <3> SUFFICES ASSUME NEW j \in 1..n, NEW k \in 1..n, j # k
                 PROVE  records'[j] # records'[k]
      BY <1>3 DEF Unique
    <3>1. records'[j] < records'[k] \/ records'[k] < records'[j]
      BY ONLY <1>3, <2>4, j \in 1..n, k \in 1..n, j # k
    <3>2. records'[j] \in Int /\ records'[k] \in Int
      BY ONLY <1>4, j \in 1..n, k \in 1..n
    <3> QED
      BY ONLY <3>1, <3>2
  <2> QED
    BY ONLY <2>2, <2>3, <2>5
<1>6. CursorPlaced'
  <2> SUFFICES ASSUME state' = "IN_USE", ~stale'
               PROVE  CursorPlaced'
    BY DEF CursorPlaced
  <2>1. state = "IN_USE" /\ frozen /\ ~stale
    BY ONLY <1>1, state' = "IN_USE", ~stale' DEF cursor
  <2>2. records' = records
    <3>1. InOrder
      BY <2>1, FrozenOrder
    <3>2. records \in Seq(Keys) /\ records \in [1..n -> Int]
      BY RecordFacts DEF FrozenInOrder, TypeOK
    <3>3. records' \in [1..n -> Int]
      BY ONLY <1>3, <1>4, LenProperties DEF n
    <3>4. \A j, k \in 1..n : j < k => records[j] < records[k]
      BY ONLY <3>1 DEF InOrder
    <3> QED
      BY ONLY <1>3, <1>4, <3>2, <3>3, <3>4, SameOrder
  <2>3. CursorPlaced
    OBVIOUS
  <2> QED
    BY ONLY <1>1, <1>3, <2>1, <2>2, <2>3 DEF CursorPlaced, cursor
<1>7. Abstract!Freeze
  BY ONLY <1>1, <1>3 DEF Abstract!Freeze, Abstract!cursor, cursor
<1> QED
  BY ONLY <1>5, <1>6, <1>7 DEF IInv

\* The steps of the cursor that do not look at the index.
LEMMA CursorSteps ==
    ASSUME IInv
    PROVE  /\ Open => IInv' /\ Abstract!Open
           /\ Close => IInv' /\ Abstract!Close
           /\ Delete => IInv' /\ Abstract!Delete
           /\ Renew => IInv' /\ Abstract!Renew
           /\ \A k \in Keys \cup {Least} : GoTo(k) => IInv' /\ Abstract!GoTo(k)
<1> USE DEF IInv
<1>1. ASSUME Open
      PROVE  IInv' /\ Abstract!Open
  <2>1. UNCHANGED <<records, frozen>> /\ TypeOK' /\ CursorPlaced' /\ Settled'
    BY <1>1 DEF Open, FrozenInOrder, TypeOK, CursorPlaced, Settled
  <2>2. FrozenInOrder' /\ Unique' /\ Range(records)' = Range(records)
    BY <2>1, IndexKept
  <2>3. Abstract!Open
    BY <1>1, <2>2 DEF Open, Abstract!Open
  <2> QED
    BY <2>1, <2>2, <2>3
<1>2. ASSUME Close
      PROVE  IInv' /\ Abstract!Close
  <2>1. UNCHANGED <<records, frozen>> /\ TypeOK' /\ CursorPlaced' /\ Settled'
    BY <1>2 DEF Close, FrozenInOrder, TypeOK, CursorPlaced, Settled
  <2>2. FrozenInOrder' /\ Unique' /\ Range(records)' = Range(records)
    BY <2>1, IndexKept
  <2>3. Abstract!Close
    BY <1>2, <2>2 DEF Close, Abstract!Close
  <2> QED
    BY <2>1, <2>2, <2>3
<1>3. ASSUME Delete
      PROVE  IInv' /\ Abstract!Delete
  <2>1. UNCHANGED <<records, frozen>> /\ TypeOK' /\ CursorPlaced' /\ Settled'
    <3>1. UNCHANGED <<records, frozen>>
      BY <1>3 DEF Delete
    <3>2. TypeOK
      BY DEF FrozenInOrder
    <3>3. state' = "none" /\ position' = 0 /\ startAt' = Least
          /\ forward' = TRUE /\ current' = EOF /\ stale' = FALSE
      BY <1>3 DEF Delete
    <3>4. records' \in Seq(Keys) /\ frozen' \in BOOLEAN
      BY ONLY <3>1, <3>2 DEF TypeOK
    <3>5. startAt' \in Keys \cup {Least}
      BY <3>3
    <3>6. current' \in Keys \cup {EOF}
      BY <3>3
    <3>7. position' \in Int
      BY <3>3
    <3>d. state' \in {"none", "NEVER_USED", "IN_USE", "DONE"}
          /\ forward' \in BOOLEAN /\ stale' \in BOOLEAN
      BY <3>3, Zenon
    <3>8. TypeOK'
      BY <3>4, <3>5, <3>6, <3>7, <3>d, Zenon DEF TypeOK
    <3>9. CursorPlaced' /\ Settled'
      BY <1>3 DEF Delete, CursorPlaced, Settled
    <3> QED
      BY <3>1, <3>8, <3>9
  <2>2. FrozenInOrder' /\ Unique' /\ Range(records)' = Range(records)
    BY <2>1, IndexKept
  <2>3. Abstract!Delete
    BY <1>3, <2>2 DEF Delete, Abstract!Delete
  <2> QED
    BY <2>1, <2>2, <2>3
<1>4. ASSUME Renew
      PROVE  IInv' /\ Abstract!Renew
  <2>1. records' = << >> /\ frozen' = TRUE /\ state = "none" /\ UNCHANGED <<cursor, stale>>
    BY <1>4 DEF Renew
  <2>2. records' \in Seq(Keys) /\ n' = 0 /\ Range(records') = {}
    BY <2>1 DEF n, Range
  <2>3. TypeOK' /\ CursorPlaced' /\ Settled'
    BY <2>1, <2>2 DEF FrozenInOrder, TypeOK, CursorPlaced, Settled, cursor
  <2>4. FrozenInOrder' /\ Unique'
    BY <2>2, <2>3 DEF FrozenInOrder, Unique
  <2>5. Abstract!Renew
    BY <2>1, <2>2 DEF Abstract!Renew, Abstract!cursor, cursor
  <2> QED
    BY <2>3, <2>4, <2>5
<1>5. ASSUME NEW k \in Keys \cup {Least}, GoTo(k)
      PROVE  IInv' /\ Abstract!GoTo(k)
  <2>1. UNCHANGED <<records, frozen>> /\ TypeOK' /\ CursorPlaced' /\ Settled'
    BY <1>5 DEF GoTo, FrozenInOrder, TypeOK, CursorPlaced, Settled
  <2>2. FrozenInOrder' /\ Unique' /\ Range(records)' = Range(records)
    BY <2>1, IndexKept
  <2>3. Abstract!GoTo(k)
    BY <1>5, <2>2 DEF GoTo, Abstract!GoTo
  <2> QED
    BY <2>1, <2>2, <2>3
<1> QED
  BY <1>1, <1>2, <1>3, <1>4, <1>5

-----------------------------------------------------------------------------
\* Retrieval.

Active == state \in {"NEVER_USED", "IN_USE"}

\* Where neighbor starts: at the border of the keys that lie ahead.
LEMMA StartFacts ==
    ASSUME IInv, Active, NEW fm \in BOOLEAN
    PROVE  /\ Start(fm) \in Int
           /\ frozen /\ ~(stale /\ forward = fm) /\ fm =>
                /\ Start(fm) \in 0..n
                /\ \A j \in 1..n : j > Start(fm) <=> records[j] \in Abstract!Ahead(fm)
           /\ frozen /\ ~(stale /\ forward = fm) /\ ~fm =>
                /\ Start(fm) \in -1..(n - 1)
                /\ \A j \in 1..n : j <= Start(fm) + 1 <=> records[j] \in Abstract!Ahead(fm)
<1> USE DEF IInv
<1> DEFINE p == Start(fm)
<1>1. /\ n \in Nat /\ startAt \in Int /\ forward \in BOOLEAN /\ position \in Int
      /\ \A j \in 1..n : records[j] \in Int /\ records[j] \in Range(records)
  BY RecordFacts DEF FrozenInOrder, TypeOK
<1>2. TypeOK /\ (frozen => InOrder)
  BY FrozenOrder DEF FrozenInOrder
<1>3. \A j \in 1..n : records[j] \in Abstract!Ahead(fm) <=>
            \/ IF fm THEN records[j] > startAt ELSE records[j] < startAt
            \/ state = "NEVER_USED" /\ records[j] = startAt
  BY <1>1 DEF Abstract!Ahead
<1>4. CASE state = "NEVER_USED"
  <2>1. p = Position(startAt, fm, TRUE)
    BY <1>4 DEF Start
  <2> HIDE DEF p
  <2>2. /\ p \in Int
        /\ InOrder /\ fm => p \in 0..n /\ \A j \in 1..n : j <= p <=> records[j] < startAt
        /\ InOrder /\ ~fm =>
              p \in -1..(n - 1) /\ \A j \in 1..n : j <= p + 1 <=> records[j] <= startAt
    BY <1>1, <1>2, <2>1, PositionFacts
  <2>3. \A j \in 1..n : /\ j \in Int /\ (j > p <=> ~(j <= p))
                        /\ fm => (records[j] \in Abstract!Ahead(fm) <=> ~(records[j] < startAt))
                        /\ ~fm => (records[j] \in Abstract!Ahead(fm) <=> records[j] <= startAt)
    BY <1>1, <1>3, <1>4, <2>2
  <2> QED
    BY <1>2, <2>2, <2>3 DEF p
<1>5. CASE state = "IN_USE" /\ forward # fm
  <2>1. p = Position(startAt, fm, FALSE)
    BY <1>5 DEF Start
  <2> HIDE DEF p
  <2>2. /\ p \in Int
        /\ InOrder /\ fm => p \in 0..n /\ \A j \in 1..n : j <= p <=> records[j] <= startAt
        /\ InOrder /\ ~fm =>
              p \in -1..(n - 1) /\ \A j \in 1..n : j <= p + 1 <=> records[j] < startAt
    BY <1>1, <1>2, <2>1, PositionFacts
  <2>3. \A j \in 1..n : /\ j \in Int /\ (j > p <=> ~(j <= p))
                        /\ fm => (records[j] \in Abstract!Ahead(fm) <=> ~(records[j] <= startAt))
                        /\ ~fm => (records[j] \in Abstract!Ahead(fm) <=> records[j] < startAt)
    BY <1>1, <1>3, <1>5, <2>2
  <2> QED
    BY <1>2, <2>2, <2>3 DEF p
<1>6. CASE state = "IN_USE" /\ forward = fm
  <2>1. p = position
    BY <1>6 DEF Start
  <2> HIDE DEF p
  <2>2. frozen /\ ~stale =>
           /\ fm => p \in 0..n /\ \A j \in 1..n : j <= p <=> records[j] <= startAt
           /\ ~fm => p \in -1..(n - 1) /\ \A j \in 1..n : j <= p + 1 <=> records[j] < startAt
    BY <1>6, <2>1 DEF CursorPlaced
  <2>3. \A j \in 1..n : /\ j \in Int /\ (j > p <=> ~(j <= p))
                        /\ fm => (records[j] \in Abstract!Ahead(fm) <=> ~(records[j] <= startAt))
                        /\ ~fm => (records[j] \in Abstract!Ahead(fm) <=> records[j] < startAt)
    BY <1>1, <1>3, <1>6, <2>1
  <2> QED
    BY <1>1, <1>6, <2>1, <2>2, <2>3 DEF p
<1> QED
  BY <1>4, <1>5, <1>6 DEF Active

\* A cursor that has not run off an end delivers what lies ahead of it.
LEMMA RetrieveActive ==
    ASSUME IInv, Active, NEW fm \in BOOLEAN, Retrieve(fm)
    PROVE  IInv' /\ Abstract!Retrieve(fm)
<1> USE DEF IInv
<1> DEFINE p == Start(fm)
           k == current'
<1>1. /\ n \in Nat /\ \A j \in 1..n : records[j] \in Keys /\ records[j] \in Int
      /\ Range(records) = {records[j] : j \in 1..n}
      /\ TypeOK /\ EOF \notin Keys
  BY RecordFacts, KeysAssumption DEF FrozenInOrder
<1>2. /\ UNCHANGED <<records, frozen>> /\ stale' = FALSE /\ state # "none"
      /\ k = Delivered(fm) /\ forward' = IF state = "DONE" THEN forward ELSE fm
  BY DEF Retrieve
<1>3. IInv' /\ Abstract!Retrieve(fm)
  <2>1. Active /\ state # "DONE"
    BY DEF Active
  <2>2. p \in Int /\ k = IF p \in 0..(n - 1) THEN records[p + 1] ELSE EOF
    BY <1>2, <2>1, StartFacts DEF Delivered, At
  <2>3. /\ IF k # EOF THEN /\ state' = "IN_USE" /\ startAt' = k
                           /\ position' = IF fm THEN p + 1 ELSE p - 1
           ELSE state' = "DONE" /\ position' = p /\ startAt' = startAt
        /\ forward' = fm
    BY <1>2, <2>1 DEF Retrieve
  <2>4. /\ frozen /\ ~(stale /\ forward = fm) /\ fm =>
             p \in 0..n /\ \A j \in 1..n : j > p <=> records[j] \in Abstract!Ahead(fm)
        /\ frozen /\ ~(stale /\ forward = fm) /\ ~fm =>
             p \in -1..(n - 1) /\ \A j \in 1..n : j <= p + 1 <=> records[j] \in Abstract!Ahead(fm)
    BY <2>1, StartFacts
  <2> HIDE DEF p, k
  <2>5. k # EOF => p + 1 \in 1..n /\ k = records[p + 1] /\ k \in Range(records) /\ k \in Keys
    BY <1>1, <2>2
  <2>6. k # EOF <=> p \in 0..(n - 1)
    <3>1. p \in 0..(n - 1) => p + 1 \in 1..n
      BY <1>1
    <3> QED
      BY <1>1, <2>2, <3>1
  <2>7. ASSUME frozen, ~(stale /\ forward = fm)
        PROVE  IF Abstract!Ahead(fm) = {} THEN k = EOF ELSE k \in Abstract!Nearest(fm)
    <3>1. InOrder /\ \A a \in Abstract!Ahead(fm) : \E j \in 1..n : a = records[j]
      BY <1>1, <2>7, FrozenOrder DEF Abstract!Ahead
    <3>2. CASE fm
      <4>1. p \in 0..n /\ \A j \in 1..n : j > p <=> records[j] \in Abstract!Ahead(fm)
        BY <2>4, <2>7, <3>2
      <4>2. CASE k = EOF
        <5>1. p = n
          BY <1>1, <2>6, <4>1, <4>2
        <5>2. Abstract!Ahead(fm) = {}
          BY <1>1, <3>1, <4>1, <5>1
        <5> QED
          BY <4>2, <5>2
      <4>3. CASE k # EOF
        <5>1. k \in Abstract!Ahead(fm)
          BY <2>2, <2>5, <4>1, <4>3
        <5>2. \A j \in 1..n : j > p => k <= records[j]
          <6> SUFFICES ASSUME NEW j \in 1..n, j > p PROVE k <= records[j]
            OBVIOUS
          <6>1. j = p + 1 \/ p + 1 < j
            BY <1>1, <2>2
          <6>2. records[p + 1] <= records[j]
            BY <1>1, <2>5, <3>1, <4>3, <6>1 DEF InOrder
          <6> QED
            BY <2>5, <4>3, <6>2
        <5>3. \A l \in Abstract!Ahead(fm) : k <= l
          BY <3>1, <4>1, <5>2
        <5> QED
          BY <3>2, <5>1, <5>3 DEF Abstract!Nearest
      <4> QED
        BY <4>2, <4>3
    <3>3. CASE ~fm
      <4>1. /\ p \in -1..(n - 1)
            /\ \A j \in 1..n : j <= p + 1 <=> records[j] \in Abstract!Ahead(fm)
        BY <2>4, <2>7, <3>3
      <4>2. CASE k = EOF
        <5>1. p = -1
          BY <1>1, <2>6, <4>1, <4>2
        <5>2. Abstract!Ahead(fm) = {}
          BY <1>1, <3>1, <4>1, <5>1
        <5> QED
          BY <4>2, <5>2
      <4>3. CASE k # EOF
        <5>1. k \in Abstract!Ahead(fm)
          BY <2>2, <2>5, <4>1, <4>3
        <5>2. \A j \in 1..n : j <= p + 1 => k >= records[j]
          <6> SUFFICES ASSUME NEW j \in 1..n, j <= p + 1 PROVE k >= records[j]
            OBVIOUS
          <6>1. j = p + 1 \/ j < p + 1
            BY <1>1, <2>2
          <6>2. records[j] <= records[p + 1]
            BY <1>1, <2>5, <3>1, <4>3, <6>1 DEF InOrder
          <6>3. records[j] \in Int /\ k \in Int
            BY <1>1, <2>5, <4>3
          <6> QED
            BY <2>5, <4>3, <6>2, <6>3
        <5>3. \A l \in Abstract!Ahead(fm) : k >= l
          BY <3>1, <4>1, <5>2
        <5> QED
          BY <3>3, <5>1, <5>3 DEF Abstract!Nearest
      <4> QED
        BY <4>2, <4>3
    <3> QED
      BY <3>2, <3>3
  <2>8. k \in Abstract!Deliverable(fm)
    BY <2>5, <2>7 DEF Abstract!Deliverable
  <2>9. Range(records)' = Range(records) /\ n' = n
    BY <1>2 DEF n
  <2>10. Abstract!Retrieve(fm)
    <3>1. /\ state' = IF k = EOF THEN "DONE" ELSE "IN_USE"
          /\ startAt' = IF k = EOF THEN startAt ELSE k
          /\ current' = k
      BY <2>3 DEF k
    <3> QED
      BY <1>2, <2>1, <2>3, <2>8, <2>9, <3>1 DEF Abstract!Retrieve, Active
  <2>11. TypeOK'
    <3>1. k \in Keys \cup {EOF}
      BY <2>5
    <3>2. /\ state' \in {"IN_USE", "DONE"} /\ position' \in Int
          /\ startAt' \in Keys \cup {Least} /\ forward' \in BOOLEAN
      BY <1>1, <2>2, <2>3, <2>5 DEF TypeOK
    <3> QED
      BY <1>1, <1>2, <3>1, <3>2 DEF TypeOK, k
  <2>12. FrozenInOrder' /\ Unique'
    BY <1>2, <2>11, IndexKept
  <2>13. Settled'
    BY <1>2, <2>3 DEF Settled, k
  <2>14. CursorPlaced'
    <3> SUFFICES ASSUME state' = "IN_USE", frozen
                 PROVE  CursorPlaced'
      BY <1>2 DEF CursorPlaced
    <3>1. k # EOF /\ startAt' = k /\ position' = IF fm THEN p + 1 ELSE p - 1
      BY <2>3
    <3>2. p \in 0..(n - 1) /\ p + 1 \in 1..n /\ k = records[p + 1]
      BY <2>5, <2>6, <3>1
    <3>3. \A j \in 1..n : /\ j <= p + 1 <=> records[j] <= k
                          /\ j <= p <=> records[j] < k
      <4> SUFFICES ASSUME NEW j \in 1..n
                   PROVE  (j <= p + 1 <=> records[j] <= k) /\ (j <= p <=> records[j] < k)
        OBVIOUS
      <4>1. /\ j < p + 1 => records[j] < k
            /\ p + 1 < j => k < records[j]
            /\ j = p + 1 => records[j] = k
        BY <3>2, FrozenOrder DEF InOrder
      <4>2. records[j] \in Int /\ k \in Int
        BY <1>1, <3>2
      <4> QED
        BY <1>1, <2>2, <4>1, <4>2
    <3>4. CASE fm
      <4>1. position' = p + 1 /\ position' \in 0..n
        BY <1>1, <3>1, <3>2, <3>4
      <4> QED
        BY <1>2, <2>3, <2>9, <3>1, <3>3, <3>4, <4>1 DEF CursorPlaced
    <3>5. CASE ~fm
      <4>1. position' = p - 1 /\ position' \in -1..(n - 1) /\ position' + 1 = p
        BY <1>1, <2>2, <3>1, <3>2, <3>5
      <4> QED
        BY <1>2, <2>3, <2>9, <3>1, <3>3, <3>5, <4>1 DEF CursorPlaced
    <3> QED
      BY <3>4, <3>5
  <2> QED
    BY <2>10, <2>12, <2>13, <2>14
<1> QED
  BY <1>3

\* A cursor that has run off an end stays as it is.
LEMMA RetrieveStep ==
    ASSUME IInv, NEW fm \in BOOLEAN, Retrieve(fm)
    PROVE  IInv' /\ (Abstract!Retrieve(fm) \/ UNCHANGED Abstract!vars)
<1> USE DEF IInv
<1> DEFINE k == current'
<1>1. TypeOK
  BY DEF FrozenInOrder
<1>2. /\ UNCHANGED <<records, frozen>> /\ stale' = FALSE /\ state # "none"
      /\ k = Delivered(fm) /\ forward' = IF state = "DONE" THEN forward ELSE fm
  BY DEF Retrieve
<1>3. CASE state = "DONE"
  <2>1. k = EOF /\ current = EOF /\ ~stale /\ stale \in BOOLEAN
    BY <1>1, <1>2, <1>3 DEF Delivered, Settled, TypeOK
  <2>2. UNCHANGED vars
    BY <1>2, <1>3, <2>1 DEF Retrieve, vars
  <2>3. IInv'
    BY <2>2 DEF vars, FrozenInOrder, TypeOK, Unique, CursorPlaced, Settled, n
  <2> QED
    BY <2>2, <2>3 DEF vars, Abstract!vars
<1>4. CASE state # "DONE"
  <2>1. Active
    BY <1>1, <1>2, <1>4 DEF Active, TypeOK
  <2> QED
    BY <2>1, RetrieveActive
<1> QED
  BY <1>3, <1>4

-----------------------------------------------------------------------------
\* The theorems.

LEMMA InitInv == Init => IInv /\ Abstract!Init
<1> SUFFICES ASSUME Init
             PROVE  IInv /\ Abstract!Init
  OBVIOUS
<1>1. records = << >> /\ records \in Seq(Keys) /\ n = 0 /\ Range(records) = {}
  BY DEF Init, n, Range
<1>2. TypeOK /\ CursorPlaced /\ Settled
  <2>1. frozen = TRUE /\ state = "none" /\ position = 0 /\ startAt = Least
        /\ forward = TRUE /\ current = EOF /\ stale = FALSE
    BY DEF Init
  <2>a. startAt \in Keys \cup {Least}
    BY <2>1
  <2>b. current \in Keys \cup {EOF}
    BY <2>1
  <2>c. position \in Int
    BY <2>1
  <2>d. state \in {"none", "NEVER_USED", "IN_USE", "DONE"} /\ frozen \in BOOLEAN
        /\ forward \in BOOLEAN /\ stale \in BOOLEAN
    BY <2>1, Zenon
  <2>2. TypeOK
    BY <1>1, <2>a, <2>b, <2>c, <2>d, Zenon DEF TypeOK
  <2>3. CursorPlaced
    BY ONLY <2>1 DEF CursorPlaced
  <2>4. Settled
    BY ONLY <2>1 DEF Settled
  <2> QED
    BY <2>2, <2>3, <2>4
<1>3. FrozenInOrder /\ Unique
  BY <1>1, <1>2 DEF FrozenInOrder, Unique
<1>4. Abstract!Init
  BY <1>1 DEF Init, Abstract!Init
<1> QED
  BY <1>2, <1>3, <1>4 DEF IInv

LEMMA NextInv == IInv /\ [Next]_vars => IInv' /\ [Abstract!Next]_(Abstract!vars)
<1> SUFFICES ASSUME IInv, [Next]_vars
             PROVE  IInv' /\ [Abstract!Next]_(Abstract!vars)
  OBVIOUS
<1>1. ASSUME NEW k \in Keys, Add(k)
      PROVE  IInv' /\ Abstract!Next
  BY <1>1, AddStep DEF Abstract!Next
<1>2. ASSUME NEW k \in Keys, RemoveKey(k)
      PROVE  IInv' /\ Abstract!Next
  BY <1>2, RemoveStep DEF Abstract!Next
<1>3. ASSUME Freeze
      PROVE  IInv' /\ Abstract!Next
  BY <1>3, FreezeStep DEF Abstract!Next
<1>4. ASSUME Open \/ Close \/ Delete \/ Renew
      PROVE  IInv' /\ Abstract!Next
  BY <1>4, CursorSteps DEF Abstract!Next
<1>5. ASSUME NEW k \in Keys \cup {Least}, GoTo(k)
      PROVE  IInv' /\ Abstract!Next
  BY <1>5, CursorSteps DEF Abstract!Next
<1>6. ASSUME NEW fm \in BOOLEAN, Retrieve(fm)
      PROVE  IInv' /\ [Abstract!Next]_(Abstract!vars)
  BY <1>6, RetrieveStep DEF Abstract!Next
<1>7. ASSUME UNCHANGED vars
      PROVE  IInv' /\ UNCHANGED Abstract!vars
  BY <1>7 DEF vars, Abstract!vars, IInv, FrozenInOrder, TypeOK, Unique, CursorPlaced, Settled, n
<1> QED
  BY <1>1, <1>2, <1>3, <1>4, <1>5, <1>6, <1>7 DEF Next, NextOn

\* Invariance: the index and the cursor stay as IInv has them.
THEOREM Invariance == Spec => []IInv
BY InitInv, NextInv, PTL DEF Spec

\* FrozenInOrder: an index that is frozen is in order, through removals and
\* through adds behind its last key, so that the binary search may be used.
THEOREM FrozenStaysInOrder == Spec => []FrozenInOrder
<1>1. IInv => FrozenInOrder
  BY DEF IInv
<1> QED
  BY <1>1, Invariance, PTL

\* IsOrderedCursor: RecordArray and its cursor implement the promises of
\* OrderedIndex and Cursor, whatever the calls and their order.
THEOREM ArrayIsOrderedCursor == Spec => IsOrderedCursor
<1>1. IsOrderedCursor <=> Abstract!Init /\ [][Abstract!Next]_(Abstract!vars)
  BY DEF IsOrderedCursor, Abstract!Spec
<1> QED
  BY <1>1, InitInv, NextInv, PTL DEF Spec
-----------------------------------------------------------------------------
\* The array of z-values.

\* The slots are numbered from 0, the length is within the capacity, and what
\* is within the length are z-values.
ArrayInv ==
    \E c \in Nat \ {0} :
        /\ slots \in [0..(c - 1) -> Zs \cup {Uninitialized}]
        /\ length \in 0..c
        /\ \A k \in 0..(length - 1) : slots[k] \in Zs

AsList == [k \in 1..length |-> slots[k - 1]]

LEMMA ListFacts ==
    ASSUME ArrayInv
    PROVE  /\ length \in Nat /\ Capacity \in Nat \ {0} /\ length <= Capacity
           /\ slots \in [0..(Capacity - 1) -> Zs \cup {Uninitialized}]
           /\ \A k \in 0..(length - 1) : slots[k] \in Zs
           /\ AsList \in Seq(Zs) /\ Len(AsList) = length /\ DOMAIN AsList = 1..length
<1>1. PICK c \in Nat \ {0} :
          /\ slots \in [0..(c - 1) -> Zs \cup {Uninitialized}]
          /\ length \in 0..c
          /\ \A k \in 0..(length - 1) : slots[k] \in Zs
  BY DEF ArrayInv
<1>2. Capacity = c
  <2>1. 0 \in Int /\ c - 1 \in Int /\ ~(0 > c - 1) /\ (c - 1) - 0 + 1 = c
    BY <1>1
  <2>2. Cardinality(0..(c - 1)) = IF 0 > c - 1 THEN 0 ELSE (c - 1) - 0 + 1
    BY ONLY <2>1, FS_Interval
  <2>3. DOMAIN slots = 0..(c - 1)
    BY <1>1
  <2> QED
    BY ONLY <2>1, <2>2, <2>3 DEF Capacity
<1>3. length \in Nat /\ \A k \in 1..length : k - 1 \in 0..(length - 1)
  BY <1>1
<1>4. AsList \in [1..length -> Zs]
  BY <1>1, <1>3 DEF AsList
<1> QED
  BY <1>1, <1>2, <1>3, <1>4

\* A later state is as the invariant has it, with a capacity c.
LEMMA InvOf ==
    ASSUME NEW c \in Nat \ {0},
           slots' \in [0..(c - 1) -> Zs \cup {Uninitialized}], length' \in 0..c,
           \A k \in 0..(length' - 1) : slots'[k] \in Zs
    PROVE  ArrayInv'
BY DEF ArrayInv

LEMMA AppendStep ==
    ASSUME ArrayInv, NEW z \in Zs, AppendZ(z)
    PROVE  ArrayInv' /\ List!AppendZ(z)
<1> DEFINE C == Capacity
           l == length
           V == Zs \cup {Uninitialized}
<1>1. /\ l \in Nat /\ C \in Nat \ {0} /\ l <= C /\ slots \in [0..(C - 1) -> V]
      /\ \A k \in 0..(l - 1) : slots[k] \in Zs
      /\ AsList \in Seq(Zs) /\ Len(AsList) = l
  BY ListFacts
<1>2. l < MaxLength /\ slots' = [Ensured EXCEPT ![l] = z] /\ length' = l + 1
  BY DEF AppendZ
<1>3. PICK c \in Nat \ {0} :
          /\ Ensured \in [0..(c - 1) -> V] /\ l \in 0..(c - 1)
          /\ \A k \in 0..(l - 1) : Ensured[k] = slots[k]
  <2>1. CASE l < C
    <3>1. Ensured = slots
      BY <2>1 DEF Ensured
    <3> QED
      BY <1>1, <2>1, <3>1
  <2>2. CASE ~(l < C)
    <3>1. Ensured = [k \in 0..(2 * C - 1) |-> IF k < C THEN slots[k] ELSE Uninitialized]
      BY <2>2 DEF Ensured
    <3> HIDE DEF C, l
    <3>2. l = C /\ 2 * C \in Nat \ {0} /\ l \in 0..(2 * C - 1)
      BY <1>1, <2>2
    <3>3. \A k \in 0..(2 * C - 1) : k < C => k \in 0..(C - 1)
      BY <1>1
    <3>4. Ensured \in [0..(2 * C - 1) -> V]
      <4>1. \A k \in 0..(2 * C - 1) : (IF k < C THEN slots[k] ELSE Uninitialized) \in V
        BY <1>1, <3>3
      <4> QED
        BY <3>1, <4>1
    <3>5. \A k \in 0..(l - 1) : k \in 0..(2 * C - 1) /\ k < C
      BY <1>1, <3>2
    <3> QED
      BY <3>1, <3>2, <3>4, <3>5
  <2> QED
    BY <2>1, <2>2
<1>4. /\ slots' \in [0..(c - 1) -> V] /\ slots'[l] = z
      /\ \A k \in 0..(l - 1) : slots'[k] = slots[k]
  <2>1. \A k \in 0..(l - 1) : k \in 0..(c - 1) /\ k # l
    BY <1>1, <1>3
  <2> QED
    BY <1>2, <1>3, <2>1
<1>5. ArrayInv'
  <2>1. length' \in 0..c /\ \A k \in 0..(length' - 1) : slots'[k] \in Zs
    BY <1>1, <1>2, <1>3, <1>4
  <2> QED
    BY <1>4, <2>1, InvOf
<1>6. AsList' = Append(AsList, z)
  <2>1. AsList' = [k \in 1..(l + 1) |-> slots'[k - 1]]
    BY <1>2 DEF AsList
  <2>2. Append(AsList, z) = [k \in 1..(l + 1) |-> IF k = l + 1 THEN z ELSE AsList[k]]
    BY <1>1
  <2>3. \A k \in 1..(l + 1) : slots'[k - 1] = IF k = l + 1 THEN z ELSE AsList[k]
    <3> TAKE k \in 1..(l + 1)
    <3>1. CASE k = l + 1
      <4>1. k - 1 = l
        BY <1>1, <3>1
      <4> QED
        BY <1>4, <3>1, <4>1
    <3>2. CASE k # l + 1
      <4>1. k \in 1..l /\ k - 1 \in 0..(l - 1)
        BY <1>1, <3>2
      <4>2. AsList[k] = slots[k - 1]
        BY <4>1 DEF AsList
      <4> QED
        BY <1>4, <3>2, <4>1, <4>2
    <3> QED
      BY <3>1, <3>2
  <2> QED
    BY ONLY <2>1, <2>2, <2>3
<1> QED
  BY <1>1, <1>2, <1>5, <1>6 DEF List!AppendZ, AsList

LEMMA SetStep ==
    ASSUME ArrayInv, NEW p \in 0..(length - 1), NEW z \in Zs, SetZ(p, z)
    PROVE  ArrayInv' /\ p + 1 \in DOMAIN AsList /\ List!SetZ(p + 1, z)
<1> DEFINE C == Capacity
           l == length
           V == Zs \cup {Uninitialized}
<1>1. /\ l \in Nat /\ C \in Nat \ {0} /\ l <= C /\ slots \in [0..(C - 1) -> V]
      /\ \A k \in 0..(l - 1) : slots[k] \in Zs
      /\ AsList \in Seq(Zs) /\ Len(AsList) = l /\ DOMAIN AsList = 1..l
  BY ListFacts
<1>2. slots' = [slots EXCEPT ![p] = z] /\ length' = l
  BY DEF SetZ
<1>3. p \in 0..(C - 1) /\ p + 1 \in 1..l
  BY <1>1
<1>4. slots' \in [0..(C - 1) -> V] /\ \A k \in 0..(C - 1) : slots'[k] = IF k = p THEN z ELSE slots[k]
  BY <1>1, <1>2, <1>3
<1>5. \A k \in 0..(l - 1) : k \in 0..(C - 1)
  BY <1>1
<1>6. ArrayInv'
  <2>1. l \in 0..C /\ \A k \in 0..(l - 1) : slots'[k] \in Zs
    BY <1>1, <1>4, <1>5
  <2> QED
    BY <1>1, <1>2, <1>4, <2>1, InvOf
<1>7. AsList' = [AsList EXCEPT ![p + 1] = z]
  <2>1. AsList' = [k \in 1..l |-> slots'[k - 1]]
    BY <1>2 DEF AsList
  <2>2. \A k \in 1..l : slots'[k - 1] = IF k = p + 1 THEN z ELSE AsList[k]
    <3> TAKE k \in 1..l
    <3>1. k - 1 \in 0..(C - 1) /\ (k - 1 = p <=> k = p + 1)
      BY <1>1
    <3>2. AsList[k] = slots[k - 1]
      BY DEF AsList
    <3> QED
      BY <1>4, <3>1, <3>2
  <2> QED
    BY ONLY <1>1, <1>3, <2>1, <2>2
<1> QED
  BY <1>1, <1>3, <1>6, <1>7 DEF List!SetZ, AsList

LEMMA ConcatIs ==
    ASSUME NEW S, NEW a \in Seq(S), NEW b \in Seq(S)
    PROVE  a \o b = [k \in 1..(Len(a) + Len(b)) |-> IF k <= Len(a) THEN a[k] ELSE b[k - Len(a)]]
<1>1. /\ a \o b \in Seq(S) /\ Len(a \o b) = Len(a) + Len(b)
      /\ \A k \in 1..(Len(a) + Len(b)) :
            (a \o b)[k] = IF k <= Len(a) THEN a[k] ELSE b[k - Len(a)]
  BY ONLY a \in Seq(S), b \in Seq(S), ConcatProperties
<1> DEFINE c == a \o b
<1>2. c \in Seq(S) => c = [k \in 1..Len(c) |-> c[k]]
  <2> HIDE DEF c
  <2> QED
    OBVIOUS
<1> QED
  BY ONLY <1>1, <1>2

LEMMA RemoveZStep ==
    ASSUME ArrayInv, NEW p \in 0..(length - 1), RemoveZ(p)
    PROVE  ArrayInv' /\ p + 1 \in DOMAIN AsList /\ List!RemoveZ(p + 1)
<1> DEFINE C == Capacity
           l == length
           V == Zs \cup {Uninitialized}
<1>1. /\ l \in Nat /\ C \in Nat \ {0} /\ l <= C /\ slots \in [0..(C - 1) -> V]
      /\ \A k \in 0..(l - 1) : slots[k] \in Zs
      /\ AsList \in Seq(Zs) /\ Len(AsList) = l /\ DOMAIN AsList = 1..l
  BY ListFacts
<1>2. length' = l - 1 /\ slots' = [k \in 0..(C - 1) |->
                   IF k = l - 1 THEN Uninitialized
                   ELSE IF p <= k /\ k < l - 1 THEN slots[k + 1] ELSE slots[k]]
  BY <1>1 DEF RemoveZ
<1>3. p \in Nat /\ p < l /\ p + 1 \in 1..l
  BY <1>1
<1>4. \A k \in 0..(l - 2) : /\ k \in 0..(C - 1) /\ k + 1 \in 0..(l - 1) /\ k \in 0..(l - 1)
                            /\ slots'[k] = IF p <= k THEN slots[k + 1] ELSE slots[k]
  <2> TAKE k \in 0..(l - 2)
  <2>1. k \in 0..(C - 1) /\ k + 1 \in 0..(l - 1) /\ k \in 0..(l - 1) /\ k # l - 1 /\ k < l - 1
    BY <1>1
  <2> QED
    BY <1>2, <2>1
<1>5. slots' \in [0..(C - 1) -> V]
  <2>1. \A k \in 0..(C - 1) : k < l - 1 => k + 1 \in 0..(C - 1)
    BY <1>1
  <2>2. \A k \in 0..(C - 1) :
           (IF k = l - 1 THEN Uninitialized
            ELSE IF p <= k /\ k < l - 1 THEN slots[k + 1] ELSE slots[k]) \in V
    BY <1>1, <2>1
  <2> QED
    BY ONLY <1>2, <2>2
<1>6. ArrayInv'
  <2>1. l - 1 \in 0..C /\ (l - 1) - 1 = l - 2
    BY <1>1, <1>3
  <2>2. \A k \in 0..(l - 2) : slots'[k] \in Zs
    BY <1>1, <1>4
  <2> QED
    BY <1>1, <1>2, <1>5, <2>1, <2>2, InvOf
<1>7. AsList' = RemoveAt(AsList, p + 1)
  <2> DEFINE front == SubSeq(AsList, 1, p)
             back == SubSeq(AsList, p + 2, l)
  <2>1. /\ front \in Seq(Zs) /\ Len(front) = p /\ \A k \in 1..p : front[k] = AsList[k]
    BY <1>1, <1>3
  <2>2. /\ back \in Seq(Zs) /\ Len(back) = l - 1 - p
        /\ \A k \in 1..(l - 1 - p) : back[k] = AsList[k + p + 1]
    BY <1>1, <1>3
  <2>3. RemoveAt(AsList, p + 1) = front \o back
    <3>1. (p + 1) - 1 = p /\ (p + 1) + 1 = p + 2
      BY <1>3
    <3> QED
      BY <1>1, <3>1 DEF RemoveAt
  <2> HIDE DEF front, back
  <2>4. front \o back = [k \in 1..(l - 1) |-> IF k <= p THEN front[k] ELSE back[k - p]]
    <3>1. Len(front) + Len(back) = l - 1
      BY <1>1, <1>3, <2>1, <2>2
    <3> QED
      <4>1. front \o back = [k \in 1..(Len(front) + Len(back)) |->
                                IF k <= Len(front) THEN front[k] ELSE back[k - Len(front)]]
        BY ONLY <2>1, <2>2, ConcatIs
      <4> QED
        BY ONLY <2>1, <3>1, <4>1
  <2>5. AsList' = [k \in 1..(l - 1) |-> slots'[k - 1]]
    BY <1>2 DEF AsList
  <2>6. \A k \in 1..(l - 1) : slots'[k - 1] = IF k <= p THEN front[k] ELSE back[k - p]
    <3> TAKE k \in 1..(l - 1)
    <3>1. k - 1 \in 0..(l - 2) /\ (p <= k - 1 <=> ~(k <= p)) /\ (k - 1) + 1 = k
      BY <1>1, <1>3
    <3>2. slots'[k - 1] = IF k <= p THEN slots[k - 1] ELSE slots[k]
      BY <1>4, <3>1
    <3>3. CASE k <= p
      <4>1. k \in 1..p /\ k \in 1..l
        BY <1>1, <1>3, <3>3
      <4> QED
        BY <2>1, <3>2, <3>3, <4>1 DEF AsList
    <3>4. CASE ~(k <= p)
      <4>1. k - p \in 1..(l - 1 - p) /\ (k - p) + p + 1 = k + 1 /\ k + 1 \in 1..l /\ (k + 1) - 1 = k
        BY <1>1, <1>3, <3>4
      <4>2. back[k - p] = AsList[k + 1]
        BY <2>2, <4>1
      <4> QED
        BY <3>2, <3>4, <4>1, <4>2 DEF AsList
    <3> QED
      BY <3>3, <3>4
  <2> QED
    BY ONLY <2>3, <2>4, <2>5, <2>6
<1> QED
  BY <1>1, <1>3, <1>6, <1>7 DEF List!RemoveZ, List!RemoveAt, RemoveAt, AsList

LEMMA ClearStep ==
    ASSUME ArrayInv, Clear
    PROVE  ArrayInv' /\ List!Clear
<1>1. /\ Capacity \in Nat \ {0} /\ slots \in [0..(Capacity - 1) -> Zs \cup {Uninitialized}]
  BY ListFacts
<1>2. length' = 0 /\ slots' = slots
  BY DEF Clear
<1>3. ArrayInv'
  BY <1>1, <1>2, InvOf
<1>4. AsList' = << >>
  BY <1>2 DEF AsList
<1> QED
  BY <1>3, <1>4 DEF List!Clear, AsList

\* Sorting the slots within the length rearranges them, in order.
SlotsInOrder(o, l) ==
    o = [k \in 1..Cardinality(0..(l - 1)) |->
            CHOOSE e \in 0..(l - 1) : Cardinality({d \in 0..(l - 1) : Sooner(d, e)}) = k - 1]

LEMMA OrderFacts ==
    ASSUME NEW l \in Nat, \A k \in 0..(l - 1) : slots[k] \in Int,
           NEW o, SlotsInOrder(o, l)
    PROVE  /\ o \in [1..l -> 0..(l - 1)]
           /\ \A e \in 0..(l - 1) : \E k \in 1..l : o[k] = e
           /\ \A j, k \in 1..l : j < k <=> Sooner(o[j], o[k])
<1> DEFINE S == 0..(l - 1)
           R == {p \in S \X S : Sooner(p[1], p[2])}
<1>1. IsFiniteSet(S) /\ Cardinality(S) = l
  <2>1. 0 \in Int /\ l - 1 \in Int /\ (l - 1) - 0 + 1 = l /\ (0 > l - 1 => l = 0)
    OBVIOUS
  <2>2. IsFiniteSet(0..(l - 1)) /\ Cardinality(0..(l - 1)) = IF 0 > l - 1 THEN 0 ELSE (l - 1) - 0 + 1
    BY ONLY <2>1, FS_Interval
  <2> QED
    BY ONLY <2>1, <2>2
<1>2. \A x, y \in S : <<x, y>> \in R <=> Sooner(x, y)
  OBVIOUS
<1>3. \A x \in S : x \in Int /\ slots[x] \in Int
  OBVIOUS
<1> HIDE DEF S, R
<1>4. Orders(S, R)
  BY ONLY <1>2, <1>3 DEF Orders, Sooner
<1>5. \A e \in S : {d \in S : Sooner(d, e)} = {d \in S : <<d, e>> \in R}
  BY ONLY <1>2
<1>6. PICK f : /\ Arranges(f, Cardinality(S), S, R)
              /\ \A k \in 1..Cardinality(S), e \in S :
                    Cardinality({d \in S : <<d, e>> \in R}) = k - 1 <=> e = f[k]
  BY ONLY <1>1, <1>4, Arrangement
<1>7. /\ f \in [1..l -> S]
      /\ \A e \in S : \E k \in 1..l : f[k] = e
      /\ \A j, k \in 1..l : j < k <=> <<f[j], f[k]>> \in R
  BY ONLY <1>1, <1>6 DEF Arranges
<1> DEFINE Is(e, k) == Cardinality({d \in S : Sooner(d, e)}) = k - 1
           One(k) == CHOOSE e \in S : Is(e, k)
<1>8. o = [k \in 1..Cardinality(S) |-> One(k)]
  BY DEF S, SlotsInOrder
<1>9. \A k \in 1..Cardinality(S), e \in S : Is(e, k) <=> e = f[k]
  BY ONLY <1>5, <1>6
<1> HIDE DEF Is
<1>10. \A k \in 1..Cardinality(S) : One(k) = f[k]
  BY ONLY <1>1, <1>7, <1>9
<1> HIDE DEF One
<1>11. o = f
  BY ONLY <1>1, <1>7, <1>8, <1>10
<1>12. \A j, k \in 1..l : j < k <=> Sooner(f[j], f[k])
  BY ONLY <1>2, <1>7
<1> QED
  BY ONLY <1>7, <1>11, <1>12 DEF S

LEMMA SortStep ==
    ASSUME ArrayInv, SortZs
    PROVE  ArrayInv' /\ List!Sort
<1> DEFINE C == Capacity
           l == length
           V == Zs \cup {Uninitialized}
           o == Sorted(0..(length - 1), Sooner)
<1>1. /\ l \in Nat /\ C \in Nat \ {0} /\ l <= C /\ slots \in [0..(C - 1) -> V]
      /\ \A k \in 0..(l - 1) : slots[k] \in Zs
      /\ AsList \in Seq(Zs) /\ Len(AsList) = l /\ DOMAIN AsList = 1..l
  BY ListFacts
<1>2. /\ slots' = [k \in 0..(C - 1) |-> IF k < l THEN slots[o[k + 1]] ELSE slots[k]]
      /\ length' = l
  BY <1>1 DEF SortZs
<1>3. SlotsInOrder(o, l)
  BY DEF Sorted, SlotsInOrder
<1>4. \A k \in 0..(l - 1) : slots[k] \in Int
  BY <1>1, ArrayAssumption
<1> HIDE DEF o, C, l
<1>5. /\ o \in [1..l -> 0..(l - 1)]
      /\ \A e \in 0..(l - 1) : \E k \in 1..l : o[k] = e
      /\ \A j, k \in 1..l : j < k <=> Sooner(o[j], o[k])
  BY ONLY <1>1, <1>3, <1>4, OrderFacts
<1>6. \A k \in 0..(l - 1) : k \in 0..(C - 1) /\ k < l /\ k + 1 \in 1..l
  BY <1>1
<1>7. \A k \in 0..(l - 1) : slots'[k] = slots[o[k + 1]] /\ o[k + 1] \in 0..(l - 1)
  BY <1>2, <1>5, <1>6
<1>8. ArrayInv'
  <2>1. \A k \in 0..(C - 1) : k < l => k \in 0..(l - 1)
    BY <1>1
  <2>2. \A k \in 0..(C - 1) : (IF k < l THEN slots[o[k + 1]] ELSE slots[k]) \in V
    BY <1>1, <1>7, <2>1
  <2>3. slots' \in [0..(C - 1) -> V]
    BY ONLY <1>2, <2>2
  <2>4. l \in 0..C
    BY ONLY <1>1
  <2>5. \A k \in 0..(l - 1) : slots'[k] \in Zs
    BY ONLY <1>1, <1>7
  <2> QED
    BY ONLY <1>1, <1>2, <2>3, <2>4, <2>5, InvOf
<1> DEFINE p == [m \in 1..l |-> o[m] + 1]
<1>9. \A m \in 1..l : p[m] \in 1..l /\ p[m] - 1 = o[m] /\ o[m] \in 0..(l - 1)
  <2>1. \A m \in 1..l : o[m] \in 0..(l - 1) /\ p[m] = o[m] + 1
    BY <1>5
  <2>2. \A x \in 0..(l - 1) : x + 1 \in 1..l /\ (x + 1) - 1 = x
    BY <1>1
  <2> HIDE DEF p
  <2> QED
    BY ONLY <2>1, <2>2
<1>10. \A j, k \in 1..l : p[j] = p[k] => j = k
  <2> SUFFICES ASSUME NEW j \in 1..l, NEW k \in 1..l, p[j] = p[k] PROVE j = k
    OBVIOUS
  <2>1. o[j] = o[k] /\ o[j] \in Int /\ slots[o[j]] \in Int
    BY <1>4, <1>9
  <2>2. ~Sooner(o[j], o[k]) /\ ~Sooner(o[k], o[j])
    BY ONLY <2>1 DEF Sooner
  <2>3. ~(j < k) /\ ~(k < j)
    BY <1>5, <2>2
  <2> QED
    BY <1>1, <2>3
<1>11. \A m \in 1..l : \E k \in 1..l : p[k] = m
  <2> SUFFICES ASSUME NEW m \in 1..l PROVE \E k \in 1..l : p[k] = m
    OBVIOUS
  <2>1. m - 1 \in 0..(l - 1) /\ (m - 1) + 1 = m
    BY <1>1
  <2> QED
    BY <1>5, <2>1
<1>12. p \in List!Bijection(1..l, 1..l)
  <2>1. p \in [1..l -> 1..l]
    BY <1>9
  <2> HIDE DEF p
  <2> QED
    BY ONLY <1>10, <1>11, <2>1 DEF List!Bijection, List!Injection, List!Surjection,
                                       List!IsInjective
<1>13. AsList' = [m \in 1..l |-> AsList[p[m]]]
  <2>1. AsList' = [m \in 1..l |-> slots'[m - 1]]
    BY <1>2 DEF AsList, l
  <2>2. \A m \in 1..l : slots'[m - 1] = AsList[p[m]]
    <3> TAKE m \in 1..l
    <3>1. m - 1 \in 0..(l - 1) /\ (m - 1) + 1 = m
      BY <1>1
    <3>2. AsList[p[m]] = slots[p[m] - 1]
      BY <1>9 DEF AsList, l
    <3> QED
      BY <1>7, <1>9, <3>1, <3>2
  <2> QED
    BY ONLY <2>1, <2>2
<1>14. \A j, k \in 1..l : j < k => AsList'[j] <= AsList'[k]
  <2> SUFFICES ASSUME NEW j \in 1..l, NEW k \in 1..l, j < k
               PROVE  AsList'[j] <= AsList'[k]
    OBVIOUS
  <2>1. Sooner(o[j], o[k])
    BY <1>5
  <2>2. AsList'[j] = slots[o[j]] /\ AsList'[k] = slots[o[k]]
    <3>1. \A m \in 1..l : AsList[p[m]] = slots[o[m]]
      <4> TAKE m \in 1..l
      <4>1. p[m] \in 1..l /\ p[m] - 1 = o[m]
        BY <1>9
      <4> QED
        BY <4>1 DEF AsList, l
    <3> HIDE DEF p
    <3> QED
      BY ONLY <1>13, <3>1
  <2>3. slots[o[j]] \in Int /\ slots[o[k]] \in Int
    BY <1>4, <1>9 DEF l
  <2> QED
    BY ONLY <2>1, <2>2, <2>3 DEF Sooner
<1> HIDE DEF p
<1> QED
  BY <1>1, <1>8, <1>12, <1>13, <1>14 DEF List!Sort, AsList

LEMMA ArrayInitStep == ArrayInit => ArrayInv /\ List!Init
<1> SUFFICES ASSUME ArrayInit
             PROVE  ArrayInv /\ List!Init
  OBVIOUS
<1>1. slots = [k \in 0..(InitialCapacity - 1) |-> Uninitialized] /\ length = 0
  BY DEF ArrayInit, Fresh
<1>2. InitialCapacity \in Nat \ {0}
  BY ArrayAssumption
<1>3. ArrayInv
  BY <1>1, <1>2 DEF ArrayInv
<1>4. List!Init
  BY <1>1 DEF List!Init
<1> QED
  BY <1>3, <1>4

LEMMA ArrayNextStep ==
    ArrayInv /\ [ArrayNext]_arrayVars => ArrayInv' /\ [List!Next]_AsList
<1> SUFFICES ASSUME ArrayInv, [ArrayNext]_arrayVars
             PROVE  ArrayInv' /\ [List!Next]_AsList
  OBVIOUS
<1>1. ASSUME NEW z \in Zs, AppendZ(z)
      PROVE  ArrayInv' /\ List!Next
  BY <1>1, AppendStep DEF List!Next
<1>2. ASSUME NEW p \in 0..(length - 1), RemoveZ(p)
      PROVE  ArrayInv' /\ List!Next
  BY <1>2, RemoveZStep DEF List!Next, AsList
<1>3. ASSUME NEW p \in 0..(length - 1), NEW z \in Zs, SetZ(p, z)
      PROVE  ArrayInv' /\ List!Next
  BY <1>3, SetStep DEF List!Next, AsList
<1>4. ASSUME Clear
      PROVE  ArrayInv' /\ List!Next
  BY <1>4, ClearStep DEF List!Next
<1>5. ASSUME SortZs
      PROVE  ArrayInv' /\ List!Next
  BY <1>5, SortStep DEF List!Next
<1>6. ASSUME UNCHANGED arrayVars
      PROVE  ArrayInv' /\ UNCHANGED AsList
  BY <1>6 DEF arrayVars, ArrayInv, AsList
<1> QED
  BY <1>1, <1>2, <1>3, <1>4, <1>5, <1>6 DEF ArrayNext

\* IsList: ZArray is a list of z-values, whatever the calls and their order,
\* when it grows and when it is used again after clear.
THEOREM ArrayIsList == ArraySpec => IsList
<1>1. IsList <=> List!Init /\ [][List!Next]_AsList
  BY DEF IsList, List!Spec, AsList
<1> QED
  BY <1>1, ArrayInitStep, ArrayNextStep, PTL DEF ArraySpec
=============================================================================
