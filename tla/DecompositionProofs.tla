------------------------ MODULE DecompositionProofs ------------------------
(***************************************************************************)
(* Proofs about Space::decompose as module Decomposition describes it, for *)
(* every resolution, every set of objects and every max_z.                 *)
(***************************************************************************)
EXTENDS Decomposition, Numbers, SequenceTheorems, FiniteSetTheorems, TLAPS

(***************************************************************************)
(* Regions.                                                                *)
(***************************************************************************)

\* A half of a region that is no point is a region, and its cells are the
\* cells of the region that turn the same way (Region::downLeft, downRight).
LEMMA ChildCells ==
    ASSUME NEW r \in Region, Len(r) < ZBits, NEW b \in Bit
    PROVE  /\ Child(r, b) \in Region
           /\ \A c \in Cell :
                 Has(Child(r, b), c) <=> Has(r, c) /\ c[Len(r) + 1] = b
<1>1. /\ Child(r, b) \in Seq(Bit)
      /\ Len(Child(r, b)) = Len(r) + 1
      /\ \A n \in 1..Len(r) : Child(r, b)[n] = r[n]
      /\ Child(r, b)[Len(r) + 1] = b
  BY DEF Child, Region, Bit
<1>2. Child(r, b) \in Region
  BY <1>1, ZBitsAssumption DEF Region
<1>3. ASSUME NEW c \in Cell
      PROVE  Has(Child(r, b), c) <=> Has(r, c) /\ c[Len(r) + 1] = b
  <2>1. Len(r) \in Nat
    BY DEF Region
  <2>2. 1..(Len(r) + 1) = 1..Len(r) \cup {Len(r) + 1}
    BY <2>1
  <2> QED
    BY <1>1, <2>1, <2>2 DEF Has
<1> QED
  BY <1>2, <1>3

\* No region is empty.
LEMMA RegionNotEmpty ==
    ASSUME NEW r \in Region
    PROVE  Cells(r) # {}
<1> DEFINE c == [n \in 1..ZBits |-> IF n <= Len(r) THEN r[n] ELSE 0]
<1>1. /\ Len(r) \in Nat /\ Len(r) <= ZBits
      /\ \A n \in 1..Len(r) : r[n] \in Bit
  BY DEF Region
<1>2. c \in Cell
  BY <1>1, ZBitsAssumption DEF Cell, Bit
<1>3. Has(r, c)
  BY <1>1, ZBitsAssumption DEF Has
<1> QED
  BY <1>2, <1>3 DEF Cells

\* The parent of a region is a region (Region::up).
LEMMA ParentType ==
    ASSUME NEW r \in Region
    PROVE  /\ Parent(r) \in Region
           /\ Len(r) > 0 =>
                 /\ Len(Parent(r)) = Len(r) - 1
                 /\ \A n \in 1..(Len(r) - 1) : Parent(r)[n] = r[n]
<1>1. r \in Seq(Bit) /\ Len(r) \in Nat /\ Len(r) <= ZBits
  BY DEF Region
<1>2. CASE Len(r) = 0
  <2>1. Parent(r) = << >>
    BY <1>1, <1>2 DEF Parent
  <2> QED
    BY <1>1, <1>2, <2>1, ZBitsAssumption DEF Region
<1>3. CASE Len(r) > 0
  <2>1. /\ Parent(r) \in Seq(Bit)
        /\ Len(Parent(r)) = Len(r) - 1
        /\ \A n \in 1..(Len(r) - 1) : Parent(r)[n] = r[n]
    <3> DEFINE m == Len(r) - 1
    <3>1. m \in Nat /\ 1 \in Int /\ m \in Int
      BY <1>1, <1>3
    <3>2. \A n \in 1..m : r[n] \in Bit
      BY <1>1
    <3> HIDE DEF m
    <3>3. /\ SubSeq(r, 1, m) \in Seq(Bit)
          /\ Len(SubSeq(r, 1, m)) = IF 1 <= m THEN m - 1 + 1 ELSE 0
          /\ \A n \in 1..(m - 1 + 1) : SubSeq(r, 1, m)[n] = r[1 + n - 1]
      BY <3>1, <3>2, SubSeqProperties
    <3>4. Len(SubSeq(r, 1, m)) = m /\ m - 1 + 1 = m
      BY <3>1, <3>3
    <3>5. \A n \in 1..m : SubSeq(r, 1, m)[n] = r[n]
      BY <3>1, <3>3
    <3> QED
      BY <3>3, <3>4, <3>5 DEF Parent, m
  <2> QED
    BY <1>1, <1>3, <2>1, ZBitsAssumption DEF Region
<1> QED
  BY <1>1, <1>2, <1>3

\* The cells of two siblings are together the cells of their parent, so that
\* merging them (Z::siblingOf, Z::parent) keeps what is covered.
LEMMA SiblingCells ==
    ASSUME NEW a \in Region, NEW b \in Region, SiblingOf(a, b), NEW c \in Cell
    PROVE  Has(Parent(a), c) <=> Has(a, c) \/ Has(b, c)
<1>1. /\ a \in Seq(Bit) /\ b \in Seq(Bit)
      /\ Len(a) \in Nat /\ Len(a) <= ZBits /\ Len(a) > 0 /\ Len(b) = Len(a)
      /\ \A n \in 1..(Len(a) - 1) : a[n] = b[n]
      /\ a[Len(a)] # b[Len(a)]
  BY DEF Region, SiblingOf
<1>2. /\ a[Len(a)] \in Bit /\ b[Len(a)] \in Bit
      /\ c[Len(a)] \in Bit
  BY <1>1, ZBitsAssumption DEF Cell
<1>3. c[Len(a)] = a[Len(a)] \/ c[Len(a)] = b[Len(a)]
  BY <1>1, <1>2 DEF Bit
<1>4. 1..Len(a) = 1..(Len(a) - 1) \cup {Len(a)}
  BY <1>1
<1>5. Has(Parent(a), c) <=> \A n \in 1..(Len(a) - 1) : c[n] = a[n]
  BY <1>1, ParentType DEF Has
<1> QED
  BY <1>1, <1>3, <1>4, <1>5 DEF Has

(***************************************************************************)
(* Sequences of regions.                                                   *)
(***************************************************************************)

\* Two regions without a common cell.
Apart(a, b) == Cells(a) \cap Cells(b) = {}

\* A sequence of regions without overlaps, and two sequences that do not
\* overlap each other.
AllApart(s) == \A j, k \in DOMAIN s : j # k => Apart(s[j], s[k])
Cross(s, t) == \A a \in Range(s), b \in Range(t) : Apart(a, b)

\* The elements of a concatenation, by position and as a set.
LEMMA ConcatElements ==
    ASSUME NEW S, NEW s \in Seq(S), NEW t \in Seq(S)
    PROVE  /\ s \o t \in Seq(S)
           /\ Len(s) \in Nat /\ Len(t) \in Nat
           /\ Len(s \o t) = Len(s) + Len(t)
           /\ \A n \in 1..Len(s) : (s \o t)[n] = s[n]
           /\ \A n \in 1..Len(t) : (s \o t)[Len(s) + n] = t[n]
  OBVIOUS

\* A concatenation has the elements of its parts: appending to the queue or to
\* the z-values adds nothing else.
LEMMA ConcatRange ==
    ASSUME NEW S, NEW s \in Seq(S), NEW t \in Seq(S)
    PROVE  /\ s \o t \in Seq(S)
           /\ Range(s \o t) = Range(s) \cup Range(t)
<1>1. /\ s \o t \in Seq(S)
      /\ Len(s) \in Nat /\ Len(t) \in Nat
      /\ DOMAIN (s \o t) = 1..(Len(s) + Len(t))
      /\ \A n \in 1..Len(s) : (s \o t)[n] = s[n]
      /\ \A n \in 1..Len(t) : (s \o t)[Len(s) + n] = t[n]
  OBVIOUS
<1>2. DOMAIN s = 1..Len(s) /\ DOMAIN t = 1..Len(t)
  OBVIOUS
<1>3. ASSUME NEW n \in DOMAIN (s \o t)
      PROVE  (s \o t)[n] \in Range(s) \cup Range(t)
  <2>1. CASE n \in 1..Len(s)
    BY <1>1, <1>2, <2>1 DEF Range
  <2>2. CASE n - Len(s) \in 1..Len(t)
    <3>1. n = Len(s) + (n - Len(s))
      BY <1>1
    <3> QED
      BY <1>1, <1>2, <2>2, <3>1 DEF Range
  <2> QED
    BY <1>1, <2>1, <2>2
<1>4. ASSUME NEW n \in DOMAIN s
      PROVE  s[n] \in Range(s \o t)
  BY <1>1, <1>2 DEF Range
<1>5. ASSUME NEW n \in DOMAIN t
      PROVE  t[n] \in Range(s \o t)
  <2>1. Len(s) + n \in DOMAIN (s \o t)
    BY <1>1, <1>2
  <2> QED
    BY <1>1, <1>2, <2>1 DEF Range
<1> QED
  BY <1>1, <1>3, <1>4, <1>5 DEF Range

\* A concatenation has no overlaps when its parts have none and do not
\* overlap each other.
LEMMA ConcatApart ==
    ASSUME NEW s \in Seq(Region), NEW t \in Seq(Region)
    PROVE  AllApart(s \o t) <=> AllApart(s) /\ AllApart(t) /\ Cross(s, t)
<1>1. /\ Len(s) \in Nat /\ Len(t) \in Nat
      /\ DOMAIN s = 1..Len(s) /\ DOMAIN t = 1..Len(t)
      /\ DOMAIN (s \o t) = 1..(Len(s) + Len(t))
      /\ \A n \in 1..Len(s) : (s \o t)[n] = s[n]
      /\ \A n \in 1..Len(t) : (s \o t)[Len(s) + n] = t[n]
  OBVIOUS
<1>2. ASSUME AllApart(s \o t)
      PROVE  AllApart(s) /\ AllApart(t) /\ Cross(s, t)
  <2>1. AllApart(s)
    BY <1>1, <1>2 DEF AllApart
  <2>2. ASSUME NEW j \in DOMAIN t, NEW k \in DOMAIN t, j # k
        PROVE  Apart(t[j], t[k])
    <3>1. /\ Len(s) + j \in DOMAIN (s \o t) /\ Len(s) + k \in DOMAIN (s \o t)
          /\ Len(s) + j # Len(s) + k
      BY <1>1, <2>2
    <3> QED
      BY <1>1, <1>2, <3>1 DEF AllApart
  <2>3. ASSUME NEW j \in DOMAIN s, NEW k \in DOMAIN t
        PROVE  Apart(s[j], t[k])
    <3>1. /\ j \in DOMAIN (s \o t) /\ Len(s) + k \in DOMAIN (s \o t)
          /\ j # Len(s) + k
      BY <1>1, <2>3
    <3> QED
      BY <1>1, <1>2, <3>1 DEF AllApart
  <2> QED
    BY <2>1, <2>2, <2>3 DEF AllApart, Cross, Range
<1>3. ASSUME AllApart(s), AllApart(t), Cross(s, t),
             NEW j \in DOMAIN (s \o t), NEW k \in DOMAIN (s \o t), j # k
      PROVE  Apart((s \o t)[j], (s \o t)[k])
  <2>1. ASSUME NEW n \in DOMAIN (s \o t)
        PROVE  \/ n \in DOMAIN s /\ (s \o t)[n] = s[n]
               \/ n - Len(s) \in DOMAIN t /\ (s \o t)[n] = t[n - Len(s)]
    <3>1. n \in 1..Len(s) \/ n - Len(s) \in 1..Len(t)
      BY <1>1
    <3>2. n = Len(s) + (n - Len(s))
      BY <1>1
    <3> QED
      BY <1>1, <3>1, <3>2
  <2>2. ASSUME NEW m \in DOMAIN s, NEW n \in DOMAIN t
        PROVE  Apart(s[m], t[n]) /\ Apart(t[n], s[m])
    BY <1>3 DEF Cross, Apart, Range
  <2>3. j - Len(s) # k - Len(s)
    BY <1>1, <1>3
  <2> QED
    BY <1>3, <2>1, <2>2, <2>3 DEF AllApart
<1> QED
  BY <1>2, <1>3 DEF AllApart

(***************************************************************************)
(* One step of the splitting loop.                                         *)
(***************************************************************************)

\* What the live regions are, in terms of their parts.
LEMMA LiveParts ==
    ASSUME TypeOK
    PROVE  /\ Range(Live) = Range(zs) \cup Range(queue)
           /\ Disjoint <=> AllApart(zs) /\ AllApart(queue) /\ Cross(zs, queue)
           /\ \A c : c \in Covered <=>
                        c \in Cell /\ \E r \in Range(Live) : Has(r, c)
<1>1. zs \in Seq(Region) /\ queue \in Seq(Region) /\ Live = zs \o queue
  BY DEF TypeOK, Live
<1>2. Disjoint <=> AllApart(Live)
  BY DEF Disjoint, AllApart, Apart
<1>3. \A c : c \in Covered <=>
                c \in Cell /\ \E r \in Range(Live) : Has(r, c)
  BY DEF Covered, Cells
<1> QED
  BY <1>1, <1>2, <1>3, ConcatRange, ConcatApart

\* The same after a step.
LEMMA LivePartsAfter ==
    ASSUME TypeOK'
    PROVE  /\ Range(Live') = Range(zs') \cup Range(queue')
           /\ Disjoint' <=>
                 AllApart(zs') /\ AllApart(queue') /\ Cross(zs', queue')
           /\ \A c : c \in Covered' <=>
                        c \in Cell /\ \E r \in Range(Live') : Has(r, c)
<1>1. zs' \in Seq(Region) /\ queue' \in Seq(Region) /\ Live' = zs' \o queue'
  BY DEF TypeOK, Live
<1>2. Disjoint' <=> AllApart(Live')
  BY DEF Disjoint, AllApart, Apart
<1>3. \A c : c \in Covered' <=>
                c \in Cell /\ \E r \in Range(Live') : Has(r, c)
  BY DEF Covered, Cells
<1> QED
  BY <1>1, <1>2, <1>3, ConcatRange, ConcatApart

\* The queue is its front followed by its tail.
LEMMA QueueParts ==
    ASSUME queue \in Seq(Region), queue # << >>
    PROVE  /\ Front \in Region /\ Tail(queue) \in Seq(Region)
           /\ Len(Tail(queue)) = Len(queue) - 1
           /\ Range(queue) = {Front} \cup Range(Tail(queue))
           /\ AllApart(queue) <=>
                 /\ AllApart(Tail(queue))
                 /\ \A r \in Range(Tail(queue)) : Apart(Front, r)
<1>1. /\ Front \in Region /\ Tail(queue) \in Seq(Region)
      /\ Len(Tail(queue)) = Len(queue) - 1
  BY DEF Front
<1>2. queue = <<Front>> \o Tail(queue)
  BY DEF Front
<1>3. <<Front>> \in Seq(Region)
  BY <1>1
<1>4. Range(<<Front>>) = {Front} /\ AllApart(<<Front>>)
  BY <1>1 DEF Range, AllApart
<1>5. Range(queue) = {Front} \cup Range(Tail(queue))
  <2>1. Range(<<Front>> \o Tail(queue)) = Range(<<Front>>) \cup Range(Tail(queue))
    BY ONLY <1>1, <1>3, ConcatRange
  <2> QED
    BY ONLY <1>2, <1>4, <2>1
<1>6. Cross(<<Front>>, Tail(queue)) <=>
         \A r \in Range(Tail(queue)) : Apart(Front, r)
  BY <1>4 DEF Cross
<1> QED
  BY <1>1, <1>2, <1>3, <1>4, <1>5, <1>6, ConcatApart

\* What a division has to respect: the emitted and the queued regions stay
\* within the region that was taken, do not overlap, all meet the object and
\* keep every cell of the object that the region covered.  Then the live
\* regions stay a disjoint cover of the object without waste, and the covered
\* cells do not grow.
LEMMA DivideKeeps ==
    ASSUME TypeOK, TypeOK', pc = "split", queue # << >>,
           Covers, Disjoint, NoRegionOutside,
           NEW em \in Seq(Region), NEW qd \in Seq(Region), Divide(em, qd),
           \A r \in Range(em) \cup Range(qd) : Cells(r) \subseteq Cells(Front),
           AllApart(em), AllApart(qd), Cross(em, qd),
           \A r \in Range(em) \cup Range(qd) : ~Outside(obj, r),
           \A c \in obj \cap Cells(Front) :
               \E r \in Range(em) \cup Range(qd) : Has(r, c)
    PROVE  /\ Covers' /\ Disjoint' /\ NoRegionOutside'
           /\ Covered' \subseteq Covered
<1> DEFINE rest == Tail(queue)
<1>1. /\ zs \in Seq(Region) /\ queue \in Seq(Region) /\ obj \subseteq Cell
      /\ zs' = zs \o em /\ queue' = rest \o qd
      /\ pc' = pc /\ obj' = obj
  BY DEF TypeOK, Divide
<1>2. /\ Front \in Region /\ rest \in Seq(Region)
      /\ Range(queue) = {Front} \cup Range(rest)
      /\ AllApart(queue) <=>
            AllApart(rest) /\ \A r \in Range(rest) : Apart(Front, r)
  BY ONLY <1>1, queue # << >>, QueueParts
<1> HIDE DEF rest
<1>3. /\ Range(zs') = Range(zs) \cup Range(em)
      /\ Range(queue') = Range(rest) \cup Range(qd)
  BY <1>1, <1>2, ConcatRange
<1>4. /\ Range(Live) = Range(zs) \cup {Front} \cup Range(rest)
      /\ Range(Live') = Range(zs) \cup Range(em) \cup Range(rest) \cup Range(qd)
  BY <1>2, <1>3, LiveParts, LivePartsAfter
<1>5. Covers'
  <2>1. ASSUME NEW c \in obj
        PROVE  \E r \in Range(Live') : Has(r, c)
    <3>1. PICK r \in Range(Live) : Has(r, c)
      BY <1>1, LiveParts DEF Covers, Dividing
    <3>2. CASE r = Front
      BY <1>1, <1>4, <3>1, <3>2 DEF Cells
    <3>3. CASE r # Front
      BY <1>4, <3>1, <3>3
    <3> QED
      BY <3>2, <3>3
  <2> QED
    BY <1>1, <2>1, LivePartsAfter DEF Covers
<1>6. Disjoint'
  <2>1. /\ AllApart(zs) /\ AllApart(rest)
        /\ \A r \in Range(zs), q \in Range(rest) : Apart(r, q)
        /\ \A r \in Range(zs) \cup Range(rest) : Apart(Front, r)
    BY <1>2, LiveParts DEF Cross, Apart
  <2>2. \A r \in Range(em) \cup Range(qd), q \in Range(zs) \cup Range(rest) :
           Apart(r, q) /\ Apart(q, r)
    BY <2>1 DEF Apart
  <2>3. AllApart(zs \o em)
    BY <1>1, <2>1, <2>2, ConcatApart DEF Cross
  <2>4. AllApart(rest \o qd)
    BY <1>2, <2>1, <2>2, ConcatApart DEF Cross
  <2>5. Cross(zs', queue')
    BY <1>3, <2>1, <2>2 DEF Cross
  <2> QED
    BY <1>1, <2>3, <2>4, <2>5, LivePartsAfter
<1>7. NoRegionOutside'
  BY <1>1, <1>4 DEF NoRegionOutside
<1>8. Covered' \subseteq Covered
  <2>1. ASSUME NEW c \in Cell, NEW r \in Range(Live'), Has(r, c)
        PROVE  \E q \in Range(Live) : Has(q, c)
    BY <1>4, <2>1 DEF Cells
  <2> QED
    BY <2>1, LiveParts, LivePartsAfter
<1> QED
  BY <1>5, <1>6, <1>7, <1>8

(***************************************************************************)
(* The inductive invariant.                                                *)
(***************************************************************************)

\* What holds of the call's variables at each place.
CallState ==
    /\ pc \in {"idle", "enclose"} => zs = << >> /\ queue = << >>
    /\ pc \in {"merge", "done"} => queue = << >>
    /\ pc # "idle" => obj # {} /\ maxZ >= 1

IInv == TypeOK /\ CallState /\ Budget /\ Covers /\ Disjoint /\ NoRegionOutside

\* A division that loses nothing, wastes nothing, repeats nothing and stays
\* within max_z.
SoundDivision(em, qd) ==
    /\ \A r \in Range(em) \cup Range(qd) : Cells(r) \subseteq Cells(Front)
    /\ AllApart(em) /\ AllApart(qd) /\ Cross(em, qd)
    /\ \A r \in Range(em) \cup Range(qd) : ~Outside(obj, r)
    /\ \A c \in obj \cap Cells(Front) :
          \E r \in Range(em) \cup Range(qd) : Has(r, c)
    /\ \/ Len(em) + Len(qd) <= 1
       \/ Len(em) + Len(qd) <= 2 /\ Room

\* In every step of the splitting loop that is a division, the invariant is
\* kept when the division is sound and stays within max_z.
LEMMA DivisionStep ==
    ASSUME IInv, Taking,
           NEW em \in Seq(Region), NEW qd \in Seq(Region),
           Divide(em, qd), SoundDivision(em, qd)
    PROVE  IInv' /\ Covered' \subseteq Covered
<1>1. /\ TypeOK /\ CallState /\ Budget /\ Covers /\ Disjoint /\ NoRegionOutside
      /\ pc = "split" /\ queue # << >>
      /\ zs' = zs \o em /\ queue' = Tail(queue) \o qd
      /\ UNCHANGED <<pc, obj, maxZ, region, i, merge>>
  BY DEF IInv, Taking, Divide
<1>2. zs \in Seq(Region) /\ queue \in Seq(Region) /\ maxZ \in Nat
  BY <1>1 DEF TypeOK
<1>3. Tail(queue) \in Seq(Region) /\ Len(Tail(queue)) = Len(queue) - 1
  BY ONLY <1>1, <1>2, QueueParts
<1>4. zs' \in Seq(Region) /\ queue' \in Seq(Region)
  BY <1>1, <1>2, <1>3, ConcatRange
<1>5. TypeOK'
  BY <1>1, <1>4 DEF TypeOK
<1>6. Covers' /\ Disjoint' /\ NoRegionOutside' /\ Covered' \subseteq Covered
  BY <1>1, <1>5, DivideKeeps DEF SoundDivision
<1>7. /\ Len(zs') = Len(zs) + Len(em)
      /\ Len(queue') = Len(queue) - 1 + Len(qd)
      /\ Len(zs) \in Nat /\ Len(queue) \in Nat
      /\ Len(em) \in Nat /\ Len(qd) \in Nat
  BY <1>1, <1>2, <1>3
<1>8. Budget'
  <2> \/ Len(em) + Len(qd) <= 1
      \/ Len(em) + Len(qd) <= 2 /\ Room
    BY DEF SoundDivision
  <2>1. CASE Len(em) + Len(qd) <= 1
    BY ONLY <1>1, <1>2, <1>7, <2>1 DEF Budget
  <2>2. CASE Len(em) + Len(qd) <= 2 /\ Room
    BY ONLY <1>1, <1>2, <1>3, <1>7, <2>2 DEF Budget, Room
  <2> QED
    BY <2>1, <2>2
<1>9. CallState'
  BY <1>1 DEF CallState
<1> QED
  BY <1>5, <1>6, <1>8, <1>9 DEF IInv

\* The two halves of a region that is no point share no cell, lie within it
\* and together are all of it.
LEMMA Halves ==
    ASSUME IInv, Taking, ~IsPoint(Front)
    PROVE  /\ Front \in Region
           /\ \A b \in Bit : /\ Half(b) \in Region
                             /\ Cells(Half(b)) \subseteq Cells(Front)
                             /\ Apart(Half(b), Half(1 - b))
           /\ Cells(Front) = Cells(Half(0)) \cup Cells(Half(1))
<1>1. queue \in Seq(Region) /\ queue # << >>
  BY DEF IInv, TypeOK, Taking
<1>2. Front \in Region /\ Len(Front) \in Nat /\ Len(Front) < ZBits
  BY <1>1, QueueParts, ZBitsAssumption DEF IsPoint, Region
<1>3. \A b \in Bit : /\ Half(b) \in Region
                     /\ \A c \in Cell : Has(Half(b), c) <=>
                           Has(Front, c) /\ c[Len(Front) + 1] = b
  BY <1>2, ChildCells DEF Half
<1>4. \A c \in Cell : c[Len(Front) + 1] \in Bit
  BY <1>2, ZBitsAssumption DEF Cell
<1>5. \A b \in Bit : 1 - b \in Bit /\ 1 - b # b
  BY DEF Bit
<1>6. Cells(Front) = Cells(Half(0)) \cup Cells(Half(1))
  BY <1>3, <1>4 DEF Cells, Bit
<1>7. \A b \in Bit : Apart(Half(b), Half(1 - b))
  BY <1>3, <1>5 DEF Apart, Cells
<1>8. \A b \in Bit : Cells(Half(b)) \subseteq Cells(Front)
  BY <1>3 DEF Cells
<1> QED
  BY <1>2, <1>3, <1>6, <1>7, <1>8

\* The two short sequences that the actions pass to Divide.
LEMMA ShortSequences ==
    ASSUME NEW a \in Region
    PROVE  /\ << >> \in Seq(Region) /\ <<a>> \in Seq(Region)
           /\ Len(<< >>) = 0 /\ Len(<<a>>) = 1
           /\ Range(<< >>) = {} /\ Range(<<a>>) = {a}
           /\ AllApart(<< >>) /\ AllApart(<<a>>)
           /\ Cross(<<a>>, << >>) /\ Cross(<< >>, <<a>>)
  BY DEF Range, AllApart, Cross

\* Emitting the region whole, as a point, because it is inside or because
\* there is no room.
LEMMA WholeStep ==
    ASSUME IInv, Taking, Divide(<<Front>>, << >>)
    PROVE  IInv' /\ Covered' \subseteq Covered
<1>1. queue \in Seq(Region) /\ queue # << >>
  BY DEF IInv, TypeOK, Taking
<1>2. Front \in Region /\ Front \in Range(queue)
  BY <1>1, QueueParts
<1>3. ~Outside(obj, Front)
  BY <1>2, LiveParts DEF IInv, NoRegionOutside
<1>4. \A c \in obj \cap Cells(Front) : Has(Front, c)
  BY DEF Cells
<1>5. /\ << >> \in Seq(Region) /\ <<Front>> \in Seq(Region)
      /\ Len(<< >>) = 0 /\ Len(<<Front>>) = 1
      /\ Range(<< >>) = {} /\ Range(<<Front>>) = {Front}
      /\ AllApart(<< >>) /\ AllApart(<<Front>>)
      /\ Cross(<<Front>>, << >>)
  BY <1>2, ShortSequences
<1>6. SoundDivision(<<Front>>, << >>)
  BY <1>3, <1>4, <1>5 DEF SoundDivision
<1> QED
  BY ONLY IInv, Taking, Divide(<<Front>>, << >>), <1>5, <1>6, DivisionStep

\* One half is outside the object.
LEMMA DropHalfStep ==
    ASSUME IInv, NEW b \in Bit, DropHalf(b)
    PROVE  IInv' /\ Covered' \subseteq Covered
<1>1. Taking /\ ~IsPoint(Front) /\ Outside(obj, Half(1 - b))
  BY DEF DropHalf
<1>2. /\ Half(b) \in Region
      /\ Cells(Half(b)) \subseteq Cells(Front)
      /\ Cells(Front) = Cells(Half(b)) \cup Cells(Half(1 - b))
  BY <1>1, Halves DEF Bit
<1>3. \A c \in obj \cap Cells(Front) : Has(Half(b), c)
  BY <1>1, <1>2 DEF Outside, Cells
<1>4. ~Outside(obj, Half(b))
  <2>1. CASE Inside(obj, Half(b))
    BY <1>2, <2>1, RegionNotEmpty DEF Inside, Outside
  <2>2. CASE Overlaps(obj, Half(b))
    BY <2>2 DEF Overlaps
  <2> QED
    BY <2>1, <2>2 DEF DropHalf
<1>5. /\ << >> \in Seq(Region) /\ <<Half(b)>> \in Seq(Region)
      /\ Len(<< >>) = 0 /\ Len(<<Half(b)>>) = 1
      /\ Range(<< >>) = {} /\ Range(<<Half(b)>>) = {Half(b)}
      /\ AllApart(<< >>) /\ AllApart(<<Half(b)>>)
      /\ Cross(<<Half(b)>>, << >>) /\ Cross(<< >>, <<Half(b)>>)
  BY <1>2, ShortSequences
<1>6. SoundDivision(<<Half(b)>>, << >>)
  BY <1>2, <1>3, <1>4, <1>5 DEF SoundDivision
<1>7. CASE Divide(<<Half(b)>>, << >>)
  BY ONLY IInv, <1>1, <1>5, <1>6, <1>7, DivisionStep
<1>8. SoundDivision(<< >>, <<Half(b)>>)
  BY <1>2, <1>3, <1>4, <1>5 DEF SoundDivision
<1>9. CASE Divide(<< >>, <<Half(b)>>)
  BY ONLY IInv, <1>1, <1>5, <1>8, <1>9, DivisionStep
<1> QED
  BY <1>7, <1>9 DEF DropHalf

\* One half is inside, the other overlaps.
LEMMA EmitHalfStep ==
    ASSUME IInv, NEW b \in Bit, EmitHalf(b)
    PROVE  IInv' /\ Covered' \subseteq Covered
<1>1. /\ Taking /\ ~IsPoint(Front) /\ Room
      /\ Inside(obj, Half(b)) /\ Overlaps(obj, Half(1 - b))
      /\ Divide(<<Half(b)>>, <<Half(1 - b)>>)
  BY DEF EmitHalf
<1> DEFINE x == Half(b)
           y == Half(1 - b)
<1>2. /\ x \in Region /\ y \in Region
      /\ Cells(x) \subseteq Cells(Front) /\ Cells(y) \subseteq Cells(Front)
      /\ Apart(x, y)
      /\ Cells(Front) = Cells(x) \cup Cells(y)
  BY <1>1, Halves DEF Bit
<1>3. ~Outside(obj, x) /\ ~Outside(obj, y)
  BY <1>1, <1>2, RegionNotEmpty DEF Inside, Outside, Overlaps
<1> HIDE DEF x, y
<1>4. \A c \in obj \cap Cells(Front) : Has(x, c) \/ Has(y, c)
  BY <1>2 DEF Cells
<1>5. /\ <<x>> \in Seq(Region) /\ <<y>> \in Seq(Region)
      /\ Len(<<x>>) = 1 /\ Len(<<y>>) = 1
      /\ Range(<<x>>) = {x} /\ Range(<<y>>) = {y}
      /\ AllApart(<<x>>) /\ AllApart(<<y>>)
  BY <1>2, ShortSequences
<1>6. Cross(<<x>>, <<y>>)
  BY <1>2, <1>5 DEF Cross
<1>7. Divide(<<x>>, <<y>>)
  BY <1>1 DEF x, y
<1>8. SoundDivision(<<x>>, <<y>>)
  <2> DEFINE em == <<x>>
             qd == <<y>>
  <2>1. /\ Range(em) = {x} /\ Range(qd) = {y}
        /\ Len(em) = 1 /\ Len(qd) = 1
        /\ AllApart(em) /\ AllApart(qd) /\ Cross(em, qd) /\ Room
    BY <1>1, <1>5, <1>6
  <2> HIDE DEF em, qd
  <2>2. SoundDivision(em, qd)
    BY ONLY <1>2, <1>3, <1>4, <2>1 DEF SoundDivision
  <2> QED
    BY <2>2 DEF em, qd
<1> QED
  BY ONLY IInv, <1>1, <1>5, <1>6, <1>7, <1>8, DivisionStep

\* Both halves overlap.
LEMMA SplitBothStep ==
    ASSUME IInv, SplitBoth
    PROVE  IInv' /\ Covered' \subseteq Covered
<1>1. /\ Taking /\ ~IsPoint(Front) /\ Room
      /\ Overlaps(obj, Half(0)) /\ Overlaps(obj, Half(1))
      /\ Divide(<< >>, <<Half(1), Half(0)>>)
  BY DEF SplitBoth, Bit
<1> DEFINE x == Half(1)
           y == Half(0)
           both == <<x, y>>
<1>2. /\ x \in Region /\ y \in Region
      /\ Cells(x) \subseteq Cells(Front) /\ Cells(y) \subseteq Cells(Front)
      /\ Apart(x, y) /\ Apart(y, x)
      /\ Cells(Front) = Cells(x) \cup Cells(y)
  BY <1>1, Halves DEF Bit, Apart
<1>3. ~Outside(obj, x) /\ ~Outside(obj, y)
  BY <1>1 DEF Overlaps
<1> HIDE DEF x, y
<1>4. \A c \in obj \cap Cells(Front) : Has(x, c) \/ Has(y, c)
  BY <1>2 DEF Cells
<1>5. both \in Seq(Region) /\ Len(both) = 2 /\ Range(both) = {x, y}
  BY <1>2 DEF Range
<1>6. AllApart(both)
  BY <1>2 DEF AllApart
<1>7. /\ << >> \in Seq(Region) /\ Len(<< >>) = 0 /\ Range(<< >>) = {}
      /\ AllApart(<< >>) /\ Cross(<< >>, both)
  BY DEF Range, AllApart, Cross
<1>8. Divide(<< >>, both)
  BY <1>1 DEF x, y
<1> HIDE DEF both
<1>9. SoundDivision(<< >>, both)
  BY <1>1, <1>2, <1>3, <1>4, <1>5, <1>6, <1>7 DEF SoundDivision
<1> QED
  BY ONLY IInv, <1>1, <1>5, <1>6, <1>7, <1>8, <1>9, DivisionStep

(***************************************************************************)
(* Sorting and merging.                                                    *)
(***************************************************************************)

\* After the splitting loop the live regions are the z-values.
LEMMA LiveIsZs ==
    ASSUME IInv, queue = << >>
    PROVE  /\ zs \in Seq(Region)
           /\ Range(Live) = Range(zs)
           /\ AllApart(zs)
<1>1. Range(queue) = {}
  BY DEF Range
<1> QED
  BY <1>1, LiveParts DEF IInv, TypeOK

\* Replacing the z-values by others that have the same cells, do not overlap
\* and all meet the object keeps the invariant.
LEMMA ReplaceZs ==
    ASSUME IInv, pc \in {"split", "merge"}, queue = << >>,
           pc' = "merge", UNCHANGED <<obj, maxZ, region, queue>>,
           i' \in Nat \ {0}, merge' \in BOOLEAN,
           zs' \in Seq(Region), Len(zs') <= Len(zs), AllApart(zs'),
           \A r \in Range(zs') : ~Outside(obj, r),
           \A c \in Cell : (\E r \in Range(zs') : Has(r, c)) <=>
                           (\E r \in Range(zs) : Has(r, c))
    PROVE  IInv' /\ Covered' = Covered
<1>1. TypeOK'
  BY DEF IInv, TypeOK
<1>2. CallState'
  BY DEF IInv, CallState
<1>3. Budget'
  <2>1. /\ Len(queue) = 0 /\ Len(zs) \in Nat /\ Len(zs') \in Nat
        /\ maxZ \in Nat /\ Len(zs) + Len(queue) <= maxZ
    BY DEF IInv, TypeOK, Budget
  <2> QED
    BY <2>1 DEF Budget
<1>4. Range(queue') = {} /\ AllApart(queue') /\ Cross(zs', queue')
  BY DEF Range, AllApart, Cross
<1>5. Range(Live') = Range(zs') /\ Disjoint'
  BY <1>1, <1>4, LivePartsAfter
<1>6. NoRegionOutside'
  BY <1>5 DEF NoRegionOutside
<1>7. Covered' = Covered
  BY <1>1, <1>5, LiveIsZs, LiveParts, LivePartsAfter DEF IInv
<1>8. Covers'
  BY <1>7 DEF Covers, IInv, Dividing
<1> QED
  BY <1>1, <1>2, <1>3, <1>5, <1>6, <1>7, <1>8 DEF IInv

\* Sorting (ZArray::sort) is a permutation of the z-values, so the invariant
\* and the covered cells are kept.
LEMMA SortStep ==
    ASSUME IInv, Sort
    PROVE  IInv' /\ Covered' = Covered
<1> DEFINE S == DOMAIN zs
<1>1. PICK p \in Bijection(S, S) : zs' = [n \in S |-> zs[p[n]]]
  BY DEF Sort
<1>2. zs \in Seq(Region) /\ AllApart(zs) /\ Range(Live) = Range(zs)
  BY LiveIsZs DEF Sort
<1>3. S = 1..Len(zs) /\ Len(zs) \in Nat /\ \A n \in S : zs[n] \in Region
  BY <1>2
<1>4. p \in [S -> S] /\ \A w \in S : \E v \in S : p[v] = w
  BY <1>1 DEF Bijection, Surjection
<1>5. \A m, n \in S : m # n => p[m] # p[n]
  BY <1>1, <1>4 DEF Bijection, Injection, IsInjective
<1>6. DOMAIN zs' = S /\ \A n \in S : zs'[n] = zs[p[n]]
  BY <1>1
<1>7. zs' \in Seq(Region) /\ Len(zs') = Len(zs)
  BY <1>1, <1>3, <1>4
<1>8. Range(zs') = Range(zs)
  BY <1>4, <1>6 DEF Range
<1>9. AllApart(zs')
  BY <1>2, <1>4, <1>5, <1>6 DEF AllApart
<1>10. \A r \in Range(zs') : ~Outside(obj, r)
  BY <1>2, <1>8 DEF IInv, NoRegionOutside
<1>11. /\ pc \in {"split", "merge"} /\ queue = << >> /\ pc' = "merge"
       /\ UNCHANGED <<obj, maxZ, region, queue>>
       /\ i' \in Nat \ {0} /\ merge' \in BOOLEAN
  <2>1. /\ pc = "split" /\ queue = << >> /\ pc' = "merge"
        /\ obj' = obj /\ maxZ' = maxZ /\ region' = region /\ queue' = queue
        /\ i' = 1 /\ merge' = FALSE
    BY DEF Sort
  <2>2. merge' \in BOOLEAN
    BY ONLY <2>1, Zenon
  <2>3. i' \in Nat \ {0} /\ pc \in {"split", "merge"}
    BY ONLY <2>1
  <2> QED
    BY ONLY <2>1, <2>2, <2>3, Zenon
<1>12. Len(zs') <= Len(zs)
  BY <1>3, <1>7
<1> QED
  BY ONLY IInv, <1>7, <1>8, <1>9, <1>10, <1>11, <1>12, ReplaceZs

\* A sequence around two neighbours.
LEMMA AroundPair ==
    ASSUME NEW s \in Seq(Region), NEW k \in 1..(Len(s) - 1)
    PROVE  /\ SubSeq(s, 1, k - 1) \in Seq(Region)
           /\ SubSeq(s, k + 2, Len(s)) \in Seq(Region)
           /\ Len(SubSeq(s, 1, k - 1)) = k - 1
           /\ Len(SubSeq(s, k + 2, Len(s))) = Len(s) - k - 1
           /\ s[k] \in Region /\ s[k + 1] \in Region
           /\ s = SubSeq(s, 1, k - 1)
                    \o (<<s[k], s[k + 1]>> \o SubSeq(s, k + 2, Len(s)))
<1> DEFINE N == Len(s)
           L == SubSeq(s, 1, k - 1)
           M == <<s[k], s[k + 1]>>
           R == SubSeq(s, k + 2, N)
           J == L \o (M \o R)
<1>1. /\ N \in Nat /\ k \in Int /\ 1 <= k /\ k + 1 <= N
      /\ \A n \in 1..N : s[n] \in Region
  OBVIOUS
<1>2. /\ L \in Seq(Region) /\ Len(L) = k - 1
      /\ \A n \in 1..(k - 1) : L[n] = s[n]
  <2> DEFINE e == k - 1
  <2>1. e \in Nat /\ \A n \in 1..e : s[n] \in Region
    BY <1>1
  <2> HIDE DEF e
  <2>2. /\ SubSeq(s, 1, e) \in Seq(Region)
        /\ Len(SubSeq(s, 1, e)) = IF 1 <= e THEN e - 1 + 1 ELSE 0
        /\ \A n \in 1..(e - 1 + 1) : SubSeq(s, 1, e)[n] = s[1 + n - 1]
    BY <2>1, SubSeqProperties
  <2>3. Len(SubSeq(s, 1, e)) = e
    BY <2>1, <2>2
  <2>4. \A n \in 1..e : SubSeq(s, 1, e)[n] = s[n]
    BY <2>1, <2>2
  <2> QED
    BY <2>2, <2>3, <2>4 DEF e
<1>3. /\ R \in Seq(Region) /\ Len(R) = N - k - 1
      /\ \A n \in 1..(N - k - 1) : R[n] = s[k + 1 + n]
  <2> DEFINE f == k + 2
  <2>1. f \in Int /\ 1 <= f /\ N \in Int /\ \A n \in f..N : s[n] \in Region
    BY <1>1
  <2> HIDE DEF f, N
  <2>2. /\ SubSeq(s, f, N) \in Seq(Region)
        /\ Len(SubSeq(s, f, N)) = IF f <= N THEN N - f + 1 ELSE 0
        /\ \A n \in 1..(N - f + 1) : SubSeq(s, f, N)[n] = s[f + n - 1]
    BY <2>1, SubSeqProperties
  <2>3. Len(SubSeq(s, f, N)) = N - k - 1
    BY <1>1, <2>2 DEF f
  <2>4. \A n \in 1..(N - k - 1) : SubSeq(s, f, N)[n] = s[k + 1 + n]
    <3> SUFFICES ASSUME NEW n \in 1..(N - k - 1)
                 PROVE  SubSeq(s, f, N)[n] = s[k + 1 + n]
      OBVIOUS
    <3>1. n \in 1..(N - f + 1) /\ f + n - 1 = k + 1 + n
      BY <1>1 DEF f
    <3> QED
      BY <2>2, <3>1
  <2> QED
    BY <2>2, <2>3, <2>4 DEF f
<1>4. /\ M \in Seq(Region) /\ Len(M) = 2
      /\ M[1] = s[k] /\ M[2] = s[k + 1]
  BY <1>1
<1> HIDE DEF L, M, R, N
<1>5. /\ M \o R \in Seq(Region) /\ Len(M \o R) = N - k + 1
      /\ \A n \in 1..2 : (M \o R)[n] = M[n]
      /\ \A n \in 1..(N - k - 1) : (M \o R)[2 + n] = R[n]
  <2>1. /\ M \o R \in Seq(Region) /\ Len(M \o R) = Len(M) + Len(R)
        /\ \A n \in 1..Len(M) : (M \o R)[n] = M[n]
        /\ \A n \in 1..Len(R) : (M \o R)[Len(M) + n] = R[n]
    <3>1. M \in Seq(Region) /\ R \in Seq(Region)
      BY ONLY <1>3, <1>4
    <3> QED
      BY ONLY <3>1, ConcatElements
  <2>2. 2 + (N - k - 1) = N - k + 1
    BY <1>1
  <2> QED
    BY ONLY <1>3, <1>4, <2>1, <2>2
<1>6. /\ J \in Seq(Region) /\ Len(J) = N
      /\ \A n \in 1..(k - 1) : J[n] = L[n]
      /\ \A n \in 1..(N - k + 1) : J[k - 1 + n] = (M \o R)[n]
  <2> DEFINE T == M \o R
  <2>1. T \in Seq(Region) /\ Len(T) = N - k + 1
    BY <1>5
  <2> HIDE DEF T
  <2>2. /\ L \o T \in Seq(Region) /\ Len(L \o T) = Len(L) + Len(T)
        /\ \A n \in 1..Len(L) : (L \o T)[n] = L[n]
        /\ \A n \in 1..Len(T) : (L \o T)[Len(L) + n] = T[n]
    <3>1. L \in Seq(Region) /\ T \in Seq(Region)
      BY ONLY <1>2, <2>1
    <3> QED
      BY ONLY <3>1, ConcatElements
  <2>3. (k - 1) + (N - k + 1) = N
    BY <1>1
  <2>4. J = L \o T
    BY DEF T
  <2> QED
    BY ONLY <1>2, <2>1, <2>2, <2>3, <2>4 DEF T
<1>7. \A n \in 1..N : J[n] = s[n]
  <2> SUFFICES ASSUME NEW n \in 1..N PROVE J[n] = s[n]
    OBVIOUS
  <2> HIDE DEF J
  <2>1. CASE n \in 1..(k - 1)
    BY <1>2, <1>6, <2>1
  <2>2. CASE n = k
    <3>1. 1 \in 1..(N - k + 1) /\ k - 1 + 1 = k
      BY <1>1
    <3>2. J[k] = (M \o R)[1]
      BY ONLY <1>6, <3>1
    <3>3. 1 \in 1..2
      OBVIOUS
    <3>4. (M \o R)[1] = M[1]
      BY ONLY <1>5, <3>3
    <3> QED
      BY ONLY <1>4, <2>2, <3>2, <3>4
  <2>3. CASE n = k + 1
    <3>1. 2 \in 1..(N - k + 1) /\ k - 1 + 2 = k + 1
      BY <1>1
    <3>2. J[k + 1] = (M \o R)[2]
      BY ONLY <1>6, <3>1
    <3>3. 2 \in 1..2
      OBVIOUS
    <3>4. (M \o R)[2] = M[2]
      BY ONLY <1>5, <3>3
    <3> QED
      BY ONLY <1>4, <2>3, <3>2, <3>4
  <2>4. CASE n \in (k + 2)..N
    <3> DEFINE d == n - k - 1
    <3>1. /\ d \in 1..(N - k - 1) /\ 2 + d \in 1..(N - k + 1)
          /\ k - 1 + (2 + d) = n /\ k + 1 + d = n
      BY <1>1, <2>4
    <3> HIDE DEF d
    <3>2. J[n] = (M \o R)[2 + d]
      BY <1>6, <3>1
    <3>3. (M \o R)[2 + d] = R[d] /\ R[d] = s[n]
      BY <1>3, <1>5, <3>1
    <3> QED
      BY <3>2, <3>3
  <2> QED
    BY <1>1, <2>1, <2>2, <2>3, <2>4
<1>8. s = J
  <2>1. DOMAIN J = 1..N /\ DOMAIN s = 1..N /\ s \in Seq(Region)
    BY <1>6 DEF N
  <2> HIDE DEF J
  <2>2. J = [n \in 1..N |-> J[n]] /\ s = [n \in 1..N |-> s[n]]
    BY <1>6, <2>1 DEF N
  <2> QED
    BY <1>7, <2>2
<1>9. s[k] \in Region /\ s[k + 1] \in Region
  BY <1>1
<1> QED
  BY ONLY <1>2, <1>3, <1>8, <1>9 DEF J, L, M, R, N

\* Replacing two sibling neighbours by their parent keeps the invariant and
\* the covered cells.
LEMMA MergeStep ==
    ASSUME IInv, MergeSiblings
    PROVE  IInv' /\ Covered' = Covered
<1>1. /\ pc = "merge" /\ queue = << >> /\ i \in Nat \ {0}
      /\ zs \in Seq(Region) /\ AllApart(zs) /\ Range(Live) = Range(zs)
  BY LiveIsZs DEF IInv, TypeOK, CallState, MergeSiblings, Merging
<1>2. i \in 1..(Len(zs) - 1)
  BY <1>1 DEF MergeSiblings, Merging
<1> DEFINE a == zs[i]
           b == zs[i + 1]
           L == SubSeq(zs, 1, i - 1)
           R == SubSeq(zs, i + 2, Len(zs))
           pair == <<a, b>>
           one == <<Parent(a)>>
<1>3. /\ L \in Seq(Region) /\ R \in Seq(Region)
      /\ Len(L) = i - 1 /\ Len(R) = Len(zs) - i - 1
      /\ a \in Region /\ b \in Region
      /\ zs = L \o (pair \o R)
  BY <1>1, <1>2, AroundPair
<1>4. zs' = L \o one \o R
  BY DEF MergeSiblings
<1>5. SiblingOf(a, b)
  BY DEF MergeSiblings
<1> HIDE DEF a, b, L, R
<1>6. Parent(a) \in Region
  BY <1>3, ParentType
<1>7. \A c \in Cell : Has(Parent(a), c) <=> Has(a, c) \/ Has(b, c)
  BY <1>3, <1>5, SiblingCells
<1>8. /\ pair \in Seq(Region) /\ Range(pair) = {a, b}
      /\ one \in Seq(Region) /\ Len(one) = 1 /\ Range(one) = {Parent(a)}
      /\ AllApart(one)
  BY <1>3, <1>6 DEF Range, AllApart
<1> HIDE DEF pair, one
<1>9. /\ pair \o R \in Seq(Region)
      /\ Range(pair \o R) = {a, b} \cup Range(R)
      /\ Range(zs) = Range(L) \cup {a, b} \cup Range(R)
  <2>1. /\ pair \o R \in Seq(Region)
        /\ Range(pair \o R) = Range(pair) \cup Range(R)
    BY ONLY <1>3, <1>8, ConcatRange
  <2>2. Range(L \o (pair \o R)) = Range(L) \cup Range(pair \o R)
    <3> DEFINE T == pair \o R
    <3>1. L \in Seq(Region) /\ T \in Seq(Region)
      BY ONLY <1>3, <2>1
    <3> HIDE DEF T
    <3>2. Range(L \o T) = Range(L) \cup Range(T)
      BY ONLY <3>1, ConcatRange
    <3> QED
      BY <3>2 DEF T
  <2> QED
    BY ONLY <1>3, <1>8, <2>1, <2>2
<1>10. /\ L \o one \in Seq(Region) /\ zs' \in Seq(Region)
       /\ Range(L \o one) = Range(L) \cup {Parent(a)}
       /\ Range(zs') = Range(L) \cup {Parent(a)} \cup Range(R)
  <2>1. /\ L \o one \in Seq(Region)
        /\ Range(L \o one) = Range(L) \cup Range(one)
    BY ONLY <1>3, <1>8, ConcatRange
  <2>2. /\ (L \o one) \o R \in Seq(Region)
        /\ Range((L \o one) \o R) = Range(L \o one) \cup Range(R)
    <3>1. R \in Seq(Region) /\ L \o one \in Seq(Region)
      BY ONLY <1>3, <2>1
    <3> QED
      BY ONLY <3>1, ConcatRange
  <2> QED
    BY ONLY <1>4, <1>8, <2>1, <2>2
<1>11. /\ AllApart(L) /\ AllApart(R)
       /\ \A r \in Range(L), q \in {a, b} \cup Range(R) : Apart(r, q)
       /\ \A r \in {a, b}, q \in Range(R) : Apart(r, q)
  <2>1. AllApart(L) /\ AllApart(pair \o R) /\ Cross(L, pair \o R)
    BY ONLY <1>1, <1>3, <1>9, ConcatApart
  <2>2. AllApart(R) /\ Cross(pair, R)
    BY ONLY <1>3, <1>8, <2>1, ConcatApart
  <2> QED
    BY ONLY <1>8, <1>9, <2>1, <2>2 DEF Cross
<1>12. /\ \A r \in Range(L) : Apart(r, Parent(a))
       /\ \A q \in Range(R) : Apart(Parent(a), q)
  BY <1>7, <1>11 DEF Apart, Cells
<1>13. AllApart(zs')
  <2>1. Cross(L, one) /\ Cross(L \o one, R)
    BY <1>8, <1>10, <1>11, <1>12 DEF Cross
  <2>2. AllApart(L \o one)
    BY ONLY <1>3, <1>8, <1>11, <2>1, ConcatApart
  <2> QED
    BY ONLY <1>3, <1>4, <1>10, <1>11, <2>1, <2>2, ConcatApart
<1>14. Len(zs') <= Len(zs)
  <2>1. Len(L \o one) = Len(L) + Len(one)
    BY ONLY <1>3, <1>8, ConcatElements
  <2>2. Len((L \o one) \o R) = Len(L \o one) + Len(R)
    BY ONLY <1>3, <1>10, ConcatElements
  <2> QED
    BY <1>1, <1>2, <1>3, <1>4, <1>8, <2>1, <2>2
<1>15. \A r \in Range(zs') : ~Outside(obj, r)
  <2>1. \A r \in Range(zs) : ~Outside(obj, r)
    BY <1>1 DEF IInv, NoRegionOutside
  <2>2. ~Outside(obj, Parent(a))
    BY <1>7, <1>9, <2>1 DEF Outside, Cells
  <2> QED
    BY <1>9, <1>10, <2>1, <2>2
<1>16. \A c \in Cell : (\E r \in Range(zs') : Has(r, c)) <=>
                       (\E r \in Range(zs) : Has(r, c))
  BY <1>7, <1>9, <1>10
<1>17. /\ pc \in {"split", "merge"} /\ pc' = "merge"
       /\ UNCHANGED <<obj, maxZ, region, queue>>
       /\ i' \in Nat \ {0} /\ merge' = TRUE
  BY <1>1 DEF MergeSiblings
<1>18. merge' \in BOOLEAN
  BY ONLY <1>17, Zenon
<1> QED
  BY ONLY IInv, <1>1, <1>10, <1>13, <1>14, <1>15, <1>16, <1>17, <1>18, ReplaceZs

(***************************************************************************)
(* The theorems.                                                           *)
(***************************************************************************)

\* Before the first call the invariant holds: nothing is held.
LEMMA InitIInv == Init => IInv
<1> SUFFICES ASSUME Init PROVE IInv
  OBVIOUS
<1>1. /\ pc = "idle" /\ obj = {} /\ maxZ = 0 /\ region = << >>
      /\ queue = << >> /\ zs = << >> /\ i = 1 /\ merge = FALSE
  BY DEF Init, Whole
<1>2. /\ region \in Region /\ queue \in Seq(Region) /\ zs \in Seq(Region)
  BY <1>1, ZBitsAssumption DEF Region
<1>3. merge \in BOOLEAN
  BY <1>1, Zenon
<1>4. TypeOK
  BY <1>1, <1>2, <1>3 DEF TypeOK
<1>5. CallState /\ Budget
  BY <1>1 DEF CallState, Budget
<1>6. Live = << >> /\ ~Dividing
  BY <1>1 DEF Live, Dividing
<1>7. Covers /\ Disjoint /\ NoRegionOutside
  BY <1>6 DEF Covers, Disjoint, NoRegionOutside, Range
<1> QED
  BY <1>4, <1>5, <1>7 DEF IInv

\* A call clears the z-values and starts at a cell of the object, which
\* establishes the invariant whatever the previous call left.
LEMMA CallStep ==
    ASSUME IInv, NEW o \in Objects, NEW m \in MaxZs, Decompose(o, m)
    PROVE  IInv'
<1>1. /\ pc' = "enclose" /\ obj' = o /\ maxZ' = m /\ region' \in o
      /\ queue' = << >> /\ zs' = << >> /\ i' = 1 /\ merge' = FALSE
  BY DEF Decompose
<1>2. o \in SUBSET Cell /\ o # {} /\ m \in Nat \ {0}
  BY ObjectsAssumption, MaxZsAssumption
<1>3. region' \in Region
  <2>1. region' \in [1..ZBits -> Bit]
    BY <1>1, <1>2 DEF Cell
  <2>2. ZBits \in Nat
    BY ZBitsAssumption
  <2>3. region' \in Seq(Bit) /\ Len(region') = ZBits
    BY ONLY <2>1, <2>2
  <2> QED
    BY ONLY <2>2, <2>3 DEF Region
<1>4. queue' \in Seq(Region) /\ zs' \in Seq(Region)
  BY <1>1
<1>5. merge' \in BOOLEAN
  BY <1>1, Zenon
<1>6. TypeOK'
  BY <1>1, <1>2, <1>3, <1>4, <1>5 DEF TypeOK
<1>7. CallState' /\ Budget'
  BY <1>1, <1>2 DEF CallState, Budget
<1>8. Live' = << >> /\ ~Dividing'
  BY <1>1 DEF Live, Dividing
<1>9. Covers' /\ Disjoint' /\ NoRegionOutside'
  BY <1>8 DEF Covers, Disjoint, NoRegionOutside, Range
<1> QED
  BY <1>6, <1>7, <1>9 DEF IInv

\* Region::up in the search for the enclosing region never leaves the space:
\* the whole space contains every object.
LEMMA UpStep ==
    ASSUME IInv, Up
    PROVE  IInv'
<1>1. region' = Parent(region) /\ pc = "enclose"
      /\ UNCHANGED <<pc, obj, maxZ, queue, zs, i, merge>>
  BY DEF Up
<1>2. region' \in Region
  BY <1>1, ParentType DEF IInv, TypeOK
<1>3. TypeOK'
  BY <1>1, <1>2 DEF IInv, TypeOK
<1>4. CallState' /\ Budget'
  BY <1>1 DEF IInv, CallState, Budget
<1>5. Live' = Live /\ ~Dividing'
  BY <1>1 DEF Live, Dividing
<1>6. Covers' /\ Disjoint' /\ NoRegionOutside'
  BY <1>1, <1>5 DEF IInv, Covers, Disjoint, NoRegionOutside
<1> QED
  BY <1>3, <1>4, <1>6 DEF IInv

\* Queueing the enclosing region establishes the cover of the object.
LEMMA StartQueueStep ==
    ASSUME IInv, StartQueue
    PROVE  IInv'
<1>1. /\ pc = "enclose" /\ pc' = "split" /\ queue' = <<region>>
      /\ obj \subseteq Cells(region)
      /\ UNCHANGED <<obj, maxZ, region, zs, i, merge>>
  BY DEF StartQueue, ContainedBy
<1>2. /\ region \in Region /\ zs = << >> /\ obj # {} /\ maxZ \in Nat /\ maxZ >= 1
      /\ obj \in SUBSET Cell
  BY <1>1 DEF IInv, TypeOK, CallState
<1>3. /\ queue' \in Seq(Region) /\ Len(queue') = 1 /\ Range(queue') = {region}
      /\ AllApart(queue')
  BY <1>1, <1>2, ShortSequences
<1>4. TypeOK'
  BY <1>1, <1>3 DEF IInv, TypeOK
<1>5. CallState' /\ Budget'
  BY <1>1, <1>2, <1>3 DEF CallState, Budget
<1>6. zs' = << >> /\ Range(zs') = {} /\ AllApart(zs') /\ Cross(zs', queue')
  BY <1>1, <1>2 DEF Range, AllApart, Cross
<1>7. Disjoint' /\ Range(Live') = {region}
  BY <1>3, <1>4, <1>6, LivePartsAfter
<1>8. Covers' /\ NoRegionOutside'
  BY <1>1, <1>2, <1>7 DEF Covers, Covered, NoRegionOutside, Outside
<1> QED
  BY <1>4, <1>5, <1>7, <1>8 DEF IInv

\* The steps of the merge loop that leave the z-values alone.
LEMMA LoopStep ==
    ASSUME IInv, KeepPair \/ EndPass
    PROVE  IInv' /\ Covered' = Covered
<1>1. /\ pc = "merge" /\ pc' \in {"merge", "done"}
      /\ UNCHANGED <<obj, maxZ, region, queue, zs>>
      /\ i' \in Nat \ {0} /\ merge' = FALSE
  <2>1. i \in Nat \ {0}
    BY DEF IInv, TypeOK
  <2> QED
    BY <2>1 DEF KeepPair, EndPass, Merging
<1>2. merge' \in BOOLEAN
  BY ONLY <1>1, Zenon
<1>3. TypeOK'
  BY <1>1, <1>2 DEF IInv, TypeOK
<1>4. CallState' /\ Budget'
  BY <1>1 DEF IInv, CallState, Budget
<1>5. Live' = Live /\ Covered' = Covered /\ Dividing /\ Dividing'
  BY <1>1 DEF Live, Covered, Dividing
<1>6. Covers' /\ Disjoint' /\ NoRegionOutside'
  BY <1>1, <1>5 DEF IInv, Covers, Disjoint, NoRegionOutside
<1> QED
  BY <1>3, <1>4, <1>5, <1>6 DEF IInv

\* A step that changes nothing keeps the invariant.
LEMMA StutterStep ==
    ASSUME IInv, UNCHANGED vars
    PROVE  IInv' /\ Covered' = Covered
<1>1. UNCHANGED <<pc, obj, maxZ, region, queue, zs, i, merge>>
  BY DEF vars
<1>2. TypeOK' /\ CallState' /\ Budget'
  BY <1>1 DEF IInv, TypeOK, CallState, Budget
<1>3. Live' = Live /\ Covered' = Covered /\ Dividing' = Dividing
  BY <1>1 DEF Live, Covered, Dividing
<1>4. Covers' /\ Disjoint' /\ NoRegionOutside'
  BY <1>1, <1>3 DEF IInv, Covers, Disjoint, NoRegionOutside
<1> QED
  BY <1>2, <1>3, <1>4 DEF IInv

\* A step of the algorithm keeps the invariant and never makes the covered
\* cells grow while regions are split, nor change while they are merged.
LEMMA NextStep ==
    ASSUME IInv, [Next]_vars
    PROVE  /\ IInv'
           /\ pc = "split" => Covered' \subseteq Covered
           /\ pc = "merge" => Covered' = Covered
<1>1. CASE \E o \in Objects, m \in MaxZs : Decompose(o, m)
  <2>1. pc \in {"idle", "done"}
    BY <1>1 DEF Decompose
  <2>2. IInv'
    BY <1>1, CallStep
  <2> QED
    BY <2>1, <2>2
<1>2. CASE Up
  BY <1>2, UpStep DEF Up
<1>3. CASE StartQueue
  BY <1>3, StartQueueStep DEF StartQueue
<1>4. CASE EmitPoint \/ EmitWhole \/ Coarsen
  <2>1. Taking /\ Divide(<<Front>>, << >>)
    BY <1>4 DEF EmitPoint, EmitWhole, Coarsen
  <2> QED
    BY <2>1, WholeStep DEF Taking
<1>5. CASE SplitBoth
  BY <1>5, SplitBothStep DEF SplitBoth, Taking
<1>6. CASE \E b \in Bit : DropHalf(b) \/ EmitHalf(b)
  BY <1>6, DropHalfStep, EmitHalfStep DEF DropHalf, EmitHalf, Taking
<1>7. CASE Sort
  BY <1>7, SortStep DEF Sort
<1>8. CASE MergeSiblings
  BY <1>8, MergeStep
<1>9. CASE KeepPair \/ EndPass
  BY <1>9, LoopStep
<1>10. CASE UNCHANGED vars
  BY <1>10, StutterStep
<1> QED
  BY <1>1, <1>2, <1>3, <1>4, <1>5, <1>6, <1>7, <1>8, <1>9, <1>10
     DEF Next, Step

\* The inductive invariant holds of the specification.
THEOREM Invariance == Spec => []IInv
<1>1. IInv /\ [Next]_vars => IInv'
  BY NextStep
<1> QED
  BY <1>1, InitIInv, PTL DEF Spec

\* Every variable of decompose keeps its type; in particular no region ever
\* goes below the level of a cell.
THEOREM TypeCorrect == Spec => []TypeOK
<1>1. IInv => TypeOK
  BY DEF IInv
<1> QED
  BY <1>1, Invariance, PTL

\* decompose never holds more than max_z regions, so RegionQueue::add always
\* finds room and the caller gets at most max_z z-values.
THEOREM BudgetKept == Spec => []Budget
<1>1. IInv => Budget
  BY DEF IInv
<1> QED
  BY <1>1, Invariance, PTL

\* The z-values of an object cover the object.
THEOREM CoverKept == Spec => []Covers
<1>1. IInv => Covers
  BY DEF IInv
<1> QED
  BY <1>1, Invariance, PTL

\* The z-values of an object do not overlap.
THEOREM OverlapFree == Spec => []Disjoint
<1>1. IInv => Disjoint
  BY DEF IInv
<1> QED
  BY <1>1, Invariance, PTL

\* Every region that decompose holds meets the object, so that the assertion
\* in the case of two halves outside the object is unreachable.
THEOREM NothingOutside == Spec => []NoRegionOutside
<1>1. IInv => NoRegionOutside
  BY DEF IInv
<1> QED
  BY <1>1, Invariance, PTL

\* Splitting never makes the approximation larger; sorting and merging leave
\* the covered cells alone.
THEOREM Tightening == Spec => OnlyTightens
<1>1. IInv /\ [Next]_vars => [/\ pc = "split" => Covered' \subseteq Covered
                              /\ pc = "merge" => Covered' = Covered]_vars
  BY NextStep
<1> QED
  BY <1>1, Invariance, PTL DEF Spec, OnlyTightens

(***************************************************************************)
(* The smallest enclosing region.                                          *)
(***************************************************************************)

\* The region that a beginning of a cell's path names.
LEMMA PrefixHas ==
    ASSUME NEW c \in Cell, NEW n \in 0..ZBits, NEW d
    PROVE  Has(SubSeq(c, 1, n), d) <=> \A k \in 1..n : d[k] = c[k]
<1>1. ZBits \in Nat /\ n \in Nat /\ n <= ZBits /\ c \in [1..ZBits -> Bit]
  BY ZBitsAssumption DEF Cell
<1>2. /\ Len(SubSeq(c, 1, n)) = n
      /\ \A k \in 1..n : SubSeq(c, 1, n)[k] = c[k]
  <2>1. c \in Seq(Bit) /\ Len(c) = ZBits
    BY ONLY <1>1
  <2> QED
    BY ONLY <1>1, <2>1
<1> QED
  BY ONLY <1>2 DEF Has

\* The region found for the object has a cell of the object, and no longer
\* beginning of that cell's path encloses the object.
NoneSmaller ==
    pc # "idle" =>
        \E c \in obj :
            /\ Has(region, c)
            /\ \A n \in (Len(region) + 1)..ZBits : ~ContainedBy(obj, SubSeq(c, 1, n))

WithinRegion == Dividing => Covered \subseteq Cells(region)

\* A call starts at a cell of the object.
LEMMA CallFinds ==
    ASSUME NEW o \in Objects, NEW m \in MaxZs, Decompose(o, m)
    PROVE  (NoneSmaller /\ WithinRegion)'
<1>1. pc' = "enclose" /\ obj' = o /\ region' \in o /\ region' \in Cell
  BY ObjectsAssumption DEF Decompose
<1>2. Len(region') = ZBits /\ ZBits \in Nat
  <2>1. region' \in [1..ZBits -> Bit] /\ ZBits \in Nat
    BY <1>1, ZBitsAssumption DEF Cell
  <2> QED
    BY ONLY <2>1
<1>3. (Len(region') + 1)..ZBits = {}
  BY ONLY <1>2
<1>4. Has(region', region')
  BY DEF Has
<1>5. NoneSmaller'
  BY <1>1, <1>3, <1>4 DEF NoneSmaller
<1> QED
  BY <1>1, <1>5 DEF WithinRegion, Dividing

\* Climbing from a region that does not enclose the object passes no region
\* that does.
LEMMA UpFinds ==
    ASSUME IInv, NoneSmaller, Up
    PROVE  (NoneSmaller /\ WithinRegion)'
<1>1. /\ pc = "enclose" /\ region' = Parent(region) /\ ~ContainedBy(obj, region)
      /\ pc' = pc /\ obj' = obj
  BY DEF Up
<1>2. region \in Region /\ obj \subseteq Cell
  BY DEF IInv, TypeOK
<1>3. PICK c \in obj :
         /\ Has(region, c)
         /\ \A n \in (Len(region) + 1)..ZBits : ~ContainedBy(obj, SubSeq(c, 1, n))
  BY <1>1 DEF NoneSmaller
<1>4. Len(region) \in Nat /\ Len(region) <= ZBits /\ ZBits \in Nat
  BY <1>2, ZBitsAssumption DEF Region
<1>5. Len(region) > 0
  <2> SUFFICES ASSUME Len(region) = 0 PROVE FALSE
    BY <1>4
  <2>1. 1..Len(region) = {}
    BY ONLY Len(region) = 0
  <2>2. Cells(region) = Cell
    BY <2>1 DEF Cells, Has
  <2> QED
    BY <1>1, <1>2, <2>2 DEF ContainedBy
<1>6. /\ Len(region') = Len(region) - 1
      /\ \A n \in 1..(Len(region) - 1) : region'[n] = region[n]
  BY <1>1, <1>2, <1>5, ParentType
<1>7. Has(region', c)
  BY <1>3, <1>4, <1>6 DEF Has
<1>8. ~ContainedBy(obj, SubSeq(c, 1, Len(region)))
  <2>1. \A d \in Cell : Has(SubSeq(c, 1, Len(region)), d) <=> Has(region, d)
    <3> SUFFICES ASSUME NEW d \in Cell
                 PROVE  Has(SubSeq(c, 1, Len(region)), d) <=> Has(region, d)
      OBVIOUS
    <3>1. c \in Cell /\ Len(region) \in 0..ZBits
      BY <1>2, <1>4
    <3>2. Has(SubSeq(c, 1, Len(region)), d) <=> \A k \in 1..Len(region) : d[k] = c[k]
      BY ONLY <3>1, PrefixHas
    <3> QED
      BY ONLY <1>3, <3>2 DEF Has
  <2> QED
    BY <1>1, <1>2, <2>1 DEF ContainedBy, Cells
<1>9. \A n \in (Len(region') + 1)..ZBits : ~ContainedBy(obj, SubSeq(c, 1, n))
  <2> SUFFICES ASSUME NEW n \in (Len(region') + 1)..ZBits
               PROVE  ~ContainedBy(obj, SubSeq(c, 1, n))
    OBVIOUS
  <2>1. n = Len(region) \/ n \in (Len(region) + 1)..ZBits
    BY ONLY <1>4, <1>6, n \in (Len(region') + 1)..ZBits
  <2> QED
    BY ONLY <1>3, <1>8, <2>1
<1>10. NoneSmaller'
  BY <1>1, <1>3, <1>7, <1>9 DEF NoneSmaller
<1> QED
  BY <1>1, <1>10 DEF WithinRegion, Dividing

\* The queue starts with the region found.
LEMMA StartFinds ==
    ASSUME IInv, NoneSmaller, StartQueue
    PROVE  (NoneSmaller /\ WithinRegion)'
<1>1. /\ pc = "enclose" /\ pc' = "split" /\ queue' = <<region>>
      /\ obj' = obj /\ region' = region /\ zs' = zs
  BY DEF StartQueue
<1>2. NoneSmaller'
  BY <1>1 DEF NoneSmaller
<1>3. TypeOK' /\ region \in Region /\ zs = << >>
  BY <1>1, StartQueueStep DEF IInv, TypeOK, CallState
<1>4. Range(zs') = {} /\ Range(queue') = {region}
  BY <1>1, <1>3, ShortSequences
<1>5. Range(Live') = {region}
  BY <1>3, <1>4, LivePartsAfter
<1>6. Covered' \subseteq Cells(region')
  BY <1>1, <1>5 DEF Covered
<1> QED
  BY <1>2, <1>6 DEF WithinRegion

\* From then on nothing changes the region, and the covered cells only shrink.
LEMMA RestFinds ==
    ASSUME NoneSmaller, WithinRegion, Dividing, pc' # "idle",
           UNCHANGED <<obj, region>>, Covered' \subseteq Covered
    PROVE  (NoneSmaller /\ WithinRegion)'
<1>1. pc # "idle" /\ obj' = obj /\ region' = region
  BY DEF Dividing
<1>2. NoneSmaller'
  BY <1>1 DEF NoneSmaller
<1>3. Covered' \subseteq Cells(region')
  BY <1>1 DEF WithinRegion
<1> QED
  BY <1>2, <1>3 DEF WithinRegion

LEMMA NextFinds ==
    ASSUME IInv, NoneSmaller, WithinRegion, [Next]_vars
    PROVE  (NoneSmaller /\ WithinRegion)'
<1>0. /\ pc = "split" => Covered' \subseteq Covered
      /\ pc = "merge" => Covered' = Covered
  BY NextStep
<1>1. CASE \E o \in Objects, m \in MaxZs : Decompose(o, m)
  BY <1>1, CallFinds
<1>2. CASE Up
  BY <1>2, UpFinds
<1>3. CASE StartQueue
  BY <1>3, StartFinds
<1>4. CASE \/ EmitPoint \/ EmitWhole \/ SplitBoth \/ Coarsen
           \/ \E b \in Bit : DropHalf(b) \/ EmitHalf(b)
  <2>1. pc = "split" /\ pc' = pc /\ UNCHANGED <<obj, region>>
    BY <1>4 DEF EmitPoint, EmitWhole, SplitBoth, Coarsen, DropHalf, EmitHalf, Taking, Divide
  <2> QED
    BY <1>0, <2>1, RestFinds DEF Dividing
<1>5. CASE Sort \/ MergeSiblings \/ KeepPair \/ EndPass
  <2>1. pc \in {"split", "merge"} /\ pc' \in {"merge", "done"} /\ UNCHANGED <<obj, region>>
    BY <1>5 DEF Sort, MergeSiblings, KeepPair, EndPass, Merging
  <2> QED
    BY <1>0, <2>1, RestFinds DEF Dividing
<1>6. CASE UNCHANGED vars
  <2>1. pc' = pc /\ UNCHANGED <<obj, region, zs, queue>>
    BY <1>6 DEF vars
  <2>2. Live' = Live /\ Covered' = Covered /\ Dividing' = Dividing
    BY <2>1 DEF Live, Covered, Dividing
  <2> QED
    BY <2>1, <2>2 DEF NoneSmaller, WithinRegion
<1> QED
  BY <1>1, <1>2, <1>3, <1>4, <1>5, <1>6 DEF Next, Step

\* What a call keeps from its beginning on.
CallInv == IInv /\ NoneSmaller /\ WithinRegion

LEMMA CallInvStarts == Init => CallInv
<1>1. Init => NoneSmaller /\ WithinRegion
  BY DEF Init, NoneSmaller, WithinRegion, Dividing
<1> QED
  BY <1>1, InitIInv DEF CallInv

LEMMA CallInvKept == CallInv /\ [Next]_vars => CallInv'
BY NextStep, NextFinds DEF CallInv

LEMMA EnclosedByCallInv == CallInv => WithinEnclosing
<1> SUFFICES ASSUME CallInv, Dividing,
                    NEW x \in obj, NEW n \in 0..ZBits,
                    ContainedBy(obj, SubSeq(x, 1, n)),
                    NEW d \in Covered
             PROVE  d \in Cells(SubSeq(x, 1, n))
  BY DEF WithinEnclosing
<1> USE DEF CallInv
<1>1. /\ region \in Region /\ obj \subseteq Cell
      /\ ZBits \in Nat /\ n \in Nat /\ Len(region) \in Nat
  BY ZBitsAssumption DEF IInv, TypeOK, Region
<1>2. PICK c \in obj :
         /\ Has(region, c)
         /\ \A k \in (Len(region) + 1)..ZBits : ~ContainedBy(obj, SubSeq(c, 1, k))
  BY DEF NoneSmaller, Dividing
<1>3. x \in Cell /\ c \in Cell /\ d \in Cell /\ Has(region, d)
  BY <1>1 DEF WithinRegion, Cells
<1>4. \A k \in 1..n : c[k] = x[k]
  <2>1. Has(SubSeq(x, 1, n), c)
    BY DEF ContainedBy, Cells
  <2> QED
    BY ONLY <1>3, <2>1, n \in 0..ZBits, PrefixHas
<1>5. ContainedBy(obj, SubSeq(c, 1, n))
  <2> SUFFICES ASSUME NEW e \in obj
               PROVE  Has(SubSeq(c, 1, n), e)
    BY <1>1 DEF ContainedBy, Cells
  <2>1. Has(SubSeq(x, 1, n), e)
    BY DEF ContainedBy, Cells
  <2>2. \A k \in 1..n : e[k] = x[k]
    BY ONLY <1>3, <2>1, n \in 0..ZBits, PrefixHas
  <2>3. \A k \in 1..n : e[k] = c[k]
    BY ONLY <1>4, <2>2
  <2> QED
    BY ONLY <1>3, <2>3, n \in 0..ZBits, PrefixHas
<1>6. n <= Len(region)
  <2>1. n \notin (Len(region) + 1)..ZBits
    BY ONLY <1>2, <1>5
  <2> QED
    BY ONLY <1>1, <2>1, n \in 0..ZBits
<1>7. \A k \in 1..n : k \in 1..Len(region)
  BY ONLY <1>1, <1>6
<1>8. \A k \in 1..n : d[k] = x[k]
  BY ONLY <1>2, <1>3, <1>4, <1>7 DEF Has
<1>9. Has(SubSeq(x, 1, n), d)
  BY ONLY <1>3, <1>8, n \in 0..ZBits, PrefixHas
<1> QED
  BY <1>3, <1>9 DEF Cells

\* The approximation never leaves the smallest region that encloses the
\* object: the climb stops at it, and splitting stays within it.
THEOREM NeverBeyondEnclosing == Spec => []WithinEnclosing
BY CallInvStarts, CallInvKept, EnclosedByCallInv, PTL DEF Spec

\* The z-values that a call has returned approximate the object.
Approximated(o, s) ==
    /\ s \in Seq(Region)
    /\ \A c \in o : \E j \in DOMAIN s : c \in Cells(s[j])
    /\ \A j, k \in DOMAIN s : j # k => Cells(s[j]) \cap Cells(s[k]) = {}
    /\ \A j \in DOMAIN s : ~Outside(o, s[j])
    /\ \A c \in o, n \in 0..ZBits, j \in DOMAIN s :
          ContainedBy(o, SubSeq(c, 1, n)) => Cells(s[j]) \subseteq Cells(SubSeq(c, 1, n))

LEMMA CallReturns ==
    ASSUME CallInv, pc = "done"
    PROVE  Approximated(obj, zs)
<1>1. IInv /\ WithinEnclosing /\ Dividing
  BY EnclosedByCallInv DEF CallInv, Dividing
<1>2. zs \in Seq(Region) /\ queue = << >>
  BY <1>1 DEF IInv, TypeOK, CallState
<1>3. Live = zs
  BY <1>2 DEF Live
<1>4. obj \subseteq Covered /\ Covered = UNION {Cells(zs[j]) : j \in DOMAIN zs}
  BY <1>1, <1>3 DEF IInv, Covers, Covered, Range
<1>5. /\ \A j, k \in DOMAIN zs : j # k => Cells(zs[j]) \cap Cells(zs[k]) = {}
      /\ \A j \in DOMAIN zs : ~Outside(obj, zs[j])
  BY <1>1, <1>3 DEF IInv, Disjoint, NoRegionOutside, Range
<1>6. \A c \in obj, n \in 0..ZBits, j \in DOMAIN zs :
          ContainedBy(obj, SubSeq(c, 1, n)) => Cells(zs[j]) \subseteq Cells(SubSeq(c, 1, n))
  BY <1>1, <1>4 DEF WithinEnclosing
<1> QED
  BY <1>2, <1>4, <1>5, <1>6 DEF Approximated

\* One cell is approximated by itself alone.
LEMMA CellApproximated ==
    ASSUME NEW c \in Cell, NEW s, Approximated({c}, s)
    PROVE  s = <<c>>
<1>1. ZBits \in Nat \ {0} /\ c \in [1..ZBits -> Bit] /\ s \in Seq(Region)
  BY ZBitsAssumption DEF Cell, Approximated
<1>2. ASSUME NEW j \in DOMAIN s
      PROVE  s[j] = c
  <2> DEFINE r == s[j]
  <2>1. r \in Seq(Bit) /\ Len(r) \in Nat /\ Len(r) <= ZBits
    BY <1>1, <1>2 DEF Region
  <2>2. Cells(r) \subseteq {c} /\ c \in Cells(r)
    <3>1. ZBits \in 0..ZBits /\ {c} \subseteq Cell
      BY <1>1
    <3>2. \A d \in Cell : Has(SubSeq(c, 1, ZBits), d) <=> d = c
      <4> SUFFICES ASSUME NEW d \in Cell
                   PROVE  Has(SubSeq(c, 1, ZBits), d) <=> d = c
        OBVIOUS
      <4>1. Has(SubSeq(c, 1, ZBits), d) <=> \A k \in 1..ZBits : d[k] = c[k]
        BY ONLY <3>1, PrefixHas, c \in Cell, d \in Cell
      <4>2. d \in [1..ZBits -> Bit]
        BY DEF Cell
      <4> QED
        BY ONLY <1>1, <4>1, <4>2
    <3>3. Cells(SubSeq(c, 1, ZBits)) = {c}
      BY ONLY <3>2, c \in Cell DEF Cells
    <3> QED
      BY <1>2, <3>1, <3>3 DEF Approximated, ContainedBy, Outside
  <2> HIDE DEF r
  <2>3. \A n \in 1..Len(r) : c[n] = r[n]
    BY <2>2 DEF Cells, Has
  <2>4. Len(r) = ZBits
    <3> SUFFICES ASSUME Len(r) < ZBits PROVE FALSE
      BY <1>1, <2>1
    <3> DEFINE d == [c EXCEPT ![ZBits] = 1 - c[ZBits]]
    <3>1. c[ZBits] \in Bit /\ 1 - c[ZBits] \in Bit /\ 1 - c[ZBits] # c[ZBits]
      BY <1>1 DEF Bit
    <3>2. d \in Cell /\ d[ZBits] # c[ZBits] /\ \A n \in 1..Len(r) : d[n] = c[n]
      BY <1>1, <2>1, <3>1 DEF Cell
    <3> HIDE DEF d
    <3>3. d \in Cells(r)
      BY <2>3, <3>2 DEF Cells, Has
    <3> QED
      BY <2>2, <3>2, <3>3
  <2>5. r \in [1..ZBits -> Bit]
    BY <2>1, <2>4
  <2> QED
    BY ONLY <1>1, <2>3, <2>4, <2>5 DEF r
<1>3. Len(s) \in Nat /\ DOMAIN s = 1..Len(s)
  BY <1>1
<1>4. Len(s) >= 1
  BY <1>3 DEF Approximated
<1>5. Len(s) < 2
  <2> SUFFICES ASSUME Len(s) >= 2 PROVE FALSE
    BY <1>3
  <2>1. 1 \in DOMAIN s /\ 2 \in DOMAIN s
    BY <1>3
  <2>2. s[1] = c /\ s[2] = c
    BY <1>2, <2>1
  <2>3. Cells(c) \cap Cells(c) = {}
    BY <2>1, <2>2 DEF Approximated
  <2>4. c \in Cells(c)
    BY DEF Cells, Has
  <2> QED
    BY <2>3, <2>4
<1>6. Len(s) = 1 /\ s[1] = c
  BY <1>2, <1>3, <1>4, <1>5
<1> QED
  BY <1>1, <1>6

(***************************************************************************)
(* When max_z is large enough, nothing is coarsened.                       *)
(***************************************************************************)

\* The z-values emitted so far, and in the end all that is covered, are
\* inside the object.
Exact ==
    Cardinality(obj) <= maxZ =>
        /\ pc = "split" => \A r \in Range(zs) : Inside(obj, r)
        /\ pc \in {"merge", "done"} => Covered \subseteq obj

ExactInv == IsFiniteSet(obj) /\ Exact

\* One cell of the object from each live region, and one more from the front
\* of the queue when both of its halves meet the object.
LEMMA OneMoreCell ==
    ASSUME IInv, Taking, IsFiniteSet(obj), ~IsPoint(Front),
           \A b \in Bit : ~Outside(obj, Half(b))
    PROVE  Len(zs) + Len(queue) + 1 <= Cardinality(obj)
<1> DEFINE N == Len(zs) + Len(queue)
           S == 1..(N + 1)
<1>1. /\ zs \in Seq(Region) /\ queue \in Seq(Region) /\ queue # << >>
      /\ obj \subseteq Cell
  BY DEF IInv, TypeOK, Taking
<1>2. /\ Live \in Seq(Region) /\ Len(Live) = N /\ N \in Nat
      /\ Len(zs) \in Nat /\ Len(queue) \in Nat
      /\ DOMAIN Live = 1..N
  <2>1. Live \in Seq(Region) /\ Len(Live) = N /\ Len(zs) \in Nat /\ Len(queue) \in Nat
    BY ONLY <1>1, ConcatElements DEF Live
  <2> QED
    BY ONLY <2>1
<1>3. PICK f \in 1..N : Live[f] = Front
  <2>1. Front \in Range(Live)
    BY <1>1, QueueParts, LiveParts DEF IInv
  <2> QED
    BY <1>2, <2>1 DEF Range
<1>4. /\ \A b \in Bit : Half(b) \in Region /\ Cells(Half(b)) \subseteq Cells(Front)
      /\ Apart(Half(0), Half(1))
  BY Halves DEF Bit
<1>5. PICK x \in obj : x \in Cells(Half(0))
  BY DEF Outside, Bit
<1>6. PICK y \in obj : y \in Cells(Half(1))
  BY DEF Outside, Bit
<1>7. x # y /\ x \in Cells(Front) /\ y \in Cells(Front)
  BY <1>4, <1>5, <1>6 DEF Apart, Bit
<1>8. \A m \in 1..N : \E c \in obj : c \in Cells(Live[m])
  <2>1. \A m \in 1..N : Live[m] \in Range(Live)
    BY <1>2 DEF Range
  <2> QED
    BY <2>1 DEF IInv, NoRegionOutside, Outside
<1>9. \A m, n \in 1..N : m # n => Cells(Live[m]) \cap Cells(Live[n]) = {}
  BY <1>2 DEF IInv, Disjoint
<1> DEFINE cell == [m \in S |->
                IF m = N + 1 THEN y
                ELSE IF m = f THEN x
                ELSE CHOOSE c \in obj : c \in Cells(Live[m])]
<1>10. \A m \in 1..N : cell[m] \in obj /\ cell[m] \in Cells(Live[m])
  <2> SUFFICES ASSUME NEW m \in 1..N
               PROVE  cell[m] \in obj /\ cell[m] \in Cells(Live[m])
    OBVIOUS
  <2>1. m \in S /\ m # N + 1
    BY <1>2
  <2>2. CASE m = f
    BY <1>3, <1>5, <1>7, <2>1, <2>2
  <2>3. CASE m # f
    <3>1. cell[m] = CHOOSE c \in obj : c \in Cells(Live[m])
      BY <2>1, <2>3
    <3>2. \E c \in obj : c \in Cells(Live[m])
      BY <1>8
    <3> QED
      BY <3>1, <3>2
  <2> QED
    BY <2>2, <2>3
<1>11. N + 1 \in S /\ cell[N + 1] = y /\ f \in S /\ cell[f] = x /\ f # N + 1
  BY <1>2, <1>3
<1> HIDE DEF cell
<1>12. \A m \in 1..N : cell[m] # cell[N + 1]
  <2> SUFFICES ASSUME NEW m \in 1..N PROVE cell[m] # y
    BY <1>11
  <2>1. CASE m = f
    BY <1>7, <1>11, <2>1
  <2>2. CASE m # f
    BY <1>3, <1>7, <1>9, <1>10, <2>2
  <2> QED
    BY <2>1, <2>2
<1>13. \A m, n \in 1..N : m # n => cell[m] # cell[n]
  BY <1>9, <1>10
<1>14. \A m \in S : m \in 1..N \/ m = N + 1
  BY ONLY <1>2
<1>15. cell \in Injection(S, obj)
  <2>1. cell \in [S -> obj]
    <3>1. cell = [m \in S |-> cell[m]]
      BY DEF cell
    <3>2. \A m \in S : cell[m] \in obj
      BY <1>6, <1>10, <1>11, <1>14
    <3> QED
      BY ONLY <3>1, <3>2
  <2>2. \A m, n \in S : cell[m] = cell[n] => m = n
    BY ONLY <1>12, <1>13, <1>14
  <2> HIDE DEF S
  <2> QED
    BY ONLY <2>1, <2>2 DEF Injection, IsInjective
<1>16. Cardinality(S) = N + 1
  <2>1. 1 \in Int /\ N + 1 \in Int /\ ~(1 > N + 1) /\ N + 1 - 1 + 1 = N + 1
    BY ONLY <1>2
  <2> QED
    BY ONLY <2>1, FS_Interval
<1>17. Cardinality(S) <= Cardinality(obj)
  BY ONLY <1>15, IsFiniteSet(obj), FS_Injection
<1> QED
  BY ONLY <1>16, <1>17

\* So when max_z is at least the number of the object's cells, there is room
\* whenever both halves are needed.
LEMMA NoCoarsening ==
    ASSUME IInv, IsFiniteSet(obj), Cardinality(obj) <= maxZ
    PROVE  ~Coarsen
<1> SUFFICES ASSUME Coarsen PROVE FALSE
  OBVIOUS
<1>1. Taking /\ ~IsPoint(Front) /\ (\A b \in Bit : ~Outside(obj, Half(b))) /\ ~Room
  BY DEF Coarsen
<1>2. Len(zs) + Len(queue) + 1 <= Cardinality(obj)
  BY <1>1, OneMoreCell
<1>3. /\ Len(zs) \in Nat /\ Len(queue) \in Nat /\ maxZ \in Nat
      /\ queue \in Seq(Region) /\ queue # << >>
  BY <1>1 DEF IInv, TypeOK, Taking
<1>4. Len(Tail(queue)) = Len(queue) - 1
  BY ONLY <1>3
<1>5. Cardinality(obj) \in Nat
  BY FS_CardinalityType
<1>6. ~(Len(Tail(queue)) + 1 + Len(zs) < maxZ)
  BY <1>1 DEF Room
<1> QED
  BY ONLY <1>2, <1>3, <1>4, <1>5, <1>6, Cardinality(obj) <= maxZ

\* A region that is one cell, and meets the object, is inside it.
LEMMA PointInside ==
    ASSUME NEW r \in Region, IsPoint(r), ~Outside(obj, r)
    PROVE  Inside(obj, r)
<1>1. r \in Seq(Bit) /\ Len(r) = ZBits /\ ZBits \in Nat
  BY ZBitsAssumption DEF IsPoint, Region
<1>2. ASSUME NEW c \in Cell, Has(r, c)
      PROVE  c = r
  <2>1. c \in [1..ZBits -> Bit] /\ r \in [1..ZBits -> Bit]
    BY <1>1 DEF Cell
  <2>2. \A n \in 1..ZBits : c[n] = r[n]
    BY <1>1, <1>2 DEF Has
  <2>3. c = [n \in 1..ZBits |-> c[n]] /\ r = [n \in 1..ZBits |-> r[n]]
    BY ONLY <2>1, Zenon
  <2>4. [n \in 1..ZBits |-> c[n]] = [n \in 1..ZBits |-> r[n]]
    BY ONLY <2>2
  <2> QED
    BY ONLY <2>3, <2>4, Zenon
<1> QED
  BY <1>2 DEF Inside, Outside, Cells

\* A division emits only what is inside the object, unless it coarsens.
LEMMA DivisionExact ==
    ASSUME IInv, ExactInv, IInv', Taking,
           NEW em \in Seq(Region), NEW qd \in Seq(Region), Divide(em, qd),
           Cardinality(obj) <= maxZ => \A r \in Range(em) : Inside(obj, r)
    PROVE  ExactInv'
<1>1. /\ pc = "split" /\ pc' = "split" /\ obj' = obj /\ maxZ' = maxZ
      /\ zs' = zs \o em /\ zs \in Seq(Region)
  BY DEF Taking, Divide, IInv, TypeOK
<1>2. Range(zs') = Range(zs) \cup Range(em)
  BY ONLY <1>1, em \in Seq(Region), ConcatRange
<1> QED
  BY <1>1, <1>2 DEF ExactInv, Exact

\* Every step of the splitting loop emits regions inside the object.
LEMMA SplitExact ==
    ASSUME IInv, IInv', ExactInv,
           \/ EmitPoint \/ EmitWhole \/ SplitBoth \/ Coarsen
           \/ \E b \in Bit : DropHalf(b) \/ EmitHalf(b)
    PROVE  ExactInv'
<1>1. Taking /\ queue \in Seq(Region) /\ queue # << >>
  BY DEF EmitPoint, EmitWhole, SplitBoth, Coarsen, DropHalf, EmitHalf, Taking, IInv, TypeOK
<1>2. Front \in Region /\ ~Outside(obj, Front)
  BY <1>1, QueueParts, LiveParts DEF IInv, NoRegionOutside
<1>3. << >> \in Seq(Region) /\ Range(<< >>) = {}
  BY <1>2, ShortSequences
<1>4. \A a \in Region : <<a>> \in Seq(Region) /\ Range(<<a>>) = {a}
  BY ShortSequences
<1>5. CASE EmitPoint
  <2>1. Inside(obj, Front) /\ Divide(<<Front>>, << >>)
    BY <1>2, <1>5, PointInside DEF EmitPoint
  <2> QED
    BY <1>1, <1>2, <1>3, <1>4, <2>1, DivisionExact
<1>6. CASE EmitWhole
  <2>1. Cells(Front) = Cells(Half(0)) \cup Cells(Half(1)) /\ Divide(<<Front>>, << >>)
    BY <1>6, Halves DEF EmitWhole
  <2>2. Inside(obj, Front)
    BY <1>6, <2>1 DEF EmitWhole, Inside, Bit
  <2> QED
    BY <1>1, <1>2, <1>3, <1>4, <2>1, <2>2, DivisionExact
<1>7. CASE SplitBoth
  <2>1. Half(0) \in Region /\ Half(1) \in Region /\ Divide(<< >>, <<Half(1), Half(0)>>)
    BY <1>7, Halves DEF SplitBoth, Bit
  <2>2. <<Half(1), Half(0)>> \in Seq(Region)
    BY <2>1
  <2> QED
    BY <1>1, <1>3, <2>1, <2>2, DivisionExact
<1>8. CASE Coarsen
  <2>1. ~(Cardinality(obj) <= maxZ) /\ Divide(<<Front>>, << >>)
    BY <1>8, NoCoarsening DEF ExactInv, Coarsen
  <2> QED
    BY <1>1, <1>2, <1>3, <1>4, <2>1, DivisionExact
<1>9. ASSUME NEW b \in Bit, DropHalf(b)
      PROVE  ExactInv'
  <2>1. Half(b) \in Region
    BY <1>9, Halves DEF DropHalf
  <2>2. CASE Inside(obj, Half(b)) /\ Divide(<<Half(b)>>, << >>)
    BY <1>1, <1>3, <1>4, <2>1, <2>2, DivisionExact
  <2>3. CASE Divide(<< >>, <<Half(b)>>)
    BY <1>1, <1>3, <1>4, <2>1, <2>3, DivisionExact
  <2> QED
    BY <1>9, <2>2, <2>3 DEF DropHalf
<1>10. ASSUME NEW b \in Bit, EmitHalf(b)
       PROVE  ExactInv'
  <2>1. /\ Half(b) \in Region /\ Half(1 - b) \in Region /\ Inside(obj, Half(b))
        /\ Divide(<<Half(b)>>, <<Half(1 - b)>>)
    BY <1>10, Halves DEF EmitHalf, Bit
  <2> QED
    BY <1>1, <1>3, <1>4, <2>1, DivisionExact
<1> QED
  BY <1>5, <1>6, <1>7, <1>8, <1>9, <1>10

\* When the queue is empty, what is covered is what the z-values cover.
LEMMA SortExact ==
    ASSUME IInv, IInv', ExactInv, Sort
    PROVE  ExactInv'
<1>1. /\ pc = "split" /\ queue = << >> /\ pc' = "merge" /\ obj' = obj /\ maxZ' = maxZ
      /\ Covered' = Covered
  BY SortStep DEF Sort
<1>2. Range(Live) = Range(zs)
  BY <1>1, LiveIsZs
<1> QED
  BY <1>1, <1>2 DEF ExactInv, Exact, Covered, Inside

LEMMA NextExact ==
    ASSUME IInv, ExactInv, [Next]_vars
    PROVE  ExactInv'
<1>0. IInv' /\ (pc = "merge" => Covered' = Covered)
  BY NextStep
<1>1. ASSUME NEW o \in Objects, NEW m \in MaxZs, Decompose(o, m)
      PROVE  ExactInv'
  BY <1>1, ObjectsAssumption DEF Decompose, ExactInv, Exact
<1>2. CASE Up
  BY <1>2 DEF Up, ExactInv, Exact
<1>3. CASE StartQueue
  <2>1. /\ pc' = "split" /\ obj' = obj /\ zs' = zs /\ zs = << >>
    BY <1>3 DEF StartQueue, IInv, CallState
  <2>2. Range(zs') = {}
    BY <2>1 DEF Range
  <2> QED
    BY <2>1, <2>2 DEF ExactInv, Exact
<1>4. CASE \/ EmitPoint \/ EmitWhole \/ SplitBoth \/ Coarsen
           \/ \E b \in Bit : DropHalf(b) \/ EmitHalf(b)
  BY <1>0, <1>4, SplitExact
<1>5. CASE Sort
  BY <1>0, <1>5, SortExact
<1>6. CASE MergeSiblings \/ KeepPair \/ EndPass
  <2>1. pc = "merge" /\ pc' \in {"merge", "done"} /\ obj' = obj /\ maxZ' = maxZ
    BY <1>6 DEF MergeSiblings, KeepPair, EndPass, Merging
  <2> QED
    BY <1>0, <2>1 DEF ExactInv, Exact
<1>7. CASE UNCHANGED vars
  <2>1. UNCHANGED <<pc, obj, maxZ, zs, queue>>
    BY <1>7 DEF vars
  <2>2. Covered' = Covered
    BY <2>1 DEF Covered, Live
  <2> QED
    BY <2>1, <2>2 DEF ExactInv, Exact
<1> QED
  BY <1>1, <1>2, <1>3, <1>4, <1>5, <1>6, <1>7 DEF Next, Step

\* When max_z allows as many z-values as the object has cells, the
\* approximation is exact.
THEOREM RoomyIsExact == Spec => []ExactWhenRoomy
<1>1. Init => ExactInv
  BY FS_EmptySet DEF Init, ExactInv, Exact
<1>2. IInv /\ ExactInv /\ [Next]_vars => ExactInv'
  BY NextExact
<1>3. IInv /\ ExactInv => ExactWhenRoomy
  BY DEF IInv, Covers, Dividing, ExactInv, Exact, ExactWhenRoomy
<1> QED
  BY <1>1, <1>2, <1>3, Invariance, PTL DEF Spec

(***************************************************************************)
(* The order of the z-values.                                              *)
(***************************************************************************)

\* Where the paths of two regions part, the first one turns left.
LeftOf(a, b) ==
    \E n \in 1..Len(a) :
        /\ n <= Len(b)
        /\ a[n] < b[n]
        /\ \A k \in 1..(n - 1) : a[k] = b[k]

InOrder(s) == \A j, k \in DOMAIN s : j < k => LeftOf(s[j], s[k])

\* Of two regions that do not overlap, one is to the left of the other.
LEMMA ApartParts ==
    ASSUME NEW a \in Region, NEW b \in Region, Apart(a, b)
    PROVE  LeftOf(a, b) \/ LeftOf(b, a)
<1> DEFINE Parting == {n \in 1..Len(a) : n <= Len(b) /\ a[n] # b[n]}
<1>1. /\ Len(a) \in Nat /\ Len(b) \in Nat /\ Len(a) <= ZBits /\ Len(b) <= ZBits
      /\ \A n \in 1..Len(a) : a[n] \in Bit
      /\ \A n \in 1..Len(b) : b[n] \in Bit
      /\ ZBits \in Nat
  BY ZBitsAssumption DEF Region
<1>2. Parting # {}
  <2> SUFFICES ASSUME Parting = {} PROVE FALSE
    OBVIOUS
  <2>1. \A n \in 1..Len(a) : n <= Len(b) => a[n] = b[n]
    OBVIOUS
  <2>2. CASE Len(a) <= Len(b)
    <3>1. \A c \in Cell : Has(b, c) => Has(a, c)
      BY <1>1, <2>1, <2>2 DEF Has
    <3> QED
      BY <3>1, RegionNotEmpty DEF Apart, Cells
  <2>3. CASE Len(b) <= Len(a)
    <3>1. \A c \in Cell : Has(a, c) => Has(b, c)
      BY <1>1, <2>1, <2>3 DEF Has
    <3> QED
      BY <3>1, RegionNotEmpty DEF Apart, Cells
  <2> QED
    BY <1>1, <2>2, <2>3
<1>3. PICK n \in Parting : \A k \in Parting : n <= k
  <2>1. Parting \in SUBSET Nat
    BY <1>1
  <2> HIDE DEF Parting
  <2> QED
    BY <1>2, <2>1, LeastElement
<1>4. /\ n \in 1..Len(a) /\ n \in 1..Len(b) /\ n <= Len(a) /\ n <= Len(b) /\ a[n] # b[n]
      /\ a[n] \in Bit /\ b[n] \in Bit
  BY <1>1, <1>3
<1>5. \A k \in 1..(n - 1) : a[k] = b[k]
  <2> SUFFICES ASSUME NEW k \in 1..(n - 1), a[k] # b[k] PROVE FALSE
    OBVIOUS
  <2>1. k \in Parting /\ k < n
    BY <1>1, <1>4
  <2> QED
    BY <1>3, <1>4, <2>1
<1>6. a[n] < b[n] \/ b[n] < a[n]
  BY <1>4 DEF Bit
<1> QED
  BY ONLY <1>4, <1>5, <1>6 DEF LeftOf

\* A region to the left of another comes before it as an integer.
LEMMA LeftIsBefore ==
    ASSUME NEW a \in Region, NEW b \in Region, LeftOf(a, b)
    PROVE  Before(a, b)
<1>1. PICK n \in 1..Len(a) : /\ n <= Len(b)
                            /\ a[n] < b[n]
                            /\ \A k \in 1..(n - 1) : a[k] = b[k]
  BY DEF LeftOf
<1>2. Len(a) \in Nat /\ Len(b) \in Nat /\ Len(a) <= ZBits /\ ZBits \in Nat
  BY ZBitsAssumption DEF Region
<1>3. \A k \in 1..n : PaddedBit(a, k) = a[k] /\ PaddedBit(b, k) = b[k]
  BY <1>1, <1>2 DEF PaddedBit
<1>4. n \in 1..ZBits /\ n \in 1..n /\ \A k \in 1..(n - 1) : k \in 1..n
  BY ONLY <1>1, <1>2
<1> QED
  BY ONLY <1>1, <1>3, <1>4 DEF Before

\* So z-values in the order of the integers, none of which overlap, are in
\* the order of their paths.
LEMMA SortedInOrder ==
    ASSUME NEW s \in Seq(Region), AllApart(s), Ascending(s)
    PROVE  InOrder(s)
<1> SUFFICES ASSUME NEW j \in DOMAIN s, NEW k \in DOMAIN s, j < k
             PROVE  LeftOf(s[j], s[k])
  BY DEF InOrder
<1>1. s[j] \in Region /\ s[k] \in Region /\ j # k
  OBVIOUS
<1>2. Apart(s[j], s[k]) /\ ~Before(s[k], s[j])
  BY <1>1 DEF AllApart, Ascending
<1> QED
  BY ONLY <1>1, <1>2, ApartParts, LeftIsBefore

\* A region to the left of two siblings is to the left of their parent, and
\* one to the right of them to the right.
LEMMA ParentKeepsOrder ==
    ASSUME NEW a \in Region, NEW b \in Region, SiblingOf(a, b), NEW x \in Region
    PROVE  /\ LeftOf(x, a) /\ LeftOf(x, b) => LeftOf(x, Parent(a))
           /\ LeftOf(a, x) /\ LeftOf(b, x) => LeftOf(Parent(a), x)
<1>1. /\ Len(a) \in Nat /\ Len(a) > 0 /\ Len(b) = Len(a) /\ Len(x) \in Nat
      /\ \A k \in 1..(Len(a) - 1) : a[k] = b[k]
      /\ a[Len(a)] # b[Len(a)]
      /\ a[Len(a)] \in Bit /\ b[Len(a)] \in Bit
      /\ \A k \in 1..Len(x) : x[k] \in Bit
  BY DEF Region, SiblingOf
<1>2. /\ Len(Parent(a)) = Len(a) - 1
      /\ \A k \in 1..(Len(a) - 1) : Parent(a)[k] = a[k]
  BY <1>1, ParentType
<1>3. ASSUME LeftOf(x, a), LeftOf(x, b)
      PROVE  LeftOf(x, Parent(a))
  <2>1. PICK m \in 1..Len(x) : /\ m <= Len(a) /\ x[m] < a[m]
                              /\ \A k \in 1..(m - 1) : x[k] = a[k]
    BY <1>3 DEF LeftOf
  <2>2. PICK n \in 1..Len(x) : /\ n <= Len(b) /\ x[n] < b[n]
                              /\ \A k \in 1..(n - 1) : x[k] = b[k]
    BY <1>3 DEF LeftOf
  <2>3. CASE m < Len(a)
    <3>1. m <= Len(Parent(a)) /\ Parent(a)[m] = a[m]
      BY ONLY <1>1, <1>2, <2>1, <2>3
    <3>2. \A k \in 1..(m - 1) : Parent(a)[k] = a[k]
      BY ONLY <1>1, <1>2, <2>1, <2>3
    <3> QED
      BY ONLY <2>1, <3>1, <3>2 DEF LeftOf
  <2>4. CASE m = Len(a)
    <3>1. n = m
      <4>1. CASE n < m
        <5>1. n \in 1..(m - 1) /\ n \in 1..(Len(a) - 1) /\ b[n] \in Bit
          BY <1>1, <2>1, <2>2, <2>4, <4>1 DEF Region
        <5>2. x[n] = b[n] /\ b[n] \in Int
          BY <1>1, <2>1, <5>1 DEF Bit
        <5> QED
          BY ONLY <2>2, <5>2
      <4> QED
        BY ONLY <1>1, <2>1, <2>2, <2>4, <4>1
    <3>2. x[m] \in Bit /\ x[m] < a[m] /\ x[m] < b[m]
      BY <1>1, <2>1, <2>2, <3>1
    <3> QED
      BY ONLY <1>1, <2>4, <3>2 DEF Bit
  <2> QED
    BY ONLY <1>1, <2>1, <2>3, <2>4
<1>4. ASSUME LeftOf(a, x), LeftOf(b, x)
      PROVE  LeftOf(Parent(a), x)
  <2>1. PICK m \in 1..Len(a) : /\ m <= Len(x) /\ a[m] < x[m]
                              /\ \A k \in 1..(m - 1) : a[k] = x[k]
    BY <1>4 DEF LeftOf
  <2>2. PICK n \in 1..Len(b) : /\ n <= Len(x) /\ b[n] < x[n]
                              /\ \A k \in 1..(n - 1) : b[k] = x[k]
    BY <1>4 DEF LeftOf
  <2>3. CASE m < Len(a)
    <3>1. m \in 1..Len(Parent(a)) /\ Parent(a)[m] = a[m]
      BY ONLY <1>1, <1>2, <2>1, <2>3
    <3>2. \A k \in 1..(m - 1) : Parent(a)[k] = a[k]
      BY ONLY <1>1, <1>2, <2>1, <2>3
    <3> QED
      BY ONLY <2>1, <3>1, <3>2 DEF LeftOf
  <2>4. CASE m = Len(a)
    <3>1. n = m
      <4>1. CASE n < m
        <5>1. n \in 1..(m - 1) /\ n \in 1..(Len(a) - 1) /\ b[n] \in Bit
          BY <1>1, <2>1, <2>2, <2>4, <4>1 DEF Region
        <5>2. x[n] = b[n] /\ b[n] \in Int
          BY <1>1, <2>1, <5>1 DEF Bit
        <5> QED
          BY ONLY <2>2, <5>2
      <4> QED
        BY ONLY <1>1, <2>1, <2>2, <2>4, <4>1
    <3>2. m \in 1..Len(x) /\ a[m] < x[m] /\ b[m] < x[m]
      BY ONLY <1>1, <2>1, <2>2, <3>1
    <3>3. x[m] \in Bit
      BY ONLY <1>1, <3>2
    <3> QED
      BY ONLY <1>1, <2>4, <3>2, <3>3 DEF Bit
  <2> QED
    BY ONLY <1>1, <2>1, <2>3, <2>4
<1> QED
  BY <1>3, <1>4

\* A region between two siblings would overlap one of them.
LEMMA NothingBetween ==
    ASSUME NEW a \in Region, NEW b \in Region, NEW c \in Region,
           SiblingOf(a, b), LeftOf(a, c), LeftOf(c, b)
    PROVE  FALSE
<1>1. /\ Len(a) \in Nat /\ Len(a) > 0 /\ Len(b) = Len(a) /\ Len(c) \in Nat
      /\ \A k \in 1..(Len(a) - 1) : a[k] = b[k]
      /\ \A k \in 1..Len(a) : a[k] \in Bit /\ b[k] \in Bit
      /\ \A k \in 1..Len(c) : c[k] \in Bit
  BY DEF Region, SiblingOf
<1>2. PICK m \in 1..Len(a) : /\ m <= Len(c) /\ a[m] < c[m]
                            /\ \A k \in 1..(m - 1) : a[k] = c[k]
  BY DEF LeftOf
<1>3. PICK n \in 1..Len(c) : /\ n <= Len(b) /\ c[n] < b[n]
                            /\ \A k \in 1..(n - 1) : c[k] = b[k]
  BY DEF LeftOf
<1>4. /\ m \in 1..Len(a) /\ m \in 1..Len(c) /\ n \in 1..Len(a) /\ n \in 1..Len(c)
      /\ a[m] \in Bit /\ c[m] \in Bit /\ b[m] \in Bit /\ c[n] \in Bit /\ b[n] \in Bit
  <2>1. m \in 1..Len(a) /\ m \in 1..Len(c) /\ n \in 1..Len(a) /\ n \in 1..Len(c)
    BY ONLY <1>1, <1>2, <1>3
  <2> QED
    BY ONLY <1>1, <2>1
<1>5. CASE n < m
  <2>1. n \in 1..(m - 1) /\ n \in 1..(Len(a) - 1)
    BY ONLY <1>1, <1>4, <1>5
  <2>2. c[n] = b[n]
    BY ONLY <1>1, <1>2, <2>1
  <2> QED
    BY ONLY <1>3, <1>4, <2>2 DEF Bit
<1>6. CASE n = m
  BY ONLY <1>2, <1>3, <1>4, <1>6 DEF Bit
<1>7. CASE m < n
  <2>1. m \in 1..(n - 1) /\ m \in 1..(Len(a) - 1)
    BY ONLY <1>1, <1>4, <1>7
  <2>2. c[m] = b[m] /\ a[m] = b[m]
    BY ONLY <1>1, <1>3, <2>1
  <2> QED
    BY ONLY <1>2, <1>4, <2>2 DEF Bit
<1> QED
  BY ONLY <1>4, <1>5, <1>6, <1>7

\* A concatenation is in order when its parts are and the first part is to
\* the left of the second.
AllLeft(s, t) == \A a \in Range(s), b \in Range(t) : LeftOf(a, b)

LEMMA ConcatInOrder ==
    ASSUME NEW s \in Seq(Region), NEW t \in Seq(Region)
    PROVE  InOrder(s \o t) <=> InOrder(s) /\ InOrder(t) /\ AllLeft(s, t)
<1>1. /\ Len(s) \in Nat /\ Len(t) \in Nat
      /\ DOMAIN s = 1..Len(s) /\ DOMAIN t = 1..Len(t)
      /\ DOMAIN (s \o t) = 1..(Len(s) + Len(t))
      /\ \A n \in 1..Len(s) : (s \o t)[n] = s[n]
      /\ \A n \in 1..Len(t) : (s \o t)[Len(s) + n] = t[n]
  OBVIOUS
<1>2. ASSUME InOrder(s \o t)
      PROVE  InOrder(s) /\ InOrder(t) /\ AllLeft(s, t)
  <2>1. InOrder(s)
    BY <1>1, <1>2 DEF InOrder
  <2>2. ASSUME NEW j \in DOMAIN t, NEW k \in DOMAIN t, j < k
        PROVE  LeftOf(t[j], t[k])
    <3>1. /\ Len(s) + j \in DOMAIN (s \o t) /\ Len(s) + k \in DOMAIN (s \o t)
          /\ Len(s) + j < Len(s) + k
      BY <1>1, <2>2
    <3> QED
      BY <1>1, <1>2, <3>1 DEF InOrder
  <2>3. ASSUME NEW j \in DOMAIN s, NEW k \in DOMAIN t
        PROVE  LeftOf(s[j], t[k])
    <3>1. /\ j \in DOMAIN (s \o t) /\ Len(s) + k \in DOMAIN (s \o t)
          /\ j < Len(s) + k
      BY <1>1, <2>3
    <3> QED
      BY <1>1, <1>2, <3>1 DEF InOrder
  <2> QED
    BY <2>1, <2>2, <2>3 DEF InOrder, AllLeft, Range
<1>3. ASSUME InOrder(s), InOrder(t), AllLeft(s, t),
             NEW j \in DOMAIN (s \o t), NEW k \in DOMAIN (s \o t), j < k
      PROVE  LeftOf((s \o t)[j], (s \o t)[k])
  <2>1. ASSUME NEW n \in DOMAIN (s \o t)
        PROVE  \/ n \in DOMAIN s /\ (s \o t)[n] = s[n]
               \/ n - Len(s) \in DOMAIN t /\ (s \o t)[n] = t[n - Len(s)]
    <3>1. n \in 1..Len(s) \/ n - Len(s) \in 1..Len(t)
      BY <1>1
    <3>2. n = Len(s) + (n - Len(s))
      BY <1>1
    <3> QED
      BY <1>1, <3>1, <3>2
  <2>2. ASSUME NEW m \in DOMAIN s, NEW n \in DOMAIN t
        PROVE  LeftOf(s[m], t[n])
    BY <1>3 DEF AllLeft, Range
  <2>3. j - Len(s) < k - Len(s)
    BY <1>1, <1>3
  <2>4. CASE j \in DOMAIN s
    BY <1>3, <2>1, <2>2, <2>4 DEF InOrder
  <2>5. CASE j \notin DOMAIN s
    <3>1. k \notin DOMAIN s
      BY <1>1, <1>3, <2>5
    <3> QED
      BY <1>3, <2>1, <2>3, <2>5, <3>1 DEF InOrder
  <2> QED
    BY <2>4, <2>5
<1> QED
  BY <1>2, <1>3 DEF InOrder

SortedZs == pc \in {"merge", "done"} => InOrder(zs)

\* Sorting puts the z-values in order.
LEMMA SortOrders ==
    ASSUME IInv, Sort
    PROVE  SortedZs'
<1> DEFINE S == DOMAIN zs
<1>1. PICK p \in Bijection(S, S) : zs' = [n \in S |-> zs[p[n]]] /\ Ascending(zs')
  BY DEF Sort
<1>2. zs \in Seq(Region) /\ AllApart(zs)
  BY LiveIsZs DEF Sort
<1>3. p \in [S -> S] /\ \A m, n \in S : m # n => p[m] # p[n]
  BY <1>1 DEF Bijection, Injection, IsInjective
<1>4. S = 1..Len(zs) /\ Len(zs) \in Nat /\ \A n \in S : zs[n] \in Region
  BY <1>2
<1>5. DOMAIN zs' = S /\ \A n \in S : zs'[n] = zs[p[n]]
  BY <1>1
<1>6. zs' \in Seq(Region)
  BY <1>1, <1>3, <1>4
<1>7. AllApart(zs')
  BY <1>2, <1>3, <1>5 DEF AllApart
<1> QED
  BY <1>1, <1>6, <1>7, SortedInOrder DEF SortedZs

\* Replacing two siblings by their parent keeps the order.
LEMMA MergeOrders ==
    ASSUME IInv, SortedZs, MergeSiblings
    PROVE  SortedZs'
<1>1. /\ pc = "merge" /\ queue = << >> /\ i \in Nat \ {0}
      /\ zs \in Seq(Region) /\ InOrder(zs)
  BY LiveIsZs DEF IInv, TypeOK, CallState, MergeSiblings, Merging, SortedZs
<1>2. i \in 1..(Len(zs) - 1)
  BY <1>1 DEF MergeSiblings, Merging
<1> DEFINE a == zs[i]
           b == zs[i + 1]
           L == SubSeq(zs, 1, i - 1)
           R == SubSeq(zs, i + 2, Len(zs))
           pair == <<a, b>>
           one == <<Parent(a)>>
<1>3. /\ L \in Seq(Region) /\ R \in Seq(Region)
      /\ a \in Region /\ b \in Region
      /\ zs = L \o (pair \o R)
  BY <1>1, <1>2, AroundPair
<1>4. zs' = L \o one \o R
  BY DEF MergeSiblings
<1>5. SiblingOf(a, b)
  BY DEF MergeSiblings
<1> HIDE DEF a, b, L, R
<1>6. Parent(a) \in Region
  BY <1>3, ParentType
<1>7. /\ pair \in Seq(Region) /\ Range(pair) = {a, b}
      /\ one \in Seq(Region) /\ Range(one) = {Parent(a)}
      /\ InOrder(one)
  BY <1>3, <1>6 DEF Range, InOrder
<1> HIDE DEF pair, one
<1>8. pair \o R \in Seq(Region) /\ Range(pair \o R) = {a, b} \cup Range(R)
  BY ONLY <1>3, <1>7, ConcatRange
<1>9. L \o one \in Seq(Region) /\ Range(L \o one) = Range(L) \cup {Parent(a)}
  BY ONLY <1>3, <1>7, ConcatRange
<1>10. InOrder(L) /\ InOrder(pair \o R) /\ AllLeft(L, pair \o R)
  BY ONLY <1>1, <1>3, <1>8, ConcatInOrder
<1>11. InOrder(R) /\ AllLeft(pair, R)
  BY ONLY <1>3, <1>7, <1>10, ConcatInOrder
<1>12. /\ \A x \in Range(L) : x \in Region /\ LeftOf(x, a) /\ LeftOf(x, b)
       /\ \A x \in Range(L), y \in Range(R) : LeftOf(x, y)
       /\ \A y \in Range(R) : y \in Region /\ LeftOf(a, y) /\ LeftOf(b, y)
  <2>1. (\A x \in Range(L) : x \in Region) /\ (\A y \in Range(R) : y \in Region)
    BY ONLY <1>3 DEF Range
  <2> QED
    BY ONLY <1>7, <1>8, <1>10, <1>11, <2>1 DEF AllLeft
<1>13. /\ \A x \in Range(L) : LeftOf(x, Parent(a))
       /\ \A y \in Range(R) : LeftOf(Parent(a), y)
  BY ONLY <1>3, <1>5, <1>12, ParentKeepsOrder
<1>14. InOrder(L \o one)
  <2>1. AllLeft(L, one)
    BY ONLY <1>7, <1>13 DEF AllLeft
  <2> QED
    BY ONLY <1>3, <1>7, <1>10, <2>1, ConcatInOrder
<1>15. InOrder((L \o one) \o R)
  <2>1. AllLeft(L \o one, R)
    BY ONLY <1>9, <1>12, <1>13 DEF AllLeft
  <2> QED
    BY ONLY <1>3, <1>9, <1>11, <1>14, <2>1, ConcatInOrder
<1> QED
  BY <1>4, <1>15 DEF SortedZs

\* Siblings stay neighbours from the sort to the end of the call.
THEOREM SiblingsStayAdjacent == Spec => []SiblingsAdjacent
<1>1. Init => SortedZs
  BY DEF Init, SortedZs
<1>2. ASSUME IInv, SortedZs, [Next]_vars
      PROVE  SortedZs'
  <2>1. CASE Sort
    BY <1>2, <2>1, SortOrders
  <2>2. CASE MergeSiblings
    BY <1>2, <2>2, MergeOrders
  <2>3. CASE KeepPair \/ EndPass
    BY <1>2, <2>3 DEF KeepPair, EndPass, Merging, SortedZs
  <2>4. CASE UNCHANGED vars
    BY <1>2, <2>4 DEF vars, SortedZs
  <2>5. CASE \/ Up \/ StartQueue
             \/ \E o \in Objects, m \in MaxZs : Decompose(o, m)
    BY <2>5 DEF Up, StartQueue, Decompose, SortedZs
  <2>6. CASE \/ EmitPoint \/ EmitWhole \/ SplitBoth \/ Coarsen
             \/ \E b \in Bit : DropHalf(b) \/ EmitHalf(b)
    <3>1. pc' = "split"
      BY <2>6 DEF EmitPoint, EmitWhole, SplitBoth, Coarsen, DropHalf, EmitHalf, Taking, Divide
    <3> QED
      BY <3>1 DEF SortedZs
  <2> QED
    BY <2>1, <2>2, <2>3, <2>4, <2>5, <2>6, <1>2 DEF Next, Step
<1>3. IInv /\ SortedZs => SiblingsAdjacent
  <2> SUFFICES ASSUME IInv, SortedZs, pc \in {"merge", "done"},
                      NEW j \in DOMAIN zs, NEW k \in DOMAIN zs,
                      j < k, SiblingOf(zs[j], zs[k]), k # j + 1
               PROVE  FALSE
    BY DEF SiblingsAdjacent
  <2>1. zs \in Seq(Region) /\ InOrder(zs)
    BY DEF IInv, TypeOK, SortedZs
  <2>2. j + 1 \in DOMAIN zs /\ j < j + 1 /\ j + 1 < k
    BY ONLY <2>1, j \in DOMAIN zs, k \in DOMAIN zs, j < k, k # j + 1
  <2>3. zs[j] \in Region /\ zs[k] \in Region /\ zs[j + 1] \in Region
    BY ONLY <2>1, <2>2, j \in DOMAIN zs, k \in DOMAIN zs
  <2>4. LeftOf(zs[j], zs[j + 1]) /\ LeftOf(zs[j + 1], zs[k])
    BY <2>1, <2>2 DEF InOrder
  <2> QED
    BY ONLY <2>3, <2>4, SiblingOf(zs[j], zs[k]), NothingBetween
<1> QED
  BY <1>1, <1>2, <1>3, Invariance, PTL DEF Spec

(***************************************************************************)
(* No siblings are left of what needed no coarsening.                      *)
(***************************************************************************)

\* A region inside the object whose sibling is not.
Alone(r) ==
    Inside(obj, r) => \A s \in Region : SiblingOf(r, s) => ~Inside(obj, s)

\* While the splitting goes on, the sibling of a region that is all inside is
\* not; at the end this is kept unless the approximation is coarser.
NoPairs ==
    /\ pc = "split" => \A r \in Range(Live) : Alone(r)
    /\ pc \in {"merge", "done"} /\ Covered = obj => \A r \in Range(Live) : Alone(r)

\* A half of a region is alone unless both halves are inside.
LEMMA HalfAlone ==
    ASSUME IInv, Taking, ~IsPoint(Front), NEW b \in Bit, ~Inside(obj, Half(1 - b))
    PROVE  Alone(Half(b))
<1> SUFFICES ASSUME NEW s \in Region, SiblingOf(Half(b), s), Inside(obj, s)
             PROVE  FALSE
  BY DEF Alone
<1>1. queue \in Seq(Region) /\ queue # << >>
  BY DEF IInv, TypeOK, Taking
<1>2. Front \in Region /\ Len(Front) \in Nat /\ Len(Front) < ZBits
  BY <1>1, QueueParts, ZBitsAssumption DEF IsPoint, Region
<1>3. /\ Half(b) \in Region
      /\ \A c \in Cell : Has(Half(b), c) <=> Has(Front, c) /\ c[Len(Front) + 1] = b
  BY <1>2, ChildCells DEF Half
<1>4. 1 - b \in Bit
  BY DEF Bit
<1>5. \A c \in Cell : Has(Half(1 - b), c) <=> Has(Front, c) /\ c[Len(Front) + 1] = 1 - b
  BY <1>2, <1>4, ChildCells DEF Half
<1> DEFINE m == Len(Front) + 1
<1>6. /\ Len(Half(b)) = m /\ Half(b)[m] = b
      /\ \A k \in 1..(m - 1) : Half(b)[k] = Front[k]
  BY <1>2 DEF Half, Child, Region
<1>7. /\ Len(s) = m /\ s[m] # b /\ s[m] \in Bit
      /\ \A k \in 1..(m - 1) : s[k] = Front[k]
  <2>1. Len(s) = m /\ s[m] # b /\ \A k \in 1..(m - 1) : s[k] = Front[k]
    BY <1>6 DEF SiblingOf
  <2>2. s[m] \in Bit
    BY <1>2, <2>1 DEF Region
  <2> QED
    BY <2>1, <2>2
<1>8. s[m] = 1 - b
  BY ONLY <1>7, b \in Bit DEF Bit
<1>9. \A c \in Cell : Has(Half(1 - b), c) => Has(s, c)
  <2> SUFFICES ASSUME NEW c \in Cell, Has(Half(1 - b), c)
               PROVE  Has(s, c)
    OBVIOUS
  <2>1. Has(Front, c) /\ c[m] = 1 - b
    BY <1>5
  <2>2. \A k \in 1..m : k \in 1..(m - 1) \/ k = m
    BY ONLY <1>2
  <2>3. 1..(m - 1) = 1..Len(Front)
    BY ONLY <1>2
  <2> HIDE DEF m
  <2> QED
    BY ONLY <1>7, <1>8, <2>1, <2>2, <2>3 DEF Has
<1> QED
  BY <1>9 DEF Inside, Cells

\* The sibling of the enclosing region is outside the object.
LEMMA EnclosingAlone ==
    ASSUME NEW r \in Region, ContainedBy(obj, r)
    PROVE  Alone(r)
<1> SUFFICES ASSUME NEW s \in Region, SiblingOf(r, s), Inside(obj, s)
             PROVE  FALSE
  BY DEF Alone
<1>1. PICK c \in Cell : Has(s, c) /\ Has(r, c)
  BY RegionNotEmpty DEF Inside, ContainedBy, Cells
<1>2. /\ Len(r) \in Nat /\ Len(r) > 0 /\ Len(s) = Len(r) /\ r[Len(r)] # s[Len(s)]
  BY DEF SiblingOf, Region
<1>3. Len(r) \in 1..Len(r) /\ Len(s) \in 1..Len(s)
  BY ONLY <1>2
<1> QED
  BY ONLY <1>1, <1>2, <1>3 DEF Has

\* A division keeps the property when the new regions have it.
LEMMA DivisionAlone ==
    ASSUME IInv, IInv', NoPairs, Taking,
           NEW em \in Seq(Region), NEW qd \in Seq(Region), Divide(em, qd),
           \A r \in Range(em) \cup Range(qd) : Alone(r)
    PROVE  NoPairs'
<1>1. /\ pc = "split" /\ pc' = "split" /\ obj' = obj
      /\ zs' = zs \o em /\ queue' = Tail(queue) \o qd
      /\ zs \in Seq(Region) /\ queue \in Seq(Region) /\ queue # << >>
  BY DEF Taking, Divide, IInv, TypeOK
<1>2. Tail(queue) \in Seq(Region) /\ Range(queue) = {Front} \cup Range(Tail(queue))
  BY ONLY <1>1, QueueParts
<1>3. Range(zs') = Range(zs) \cup Range(em)
  BY ONLY <1>1, em \in Seq(Region), ConcatRange
<1>4. Range(queue') = Range(Tail(queue)) \cup Range(qd)
  <2> DEFINE rest == Tail(queue)
  <2>1. rest \in Seq(Region) /\ queue' = rest \o qd
    BY ONLY <1>1, <1>2
  <2> HIDE DEF rest
  <2>2. Range(queue') = Range(rest) \cup Range(qd)
    BY ONLY <2>1, qd \in Seq(Region), ConcatRange
  <2> QED
    BY ONLY <2>2 DEF rest
<1>5. /\ Range(Live) = Range(zs) \cup Range(queue)
      /\ Range(Live') = Range(zs') \cup Range(queue')
  BY LiveParts, LivePartsAfter DEF IInv
<1>6. \A r \in Range(Live') : Alone(r)
  BY <1>1, <1>2, <1>3, <1>4, <1>5 DEF NoPairs
<1> QED
  BY <1>1, <1>6 DEF NoPairs, Alone

\* The splitting loop emits and queues no two siblings that are both inside.
LEMMA SplitAlone ==
    ASSUME IInv, IInv', NoPairs,
           \/ EmitPoint \/ EmitWhole \/ SplitBoth \/ Coarsen
           \/ \E b \in Bit : DropHalf(b) \/ EmitHalf(b)
    PROVE  NoPairs'
<1>1. Taking /\ queue \in Seq(Region) /\ queue # << >>
  BY DEF EmitPoint, EmitWhole, SplitBoth, Coarsen, DropHalf, EmitHalf, Taking, IInv, TypeOK
<1>2. Front \in Region /\ Alone(Front)
  BY <1>1, QueueParts, LiveParts DEF IInv, NoPairs, Taking
<1>3. << >> \in Seq(Region) /\ Range(<< >>) = {}
  BY <1>2, ShortSequences
<1>4. \A a \in Region : <<a>> \in Seq(Region) /\ Range(<<a>>) = {a}
  BY ShortSequences
<1>5. CASE EmitPoint \/ EmitWhole \/ Coarsen
  <2>1. Divide(<<Front>>, << >>)
    BY <1>5 DEF EmitPoint, EmitWhole, Coarsen
  <2> QED
    BY <1>1, <1>2, <1>3, <1>4, <2>1, DivisionAlone
<1>6. CASE SplitBoth
  <2> DEFINE x == Half(1)
             y == Half(0)
             both == <<x, y>>
  <2>1. x \in Region /\ y \in Region /\ Divide(<< >>, both)
    BY <1>6, Halves DEF SplitBoth, Bit
  <2>2. Alone(x) /\ Alone(y)
    BY <1>6 DEF SplitBoth, Overlaps, Alone, Bit
  <2> HIDE DEF x, y
  <2>3. both \in Seq(Region) /\ Range(both) = {x, y}
    BY <2>1 DEF Range
  <2> HIDE DEF both
  <2> QED
    BY <1>1, <1>3, <2>1, <2>2, <2>3, DivisionAlone
<1>7. ASSUME NEW b \in Bit, DropHalf(b)
      PROVE  NoPairs'
  <2>1. Half(b) \in Region /\ Half(1 - b) \in Region /\ ~IsPoint(Front)
    BY <1>7, Halves DEF DropHalf, Bit
  <2>2. ~Inside(obj, Half(1 - b))
    BY <1>7, <2>1, RegionNotEmpty DEF DropHalf, Outside, Inside
  <2>3. Alone(Half(b))
    BY <1>1, <2>1, <2>2, HalfAlone
  <2> DEFINE x == Half(b)
             one == <<x>>
  <2>4. one \in Seq(Region) /\ Range(one) = {x}
    BY <1>4, <2>1
  <2>5. CASE Divide(one, << >>)
    <3> HIDE DEF x, one
    <3> QED
      BY <1>1, <1>3, <2>3, <2>4, <2>5, DivisionAlone DEF x
  <2>6. CASE Divide(<< >>, one)
    <3> HIDE DEF x, one
    <3> QED
      BY <1>1, <1>3, <2>3, <2>4, <2>6, DivisionAlone DEF x
  <2> QED
    BY <1>7, <2>5, <2>6 DEF DropHalf
<1>8. ASSUME NEW b \in Bit, EmitHalf(b)
      PROVE  NoPairs'
  <2>1. /\ Half(b) \in Region /\ Half(1 - b) \in Region /\ ~IsPoint(Front)
        /\ Divide(<<Half(b)>>, <<Half(1 - b)>>)
    BY <1>8, Halves DEF EmitHalf, Bit
  <2>2. ~Inside(obj, Half(1 - b))
    BY <1>8 DEF EmitHalf, Overlaps
  <2>3. Alone(Half(b)) /\ Alone(Half(1 - b))
    BY <1>1, <2>1, <2>2, HalfAlone DEF Alone
  <2> QED
    BY <1>1, <1>4, <2>1, <2>3, DivisionAlone
<1> QED
  BY <1>5, <1>6, <1>7, <1>8

\* Sorting changes no region.
LEMMA SortAlone ==
    ASSUME IInv, IInv', NoPairs, Sort
    PROVE  NoPairs'
<1> DEFINE S == DOMAIN zs
<1>1. PICK p \in Bijection(S, S) : zs' = [n \in S |-> zs[p[n]]]
  BY DEF Sort
<1>2. pc = "split" /\ pc' = "merge" /\ queue = << >> /\ queue' = << >> /\ obj' = obj
  BY DEF Sort
<1>3. p \in [S -> S]
  BY <1>1 DEF Bijection, Injection
<1>4. DOMAIN zs' = S /\ \A n \in S : zs'[n] = zs[p[n]]
  BY <1>1
<1>5. Range(zs') \subseteq Range(zs)
  BY <1>3, <1>4 DEF Range
<1>6. Range(queue') = {}
  BY <1>2 DEF Range
<1>7. Range(Live) = Range(zs) /\ Range(Live') = Range(zs')
  BY <1>2, <1>6, LiveIsZs, LivePartsAfter DEF IInv
<1> QED
  BY <1>2, <1>5, <1>7 DEF NoPairs, Alone

\* When exactly the object is covered, no two z-values are siblings.
LEMMA NoSiblings ==
    ASSUME IInv, NoPairs, pc \in {"merge", "done"}, Covered = obj,
           NEW r \in Range(zs), NEW s \in Range(zs)
    PROVE  ~SiblingOf(r, s)
<1>1. queue = << >> /\ zs \in Seq(Region)
  BY DEF IInv, CallState, TypeOK
<1>2. Range(Live) = Range(zs) /\ r \in Region /\ s \in Region
  <2>1. Range(Live) = Range(zs)
    BY <1>1, LiveIsZs
  <2>2. r \in Region /\ s \in Region
    BY ONLY <1>1, r \in Range(zs), s \in Range(zs) DEF Range
  <2> QED
    BY <2>1, <2>2
<1>3. Inside(obj, r) /\ Inside(obj, s)
  BY <1>2 DEF Inside, Covered
<1> QED
  BY <1>2, <1>3 DEF NoPairs, Alone

\* An approximation that needed no coarsening cannot be merged further.
THEOREM ExactIsSmallest == Spec => []ExactIsMinimal
<1>1. Init => NoPairs
  BY DEF Init, NoPairs
<1>2. ASSUME IInv, NoPairs, [Next]_vars
      PROVE  NoPairs'
  <2>0. IInv' /\ (pc = "merge" => Covered' = Covered)
    BY <1>2, NextStep
  <2>1. CASE Sort
    BY <1>2, <2>0, <2>1, SortAlone
  <2>2. CASE MergeSiblings
    <3>1. /\ pc = "merge" /\ pc' = "merge" /\ obj' = obj /\ queue = << >>
          /\ zs \in Seq(Region) /\ i \in Nat \ {0} /\ i < Len(zs)
          /\ SiblingOf(zs[i], zs[i + 1])
      BY <1>2, <2>2 DEF MergeSiblings, Merging, IInv, TypeOK, CallState
    <3>2. i \in DOMAIN zs /\ i + 1 \in DOMAIN zs
      BY ONLY <3>1
    <3>3. zs[i] \in Range(zs) /\ zs[i + 1] \in Range(zs)
      BY ONLY <3>2 DEF Range
    <3>4. Covered # obj
      BY <1>2, <3>1, <3>3, NoSiblings
    <3> QED
      BY <2>0, <3>1, <3>4 DEF NoPairs
  <2>3. CASE KeepPair \/ EndPass
    <3>1. /\ pc = "merge" /\ pc' \in {"merge", "done"}
          /\ obj' = obj /\ zs' = zs /\ queue' = queue
      BY <2>3 DEF KeepPair, EndPass, Merging
    <3>2. Live' = Live /\ Covered' = Covered
      BY <3>1 DEF Live, Covered
    <3> QED
      BY <1>2, <3>1, <3>2 DEF NoPairs, Alone
  <2>4. CASE UNCHANGED vars
    <3>1. pc' = pc /\ obj' = obj /\ zs' = zs /\ queue' = queue
      BY <2>4 DEF vars
    <3>2. Live' = Live /\ Covered' = Covered
      BY <3>1 DEF Live, Covered
    <3> QED
      BY <1>2, <3>1, <3>2 DEF NoPairs, Alone
  <2>5. CASE Up \/ \E o \in Objects, m \in MaxZs : Decompose(o, m)
    BY <2>5 DEF Up, Decompose, NoPairs
  <2>6. CASE StartQueue
    <3>1. /\ pc' = "split" /\ obj' = obj /\ zs' = << >> /\ queue' = <<region>>
          /\ region \in Region /\ ContainedBy(obj, region)
      BY <1>2, <2>6 DEF StartQueue, IInv, TypeOK, CallState
    <3>2. Range(zs') = {} /\ Range(queue') = {region}
      BY <3>1, ShortSequences
    <3>3. Range(Live') = {region}
      BY <2>0, <3>2, LivePartsAfter DEF IInv
    <3>4. Alone(region)
      BY <3>1, EnclosingAlone
    <3> QED
      BY <3>1, <3>3, <3>4 DEF NoPairs, Alone
  <2>7. CASE \/ EmitPoint \/ EmitWhole \/ SplitBoth \/ Coarsen
             \/ \E b \in Bit : DropHalf(b) \/ EmitHalf(b)
    BY <1>2, <2>0, <2>7, SplitAlone
  <2> QED
    BY <1>2, <2>1, <2>2, <2>3, <2>4, <2>5, <2>6, <2>7 DEF Next, Step
<1>3. IInv /\ NoPairs => ExactIsMinimal
  <2> SUFFICES ASSUME IInv, NoPairs, pc = "done", Covered = obj,
                      NEW j \in DOMAIN zs, NEW k \in DOMAIN zs
               PROVE  ~SiblingOf(zs[j], zs[k])
    BY DEF ExactIsMinimal
  <2>1. zs[j] \in Range(zs) /\ zs[k] \in Range(zs)
    BY DEF Range
  <2> QED
    BY <2>1, NoSiblings
<1> QED
  BY <1>1, <1>2, <1>3, Invariance, PTL DEF Spec
=============================================================================
