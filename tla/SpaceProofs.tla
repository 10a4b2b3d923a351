---------------------------- MODULE SpaceProofs ----------------------------
(***************************************************************************)
(* Proofs about class Space.                                               *)
(*                                                                         *)
(* Space::decompose, as modules BoxRegion and SpaceDecompose describe it.  *)
(* The regions: moving one down and up in place keeps it aligned, for      *)
(* every space, and what a box answers about an aligned region is what its *)
(* set of cells answers about the region's z-value.  Then the call: every  *)
(* Region object that it holds is an aligned region of the space, no two   *)
(* places of the queue hold the same one, the pool's flags tell exactly    *)
(* which ones the call holds, and every step is one of module              *)
(* Decomposition.                                                          *)
(*                                                                         *)
(* The constructor and the z-values of points, as module SpaceGrid         *)
(* describes them: the default interleaving takes turns and is never       *)
(* rejected, the tables of masks interleave bit by bit, and the grid keeps *)
(* the order of the coordinates.                                           *)
(***************************************************************************)
EXTENDS SpaceDecompose, SpaceGrid, Numbers, SequenceTheorems, TLAPS

-----------------------------------------------------------------------------
\* How many halvings of a dimension are left at a level.
Left(d, level) == Cardinality({n \in (level + 1)..ZBits : Interleaving[n] = d})

LEMMA ZBitsIsPositive == ZBits \in Nat \ {0}
<1>1. Interleaving \in Seq(Dims) /\ Interleaving # << >>
  BY InterleavingAssumption
<1>2. Len(Interleaving) \in Nat \ {0}
  BY <1>1
<1> QED
  BY <1>2 DEF ZBits

\* None at the last level, all of them at level 0, and one less a level down
\* if that halving is of the dimension.
LEMMA LeftFacts ==
    ASSUME NEW d, NEW l \in 0..ZBits
    PROVE  /\ XBits(d) \in Nat /\ Left(d, 0) = XBits(d)
           /\ Left(d, l) \in 0..XBits(d)
           /\ Left(d, ZBits) = 0
           /\ l < ZBits => Left(d, l) =
                  IF Interleaving[l + 1] = d THEN Left(d, l + 1) + 1 ELSE Left(d, l + 1)
<1> DEFINE S(k) == {n \in (k + 1)..ZBits : Interleaving[n] = d}
<1>1. ZBits \in Nat
  BY ZBitsIsPositive
<1>2. \A k \in 0..ZBits : IsFiniteSet(S(k)) /\ Cardinality(S(k)) \in Nat
  <2> SUFFICES ASSUME NEW k \in 0..ZBits
               PROVE  IsFiniteSet(S(k)) /\ Cardinality(S(k)) \in Nat
    OBVIOUS
  <2>1. IsFiniteSet((k + 1)..ZBits)
    BY <1>1, FS_Interval
  <2>2. S(k) \subseteq (k + 1)..ZBits
    OBVIOUS
  <2> QED
    BY <2>1, <2>2, FS_Subset, FS_CardinalityType
<1>3. Left(d, 0) = XBits(d)
  BY DEF Left, XBits
<1>4. Left(d, l) <= Left(d, 0)
  <2>1. S(l) \subseteq S(0)
    OBVIOUS
  <2> HIDE DEF S
  <2>2. Cardinality(S(l)) <= Cardinality(S(0))
    BY <1>1, <1>2, <2>1, FS_Subset
  <2> QED
    BY <2>2 DEF Left, S
<1>5. S(ZBits) = {}
  BY <1>1
<1>6. Left(d, ZBits) = 0
  BY <1>5, FS_EmptySet DEF Left
<1>7. ASSUME l < ZBits, Interleaving[l + 1] = d
      PROVE  Left(d, l) = Left(d, l + 1) + 1
  <2>1. S(l) = S(l + 1) \cup {l + 1} /\ l + 1 \notin S(l + 1) /\ l + 1 \in 0..ZBits
    BY <1>1, <1>7
  <2>2. IsFiniteSet(S(l + 1))
    BY <1>2, <2>1
  <2> HIDE DEF S
  <2>3. Cardinality(S(l)) = Cardinality(S(l + 1)) + 1
    BY <2>1, <2>2, FS_AddElement
  <2> QED
    BY <2>3 DEF Left, S
<1>8. ASSUME l < ZBits, Interleaving[l + 1] # d
      PROVE  Left(d, l) = Left(d, l + 1)
  <2>1. S(l) = S(l + 1)
    BY <1>1, <1>8
  <2> QED
    BY <2>1 DEF Left
<1>9. Left(d, l) \in Nat /\ XBits(d) \in Nat
  <2>1. l \in 0..ZBits /\ 0 \in 0..ZBits
    BY <1>1
  <2> QED
    BY <1>2, <1>3, <2>1 DEF Left
<1> QED
  BY <1>3, <1>4, <1>6, <1>7, <1>8, <1>9

-----------------------------------------------------------------------------
\* An aligned interval of 2^k integers.
Side(lo, hi, k) == \E q \in Nat : lo = 2^k * q /\ hi = 2^k * q + 2^k - 1

\* The lower half of an aligned interval is what clearing the highest bit
\* that varies in it leaves of its high end, the upper half what setting it
\* leaves of its low end.
LEMMA SplitSide ==
    ASSUME NEW k \in Nat, NEW lo, NEW hi, Side(lo, hi, k + 1)
    PROVE  /\ lo \in Nat /\ hi \in Nat
           /\ ClearBit(hi, k) \in Nat /\ SetBit(lo, k) \in Nat
           /\ lo <= ClearBit(hi, k) /\ ClearBit(hi, k) < SetBit(lo, k) /\ SetBit(lo, k) <= hi
           /\ ClearBit(hi, k) + 1 = SetBit(lo, k)
           /\ Side(lo, ClearBit(hi, k), k)
           /\ Side(SetBit(lo, k), hi, k)
           /\ ClearBit(lo, k) = lo /\ SetBit(ClearBit(hi, k), k) = hi
           /\ ClearBit(SetBit(lo, k), k) = lo /\ SetBit(hi, k) = hi
           /\ BitAt(lo, k) = 0 /\ BitAt(SetBit(lo, k), k) = 1
<1> DEFINE P == 2^k
<1>1. P \in Nat \ {0} /\ 2^(k + 1) = 2 * P
  BY DoublePower
<1>2. PICK q \in Nat : lo = 2^(k + 1) * q /\ hi = 2^(k + 1) * q + 2^(k + 1) - 1
  BY DEF Side
<1>3. Side(lo, ClearBit(hi, k), k) <=>
          \E n \in Nat : lo = P * n /\ hi - ((hi \div P) % 2) * P = P * n + P - 1
  BY DEF Side, ClearBit, BitAt
<1>4. Side(SetBit(lo, k), hi, k) <=>
          \E n \in Nat : lo + (1 - ((lo \div P) % 2)) * P = P * n /\ hi = P * n + P - 1
  BY DEF Side, SetBit, BitAt
<1>5. \A x : /\ ClearBit(x, k) = x - ((x \div P) % 2) * P
            /\ SetBit(x, k) = x + (1 - ((x \div P) % 2)) * P
  BY DEF ClearBit, SetBit, BitAt
<1> HIDE DEF P
<1> DEFINE a == P * q
<1>6. a \in Nat
  BY <1>1
<1>7. lo = a + a /\ hi = a + a + P + P - 1
  <2>1. (2 * P) * q = a + a
    BY <1>1, Z3
  <2> QED
    BY ONLY <1>1, <1>2, <1>6, <2>1
<1>8. P * (2 * q) = a + a /\ P * (2 * q + 1) = a + a + P
  BY <1>1, Z3
<1> HIDE DEF a
<1>9. lo \in Nat /\ hi \in Nat
  BY <1>1, <1>6, <1>7
<1>10. lo \div P = 2 * q
  <2> DEFINE h == 2 * q
  <2>1. h \in Nat /\ P * h <= lo /\ lo < P * h + P
    BY <1>1, <1>6, <1>7, <1>8
  <2> HIDE DEF h
  <2> QED
    BY <1>1, <1>9, <2>1, QuotientIs DEF h
<1>11. hi \div P = 2 * q + 1
  <2> DEFINE h == 2 * q + 1
  <2>1. h \in Nat /\ P * h <= hi /\ hi < P * h + P
    BY <1>1, <1>6, <1>7, <1>8
  <2> HIDE DEF h
  <2> QED
    BY <1>1, <1>9, <2>1, QuotientIs DEF h
<1>12. (2 * q) % 2 = 0 /\ (2 * q + 1) % 2 = 1
  OBVIOUS
<1>13. ClearBit(hi, k) = a + a + P - 1 /\ SetBit(lo, k) = a + a + P
  <2>1. ClearBit(hi, k) = hi - 1 * P
    BY <1>5, <1>11, <1>12
  <2>2. SetBit(lo, k) = lo + (1 - 0) * P
    BY <1>5, <1>10, <1>12
  <2> QED
    BY <1>1, <1>6, <1>7, <2>1, <2>2
<1>14. Side(lo, ClearBit(hi, k), k)
  <2>1. 2 * q \in Nat /\ lo = P * (2 * q) /\ ClearBit(hi, k) = P * (2 * q) + P - 1
    BY <1>1, <1>6, <1>7, <1>8, <1>13
  <2> QED
    BY <2>1 DEF Side, P
<1>15. Side(SetBit(lo, k), hi, k)
  <2>1. /\ 2 * q + 1 \in Nat /\ SetBit(lo, k) = P * (2 * q + 1)
        /\ hi = P * (2 * q + 1) + P - 1
    BY <1>1, <1>6, <1>7, <1>8, <1>13
  <2> QED
    BY <2>1 DEF Side, P
<1>16. /\ ClearBit(hi, k) \in Nat /\ SetBit(lo, k) \in Nat
       /\ lo <= ClearBit(hi, k) /\ ClearBit(hi, k) < SetBit(lo, k) /\ SetBit(lo, k) <= hi
       /\ ClearBit(hi, k) + 1 = SetBit(lo, k)
  BY ONLY <1>1, <1>6, <1>7, <1>13
<1>17. (a + a + P - 1) \div P = 2 * q /\ (a + a + P) \div P = 2 * q + 1
  <2> DEFINE m == a + a + P - 1
             n == a + a + P
             h == 2 * q
             g == 2 * q + 1
  <2>1. /\ h \in Nat /\ m \in Nat /\ P * h <= m /\ m < P * h + P
        /\ g \in Nat /\ n \in Nat /\ P * g <= n /\ n < P * g + P
    BY <1>1, <1>6, <1>8
  <2> HIDE DEF m, n, h, g
  <2>2. m \div P = h /\ n \div P = g
    BY <1>1, <2>1, QuotientIs
  <2> QED
    BY <2>2 DEF m, n, h, g
<1>18. /\ ClearBit(lo, k) = lo - 0 * P /\ SetBit(hi, k) = hi + (1 - 1) * P
       /\ SetBit(a + a + P - 1, k) = (a + a + P - 1) + (1 - 0) * P
       /\ ClearBit(a + a + P, k) = (a + a + P) - 1 * P
  BY <1>5, <1>10, <1>11, <1>12, <1>17
<1>19. /\ ClearBit(lo, k) = lo /\ SetBit(ClearBit(hi, k), k) = hi
       /\ ClearBit(SetBit(lo, k), k) = lo /\ SetBit(hi, k) = hi
  BY ONLY <1>1, <1>6, <1>7, <1>9, <1>13, <1>18
<1>20. BitAt(lo, k) = 0 /\ BitAt(SetBit(lo, k), k) = 1
  <2>1. \A x : BitAt(x, k) = (x \div P) % 2
    BY DEF BitAt, P
  <2> QED
    BY ONLY <1>10, <1>12, <1>13, <1>17, <2>1
<1> QED
  BY ONLY <1>9, <1>14, <1>15, <1>16, <1>19, <1>20

\* Clearing and setting the next higher bit restores the interval of which
\* an aligned one is a half.
LEMMA JoinSide ==
    ASSUME NEW k \in Nat, NEW lo, NEW hi, Side(lo, hi, k)
    PROVE  /\ lo \in Nat /\ hi \in Nat /\ lo <= hi
           /\ ClearBit(lo, k) \in Nat /\ SetBit(hi, k) \in Nat
           /\ ClearBit(lo, k) <= lo /\ hi <= SetBit(hi, k)
           /\ Side(ClearBit(lo, k), SetBit(hi, k), k + 1)
<1> DEFINE P == 2^k
<1>1. P \in Nat \ {0} /\ 2^(k + 1) = 2 * P
  BY DoublePower
<1>2. PICK q \in Nat : lo = P * q /\ hi = P * q + P - 1
  BY DEF Side
<1>3. /\ ClearBit(lo, k) = lo - ((lo \div P) % 2) * P
      /\ SetBit(hi, k) = hi + (1 - ((hi \div P) % 2)) * P
  BY DEF ClearBit, SetBit, BitAt
<1> HIDE DEF P
<1> DEFINE a == P * q
<1>4. a \in Nat /\ lo = a /\ hi = a + P - 1
  BY <1>1, <1>2
<1>5. lo \in Nat /\ hi \in Nat
  BY <1>1, <1>4
<1>6. lo \div P = q /\ hi \div P = q
  <2>1. P * q <= lo /\ lo < P * q + P /\ P * q <= hi /\ hi < P * q + P
    BY <1>1, <1>4
  <2> QED
    BY <1>1, <1>5, <2>1, QuotientIs
<1> HIDE DEF a
<1> DEFINE h == q \div 2
           b == q % 2
<1>7. h \in Nat /\ b \in {0, 1} /\ q = 2 * h + b
  OBVIOUS
<1>8. ClearBit(lo, k) = lo - b * P /\ SetBit(hi, k) = hi + (1 - b) * P
  BY <1>3, <1>6
<1> HIDE DEF h, b
<1> DEFINE c == (2 * P) * h
<1>9. c \in Nat /\ a = c + b * P
  BY <1>1, <1>7, Z3 DEF a
<1> HIDE DEF c
<1>10. (b * P = 0 /\ (1 - b) * P = P) \/ (b * P = P /\ (1 - b) * P = 0)
  BY <1>1, <1>7
<1>11. ClearBit(lo, k) = c /\ SetBit(hi, k) = c + 2 * P - 1
  BY <1>1, <1>4, <1>8, <1>9, <1>10
<1>12. Side(ClearBit(lo, k), SetBit(hi, k), k + 1)
  <2>1. ClearBit(lo, k) = 2^(k + 1) * h /\ SetBit(hi, k) = 2^(k + 1) * h + 2^(k + 1) - 1
    BY <1>1, <1>11 DEF c
  <2> QED
    BY <1>7, <2>1 DEF Side
<1>13. /\ lo <= hi /\ ClearBit(lo, k) \in Nat /\ SetBit(hi, k) \in Nat
       /\ ClearBit(lo, k) <= lo /\ hi <= SetBit(hi, k)
  <2>1. lo = a /\ hi = a + P - 1 /\ (a = c \/ a = c + P)
    BY ONLY <1>1, <1>4, <1>9, <1>10
  <2> QED
    BY ONLY <1>1, <1>9, <1>11, <2>1
<1> QED
  BY ONLY <1>5, <1>12, <1>13

\* A smaller power of two divides a larger one.
LEMMA PowerDivides ==
    ASSUME NEW j \in Nat, NEW k \in Nat, j <= k
    PROVE  \E m \in Nat : 2^k = 2^j * m
<1> DEFINE Bad == {n \in Nat : j <= n /\ ~\E m \in Nat : 2^n = 2^j * m}
<1>1. SUFFICES ASSUME Bad # {} PROVE FALSE
  OBVIOUS
<1>2. PICK n \in Bad : \A o \in Bad : n <= o
  BY <1>1, LeastElement
<1>3. n # j
  <2>1. 2^j = 2^j * 1
    BY DoublePower
  <2> QED
    BY <1>2, <2>1
<1> DEFINE p == n - 1
<1>4. p \in Nat /\ j <= p /\ n = p + 1 /\ p \notin Bad
  BY <1>2, <1>3
<1>5. PICK m \in Nat : 2^p = 2^j * m
  BY <1>4
<1>6. 2^n = 2 * 2^p /\ 2^j \in Nat
  BY <1>4, DoublePower
<1> DEFINE J == 2^j
<1>7. 2 * (J * m) = J * (2 * m)
  <2>1. J \in Nat
    BY <1>6
  <2> HIDE DEF J
  <2> QED
    BY <2>1, Z3
<1>8. 2^n = 2^j * (2 * m) /\ 2 * m \in Nat
  BY <1>5, <1>6, <1>7
<1> QED
  BY <1>2, <1>8

\* An aligned interval that begins below 2^x ends below it.
LEMMA SideFits ==
    ASSUME NEW k \in Nat, NEW x \in Nat, k <= x,
           NEW lo, NEW hi, Side(lo, hi, k), lo < 2^x
    PROVE  hi < 2^x
<1>1. PICK q \in Nat : lo = 2^k * q /\ hi = 2^k * q + 2^k - 1
  BY DEF Side
<1>2. PICK m \in Nat : 2^x = 2^k * m
  BY PowerDivides
<1> DEFINE P == 2^k
<1>3. P \in Nat \ {0}
  BY DoublePower
<1>4. lo = P * q /\ hi = P * q + P - 1 /\ P * q < P * m /\ 2^x = P * m
  BY <1>1, <1>2
<1> HIDE DEF P
<1>5. q + 1 <= m
  BY <1>3, <1>4, Z3
<1>6. P * (q + 1) <= P * m
  BY <1>3, <1>5, Z3
<1>7. P * (q + 1) = P * q + P
  BY <1>3, Z3
<1> DEFINE a == P * q
           b == P * m
<1>8. a \in Nat /\ b \in Nat
  BY <1>3
<1>9. hi = a + P - 1 /\ a + P <= b
  BY <1>4, <1>6, <1>7
<1> HIDE DEF a, b
<1>10. hi < b
  BY ONLY <1>3, <1>8, <1>9
<1> QED
  BY <1>4, <1>10 DEF b

-----------------------------------------------------------------------------
\* The regions of the space as the code holds them: the x bit positions are
\* those of the level, and each side is aligned accordingly.
RegionRecord == [level : 0..ZBits, lo : Point, hi : Point, xBit : [Dims -> Nat]]

Aligned(r) ==
    /\ r \in RegionRecord
    /\ \A d \in Dims : /\ r.xBit[d] = Left(d, r.level)
                       /\ Side(r.lo[d], r.hi[d], r.xBit[d])

LEMMA PointIsFunction ==
    ASSUME NEW x \in Point
    PROVE  \A d \in Dims : x[d] \in Coordinate(d) /\ x[d] \in Nat
<1>1. ASSUME NEW d \in Dims PROVE Coordinate(d) \subseteq Nat
  <2>1. XBits(d) \in Nat
    BY LeftFacts, ZBitsIsPositive
  <2>2. 2^XBits(d) \in Nat
    BY <2>1, DoublePower
  <2> QED
    BY <2>2 DEF Coordinate
<1> QED
  BY <1>1 DEF Point

LEMMA PointUpdate ==
    ASSUME NEW x \in Point, NEW d \in Dims, NEW v \in Coordinate(d)
    PROVE  /\ [x EXCEPT ![d] = v] \in Point
           /\ [x EXCEPT ![d] = v][d] = v
           /\ \A e \in Dims : e # d => [x EXCEPT ![d] = v][e] = x[e]
  BY DEF Point

LEMMA CoordinateIs ==
    ASSUME NEW d \in Dims, NEW v
    PROVE  v \in Coordinate(d) <=> v \in Nat /\ v < 2^XBits(d)
<1>1. 2^XBits(d) \in Nat
  BY LeftFacts, ZBitsIsPositive, DoublePower
<1> QED
  BY <1>1 DEF Coordinate

LEMMA PointBounds ==
    ASSUME NEW x \in Point, NEW d \in Dims
    PROVE  x[d] \in Nat /\ 2^XBits(d) \in Nat /\ x[d] < 2^XBits(d)
<1>1. XBits(d) \in Nat
  BY LeftFacts, ZBitsIsPositive
<1>2. 2^XBits(d) \in Nat
  BY <1>1, DoublePower
<1>3. x[d] \in Coordinate(d)
  BY DEF Point
<1> QED
  BY <1>2, <1>3, CoordinateIs

\* Region::initialize yields the point itself.
LEMMA InitializedAligned ==
    ASSUME NEW x \in Point
    PROVE  Aligned(Initialized(x)) /\ Initialized(x).level = ZBits
<1> DEFINE r == Initialized(x)
<1>1. r = [level |-> ZBits, lo |-> x, hi |-> x, xBit |-> [d \in Dims |-> 0]]
  BY DEF Initialized
<1>2. r \in RegionRecord
  BY <1>1, ZBitsIsPositive DEF RegionRecord
<1>3. ASSUME NEW d \in Dims
      PROVE  r.xBit[d] = Left(d, r.level) /\ Side(r.lo[d], r.hi[d], r.xBit[d])
  <2>1. r.xBit[d] = 0 /\ Left(d, r.level) = 0
    BY <1>1, LeftFacts, ZBitsIsPositive
  <2>2. x[d] \in Nat
    BY PointIsFunction
  <2>3. x[d] = 2^0 * x[d] /\ x[d] = 2^0 * x[d] + 2^0 - 1
    BY <2>2
  <2>4. Side(x[d], x[d], 0)
    BY <2>2, <2>3 DEF Side
  <2> QED
    BY <1>1, <2>1, <2>4
<1> QED
  BY <1>1, <1>2, <1>3 DEF Aligned

\* A region after its level, its bit position and its bounds are set.
LEMMA Fields ==
    ASSUME NEW L, NEW A, NEW B, NEW X, NEW l, NEW a, NEW b, NEW x, NEW r,
           r = [level |-> L, lo |-> A, hi |-> B, xBit |-> X]
    PROVE  /\ [[[r EXCEPT !.level = l] EXCEPT !.xBit = x] EXCEPT !.hi = b]
                  = [level |-> l, lo |-> A, hi |-> b, xBit |-> x]
           /\ [[[r EXCEPT !.level = l] EXCEPT !.xBit = x] EXCEPT !.lo = a]
                  = [level |-> l, lo |-> a, hi |-> B, xBit |-> x]
           /\ [[[[r EXCEPT !.level = l] EXCEPT !.xBit = x] EXCEPT !.lo = a] EXCEPT !.hi = b]
                  = [level |-> l, lo |-> a, hi |-> b, xBit |-> x]
<1> DEFINE n1 == [r EXCEPT !.level = l]
           n2 == [n1 EXCEPT !.xBit = x]
           n3 == [n2 EXCEPT !.lo = a]
<1>1. n1 = [level |-> l, lo |-> A, hi |-> B, xBit |-> X]
  OBVIOUS
<1> HIDE DEF n1
<1>2. n2 = [level |-> l, lo |-> A, hi |-> B, xBit |-> x]
  BY <1>1
<1> HIDE DEF n2
<1>3. n3 = [level |-> l, lo |-> a, hi |-> B, xBit |-> x]
  BY <1>2
<1> HIDE DEF n3
<1>4. [n2 EXCEPT !.hi = b] = [level |-> l, lo |-> A, hi |-> b, xBit |-> x]
  BY <1>2
<1>5. [n3 EXCEPT !.hi = b] = [level |-> l, lo |-> a, hi |-> b, xBit |-> x]
  BY <1>3
<1> QED
  BY <1>3, <1>4, <1>5 DEF n1, n2, n3

\* A record of the four fields of a region.
Plain(r) == r = [level |-> r.level, lo |-> r.lo, hi |-> r.hi, xBit |-> r.xBit]

\* The moves, field by field.
LEMMA Moves ==
    ASSUME NEW r, Plain(r)
    PROVE  LET d == Divided(r.level)
               e == Divided(r.level - 1)
           IN  /\ DownLeft(r) =
                    [level |-> r.level + 1, lo |-> r.lo,
                     hi |-> [r.hi EXCEPT ![d] = ClearBit(r.hi[d], r.xBit[d] - 1)],
                     xBit |-> [r.xBit EXCEPT ![d] = r.xBit[d] - 1]]
               /\ DownRight(r) =
                    [level |-> r.level + 1,
                     lo |-> [r.lo EXCEPT ![d] = SetBit(r.lo[d], r.xBit[d] - 1)],
                     hi |-> r.hi,
                     xBit |-> [r.xBit EXCEPT ![d] = r.xBit[d] - 1]]
               /\ RegionUp(r) =
                    [level |-> r.level - 1,
                     lo |-> [r.lo EXCEPT ![e] = ClearBit(r.lo[e], r.xBit[e])],
                     hi |-> [r.hi EXCEPT ![e] = SetBit(r.hi[e], r.xBit[e])],
                     xBit |-> [r.xBit EXCEPT ![e] = r.xBit[e] + 1]]
<1> DEFINE L == r.level
           A == r.lo
           B == r.hi
           X == r.xBit
           d == Divided(L)
           e == Divided(L - 1)
           h == [B EXCEPT ![d] = ClearBit(B[d], X[d] - 1)]
           l == [A EXCEPT ![d] = SetBit(A[d], X[d] - 1)]
           x == [X EXCEPT ![d] = X[d] - 1]
           lu == [A EXCEPT ![e] = ClearBit(A[e], X[e])]
           hu == [B EXCEPT ![e] = SetBit(B[e], X[e])]
           xu == [X EXCEPT ![e] = X[e] + 1]
<1>1. r = [level |-> L, lo |-> A, hi |-> B, xBit |-> X]
  BY DEF Plain
<1>2. DownLeft(r) = [[[r EXCEPT !.level = L + 1] EXCEPT !.xBit = x] EXCEPT !.hi = h]
  BY <1>1 DEF DownLeft
<1>3. DownRight(r) = [[[r EXCEPT !.level = L + 1] EXCEPT !.xBit = x] EXCEPT !.lo = l]
  BY <1>1 DEF DownRight
<1>4. RegionUp(r) = [[[[r EXCEPT !.level = L - 1] EXCEPT !.xBit = xu] EXCEPT !.lo = lu]
                         EXCEPT !.hi = hu]
  BY <1>1 DEF RegionUp
<1> HIDE DEF L, A, B, X, d, e, h, l, x, lu, hu, xu
<1>5. DownLeft(r) = [level |-> L + 1, lo |-> A, hi |-> h, xBit |-> x]
  BY ONLY <1>1, <1>2, Fields
<1>6. DownRight(r) = [level |-> L + 1, lo |-> l, hi |-> B, xBit |-> x]
  BY ONLY <1>1, <1>3, Fields
<1>7. RegionUp(r) = [level |-> L - 1, lo |-> lu, hi |-> hu, xBit |-> xu]
  BY ONLY <1>1, <1>4, Fields
<1> QED
  BY ONLY <1>5, <1>6, <1>7 DEF L, A, B, X, d, e, h, l, x, lu, hu, xu

\* The bounds and the level of the two halves of a region.
LEMMA Halves ==
    ASSUME NEW r, Aligned(r), r.level < ZBits
    PROVE  /\ Aligned(DownLeft(r)) /\ DownLeft(r).level = r.level + 1
           /\ Aligned(DownRight(r)) /\ DownRight(r).level = r.level + 1
           /\ RegionUp(DownLeft(r)) = r
           /\ RegionUp(DownRight(r)) = r
           /\ LET d == Divided(r.level)
                  k == Left(d, r.level + 1)
              IN  BitAt(DownLeft(r).lo[d], k) = 0 /\ BitAt(DownRight(r).lo[d], k) = 1
<1> DEFINE d == Divided(r.level)
           k == r.xBit[d] - 1
           lf == DownLeft(r)
           rt == DownRight(r)
<1>1. r \in RegionRecord /\ r.level \in 0..ZBits /\ ZBits \in Nat /\ r.level + 1 \in 0..ZBits
  BY ZBitsIsPositive DEF Aligned, RegionRecord
<1>2. d \in Dims
  BY <1>1, InterleavingAssumption DEF Divided, ZBits
<1>3. \A e \in Dims : r.xBit[e] = IF e = d THEN Left(e, r.level + 1) + 1
                                  ELSE Left(e, r.level + 1)
  BY <1>1, LeftFacts DEF Aligned, Divided
<1>4. \A e \in Dims : Left(e, r.level + 1) \in Nat
  BY <1>1, LeftFacts
<1>5. k \in Nat /\ r.xBit[d] = k + 1 /\ k = Left(d, r.level + 1)
  BY <1>2, <1>3, <1>4
<1>6. Side(r.lo[d], r.hi[d], k + 1)
  BY <1>2, <1>5 DEF Aligned
<1> HIDE DEF k
<1>7. /\ r.lo \in Point /\ r.hi \in Point /\ r.xBit \in [Dims -> Nat]
      /\ r = [level |-> r.level, lo |-> r.lo, hi |-> r.hi, xBit |-> r.xBit]
  BY <1>1 DEF RegionRecord
<1> DEFINE xb == [r.xBit EXCEPT ![d] = k]
           hi == [r.hi EXCEPT ![d] = ClearBit(r.hi[d], k)]
           lo == [r.lo EXCEPT ![d] = SetBit(r.lo[d], k)]
<1>8. /\ lf = [level |-> r.level + 1, lo |-> r.lo, hi |-> hi, xBit |-> xb]
      /\ rt = [level |-> r.level + 1, lo |-> lo, hi |-> r.hi, xBit |-> xb]
  <2>1. Plain(r)
    BY <1>7 DEF Plain
  <2> QED
    BY <2>1, Moves DEF k
<1>9. xb \in [Dims -> Nat] /\ xb[d] = k /\ \A e \in Dims : e # d => xb[e] = r.xBit[e]
  BY <1>2, <1>5, <1>7
<1>10. \A e \in Dims : xb[e] = Left(e, r.level + 1)
  BY <1>3, <1>5, <1>9
<1>11. ClearBit(r.hi[d], k) \in Coordinate(d) /\ SetBit(r.lo[d], k) \in Coordinate(d)
  <2> DEFINE l0 == r.lo[d]
             h0 == r.hi[d]
             X == 2^XBits(d)
  <2>1. h0 \in Nat /\ h0 < X /\ X \in Nat
    BY <1>2, <1>7, PointBounds
  <2>2. /\ ClearBit(h0, k) \in Nat /\ SetBit(l0, k) \in Nat
        /\ ClearBit(h0, k) < SetBit(l0, k) /\ SetBit(l0, k) <= h0
    BY <1>5, <1>6, SplitSide
  <2> HIDE DEF l0, h0, X
  <2>3. ClearBit(h0, k) < X /\ SetBit(l0, k) < X
    BY ONLY <2>1, <2>2
  <2> QED
    BY <1>2, <2>2, <2>3, CoordinateIs DEF l0, h0, X
<1>12. /\ hi \in Point /\ hi[d] = ClearBit(r.hi[d], k)
       /\ \A e \in Dims : e # d => hi[e] = r.hi[e]
  BY <1>2, <1>7, <1>11, PointUpdate
<1>13. /\ lo \in Point /\ lo[d] = SetBit(r.lo[d], k)
       /\ \A e \in Dims : e # d => lo[e] = r.lo[e]
  BY <1>2, <1>7, <1>11, PointUpdate
<1>14. Side(r.lo[d], hi[d], k) /\ Side(lo[d], r.hi[d], k)
  BY <1>5, <1>6, <1>12, <1>13, SplitSide
<1>15. \A e \in Dims : e # d => Side(r.lo[e], r.hi[e], r.xBit[e])
  BY DEF Aligned
<1> HIDE DEF d, xb, hi, lo
<1>16. lf \in RegionRecord /\ rt \in RegionRecord
  BY <1>1, <1>7, <1>8, <1>9, <1>12, <1>13 DEF RegionRecord
<1>17. Aligned(lf) /\ lf.level = r.level + 1
  <2>1. \A e \in Dims : Side(r.lo[e], hi[e], xb[e])
    BY <1>9, <1>12, <1>14, <1>15
  <2> QED
    BY <1>8, <1>10, <1>16, <2>1 DEF Aligned
<1>18. Aligned(rt) /\ rt.level = r.level + 1
  <2>1. \A e \in Dims : Side(lo[e], r.hi[e], xb[e])
    BY <1>9, <1>13, <1>14, <1>15
  <2> QED
    BY <1>8, <1>10, <1>16, <2>1 DEF Aligned
<1>19. /\ ClearBit(r.lo[d], k) = r.lo[d] /\ SetBit(hi[d], k) = r.hi[d]
       /\ ClearBit(lo[d], k) = r.lo[d] /\ SetBit(r.hi[d], k) = r.hi[d]
  BY <1>5, <1>6, <1>12, <1>13, SplitSide
<1>20. Divided((r.level + 1) - 1) = d /\ (r.level + 1) - 1 = r.level /\ xb[d] + 1 = r.xBit[d]
  BY <1>1, <1>5, <1>9 DEF d
<1>21. [xb EXCEPT ![d] = xb[d] + 1] = r.xBit
  BY <1>2, <1>7, <1>9, <1>20
<1>22. /\ [hi EXCEPT ![d] = SetBit(hi[d], k)] = r.hi
       /\ [lo EXCEPT ![d] = ClearBit(lo[d], k)] = r.lo
       /\ [r.lo EXCEPT ![d] = ClearBit(r.lo[d], k)] = r.lo
       /\ [r.hi EXCEPT ![d] = SetBit(r.hi[d], k)] = r.hi
  <2>1. DOMAIN hi = Dims /\ DOMAIN lo = Dims /\ DOMAIN r.lo = Dims /\ DOMAIN r.hi = Dims
    BY <1>7, <1>12, <1>13 DEF Point
  <2> QED
    BY <1>2, <1>7, <1>12, <1>13, <1>19, <2>1 DEF Point
<1>26. /\ Plain(lf) /\ Plain(rt) /\ lf.level = r.level + 1 /\ rt.level = r.level + 1
       /\ lf.lo = r.lo /\ lf.hi = hi /\ lf.xBit = xb
       /\ rt.lo = lo /\ rt.hi = r.hi /\ rt.xBit = xb
  BY ONLY <1>8 DEF Plain
<1> HIDE DEF lf, rt
<1>23. RegionUp(lf) = [level |-> (r.level + 1) - 1,
                       lo |-> [r.lo EXCEPT ![d] = ClearBit(r.lo[d], xb[d])],
                       hi |-> [hi EXCEPT ![d] = SetBit(hi[d], xb[d])],
                       xBit |-> [xb EXCEPT ![d] = xb[d] + 1]]
  BY ONLY <1>20, <1>26, Moves
<1>24. RegionUp(rt) = [level |-> (r.level + 1) - 1,
                       lo |-> [lo EXCEPT ![d] = ClearBit(lo[d], xb[d])],
                       hi |-> [r.hi EXCEPT ![d] = SetBit(r.hi[d], xb[d])],
                       xBit |-> [xb EXCEPT ![d] = xb[d] + 1]]
  BY ONLY <1>20, <1>26, Moves
<1>25. RegionUp(lf) = r /\ RegionUp(rt) = r
  BY ONLY <1>7, <1>9, <1>20, <1>21, <1>22, <1>23, <1>24
<1>27. BitAt(lf.lo[d], k) = 0 /\ BitAt(rt.lo[d], k) = 1
  <2>1. BitAt(r.lo[d], k) = 0 /\ BitAt(SetBit(r.lo[d], k), k) = 1
    BY <1>5, <1>6, SplitSide
  <2> QED
    BY ONLY <2>1, <1>13, <1>26
<1> QED
  BY ONLY <1>5, <1>17, <1>18, <1>25, <1>27 DEF lf, rt, d

\* The region of which a region is a half.
LEMMA UpAligned ==
    ASSUME NEW r, Aligned(r), r.level > 0
    PROVE  /\ Aligned(RegionUp(r)) /\ RegionUp(r).level = r.level - 1
           /\ \A d \in Dims : RegionUp(r).lo[d] <= r.lo[d] /\ r.hi[d] <= RegionUp(r).hi[d]
<1> DEFINE l == r.level - 1
           d == Divided(l)
           k == r.xBit[d]
           u == RegionUp(r)
<1>1. r \in RegionRecord /\ r.level \in 0..ZBits /\ ZBits \in Nat
      /\ l \in 0..ZBits /\ l < ZBits /\ r.level = l + 1
  BY ZBitsIsPositive DEF Aligned, RegionRecord
<1>2. d \in Dims
  BY <1>1, InterleavingAssumption DEF Divided, ZBits
<1>3. \A e \in Dims : r.xBit[e] = Left(e, l + 1)
  BY <1>1 DEF Aligned
<1>4. \A e \in Dims : Left(e, l) = IF e = d THEN Left(e, l + 1) + 1 ELSE Left(e, l + 1)
  BY <1>1, LeftFacts DEF Divided
<1>5. k \in Nat /\ k + 1 <= XBits(d) /\ XBits(d) \in Nat
  <2>1. k \in Nat
    BY <1>1, <1>2 DEF RegionRecord
  <2>2. k + 1 = Left(d, l)
    BY <1>2, <1>3, <1>4
  <2> HIDE DEF k, l, d
  <2> QED
    BY <1>1, <2>1, <2>2, LeftFacts
<1>6. Side(r.lo[d], r.hi[d], k)
  BY <1>2 DEF Aligned
<1> HIDE DEF k
<1>7. /\ r.lo \in Point /\ r.hi \in Point /\ r.xBit \in [Dims -> Nat]
      /\ r = [level |-> r.level, lo |-> r.lo, hi |-> r.hi, xBit |-> r.xBit]
  BY <1>1 DEF RegionRecord
<1> DEFINE xb == [r.xBit EXCEPT ![d] = k + 1]
           lo == [r.lo EXCEPT ![d] = ClearBit(r.lo[d], k)]
           hi == [r.hi EXCEPT ![d] = SetBit(r.hi[d], k)]
<1>8. u = [level |-> l, lo |-> lo, hi |-> hi, xBit |-> xb]
  <2>1. Plain(r)
    BY <1>7 DEF Plain
  <2> QED
    BY <2>1, Moves DEF k
<1>9. xb \in [Dims -> Nat] /\ xb[d] = k + 1 /\ \A e \in Dims : e # d => xb[e] = r.xBit[e]
  BY <1>2, <1>5, <1>7
<1>10. \A e \in Dims : xb[e] = Left(e, l)
  BY <1>2, <1>3, <1>4, <1>9 DEF k
<1>11. /\ ClearBit(r.lo[d], k) \in Nat /\ SetBit(r.hi[d], k) \in Nat
       /\ ClearBit(r.lo[d], k) <= r.lo[d] /\ r.hi[d] <= SetBit(r.hi[d], k)
       /\ Side(ClearBit(r.lo[d], k), SetBit(r.hi[d], k), k + 1)
  BY <1>5, <1>6, JoinSide
<1>12. ClearBit(r.lo[d], k) \in Coordinate(d) /\ SetBit(r.hi[d], k) \in Coordinate(d)
  <2> DEFINE l0 == r.lo[d]
             X == 2^XBits(d)
             c == ClearBit(l0, k)
             s == SetBit(r.hi[d], k)
  <2>1. l0 \in Nat /\ l0 < X /\ X \in Nat
    BY <1>2, <1>7, PointBounds
  <2>2. c \in Nat /\ c <= l0 /\ s \in Nat
    BY <1>11
  <2>3. c < X
    <3> HIDE DEF c, l0, X
    <3> QED
      BY ONLY <2>1, <2>2
  <2>4. s < X
    BY <1>5, <1>11, <2>3, SideFits
  <2> QED
    BY <1>2, <2>2, <2>3, <2>4, CoordinateIs
<1>13. /\ hi \in Point /\ hi[d] = SetBit(r.hi[d], k)
       /\ \A e \in Dims : e # d => hi[e] = r.hi[e]
  BY <1>2, <1>7, <1>12, PointUpdate
<1>14. /\ lo \in Point /\ lo[d] = ClearBit(r.lo[d], k)
       /\ \A e \in Dims : e # d => lo[e] = r.lo[e]
  BY <1>2, <1>7, <1>12, PointUpdate
<1>15. \A e \in Dims : e # d => Side(r.lo[e], r.hi[e], r.xBit[e])
  BY DEF Aligned
<1>16. \A e \in Dims : r.lo[e] \in Nat /\ r.hi[e] \in Nat
  BY <1>7, PointIsFunction
<1> HIDE DEF d, xb, hi, lo
<1>17. \A e \in Dims : Side(lo[e], hi[e], xb[e])
  BY <1>9, <1>11, <1>13, <1>14, <1>15
<1>18. Aligned(u) /\ u.level = l
  <2>1. u \in RegionRecord
    BY <1>1, <1>8, <1>9, <1>13, <1>14 DEF RegionRecord
  <2> QED
    BY <1>8, <1>10, <1>17, <2>1 DEF Aligned
<1>19. \A e \in Dims : u.lo[e] <= r.lo[e] /\ r.hi[e] <= u.hi[e]
  BY <1>8, <1>11, <1>13, <1>14, <1>16
<1> QED
  BY <1>18, <1>19

\* At level 0 a region is the whole space.
LEMMA LevelZeroIsWhole ==
    ASSUME NEW r, Aligned(r), r.level = 0, NEW x \in Point, NEW d \in Dims
    PROVE  r.lo[d] <= x[d] /\ x[d] <= r.hi[d]
<1>1. r.xBit[d] = XBits(d) /\ Side(r.lo[d], r.hi[d], XBits(d))
  BY LeftFacts, ZBitsIsPositive DEF Aligned
<1> DEFINE P == 2^XBits(d)
<1>2. PICK q \in Nat : r.lo[d] = P * q /\ r.hi[d] = P * q + P - 1
  BY <1>1 DEF Side
<1>3. r.lo[d] < P /\ P \in Nat \ {0} /\ x[d] \in Nat /\ x[d] < P
  <2>1. r.lo \in Point
    BY DEF Aligned, RegionRecord
  <2>2. XBits(d) \in Nat
    BY LeftFacts, ZBitsIsPositive
  <2>3. P \in Nat \ {0}
    BY <2>2, DoublePower
  <2>4. x[d] \in Nat /\ x[d] < P /\ r.lo[d] < P
    BY <2>1, PointBounds
  <2> QED
    BY ONLY <2>3, <2>4
<1> HIDE DEF P
<1>4. ~(q >= 1)
  BY <1>2, <1>3, Z3
<1>5. q = 0
  BY <1>4
<1> QED
  BY <1>2, <1>3, <1>5

-----------------------------------------------------------------------------
\* How many of the first n halvings are of a dimension.
Seen(d, n) == Cardinality({m \in 1..n : Interleaving[m] = d})

LEMMA SeenFacts ==
    ASSUME NEW d, NEW n \in 0..ZBits
    PROVE  /\ Seen(d, n) \in Nat
           /\ Seen(d, n) + Left(d, n) = XBits(d)
<1> DEFINE A == {m \in 1..n : Interleaving[m] = d}
           B == {m \in (n + 1)..ZBits : Interleaving[m] = d}
           C == {m \in 1..ZBits : Interleaving[m] = d}
<1>1. ZBits \in Nat
  BY ZBitsIsPositive
<1>2. IsFiniteSet(A) /\ IsFiniteSet(B)
  <2>1. IsFiniteSet(1..n) /\ IsFiniteSet((n + 1)..ZBits)
    BY <1>1, FS_Interval
  <2>2. A \subseteq 1..n /\ B \subseteq (n + 1)..ZBits
    OBVIOUS
  <2> QED
    BY <2>1, <2>2, FS_Subset
<1>3. C = A \cup B /\ A \cap B = {}
  BY <1>1
<1> HIDE DEF A, B, C
<1>4. Cardinality(C) = Cardinality(A) + Cardinality(B) /\ Cardinality(A) \in Nat
      /\ Cardinality(B) \in Nat
  <2>1. Cardinality(A \cup B) = Cardinality(A) + Cardinality(B) - Cardinality(A \cap B)
    BY <1>2, FS_Union
  <2>2. Cardinality(A) \in Nat /\ Cardinality(B) \in Nat
    BY <1>2, FS_CardinalityType
  <2>3. Cardinality(A \cap B) = 0
    BY <1>3, FS_EmptySet
  <2>4. Cardinality(C) = Cardinality(A \cup B)
    BY <1>3
  <2> QED
    BY ONLY <2>1, <2>2, <2>3, <2>4
<1> QED
  BY <1>4 DEF A, B, C, Seen, Left, XBits

\* A z-value is a path.
LEMMA ShuffledIsPath ==
    ASSUME NEW x \in Point, NEW n \in 0..ZBits
    PROVE  Shuffled(x, n) \in [1..n -> {0, 1}]
<1>1. ASSUME NEW m \in 1..n
      PROVE  BitAt(x[Interleaving[m]], XBits(Interleaving[m]) - Seen(Interleaving[m], m)) \in {0, 1}
  <2> DEFINE d == Interleaving[m]
             k == XBits(d) - Seen(d, m)
             P == 2^k
             y == x[d]
  <2>1. d \in Dims /\ m \in 0..ZBits
    BY ZBitsIsPositive, InterleavingAssumption DEF ZBits
  <2>2. y \in Nat
    BY <2>1, PointIsFunction
  <2>3. k = Left(d, m) /\ k \in Nat
    <3> HIDE DEF d
    <3>1. /\ Seen(d, m) \in Nat /\ Seen(d, m) + Left(d, m) = XBits(d)
          /\ Left(d, m) \in 0..XBits(d) /\ XBits(d) \in Nat
      BY <2>1, SeenFacts, LeftFacts
    <3> QED
      BY <3>1
  <2>4. P \in Nat \ {0}
    BY <2>3, DoublePower
  <2> HIDE DEF y, P
  <2>5. y \div P \in Nat
    BY <2>2, <2>4, Quotient
  <2>6. (y \div P) % 2 \in {0, 1}
    BY <2>5
  <2> QED
    BY <2>6 DEF BitAt, y, P
<1> QED
  BY <1>1 DEF Shuffled, Seen

-----------------------------------------------------------------------------
(***************************************************************************)
(* The z-value of a region is the common path of its points.               *)
(***************************************************************************)

\* Numbers with the same high bits have the same high part, and conversely.
LEMMA SameHighBits ==
    ASSUME NEW k \in Nat, NEW h \in Nat, k <= h,
           NEW x \in Nat, NEW y \in Nat, x < 2^h, y < 2^h
    PROVE  Above(x, k) = Above(y, k) <=> \A j \in k..(h - 1) : BitAt(x, j) = BitAt(y, j)
<1>1. \A j \in Nat : /\ Above(x, j) \in Nat /\ Above(x, j + 1) = Above(x, j) \div 2
                     /\ Above(y, j) \in Nat /\ Above(y, j + 1) = Above(y, j) \div 2
                     /\ BitAt(x, j) = Above(x, j) % 2 /\ BitAt(y, j) = Above(y, j) % 2
  BY AboveFacts DEF BitAt, Above
<1>2. ASSUME Above(x, k) = Above(y, k), NEW j \in Nat, j >= k
      PROVE  Above(x, j) = Above(y, j)
  <2> DEFINE T == {t \in Nat : t >= k /\ Above(x, t) # Above(y, t)}
  <2>1. SUFFICES ASSUME T # {} PROVE FALSE
    BY <1>2
  <2>2. PICK t \in T : \A u \in T : t <= u
    BY <2>1, LeastElement
  <2>3. t \in Nat /\ t > k /\ Above(x, t) # Above(y, t)
    BY <1>2, <2>2
  <2> DEFINE p == t - 1
  <2>4. p \in Nat /\ p >= k /\ t = p + 1 /\ ~(t <= p)
    BY <2>3
  <2>5. p \notin T
    BY ONLY <2>2, <2>4
  <2>6. Above(x, p) = Above(y, p)
    BY <2>4, <2>5
  <2> HIDE DEF p, T
  <2> QED
    BY <1>1, <2>3, <2>4, <2>6
<1>3. ASSUME \A j \in k..(h - 1) : BitAt(x, j) = BitAt(y, j)
      PROVE  Above(x, k) = Above(y, k)
  <2> DEFINE S == {j \in k..h : Above(x, j) = Above(y, j)}
  <2>1. h \in S /\ S \in SUBSET Nat
    BY AboveFacts
  <2>2. PICK p \in S : \A j \in S : p <= j
    BY <2>1, LeastElement
  <2>3. p = k
    <3> SUFFICES ASSUME p # k PROVE FALSE
      OBVIOUS
    <3> DEFINE q == p - 1
    <3>1. q \in Nat /\ q \in k..(h - 1) /\ p = q + 1 /\ ~(p <= q) /\ q \in k..h
          /\ Above(x, p) = Above(y, p)
      BY <2>2
    <3>2. q \notin S
      BY ONLY <2>2, <3>1
    <3>3. Above(x, q) # Above(y, q)
      BY <3>1, <3>2
    <3> HIDE DEF q, S
    <3>4. Above(x, q) \div 2 = Above(y, q) \div 2 /\ Above(x, q) % 2 = Above(y, q) % 2
          /\ Above(x, q) \in Nat /\ Above(y, q) \in Nat
      <4>1. BitAt(x, q) = BitAt(y, q)
        BY ONLY <1>3, <3>1
      <4>2. /\ Above(x, q) \in Nat /\ Above(x, q + 1) = Above(x, q) \div 2
            /\ Above(y, q) \in Nat /\ Above(y, q + 1) = Above(y, q) \div 2
            /\ BitAt(x, q) = Above(x, q) % 2 /\ BitAt(y, q) = Above(y, q) % 2
        BY ONLY <1>1, <3>1
      <4> QED
        BY ONLY <3>1, <4>1, <4>2
    <3> QED
      BY ONLY <3>3, <3>4
  <2> QED
    BY <2>2, <2>3
<1> QED
  BY <1>1, <1>2, <1>3

\* There is a number for every choice of bits.
LEMMA NumberOfBits ==
    ASSUME NEW k \in Nat, NEW f \in [0..(k - 1) -> {0, 1}]
    PROVE  \E y \in Nat : y < 2^k /\ \A j \in 0..(k - 1) : BitAt(y, j) = f[j]
<1> DEFINE Has(n, g) == \E y \in Nat : y < 2^n /\ \A j \in 0..(n - 1) : BitAt(y, j) = g[j]
           Bad == {n \in Nat : \E g \in [0..(n - 1) -> {0, 1}] : ~Has(n, g)}
<1>1. SUFFICES ASSUME Bad # {} PROVE FALSE
  OBVIOUS
<1>2. PICK n \in Bad : \A o \in Bad : n <= o
  BY <1>1, LeastElement
<1>3. PICK g \in [0..(n - 1) -> {0, 1}] : ~Has(n, g)
  BY <1>2
<1>4. n # 0
  <2> SUFFICES ASSUME n = 0 PROVE FALSE
    OBVIOUS
  <2>1. 0 < 2^0
    OBVIOUS
  <2> QED
    BY <1>3, <2>1
<1> DEFINE p == n - 1
<1>5. p \in Nat /\ n = p + 1 /\ n - 1 = p /\ p \notin Bad
  <2>1. n \in Nat
    BY <1>2
  <2>2. p \in Nat /\ n = p + 1 /\ n - 1 = p /\ ~(n <= p)
    BY <1>4, <2>1
  <2> HIDE DEF Bad, p
  <2>3. p \notin Bad
    BY ONLY <1>2, <2>2
  <2> QED
    BY <2>2, <2>3
<1> DEFINE g0 == [j \in 0..(p - 1) |-> g[j]]
<1>6. g0 \in [0..(p - 1) -> {0, 1}] /\ g[p] \in {0, 1}
  BY <1>3, <1>5
<1>7. PICK y \in Nat : y < 2^p /\ \A j \in 0..(p - 1) : BitAt(y, j) = g[j]
  BY <1>5, <1>6
<1> DEFINE P == 2^p
           b == g[p]
           z == y + b * P
<1>8. P \in Nat \ {0} /\ 2^n = 2 * P /\ y < P
  BY <1>5, <1>7, DoublePower
<1> HIDE DEF P
<1>9. b * P \in Nat /\ ((b * P = 0 /\ b = 0) \/ (b * P = P /\ b = 1))
  BY <1>6, <1>8
<1>10. z \in Nat /\ z < 2^n
  BY <1>7, <1>8, <1>9
<1>11. BitAt(z, p) = g[p]
  <2>1. P * b <= z /\ z < P * b + P
    BY <1>6, <1>7, <1>8, <1>9
  <2>2. b \in Nat
    BY <1>6
  <2> HIDE DEF b, z
  <2>3. z \div P = b
    BY <1>8, <1>10, <2>1, <2>2, QuotientIs
  <2>4. b % 2 = b
    BY <1>6 DEF b
  <2> QED
    BY <2>3, <2>4 DEF BitAt, b, P
<1>12. ASSUME NEW j \in 0..(p - 1)
       PROVE  BitAt(z, j) = g[j]
  <2>1. j \in Nat /\ j + 1 \in Nat /\ j + 1 <= p
    BY <1>5
  <2>2. PICK m \in Nat : P = 2^(j + 1) * m
    BY <1>5, <2>1, PowerDivides DEF P
  <2> DEFINE Q == 2^j
  <2>3. Q \in Nat \ {0} /\ 2^(j + 1) = 2 * Q
    BY <2>1, DoublePower
  <2>4. BitAt(z, j) = (z \div Q) % 2 /\ BitAt(y, j) = (y \div Q) % 2
    BY DEF BitAt
  <2>5. P = (2 * Q) * m
    BY <2>2, <2>3
  <2> HIDE DEF Q
  <2> DEFINE a == y \div Q
             e == (m * b)
             c == a + 2 * e
  <2>6. a \in Nat /\ Q * a <= y /\ y < Q * a + Q
    BY <1>7, <2>3, Quotient
  <2>7. e \in Nat
    BY <1>6
  <2> HIDE DEF a
  <2>8. b * P = Q * (2 * e)
    <3>1. b = 0 \/ b = 1
      BY <1>6
    <3> HIDE DEF b
    <3> QED
      BY <2>3, <2>5, <3>1, Z3
  <2> HIDE DEF e, b
  <2>9. Q * c = Q * a + Q * (2 * e)
    BY <2>3, <2>6, <2>7, Z3
  <2>10. Q * c <= z /\ z < Q * c + Q /\ c \in Nat
    BY <1>7, <1>9, <2>3, <2>6, <2>7, <2>8, <2>9
  <2> HIDE DEF z
  <2>11. z \div Q = c
    <3> HIDE DEF c
    <3> QED
      BY <1>10, <2>3, <2>10, QuotientIs
  <2>12. c % 2 = a % 2
    BY <2>6, <2>7
  <2> QED
    BY <1>7, <2>4, <2>11, <2>12 DEF a
<1>13. \A j \in 0..(n - 1) : BitAt(z, j) = g[j]
  <2> HIDE DEF z, p
  <2>1. \A j \in 0..(n - 1) : j = p \/ j \in 0..(p - 1)
    BY ONLY <1>5
  <2> QED
    BY ONLY <1>11, <1>12, <2>1
<1> QED
  BY <1>3, <1>10, <1>13

LEMMA LeftDecreases ==
    ASSUME NEW d, NEW m \in 0..ZBits, NEW l \in m..ZBits
    PROVE  Left(d, l) <= Left(d, m)
<1> DEFINE S(k) == {n \in (k + 1)..ZBits : Interleaving[n] = d}
<1>1. ZBits \in Nat
  BY ZBitsIsPositive
<1>2. IsFiniteSet(S(m))
  <2>1. IsFiniteSet((m + 1)..ZBits)
    BY <1>1, FS_Interval
  <2>2. S(m) \subseteq (m + 1)..ZBits
    OBVIOUS
  <2> QED
    BY <2>1, <2>2, FS_Subset
<1>3. S(l) \subseteq S(m)
  BY <1>1
<1> HIDE DEF S
<1>4. Cardinality(S(l)) <= Cardinality(S(m))
  BY <1>2, <1>3, FS_Subset
<1> QED
  BY <1>4 DEF Left, S

\* The n-th halving decides the bit that is left then: of the bits of its
\* dimension each is decided by one halving, the high ones first.
LEMMA BitOfHalving ==
    ASSUME NEW l \in 0..ZBits, NEW n \in 1..l
    PROVE  /\ Interleaving[n] \in Dims
           /\ Left(Interleaving[n], n) \in Left(Interleaving[n], l)..(XBits(Interleaving[n]) - 1)
<1> DEFINE d == Interleaving[n]
<1>1. d \in Dims /\ n \in 0..ZBits /\ n - 1 \in 0..ZBits /\ ZBits \in Nat /\ l \in n..ZBits
  BY InterleavingAssumption, ZBitsIsPositive DEF ZBits
<1>2. Left(d, n - 1) = Left(d, n) + 1
  <2> DEFINE p == n - 1
  <2>1. p \in 0..ZBits /\ p < ZBits /\ p + 1 = n
    BY <1>1
  <2> HIDE DEF p
  <2>2. Left(d, p) = Left(d, p + 1) + 1
    BY <2>1, LeftFacts
  <2> QED
    BY <2>1, <2>2 DEF p
<1> HIDE DEF d
<1>3. Left(d, l) <= Left(d, n)
  BY <1>1, LeftDecreases
<1>4. Left(d, n) \in Nat /\ Left(d, l) \in Nat /\ Left(d, n - 1) <= XBits(d) /\ XBits(d) \in Nat
  BY <1>1, LeftFacts
<1>5. Left(d, n) \in Left(d, l)..(XBits(d) - 1)
  BY ONLY <1>2, <1>3, <1>4
<1> QED
  BY <1>1, <1>5 DEF d

LEMMA HalvingOfBit ==
    ASSUME NEW d, NEW l \in 0..ZBits, NEW j \in Left(d, l)..(XBits(d) - 1)
    PROVE  \E n \in 1..l : Interleaving[n] = d /\ Left(d, n) = j
<1> DEFINE S == {m \in 0..l : Left(d, m) <= j}
<1>1. /\ ZBits \in Nat /\ l \in Nat
      /\ \A m \in 0..ZBits : Left(d, m) \in Nat
      /\ Left(d, 0) = XBits(d) /\ XBits(d) \in Nat
  BY ZBitsIsPositive, LeftFacts
<1>2. j \in Nat /\ Left(d, l) <= j /\ j < XBits(d)
  BY <1>1
<1>3. l \in S /\ S \in SUBSET Nat /\ 0 \notin S
  BY <1>1, <1>2
<1>4. PICK n \in S : \A m \in S : n <= m
  BY <1>3, LeastElement
<1> DEFINE p == n - 1
<1>5. n \in 1..l /\ n \in 0..ZBits /\ p \in 0..l /\ p \in 0..ZBits /\ p < ZBits
      /\ n = p + 1 /\ ~(n <= p) /\ Left(d, n) <= j
  BY <1>1, <1>3, <1>4
<1> HIDE DEF p
<1>6. p \notin S
  BY ONLY <1>4, <1>5
<1>7. ~(Left(d, p) <= j)
  BY <1>5, <1>6
<1>8. Left(d, p) = IF Interleaving[n] = d THEN Left(d, n) + 1 ELSE Left(d, n)
  BY <1>5, LeftFacts
<1>9. Left(d, p) \in Nat /\ Left(d, n) \in Nat
  BY <1>1, <1>5
<1>10. Interleaving[n] = d /\ Left(d, n) = j
  BY ONLY <1>2, <1>5, <1>7, <1>8, <1>9
<1> QED
  BY <1>5, <1>10

LEMMA PathBit ==
    ASSUME NEW x, NEW l \in 0..ZBits, NEW n \in 1..l
    PROVE  Shuffled(x, l)[n] = BitAt(x[Interleaving[n]], Left(Interleaving[n], n))
<1> DEFINE d == Interleaving[n]
<1>1. n \in 0..ZBits
  BY ZBitsIsPositive
<1>2. Seen(d, n) + Left(d, n) = XBits(d) /\ Seen(d, n) \in Nat
      /\ Left(d, n) \in Nat /\ XBits(d) \in Nat
  <2> HIDE DEF d
  <2> QED
    BY <1>1, SeenFacts, LeftFacts
<1>3. XBits(d) - Seen(d, n) = Left(d, n)
  BY ONLY <1>2
<1>4. Shuffled(x, l)[n] = BitAt(x[d], XBits(d) - Seen(d, n))
  BY DEF Shuffled, Seen
<1> QED
  BY <1>3, <1>4

\* A number is in an aligned interval if its high part is that of the interval.
LEMMA SideIsQuotient ==
    ASSUME NEW k \in Nat, NEW lo, NEW hi, Side(lo, hi, k), NEW x \in Nat
    PROVE  lo <= x /\ x <= hi <=> Above(x, k) = Above(lo, k)
<1> DEFINE P == 2^k
<1>1. P \in Nat \ {0}
  BY DoublePower
<1>2. PICK q \in Nat : lo = P * q /\ hi = P * q + P - 1
  BY DEF Side
<1>3. Above(x, k) = x \div P /\ Above(lo, k) = lo \div P
  BY DEF Above
<1> HIDE DEF P
<1> DEFINE a == P * q
           y == x \div P
           b == P * y
<1>4. a \in Nat /\ lo = a /\ hi = a + P - 1
  BY <1>1, <1>2
<1>5. lo \div P = q
  BY <1>1, <1>2, <1>4, QuotientIs
<1>6. y \in Nat /\ b <= x /\ x < b + P /\ b \in Nat
  BY <1>1, Quotient
<1>7. ASSUME lo <= x, x <= hi
      PROVE  y = q
  BY <1>1, <1>2, <1>4, <1>7, QuotientIs
<1>8. ASSUME y = q
      PROVE  lo <= x /\ x <= hi
  <2>1. b = a
    BY <1>8
  <2> HIDE DEF a, b
  <2> QED
    BY ONLY <1>1, <1>4, <1>6, <2>1
<1> QED
  BY <1>3, <1>5, <1>7, <1>8

\* A point is in the region: in all dimensions.
InSides(r, x) == \A d \in Dims : r.lo[d] <= x[d] /\ x[d] <= r.hi[d]

\* The path of the point begins with that of the region.
OnPath(r, x) == \A n \in 1..r.level : Shuffled(x, ZBits)[n] = RegionZ(r)[n]

LEMMA InRegionIsOnPath ==
    ASSUME NEW r, Aligned(r), NEW x \in Point
    PROVE  InSides(r, x) <=> OnPath(r, x)
<1> DEFINE l == r.level
           Same(d) == \A j \in Left(d, l)..(XBits(d) - 1) : BitAt(x[d], j) = BitAt(r.lo[d], j)
<1>1. l \in 0..ZBits /\ ZBits \in Nat /\ r.lo \in Point
  BY ZBitsIsPositive DEF Aligned, RegionRecord
<1>2. ASSUME NEW d \in Dims
      PROVE  r.lo[d] <= x[d] /\ x[d] <= r.hi[d] <=> Same(d)
  <2>1. Side(r.lo[d], r.hi[d], Left(d, l))
    BY DEF Aligned
  <2>2. Left(d, l) \in Nat /\ XBits(d) \in Nat /\ Left(d, l) <= XBits(d)
    BY <1>1, LeftFacts
  <2>3. x[d] \in Nat /\ r.lo[d] \in Nat /\ x[d] < 2^XBits(d) /\ r.lo[d] < 2^XBits(d)
    BY <1>1, PointBounds
  <2> HIDE DEF l
  <2>4. r.lo[d] <= x[d] /\ x[d] <= r.hi[d] <=> Above(x[d], Left(d, l)) = Above(r.lo[d], Left(d, l))
    BY <2>1, <2>2, <2>3, SideIsQuotient
  <2>5. Above(x[d], Left(d, l)) = Above(r.lo[d], Left(d, l)) <=> Same(d)
    BY <2>2, <2>3, SameHighBits
  <2> QED
    BY <2>4, <2>5
<1>3. ASSUME NEW n \in 1..l
      PROVE  /\ Shuffled(x, ZBits)[n] = BitAt(x[Interleaving[n]], Left(Interleaving[n], n))
             /\ RegionZ(r)[n] = BitAt(r.lo[Interleaving[n]], Left(Interleaving[n], n))
  <2>1. n \in 1..ZBits /\ ZBits \in 0..ZBits
    BY <1>1
  <2> QED
    BY <1>1, <2>1, PathBit DEF RegionZ
<1>4. ASSUME \A d \in Dims : Same(d), NEW n \in 1..l
      PROVE  Shuffled(x, ZBits)[n] = RegionZ(r)[n]
  <2>1. /\ Interleaving[n] \in Dims
        /\ Left(Interleaving[n], n) \in Left(Interleaving[n], l)..(XBits(Interleaving[n]) - 1)
    BY <1>1, BitOfHalving
  <2> QED
    BY <1>3, <1>4, <2>1
<1>5. ASSUME OnPath(r, x), NEW d \in Dims, NEW j \in Left(d, l)..(XBits(d) - 1)
      PROVE  BitAt(x[d], j) = BitAt(r.lo[d], j)
  <2>1. PICK n \in 1..l : Interleaving[n] = d /\ Left(d, n) = j
    BY <1>1, HalvingOfBit
  <2>2. Shuffled(x, ZBits)[n] = RegionZ(r)[n]
    BY <1>5 DEF OnPath
  <2> QED
    BY <1>3, <2>1, <2>2
<1> HIDE DEF l
<1>6. (\A d \in Dims : Same(d)) => OnPath(r, x)
  BY <1>4 DEF OnPath, l
<1>7. OnPath(r, x) => \A d \in Dims : Same(d)
  BY <1>5
<1> HIDE DEF Same
<1> QED
  BY <1>2, <1>6, <1>7 DEF InSides

-----------------------------------------------------------------------------
(***************************************************************************)
(* The points are the cells.                                               *)
(***************************************************************************)

LEMMA PathsDiffer ==
    ASSUME NEW x \in Point, NEW y \in Point, Shuffled(x, ZBits) = Shuffled(y, ZBits)
    PROVE  x = y
<1> DEFINE r == Initialized(y)
<1>1. Aligned(r) /\ r.level = ZBits
  BY InitializedAligned
<1>2. r.lo = y /\ r.hi = y
  BY DEF Initialized
<1> HIDE DEF r
<1>3. OnPath(r, x)
  BY <1>1, <1>2 DEF OnPath, RegionZ
<1>4. \A d \in Dims : y[d] <= x[d] /\ x[d] <= y[d]
  BY <1>1, <1>2, <1>3, InRegionIsOnPath DEF InSides
<1>5. \A d \in Dims : x[d] \in Nat /\ y[d] \in Nat
  BY PointIsFunction
<1>6. \A d \in Dims : x[d] = y[d]
  BY <1>4, <1>5
<1>7. x = [d \in Dims |-> x[d]] /\ y = [d \in Dims |-> y[d]]
  BY DEF Point
<1> QED
  BY <1>6, <1>7

LEMMA EveryPathIsPoint ==
    ASSUME NEW c \in [1..ZBits -> {0, 1}]
    PROVE  \E x \in Point : Shuffled(x, ZBits) = c
<1> DEFINE Fits(d, y) == \A n \in 1..ZBits : Interleaving[n] = d => BitAt(y, Left(d, n)) = c[n]
<1>1. ASSUME NEW d \in Dims
      PROVE  \E y \in Coordinate(d) : Fits(d, y)
  <2> DEFINE X == XBits(d)
             N(j) == CHOOSE n \in 1..ZBits : Interleaving[n] = d /\ Left(d, n) = j
             f == [j \in 0..(X - 1) |-> c[N(j)]]
  <2>1. X \in Nat /\ ZBits \in Nat /\ ZBits \in 0..ZBits /\ Left(d, ZBits) = 0
    BY ZBitsIsPositive, LeftFacts
  <2>2. ASSUME NEW j \in 0..(X - 1)
        PROVE  N(j) \in 1..ZBits /\ Interleaving[N(j)] = d /\ Left(d, N(j)) = j
    <3>1. \E n \in 1..ZBits : Interleaving[n] = d /\ Left(d, n) = j
      BY <2>1, <2>2, HalvingOfBit
    <3> QED
      BY <3>1
  <2>3. ASSUME NEW m \in 1..ZBits, NEW n \in 1..ZBits, m < n,
               Interleaving[m] = d, Interleaving[n] = d
        PROVE  Left(d, m) # Left(d, n)
    <3> DEFINE p == n - 1
    <3>1. p \in 0..ZBits /\ p < ZBits /\ p + 1 = n /\ m \in 0..ZBits /\ p \in m..ZBits
          /\ n \in 0..ZBits
      BY <2>1, <2>3
    <3> HIDE DEF p
    <3>2. Left(d, p) = Left(d, n) + 1 /\ Left(d, p) <= Left(d, m)
      BY <2>3, <3>1, LeftFacts, LeftDecreases
    <3>3. Left(d, n) \in Nat /\ Left(d, m) \in Nat
      BY <3>1, LeftFacts
    <3> QED
      BY ONLY <3>2, <3>3
  <2>4. f \in [0..(X - 1) -> {0, 1}]
    BY <2>2
  <2> HIDE DEF f
  <2>5. PICK y \in Nat : y < 2^X /\ \A j \in 0..(X - 1) : BitAt(y, j) = f[j]
    BY <2>1, <2>4, NumberOfBits
  <2>6. y \in Coordinate(d)
    BY <2>5, CoordinateIs
  <2>7. ASSUME NEW n \in 1..ZBits, Interleaving[n] = d
        PROVE  BitAt(y, Left(d, n)) = c[n]
    <3> DEFINE j == Left(d, n)
               m == N(j)
    <3>1. j \in 0..(X - 1)
      BY <2>1, <2>7, BitOfHalving
    <3>2. m \in 1..ZBits /\ Interleaving[m] = d /\ Left(d, m) = j
      BY <2>2, <3>1
    <3> HIDE DEF m
    <3>3. ~(m < n) /\ ~(n < m)
      BY <2>3, <2>7, <3>2
    <3>4. m = n
      BY ONLY <2>1, <3>2, <3>3
    <3> QED
      BY <2>5, <3>1, <3>4 DEF f, m
  <2> QED
    BY <2>6, <2>7
<1> DEFINE x == [d \in Dims |-> CHOOSE y \in Coordinate(d) : Fits(d, y)]
<1> HIDE DEF Fits
<1>2. \A d \in Dims : x[d] \in Coordinate(d) /\ Fits(d, x[d])
  BY <1>1
<1>3. x \in Point
  <2>1. x \in [Dims -> UNION {Coordinate(d) : d \in Dims}]
    BY <1>2
  <2> QED
    BY <1>2, <2>1 DEF Point
<1> HIDE DEF x
<1>4. ASSUME NEW n \in 1..ZBits
      PROVE  Shuffled(x, ZBits)[n] = c[n]
  <2>1. ZBits \in 0..ZBits /\ Interleaving[n] \in Dims
    BY ZBitsIsPositive, InterleavingAssumption DEF ZBits
  <2>2. Shuffled(x, ZBits)[n] = BitAt(x[Interleaving[n]], Left(Interleaving[n], n))
    BY <2>1, PathBit
  <2> QED
    BY <1>2, <2>1, <2>2 DEF Fits
<1>5. Shuffled(x, ZBits) \in [1..ZBits -> {0, 1}]
  <2>1. ZBits \in 0..ZBits
    BY ZBitsIsPositive
  <2> QED
    BY ONLY <1>3, <2>1, ShuffledIsPath
<1>6. Shuffled(x, ZBits) = c
  <2> DEFINE s == Shuffled(x, ZBits)
             S == 1..ZBits
  <2>1. s \in [S -> {0, 1}] /\ c \in [S -> {0, 1}]
    BY <1>5
  <2>2. \A n \in S : s[n] = c[n]
    BY <1>4
  <2> HIDE DEF s, S
  <2>3. s = [n \in S |-> s[n]] /\ c = [n \in S |-> c[n]]
    BY ONLY <2>1
  <2>4. [n \in S |-> s[n]] = [n \in S |-> c[n]]
    BY ONLY <2>2
  <2> QED
    BY ONLY <2>3, <2>4 DEF s
<1> QED
  BY <1>3, <1>6

-----------------------------------------------------------------------------
\* The cells of a path.
CellsOn(z) == {c \in [1..ZBits -> {0, 1}] : \A n \in 1..Len(z) : c[n] = z[n]}

IsBox(b) == b.lo \in Point /\ b.hi \in Point /\ \A d \in Dims : b.lo[d] <= b.hi[d]

InBox(b, x) == \A d \in Dims : b.lo[d] <= x[d] /\ x[d] <= b.hi[d]

LEMMA RegionPath ==
    ASSUME NEW r, Aligned(r)
    PROVE  /\ RegionZ(r) \in Seq({0, 1}) /\ Len(RegionZ(r)) = r.level
           /\ r.level \in 0..ZBits
<1>1. r.lo \in Point /\ r.level \in 0..ZBits /\ ZBits \in Nat
  BY ZBitsIsPositive DEF Aligned, RegionRecord
<1>2. RegionZ(r) \in [1..r.level -> {0, 1}]
  BY <1>1, ShuffledIsPath DEF RegionZ
<1> QED
  BY <1>1, <1>2

LEMMA CellOfRegion ==
    ASSUME NEW r, Aligned(r), NEW x \in Point
    PROVE  Shuffled(x, ZBits) \in CellsOn(RegionZ(r)) <=> InSides(r, x)
<1>1. Shuffled(x, ZBits) \in [1..ZBits -> {0, 1}] /\ Len(RegionZ(r)) = r.level
  BY ShuffledIsPath, ZBitsIsPositive, RegionPath
<1> QED
  BY <1>1, InRegionIsOnPath DEF CellsOn, OnPath

LEMMA CellOfBox ==
    ASSUME NEW b, NEW x \in Point
    PROVE  Shuffled(x, ZBits) \in CellsOfBox(b) <=> InBox(b, x)
  BY PathsDiffer DEF CellsOfBox, InBox

\* Statements about cells are statements about points.
LEMMA CellsAreShuffled ==
    /\ \A z : \A c \in CellsOn(z) : \E x \in Point : c = Shuffled(x, ZBits)
    /\ \A b : \A c \in CellsOfBox(b) : \E x \in Point : c = Shuffled(x, ZBits)
  BY EveryPathIsPoint DEF CellsOn, CellsOfBox

LEMMA SidesInOrder ==
    ASSUME NEW r, Aligned(r)
    PROVE  /\ r.lo \in Point /\ r.hi \in Point
           /\ \A d \in Dims : r.lo[d] \in Nat /\ r.hi[d] \in Nat /\ r.lo[d] <= r.hi[d]
<1>1. r.lo \in Point /\ r.hi \in Point /\ \A d \in Dims : r.xBit[d] \in Nat
  BY DEF Aligned, RegionRecord
<1>2. \A d \in Dims : r.lo[d] \in Nat /\ r.hi[d] \in Nat /\ r.lo[d] <= r.hi[d]
  BY <1>1, JoinSide DEF Aligned
<1> QED
  BY <1>1, <1>2

\* Box2::containedBy
LEMMA ContainedCells ==
    ASSUME NEW b, IsBox(b), NEW r, Aligned(r)
    PROVE  ContainedBy(b, r) <=> CellsOfBox(b) \subseteq CellsOn(RegionZ(r))
<1> DEFINE A == \A x \in Point : InBox(b, x) => InSides(r, x)
<1>1. CellsOfBox(b) \subseteq CellsOn(RegionZ(r)) <=> A
  BY CellOfRegion, CellOfBox, CellsAreShuffled
<1>2. /\ \A d \in Dims : b.lo[d] \in Nat /\ b.hi[d] \in Nat /\ b.lo[d] <= b.hi[d]
      /\ \A x \in Point : \A d \in Dims : x[d] \in Nat
      /\ \A d \in Dims : r.lo[d] \in Nat /\ r.hi[d] \in Nat
  BY PointIsFunction, SidesInOrder DEF IsBox
<1>3. ContainedBy(b, r) => A
  BY <1>2 DEF ContainedBy, InBox, InSides
<1>4. ASSUME A PROVE ContainedBy(b, r)
  <2>1. b.lo \in Point /\ b.hi \in Point /\ InBox(b, b.lo) /\ InBox(b, b.hi)
    BY <1>2 DEF IsBox, InBox
  <2>2. InSides(r, b.lo) /\ InSides(r, b.hi)
    BY <1>4, <2>1
  <2> QED
    BY <2>2 DEF ContainedBy, InSides
<1> HIDE DEF A
<1> QED
  BY <1>1, <1>3, <1>4

\* Box2::compare: the region is inside the box.
LEMMA InsideCells ==
    ASSUME NEW b, IsBox(b), NEW r, Aligned(r)
    PROVE  InsideBox(b, r) <=> CellsOn(RegionZ(r)) \subseteq CellsOfBox(b)
<1> DEFINE A == \A x \in Point : InSides(r, x) => InBox(b, x)
<1>1. CellsOn(RegionZ(r)) \subseteq CellsOfBox(b) <=> A
  BY CellOfRegion, CellOfBox, CellsAreShuffled
<1>2. /\ \A d \in Dims : b.lo[d] \in Nat /\ b.hi[d] \in Nat
      /\ \A x \in Point : \A d \in Dims : x[d] \in Nat
      /\ r.lo \in Point /\ r.hi \in Point
      /\ \A d \in Dims : r.lo[d] \in Nat /\ r.hi[d] \in Nat /\ r.lo[d] <= r.hi[d]
  BY PointIsFunction, SidesInOrder DEF IsBox
<1>3. InsideBox(b, r) => A
  BY <1>2 DEF InsideBox, InBox, InSides
<1>4. ASSUME A PROVE InsideBox(b, r)
  <2>1. InSides(r, r.lo) /\ InSides(r, r.hi)
    BY <1>2 DEF InSides
  <2>2. InBox(b, r.lo) /\ InBox(b, r.hi)
    BY <1>2, <1>4, <2>1
  <2> QED
    BY <2>2 DEF InsideBox, InBox
<1> HIDE DEF A
<1> QED
  BY <1>1, <1>3, <1>4

\* Box2::compare: the region and the box have no point in common.
LEMMA OutsideCells ==
    ASSUME NEW b, IsBox(b), NEW r, Aligned(r)
    PROVE  OutsideBox(b, r) <=> CellsOfBox(b) \cap CellsOn(RegionZ(r)) = {}
<1> DEFINE A == \A x \in Point : ~(InSides(r, x) /\ InBox(b, x))
           B == \E d \in Dims : r.hi[d] < b.lo[d] \/ r.lo[d] > b.hi[d]
<1>1. CellsOfBox(b) \cap CellsOn(RegionZ(r)) = {} <=> A
  BY CellOfRegion, CellOfBox, CellsAreShuffled
<1>2. /\ b.lo \in Point /\ b.hi \in Point
      /\ \A d \in Dims : b.lo[d] \in Nat /\ b.hi[d] \in Nat /\ b.lo[d] <= b.hi[d]
      /\ \A x \in Point : \A d \in Dims : x[d] \in Nat
      /\ r.lo \in Point /\ r.hi \in Point
      /\ \A d \in Dims : r.lo[d] \in Nat /\ r.hi[d] \in Nat /\ r.lo[d] <= r.hi[d]
  BY PointIsFunction, SidesInOrder DEF IsBox
<1>3. B => A
  BY <1>2 DEF InBox, InSides
<1>4. ASSUME A PROVE B
  <2> SUFFICES ASSUME ~B PROVE FALSE
    OBVIOUS
  <2>1. \A d \in Dims : b.lo[d] <= r.hi[d] /\ r.lo[d] <= b.hi[d]
    BY <1>2
  <2> DEFINE x == [d \in Dims |-> IF r.lo[d] <= b.lo[d] THEN b.lo[d] ELSE r.lo[d]]
  <2>2. x \in Point
    BY <1>2 DEF Point
  <2>3. \A d \in Dims : /\ r.lo[d] <= x[d] /\ x[d] <= r.hi[d]
                        /\ b.lo[d] <= x[d] /\ x[d] <= b.hi[d]
    BY <1>2, <2>1
  <2>4. InSides(r, x) /\ InBox(b, x)
    BY <2>3 DEF InSides, InBox
  <2> QED
    BY <1>4, <2>2, <2>4
<1>5. ASSUME A PROVE ~InsideBox(b, r)
  <2> SUFFICES ASSUME InsideBox(b, r) PROVE FALSE
    OBVIOUS
  <2>1. InSides(r, r.lo) /\ InBox(b, r.lo)
    BY <1>2 DEF InSides, InBox, InsideBox
  <2> QED
    BY <1>2, <1>5, <2>1
<1>6. OutsideBox(b, r) <=> ~InsideBox(b, r) /\ B
  BY DEF OutsideBox
<1> HIDE DEF A, B
<1> QED
  BY <1>1, <1>3, <1>4, <1>5, <1>6

\* The path of a half is that of the region and one turn.
LEMMA HalfPath ==
    ASSUME NEW h, Aligned(h), h.level > 0
    PROVE  /\ RegionZ(RegionUp(h)) = SubSeq(RegionZ(h), 1, Len(RegionZ(h)) - 1)
           /\ RegionZ(h) = Append(RegionZ(RegionUp(h)),
                                  BitAt(h.lo[Divided(h.level - 1)],
                                        Left(Divided(h.level - 1), h.level)))
<1> DEFINE u == RegionUp(h)
           l == h.level - 1
<1>1. /\ Aligned(u) /\ u.level = l
      /\ \A d \in Dims : u.lo[d] <= h.lo[d] /\ h.hi[d] <= u.hi[d]
  BY UpAligned
<1>2. /\ RegionZ(u) \in Seq({0, 1}) /\ Len(RegionZ(u)) = l
      /\ RegionZ(h) \in Seq({0, 1}) /\ Len(RegionZ(h)) = h.level
      /\ h.level \in 0..ZBits /\ l \in Nat /\ h.level = l + 1 /\ ZBits \in Nat
  BY <1>1, RegionPath, ZBitsIsPositive
<1> HIDE DEF u
<1>3. InSides(u, h.lo)
  <2>1. /\ \A d \in Dims : h.lo[d] \in Nat /\ h.hi[d] \in Nat /\ h.lo[d] <= h.hi[d]
        /\ \A d \in Dims : u.lo[d] \in Nat /\ u.hi[d] \in Nat
    BY <1>1, SidesInOrder
  <2> QED
    BY <1>1, <2>1 DEF InSides
<1>4. OnPath(u, h.lo)
  BY <1>1, <1>3, InRegionIsOnPath, SidesInOrder
<1>5. ASSUME NEW n \in 1..l
      PROVE  RegionZ(u)[n] = RegionZ(h)[n]
  <2>1. Shuffled(h.lo, ZBits)[n] = RegionZ(u)[n]
    BY <1>1, <1>4 DEF OnPath
  <2>2. n \in 1..ZBits /\ n \in 1..h.level /\ ZBits \in 0..ZBits
    BY <1>2
  <2>3. Shuffled(h.lo, ZBits)[n] = Shuffled(h.lo, h.level)[n]
    BY <1>2, <2>2, PathBit
  <2> QED
    BY <2>1, <2>3 DEF RegionZ
<1>6. RegionZ(h)[h.level] = BitAt(h.lo[Divided(l)], Left(Divided(l), h.level))
  <2>1. h.level \in 1..h.level
    BY <1>2
  <2>2. RegionZ(h)[h.level] = BitAt(h.lo[Interleaving[h.level]], Left(Interleaving[h.level], h.level))
    BY <1>2, <2>1, PathBit DEF RegionZ
  <2> QED
    BY <1>2, <2>2 DEF Divided
<1> DEFINE z == RegionZ(h)
           y == RegionZ(u)
           e == BitAt(h.lo[Divided(l)], Left(Divided(l), h.level))
<1>7. /\ y \in Seq({0, 1}) /\ Len(y) = l /\ z \in Seq({0, 1}) /\ Len(z) = l + 1 /\ l \in Nat
      /\ z[l + 1] = e /\ \A n \in 1..l : y[n] = z[n]
  BY <1>2, <1>5, <1>6
<1> HIDE DEF z, y, l, e
<1>8. e \in {0, 1}
  BY <1>7
<1>9. y = SubSeq(z, 1, l)
  BY ONLY <1>7
<1>10. z = Append(y, e)
  BY ONLY <1>7, <1>8
<1> QED
  BY <1>7, <1>9, <1>10 DEF z, y, l, e, u

LEMMA ChildPaths ==
    ASSUME NEW r, Aligned(r), r.level < ZBits
    PROVE  /\ RegionZ(DownLeft(r)) = Append(RegionZ(r), 0)
           /\ RegionZ(DownRight(r)) = Append(RegionZ(r), 1)
<1> DEFINE lf == DownLeft(r)
           rt == DownRight(r)
           d == Divided(r.level)
           k == Left(d, r.level + 1)
<1>1. r.level \in Nat
  BY DEF Aligned, RegionRecord
<1>2. /\ Aligned(lf) /\ lf.level = r.level + 1 /\ RegionUp(lf) = r
      /\ Aligned(rt) /\ rt.level = r.level + 1 /\ RegionUp(rt) = r
      /\ BitAt(lf.lo[d], k) = 0 /\ BitAt(rt.lo[d], k) = 1
  BY Halves
<1> HIDE DEF lf, rt
<1>3. lf.level > 0 /\ rt.level > 0 /\ lf.level - 1 = r.level /\ rt.level - 1 = r.level
  BY <1>1, <1>2
<1>4. RegionZ(lf) = Append(RegionZ(r), BitAt(lf.lo[d], k))
  BY ONLY <1>2, <1>3, HalfPath
<1>5. RegionZ(rt) = Append(RegionZ(r), BitAt(rt.lo[d], k))
  BY ONLY <1>2, <1>3, HalfPath
<1> QED
  BY <1>2, <1>4, <1>5 DEF lf, rt


-----------------------------------------------------------------------------
\* The pool before it grows: the regions of the slots in U are in use.
Slot == 0..(InitialCapacity - 1)
Pointer == {0} \X Slot
PoolUsing(U) == [array |-> 0, capacity |-> InitialCapacity,
                 free |-> [s \in Slot |-> s \notin U]]

LEMMA NewPoolIsUnused == Pool!NewPool = PoolUsing({})
  BY DEF Pool!NewPool, PoolUsing, Slot

LEMMA FreeIsUnused ==
    ASSUME NEW U
    PROVE  Pool!Free(PoolUsing(U)) = Slot \ U
  BY DEF Pool!Free, PoolUsing, Slot

\* Setting one flag leaves the rest of the pool as it is.
LEMMA FlagSet ==
    ASSUME NEW pl, pl = [array |-> pl.array, capacity |-> pl.capacity, free |-> pl.free],
           NEW s
    PROVE  /\ [pl EXCEPT !.free[s] = TRUE] =
                [array |-> pl.array, capacity |-> pl.capacity,
                 free |-> [pl.free EXCEPT ![s] = TRUE]]
           /\ [pl EXCEPT !.free[s] = FALSE] =
                [array |-> pl.array, capacity |-> pl.capacity,
                 free |-> [pl.free EXCEPT ![s] = FALSE]]
<1> DEFINE g1 == [pl.free EXCEPT ![s] = TRUE]
           g2 == [pl.free EXCEPT ![s] = FALSE]
<1>1. /\ [pl EXCEPT !.free[s] = TRUE] = [pl EXCEPT !.free = g1]
      /\ [pl EXCEPT !.free[s] = FALSE] = [pl EXCEPT !.free = g2]
  OBVIOUS
<1> HIDE DEF g1, g2
<1>2. /\ [pl EXCEPT !.free = g1] = [array |-> pl.array, capacity |-> pl.capacity, free |-> g1]
      /\ [pl EXCEPT !.free = g2] = [array |-> pl.array, capacity |-> pl.capacity, free |-> g2]
  OBVIOUS
<1> QED
  BY <1>1, <1>2 DEF g1, g2

\* While a slot is unused the pool does not grow.
LEMMA TakenIsFresh ==
    ASSUME NEW U, Slot \ U # {}, NEW t \in Pool!Taken(PoolUsing(U))
    PROVE  /\ t.region \in Pointer /\ t.region[2] \notin U
           /\ t.pool = PoolUsing(U \cup {t.region[2]})
<1> DEFINE pl == PoolUsing(U)
           f == Pool!FirstFree(pl)
<1>1. Pool!Free(pl) = Slot \ U
  BY FreeIsUnused
<1>2. f \in Slot \ U
  <2>1. Slot \ U \in SUBSET Nat
    BY InitialCapacityAssumption DEF Slot
  <2>2. \E p \in Slot \ U : \A q \in Slot \ U : p <= q
    BY <2>1, LeastElement
  <2> QED
    BY <1>1, <2>2 DEF Pool!FirstFree
<1>3. t = [pool |-> [pl EXCEPT !.free[f] = FALSE], region |-> <<pl.array, f>>]
  BY <1>1 DEF Pool!Taken
<1>4. pl.array = 0
  BY DEF PoolUsing
<1>5. t.region = <<0, f>> /\ t.pool = [pl EXCEPT !.free[f] = FALSE]
  BY <1>3, <1>4
<1> HIDE DEF f
<1>6. [pl EXCEPT !.free[f] = FALSE] = PoolUsing(U \cup {f})
  <2>1. pl.free = [s \in Slot |-> s \notin U]
    BY DEF PoolUsing
  <2>2. [pl.free EXCEPT ![f] = FALSE] = [s \in Slot |-> s \notin U \cup {f}]
    BY <1>2, <2>1
  <2>3. [pl EXCEPT !.free[f] = FALSE]
          = [array |-> 0, capacity |-> InitialCapacity,
             free |-> [pl.free EXCEPT ![f] = FALSE]]
    <3>1. /\ pl = [array |-> pl.array, capacity |-> pl.capacity, free |-> pl.free]
          /\ pl.array = 0 /\ pl.capacity = InitialCapacity
      BY DEF PoolUsing
    <3> HIDE DEF pl
    <3> QED
      BY ONLY <3>1, FlagSet
  <2> QED
    BY <2>2, <2>3 DEF PoolUsing
<1> HIDE DEF f
<1>7. t.region[2] = f /\ t.region \in Pointer
  BY <1>2, <1>5 DEF Pointer
<1> QED
  BY <1>2, <1>5, <1>6, <1>7

LEMMA ReturnedIsUnused ==
    ASSUME NEW U, NEW s \in Slot
    PROVE  Pool!Returned(PoolUsing(U), <<0, s>>) = PoolUsing(U \ {s})
<1> DEFINE pl == PoolUsing(U)
<1>1. pl.free = [n \in Slot |-> n \notin U]
  BY DEF PoolUsing
<1>2. [pl.free EXCEPT ![s] = TRUE] = [n \in Slot |-> n \notin U \ {s}]
  BY <1>1
<1>3. [pl EXCEPT !.free[s] = TRUE]
        = [array |-> 0, capacity |-> InitialCapacity, free |-> [pl.free EXCEPT ![s] = TRUE]]
  <2>1. /\ pl = [array |-> pl.array, capacity |-> pl.capacity, free |-> pl.free]
        /\ pl.array = 0 /\ pl.capacity = InitialCapacity
    BY DEF PoolUsing
  <2> HIDE DEF pl
  <2> QED
    BY ONLY <2>1, FlagSet
<1> QED
  BY <1>2, <1>3 DEF PoolUsing, Pool!Returned

-----------------------------------------------------------------------------
\* The slots of the regions in a queue.
SlotsOf(q) == {p[2] : p \in Range(q)}

LEMMA TailQueue ==
    ASSUME NEW q \in Seq(Pointer), q # << >>, IsInjective(q)
    PROVE  /\ Tail(q) \in Seq(Pointer) /\ IsInjective(Tail(q))
           /\ Head(q) \in Pointer /\ Head(q)[2] \in SlotsOf(q)
           /\ SlotsOf(Tail(q)) = SlotsOf(q) \ {Head(q)[2]}
<1>1. /\ Len(q) \in Nat /\ Len(q) > 0 /\ DOMAIN q = 1..Len(q)
      /\ Tail(q) \in Seq(Pointer) /\ Len(Tail(q)) = Len(q) - 1
      /\ DOMAIN Tail(q) = 1..(Len(q) - 1)
      /\ Head(q) = q[1] /\ \A n \in 1..(Len(q) - 1) : Tail(q)[n] = q[n + 1]
  OBVIOUS
<1>2. \A n \in 1..Len(q) : q[n] \in Pointer
  OBVIOUS
<1>3. \A m, n \in 1..Len(q) : q[m] = q[n] => m = n
  BY <1>1 DEF IsInjective
<1> DEFINE L == Len(q)
           t == Tail(q)
<1>4. /\ L \in Nat /\ L > 0 /\ DOMAIN t = 1..(L - 1) /\ DOMAIN q = 1..L
      /\ \A n \in 1..(L - 1) : t[n] = q[n + 1]
  BY <1>1
<1> HIDE DEF L, t
<1>5. IsInjective(t)
  BY <1>3, <1>4 DEF IsInjective, L
<1>6. Range(t) = Range(q) \ {q[1]}
  <2>1. Range(t) \subseteq Range(q) \ {q[1]}
    BY <1>3, <1>4 DEF Range, L
  <2>2. ASSUME NEW n \in 1..L, n # 1 PROVE q[n] \in Range(t)
    <3>1. n - 1 \in 1..(L - 1) /\ t[n - 1] = q[n]
      BY <1>4, <2>2
    <3> QED
      BY <1>4, <3>1 DEF Range
  <2>3. \A p \in Range(q) : \E n \in 1..L : p = q[n]
    BY <1>4 DEF Range
  <2>4. Range(q) \ {q[1]} \subseteq Range(t)
    BY <2>2, <2>3
  <2> QED
    BY <2>1, <2>4
<1>7. q[1] \in Range(q) /\ Range(q) \subseteq Pointer
  BY <1>2, <1>4 DEF Range, L
<1>8. \A p, r \in Pointer : p[2] = r[2] => p = r
  BY DEF Pointer
<1>9. SlotsOf(t) = SlotsOf(q) \ {q[1][2]}
  BY <1>6, <1>7, <1>8 DEF SlotsOf
<1>10. q[1][2] \in SlotsOf(q)
  BY <1>7 DEF SlotsOf
<1> QED
  BY <1>1, <1>5, <1>7, <1>9, <1>10 DEF t

LEMMA AppendQueue ==
    ASSUME NEW q \in Seq(Pointer), IsInjective(q),
           NEW p \in Pointer, p[2] \notin SlotsOf(q)
    PROVE  /\ Append(q, p) \in Seq(Pointer) /\ IsInjective(Append(q, p))
           /\ SlotsOf(Append(q, p)) = SlotsOf(q) \cup {p[2]}
<1> DEFINE a == Append(q, p)
           L == Len(q)
<1>1. /\ L \in Nat /\ DOMAIN q = 1..L
      /\ a \in Seq(Pointer) /\ DOMAIN a = 1..(L + 1)
      /\ a[L + 1] = p /\ \A n \in 1..L : a[n] = q[n]
  OBVIOUS
<1> HIDE DEF a, L
<1>2. p \notin Range(q)
  BY DEF SlotsOf
<1>3. \A m, n \in 1..L : q[m] = q[n] => m = n
  BY <1>1 DEF IsInjective
<1>4. \A n \in 1..L : q[n] # p
  BY <1>1, <1>2 DEF Range
<1>5. 1..(L + 1) = 1..L \cup {L + 1}
  BY <1>1
<1>6. IsInjective(a)
  BY <1>1, <1>3, <1>4, <1>5 DEF IsInjective
<1>7. Range(a) = Range(q) \cup {p}
  BY <1>1, <1>5 DEF Range
<1> QED
  BY <1>1, <1>6, <1>7 DEF SlotsOf, a

LEMMA NoQueue ==
    /\ << >> \in Seq(Pointer) /\ IsInjective(<< >>) /\ SlotsOf(<< >>) = {}
  BY DEF IsInjective, SlotsOf, Range

\* A queue shorter than the pool leaves a slot unused.
LEMMA ShortQueue ==
    ASSUME NEW q \in Seq(Pointer), Len(q) < InitialCapacity
    PROVE  Slot \ SlotsOf(q) # {}
<1> SUFFICES ASSUME Slot \subseteq SlotsOf(q)
             PROVE  FALSE
  OBVIOUS
<1> DEFINE L == Len(q)
           D == 1..L
           f == [n \in D |-> q[n][2]]
<1>1. L \in Nat /\ DOMAIN q = D /\ \A n \in D : q[n] \in Pointer
  OBVIOUS
<1>2. InitialCapacity \in Nat /\ L < InitialCapacity
  BY InitialCapacityAssumption
<1>3. IsFiniteSet(D) /\ Cardinality(D) = L
  <2> HIDE DEF L
  <2>1. 1 \in Int /\ L \in Int
    BY <1>1
  <2> QED
    BY <1>1, <2>1, FS_Interval
<1>4. IsFiniteSet(Slot) /\ Cardinality(Slot) = InitialCapacity
  <2>1. 0 \in Int /\ InitialCapacity - 1 \in Int
    BY <1>2
  <2> QED
    <3> DEFINE n == InitialCapacity - 1
    <3>1. IsFiniteSet(0..n) /\ Cardinality(0..n) = IF 0 > n THEN 0 ELSE n - 0 + 1
      BY <2>1, FS_Interval
    <3> QED
      BY <1>2, <3>1 DEF Slot
<1>5. SlotsOf(q) = Slot
  BY <1>1 DEF SlotsOf, Range, Pointer
<1>6. f \in Surjection(D, Slot)
  <2>1. f \in [D -> Slot]
    BY <1>1 DEF Pointer
  <2>2. \A s \in Slot : \E n \in D : f[n] = s
    BY <1>1, <1>5 DEF SlotsOf, Range
  <2> QED
    BY <2>1, <2>2 DEF Surjection
<1> HIDE DEF D, f
<1>7. Cardinality(Slot) <= Cardinality(D)
  BY <1>3, <1>6, FS_Surjection
<1> QED
  BY <1>1, <1>2, <1>3, <1>4, <1>7

-----------------------------------------------------------------------------
(***************************************************************************)
(* The invariant.                                                          *)
(***************************************************************************)

UsedSlots == {p[2] : p \in Used}

\* The pool and the Region objects are those of the slots in U.
HeldIs(U, pl, mem) ==
    /\ U \subseteq Slot
    /\ pl = PoolUsing(U)
    /\ DOMAIN mem = U
    /\ \A s \in U : Aligned(mem[s])

CallState ==
    /\ pc \in {"idle", "enclose", "split", "merge", "done"}
    /\ pc # "idle" => box \in Boxes /\ maxZ \in MaxZs
    /\ pc = "enclose" => cur \in Pointer
    /\ pc # "split" => queue = << >>

IInv ==
    /\ CallState
    /\ queue \in Seq(Pointer) /\ IsInjective(queue)
    /\ HeldIs(UsedSlots, pool, memory)
    /\ zs \in Seq(Z!Region)
    /\ i \in Nat \ {0}

\* In the loop the regions in use are the queued ones.
LEMMA UsedIsQueued ==
    ASSUME pc # "enclose"
    PROVE  UsedSlots = SlotsOf(queue)
  BY DEF UsedSlots, Used, SlotsOf

LEMMA ZIsRegion ==
    ASSUME NEW r, Aligned(r)
    PROVE  RegionZ(r) \in Z!Region
<1>1. r.lo \in Point /\ r.level \in 0..ZBits /\ ZBits \in Nat
  BY ZBitsIsPositive DEF Aligned, RegionRecord
<1>2. RegionZ(r) \in [1..r.level -> {0, 1}]
  BY <1>1, ShuffledIsPath DEF RegionZ
<1>3. RegionZ(r) \in Seq({0, 1}) /\ Len(RegionZ(r)) = r.level
  BY <1>1, <1>2
<1> QED
  BY <1>1, <1>3 DEF Z!Region, Z!Bit

LEMMA StoredHeld ==
    ASSUME NEW U, DOMAIN memory = U, \A s \in U : Aligned(memory[s]),
           NEW p \in Pointer, NEW r, Aligned(r)
    PROVE  /\ DOMAIN Stored(p, r) = U \cup {p[2]}
           /\ Stored(p, r)[p[2]] = r
           /\ \A s \in U \cup {p[2]} : Aligned(Stored(p, r)[s])
  BY DEF Stored

LEMMA WithoutHeld ==
    ASSUME NEW U, DOMAIN memory = U, \A s \in U : Aligned(memory[s]),
           NEW p \in Pointer
    PROVE  /\ DOMAIN Without(p) = U \ {p[2]}
           /\ \A s \in U \ {p[2]} : Aligned(Without(p)[s])
  BY DEF Without, Restrict

\* The state the loop takes a region in.
LEMMA TakingFacts ==
    ASSUME IInv, NEW b, Taking(b)
    PROVE  /\ pc = "split" /\ pc' = "split" /\ UNCHANGED <<box, maxZ, cur, i, merge>>
           /\ Head(queue) = <<0, Head(queue)[2]>> /\ Head(queue)[2] \in Slot
           /\ HeldIs(SlotsOf(queue), pool, memory)
           /\ Head(queue)[2] \in SlotsOf(queue)
           /\ Tail(queue) \in Seq(Pointer) /\ IsInjective(Tail(queue))
           /\ SlotsOf(Tail(queue)) = SlotsOf(queue) \ {Head(queue)[2]}
           /\ Head(queue) \in Pointer
           /\ Aligned(Region)
<1>1. pc = "split" /\ queue # << >> /\ pc' = "split" /\ UNCHANGED <<box, maxZ, cur, i, merge>>
  BY DEF Taking
<1>2. queue \in Seq(Pointer) /\ IsInjective(queue) /\ HeldIs(SlotsOf(queue), pool, memory)
  BY <1>1, UsedIsQueued DEF IInv
<1>3. /\ Tail(queue) \in Seq(Pointer) /\ IsInjective(Tail(queue))
      /\ Head(queue) \in Pointer /\ Head(queue)[2] \in SlotsOf(queue)
      /\ SlotsOf(Tail(queue)) = SlotsOf(queue) \ {Head(queue)[2]}
  BY <1>1, <1>2, TailQueue
<1>4. Head(queue) = <<0, Head(queue)[2]>> /\ Head(queue)[2] \in Slot
  BY <1>3 DEF Pointer
<1>5. Aligned(Region)
  BY <1>2, <1>3 DEF HeldIs, Region, At
<1> QED
  BY <1>1, <1>2, <1>3, <1>4, <1>5

\* What the loop has to keep.
LEMMA LoopKeeps ==
    ASSUME IInv, NEW b, Taking(b),
           queue' \in Seq(Pointer), IsInjective(queue'),
           HeldIs(SlotsOf(queue'), pool', memory'),
           zs' \in Seq(Z!Region)
    PROVE  IInv'
<1>1. pc = "split" /\ pc' = "split" /\ UNCHANGED <<box, maxZ, cur, i, merge>>
  BY DEF Taking
<1>2. UsedSlots' = SlotsOf(queue')
  BY <1>1 DEF UsedSlots, Used, SlotsOf
<1>3. CallState'
  BY <1>1 DEF IInv, CallState
<1> QED
  BY <1>1, <1>2, <1>3 DEF IInv

\* When another region is queued the pool still has one that is not in use.
LEMMA RoomInPool ==
    ASSUME IInv, NEW b, Taking(b), Room
    PROVE  Slot \ SlotsOf(queue) # {}
<1>1. maxZ \in 1..InitialCapacity /\ InitialCapacity \in Nat
  BY MaxZsAssumption, InitialCapacityAssumption DEF IInv, CallState, Taking
<1>2. queue \in Seq(Pointer) /\ queue # << >> /\ zs \in Seq(Z!Region)
  BY DEF IInv, Taking
<1>3. /\ Len(queue) \in Nat /\ Len(Tail(queue)) = Len(queue) - 1 /\ Len(zs) \in Nat
  BY <1>2
<1>4. Len(Tail(queue)) + 1 + Len(zs) < maxZ
  BY DEF Room
<1>5. Len(queue) < InitialCapacity
  BY ONLY <1>1, <1>3, <1>4
<1> QED
  BY <1>2, <1>5, ShortQueue

LEMMA EmitKeeps ==
    ASSUME IInv, NEW b, Taking(b), NEW r, Aligned(r), Emit(r)
    PROVE  IInv'
<1> DEFINE h == Head(queue)
           U == SlotsOf(queue)
<1>1. /\ h = <<0, h[2]>> /\ h[2] \in Slot /\ h \in Pointer
      /\ HeldIs(U, pool, memory)
      /\ Tail(queue) \in Seq(Pointer) /\ IsInjective(Tail(queue))
      /\ SlotsOf(Tail(queue)) = U \ {h[2]}
  BY TakingFacts
<1>2. queue' = Tail(queue) /\ memory' = Without(h) /\ pool' = Pool!Returned(pool, h)
      /\ zs' = Append(zs, RegionZ(r))
  BY DEF Emit
<1> HIDE DEF h, U
<1>3. pool' = PoolUsing(U \ {h[2]})
  <2>1. Pool!Returned(PoolUsing(U), <<0, h[2]>>) = PoolUsing(U \ {h[2]})
    BY ONLY <1>1, ReturnedIsUnused
  <2>2. pool = PoolUsing(U)
    BY <1>1 DEF HeldIs
  <2> QED
    BY ONLY <1>1, <1>2, <2>1, <2>2
<1>4. DOMAIN memory' = U \ {h[2]} /\ \A s \in U \ {h[2]} : Aligned(memory'[s])
  BY <1>1, <1>2, WithoutHeld DEF HeldIs
<1>5. HeldIs(SlotsOf(queue'), pool', memory')
  BY <1>1, <1>2, <1>3, <1>4 DEF HeldIs
<1>6. zs' \in Seq(Z!Region)
  BY <1>2, ZIsRegion DEF IInv
<1> QED
  BY <1>1, <1>2, <1>5, <1>6, LoopKeeps

LEMMA RequeueKeeps ==
    ASSUME IInv, NEW b, Taking(b), NEW r, Aligned(r), Requeue(r),
           zs' \in Seq(Z!Region)
    PROVE  IInv'
<1> DEFINE h == Head(queue)
           U == SlotsOf(queue)
           t == Tail(queue)
<1>1. /\ h[2] \in Slot /\ h \in Pointer /\ h[2] \in U
      /\ HeldIs(U, pool, memory)
      /\ t \in Seq(Pointer) /\ IsInjective(t)
      /\ SlotsOf(t) = U \ {h[2]}
  BY TakingFacts
<1>2. queue' = Append(t, h) /\ memory' = Stored(h, r) /\ pool' = pool
  BY DEF Requeue
<1> HIDE DEF h, U, t
<1>3. /\ queue' \in Seq(Pointer) /\ IsInjective(queue')
      /\ SlotsOf(queue') = U
  <2>1. h[2] \notin SlotsOf(t)
    BY <1>1
  <2>2. /\ Append(t, h) \in Seq(Pointer) /\ IsInjective(Append(t, h))
        /\ SlotsOf(Append(t, h)) = SlotsOf(t) \cup {h[2]}
    BY ONLY <1>1, <2>1, AppendQueue
  <2> QED
    BY <1>1, <1>2, <2>2
<1>4. DOMAIN memory' = U /\ \A s \in U : Aligned(memory'[s])
  <2>1. U \cup {h[2]} = U
    BY <1>1
  <2> QED
    BY <1>1, <1>2, <2>1, StoredHeld DEF HeldIs
<1>5. HeldIs(SlotsOf(queue'), pool', memory')
  BY <1>1, <1>2, <1>3, <1>4 DEF HeldIs
<1> QED
  BY <1>3, <1>5, LoopKeeps

\* A copy of the right half is queued in place of the region, which is
\* emitted as the left half and given back.
LEMMA EmitLeftKeeps ==
    ASSUME IInv, NEW b, Taking(b), NEW left, NEW right, Aligned(left), Aligned(right),
           RegionUp(right) = Region, DownLeft(Region) = left,
           EmitLeftQueueRight(left, right)
    PROVE  IInv'
<1> DEFINE h == Head(queue)
           U == SlotsOf(queue)
           q == Tail(queue)
<1>1. /\ h = <<0, h[2]>> /\ h[2] \in Slot /\ h \in Pointer /\ h[2] \in U
      /\ HeldIs(U, pool, memory) /\ U \subseteq Slot
      /\ q \in Seq(Pointer) /\ IsInjective(q)
      /\ SlotsOf(q) = U \ {h[2]}
  BY TakingFacts DEF HeldIs
<1>2. Slot \ U # {}
  BY RoomInPool DEF EmitLeftQueueRight
<1>3. PICK t \in Pool!Taken(pool) :
          /\ queue' = Append(q, t.region)
          /\ memory' = Restrict(Stored(t.region, right),
                                (DOMAIN memory \ {h[2]}) \cup {t.region[2]})
          /\ pool' = Pool!Returned(t.pool, h)
  BY DEF EmitLeftQueueRight
<1>4. zs' = Append(zs, RegionZ(left))
  BY DEF EmitLeftQueueRight
<1> HIDE DEF h, U, q
<1> DEFINE n == t.region
           V == (U \ {h[2]}) \cup {n[2]}
<1>5. n \in Pointer /\ n[2] \notin U /\ n[2] \in Slot /\ t.pool = PoolUsing(U \cup {n[2]})
  <2>1. pool = PoolUsing(U)
    BY <1>1 DEF HeldIs
  <2>2. n \in Pointer /\ n[2] \notin U /\ t.pool = PoolUsing(U \cup {n[2]})
    BY <1>2, <1>3, <2>1, TakenIsFresh
  <2> QED
    BY <2>2 DEF Pointer
<1> HIDE DEF n
<1>6. pool' = PoolUsing(V)
  <2>1. Pool!Returned(PoolUsing(U \cup {n[2]}), <<0, h[2]>>)
          = PoolUsing((U \cup {n[2]}) \ {h[2]})
    BY ONLY <1>1, ReturnedIsUnused
  <2>2. (U \cup {n[2]}) \ {h[2]} = V
    BY <1>1, <1>5
  <2> QED
    BY ONLY <1>1, <1>3, <1>5, <2>1, <2>2
<1>7. /\ queue' \in Seq(Pointer) /\ IsInjective(queue')
      /\ SlotsOf(queue') = V
  BY <1>1, <1>3, <1>5, AppendQueue DEF n
<1>8. DOMAIN memory' = V /\ \A s \in V : Aligned(memory'[s])
  <2>1. DOMAIN memory = U /\ \A s \in U : Aligned(memory[s])
    BY <1>1 DEF HeldIs
  <2>2. \A s \in U \cup {n[2]} : Aligned(Stored(n, right)[s])
    BY <1>5, <2>1, StoredHeld
  <2>3. memory' = [s \in V |-> Stored(n, right)[s]]
    BY <1>3, <2>1 DEF Restrict, n
  <2> QED
    BY <2>2, <2>3
<1>9. HeldIs(SlotsOf(queue'), pool', memory')
  BY <1>1, <1>5, <1>6, <1>7, <1>8 DEF HeldIs
<1>10. zs' \in Seq(Z!Region)
  BY <1>4, ZIsRegion DEF IInv
<1> QED
  BY <1>7, <1>9, <1>10, LoopKeeps

\* A copy of the right half and then the region, moved to the left half, are
\* queued.
LEMMA QueueBothKeeps ==
    ASSUME IInv, NEW b, Taking(b), NEW left, NEW right, Aligned(left), Aligned(right),
           RegionUp(right) = Region, DownLeft(Region) = left,
           QueueBoth(left, right)
    PROVE  IInv'
<1> DEFINE h == Head(queue)
           U == SlotsOf(queue)
           q == Tail(queue)
<1>1. /\ h \in Pointer /\ h[2] \in Slot /\ h[2] \in U
      /\ HeldIs(U, pool, memory) /\ U \subseteq Slot
      /\ q \in Seq(Pointer) /\ IsInjective(q)
      /\ SlotsOf(q) = U \ {h[2]}
  BY TakingFacts DEF HeldIs
<1>2. Slot \ U # {}
  BY RoomInPool DEF QueueBoth
<1>3. PICK t \in Pool!Taken(pool) :
          /\ queue' = q \o <<t.region, h>>
          /\ memory' = [Stored(t.region, right) EXCEPT ![h[2]] = left]
          /\ pool' = t.pool
  BY DEF QueueBoth
<1>4. zs' = zs
  BY DEF QueueBoth
<1> HIDE DEF h, U, q
<1> DEFINE n == t.region
           V == U \cup {n[2]}
<1>5. n \in Pointer /\ n[2] \notin U /\ n[2] \in Slot /\ t.pool = PoolUsing(V)
  <2>1. pool = PoolUsing(U)
    BY <1>1 DEF HeldIs
  <2>2. n \in Pointer /\ n[2] \notin U /\ t.pool = PoolUsing(V)
    BY <1>2, <1>3, <2>1, TakenIsFresh
  <2> QED
    BY <2>2 DEF Pointer
<1> HIDE DEF n
<1>6. queue' = Append(Append(q, n), h)
  BY <1>1, <1>3, <1>5 DEF n
<1>7. /\ Append(q, n) \in Seq(Pointer) /\ IsInjective(Append(q, n))
      /\ SlotsOf(Append(q, n)) = (U \ {h[2]}) \cup {n[2]}
  BY <1>1, <1>5, AppendQueue
<1>8. /\ queue' \in Seq(Pointer) /\ IsInjective(queue') /\ SlotsOf(queue') = V
  <2>1. h[2] \notin SlotsOf(Append(q, n))
    BY <1>1, <1>5, <1>7
  <2>2. /\ queue' \in Seq(Pointer) /\ IsInjective(queue')
        /\ SlotsOf(queue') = SlotsOf(Append(q, n)) \cup {h[2]}
    BY ONLY <1>1, <1>6, <1>7, <2>1, AppendQueue
  <2> QED
    BY <1>1, <1>7, <2>2
<1>9. DOMAIN memory' = V /\ \A s \in V : Aligned(memory'[s])
  <2>1. DOMAIN memory = U /\ \A s \in U : Aligned(memory[s])
    BY <1>1 DEF HeldIs
  <2>2. DOMAIN Stored(n, right) = V /\ \A s \in V : Aligned(Stored(n, right)[s])
    BY <1>5, <2>1, StoredHeld
  <2>3. memory' = [Stored(n, right) EXCEPT ![h[2]] = left]
    BY <1>3 DEF n
  <2> QED
    BY <1>1, <2>2, <2>3
<1>10. HeldIs(SlotsOf(queue'), pool', memory')
  BY <1>1, <1>3, <1>5, <1>8, <1>9 DEF HeldIs
<1> QED
  BY <1>4, <1>8, <1>10, LoopKeeps DEF IInv

\* In the loop the halves of the region in hand are aligned, and moving the
\* right one back restores the region.
LEMMA HalvesInHand ==
    ASSUME IInv, Taking(FALSE),
           NEW left, left = DownLeft(Region), NEW right, right = DownRight(RegionUp(left))
    PROVE  /\ Aligned(Region) /\ Aligned(left) /\ Aligned(right)
           /\ RegionUp(right) = Region /\ DownLeft(RegionUp(right)) = left
           /\ right = DownRight(Region) /\ Region.level < ZBits
<1>1. Aligned(Region)
  BY TakingFacts
<1>2. Region.level \in 0..ZBits /\ Region.level # ZBits /\ ZBits \in Nat
  BY <1>1, ZBitsIsPositive DEF Aligned, RegionRecord, Taking, IsPoint
<1>3. Region.level < ZBits
  BY <1>2
<1> HIDE DEF Region
<1> QED
  BY <1>1, <1>3, Halves

LEMMA DivideStep ==
    ASSUME IInv, Divide
    PROVE  IInv'
<1>1. Taking(FALSE)
  BY DEF Divide
<1>2. PICK left \in {DownLeft(Region)} : \E right \in {DownRight(RegionUp(left))} :
          \/ DropLeft(left, right) \/ DropRight(left, right) \/ EmitWhole(left, right)
          \/ EmitLeftQueueRight(left, right) \/ EmitRightQueueLeft(left, right)
          \/ QueueBoth(left, right) \/ Coarsen(left, right)
  BY DEF Divide
<1>3. PICK right \in {DownRight(RegionUp(left))} :
          \/ DropLeft(left, right) \/ DropRight(left, right) \/ EmitWhole(left, right)
          \/ EmitLeftQueueRight(left, right) \/ EmitRightQueueLeft(left, right)
          \/ QueueBoth(left, right) \/ Coarsen(left, right)
  BY <1>2
<1>4. /\ Aligned(Region) /\ Aligned(left) /\ Aligned(right)
      /\ RegionUp(right) = Region /\ DownLeft(RegionUp(right)) = left
  BY <1>1, <1>2, <1>3, HalvesInHand
<1> DEFINE U == RegionUp(right)
           D == DownLeft(U)
<1>5. U = Region /\ D = left
  BY <1>4
<1>6. DownLeft(Region) = left
  BY <1>4
<1>7. zs \in Seq(Z!Region)
  BY DEF IInv
<1>8. CASE DropLeft(left, right)
  <2>1. Emit(right) \/ (Requeue(right) /\ zs' = zs)
    BY <1>8 DEF DropLeft
  <2> QED
    BY <1>1, <1>4, <1>7, <2>1, EmitKeeps, RequeueKeeps
<1>9. CASE DropRight(left, right)
  <2>1. Emit(D) \/ (Requeue(D) /\ zs' = zs)
    BY <1>9 DEF DropRight
  <2> QED
    BY <1>1, <1>4, <1>7, <2>1, EmitKeeps, RequeueKeeps
<1>10. CASE EmitWhole(left, right)
  <2>1. Emit(U)
    BY <1>10 DEF EmitWhole
  <2> QED
    BY <1>1, <1>4, <2>1, EmitKeeps
<1>11. CASE EmitLeftQueueRight(left, right)
  BY <1>1, <1>4, <1>6, <1>11, EmitLeftKeeps
<1>12. CASE EmitRightQueueLeft(left, right)
  <2>1. Requeue(D) /\ zs' = Append(zs, RegionZ(right))
    BY <1>12 DEF EmitRightQueueLeft
  <2>2. zs' \in Seq(Z!Region)
    BY <1>4, <1>7, <2>1, ZIsRegion
  <2> QED
    BY <1>1, <1>4, <2>1, <2>2, RequeueKeeps
<1>13. CASE QueueBoth(left, right)
  BY <1>1, <1>4, <1>6, <1>13, QueueBothKeeps
<1>14. CASE Coarsen(left, right)
  <2>1. Emit(U)
    BY <1>14 DEF Coarsen
  <2> QED
    BY <1>1, <1>4, <2>1, EmitKeeps
<1> QED
  BY <1>3, <1>8, <1>9, <1>10, <1>11, <1>12, <1>13, <1>14

LEMMA EmitPointStep ==
    ASSUME IInv, EmitPoint
    PROVE  IInv'
<1>1. Taking(TRUE) /\ Emit(Region)
  BY DEF EmitPoint
<1>2. Aligned(Region)
  BY <1>1, TakingFacts
<1> QED
  BY <1>1, <1>2, EmitKeeps

-----------------------------------------------------------------------------

LEMMA InitStep ==
    ASSUME Init
    PROVE  IInv
<1>1. pc = "idle" /\ queue = << >> /\ zs = << >> /\ i = 1 /\ memory = << >>
      /\ pool = PoolUsing({})
  BY NewPoolIsUnused DEF Init
<1>2. UsedSlots = {}
  BY <1>1, UsedIsQueued, NoQueue
<1>3. HeldIs({}, pool, memory)
  BY <1>1 DEF HeldIs
<1> QED
  BY <1>1, <1>2, <1>3, NoQueue DEF IInv, CallState

LEMMA DecomposeStep ==
    ASSUME IInv, NEW b \in Boxes, NEW m \in MaxZs, Decompose(b, m)
    PROVE  IInv'
<1>1. pc # "enclose" /\ queue = << >>
  BY DEF Decompose, IInv, CallState
<1>2. HeldIs({}, pool, memory)
  BY <1>1, UsedIsQueued, NoQueue DEF IInv
<1>3. Slot \ {} # {}
  <2>1. 0 \in 0..(InitialCapacity - 1)
    BY InitialCapacityAssumption
  <2> QED
    BY <2>1 DEF Slot
<1>4. PICK t \in Pool!Taken(pool) :
          /\ pool' = t.pool /\ cur' = t.region
          /\ memory' = Stored(t.region, Initialized(ArbitraryPoint(b)))
  BY DEF Decompose
<1> DEFINE p == t.region
<1>5. p \in Pointer /\ p[2] \in Slot /\ t.pool = PoolUsing({} \cup {p[2]})
  <2>1. pool = PoolUsing({})
    BY <1>2 DEF HeldIs
  <2>2. p \in Pointer /\ t.pool = PoolUsing({} \cup {p[2]})
    BY <1>3, <1>4, <2>1, TakenIsFresh
  <2> QED
    BY <2>2 DEF Pointer
<1> HIDE DEF p
<1>6. Aligned(Initialized(ArbitraryPoint(b)))
  BY BoxesAssumption, InitializedAligned DEF ArbitraryPoint
<1>7. DOMAIN memory' = {} \cup {p[2]} /\ \A s \in {} \cup {p[2]} : Aligned(memory'[s])
  <2>1. DOMAIN memory = {} /\ \A s \in {} : Aligned(memory[s])
    BY <1>2 DEF HeldIs
  <2>2. memory' = Stored(p, Initialized(ArbitraryPoint(b)))
    BY <1>4 DEF p
  <2> QED
    BY <1>5, <1>6, <2>1, <2>2, StoredHeld
<1>8. pc' = "enclose" /\ box' = b /\ maxZ' = m /\ cur' = p
      /\ queue' = << >> /\ zs' = << >> /\ i' = 1 /\ pool' = t.pool
  BY <1>4 DEF Decompose, p
<1>9. UsedSlots' = {p[2]}
  BY <1>8 DEF UsedSlots, Used
<1>10. HeldIs({p[2]}, pool', memory')
  BY <1>5, <1>7, <1>8 DEF HeldIs
<1>11. CallState'
  BY <1>5, <1>8 DEF CallState
<1> QED
  BY <1>8, <1>9, <1>10, <1>11, NoQueue DEF IInv

\* The region in hand while the enclosing region is searched.
LEMMA EncloseFacts ==
    ASSUME IInv, pc = "enclose"
    PROVE  /\ cur \in Pointer /\ box \in Boxes /\ queue = << >>
           /\ UsedSlots = {cur[2]} /\ HeldIs({cur[2]}, pool, memory)
           /\ cur[2] \in Slot /\ Aligned(At(cur))
<1>1. cur \in Pointer /\ box \in Boxes /\ queue = << >>
  BY DEF IInv, CallState
<1>2. UsedSlots = {cur[2]}
  BY DEF UsedSlots, Used
<1>3. HeldIs({cur[2]}, pool, memory)
  BY <1>2 DEF IInv
<1> QED
  BY <1>1, <1>2, <1>3 DEF HeldIs, At

\* The whole space contains the box, so the search never leaves it.
LEMMA UpBelowWhole ==
    ASSUME IInv, Up
    PROVE  At(cur).level > 0 /\ Aligned(At(cur))
<1>1. Aligned(At(cur)) /\ box \in Boxes /\ ~ContainedBy(box, At(cur))
  BY EncloseFacts DEF Up
<1>2. At(cur).level \in 0..ZBits /\ ZBits \in Nat
  BY <1>1, ZBitsIsPositive DEF Aligned, RegionRecord
<1>3. box.lo \in Point /\ box.hi \in Point
  BY <1>1, BoxesAssumption
<1>4. At(cur).level # 0
  <2> SUFFICES ASSUME At(cur).level = 0
               PROVE  ContainedBy(box, At(cur))
    BY <1>1
  <2> QED
    BY <1>1, <1>3, LevelZeroIsWhole DEF ContainedBy
<1> QED
  BY <1>1, <1>2, <1>4

LEMMA UpStep ==
    ASSUME IInv, Up
    PROVE  IInv'
<1> DEFINE s == cur[2]
           r == At(cur)
<1>1. pc = "enclose" /\ memory' = [memory EXCEPT ![s] = RegionUp(r)]
      /\ UNCHANGED <<pc, box, maxZ, cur, pool, queue, zs, i, merge>>
  BY DEF Up, At
<1>2. Aligned(RegionUp(r))
  BY UpBelowWhole, UpAligned
<1>3. HeldIs({s}, pool, memory) /\ UsedSlots = {s}
  BY <1>1, EncloseFacts
<1>4. UsedSlots' = {s}
  BY <1>1 DEF UsedSlots, Used
<1> HIDE DEF s, r
<1>5. HeldIs({s}, pool', memory')
  BY <1>1, <1>2, <1>3 DEF HeldIs
<1>6. CallState'
  BY <1>1 DEF IInv, CallState
<1> QED
  BY <1>1, <1>4, <1>5, <1>6 DEF IInv

LEMMA StartQueueStep ==
    ASSUME IInv, StartQueue
    PROVE  IInv'
<1>1. pc = "enclose" /\ pc' = "split" /\ queue' = <<cur>>
      /\ UNCHANGED <<box, maxZ, pool, memory, zs, i, merge>>
  BY DEF StartQueue
<1>2. cur \in Pointer /\ HeldIs({cur[2]}, pool, memory)
  BY <1>1, EncloseFacts
<1>3. /\ queue' \in Seq(Pointer) /\ IsInjective(queue')
      /\ SlotsOf(queue') = {cur[2]}
  <2>1. Append(<< >>, cur) = <<cur>> /\ cur[2] \notin SlotsOf(<< >>)
    BY NoQueue
  <2>2. /\ Append(<< >>, cur) \in Seq(Pointer) /\ IsInjective(Append(<< >>, cur))
        /\ SlotsOf(Append(<< >>, cur)) = SlotsOf(<< >>) \cup {cur[2]}
    BY ONLY <1>2, <2>1, NoQueue, AppendQueue
  <2> QED
    BY <1>1, <2>1, <2>2, NoQueue
<1>4. UsedSlots' = SlotsOf(queue')
  BY <1>1 DEF UsedSlots, Used, SlotsOf
<1>5. HeldIs(UsedSlots', pool', memory')
  BY <1>1, <1>2, <1>3, <1>4
<1>6. CallState'
  BY <1>1 DEF IInv, CallState
<1> QED
  BY <1>1, <1>3, <1>5, <1>6 DEF IInv

-----------------------------------------------------------------------------
\* Sorting and merging touch no Region object.
LEMMA ZsKeeps ==
    ASSUME IInv, pc # "enclose", pc' # "enclose", CallState',
           UNCHANGED <<pool, memory, queue>>, zs' \in Seq(Z!Region), i' \in Nat \ {0}
    PROVE  IInv'
<1>1. UsedSlots = SlotsOf(queue)
  BY UsedIsQueued
<1>2. UsedSlots' = SlotsOf(queue')
  BY DEF UsedSlots, Used, SlotsOf
<1>3. SlotsOf(queue') = SlotsOf(queue)
  OBVIOUS
<1> QED
  BY <1>1, <1>2, <1>3 DEF IInv

LEMMA SortStep ==
    ASSUME IInv, Sort
    PROVE  IInv'
<1>1. /\ pc = "split" /\ pc' = "merge" /\ queue = << >> /\ i' = 1
      /\ UNCHANGED <<box, maxZ, cur, pool, memory, queue>>
  BY DEF Sort
<1>2. PICK p \in Bijection(DOMAIN zs, DOMAIN zs) : zs' = [n \in DOMAIN zs |-> zs[p[n]]]
  BY DEF Sort
<1>3. zs' \in Seq(Z!Region)
  <2>1. p \in [DOMAIN zs -> DOMAIN zs]
    BY <1>2 DEF Bijection, Injection
  <2>2. zs \in Seq(Z!Region) /\ Len(zs) \in Nat /\ DOMAIN zs = 1..Len(zs)
        /\ \A n \in DOMAIN zs : zs[n] \in Z!Region
    BY DEF IInv
  <2> QED
    BY <1>2, <2>1, <2>2
<1>4. CallState'
  BY <1>1 DEF IInv, CallState
<1> QED
  BY <1>1, <1>3, <1>4, ZsKeeps

LEMMA ParentIsRegion ==
    ASSUME NEW r \in Z!Region, Len(r) > 0
    PROVE  Z!Parent(r) \in Z!Region
  BY ZBitsIsPositive DEF Z!Parent, Z!Region

LEMMA MergePairStep ==
    ASSUME IInv, MergePair
    PROVE  IInv'
<1>1. /\ pc = "merge" /\ pc' = "merge" /\ i' = i + 1 /\ i \in Nat \ {0} /\ i < Len(zs)
      /\ UNCHANGED <<box, maxZ, cur, pool, memory, queue>>
  BY DEF MergePair, IInv
<1>2. zs \in Seq(Z!Region) /\ Len(zs) \in Nat /\ zs[i] \in Z!Region
  BY <1>1 DEF IInv
<1>3. zs' \in Seq(Z!Region)
  <2>1. CASE ~merge'
    BY <1>2, <2>1 DEF MergePair
  <2>2. CASE merge'
    <3> DEFINE P == Z!Parent(zs[i])
               z == [zs EXCEPT ![i] = P]
    <3>1. P \in Z!Region
      BY <1>2, <2>2, ParentIsRegion DEF MergePair, Z!SiblingOf
    <3> HIDE DEF P
    <3>2. z \in Seq(Z!Region) /\ Len(z) = Len(zs)
      BY <1>1, <1>2, <3>1
    <3>3. zs' = SubSeq(z, 1, i) \o SubSeq(z, i + 2, Len(z))
      <4>1. zs' = RemoveAt(z, i + 1)
        BY <2>2 DEF MergePair, P
      <4>2. (i + 1) - 1 = i /\ (i + 1) + 1 = i + 2
        BY <1>1
      <4> HIDE DEF z
      <4> QED
        BY <4>1, <4>2 DEF RemoveAt
    <3> HIDE DEF z
    <3>4. SubSeq(z, 1, i) \in Seq(Z!Region) /\ SubSeq(z, i + 2, Len(z)) \in Seq(Z!Region)
      BY <1>1, <1>2, <3>2
    <3> QED
      BY <3>3, <3>4
  <2> QED
    BY <2>1, <2>2
<1>4. CallState'
  BY <1>1 DEF IInv, CallState
<1> QED
  BY <1>1, <1>3, <1>4, ZsKeeps

LEMMA EndPassStep ==
    ASSUME IInv, EndPass
    PROVE  IInv'
<1>1. /\ pc = "merge" /\ pc' \in {"merge", "done"} /\ i' = 1
      /\ UNCHANGED <<box, maxZ, cur, pool, memory, queue, zs>>
  BY DEF EndPass
<1>2. CallState'
  BY <1>1 DEF IInv, CallState
<1> QED
  BY <1>1, <1>2, ZsKeeps DEF IInv

LEMMA StutterStep ==
    ASSUME IInv, UNCHANGED vars
    PROVE  IInv'
<1>1. UsedSlots' = UsedSlots
  BY DEF UsedSlots, Used, vars
<1> QED
  BY <1>1 DEF IInv, CallState, vars

LEMMA NextKeeps == IInv /\ [Next]_vars => IInv'
<1> SUFFICES ASSUME IInv, [Next]_vars
             PROVE  IInv'
  OBVIOUS
<1>1. CASE \E b \in Boxes, m \in MaxZs : Decompose(b, m)
  BY <1>1, DecomposeStep
<1>2. CASE Up
  BY <1>2, UpStep
<1>3. CASE StartQueue
  BY <1>3, StartQueueStep
<1>4. CASE EmitPoint
  BY <1>4, EmitPointStep
<1>5. CASE Divide
  BY <1>5, DivideStep
<1>6. CASE Sort
  BY <1>6, SortStep
<1>7. CASE MergePair
  BY <1>7, MergePairStep
<1>8. CASE EndPass
  BY <1>8, EndPassStep
<1>9. CASE UNCHANGED vars
  BY <1>9, StutterStep
<1> QED
  BY <1>1, <1>2, <1>3, <1>4, <1>5, <1>6, <1>7, <1>8, <1>9 DEF Next, Step

LEMMA Invariance == Spec => []IInv
BY InitStep, NextKeeps, PTL DEF Spec

-----------------------------------------------------------------------------
LEMMA TypeFromInvariant ==
    ASSUME IInv
    PROVE  TypeOK
<1>1. HeldIs(UsedSlots, pool, memory) /\ pc \in {"idle", "enclose", "split", "merge", "done"}
      /\ zs \in Seq(Z!Region)
  BY DEF IInv, CallState
<1>2. pool.free \in [0..(pool.capacity - 1) -> BOOLEAN]
  <2>1. pool.capacity = InitialCapacity /\ pool.free = [s \in Slot |-> s \notin UsedSlots]
    BY <1>1 DEF HeldIs, PoolUsing
  <2>2. pool.free \in [Slot -> BOOLEAN]
    BY ONLY <2>1, Zenon
  <2> QED
    BY ONLY <2>1, <2>2 DEF Slot
<1>3. {p[2] : p \in Used} \subseteq DOMAIN memory
  BY <1>1 DEF HeldIs, UsedSlots
<1>4. ASSUME NEW s \in DOMAIN memory
      PROVE  /\ memory[s].level \in 0..ZBits
             /\ {memory[s].lo, memory[s].hi} \subseteq Point
             /\ \A d \in Dims : memory[s].xBit[d] \in 0..XBits(d)
  <2>1. Aligned(memory[s])
    BY <1>1 DEF HeldIs
  <2>2. memory[s].level \in 0..ZBits /\ {memory[s].lo, memory[s].hi} \subseteq Point
    BY <2>1 DEF Aligned, RegionRecord
  <2>3. \A d \in Dims : memory[s].xBit[d] \in 0..XBits(d)
    BY <2>1, <2>2, LeftFacts DEF Aligned
  <2> QED
    BY <2>2, <2>3
<1> QED
  BY <1>1, <1>2, <1>3, <1>4 DEF TypeOK

\* However often a region has been moved down and up in place, its bounds are
\* an aligned interval of 2^xBit coordinates in every dimension.
THEOREM RegionsStayAligned == Spec => []RegionsAligned
<1>1. IInv => RegionsAligned
  <2> SUFFICES ASSUME IInv
               PROVE  RegionsAligned
    OBVIOUS
  <2>1. ASSUME NEW p \in Used, NEW d \in Dims
        PROVE  /\ At(p).lo[d] % 2^At(p).xBit[d] = 0
               /\ At(p).hi[d] = At(p).lo[d] + 2^At(p).xBit[d] - 1
    <3>1. Aligned(At(p))
      BY DEF IInv, HeldIs, UsedSlots, At
    <3> DEFINE lo == At(p).lo[d]
               hi == At(p).hi[d]
               k == At(p).xBit[d]
               P == 2^k
    <3>2. k \in Nat /\ Side(lo, hi, k)
      BY <3>1 DEF Aligned, RegionRecord
    <3>3. P \in Nat \ {0}
      BY <3>2, DoublePower
    <3>4. PICK q \in Nat : lo = P * q /\ hi = P * q + P - 1
      BY <3>2 DEF Side
    <3> HIDE DEF lo, hi, P, k
    <3>5. lo % P = 0
      BY <3>3, <3>4, Z3
    <3>6. hi = lo + P - 1
      BY <3>4
    <3> QED
      BY <3>5, <3>6 DEF lo, hi, P, k
  <2> QED
    BY <2>1, TypeFromInvariant DEF RegionsAligned
<1> QED
  BY <1>1, Invariance, PTL

\* No Region object is queued twice, so moving the one in hand changes no
\* queued one.
THEOREM RegionsNeverShared == Spec => []RegionsUnshared
<1>1. IInv => RegionsUnshared
  BY DEF IInv, RegionsUnshared
<1> QED
  BY <1>1, Invariance, PTL

\* The pool's flags tell exactly the regions that the call still needs: none
\* is given back too early and none is leaked, in any sequence of calls.
THEOREM PoolAlwaysExact == Spec => []PoolExact
<1>1. IInv => PoolExact
  <2> SUFFICES ASSUME IInv
               PROVE  PoolExact
    OBVIOUS
  <2>1. UsedSlots \subseteq Slot /\ pool = PoolUsing(UsedSlots)
    BY DEF IInv, HeldIs
  <2>2. DOMAIN pool.free = Slot /\ Pool!Free(pool) = Slot \ UsedSlots
    BY <2>1, FreeIsUnused DEF PoolUsing
  <2> QED
    BY <2>1, <2>2 DEF PoolExact, UsedSlots
<1> QED
  BY <1>1, Invariance, PTL

-----------------------------------------------------------------------------
(***************************************************************************)
(* The steps are steps of module Decomposition.                            *)
(***************************************************************************)
\* The z-values of the regions of a queue.
PathsOf(q, mem) == [k \in DOMAIN q |-> RegionZ(mem[q[k][2]])]

LEMMA QueueIsPaths == AbstractQueue = PathsOf(queue, memory)
  BY DEF AbstractQueue, PathsOf, At

\* All the objects of a queue are aligned regions.
AllAligned(q, mem) == \A s \in SlotsOf(q) : Aligned(mem[s])

LEMMA PathsAreRegions ==
    ASSUME NEW q \in Seq(Pointer), NEW mem, AllAligned(q, mem)
    PROVE  PathsOf(q, mem) \in Seq(Z!Region) /\ Len(PathsOf(q, mem)) = Len(q)
<1>1. ASSUME NEW k \in DOMAIN q
      PROVE  RegionZ(mem[q[k][2]]) \in Z!Region
  BY ZIsRegion DEF AllAligned, SlotsOf, Range
<1> DEFINE L == Len(q)
           f == PathsOf(q, mem)
<1>2. L \in Nat /\ DOMAIN q = 1..L
  OBVIOUS
<1>3. f \in [1..L -> Z!Region]
  BY <1>1, <1>2 DEF PathsOf
<1> HIDE DEF L, f
<1>4. f \in Seq(Z!Region) /\ Len(f) = L
  BY ONLY <1>2, <1>3
<1> QED
  BY <1>4 DEF f, L

\* Only the objects that the queue leads to matter.
LEMMA PathsAgree ==
    ASSUME NEW q, NEW m1, NEW m2, \A s \in SlotsOf(q) : m1[s] = m2[s]
    PROVE  PathsOf(q, m1) = PathsOf(q, m2)
<1>1. \A k \in DOMAIN q : m1[q[k][2]] = m2[q[k][2]]
  BY DEF SlotsOf, Range
<1> QED
  BY <1>1 DEF PathsOf

LEMMA PathsOfTail ==
    ASSUME NEW q \in Seq(Pointer), q # << >>, NEW mem, AllAligned(q, mem)
    PROVE  /\ PathsOf(q, mem) # << >>
           /\ Head(PathsOf(q, mem)) = RegionZ(mem[Head(q)[2]])
           /\ Tail(PathsOf(q, mem)) = PathsOf(Tail(q), mem)
           /\ Len(Tail(PathsOf(q, mem))) = Len(Tail(q))
<1> DEFINE f == PathsOf(q, mem)
           t == Tail(q)
           g == PathsOf(t, mem)
           L == Len(q)
<1>1. /\ L \in Nat /\ L > 0 /\ DOMAIN q = 1..L /\ Head(q) = q[1]
      /\ t \in Seq(Pointer) /\ Len(t) = L - 1 /\ DOMAIN t = 1..(L - 1)
      /\ \A n \in 1..(L - 1) : t[n] = q[n + 1]
  OBVIOUS
<1>2. f \in Seq(Z!Region) /\ Len(f) = L
  BY PathsAreRegions
<1>3. AllAligned(t, mem)
  <2>1. \A n \in DOMAIN t : n + 1 \in DOMAIN q /\ t[n] = q[n + 1]
    BY <1>1
  <2> HIDE DEF t, L
  <2>2. Range(t) \subseteq Range(q)
    BY ONLY <2>1 DEF Range
  <2>3. SlotsOf(t) \subseteq SlotsOf(q)
    BY ONLY <2>2 DEF SlotsOf
  <2> QED
    BY <2>3 DEF AllAligned
<1>4. g \in Seq(Z!Region) /\ Len(g) = L - 1
  BY <1>1, <1>3, PathsAreRegions
<1>5. /\ \A n \in 1..L : f[n] = RegionZ(mem[q[n][2]])
      /\ \A n \in 1..(L - 1) : g[n] = RegionZ(mem[t[n][2]])
  BY <1>1 DEF PathsOf
<1>6. \A n \in 1..(L - 1) : n + 1 \in 1..L /\ g[n] = f[n + 1]
  BY <1>1, <1>5
<1>7. f[1] = RegionZ(mem[Head(q)[2]])
  BY <1>1, <1>5
<1> HIDE DEF f, g, L, t
<1>8. f # << >> /\ Head(f) = f[1] /\ Tail(f) = g /\ Len(Tail(f)) = L - 1
  BY ONLY <1>1, <1>2, <1>4, <1>6
<1> QED
  BY <1>1, <1>7, <1>8 DEF f, g, t, L

LEMMA PathsOfAppend ==
    ASSUME NEW q \in Seq(Pointer), NEW p \in Pointer, NEW mem,
           AllAligned(q, mem), Aligned(mem[p[2]])
    PROVE  PathsOf(Append(q, p), mem) = Append(PathsOf(q, mem), RegionZ(mem[p[2]]))
<1> DEFINE f == PathsOf(q, mem)
           a == Append(q, p)
           g == PathsOf(a, mem)
           L == Len(q)
           e == RegionZ(mem[p[2]])
<1>1. /\ L \in Nat /\ DOMAIN q = 1..L
      /\ a \in Seq(Pointer) /\ Len(a) = L + 1 /\ DOMAIN a = 1..(L + 1)
      /\ a[L + 1] = p /\ \A n \in 1..L : a[n] = q[n]
  OBVIOUS
<1>2. f \in Seq(Z!Region) /\ Len(f) = L
  BY PathsAreRegions
<1>3. AllAligned(a, mem)
  <2>1. \A n \in 1..(L + 1) : n \in 1..L \/ n = L + 1
    BY <1>1
  <2> HIDE DEF a, L
  <2> QED
    BY <1>1, <2>1 DEF AllAligned, SlotsOf, Range
<1>4. g \in Seq(Z!Region) /\ Len(g) = L + 1
  BY <1>1, <1>3, PathsAreRegions
<1>5. e \in Z!Region
  BY ZIsRegion
<1>6. /\ \A n \in 1..L : f[n] = RegionZ(mem[q[n][2]])
      /\ \A n \in 1..(L + 1) : g[n] = RegionZ(mem[a[n][2]])
  BY <1>1 DEF PathsOf
<1>7. g[L + 1] = e /\ \A n \in 1..L : g[n] = f[n]
  BY <1>1, <1>6
<1> HIDE DEF f, g, L, a, e
<1>8. g = Append(f, e)
  BY ONLY <1>1, <1>2, <1>4, <1>5, <1>7
<1> QED
  BY <1>8 DEF f, g, a, e

LEMMA NoPaths ==
    ASSUME NEW mem
    PROVE  PathsOf(<< >>, mem) = << >>
  BY DEF PathsOf

-----------------------------------------------------------------------------
\* The object is the set of the box's cells, and the two levels get the same
\* answers about a region.
LEMMA ObjectIsBox ==
    ASSUME IInv, pc # "idle"
    PROVE  AbstractObject = CellsOfBox(box) /\ IsBox(box) /\ box \in Boxes
<1>1. box \in Boxes
  BY DEF IInv, CallState
<1> QED
  BY <1>1, BoxesAssumption DEF AbstractObject, Occupied, IsBox

LEMMA CellsAgree ==
    ASSUME NEW z
    PROVE  Abstract!Cells(z) = CellsOn(z)
  BY DEF Abstract!Cells, Abstract!Cell, Abstract!Has, Abstract!Bit, CellsOn

LEMMA AnswersAgree ==
    ASSUME IInv, pc # "idle", NEW r, Aligned(r)
    PROVE  /\ Abstract!ContainedBy(AbstractObject, RegionZ(r)) <=> ContainedBy(box, r)
           /\ Abstract!Inside(AbstractObject, RegionZ(r)) <=> InsideBox(box, r)
           /\ Abstract!Outside(AbstractObject, RegionZ(r)) <=> OutsideBox(box, r)
           /\ Abstract!Overlaps(AbstractObject, RegionZ(r)) <=> OverlapsBox(box, r)
           /\ Abstract!IsPoint(RegionZ(r)) <=> IsPoint(r)
<1>1. AbstractObject = CellsOfBox(box) /\ IsBox(box)
  BY ObjectIsBox
<1>2. Abstract!ContainedBy(AbstractObject, RegionZ(r)) <=> ContainedBy(box, r)
  BY <1>1, CellsAgree, ContainedCells DEF Abstract!ContainedBy
<1>3. Abstract!Inside(AbstractObject, RegionZ(r)) <=> InsideBox(box, r)
  BY <1>1, CellsAgree, InsideCells DEF Abstract!Inside
<1>4. Abstract!Outside(AbstractObject, RegionZ(r)) <=> OutsideBox(box, r)
  <2>1. OutsideBox(box, r) <=> CellsOfBox(box) \cap CellsOn(RegionZ(r)) = {}
    BY <1>1, OutsideCells
  <2> QED
    BY <1>1, <2>1, CellsAgree DEF Abstract!Outside
<1>5. Abstract!Overlaps(AbstractObject, RegionZ(r)) <=> OverlapsBox(box, r)
  BY <1>3, <1>4 DEF Abstract!Overlaps, OverlapsBox
<1>6. Abstract!IsPoint(RegionZ(r)) <=> IsPoint(r)
  BY RegionPath DEF Abstract!IsPoint, IsPoint
<1> QED
  BY <1>2, <1>3, <1>4, <1>5, <1>6

-----------------------------------------------------------------------------
\* The loop.
LEMMA FrontAgrees ==
    ASSUME IInv, NEW b, Taking(b)
    PROVE  /\ Abstract!Taking /\ Abstract!Front = RegionZ(Region)
           /\ Abstract!Room <=> Room
           /\ Tail(AbstractQueue) = PathsOf(Tail(queue), memory)
           /\ AllAligned(queue, memory)
<1>1. /\ pc = "split" /\ queue # << >> /\ queue \in Seq(Pointer)
      /\ HeldIs(SlotsOf(queue), pool, memory)
  BY TakingFacts DEF Taking, IInv
<1>2. AllAligned(queue, memory)
  BY <1>1 DEF HeldIs, AllAligned
<1>3. /\ AbstractQueue # << >>
      /\ Head(AbstractQueue) = RegionZ(memory[Head(queue)[2]])
      /\ Tail(AbstractQueue) = PathsOf(Tail(queue), memory)
      /\ Len(Tail(AbstractQueue)) = Len(Tail(queue))
  BY <1>1, <1>2, QueueIsPaths, PathsOfTail
<1>4. Abstract!Taking /\ Abstract!Front = RegionZ(Region)
  BY <1>1, <1>3 DEF Abstract!Taking, Abstract!Front, Region, At
<1>5. Abstract!Room <=> Room
  BY <1>3 DEF Abstract!Room, Room
<1> QED
  BY <1>2, <1>3, <1>4, <1>5

LEMMA HalvesAgree ==
    ASSUME IInv, Taking(FALSE),
           NEW left, left = DownLeft(Region), NEW right, right = DownRight(RegionUp(left))
    PROVE  /\ ~Abstract!IsPoint(Abstract!Front)
           /\ Abstract!Half(0) = RegionZ(left) /\ Abstract!Half(1) = RegionZ(right)
           /\ Abstract!Front = RegionZ(Region)
<1>1. Aligned(Region) /\ Region.level < ZBits /\ right = DownRight(Region)
  BY HalvesInHand
<1>2. Abstract!Front = RegionZ(Region)
  BY FrontAgrees
<1>3. /\ RegionZ(DownLeft(Region)) = Append(RegionZ(Region), 0)
      /\ RegionZ(DownRight(Region)) = Append(RegionZ(Region), 1)
  <2> HIDE DEF Region
  <2> QED
    BY <1>1, ChildPaths
<1>4. Abstract!Half(0) = RegionZ(left) /\ Abstract!Half(1) = RegionZ(right)
  BY <1>1, <1>2, <1>3 DEF Abstract!Half, Abstract!Child
<1>5. ~Abstract!IsPoint(Abstract!Front)
  <2>1. ~IsPoint(Region) /\ pc # "idle"
    BY DEF Taking
  <2> QED
    BY <1>1, <1>2, <2>1, AnswersAgree
<1> QED
  BY <1>2, <1>4, <1>5

\* Objects and enclosing regions stay what they are during the loop.
LEMMA LoopDivides ==
    ASSUME IInv, NEW b, Taking(b), NEW emitted, NEW queued,
           zs' = zs \o emitted, AbstractQueue' = Tail(AbstractQueue) \o queued
    PROVE  Abstract!Divide(emitted, queued)
<1>1. pc = "split" /\ pc' = "split" /\ UNCHANGED <<box, maxZ, cur, i, merge>>
  BY TakingFacts
<1>2. AbstractObject' = AbstractObject /\ AbstractRegion' = AbstractRegion
  BY <1>1 DEF AbstractObject, AbstractRegion
<1> QED
  BY <1>1, <1>2 DEF Abstract!Divide

\* Appending to the rest of the queue, while the other objects stay.
LEMMA RestStays ==
    ASSUME IInv, NEW b, Taking(b),
           \A s \in SlotsOf(Tail(queue)) : memory'[s] = memory[s]
    PROVE  /\ AllAligned(Tail(queue), memory')
           /\ PathsOf(Tail(queue), memory') = Tail(AbstractQueue)
<1>1. AllAligned(queue, memory) /\ Tail(AbstractQueue) = PathsOf(Tail(queue), memory)
  BY FrontAgrees
<1>2. SlotsOf(Tail(queue)) \subseteq SlotsOf(queue)
  BY TakingFacts
<1>3. AllAligned(Tail(queue), memory')
  BY <1>1, <1>2 DEF AllAligned
<1>4. PathsOf(Tail(queue), memory') = PathsOf(Tail(queue), memory)
  BY PathsAgree
<1> QED
  BY <1>1, <1>3, <1>4

LEMMA QueuePrime == AbstractQueue' = PathsOf(queue', memory')
  BY DEF AbstractQueue, PathsOf, At

LEMMA TailIsRegions ==
    ASSUME IInv, NEW b, Taking(b)
    PROVE  Tail(AbstractQueue) \in Seq(Z!Region) /\ zs \in Seq(Z!Region)
<1>1. AllAligned(Tail(queue), memory) /\ Tail(queue) \in Seq(Pointer)
  BY TakingFacts, FrontAgrees DEF AllAligned
<1> QED
  BY <1>1, PathsAreRegions, FrontAgrees DEF IInv

LEMMA EmitDivides ==
    ASSUME IInv, NEW b, Taking(b), NEW r, Aligned(r), Emit(r)
    PROVE  Abstract!Divide(<<RegionZ(r)>>, << >>)
<1>1. queue' = Tail(queue) /\ memory' = Without(Head(queue)) /\ zs' = Append(zs, RegionZ(r))
  BY DEF Emit
<1>2. \A s \in SlotsOf(Tail(queue)) : memory'[s] = memory[s]
  <2>1. SlotsOf(Tail(queue)) = DOMAIN memory \ {Head(queue)[2]}
    BY TakingFacts DEF HeldIs
  <2> QED
    BY <1>1, <2>1 DEF Without, Restrict
<1>3. AbstractQueue' = Tail(AbstractQueue)
  BY <1>1, <1>2, RestStays, QueuePrime
<1>4. /\ Tail(AbstractQueue) = Tail(AbstractQueue) \o << >>
      /\ Append(zs, RegionZ(r)) = zs \o <<RegionZ(r)>>
  <2>1. Tail(AbstractQueue) \in Seq(Z!Region) /\ zs \in Seq(Z!Region) /\ RegionZ(r) \in Z!Region
    BY TailIsRegions, ZIsRegion
  <2> QED
    BY ONLY <2>1
<1>5. zs' = zs \o <<RegionZ(r)>> /\ AbstractQueue' = Tail(AbstractQueue) \o << >>
  BY <1>1, <1>3, <1>4
<1> QED
  BY <1>5, LoopDivides

LEMMA RequeueQueues ==
    ASSUME IInv, NEW b, Taking(b), NEW r, Aligned(r), Requeue(r)
    PROVE  AbstractQueue' = Tail(AbstractQueue) \o <<RegionZ(r)>>
<1> DEFINE h == Head(queue)
           q == Tail(queue)
<1>1. queue' = Append(q, h) /\ memory' = Stored(h, r)
  BY DEF Requeue
<1>2. /\ q \in Seq(Pointer) /\ h \in Pointer
      /\ SlotsOf(q) = DOMAIN memory \ {h[2]} /\ h[2] \in DOMAIN memory
  BY TakingFacts DEF HeldIs
<1>3. memory'[h[2]] = r /\ \A s \in SlotsOf(q) : memory'[s] = memory[s]
  <2> HIDE DEF h, q
  <2> QED
    BY <1>1, <1>2 DEF Stored
<1>4. AllAligned(q, memory') /\ PathsOf(q, memory') = Tail(AbstractQueue)
  BY <1>3, RestStays
<1>5. PathsOf(Append(q, h), memory') = Append(Tail(AbstractQueue), RegionZ(r))
  <2> HIDE DEF h, q
  <2>1. Aligned(memory'[h[2]])
    BY <1>3
  <2>2. PathsOf(Append(q, h), memory') = Append(PathsOf(q, memory'), RegionZ(memory'[h[2]]))
    BY <1>2, <1>4, <2>1, PathsOfAppend
  <2> QED
    BY <1>3, <1>4, <2>2
<1>6. Append(Tail(AbstractQueue), RegionZ(r)) = Tail(AbstractQueue) \o <<RegionZ(r)>>
  <2>1. Tail(AbstractQueue) \in Seq(Z!Region) /\ RegionZ(r) \in Z!Region
    BY TailIsRegions, ZIsRegion
  <2> QED
    BY ONLY <2>1
<1> QED
  BY <1>1, <1>5, <1>6, QueuePrime

LEMMA RequeueDivides ==
    ASSUME IInv, NEW b, Taking(b), NEW r, Aligned(r), Requeue(r), UNCHANGED zs
    PROVE  Abstract!Divide(<< >>, <<RegionZ(r)>>)
<1>1. zs = zs \o << >>
  <2>1. zs \in Seq(Z!Region)
    BY DEF IInv
  <2> QED
    BY ONLY <2>1
<1> QED
  BY <1>1, RequeueQueues, LoopDivides

LEMMA AppendIsConcatenation ==
    ASSUME NEW S, NEW s \in Seq(S), NEW x \in S
    PROVE  Append(s, x) = s \o <<x>> /\ s = s \o << >>
  OBVIOUS

\* A region is taken from the pool for the right half.
LEMMA CopyIsFresh ==
    ASSUME IInv, NEW b, Taking(b), Room, NEW t \in Pool!Taken(pool)
    PROVE  t.region \in Pointer /\ t.region[2] \notin SlotsOf(queue)
<1>1. pool = PoolUsing(SlotsOf(queue)) /\ Slot \ SlotsOf(queue) # {}
  BY TakingFacts, RoomInPool DEF HeldIs
<1> QED
  BY <1>1, TakenIsFresh

LEMMA EmitLeftDivides ==
    ASSUME IInv, NEW b, Taking(b), NEW left, NEW right, Aligned(left), Aligned(right),
           DownLeft(RegionUp(right)) = left,
           EmitLeftQueueRight(left, right)
    PROVE  Abstract!Divide(<<RegionZ(left)>>, <<RegionZ(right)>>)
<1> DEFINE h == Head(queue)
           q == Tail(queue)
<1>1. PICK t \in Pool!Taken(pool) :
          /\ queue' = Append(q, t.region)
          /\ memory' = Restrict(Stored(t.region, right),
                                (DOMAIN memory \ {h[2]}) \cup {t.region[2]})
  BY DEF EmitLeftQueueRight
<1> DEFINE n == t.region
<1>2. n \in Pointer /\ n[2] \notin SlotsOf(queue)
  BY CopyIsFresh DEF EmitLeftQueueRight
<1>3. /\ q \in Seq(Pointer) /\ SlotsOf(q) = DOMAIN memory \ {h[2]}
      /\ DOMAIN memory = SlotsOf(queue)
  BY TakingFacts DEF HeldIs
<1>4. memory'[n[2]] = right /\ \A s \in SlotsOf(q) : memory'[s] = memory[s]
  <2> HIDE DEF h, q
  <2>1. n[2] \notin DOMAIN memory
    BY <1>2, <1>3
  <2>2. memory' = Restrict(Stored(n, right), (DOMAIN memory \ {h[2]}) \cup {n[2]})
    BY <1>1
  <2> HIDE DEF n
  <2> QED
    BY <1>3, <2>1, <2>2 DEF Stored, Restrict
<1>5. AllAligned(q, memory') /\ PathsOf(q, memory') = Tail(AbstractQueue)
  BY <1>4, RestStays
<1>6. PathsOf(Append(q, n), memory') = Append(Tail(AbstractQueue), RegionZ(right))
  <2> HIDE DEF h, q, n
  <2>1. PathsOf(Append(q, n), memory') = Append(PathsOf(q, memory'), RegionZ(memory'[n[2]]))
    BY <1>2, <1>3, <1>4, <1>5, PathsOfAppend
  <2> QED
    BY <1>4, <1>5, <2>1
<1>7. /\ Append(Tail(AbstractQueue), RegionZ(right)) = Tail(AbstractQueue) \o <<RegionZ(right)>>
      /\ Append(zs, RegionZ(left)) = zs \o <<RegionZ(left)>>
  <2>1. /\ Tail(AbstractQueue) \in Seq(Z!Region) /\ RegionZ(right) \in Z!Region
        /\ zs \in Seq(Z!Region) /\ RegionZ(left) \in Z!Region
    BY TailIsRegions, ZIsRegion
  <2> QED
    BY ONLY <2>1, AppendIsConcatenation
<1>8. zs' = Append(zs, RegionZ(left))
  BY DEF EmitLeftQueueRight
<1>9. /\ AbstractQueue' = Tail(AbstractQueue) \o <<RegionZ(right)>>
      /\ zs' = zs \o <<RegionZ(left)>>
  BY <1>1, <1>6, <1>7, <1>8, QueuePrime
<1> QED
  BY <1>9, LoopDivides

LEMMA QueueBothDivides ==
    ASSUME IInv, NEW b, Taking(b), NEW left, NEW right, Aligned(left), Aligned(right),
           DownLeft(RegionUp(right)) = left,
           QueueBoth(left, right)
    PROVE  Abstract!Divide(<< >>, <<RegionZ(right), RegionZ(left)>>)
<1> DEFINE h == Head(queue)
           q == Tail(queue)
<1>1. PICK t \in Pool!Taken(pool) :
          /\ queue' = q \o <<t.region, h>>
          /\ memory' = [Stored(t.region, right) EXCEPT ![h[2]] = left]
  BY DEF QueueBoth
<1> DEFINE n == t.region
           a == Append(q, n)
<1>2. n \in Pointer /\ n[2] \notin SlotsOf(queue)
  BY CopyIsFresh DEF QueueBoth
<1>3. /\ q \in Seq(Pointer) /\ h \in Pointer
      /\ SlotsOf(q) = DOMAIN memory \ {h[2]} /\ h[2] \in DOMAIN memory
      /\ DOMAIN memory = SlotsOf(queue)
  BY TakingFacts DEF HeldIs
<1>4. /\ memory'[n[2]] = right /\ memory'[h[2]] = left
      /\ \A s \in SlotsOf(q) : memory'[s] = memory[s]
  <2> HIDE DEF h, q
  <2>1. n[2] \notin DOMAIN memory
    BY <1>2, <1>3
  <2>2. memory' = [Stored(n, right) EXCEPT ![h[2]] = left]
    BY <1>1
  <2> HIDE DEF n
  <2> QED
    BY <1>3, <2>1, <2>2 DEF Stored
<1>5. AllAligned(q, memory') /\ PathsOf(q, memory') = Tail(AbstractQueue)
  BY <1>4, RestStays
<1>6. PathsOf(a, memory') = Append(Tail(AbstractQueue), RegionZ(right))
  <2> HIDE DEF h, q, n
  <2>1. PathsOf(Append(q, n), memory') = Append(PathsOf(q, memory'), RegionZ(memory'[n[2]]))
    BY <1>2, <1>3, <1>4, <1>5, PathsOfAppend
  <2> QED
    BY <1>4, <1>5, <2>1
<1>7. a \in Seq(Pointer) /\ AllAligned(a, memory')
  <2> HIDE DEF h, q, n
  <2>1. a \in Seq(Pointer)
    BY ONLY <1>2, <1>3
  <2>2. Range(a) = Range(q) \cup {n}
    <3> DEFINE L == Len(q)
    <3>1. /\ DOMAIN q = 1..L /\ L \in Nat /\ DOMAIN a = 1..(L + 1)
          /\ a[L + 1] = n /\ \A k \in 1..L : a[k] = q[k]
      BY ONLY <1>2, <1>3
    <3> HIDE DEF a, L
    <3>2. DOMAIN a = DOMAIN q \cup {L + 1} /\ L + 1 \notin DOMAIN q
      BY ONLY <3>1
    <3>3. a[L + 1] = n /\ \A k \in DOMAIN q : a[k] = q[k]
      BY <3>1
    <3> QED
      BY ONLY <3>2, <3>3 DEF Range
  <2>3. SlotsOf(a) = SlotsOf(q) \cup {n[2]}
    BY ONLY <2>2 DEF SlotsOf
  <2> QED
    BY <1>4, <1>5, <2>1, <2>3 DEF AllAligned
<1>8. PathsOf(Append(a, h), memory')
        = Append(Append(Tail(AbstractQueue), RegionZ(right)), RegionZ(left))
  <2> HIDE DEF h, q, n, a
  <2>1. PathsOf(Append(a, h), memory') = Append(PathsOf(a, memory'), RegionZ(memory'[h[2]]))
    BY <1>3, <1>4, <1>7, PathsOfAppend
  <2> QED
    BY <1>4, <1>6, <2>1
<1>9. q \o <<n, h>> = Append(a, h)
  <2> HIDE DEF h, q, n
  <2> QED
    BY ONLY <1>2, <1>3
<1>10. /\ Append(Append(Tail(AbstractQueue), RegionZ(right)), RegionZ(left))
            = Tail(AbstractQueue) \o <<RegionZ(right), RegionZ(left)>>
       /\ zs = zs \o << >>
  <2>1. /\ Tail(AbstractQueue) \in Seq(Z!Region) /\ RegionZ(right) \in Z!Region
        /\ zs \in Seq(Z!Region) /\ RegionZ(left) \in Z!Region
    BY TailIsRegions, ZIsRegion
  <2> QED
    BY ONLY <2>1
<1>11. /\ AbstractQueue' = Tail(AbstractQueue) \o <<RegionZ(right), RegionZ(left)>>
       /\ zs' = zs \o << >>
  BY <1>1, <1>8, <1>9, <1>10, QueuePrime DEF QueueBoth
<1> QED
  BY <1>11, LoopDivides

LEMMA EmitPointMaps ==
    ASSUME IInv, EmitPoint
    PROVE  Abstract!EmitPoint
<1>1. Taking(TRUE) /\ Emit(Region)
  BY DEF EmitPoint
<1>2. Aligned(Region) /\ Abstract!Taking /\ Abstract!Front = RegionZ(Region)
  BY <1>1, TakingFacts, FrontAgrees
<1>3. Abstract!IsPoint(Abstract!Front)
  <2>1. IsPoint(Region) /\ pc # "idle"
    BY <1>1 DEF Taking
  <2> QED
    BY <1>2, <2>1, AnswersAgree
<1>4. Abstract!Divide(<<Abstract!Front>>, << >>)
  BY <1>1, <1>2, EmitDivides
<1> QED
  BY <1>2, <1>3, <1>4 DEF Abstract!EmitPoint

\* Each way the two switches can end is one of Decomposition's.
LEMMA DivideMaps ==
    ASSUME IInv, Divide
    PROVE  Abstract!Step
<1>1. Taking(FALSE) /\ pc # "idle"
  BY DEF Divide, Taking
<1>2. PICK left \in {DownLeft(Region)} : \E right \in {DownRight(RegionUp(left))} :
          \/ DropLeft(left, right) \/ DropRight(left, right) \/ EmitWhole(left, right)
          \/ EmitLeftQueueRight(left, right) \/ EmitRightQueueLeft(left, right)
          \/ QueueBoth(left, right) \/ Coarsen(left, right)
  BY DEF Divide
<1>3. PICK right \in {DownRight(RegionUp(left))} :
          \/ DropLeft(left, right) \/ DropRight(left, right) \/ EmitWhole(left, right)
          \/ EmitLeftQueueRight(left, right) \/ EmitRightQueueLeft(left, right)
          \/ QueueBoth(left, right) \/ Coarsen(left, right)
  BY <1>2
<1>4. /\ Aligned(Region) /\ Aligned(left) /\ Aligned(right)
      /\ RegionUp(right) = Region /\ DownLeft(RegionUp(right)) = left
  BY <1>1, <1>2, <1>3, HalvesInHand
<1>5. /\ Abstract!Taking /\ ~Abstract!IsPoint(Abstract!Front)
      /\ Abstract!Half(0) = RegionZ(left) /\ Abstract!Half(1) = RegionZ(right)
      /\ Abstract!Front = RegionZ(Region) /\ (Abstract!Room <=> Room)
  BY <1>1, <1>2, <1>3, HalvesAgree, FrontAgrees
<1> DEFINE o == AbstractObject
           H(n) == Abstract!Half(n)
<1>6. /\ Abstract!Inside(o, H(0)) <=> InsideBox(box, left)
      /\ Abstract!Outside(o, H(0)) <=> OutsideBox(box, left)
      /\ Abstract!Overlaps(o, H(0)) <=> OverlapsBox(box, left)
  BY <1>1, <1>4, <1>5, AnswersAgree
<1>7. /\ Abstract!Inside(o, H(1)) <=> InsideBox(box, right)
      /\ Abstract!Outside(o, H(1)) <=> OutsideBox(box, right)
      /\ Abstract!Overlaps(o, H(1)) <=> OverlapsBox(box, right)
  BY <1>1, <1>4, <1>5, AnswersAgree
<1>8. 1 - 0 = 1 /\ 1 - 1 = 0 /\ Abstract!Bit = {0, 1}
  BY DEF Abstract!Bit
<1>9. CASE DropLeft(left, right)
  <2>1. CASE InsideBox(box, right) /\ Emit(right)
    <3>1. Abstract!Divide(<<H(1)>>, << >>)
      BY <1>1, <1>4, <1>5, <2>1, EmitDivides
    <3>2. Abstract!DropHalf(1)
      BY <1>5, <1>6, <1>7, <1>8, <1>9, <2>1, <3>1 DEF DropLeft, Abstract!DropHalf
    <3> QED
      BY <1>8, <3>2 DEF Abstract!Step
  <2>2. CASE OverlapsBox(box, right) /\ Requeue(right) /\ UNCHANGED zs
    <3>1. Abstract!Divide(<< >>, <<H(1)>>)
      BY <1>1, <1>4, <1>5, <2>2, RequeueDivides
    <3>2. Abstract!DropHalf(1)
      BY <1>5, <1>6, <1>7, <1>8, <1>9, <2>2, <3>1 DEF DropLeft, Abstract!DropHalf
    <3> QED
      BY <1>8, <3>2 DEF Abstract!Step
  <2> QED
    BY <1>9, <2>1, <2>2 DEF DropLeft
<1>10. CASE DropRight(left, right)
  <2>1. CASE InsideBox(box, left) /\ Emit(left)
    <3>1. Abstract!Divide(<<H(0)>>, << >>)
      BY <1>1, <1>4, <1>5, <2>1, EmitDivides
    <3>2. Abstract!DropHalf(0)
      BY <1>5, <1>6, <1>7, <1>8, <1>10, <2>1, <3>1 DEF DropRight, Abstract!DropHalf
    <3> QED
      BY <1>8, <3>2 DEF Abstract!Step
  <2>2. CASE OverlapsBox(box, left) /\ Requeue(left) /\ UNCHANGED zs
    <3>1. Abstract!Divide(<< >>, <<H(0)>>)
      BY <1>1, <1>4, <1>5, <2>2, RequeueDivides
    <3>2. Abstract!DropHalf(0)
      BY <1>5, <1>6, <1>7, <1>8, <1>10, <2>2, <3>1 DEF DropRight, Abstract!DropHalf
    <3> QED
      BY <1>8, <3>2 DEF Abstract!Step
  <2> QED
    BY <1>4, <1>10, <2>1, <2>2 DEF DropRight
<1>11. CASE EmitWhole(left, right)
  <2>1. Abstract!Divide(<<Abstract!Front>>, << >>)
    BY <1>1, <1>4, <1>5, <1>11, EmitDivides DEF EmitWhole
  <2>2. \A n \in Abstract!Bit : Abstract!Inside(o, H(n))
    BY <1>6, <1>7, <1>8, <1>11 DEF EmitWhole
  <2>3. Abstract!EmitWhole
    BY <1>5, <2>1, <2>2 DEF Abstract!EmitWhole
  <2> QED
    BY <2>3 DEF Abstract!Step
<1>12. CASE EmitLeftQueueRight(left, right)
  <2>1. Abstract!Divide(<<H(0)>>, <<H(1)>>)
    BY <1>1, <1>4, <1>5, <1>12, EmitLeftDivides
  <2>2. Abstract!EmitHalf(0)
    BY <1>5, <1>6, <1>7, <1>8, <1>12, <2>1 DEF EmitLeftQueueRight, Abstract!EmitHalf
  <2> QED
    BY <1>8, <2>2 DEF Abstract!Step
<1>13. CASE EmitRightQueueLeft(left, right)
  <2>1. Requeue(left) /\ zs' = Append(zs, RegionZ(right))
    BY <1>4, <1>13 DEF EmitRightQueueLeft
  <2>2. zs' = zs \o <<H(1)>>
    <3>1. zs \in Seq(Z!Region) /\ RegionZ(right) \in Z!Region
      BY <1>4, ZIsRegion DEF IInv
    <3> QED
      BY <1>5, <2>1, <3>1, AppendIsConcatenation
  <2>3. Abstract!Divide(<<H(1)>>, <<H(0)>>)
    BY <1>1, <1>4, <1>5, <2>1, <2>2, RequeueQueues, LoopDivides
  <2>4. Abstract!EmitHalf(1)
    BY <1>5, <1>6, <1>7, <1>8, <1>13, <2>3 DEF EmitRightQueueLeft, Abstract!EmitHalf
  <2> QED
    BY <1>8, <2>4 DEF Abstract!Step
<1>14. CASE QueueBoth(left, right)
  <2>1. Abstract!Divide(<< >>, <<H(1), H(0)>>)
    BY <1>1, <1>4, <1>5, <1>14, QueueBothDivides
  <2>2. \A n \in Abstract!Bit : Abstract!Overlaps(o, H(n))
    BY <1>6, <1>7, <1>8, <1>14 DEF QueueBoth
  <2>3. Abstract!SplitBoth
    BY <1>5, <1>14, <2>1, <2>2 DEF QueueBoth, Abstract!SplitBoth
  <2> QED
    BY <2>3 DEF Abstract!Step
<1>15. CASE Coarsen(left, right)
  <2>1. Abstract!Divide(<<Abstract!Front>>, << >>)
    BY <1>1, <1>4, <1>5, <1>15, EmitDivides DEF Coarsen
  <2>2. /\ \A n \in Abstract!Bit : ~Abstract!Outside(o, H(n))
        /\ \E n \in Abstract!Bit : Abstract!Overlaps(o, H(n))
    BY <1>6, <1>7, <1>8, <1>15 DEF Coarsen
  <2>3. Abstract!Coarsen
    BY <1>5, <1>15, <2>1, <2>2 DEF Coarsen, Abstract!Coarsen
  <2> QED
    BY <2>3 DEF Abstract!Step
<1> QED
  BY <1>3, <1>9, <1>10, <1>11, <1>12, <1>13, <1>14, <1>15

-----------------------------------------------------------------------------
(***************************************************************************)
(* The search of the enclosing region ends with the halvings that the      *)
(* corners of the box have in common.                                      *)
(***************************************************************************)
\* The paths of the corners part above the next level, so the region a level
\* below the present one did not enclose the box.
EncloseInv ==
    pc = "enclose" =>
        /\ InSides(At(cur), box.lo)
        /\ At(cur).level < ZBits =>
              \E m \in 1..(At(cur).level + 1) :
                  Shuffled(box.lo, ZBits)[m] # Shuffled(box.hi, ZBits)[m]

\* The longest common prefix of two sequences that share their first k
\* members and no more.
LEMMA LongestOfTwo ==
    ASSUME NEW S, NEW x \in Seq(S), NEW y \in Seq(S), NEW z \in Seq(S),
           Len(z) <= Len(x), Len(z) <= Len(y),
           \A n \in 1..Len(z) : z[n] = x[n] /\ z[n] = y[n],
           Len(z) < Len(x) => \E m \in 1..(Len(z) + 1) : x[m] # y[m],
           Len(x) = Len(y)
    PROVE  LongestCommonPrefix({x, y}) = z
<1> DEFINE C == CommonPrefixes({x, y})
<1>1. Len(x) \in Nat /\ Len(y) \in Nat /\ Len(z) \in Nat
  OBVIOUS
<1>2. z = SubSeq(x, 1, Len(z)) /\ z = SubSeq(z, 1, Len(z)) /\ z = SubSeq(y, 1, Len(z))
  OBVIOUS
<1>3. z \in C
  <2>1. Len(z) \in 0..Len(x)
    BY <1>1
  <2>2. z \in Prefixes(x)
    BY <1>2, <2>1 DEF Prefixes
  <2>3. IsPrefix(z, x) /\ IsPrefix(z, y)
    BY <1>2 DEF IsPrefix
  <2> QED
    BY <2>2, <2>3 DEF CommonPrefixes
<1>4. ASSUME NEW p \in C
      PROVE  /\ Len(p) \in Nat /\ Len(p) <= Len(z)
             /\ p \in Seq(S) /\ \A n \in 1..Len(p) : p[n] = x[n]
  <2>1. IsPrefix(p, x) /\ IsPrefix(p, y)
    BY DEF CommonPrefixes
  <2>2. \E w \in {x, y} : \E l \in 0..Len(w) : p = SubSeq(w, 1, l)
    BY DEF CommonPrefixes, Prefixes
  <2>3. p \in Seq(S) /\ Len(p) \in Nat
    BY <1>1, <2>2
  <2>4. Len(p) <= Len(x) /\ \A n \in 1..Len(p) : p[n] = x[n] /\ p[n] = y[n]
    <3>1. /\ Len(p) <= Len(x) /\ SubSeq(p, 1, Len(p)) = SubSeq(x, 1, Len(p))
          /\ Len(p) <= Len(y) /\ SubSeq(p, 1, Len(p)) = SubSeq(y, 1, Len(p))
      BY <2>1 DEF IsPrefix
    <3>2. \A n \in 1..Len(p) : /\ SubSeq(p, 1, Len(p))[n] = p[n]
                               /\ SubSeq(x, 1, Len(p))[n] = x[n]
                               /\ SubSeq(y, 1, Len(p))[n] = y[n]
      BY <1>1, <2>3, <3>1
    <3> QED
      BY <3>1, <3>2
  <2>5. Len(p) <= Len(z)
    <3> SUFFICES ASSUME Len(p) > Len(z)
                 PROVE  FALSE
      BY <1>1, <2>3
    <3>1. PICK m \in 1..(Len(z) + 1) : x[m] # y[m]
      BY <1>1, <2>3, <2>4
    <3>2. m \in 1..Len(p)
      BY <1>1, <2>3, <3>1
    <3> QED
      BY <2>4, <3>1, <3>2
  <2> QED
    BY <2>3, <2>4, <2>5
<1> DEFINE l == LongestCommonPrefix({x, y})
<1>5. l \in C /\ \A other \in C : Len(other) <= Len(l)
  <2> HIDE DEF C
  <2>1. l = CHOOSE longest \in C : \A other \in C : Len(other) <= Len(longest)
    BY DEF LongestCommonPrefix, C
  <2>2. \E longest \in C : \A other \in C : Len(other) <= Len(longest)
    BY <1>3, <1>4
  <2> HIDE DEF l
  <2> QED
    BY <2>1, <2>2
<1> HIDE DEF C, l
<1>6. l \in Seq(S) /\ Len(l) = Len(z) /\ \A n \in 1..Len(l) : l[n] = x[n]
  BY <1>1, <1>3, <1>4, <1>5
<1>7. l = z
  <2>1. \A n \in 1..Len(z) : l[n] = z[n]
    BY <1>6
  <2> QED
    BY ONLY <1>6, <2>1, z \in Seq(S)
<1> QED
  BY <1>7 DEF l

LEMMA CornersDecide ==
    ASSUME NEW b, IsBox(b), NEW r, Aligned(r)
    PROVE  ContainedBy(b, r) <=> InSides(r, b.lo) /\ InSides(r, b.hi)
<1>1. /\ \A d \in Dims : b.lo[d] \in Nat /\ b.hi[d] \in Nat /\ b.lo[d] <= b.hi[d]
      /\ \A d \in Dims : r.lo[d] \in Nat /\ r.hi[d] \in Nat
  BY PointIsFunction, SidesInOrder DEF IsBox
<1> QED
  BY <1>1 DEF ContainedBy, InSides

LEMMA EnclosingIsFound ==
    ASSUME NEW b, IsBox(b), NEW r, Aligned(r), ContainedBy(b, r),
           r.level < ZBits =>
              \E m \in 1..(r.level + 1) : Shuffled(b.lo, ZBits)[m] # Shuffled(b.hi, ZBits)[m]
    PROVE  EnclosingZ(b) = RegionZ(r)
<1> DEFINE x == Shuffled(b.lo, ZBits)
           y == Shuffled(b.hi, ZBits)
           z == RegionZ(r)
<1>1. b.lo \in Point /\ b.hi \in Point /\ ZBits \in Nat /\ ZBits \in 0..ZBits
  BY ZBitsIsPositive DEF IsBox
<1>2. x \in [1..ZBits -> {0, 1}] /\ y \in [1..ZBits -> {0, 1}]
  BY <1>1, ShuffledIsPath
<1>3. z \in Seq({0, 1}) /\ Len(z) = r.level /\ r.level \in 0..ZBits
  BY RegionPath
<1>4. OnPath(r, b.lo) /\ OnPath(r, b.hi)
  BY <1>1, CornersDecide, InRegionIsOnPath
<1>5. \A n \in 1..Len(z) : z[n] = x[n] /\ z[n] = y[n]
  BY <1>3, <1>4 DEF OnPath
<1>6. Len(z) < ZBits => \E m \in 1..(Len(z) + 1) : x[m] # y[m]
  BY <1>3
<1> HIDE DEF x, y, z
<1>7. x \in Seq({0, 1}) /\ y \in Seq({0, 1}) /\ Len(x) = ZBits /\ Len(y) = ZBits
  BY ONLY <1>1, <1>2
<1>8. Len(z) <= Len(x) /\ Len(z) <= Len(y) /\ Len(x) = Len(y)
  BY ONLY <1>1, <1>3, <1>7
<1>9. Len(z) < Len(x) => \E m \in 1..(Len(z) + 1) : x[m] # y[m]
  BY ONLY <1>6, <1>7
<1>10. LongestCommonPrefix({x, y}) = z
  BY ONLY <1>3, <1>5, <1>7, <1>8, <1>9, LongestOfTwo
<1> QED
  BY <1>10 DEF EnclosingZ, x, y, z

-----------------------------------------------------------------------------
LEMMA DecomposeMaps ==
    ASSUME IInv, NEW b \in Boxes, NEW m \in MaxZs, Decompose(b, m)
    PROVE  Abstract!Decompose(CellsOfBox(b), m) /\ CellsOfBox(b) \in OccupiedSets /\ EncloseInv'
<1> DEFINE r == Initialized(ArbitraryPoint(b))
<1>1. PICK t \in Pool!Taken(pool) : cur' = t.region /\ memory' = Stored(t.region, r)
  BY DEF Decompose
<1>2. /\ pc \in {"idle", "done"} /\ pc' = "enclose" /\ box' = b /\ maxZ' = m
      /\ queue' = << >> /\ zs' = << >> /\ i' = 1 /\ merge' = FALSE
  BY DEF Decompose
<1>3. At(cur)' = r
  <2>1. memory'[t.region[2]] = r
    BY <1>1 DEF Stored
  <2> QED
    BY <1>1, <2>1 DEF At
<1>4. b.lo \in Point /\ IsBox(b)
  BY BoxesAssumption DEF IsBox
<1>5. r.lo = b.lo /\ r.hi = b.lo /\ r.level = ZBits
  BY DEF Initialized, ArbitraryPoint
<1>6. AbstractObject' = CellsOfBox(b)
  BY <1>2 DEF AbstractObject, Occupied
<1>7. AbstractRegion' \in CellsOfBox(b)
  <2>1. AbstractRegion' = Shuffled(b.lo, ZBits)
    BY <1>2, <1>3, <1>5 DEF AbstractRegion, RegionZ
  <2>2. InBox(b, b.lo)
    BY <1>4, PointIsFunction DEF InBox, IsBox
  <2> QED
    BY <1>4, <2>1, <2>2, CellOfBox
<1>8. AbstractQueue' = << >>
  BY <1>2, NoPaths, QueuePrime
<1>9. Abstract!Decompose(CellsOfBox(b), m)
  BY <1>2, <1>6, <1>7, <1>8 DEF Abstract!Decompose
<1>10. CellsOfBox(b) \in OccupiedSets
  <2>1. Occupied[b] = CellsOfBox(b) /\ b \in DOMAIN Occupied
    BY DEF Occupied
  <2> QED
    BY <2>1 DEF OccupiedSets, Range
<1>11. EncloseInv'
  <2>1. InSides(r, b.lo)
    BY <1>4, <1>5, PointIsFunction DEF InSides
  <2>2. ~(r.level < ZBits)
    BY <1>5, ZBitsIsPositive
  <2> HIDE DEF r
  <2> QED
    BY <1>2, <1>3, <2>1, <2>2 DEF EncloseInv
<1> QED
  BY <1>9, <1>10, <1>11

LEMMA UpMaps ==
    ASSUME IInv, EncloseInv, Up
    PROVE  Abstract!Up /\ EncloseInv'
<1> DEFINE r == At(cur)
           u == RegionUp(r)
<1>1. /\ pc = "enclose" /\ ~ContainedBy(box, r) /\ memory' = [memory EXCEPT ![cur[2]] = u]
      /\ UNCHANGED <<pc, box, maxZ, cur, pool, queue, zs, i, merge>>
  BY DEF Up, At
<1>2. At(cur)' = u
  <2>1. cur[2] \in DOMAIN memory
    BY <1>1, EncloseFacts DEF HeldIs
  <2> QED
    BY <1>1, <2>1 DEF At
<1>3. Aligned(r) /\ r.level > 0 /\ r.level \in 0..ZBits
  BY UpBelowWhole DEF Aligned, RegionRecord
<1>4. IsBox(box) /\ AbstractObject = CellsOfBox(box) /\ AbstractObject' = AbstractObject
  BY <1>1, ObjectIsBox DEF AbstractObject
<1>5. ~Abstract!ContainedBy(AbstractObject, RegionZ(r))
  BY <1>1, <1>3, AnswersAgree
<1>6. AbstractRegion = RegionZ(r) /\ AbstractRegion' = RegionZ(u)
  BY <1>1, <1>2 DEF AbstractRegion
<1>7. RegionZ(u) = Abstract!Parent(RegionZ(r))
  <2> HIDE DEF r
  <2> QED
    BY <1>3, HalfPath DEF Abstract!Parent
<1>8. AbstractQueue' = AbstractQueue
  <2>1. queue = << >>
    BY <1>1, EncloseFacts
  <2> QED
    BY <1>1, <2>1, NoPaths, QueueIsPaths, QueuePrime
<1>9. Abstract!Up
  BY <1>1, <1>4, <1>5, <1>6, <1>7, <1>8 DEF Abstract!Up
<1>10. EncloseInv'
  <2>1. InSides(r, box.lo)
    BY <1>1 DEF EncloseInv
  <2>2. Aligned(u) /\ u.level = r.level - 1 /\ u.level + 1 = r.level
        /\ \A d \in Dims : u.lo[d] <= r.lo[d] /\ r.hi[d] <= u.hi[d]
    <3> HIDE DEF r
    <3> QED
      BY <1>3, UpAligned
  <2> HIDE DEF u
  <2>3. InSides(u, box.lo)
    <3>1. /\ \A d \in Dims : box.lo[d] \in Nat /\ r.lo[d] \in Nat /\ r.hi[d] \in Nat
          /\ \A d \in Dims : u.lo[d] \in Nat /\ u.hi[d] \in Nat
      BY <1>3, <1>4, <2>2, SidesInOrder, PointIsFunction DEF IsBox
    <3> HIDE DEF r
    <3> QED
      BY <2>1, <2>2, <3>1 DEF InSides
  <2>4. \E n \in 1..r.level : Shuffled(box.lo, ZBits)[n] # Shuffled(box.hi, ZBits)[n]
    <3> HIDE DEF r
    <3> SUFFICES ASSUME \A n \in 1..r.level :
                           Shuffled(box.lo, ZBits)[n] = Shuffled(box.hi, ZBits)[n]
                 PROVE  FALSE
      OBVIOUS
    <3>1. box.lo \in Point /\ box.hi \in Point
      BY <1>4 DEF IsBox
    <3>2. OnPath(r, box.hi)
      BY <1>3, <2>1, <3>1, InRegionIsOnPath DEF OnPath
    <3>3. ContainedBy(box, r)
      BY <1>3, <1>4, <2>1, <3>1, <3>2, InRegionIsOnPath, CornersDecide
    <3> QED
      BY <1>1, <3>3
  <2> HIDE DEF r
  <2> QED
    BY <1>1, <1>2, <2>2, <2>3, <2>4 DEF EncloseInv
<1> QED
  BY <1>9, <1>10

LEMMA StartQueueMaps ==
    ASSUME IInv, EncloseInv, StartQueue
    PROVE  Abstract!StartQueue
<1>1. /\ pc = "enclose" /\ pc' = "split" /\ ContainedBy(box, At(cur)) /\ queue' = <<cur>>
      /\ UNCHANGED <<box, maxZ, pool, memory, zs, i, merge>>
  BY DEF StartQueue
<1>2. cur \in Pointer /\ Aligned(At(cur))
  BY <1>1, EncloseFacts
<1>3. IsBox(box) /\ AbstractObject' = AbstractObject
  BY <1>1, ObjectIsBox DEF AbstractObject
<1>4. Abstract!ContainedBy(AbstractObject, RegionZ(At(cur)))
  BY <1>1, <1>2, AnswersAgree
<1>5. EnclosingZ(box) = RegionZ(At(cur))
  BY <1>1, <1>2, <1>3, EnclosingIsFound DEF EncloseInv
<1>6. AbstractRegion = RegionZ(At(cur)) /\ AbstractRegion' = RegionZ(At(cur))
  <2>1. AbstractRegion' = EnclosingZ(box)
    BY <1>1 DEF AbstractRegion
  <2> QED
    BY <1>1, <1>5, <2>1 DEF AbstractRegion
<1>7. AbstractQueue' = <<RegionZ(At(cur))>>
  <2>1. AbstractQueue' = PathsOf(<<cur>>, memory)
    BY <1>1, QueuePrime
  <2>2. PathsOf(<<cur>>, memory) = <<RegionZ(memory[cur[2]])>>
    BY DEF PathsOf
  <2> QED
    BY <2>1, <2>2 DEF At
<1> QED
  BY <1>1, <1>3, <1>4, <1>6, <1>7 DEF Abstract!StartQueue

-----------------------------------------------------------------------------
\* Sorting and merging are the same on both levels.
LEMMA QueueEmpty ==
    ASSUME IInv, queue = << >>, UNCHANGED <<queue, memory>>
    PROVE  AbstractQueue = << >> /\ AbstractQueue' = << >>
  BY NoPaths, QueueIsPaths, QueuePrime

LEMMA SortMaps ==
    ASSUME IInv, Sort
    PROVE  Abstract!Sort
<1>1. /\ pc = "split" /\ queue = << >> /\ pc' = "merge" /\ i' = 1 /\ merge' = FALSE
      /\ UNCHANGED <<box, maxZ, cur, pool, memory, queue>>
  BY DEF Sort
<1>2. AbstractQueue = << >> /\ AbstractQueue' = << >>
  BY <1>1, QueueEmpty
<1>3. AbstractObject' = AbstractObject /\ AbstractRegion' = AbstractRegion
  BY <1>1 DEF AbstractObject, AbstractRegion
<1>4. PICK p \in Bijection(DOMAIN zs, DOMAIN zs) :
          /\ zs' = [n \in DOMAIN zs |-> zs[p[n]]]
          /\ \A j, k \in DOMAIN zs : j < k => ~Z!Before(zs'[k], zs'[j])
  BY DEF Sort
<1>5. p \in Abstract!Bijection(DOMAIN zs, DOMAIN zs)
  BY <1>4 DEF Bijection, Injection, Surjection, IsInjective,
              Abstract!Bijection, Abstract!Injection, Abstract!Surjection, Abstract!IsInjective
<1>6. DOMAIN zs' = DOMAIN zs
  BY <1>4
<1>7. \A a, c : Abstract!Before(a, c) <=> Z!Before(a, c)
  BY DEF Abstract!Before, Z!Before, Abstract!PaddedBit, Z!PaddedBit
<1>8. Abstract!Ascending(zs')
  BY <1>4, <1>6, <1>7 DEF Abstract!Ascending
<1> QED
  BY <1>1, <1>2, <1>3, <1>4, <1>5, <1>8 DEF Abstract!Sort

\* Putting the parent in the left sibling's place and removing the right one.
LEMMA RemovedNext ==
    ASSUME NEW S, NEW s \in Seq(S), NEW n \in Nat \ {0}, n < Len(s), NEW x \in S
    PROVE  RemoveAt([s EXCEPT ![n] = x], n + 1)
             = SubSeq(s, 1, n - 1) \o <<x>> \o SubSeq(s, n + 2, Len(s))
<1> DEFINE e == [s EXCEPT ![n] = x]
           L == Len(s)
           a == SubSeq(e, 1, n)
           c == SubSeq(e, n + 2, L)
           b == SubSeq(s, 1, n - 1)
           d == SubSeq(s, n + 2, L)
<1>1. e \in Seq(S) /\ Len(e) = L /\ L \in Nat
  OBVIOUS
<1>2. e[n] = x /\ \A m \in 1..L : m # n => e[m] = s[m]
  OBVIOUS
<1>3. RemoveAt(e, n + 1) = a \o c
  <2>1. (n + 1) - 1 = n /\ (n + 1) + 1 = n + 2
    OBVIOUS
  <2> HIDE DEF e
  <2> QED
    BY <1>1, <2>1 DEF RemoveAt
<1> HIDE DEF e, L
<1>4. /\ a \in Seq(S) /\ Len(a) = n /\ \A m \in 1..n : a[m] = e[m]
      /\ b \in Seq(S) /\ Len(b) = n - 1 /\ \A m \in 1..(n - 1) : b[m] = s[m]
  BY <1>1 DEF L
<1>5. c = d
  <2>1. c \in Seq(S) /\ Len(c) = IF n + 2 <= L THEN L - (n + 2) + 1 ELSE 0
    BY ONLY <1>1, n \in Nat
  <2>2. d \in Seq(S) /\ Len(d) = IF n + 2 <= L THEN L - (n + 2) + 1 ELSE 0
    BY <1>1 DEF L
  <2>3. \A m \in 1..Len(c) : c[m] = d[m]
    <3> SUFFICES ASSUME NEW m \in 1..Len(c)
                 PROVE  c[m] = d[m]
      OBVIOUS
    <3>1. /\ m + (n + 1) \in 1..L /\ m + (n + 1) # n
          /\ c[m] = e[m + (n + 1)] /\ d[m] = s[m + (n + 1)]
      BY <1>1, <2>1, <2>2 DEF L
    <3> QED
      BY <1>2, <3>1
  <2> HIDE DEF c, d
  <2> QED
    BY ONLY <2>1, <2>2, <2>3
<1>6. a = Append(b, x)
  <2>1. \A m \in 1..(n - 1) : a[m] = b[m]
    BY <1>1, <1>2, <1>4 DEF L
  <2>2. a[n] = x
    BY <1>2, <1>4
  <2> HIDE DEF a, b
  <2> QED
    BY ONLY <1>4, <2>1, <2>2, x \in S, n \in Nat \ {0}
<1>7. Append(b, x) = b \o <<x>>
  BY ONLY <1>4, AppendIsConcatenation, x \in S
<1> QED
  BY ONLY <1>3, <1>5, <1>6, <1>7 DEF e, L

LEMMA MergePairMaps ==
    ASSUME IInv, MergePair
    PROVE  Abstract!Step
<1>1. /\ pc = "merge" /\ pc' = "merge" /\ i < Len(zs) /\ i \in Nat \ {0} /\ i' = i + 1
      /\ merge' = Z!SiblingOf(zs[i], zs[i + 1])
      /\ zs' = IF merge' THEN RemoveAt([zs EXCEPT ![i] = Z!Parent(zs[i])], i + 1) ELSE zs
      /\ UNCHANGED <<box, maxZ, cur, pool, memory, queue>>
  BY DEF MergePair, IInv
<1>2. queue = << >>
  BY <1>1 DEF IInv, CallState
<1>3. AbstractQueue = << >> /\ AbstractQueue' = << >>
  BY <1>1, <1>2, QueueEmpty
<1>4. AbstractObject' = AbstractObject /\ AbstractRegion' = AbstractRegion
  BY <1>1 DEF AbstractObject, AbstractRegion
<1>5. Abstract!SiblingOf(zs[i], zs[i + 1]) <=> Z!SiblingOf(zs[i], zs[i + 1])
  BY DEF Abstract!SiblingOf, Z!SiblingOf
<1>6. zs \in Seq(Z!Region) /\ zs[i] \in Z!Region
  BY <1>1 DEF IInv
<1>7. CASE ~Z!SiblingOf(zs[i], zs[i + 1])
  <2>1. merge' = FALSE /\ zs' = zs
    <3>1. ~merge'
      BY <1>1, <1>7
    <3> QED
      BY <1>1, <1>7, <3>1, Zenon DEF Z!SiblingOf
  <2>2. Abstract!KeepPair
    BY <1>1, <1>3, <1>4, <1>5, <1>7, <2>1 DEF Abstract!KeepPair, Abstract!Merging
  <2> QED
    BY <2>2 DEF Abstract!Step
<1>8. CASE Z!SiblingOf(zs[i], zs[i + 1])
  <2>1. merge' = TRUE
    BY <1>1, <1>8, Zenon DEF Z!SiblingOf
  <2>2. Z!Parent(zs[i]) \in Z!Region /\ Abstract!Parent(zs[i]) = Z!Parent(zs[i])
    BY <1>6, <1>8, ParentIsRegion DEF Z!SiblingOf, Abstract!Parent, Z!Parent
  <2>3. zs' = SubSeq(zs, 1, i - 1) \o <<Abstract!Parent(zs[i])>> \o SubSeq(zs, i + 2, Len(zs))
    BY <1>1, <1>6, <2>1, <2>2, RemovedNext
  <2>4. Abstract!MergeSiblings
    BY <1>1, <1>3, <1>4, <1>5, <1>8, <2>1, <2>3 DEF Abstract!MergeSiblings, Abstract!Merging
  <2> QED
    BY <2>4 DEF Abstract!Step
<1> QED
  BY <1>7, <1>8

LEMMA EndPassMaps ==
    ASSUME IInv, EndPass
    PROVE  Abstract!EndPass
<1>1. /\ pc = "merge" /\ i >= Len(zs) /\ pc' = (IF merge THEN "merge" ELSE "done")
      /\ pc' \in {"merge", "done"} /\ i' = 1 /\ merge' = FALSE
      /\ UNCHANGED <<box, maxZ, cur, pool, memory, queue, zs>>
  BY DEF EndPass
<1>2. queue = << >>
  BY <1>1 DEF IInv, CallState
<1>3. AbstractQueue = << >> /\ AbstractQueue' = << >>
  BY <1>1, <1>2, QueueEmpty
<1>4. AbstractObject' = AbstractObject /\ AbstractRegion' = AbstractRegion
  BY <1>1 DEF AbstractObject, AbstractRegion
<1> QED
  BY <1>1, <1>3, <1>4 DEF Abstract!EndPass

LEMMA StutterMaps ==
    ASSUME UNCHANGED vars
    PROVE  UNCHANGED Abstract!vars /\ (EncloseInv => EncloseInv')
<1>1. UNCHANGED <<pc, box, maxZ, cur, pool, memory, queue, zs, i, merge>>
  BY DEF vars
<1>2. AbstractQueue' = AbstractQueue
  BY <1>1, QueueIsPaths, QueuePrime
<1>3. AbstractObject' = AbstractObject /\ AbstractRegion' = AbstractRegion /\ At(cur)' = At(cur)
  BY <1>1 DEF AbstractObject, AbstractRegion, At
<1> QED
  BY <1>1, <1>2, <1>3 DEF Abstract!vars, EncloseInv

LEMMA InitMaps ==
    ASSUME Init
    PROVE  Abstract!Init /\ EncloseInv
<1>1. pc = "idle" /\ maxZ = 0 /\ queue = << >> /\ zs = << >> /\ i = 1 /\ merge = FALSE
  BY DEF Init
<1>2. AbstractQueue = << >>
  BY <1>1, NoPaths, QueueIsPaths
<1>3. AbstractObject = {} /\ AbstractRegion = Abstract!Whole
  BY <1>1 DEF AbstractObject, AbstractRegion, Z!Whole, Abstract!Whole
<1> QED
  BY <1>1, <1>2, <1>3 DEF Abstract!Init, EncloseInv

LEMMA StepMaps ==
    ASSUME IInv, EncloseInv, [Next]_vars
    PROVE  [Abstract!Next]_(Abstract!vars) /\ EncloseInv'
<1>1. CASE \E b \in Boxes, m \in MaxZs : Decompose(b, m)
  <2>1. PICK b \in Boxes, m \in MaxZs : Decompose(b, m)
    BY <1>1
  <2>2. m \in MaxZs /\ Abstract!Decompose(CellsOfBox(b), m)
        /\ CellsOfBox(b) \in OccupiedSets /\ EncloseInv'
    BY <2>1, DecomposeMaps
  <2> QED
    BY <2>2 DEF Abstract!Next
<1>2. CASE Up
  BY <1>2, UpMaps DEF Abstract!Next, Abstract!Step
<1>3. CASE StartQueue
  <2>1. pc' # "enclose"
    BY <1>3 DEF StartQueue
  <2> QED
    BY <1>3, <2>1, StartQueueMaps DEF Abstract!Next, Abstract!Step, EncloseInv
<1>4. CASE EmitPoint
  <2>1. pc' # "enclose"
    BY <1>4 DEF EmitPoint, Taking
  <2> QED
    BY <1>4, <2>1, EmitPointMaps DEF Abstract!Next, Abstract!Step, EncloseInv
<1>5. CASE Divide
  <2>1. pc' # "enclose"
    BY <1>5 DEF Divide, Taking
  <2> QED
    BY <1>5, <2>1, DivideMaps DEF Abstract!Next, EncloseInv
<1>6. CASE Sort
  <2>1. pc' # "enclose"
    BY <1>6 DEF Sort
  <2> QED
    BY <1>6, <2>1, SortMaps DEF Abstract!Next, Abstract!Step, EncloseInv
<1>7. CASE MergePair
  <2>1. pc' # "enclose"
    BY <1>7 DEF MergePair
  <2> QED
    BY <1>7, <2>1, MergePairMaps DEF Abstract!Next, EncloseInv
<1>8. CASE EndPass
  <2>1. pc' # "enclose"
    BY <1>8 DEF EndPass
  <2> QED
    BY <1>8, <2>1, EndPassMaps DEF Abstract!Next, Abstract!Step, EncloseInv
<1>9. CASE UNCHANGED vars
  BY <1>9, StutterMaps
<1> QED
  BY <1>1, <1>2, <1>3, <1>4, <1>5, <1>6, <1>7, <1>8, <1>9 DEF Next, Step

\* Every run of the code on boxes and Region objects, moved in place, queued
\* by pointer and recycled, is a run of Decomposition on sets of cells: the
\* steps of one are steps of the other.
THEOREM DetailIsDecomposition == Spec => Abstract!Init /\ [][Abstract!Next]_(Abstract!vars)
<1>1. Init => Abstract!Init /\ EncloseInv
  BY InitMaps
<1>2. IInv /\ EncloseInv /\ [Next]_vars => [Abstract!Next]_(Abstract!vars) /\ EncloseInv'
  BY StepMaps
<1> QED
  BY <1>1, <1>2, Invariance, PTL DEF Spec

-----------------------------------------------------------------------------
(***************************************************************************)
(* What has been proved of Decomposition holds of the code.                *)
(***************************************************************************)
Calls == INSTANCE DecompositionProofs WITH
    Objects <- OccupiedSets,
    obj     <- AbstractObject,
    region  <- AbstractRegion,
    queue   <- AbstractQueue

LEMMA FiniteCells ==
    ASSUME NEW S, S \subseteq Calls!Cell
    PROVE  Calls!IsFiniteSet(S)
<1> DEFINE f == [c \in S |-> {n \in 1..ZBits : c[n] = 1}]
<1>1. ZBits \in Nat
  BY ZBitsIsPositive
<1>2. \A c \in S : c \in [1..ZBits -> {0, 1}]
  BY DEF Calls!Cell, Calls!Bit
<1>3. f \in [S -> SUBSET (1..ZBits)]
  OBVIOUS
<1>4. ASSUME NEW c \in S, NEW e \in S, f[c] = f[e]
      PROVE  c = e
  <2>1. \A n \in 1..ZBits : c[n] = 1 <=> e[n] = 1
    BY <1>4
  <2>2. c \in [1..ZBits -> {0, 1}] /\ e \in [1..ZBits -> {0, 1}]
    BY <1>2
  <2>3. \A n \in 1..ZBits : c[n] = e[n]
    BY <2>1, <2>2
  <2>4. c = [n \in 1..ZBits |-> c[n]] /\ e = [n \in 1..ZBits |-> e[n]]
    BY ONLY <2>2
  <2>5. [n \in 1..ZBits |-> c[n]] = [n \in 1..ZBits |-> e[n]]
    BY ONLY <2>3
  <2> QED
    BY ONLY <2>4, <2>5
<1>5. f \in Injection(S, SUBSET (1..ZBits))
  BY <1>3, <1>4, Fun_IsInj
<1>6. IsFiniteSet(SUBSET (1..ZBits))
  <2>1. IsFiniteSet(1..ZBits)
    BY <1>1, FS_Interval
  <2> QED
    BY <2>1, FS_SUBSET
<1> HIDE DEF f
<1>7. IsFiniteSet(S)
  BY <1>5, <1>6, FS_Injection
<1> QED
  BY <1>7 DEF IsFiniteSet, Calls!IsFiniteSet

\* The assumptions of module Decomposition.
LEMMA CallsAssumptions ==
    /\ ZBits \in Nat \ {0}
    /\ OccupiedSets \subseteq (SUBSET Calls!Cell) \ {{}}
    /\ \A o \in OccupiedSets : Calls!IsFiniteSet(o)
    /\ MaxZs \subseteq Nat \ {0}
<1>1. ASSUME NEW o \in OccupiedSets
      PROVE  o \in SUBSET Calls!Cell /\ o # {}
  <2>1. PICK b \in Boxes : o = CellsOfBox(b)
    BY DEF OccupiedSets, Occupied, Range
  <2>2. IsBox(b)
    BY BoxesAssumption DEF IsBox
  <2>3. ASSUME NEW c \in o
        PROVE  c \in Calls!Cell
    <3>1. PICK x \in Point : c = Shuffled(x, ZBits)
      BY <2>1, CellsAreShuffled
    <3> QED
      BY <3>1, ShuffledIsPath, ZBitsIsPositive DEF Calls!Cell, Calls!Bit
  <2>4. b.lo \in Point /\ InBox(b, b.lo)
    <3>1. b.lo \in Point /\ b.hi \in Point /\ \A d \in Dims : b.lo[d] <= b.hi[d]
      BY <2>2 DEF IsBox
    <3> QED
      BY <3>1, PointBounds DEF InBox
  <2>5. Shuffled(b.lo, ZBits) \in o
    BY <2>1, <2>4, CellOfBox
  <2> QED
    BY <2>3, <2>5
<1>2. \A o \in OccupiedSets : Calls!IsFiniteSet(o)
  BY <1>1, FiniteCells
<1>3. MaxZs \subseteq Nat \ {0}
  BY MaxZsAssumption, InitialCapacityAssumption
<1> QED
  BY <1>1, <1>2, <1>3, ZBitsIsPositive

LEMMA CallsInit == Abstract!Init <=> Calls!Init
BY DEF Abstract!Init, Calls!Init, Abstract!Whole, Calls!Whole

LEMMA CallsNext == [Abstract!Next]_(Abstract!vars) <=> [Calls!Next]_(Calls!vars)
BY DEF Abstract!Next, Calls!Next, Abstract!vars, Calls!vars,
       Abstract!Decompose, Calls!Decompose, Abstract!Step, Calls!Step,
       Abstract!Up, Calls!Up, Abstract!StartQueue, Calls!StartQueue,
       Abstract!EmitPoint, Calls!EmitPoint, Abstract!EmitWhole, Calls!EmitWhole,
       Abstract!SplitBoth, Calls!SplitBoth, Abstract!Coarsen, Calls!Coarsen,
       Abstract!DropHalf, Calls!DropHalf, Abstract!EmitHalf, Calls!EmitHalf,
       Abstract!Sort, Calls!Sort, Abstract!MergeSiblings, Calls!MergeSiblings,
       Abstract!KeepPair, Calls!KeepPair, Abstract!EndPass, Calls!EndPass,
       Abstract!Bit, Calls!Bit, Abstract!Taking, Calls!Taking,
       Abstract!Front, Calls!Front, Abstract!Half, Calls!Half,
       Abstract!Room, Calls!Room, Abstract!Divide, Calls!Divide,
       Abstract!Merging, Calls!Merging, Abstract!Ascending, Calls!Ascending,
       Abstract!ContainedBy, Calls!ContainedBy, Abstract!Inside, Calls!Inside,
       Abstract!Outside, Calls!Outside, Abstract!Overlaps, Calls!Overlaps,
       Abstract!Cells, Calls!Cells, Abstract!Has, Calls!Has,
       Abstract!Cell, Calls!Cell, Abstract!Child, Calls!Child,
       Abstract!Parent, Calls!Parent, Abstract!IsPoint, Calls!IsPoint,
       Abstract!SiblingOf, Calls!SiblingOf, Abstract!Before, Calls!Before,
       Abstract!PaddedBit, Calls!PaddedBit, Abstract!Bijection, Calls!Bijection,
       Abstract!Injection, Calls!Injection, Abstract!Surjection, Calls!Surjection,
       Abstract!IsInjective, Calls!IsInjective

\* The invariant of the code, with that of Decomposition.
CodeInv == IInv /\ EncloseInv /\ Calls!CallInv

LEMMA CodeInvStarts == Init => CodeInv
<1>1. Init => IInv /\ EncloseInv /\ Calls!Init
  BY InitStep, InitMaps, CallsInit
<1>2. Calls!Init => Calls!CallInv
  BY CallsAssumptions, Calls!CallInvStarts
<1> QED
  BY <1>1, <1>2 DEF CodeInv

LEMMA CodeInvKept == CodeInv /\ [Next]_vars => CodeInv'
<1> SUFFICES ASSUME CodeInv, [Next]_vars
             PROVE  CodeInv'
  OBVIOUS
<1>1. IInv' /\ EncloseInv' /\ [Calls!Next]_(Calls!vars)
  BY NextKeeps, StepMaps, CallsNext DEF CodeInv
<1>2. Calls!CallInv /\ [Calls!Next]_(Calls!vars) => Calls!CallInv'
  BY CallsAssumptions, Calls!CallInvKept
<1> QED
  BY <1>1, <1>2 DEF CodeInv

\* A call that has returned has approximated the cells of the box.
LEMMA CodeReturns ==
    ASSUME CodeInv, pc = "done"
    PROVE  Calls!Approximated(CellsOfBox(box), zs)
<1>1. AbstractObject = CellsOfBox(box)
  BY ObjectIsBox DEF CodeInv
<1>2. Calls!CallInv /\ pc = "done" => Calls!Approximated(AbstractObject, zs)
  BY CallsAssumptions, Calls!CallReturns
<1> QED
  BY <1>1, <1>2 DEF CodeInv

\* Whatever a box, the capacity of the pool and max_z are: what decompose returns
\* has every cell of the box, no cell twice, nothing that is apart from the box,
\* and does not leave the smallest region that encloses the box.
BoxApproximated == pc = "done" => Calls!Approximated(CellsOfBox(box), zs)

THEOREM BoxesAlwaysApproximated == Spec => []BoxApproximated
<1>1. CodeInv => BoxApproximated
  BY CodeReturns DEF BoxApproximated
<1> QED
  BY <1>1, CodeInvStarts, CodeInvKept, PTL DEF Spec

\* So of a box in one cell there is one z-value: the cell.
LEMMA CellReturns ==
    ASSUME CodeInv, pc = "done", NEW c \in Calls!Cell, CellsOfBox(box) = {c}
    PROVE  zs = <<c>>
<1>1. Calls!Approximated({c}, zs)
  BY CodeReturns
<1> QED
  BY <1>1, CallsAssumptions, Calls!CellApproximated

-----------------------------------------------------------------------------
(***************************************************************************)
(* The constructor of Space and the interleaving of coordinates, as module *)
(* SpaceGrid describes them.                                               *)
(***************************************************************************)

\* How often d is among the first n of s.
Count(s, d, n) == Cardinality({k \in 1..n : s[k] = d})

LEMMA CountSteps ==
    ASSUME NEW s, NEW d, NEW n \in Nat
    PROVE  /\ Count(s, d, n) \in Nat /\ Count(s, d, 0) = 0
           /\ s[n + 1] = d => Count(s, d, n + 1) = Count(s, d, n) + 1
           /\ s[n + 1] # d => Count(s, d, n + 1) = Count(s, d, n)
<1> DEFINE A(m) == {k \in 1..m : s[k] = d}
<1>1. ASSUME NEW m \in Nat
      PROVE  IsFiniteSet(A(m)) /\ Cardinality(A(m)) \in Nat
  <2>1. IsFiniteSet(1..m)
    BY FS_Interval
  <2>2. A(m) \subseteq 1..m
    OBVIOUS
  <2> HIDE DEF A
  <2> QED
    BY <2>1, <2>2, FS_Subset, FS_CardinalityType
<1>2. A(0) = {}
  OBVIOUS
<1>3. A(n + 1) = IF s[n + 1] = d THEN A(n) \cup {n + 1} ELSE A(n)
  <2>1. 1..(n + 1) = (1..n) \cup {n + 1}
    OBVIOUS
  <2> QED
    BY <2>1
<1>4. n + 1 \notin A(n)
  OBVIOUS
<1> HIDE DEF A
<1>5. Cardinality(A(n) \cup {n + 1}) = Cardinality(A(n)) + 1
  BY <1>1, <1>4, FS_AddElement
<1>6. Cardinality(A(0)) = 0
  BY <1>2, FS_EmptySet
<1>7. Cardinality(A(n)) \in Nat
  BY <1>1
<1>8. Cardinality(A(n + 1)) = Cardinality(A(n)) + (IF s[n + 1] = d THEN 1 ELSE 0)
  BY ONLY <1>3, <1>5, <1>7
<1> QED
  BY ONLY <1>6, <1>7, <1>8 DEF Count, A

LEMMA CountGrows ==
    ASSUME NEW s, NEW d, NEW m \in Nat, NEW n \in Nat, m <= n
    PROVE  Count(s, d, m) <= Count(s, d, n)
<1> DEFINE A(k) == {j \in 1..k : s[j] = d}
<1>1. IsFiniteSet(A(n))
  <2>1. IsFiniteSet(1..n)
    BY FS_Interval
  <2>2. A(n) \subseteq 1..n
    OBVIOUS
  <2> HIDE DEF A
  <2> QED
    BY <2>1, <2>2, FS_Subset
<1>2. A(m) \subseteq A(n)
  OBVIOUS
<1> HIDE DEF A
<1>3. Cardinality(A(m)) <= Cardinality(A(n))
  BY <1>1, <1>2, FS_Subset
<1> QED
  BY <1>3 DEF Count, A

\* Each occurrence of d has its number.
LEMMA CountTells ==
    ASSUME NEW s, NEW d, NEW m \in Nat, NEW n \in Nat, m < n, s[n] = d
    PROVE  Count(s, d, m) < Count(s, d, n)
<1>1. n - 1 \in Nat /\ m <= n - 1
  OBVIOUS
<1>2. Count(s, d, m) <= Count(s, d, n - 1)
  BY <1>1, CountGrows
<1>3. s[(n - 1) + 1] = d => Count(s, d, (n - 1) + 1) = Count(s, d, n - 1) + 1
  BY <1>1, CountSteps
<1>4. (n - 1) + 1 = n
  OBVIOUS
<1>5. Count(s, d, n) = Count(s, d, n - 1) + 1
  BY <1>3, <1>4
<1>6. Count(s, d, m) \in Nat /\ Count(s, d, n - 1) \in Nat
  BY <1>1, CountSteps
<1> QED
  BY <1>2, <1>5, <1>6

LEMMA CountReaches ==
    ASSUME NEW s, NEW d, NEW n \in Nat, NEW c \in 1..Count(s, d, n)
    PROVE  \E k \in 1..n : s[k] = d /\ Count(s, d, k) = c
<1> DEFINE K == {k \in Nat : c <= Count(s, d, k)}
<1>1. K \in SUBSET Nat /\ n \in K
  BY CountSteps
<1>2. PICK k \in K : \A x \in K : k <= x
  BY <1>1, LeastElement
<1>3. k \in Nat /\ k <= n /\ c <= Count(s, d, k)
  BY <1>1, <1>2
<1>4. k # 0
  BY <1>3, CountSteps
<1>5. k - 1 \in Nat /\ ~(c <= Count(s, d, k - 1)) /\ (k - 1) + 1 = k
  <2>1. k - 1 \in Nat /\ ~(k <= k - 1)
    BY <1>3, <1>4
  <2> QED
    BY <1>2, <2>1
<1>6. Count(s, d, k) = Count(s, d, k - 1) + (IF s[k] = d THEN 1 ELSE 0)
      /\ Count(s, d, k - 1) \in Nat
  <2>1. /\ s[(k - 1) + 1] = d => Count(s, d, (k - 1) + 1) = Count(s, d, k - 1) + 1
        /\ s[(k - 1) + 1] # d => Count(s, d, (k - 1) + 1) = Count(s, d, k - 1)
        /\ Count(s, d, k - 1) \in Nat
    BY <1>5, CountSteps
  <2> QED
    BY ONLY <1>5, <2>1
<1>7. s[k] = d /\ Count(s, d, k) = c
  BY <1>3, <1>5, <1>6
<1> QED
  BY <1>3, <1>4, <1>7

NamedAtMost(s, l, r, L) == \A d \in 1..L : Count(s, d, l) <= r[d]
NamedExactly(s, l, r, L) == \A d \in 1..L : Count(s, d, l) = r[d]

\* A sequence that names no dimension too often is no longer than all bits
\* together, and as long only if it names each dimension as often as it can.
LEMMA BitsAreCounted ==
    ASSUME NEW L \in Nat, NEW r \in [1..L -> Nat],
           NEW l \in Nat, NEW s \in [1..l -> 1..L], NamedAtMost(s, l, r, L)
    PROVE  /\ l <= Cardinality(BitsOf(r)) /\ Cardinality(BitsOf(r)) \in Nat
           /\ l = Cardinality(BitsOf(r)) => NamedExactly(s, l, r, L)
           /\ NamedExactly(s, l, r, L) => l = Cardinality(BitsOf(r))
<1> USE DEF NamedAtMost, NamedExactly
<1> DEFINE f == [n \in 1..l |-> <<s[n], Count(s, s[n], n)>>]
           B == BitsOf(r)
           Row(d) == {d} \X (1..r[d])
<1>1. IsFiniteSet(B)
  <2>1. IsFiniteSet(1..L)
    BY FS_Interval
  <2>2. B = UNION {Row(d) : d \in 1..L}
    BY DEF BitsOf
  <2>3. ASSUME NEW d \in 1..L PROVE IsFiniteSet(Row(d))
    <3>1. IsFiniteSet({d})
      BY FS_Singleton
    <3>2. r[d] \in Int
      OBVIOUS
    <3>3. IsFiniteSet(1..r[d])
      BY ONLY <3>2, FS_Interval
    <3> QED
      BY <3>1, <3>3, FS_Product
  <2> HIDE DEF B, Row
  <2>4. IsFiniteSet({Row(d) : d \in 1..L})
    <3> DEFINE R == {Row(d) : d \in 1..L}
               g == [d \in 1..L |-> Row(d)]
    <3>1. g \in [1..L -> R] /\ \A x \in R : \E d \in 1..L : g[d] = x
      OBVIOUS
    <3> HIDE DEF R, g
    <3>2. g \in Surjection(1..L, R)
      BY <3>1, Fun_IsSurj
    <3>3. IsFiniteSet(R)
      BY <2>1, <3>2, FS_Surjection
    <3> QED
      BY ONLY <3>3 DEF R
  <2> QED
    BY <2>2, <2>3, <2>4, FS_UNION
<1>2. \A p : p \in B <=> \E d \in 1..L : \E c \in 1..r[d] : p = <<d, c>>
  <2>1. ASSUME NEW p \in B PROVE \E d \in 1..L : \E c \in 1..r[d] : p = <<d, c>>
    BY DEF BitsOf
  <2>2. ASSUME NEW d \in 1..L, NEW c \in 1..r[d] PROVE <<d, c>> \in B
    BY DEF BitsOf
  <2> QED
    BY <2>1, <2>2
<1> HIDE DEF B
<1>3. ASSUME NEW n \in 1..l
      PROVE  s[n] \in 1..L /\ Count(s, s[n], n) \in 1..r[s[n]]
  <2>1. n \in Nat /\ n <= l /\ 0 < n /\ s[n] \in 1..L /\ r[s[n]] \in Nat
    OBVIOUS
  <2>2. Count(s, s[n], n) <= Count(s, s[n], l)
    BY <2>1, CountGrows
  <2>3. Count(s, s[n], 0) < Count(s, s[n], n) /\ Count(s, s[n], 0) = 0
    BY <2>1, CountTells, CountSteps
  <2>4. Count(s, s[n], n) \in Nat /\ Count(s, s[n], l) \in Nat
    BY <2>1, CountSteps
  <2> QED
    BY <2>1, <2>2, <2>3, <2>4
<1>4. f \in [1..l -> B]
  BY <1>2, <1>3
<1>5. ASSUME NEW m \in 1..l, NEW n \in 1..l, f[m] = f[n]
      PROVE  m = n
  <2>1. s[m] = s[n] /\ Count(s, s[n], m) = Count(s, s[n], n)
    BY <1>5
  <2>2. m \in Nat /\ n \in Nat
    OBVIOUS
  <2> DEFINE d == s[n]
  <2>3. s[m] = d /\ s[n] = d /\ Count(s, d, m) = Count(s, d, n)
    BY <2>1
  <2> HIDE DEF d, f
  <2>6. Count(s, d, m) \in Nat /\ Count(s, d, n) \in Nat
    BY <2>2, CountSteps
  <2>4. ~(m < n)
    <3>1. m < n => Count(s, d, m) < Count(s, d, n)
      BY ONLY <2>2, <2>3, CountTells
    <3> QED
      BY ONLY <2>3, <2>6, <3>1
  <2>5. ~(n < m)
    <3>1. n < m => Count(s, d, n) < Count(s, d, m)
      BY ONLY <2>2, <2>3, CountTells
    <3> QED
      BY ONLY <2>3, <2>6, <3>1
  <2> QED
    BY <2>2, <2>4, <2>5
<1>6. f \in Injection(1..l, B)
  <2> HIDE DEF f
  <2> QED
    BY <1>4, <1>5, Fun_IsInj
<1>7. IsFiniteSet(1..l) /\ Cardinality(1..l) = l
  <2>1. IsFiniteSet(1..l) /\ Cardinality(1..l) = IF 1 > l THEN 0 ELSE l - 1 + 1
    BY ONLY l \in Nat, FS_Interval
  <2> QED
    BY ONLY l \in Nat, <2>1
<1>8. /\ Cardinality(1..l) <= Cardinality(B)
      /\ Cardinality(1..l) = Cardinality(B) <=> f \in Surjection(1..l, B)
  BY ONLY <1>1, <1>6, FS_Injection
<1>9. f \in Surjection(1..l, B) <=> \A p \in B : \E n \in 1..l : f[n] = p
  <2> HIDE DEF f
  <2>1. f \in Surjection(1..l, B) => \A p \in B : \E n \in 1..l : f[n] = p
    BY ONLY Fun_SurjectionProperties
  <2>2. (\A p \in B : \E n \in 1..l : f[n] = p) => f \in Surjection(1..l, B)
    BY ONLY <1>4, Fun_IsSurj
  <2> QED
    BY ONLY <2>1, <2>2
<1>10. ASSUME \A p \in B : \E n \in 1..l : f[n] = p, NEW d \in 1..L
       PROVE  Count(s, d, l) = r[d]
  <2>1. r[d] \in Nat /\ Count(s, d, l) \in Nat /\ Count(s, d, l) <= r[d]
    BY CountSteps
  <2>2. ASSUME r[d] # 0
        PROVE  r[d] <= Count(s, d, l)
    <3>1. r[d] \in 1..r[d]
      BY <2>1, <2>2
    <3>2. PICK n \in 1..l : f[n] = <<d, r[d]>>
      BY <1>2, <1>10, <3>1
    <3>3. s[n] = d /\ Count(s, d, n) = r[d] /\ n \in Nat /\ n <= l
      BY <3>2
    <3> QED
      BY <3>3, CountGrows
  <2> QED
    BY ONLY <2>1, <2>2
<1>11. ASSUME \A d \in 1..L : Count(s, d, l) = r[d], NEW p \in B
       PROVE  \E n \in 1..l : f[n] = p
  <2>1. PICK d \in 1..L : \E c \in 1..r[d] : p = <<d, c>>
    BY <1>2
  <2>2. PICK c \in 1..r[d] : p = <<d, c>>
    BY <2>1
  <2>3. c \in 1..Count(s, d, l)
    BY <1>11
  <2>4. PICK n \in 1..l : s[n] = d /\ Count(s, d, n) = c
    BY <2>3, CountReaches
  <2> QED
    BY <2>2, <2>4
<1>12. Cardinality(B) \in Nat
  BY <1>1, FS_CardinalityType
<1> HIDE DEF f
<1> QED
  BY <1>7, <1>8, <1>9, <1>10, <1>11, <1>12 DEF B

LEMMA CountSame ==
    ASSUME NEW s, NEW t, NEW d, NEW n, \A k \in 1..n : s[k] = t[k]
    PROVE  Count(s, d, n) = Count(t, d, n)
<1>1. {k \in 1..n : s[k] = d} = {k \in 1..n : t[k] = d}
  OBVIOUS
<1> QED
  BY ONLY <1>1 DEF Count

-----------------------------------------------------------------------------
\* The turns of the dimensions.

Smaller(x, y) == IF x < y THEN x ELSE y

\* The dimensions up to D have had their turn in round c, or no bits are left.
InRound(s, l, r, L, D, c) ==
    \A d \in 1..L : Count(s, d, l) = Smaller(IF d <= D THEN c ELSE c - 1, r[d])

\* e is the next dimension after D in turn with bits left.
IsNext(s, l, r, L, D, e) ==
    /\ e \in 1..L /\ Count(s, e, l) # r[e]
    /\ \A f \in 1..L : (IF e > D THEN D < f /\ f < e ELSE D < f \/ f < e) => Count(s, f, l) = r[f]

LEMMA TurnKept ==
    ASSUME NEW L \in Nat \ {0}, NEW r \in [1..L -> Nat], NEW l \in Nat, NEW s, NEW t,
           NEW D \in 0..L, NEW c \in Nat \ {0}, InRound(s, l, r, L, D, c),
           NEW e, IsNext(s, l, r, L, D, e),
           t[l + 1] = e, \A k \in 1..l : t[k] = s[k]
    PROVE  \E x \in Nat \ {0} : InRound(t, l + 1, r, L, e, x)
<1> DEFINE x == IF e > D THEN c ELSE c + 1
<1>1. e \in 1..L
  BY DEF IsNext
<1>2. ASSUME NEW d \in 1..L
      PROVE  Count(t, d, l + 1) = Smaller(IF d <= e THEN x ELSE x - 1, r[d])
  <2>1. /\ e = d => Count(t, d, l + 1) = Count(t, d, l) + 1
        /\ e # d => Count(t, d, l + 1) = Count(t, d, l)
    <3>1. /\ t[l + 1] = d => Count(t, d, l + 1) = Count(t, d, l) + 1
          /\ t[l + 1] # d => Count(t, d, l + 1) = Count(t, d, l)
      BY ONLY l \in Nat, CountSteps
    <3> QED
      BY ONLY <3>1, t[l + 1] = e
  <2>2. Count(t, d, l) = Count(s, d, l)
    BY CountSame
  <2>3. Count(s, d, l) = Smaller(IF d <= D THEN c ELSE c - 1, r[d]) /\ Count(s, d, l) \in Nat
    BY CountSteps DEF InRound
  <2>4. r[d] \in Nat /\ d \in Int /\ e \in Int /\ D \in Int /\ c \in Nat \ {0}
    BY <1>1
  <2>5. d = e => Count(s, d, l) # r[d]
    BY DEF IsNext
  <2>6. (IF e > D THEN D < d /\ d < e ELSE D < d \/ d < e) => Count(s, d, l) = r[d]
    BY DEF IsNext
  <2>7. CASE e > D
    BY ONLY <2>1, <2>2, <2>3, <2>4, <2>5, <2>6, <2>7 DEF Smaller
  <2>8. CASE ~(e > D)
    BY ONLY <2>1, <2>2, <2>3, <2>4, <2>5, <2>6, <2>8 DEF Smaller
  <2> QED
    BY ONLY <2>7, <2>8
<1>3. x \in Nat \ {0}
  OBVIOUS
<1> QED
  BY <1>2, <1>3 DEF InRound

\* In a round no dimension is two bits ahead of another that has bits left,
\* and none has been named too often.
LEMMA RoundIsFair ==
    ASSUME NEW L \in Nat \ {0}, NEW r \in [1..L -> Nat], NEW l \in Nat, NEW s,
           NEW D \in 0..L, NEW c \in Nat \ {0}, InRound(s, l, r, L, D, c)
    PROVE  /\ \A d \in 1..L : Count(s, d, l) <= r[d]
           /\ \A d, e \in 1..L : Count(s, d, l) > Count(s, e, l) + 1 => Count(s, e, l) = r[e]
<1>1. ASSUME NEW d \in 1..L
      PROVE  /\ Count(s, d, l) \in Nat /\ Count(s, d, l) <= r[d] /\ Count(s, d, l) <= c
             /\ Count(s, d, l) # r[d] => Count(s, d, l) >= c - 1
  <2>1. Count(s, d, l) = Smaller(IF d <= D THEN c ELSE c - 1, r[d]) /\ Count(s, d, l) \in Nat
    BY CountSteps DEF InRound
  <2>2. r[d] \in Nat /\ d \in Int /\ D \in Int /\ c \in Nat \ {0}
    OBVIOUS
  <2> QED
    BY ONLY <2>1, <2>2 DEF Smaller
<1>2. ASSUME NEW d \in 1..L, NEW e \in 1..L, Count(s, d, l) > Count(s, e, l) + 1
      PROVE  Count(s, e, l) = r[e]
  <2>1. Count(s, d, l) \in Nat /\ Count(s, d, l) <= c /\ Count(s, e, l) \in Nat
    BY ONLY <1>1, d \in 1..L, e \in 1..L
  <2>2. Count(s, e, l) # r[e] => Count(s, e, l) >= c - 1
    BY ONLY <1>1, e \in 1..L
  <2>3. ~(Count(s, e, l) >= c - 1)
    BY ONLY <1>2, <2>1, c \in Nat
  <2> QED
    BY ONLY <2>2, <2>3
<1> QED
  BY <1>1, <1>2

LEMMA TurnFacts ==
    ASSUME NEW L \in Nat \ {0}, Len(xBits) = L, NEW D \in 0..L
    PROVE  /\ \A n \in 1..L : Turn(D, n) = IF D + n <= L THEN D + n ELSE D + n - L
           /\ \A d \in 1..L : \E n \in 1..L : d = Turn(D, n)
<1>1. ASSUME NEW n \in 1..L
      PROVE  Turn(D, n) = IF D + n <= L THEN D + n ELSE D + n - L
  <2> DEFINE x == D + n - 1
             q == x % L
  <2>1. x \in Nat /\ x < 2 * L
    OBVIOUS
  <2>2. x < L => q = x
    <3> HIDE DEF x
    <3> QED
      BY <2>1, Z3
  <2>3. L <= x /\ x < 2 * L => q = x - L
    <3> HIDE DEF x
    <3> QED
      BY <2>1, Z3
  <2>4. Turn(D, n) = q + 1
    BY DEF Turn
  <2> HIDE DEF q
  <2> QED
    BY <2>1, <2>2, <2>3, <2>4
<1>2. ASSUME NEW d \in 1..L
      PROVE  \E n \in 1..L : d = Turn(D, n)
  <2>1. CASE d > D
    <3>1. d - D \in 1..L /\ D + (d - D) <= L /\ D + (d - D) = d
      BY <2>1
    <3> QED
      BY <1>1, <3>1
  <2>2. CASE ~(d > D)
    <3>1. d - D + L \in 1..L /\ ~(D + (d - D + L) <= L) /\ D + (d - D + L) - L = d
      BY <2>2
    <3> QED
      BY <1>1, <3>1
  <2> QED
    BY <2>1, <2>2
<1> QED
  BY <1>1, <1>2

LEMMA NextTurnFacts ==
    ASSUME NEW L \in Nat \ {0}, Len(xBits) = L, NEW D \in 0..L,
           NEW l, l = Len(interleave),
           \E d \in 1..L : Count(interleave, d, l) # xBits[d]
    PROVE  IsNext(interleave, l, xBits, L, D, NextTurn(D))
<1> DEFINE Free(n) == Count(interleave, Turn(D, n), l) # xBits[Turn(D, n)]
           F == {n \in 1..L : Free(n)}
<1>1. F \in SUBSET Nat /\ F # {}
  <2>1. PICK d \in 1..L : Count(interleave, d, l) # xBits[d]
    OBVIOUS
  <2>2. PICK n \in 1..L : d = Turn(D, n)
    BY TurnFacts
  <2>3. n \in F
    BY <2>1, <2>2
  <2> QED
    BY <2>3
<1>2. \E n \in F : \A m \in F : n <= m
  BY <1>1, LeastElement
<1> DEFINE n == CHOOSE n \in F : \A m \in F : n <= m
<1>3. n \in F /\ \A m \in F : n <= m
  BY <1>2
<1>4. NextTurn(D) = Turn(D, n)
  BY DEF NextTurn, Named, Count
<1> HIDE DEF n
<1>5. n \in 1..L /\ Free(n) /\ \A m \in 1..L : m < n => ~Free(m)
  BY <1>3
<1> DEFINE e == Turn(D, n)
<1>6. e = IF D + n <= L THEN D + n ELSE D + n - L
  BY <1>5, TurnFacts
<1>7. e \in 1..L /\ Count(interleave, e, l) # xBits[e]
  BY <1>5, <1>6
<1>8. ASSUME NEW f \in 1..L, IF e > D THEN D < f /\ f < e ELSE D < f \/ f < e
      PROVE  Count(interleave, f, l) = xBits[f]
  <2>1. PICK m \in 1..L : f = Turn(D, m)
    BY TurnFacts
  <2>2. f = IF D + m <= L THEN D + m ELSE D + m - L
    BY <2>1, TurnFacts
  <2>3. m < n
    <3> HIDE DEF e
    <3> QED
      BY <1>5, <1>6, <1>8, <2>2
  <2> QED
    BY <1>5, <2>1, <2>3
<1> QED
  BY <1>4, <1>7, <1>8 DEF IsNext

-----------------------------------------------------------------------------
\* The inductive invariant of the constructor and of the keys.

\* No dimension is divided twice before another one with bits left.
FairUpTo(s, r, n) ==
    \A d, e \in 1..Len(r) : Count(s, d, n) > Count(s, e, n) + 1 => Count(s, e, n) = r[e]

InTurn(s, r, D) == \E c \in Nat \ {0} : InRound(s, Len(s), r, Len(r), D, c)

AllUsed(s, r) == \A d \in 1..Len(r) : Count(s, d, Len(s)) = r[d]

\* The bit of its coordinate that place n of the interleaving is for.
BitOfPlace(s, r, n) == r[s[n]] - Count(s, s[n], n)

\* What the table holds for a byte at byte position B of coordinate d.
Entry(s, r, d, B, byte) ==
    {TopBit + 1 - n : n \in
        {k \in 1..Len(s) : /\ s[k] = d /\ BitOfPlace(s, r, k) \div ByteBits = B
                           /\ BitAt(byte * 2^(ByteBits * B), BitOfPlace(s, r, k)) = 1}}

BytesOf(r, d) == 0..((r[d] + ByteBits - 1) \div ByteBits - 1)

TableOf(s, r, m) ==
    \A d \in 1..Len(r) : \A B \in BytesOf(r, d) : \A byte \in 0..(2^ByteBits - 1) :
        m[d][B][byte] = Entry(s, r, d, B, byte)

\* The grid cell of a point, and the interleaved bits of a cell.
RangeOf(w) == IF w = IntBits - 1 THEN 2^LongBits - 2^(IntBits - 1) ELSE 2^w
CellOf(r, p) ==
    [d \in DOMAIN r |->
        IF p[d] = 2 * 2^r[d]
        THEN LET range == RangeOf(r[d])
             IN  (IF range >= 2^(LongBits - 1) THEN range - 2^LongBits ELSE range) - 1
        ELSE (p[d] * RangeOf(r[d])) \div (2 * 2^r[d])]
Interleaved(s, r, x) ==
    {TopBit + 1 - n : n \in {k \in 1..Len(s) : BitAt(x[s[k]], BitOfPlace(s, r, k)) = 1}}

GridInv ==
    /\ stage \in {"none", "interleave", "check", "rejected", "ready"}
    /\ stage = "none" => xBits = << >> /\ interleave = << >> /\ dim = 0
    /\ stage # "none" => xBits \in Resolutions
    /\ interleave \in Seq(1..Len(xBits)) /\ dim \in 0..Len(xBits)
    /\ stage = "interleave" => InTurn(interleave, xBits, dim)
    /\ dim # 0 => stage \in {"interleave", "check", "ready"}
    /\ stage = "interleave" \/ dim # 0 =>
          \A n \in 0..Len(interleave) : FairUpTo(interleave, xBits, n)
    /\ stage \in {"check", "rejected", "ready"} =>
          Len(interleave) = Cardinality(BitsOf(xBits))
    /\ stage = "ready" \/ (stage = "check" /\ dim # 0) => AllUsed(interleave, xBits)
    /\ stage = "ready" => TableOf(interleave, xBits, masks)
    /\ point = << >> => key = {}
    /\ point # << >> =>
          /\ stage = "ready" /\ point \in [1..Len(xBits) -> Nat]
          /\ key = Interleaved(interleave, xBits, CellOf(xBits, point))

LEMMA ResolutionFacts ==
    ASSUME NEW r \in Resolutions
    PROVE  /\ Len(r) \in Nat \ {0} /\ DOMAIN r = 1..Len(r) /\ r # << >>
           /\ r \in [1..Len(r) -> Nat]
           /\ \A d \in 1..Len(r) : r[d] < IntBits
<1>1. r \in Seq(Nat) /\ r # << >> /\ \A d \in DOMAIN r : r[d] < IntBits
  BY ResolutionsAssumption
<1> QED
  BY <1>1

LEMMA NoBits == BitsOf(<< >>) = {} /\ Cardinality(BitsOf(<< >>)) = 0
<1>1. BitsOf(<< >>) = {}
  BY DEF BitsOf
<1> QED
  BY <1>1, FS_EmptySet

LEMMA CountNone ==
    ASSUME NEW s, NEW d
    PROVE  Count(s, d, 0) = 0
BY CountSteps, 0 \in Nat

LEMMA StartKeeps ==
    ASSUME NEW r \in Resolutions
    PROVE  /\ InTurn(<< >>, r, 0) /\ FairUpTo(<< >>, r, 0)
           /\ Cardinality(BitsOf(r)) \in Nat
<1>1. /\ Len(r) \in Nat \ {0} /\ DOMAIN r = 1..Len(r) /\ r \in [1..Len(r) -> Nat]
  BY ResolutionFacts
<1>2. Len(<< >>) = 0
  OBVIOUS
<1>3. InRound(<< >>, 0, r, Len(r), 0, 1)
  <2> SUFFICES ASSUME NEW d \in 1..Len(r)
               PROVE  Count(<< >>, d, 0) = Smaller(IF d <= 0 THEN 1 ELSE 1 - 1, r[d])
    BY DEF InRound
  <2>1. Count(<< >>, d, 0) = 0 /\ r[d] \in Nat /\ ~(d <= 0)
    BY <1>1, CountNone
  <2> QED
    BY <2>1 DEF Smaller
<1>4. InTurn(<< >>, r, 0)
  BY <1>2, <1>3, 1 \in Nat \ {0} DEF InTurn
<1>5. FairUpTo(<< >>, r, 0)
  BY CountNone DEF FairUpTo
<1>6. Cardinality(BitsOf(r)) \in Nat
  <2>1. << >> \in [1..0 -> 1..Len(r)]
    OBVIOUS
  <2>2. NamedAtMost(<< >>, 0, r, Len(r))
    BY <1>1, CountNone DEF NamedAtMost
  <2> QED
    BY <1>1, <2>1, <2>2, BitsAreCounted
<1> QED
  BY <1>4, <1>5, <1>6

LEMMA GridInitStep == GridInit => GridInv
<1> SUFFICES ASSUME GridInit PROVE GridInv
  OBVIOUS
<1>1. << >> \in Seq(1..Len(<< >>)) /\ 0 \in 0..Len(<< >>)
  OBVIOUS
<1> QED
  BY <1>1 DEF GridInit, GridInv

LEMMA ConstructStep ==
    ASSUME GridInv, NEW r \in Resolutions, Construct(r)
    PROVE  GridInv'
<1>1. /\ stage = "none" /\ xBits' = r /\ dim' = 0
      /\ masks' = masks /\ point' = point /\ key' = key
  BY DEF Construct
<1>2. point = << >> /\ key = {}
  BY <1>1 DEF GridInv
<1>3. Len(r) \in Nat \ {0} /\ DOMAIN r = 1..Len(r) /\ Cardinality(BitsOf(r)) \in Nat
  BY ResolutionFacts, StartKeeps
<1>4. 0 \in 0..Len(r)
  BY <1>3
<1>5. CASE stage' = "interleave" /\ interleave' = << >>
  <2>1. InTurn(<< >>, r, 0) /\ Len(<< >>) = 0
    BY StartKeeps
  <2>2. \A n \in 0..Len(<< >>) : FairUpTo(<< >>, r, n)
    BY StartKeeps, <2>1
  <2>3. << >> \in Seq(1..Len(r))
    OBVIOUS
  <2> QED
    BY <1>1, <1>2, <1>4, <1>5, <2>1, <2>2, <2>3 DEF GridInv
<1>6. CASE stage' = "check" /\ interleave' \in [1..Cardinality(BitsOf(r)) -> DOMAIN r]
  <2>1. interleave' \in Seq(1..Len(r)) /\ Len(interleave') = Cardinality(BitsOf(r))
    BY <1>3, <1>6
  <2> QED
    BY <1>1, <1>2, <1>4, <1>6, <2>1 DEF GridInv
<1> QED
  BY <1>5, <1>6 DEF Construct

\* What the invariant says of an interleaving under way.
LEMMA UnderWay ==
    ASSUME GridInv, stage = "interleave"
    PROVE  /\ xBits \in Resolutions
           /\ Len(interleave) \in Nat /\ interleave \in [1..Len(interleave) -> 1..Len(xBits)]
           /\ Len(interleave) = GridBits <=> AllUsed(interleave, xBits)
<1>1. xBits \in Resolutions /\ interleave \in Seq(1..Len(xBits)) /\ dim \in 0..Len(xBits)
  BY DEF GridInv
<1>2. PICK c \in Nat \ {0} : InRound(interleave, Len(interleave), xBits, Len(xBits), dim, c)
  BY DEF GridInv, InTurn
<1> DEFINE L == Len(xBits)
           l == Len(interleave)
<1>3. L \in Nat \ {0} /\ xBits \in [1..L -> Nat]
  BY <1>1, ResolutionFacts
<1>4. l \in Nat /\ interleave \in [1..l -> 1..L]
  BY <1>1
<1> HIDE DEF L, l
<1>5. NamedAtMost(interleave, l, xBits, L)
  BY <1>1, <1>2, <1>3, <1>4, RoundIsFair DEF L, l, NamedAtMost
<1>6. L \in Nat
  BY <1>3
<1>7. l = Cardinality(BitsOf(xBits)) <=> NamedExactly(interleave, l, xBits, L)
  BY ONLY <1>3, <1>4, <1>5, <1>6, BitsAreCounted
<1> QED
  BY <1>1, <1>4, <1>7 DEF AllUsed, NamedExactly, GridBits, L, l

LEMMA InterleaveStep ==
    ASSUME GridInv, InterleaveNext
    PROVE  GridInv'
<1> DEFINE L == Len(xBits)
           l == Len(interleave)
           e == NextTurn(dim)
           t == Append(interleave, e)
<1>1. /\ stage = "interleave" /\ l < GridBits /\ dim' = e /\ interleave' = Append(interleave, dim')
      /\ stage' = stage /\ xBits' = xBits /\ masks' = masks /\ point' = point /\ key' = key
  BY DEF InterleaveNext
<1>2. xBits \in Resolutions /\ l \in Nat /\ interleave \in [1..l -> 1..L]
      /\ interleave \in Seq(1..L) /\ dim \in 0..L /\ ~AllUsed(interleave, xBits)
  BY <1>1, UnderWay DEF GridInv
<1>3. L \in Nat \ {0} /\ xBits \in [1..L -> Nat]
  BY <1>2, ResolutionFacts
<1>4. PICK c \in Nat \ {0} : InRound(interleave, l, xBits, L, dim, c)
  BY <1>1 DEF GridInv, InTurn
<1>5. \E d \in 1..L : Count(interleave, d, l) # xBits[d]
  BY <1>2 DEF AllUsed
<1>6. IsNext(interleave, l, xBits, L, dim, e)
  <2> HIDE DEF L, l
  <2>1. Len(xBits) = L /\ l = Len(interleave)
    BY DEF L, l
  <2> QED
    BY <1>2, <1>3, <1>5, <2>1, NextTurnFacts
<1> HIDE DEF e
<1>7. e \in 1..L
  BY <1>6 DEF IsNext
<1>8. /\ t \in Seq(1..L) /\ Len(t) = l + 1 /\ t[l + 1] = e
      /\ \A k \in 1..l : t[k] = interleave[k]
  BY <1>2, <1>7
<1> HIDE DEF t
<1>9. PICK x \in Nat \ {0} : InRound(t, l + 1, xBits, L, e, x)
  <2> HIDE DEF L, l
  <2> QED
    BY ONLY <1>2, <1>3, <1>4, <1>6, <1>8, TurnKept
<1>10. InTurn(t, xBits, e)
  BY <1>8, <1>9 DEF InTurn
<1>11. ASSUME NEW n \in 0..Len(t)
       PROVE  FairUpTo(t, xBits, n)
  <2>1. CASE n = l + 1
    <3>1. e \in 0..L /\ l + 1 \in Nat
      BY <1>2, <1>3, <1>7
    <3> HIDE DEF L
    <3>2. \A d, f \in 1..L : Count(t, d, l + 1) > Count(t, f, l + 1) + 1 => Count(t, f, l + 1) = xBits[f]
      BY <1>3, <1>9, <3>1, RoundIsFair
    <3> QED
      BY <2>1, <3>2 DEF FairUpTo, L
  <2>2. CASE n # l + 1
    <3>1. n \in 0..l
      BY <1>2, <1>8, <2>2
    <3>2. FairUpTo(interleave, xBits, n)
      BY <1>1, <3>1 DEF GridInv
    <3>3. \A k \in 1..n : interleave[k] = t[k]
      BY <1>2, <1>8, <3>1
    <3>4. \A d : Count(interleave, d, n) = Count(t, d, n)
      BY <3>3, CountSame
    <3> QED
      BY <3>2, <3>4 DEF FairUpTo
  <2> QED
    BY <2>1, <2>2
<1>12. interleave' = t /\ dim' \in 0..L
  BY <1>1, <1>3, <1>7 DEF t
<1>13. point = << >> /\ key = {}
  BY <1>1 DEF GridInv
<1> QED
  BY <1>1, <1>2, <1>8, <1>10, <1>11, <1>12, <1>13 DEF GridInv

LEMMA EndInterleaveStep ==
    ASSUME GridInv, EndInterleave
    PROVE  GridInv'
<1>1. /\ stage = "interleave" /\ Len(interleave) = GridBits /\ stage' = "check"
      /\ UNCHANGED <<xBits, interleave, dim, masks, point, key>>
  BY DEF EndInterleave
<1>2. AllUsed(interleave, xBits) /\ Len(interleave) = Cardinality(BitsOf(xBits))
  BY <1>1, UnderWay DEF GridBits
<1>3. point = << >> /\ key = {}
  BY <1>1 DEF GridInv
<1> QED
  BY <1>1, <1>2, <1>3 DEF GridInv

LEMMA RejectStep ==
    ASSUME GridInv, RejectInterleaving
    PROVE  GridInv'
<1>1. /\ stage = "check" /\ stage' = "rejected"
      /\ \E d \in GridDims : Named(d, GridBits) # xBits[d]
      /\ UNCHANGED <<xBits, interleave, dim, masks, point, key>>
  BY DEF RejectInterleaving
<1>2. xBits \in Resolutions /\ Len(interleave) = GridBits
  BY <1>1 DEF GridInv, GridBits
<1>3. GridDims = 1..Len(xBits)
  BY <1>2, ResolutionFacts DEF GridDims
<1>4. ~AllUsed(interleave, xBits)
  BY <1>1, <1>2, <1>3 DEF AllUsed, Named, Count
<1>5. dim = 0
  BY <1>1, <1>4 DEF GridInv
<1>6. point = << >> /\ key = {}
  BY <1>1 DEF GridInv
<1> QED
  BY <1>1, <1>5, <1>6 DEF GridInv

LEMMA DeleteStep ==
    ASSUME Delete
    PROVE  GridInv'
<1>1. << >> \in Seq(1..Len(<< >>)) /\ 0 \in 0..Len(<< >>)
  OBVIOUS
<1> QED
  BY <1>1 DEF Delete, GridInv

-----------------------------------------------------------------------------
\* The table of masks.

\* The bit of a byte of x is the bit of x.
LEMMA ByteBit ==
    ASSUME NEW W \in Nat \ {0}, NEW x \in Int, NEW B \in Nat, NEW n \in 0..(W - 1)
    PROVE  /\ (x \div 2^B) % 2^W \in 0..(2^W - 1)
           /\ BitAt(((x \div 2^B) % 2^W) * 2^B, B + n) = BitAt(x, B + n)
<1> DEFINE P == 2^B
           R == 2^n
           m == W - 1 - n
           M == 2^m
           y == x \div P
           H == 2^W
           byte == y % H
           q == y \div H
<1>1. m \in Nat /\ n \in Nat /\ W = (n + m) + 1
  OBVIOUS
<1>2. P \in Nat \ {0} /\ R \in Nat \ {0} /\ M \in Nat \ {0} /\ H \in Nat \ {0}
  BY <1>1, DoublePower
<1>3. 2^(B + n) = P * R
  BY <1>1, PowerSum
<1>4. H = R * (2 * M)
  <2>1. 2^(n + m) = R * M
    BY <1>1, PowerSum
  <2>2. n + m \in Nat
    BY <1>1
  <2>3. H = 2 * (R * M)
    BY <1>1, <2>1, <2>2, DoublePower
  <2> HIDE DEF R, M, H
  <2> QED
    BY <1>2, <2>3, Z3
<1>5. y \in Int
  <2> HIDE DEF P
  <2> QED
    BY <1>2, FloorQuotient
<1> HIDE DEF P, R, M, H, y
<1>6. byte \in 0..(H - 1) /\ q \in Int /\ y = H * q + byte
  BY <1>2, <1>5, FloorQuotient
<1> HIDE DEF byte, q
<1>7. (byte * P) \div (P * R) = byte \div R
  <2>1. byte * P \in Int /\ byte \in Int
    BY <1>2, <1>6
  <2>2. (byte * P) \div P = byte
    BY <1>2, <2>1, QuotientOfMultiple
  <2> DEFINE z == byte * P
  <2>3. z \div (P * R) = (z \div P) \div R
    <3> HIDE DEF z
    <3> QED
      BY <1>2, <2>1, QuotientTwice DEF z
  <2> QED
    BY <2>2, <2>3
<1>8. x \div (P * R) = y \div R
  BY <1>2, QuotientTwice DEF y
<1> DEFINE u == byte \div R
           v == byte % R
           w == M * q
           h == 2 * w + u
<1>9. u \in Int /\ v \in 0..(R - 1) /\ byte = R * u + v
  <2>1. byte \in Int
    BY <1>2, <1>6
  <2> QED
    BY <1>2, <2>1, FloorQuotient
<1> HIDE DEF u, v
<1>10. w \in Int
  BY <1>2, <1>6
<1>11. y = R * h + v
  <2>1. H * q = R * (2 * w)
    BY <1>2, <1>4, <1>6, Z3
  <2> HIDE DEF w
  <2>2. R * h = R * (2 * w) + R * u
    BY <1>2, <1>9, <1>10, Z3
  <2> DEFINE e == R * (2 * w)
             f == R * u
             g == R * h
             o == H * q
  <2>3. e \in Int /\ f \in Int /\ g \in Int /\ o \in Int
    BY <1>2, <1>6, <1>9, <1>10
  <2>4. y = o + byte /\ o = e /\ g = e + f /\ byte = f + v
    BY <1>6, <1>9, <2>1, <2>2
  <2> HIDE DEF e, f, g, o
  <2>5. y = g + v
    BY ONLY <1>5, <1>6, <1>9, <2>3, <2>4
  <2> QED
    BY <2>5 DEF g
<1>12. h \in Int
  BY <1>9, <1>10
<1>13. y \div R = h
  <2> DEFINE g == R * h
  <2>1. g \in Int /\ y = g + v
    BY <1>2, <1>11, <1>12
  <2> HIDE DEF h
  <2>2. g <= y /\ y < g + R
    <3> HIDE DEF g
    <3> QED
      BY <1>2, <1>9, <2>1
  <2> QED
    BY <1>2, <1>5, <1>12, <2>2, FloorQuotientIs
<1>14. h % 2 = u % 2
  <2> HIDE DEF w
  <2> QED
    BY <1>9, <1>10
<1>15. BitAt(byte * P, B + n) = u % 2 /\ BitAt(x, B + n) = h % 2
  BY <1>3, <1>7, <1>8, <1>13 DEF BitAt, u
<1>16. BitAt(byte * P, B + n) = BitAt(x, B + n)
  BY ONLY <1>14, <1>15
<1> QED
  BY ONLY <1>6, <1>16 DEF byte, y, P, H

\* The byte that bit j is in.
LEMMA ByteOfBit ==
    ASSUME NEW W \in Nat \ {0}, NEW w \in Nat, NEW j \in 0..(w - 1)
    PROVE  /\ j \div W \in 0..(((w + W - 1) \div W) - 1)
           /\ j % W \in 0..(W - 1) /\ W * (j \div W) \in Nat
           /\ j = W * (j \div W) + (j % W)
<1> DEFINE q == j \div W
           z == w + W - 1
           Q == z \div W
           r == j % W
           R == z % W
<1>1. q \in Int /\ r \in 0..(W - 1) /\ j = W * q + r
  BY FloorQuotient
<1>2. z \in Int /\ Q \in Int /\ R \in 0..(W - 1) /\ z = W * Q + R
  <2>1. z \in Int
    OBVIOUS
  <2> HIDE DEF z
  <2> QED
    BY <2>1, FloorQuotient
<1>3. 0 <= q
  <2> HIDE DEF q, r
  <2> QED
    BY <1>1, Z3
<1>4. ~(Q <= q)
  <2> SUFFICES ASSUME Q <= q PROVE FALSE
    OBVIOUS
  <2> DEFINE a1 == W * q
             b1 == W * Q
  <2>1. b1 <= a1
    <3> HIDE DEF q, Q
    <3> QED
      BY <1>1, <1>2, Z3
  <2>2. a1 \in Int /\ b1 \in Int /\ j = a1 + r /\ w + W - 1 = b1 + R
    <3> HIDE DEF q, Q, r, R
    <3> QED
      BY <1>1, <1>2
  <2> HIDE DEF a1, b1, r, R
  <2> QED
    BY <1>1, <1>2, <2>1, <2>2
<1>5. W * q \in Nat
  <2> HIDE DEF q
  <2> QED
    BY <1>1, <1>3, Z3
<1>6. q \in 0..(Q - 1)
  <2> HIDE DEF q, Q
  <2> QED
    BY <1>1, <1>2, <1>3, <1>4
<1>7. Q = (w + W - 1) \div W
  OBVIOUS
<1> HIDE DEF Q
<1>8. j \div W \in 0..(((w + W - 1) \div W) - 1)
  BY ONLY <1>6, <1>7
<1> QED
  BY ONLY <1>1, <1>5, <1>8

\* The bit that a place is for is one of its coordinate's.
LEMMA PlaceFacts ==
    ASSUME NEW r \in Resolutions, NEW s \in Seq(1..Len(r)), AllUsed(s, r),
           NEW n \in 1..Len(s)
    PROVE  /\ s[n] \in 1..Len(r) /\ r[s[n]] \in Nat /\ Count(s, s[n], n) \in 1..r[s[n]]
           /\ BitOfPlace(s, r, n) \in 0..(r[s[n]] - 1)
<1> DEFINE d == s[n]
           l == Len(s)
<1>1. d \in 1..Len(r) /\ l \in Nat /\ n \in Nat /\ 0 < n /\ n <= l
  OBVIOUS
<1>2. r[d] \in Nat
  BY <1>1, ResolutionFacts
<1>3. Count(s, d, l) = r[d]
  BY <1>1 DEF AllUsed
<1> HIDE DEF l
<1>4. s[n] = d
  OBVIOUS
<1> HIDE DEF d
<1>5. Count(s, d, n) <= Count(s, d, l)
  BY ONLY <1>1, CountGrows
<1>6. 0 \in Nat /\ Count(s, d, 0) = 0 /\ Count(s, d, n) \in Nat
  BY ONLY <1>1, CountSteps
<1>7. Count(s, d, 0) < Count(s, d, n)
  BY ONLY <1>1, <1>4, <1>6, CountTells
<1>8. Count(s, d, n) \in 1..r[d]
  BY ONLY <1>2, <1>3, <1>5, <1>6, <1>7
<1>9. r[d] - Count(s, d, n) \in 0..(r[d] - 1)
  BY ONLY <1>2, <1>8
<1> QED
  BY ONLY <1>1, <1>2, <1>4, <1>8, <1>9 DEF BitOfPlace

\* The place of a bit is found.
LEMMA PlaceOfBit ==
    ASSUME NEW l, l = Len(interleave), GridBits = l, l \in Nat,
           NEW d, NEW n \in 1..l, interleave[n] = d
    PROVE  Place(d, Count(interleave, d, n) - 1) = n
<1> DEFINE c == Count(interleave, d, n)
           S == {m \in 1..l : interleave[m] = d /\ Count(interleave, d, m) = c}
<1>1. c \in Nat
  BY CountSteps
<1>2. ASSUME NEW m \in S
      PROVE  m = n
  <2>1. m \in Nat /\ n \in Nat /\ interleave[m] = d /\ Count(interleave, d, m) = c
    OBVIOUS
  <2>2. m < n => Count(interleave, d, m) < Count(interleave, d, n)
    BY ONLY <2>1, interleave[n] = d, CountTells
  <2>3. n < m => Count(interleave, d, n) < Count(interleave, d, m)
    BY ONLY <2>1, interleave[n] = d, CountTells
  <2> HIDE DEF S
  <2>4. c = Count(interleave, d, n)
    OBVIOUS
  <2> HIDE DEF c
  <2> QED
    BY ONLY <1>1, <2>1, <2>2, <2>3, <2>4
<1>3. n \in S
  OBVIOUS
<1>5. S = {n}
  <2> HIDE DEF S
  <2> QED
    BY <1>2, <1>3
<1>6. \A m : m \in 1..l /\ interleave[m] = d /\ Count(interleave, d, m) = (c - 1) + 1 <=> m = n
  <2>1. (c - 1) + 1 = c
    BY ONLY <1>1
  <2>2. \A m : m \in S <=> m \in 1..l /\ interleave[m] = d /\ Count(interleave, d, m) = c
    OBVIOUS
  <2> HIDE DEF S, c
  <2> QED
    BY ONLY <1>5, <2>1, <2>2
<1> HIDE DEF c
<1>7. (CHOOSE m \in 1..l : interleave[m] = d /\ Count(interleave, d, m) = (c - 1) + 1) = n
  BY ONLY <1>6
<1> QED
  BY <1>7 DEF Place, Named, Count, c

LEMMA MaskIsEntry ==
    ASSUME xBits \in Resolutions, interleave \in Seq(1..Len(xBits)),
           GridBits = Len(interleave), AllUsed(interleave, xBits),
           NEW d \in 1..Len(xBits), NEW B, NEW byte
    PROVE  MaskOf(d, B, byte) = Entry(interleave, xBits, d, B, byte)
<1> DEFINE l == Len(interleave)
           w == xBits[d]
           Set(j) == j \div ByteBits = B /\ BitAt(byte * 2^(ByteBits * B), j) = 1
<1>1. l \in Nat /\ w \in Nat /\ GridBits = l /\ Count(interleave, d, l) = w
  BY ResolutionFacts DEF AllUsed
<1>2. ASSUME NEW n \in 1..l, interleave[n] = d
      PROVE  /\ BitOfPlace(interleave, xBits, n) \in 0..(w - 1)
             /\ Place(d, w - 1 - BitOfPlace(interleave, xBits, n)) = n
  <2>1. BitOfPlace(interleave, xBits, n) \in 0..(w - 1) /\ Count(interleave, d, n) \in 1..w
    BY <1>2, PlaceFacts
  <2>2. Place(d, Count(interleave, d, n) - 1) = n
    BY <1>1, <1>2, PlaceOfBit
  <2>3. BitOfPlace(interleave, xBits, n) = w - Count(interleave, d, n)
    BY <1>2 DEF BitOfPlace
  <2>4. w - 1 - BitOfPlace(interleave, xBits, n) = Count(interleave, d, n) - 1
    BY ONLY <1>1, <2>1, <2>3
  <2> QED
    BY ONLY <2>1, <2>2, <2>4
<1>3. ASSUME NEW k \in 0..(w - 1)
      PROVE  \E n \in 1..l : interleave[n] = d /\ BitOfPlace(interleave, xBits, n) = k
  <2> DEFINE c == w - k
  <2>1. c \in 1..Count(interleave, d, l)
    BY <1>1
  <2>2. PICK n \in 1..l : interleave[n] = d /\ Count(interleave, d, n) = c
    <3> HIDE DEF c, l
    <3> QED
      BY <1>1, <2>1, CountReaches
  <2>3. w - (w - k) = k
    BY <1>1
  <2> QED
    BY <2>2, <2>3 DEF BitOfPlace
<1>4. MaskOf(d, B, byte) = {TopBit + 1 - Place(d, w - 1 - k) : k \in {j \in 0..(w - 1) : Set(j)}}
  BY DEF MaskOf, BitAt, Paths!BitAt
<1>5. Entry(interleave, xBits, d, B, byte) =
          {TopBit + 1 - n : n \in {k \in 1..l : interleave[k] = d /\ Set(BitOfPlace(interleave, xBits, k))}}
  BY DEF Entry
<1> HIDE DEF l, w, Set
<1>6. ASSUME NEW v \in {TopBit + 1 - Place(d, w - 1 - k) : k \in {j \in 0..(w - 1) : Set(j)}}
      PROVE  v \in {TopBit + 1 - n : n \in
                    {k \in 1..l : interleave[k] = d /\ Set(BitOfPlace(interleave, xBits, k))}}
  <2>1. PICK k \in 0..(w - 1) : Set(k) /\ v = TopBit + 1 - Place(d, w - 1 - k)
    BY <1>6
  <2>2. PICK n \in 1..l : interleave[n] = d /\ BitOfPlace(interleave, xBits, n) = k
    BY <1>3
  <2>3. Place(d, w - 1 - k) = n
    BY <1>2, <2>2
  <2> QED
    BY <2>1, <2>2, <2>3
<1>7. ASSUME NEW v \in {TopBit + 1 - n : n \in
                        {k \in 1..l : interleave[k] = d /\ Set(BitOfPlace(interleave, xBits, k))}}
      PROVE  v \in {TopBit + 1 - Place(d, w - 1 - k) : k \in {j \in 0..(w - 1) : Set(j)}}
  <2>1. PICK n \in 1..l : /\ interleave[n] = d /\ Set(BitOfPlace(interleave, xBits, n))
                          /\ v = TopBit + 1 - n
    BY <1>7
  <2> DEFINE k == BitOfPlace(interleave, xBits, n)
  <2>2. k \in 0..(w - 1) /\ Place(d, w - 1 - k) = n /\ Set(k)
    BY <1>2, <2>1
  <2> HIDE DEF k
  <2> QED
    BY <2>1, <2>2
<1> QED
  BY <1>4, <1>5, <1>6, <1>7

\* What the lookups find for the coordinates x in the table m.
Lookups(r, m, x) ==
    UNION {UNION {m[d][B][ByteAt(x[d], B)] : B \in BytesOf(r, d)} : d \in 1..Len(r)}

\* One lookup for each byte of each coordinate finds every bit.
LEMMA LookupsInterleave ==
    ASSUME NEW r \in Resolutions, NEW s \in Seq(1..Len(r)), AllUsed(s, r),
           NEW m, TableOf(s, r, m), NEW x \in [1..Len(r) -> Int]
    PROVE  Lookups(r, m, x) = Interleaved(s, r, x)
<1> DEFINE W == ByteBits
           Bit(n) == BitOfPlace(s, r, n)
           Found(v, d, B) == \E n \in 1..Len(s) :
               /\ s[n] = d /\ Bit(n) \div W = B
               /\ BitAt(ByteAt(x[d], B) * 2^(W * B), Bit(n)) = 1 /\ v = TopBit + 1 - n
<1>1. W \in Nat \ {0}
  BY WidthsAssumption
<1>2. ASSUME NEW n \in 1..Len(s)
      PROVE  /\ s[n] \in 1..Len(r) /\ Bit(n) \div W \in BytesOf(r, s[n])
             /\ ByteAt(x[s[n]], Bit(n) \div W) \in 0..(2^W - 1)
             /\ BitAt(ByteAt(x[s[n]], Bit(n) \div W) * 2^(W * (Bit(n) \div W)), Bit(n))
                    = BitAt(x[s[n]], Bit(n))
  <2> DEFINE d == s[n]
             w == r[d]
             j == Bit(n)
             B == j \div W
             k == j % W
             y == x[d]
             C == W * B
  <2>1. d \in 1..Len(r) /\ w \in Nat /\ j \in 0..(w - 1) /\ y \in Int
    BY PlaceFacts
  <2>2. B \in 0..(((w + W - 1) \div W) - 1) /\ k \in 0..(W - 1) /\ C \in Nat /\ j = C + k
    <3> HIDE DEF j, w
    <3> QED
      BY <1>1, <2>1, ByteOfBit
  <2>3. B \in BytesOf(r, d)
    BY <2>2 DEF BytesOf
  <2> HIDE DEF d, w, j, B, k, y, C
  <2>4. /\ (y \div 2^C) % 2^W \in 0..(2^W - 1)
        /\ BitAt(((y \div 2^C) % 2^W) * 2^C, C + k) = BitAt(y, C + k)
    BY <1>1, <2>1, <2>2, ByteBit
  <2>5. ByteAt(y, B) = (y \div 2^C) % 2^W
    BY DEF ByteAt, C
  <2>6. ByteAt(y, B) \in 0..(2^W - 1) /\ BitAt(ByteAt(y, B) * 2^C, j) = BitAt(y, j)
    BY ONLY <2>2, <2>4, <2>5
  <2> QED
    BY <2>1, <2>3, <2>6 DEF d, j, B, y, C
<1>3. ASSUME NEW d \in 1..Len(r), NEW B \in BytesOf(r, d)
      PROVE  ByteAt(x[d], B) \in 0..(2^W - 1)
  <2> DEFINE P == 2^(W * B)
             H == 2^W
  <2>1. B \in Nat
    BY DEF BytesOf
  <2>2. W * B \in Nat
    BY <1>1, <2>1
  <2>3. P \in Nat \ {0} /\ H \in Nat \ {0} /\ x[d] \in Int
    BY <1>1, <2>2, DoublePower
  <2>4. ByteAt(x[d], B) = (x[d] \div P) % H
    BY DEF ByteAt
  <2> HIDE DEF P, H
  <2>5. x[d] \div P \in Int
    BY <2>3, FloorQuotient
  <2>6. (x[d] \div P) % H \in 0..(H - 1)
    BY <2>3, <2>5, FloorQuotient
  <2> QED
    BY <2>4, <2>6 DEF H
<1>4. ASSUME NEW d \in 1..Len(r), NEW B \in BytesOf(r, d), NEW v
      PROVE  v \in m[d][B][ByteAt(x[d], B)] <=> Found(v, d, B)
  <2>1. m[d][B][ByteAt(x[d], B)] = Entry(s, r, d, B, ByteAt(x[d], B))
    BY <1>3 DEF TableOf
  <2> QED
    BY <2>1 DEF Entry
<1>5. \A v : v \in Interleaved(s, r, x)
                 <=> \E n \in 1..Len(s) : BitAt(x[s[n]], Bit(n)) = 1 /\ v = TopBit + 1 - n
  BY DEF Interleaved
<1>6. ASSUME NEW d \in 1..Len(r), NEW B \in BytesOf(r, d), NEW v, Found(v, d, B)
      PROVE  v \in Interleaved(s, r, x)
  <2>1. PICK n \in 1..Len(s) : /\ s[n] = d /\ Bit(n) \div W = B
                               /\ BitAt(ByteAt(x[d], B) * 2^(W * B), Bit(n)) = 1
                               /\ v = TopBit + 1 - n
    BY <1>6
  <2>2. BitAt(x[s[n]], Bit(n)) = 1
    BY <1>2, <2>1
  <2> QED
    BY <1>5, <2>1, <2>2
<1>7. ASSUME NEW v \in Interleaved(s, r, x)
      PROVE  \E d \in 1..Len(r) : \E B \in BytesOf(r, d) : Found(v, d, B)
  <2>1. PICK n \in 1..Len(s) : BitAt(x[s[n]], Bit(n)) = 1 /\ v = TopBit + 1 - n
    BY <1>5, <1>7
  <2> DEFINE B == Bit(n) \div W
  <2>2. s[n] \in 1..Len(r) /\ B \in BytesOf(r, s[n])
        /\ BitAt(ByteAt(x[s[n]], B) * 2^(W * B), Bit(n)) = 1
    BY <1>2, <2>1
  <2>3. Found(v, s[n], B)
    BY <2>1, <2>2
  <2> HIDE DEF B, Found
  <2> QED
    BY <2>2, <2>3
<1> HIDE DEF Found
<1> QED
  BY <1>4, <1>6, <1>7 DEF Lookups

LEMMA ComputeStep ==
    ASSUME GridInv, ComputeShuffleMasks
    PROVE  GridInv'
<1>1. /\ stage = "check" /\ stage' = "ready"
      /\ \A d \in GridDims : Named(d, GridBits) = xBits[d]
      /\ UNCHANGED <<xBits, interleave, dim, point, key>>
      /\ masks' = [d \in GridDims |-> [B \in Bytes(d) |->
                      [byte \in 0..(2^ByteBits - 1) |-> MaskOf(d, B, byte)]]]
  BY DEF ComputeShuffleMasks
<1>2. xBits \in Resolutions /\ Len(interleave) = GridBits /\ interleave \in Seq(1..Len(xBits))
  BY <1>1 DEF GridInv, GridBits
<1>3. GridDims = 1..Len(xBits)
  BY <1>2, ResolutionFacts DEF GridDims
<1>4. AllUsed(interleave, xBits)
  BY <1>1, <1>2, <1>3 DEF AllUsed, Named, Count
<1>5. \A d \in 1..Len(xBits) : \A B, byte : MaskOf(d, B, byte) = Entry(interleave, xBits, d, B, byte)
  BY <1>2, <1>4, MaskIsEntry
<1>6. \A d \in 1..Len(xBits) : Bytes(d) = BytesOf(xBits, d)
  BY DEF Bytes, BytesOf
<1>7. TableOf(interleave, xBits, masks')
  BY ONLY <1>1, <1>3, <1>5, <1>6 DEF TableOf
<1>8. point = << >> /\ key = {}
  BY <1>1 DEF GridInv
<1> QED
  BY <1>1, <1>2, <1>4, <1>7, <1>8 DEF GridInv, GridBits

-----------------------------------------------------------------------------
\* The cell of a point.

LEMMA PowersOfWidths ==
    ASSUME NEW r \in Resolutions, NEW d \in 1..Len(r)
    PROVE  /\ r[d] \in Nat /\ r[d] < IntBits
           /\ 2^r[d] \in Nat \ {0} /\ RangeOf(r[d]) \in Int
           /\ 2^(LongBits - 1) \in Nat \ {0} /\ 2^LongBits \in Nat \ {0}
<1>1. r[d] \in Nat /\ r[d] < IntBits
  BY ResolutionFacts
<1>2. IntBits - 1 \in Nat /\ LongBits - 1 \in Nat /\ LongBits \in Nat
  BY <1>1, WidthsAssumption
<1>3. /\ 2^r[d] \in Nat \ {0} /\ 2^(LongBits - 1) \in Nat \ {0} /\ 2^LongBits \in Nat \ {0}
      /\ 2^(IntBits - 1) \in Nat \ {0}
  BY <1>1, <1>2, DoublePower
<1>4. RangeOf(r[d]) \in Int
  BY <1>3 DEF RangeOf
<1> QED
  BY <1>1, <1>3, <1>4

LEMMA CellFacts ==
    ASSUME NEW r \in Resolutions, NEW p \in [1..Len(r) -> Nat]
    PROVE  CellOf(r, p) \in [1..Len(r) -> Int]
<1>1. DOMAIN r = 1..Len(r)
  BY ResolutionFacts
<1>2. ASSUME NEW d \in 1..Len(r)
      PROVE  CellOf(r, p)[d] \in Int
  <2> DEFINE P == 2^r[d]
             range == RangeOf(r[d])
             H == 2^(LongBits - 1)
             T == 2^LongBits
             x == p[d]
  <2>1. /\ P \in Nat \ {0} /\ range \in Int /\ H \in Nat /\ T \in Nat /\ x \in Nat
    BY PowersOfWidths
  <2>2. CellOf(r, p)[d] = IF x = 2 * P
                          THEN (IF range >= H THEN range - T ELSE range) - 1
                          ELSE (x * range) \div (2 * P)
    BY <1>1 DEF CellOf
  <2> HIDE DEF P, range, H, T, x
  <2>3. 2 * P \in Nat \ {0} /\ x * range \in Int
    BY <2>1
  <2>4. (x * range) \div (2 * P) \in Int
    BY <2>3, FloorQuotient
  <2> QED
    BY <2>1, <2>2, <2>4
<1> QED
  BY <1>1, <1>2 DEF CellOf

LEMMA GridCellIsCell ==
    ASSUME NEW p
    PROVE  GridCell(p) = CellOf(xBits, p)
BY DEF GridCell, CellOf, GridDims, AppToZ, Range64, RangeOf

LEMMA KeyStep ==
    ASSUME GridInv, NEW p \in [GridDims -> UNION {Coordinates(d) : d \in GridDims}],
           \A d \in GridDims : p[d] \in Coordinates(d), SpatialIndexKey(p)
    PROVE  GridInv'
<1>1. /\ stage = "ready" /\ point' = p /\ key' = Shuffle(GridCell(p))
      /\ UNCHANGED <<stage, xBits, interleave, dim, masks>>
  BY DEF SpatialIndexKey
<1>2. /\ xBits \in Resolutions /\ interleave \in Seq(1..Len(xBits))
      /\ AllUsed(interleave, xBits) /\ TableOf(interleave, xBits, masks)
  BY <1>1 DEF GridInv
<1>3. GridDims = 1..Len(xBits) /\ Len(xBits) \in Nat \ {0}
  BY <1>2, ResolutionFacts DEF GridDims
<1>4. p \in [1..Len(xBits) -> Nat]
  <2>1. ASSUME NEW d \in 1..Len(xBits)
        PROVE  p[d] \in Nat
    <3>1. p[d] \in 0..(2 * 2^xBits[d])
      BY <1>3 DEF Coordinates
    <3> QED
      BY <3>1
  <2> QED
    BY ONLY <1>3, <2>1, p \in [GridDims -> UNION {Coordinates(d) : d \in GridDims}]
<1> DEFINE x == CellOf(xBits, p)
<1>5. x \in [1..Len(xBits) -> Int]
  BY <1>2, <1>4, CellFacts
<1>6. key' = Shuffle(x)
  BY <1>1, GridCellIsCell
<1> HIDE DEF x
<1>7. Lookups(xBits, masks, x) = Interleaved(interleave, xBits, x)
  BY ONLY <1>2, <1>5, LookupsInterleave
<1>8. Shuffle(x) = Lookups(xBits, masks, x)
  BY ONLY <1>3 DEF Shuffle, Lookups, Bytes, BytesOf
<1>9. key' = Interleaved(interleave, xBits, CellOf(xBits, p))
  BY ONLY <1>6, <1>7, <1>8 DEF x
<1>10. p # << >>
  BY <1>3, <1>4
<1> QED
  BY <1>1, <1>4, <1>9, <1>10 DEF GridInv

LEMMA GridStutter ==
    ASSUME GridInv, UNCHANGED gridVars
    PROVE  GridInv'
BY DEF GridInv, gridVars

LEMMA GridInvariance == GridSpec => []GridInv
<1>1. ASSUME GridInv, [GridNext]_gridVars
      PROVE  GridInv'
  <2>1. CASE \E r \in Resolutions : Construct(r)
    BY <1>1, <2>1, ConstructStep
  <2>2. CASE InterleaveNext
    BY <1>1, <2>2, InterleaveStep
  <2>3. CASE EndInterleave
    BY <1>1, <2>3, EndInterleaveStep
  <2>4. CASE RejectInterleaving
    BY <1>1, <2>4, RejectStep
  <2>5. CASE ComputeShuffleMasks
    BY <1>1, <2>5, ComputeStep
  <2>6. CASE \E p \in [GridDims -> UNION {Coordinates(d) : d \in GridDims}] :
                (\A d \in GridDims : p[d] \in Coordinates(d)) /\ SpatialIndexKey(p)
    BY <1>1, <2>6, KeyStep
  <2>7. CASE Delete
    BY <2>7, DeleteStep
  <2>8. CASE UNCHANGED gridVars
    BY <1>1, <2>8, GridStutter
  <2> QED
    BY <1>1, <2>1, <2>2, <2>3, <2>4, <2>5, <2>6, <2>7, <2>8 DEF GridNext
<1> QED
  BY <1>1, GridInitStep, PTL DEF GridSpec

-----------------------------------------------------------------------------
\* What follows from it.

LEMMA TakesTurns == GridInv => DefaultTakesTurns
<1> SUFFICES ASSUME GridInv, dim # 0
             PROVE  /\ stage # "rejected"
                    /\ \A d, e \in GridDims : \A n \in 1..Len(interleave) :
                          Named(d, n) > Named(e, n) + 1 => Named(e, n) = xBits[e]
  BY DEF DefaultTakesTurns
<1>1. stage # "rejected" /\ stage # "none"
  BY DEF GridInv
<1>2. GridDims = 1..Len(xBits)
  BY <1>1, ResolutionFacts DEF GridInv, GridDims
<1>3. \A n \in 1..Len(interleave) : FairUpTo(interleave, xBits, n)
  BY DEF GridInv
<1> QED
  BY <1>1, <1>2, <1>3 DEF FairUpTo, Named, Count

\* The default interleaving divides the dimensions in turn, and the
\* constructor never rejects it (Space::useDefaultInterleaving, checkInterleaving).
THEOREM DefaultAlwaysTakesTurns == GridSpec => []DefaultTakesTurns
BY GridInvariance, TakesTurns, PTL

LEMMA GridTypes == GridInv => GridTypeOK
<1> SUFFICES ASSUME GridInv PROVE GridTypeOK
  OBVIOUS
<1>1. interleave \in Seq(GridDims) /\ stage \in {"none", "interleave", "check", "rejected", "ready"}
  <2>1. CASE stage = "none"
    BY <2>1 DEF GridInv
  <2>2. CASE stage # "none"
    BY <2>2, ResolutionFacts DEF GridInv, GridDims
  <2> QED
    BY <2>1, <2>2 DEF GridInv
<1>2. ASSUME NEW d \in GridDims, stage \notin {"check", "rejected"}
      PROVE  Named(d, Len(interleave)) <= xBits[d]
  <2>1. stage # "none"
    BY <1>2 DEF GridInv, GridDims
  <2>2. xBits \in Resolutions
    BY <2>1 DEF GridInv
  <2>3. /\ d \in 1..Len(xBits) /\ xBits[d] \in Nat /\ Len(xBits) \in Nat \ {0}
        /\ xBits \in [1..Len(xBits) -> Nat]
    BY <2>2, ResolutionFacts DEF GridDims
  <2>4. CASE stage = "ready"
    <3>1. Count(interleave, d, Len(interleave)) = xBits[d]
      BY <2>3, <2>4 DEF GridInv, AllUsed
    <3> QED
      BY <2>3, <3>1 DEF Named, Count
  <2>5. CASE stage = "interleave"
    <3>1. PICK c \in Nat \ {0} : InRound(interleave, Len(interleave), xBits, Len(xBits), dim, c)
      BY <2>5 DEF GridInv, InTurn
    <3>2. dim \in 0..Len(xBits) /\ Len(interleave) \in Nat
      BY DEF GridInv
    <3>3. \A f \in 1..Len(xBits) : Count(interleave, f, Len(interleave)) <= xBits[f]
      <4> DEFINE L == Len(xBits)
                 l == Len(interleave)
      <4> HIDE DEF L, l
      <4> QED
        BY <2>3, <3>1, <3>2, RoundIsFair DEF L, l
    <3> QED
      BY <2>3, <3>3 DEF Named, Count
  <2> QED
    BY <1>1, <1>2, <2>1, <2>4, <2>5
<1>3. key \subseteq (TopBit + 1 - GridBits)..TopBit
  <2>1. CASE point = << >>
    BY <2>1 DEF GridInv
  <2>2. CASE point # << >>
    <3>1. stage = "ready" /\ key = Interleaved(interleave, xBits, CellOf(xBits, point))
      BY <2>2 DEF GridInv
    <3>2. Len(interleave) = GridBits /\ Len(interleave) \in Nat
      BY <3>1 DEF GridInv, GridBits
    <3>3. \A v \in key : \E n \in 1..GridBits : v = TopBit + 1 - n
      BY <3>1, <3>2 DEF Interleaved
    <3>4. TopBit \in Int /\ GridBits \in Nat
      BY <3>2, WidthsAssumption
    <3> HIDE DEF GridBits
    <3>5. \A n \in 1..GridBits : TopBit + 1 - n \in (TopBit + 1 - GridBits)..TopBit
      BY ONLY <3>4
    <3> QED
      BY ONLY <3>3, <3>5
  <2> QED
    BY <2>1, <2>2
<1> QED
  BY <1>1, <1>2, <1>3 DEF GridTypeOK

\* The instance of BoxRegion counts as this module does.
LEMMA SameCardinality == \A S : Paths!Cardinality(S) = Cardinality(S)
BY DEF Cardinality, Paths!Cardinality

LEMMA PathsXBits == \A d : Paths!XBits(d) = Count(interleave, d, Len(interleave))
<1> SUFFICES ASSUME NEW d
             PROVE  Paths!XBits(d) = Count(interleave, d, Len(interleave))
  OBVIOUS
<1> DEFINE S == {n \in 1..Len(interleave) : interleave[n] = d}
<1>1. Paths!XBits(d) = Paths!Cardinality(S)
  BY DEF Paths!XBits, Paths!ZBits
<1>2. Count(interleave, d, Len(interleave)) = Cardinality(S)
  BY DEF Count
<1> HIDE DEF S
<1> QED
  BY <1>1, <1>2, SameCardinality

LEMMA PathsShuffled ==
    ASSUME NEW x, NEW l, NEW n \in 1..l
    PROVE  Paths!Shuffled(x, l)[n] =
               BitAt(x[interleave[n]],
                   Paths!XBits(interleave[n]) - Count(interleave, interleave[n], n))
<1> DEFINE S == {m \in 1..n : interleave[m] = interleave[n]}
           X == Paths!XBits(interleave[n])
<1>1. Paths!Shuffled(x, l)[n] = Paths!BitAt(x[interleave[n]], X - Paths!Cardinality(S))
  BY DEF Paths!Shuffled
<1>2. Count(interleave, interleave[n], n) = Cardinality(S)
  BY DEF Count
<1> HIDE DEF S, X
<1>3. Paths!Cardinality(S) = Cardinality(S)
  BY SameCardinality
<1> QED
  BY ONLY <1>1, <1>2, <1>3 DEF BitAt, Paths!BitAt, X

LEMMA InterleavedIsPath ==
    ASSUME GridInv, point # << >>
    PROVE  LET path == Paths!Shuffled(GridCell(point), GridBits)
           IN  key = {TopBit + 1 - n : n \in {k \in 1..GridBits : path[k] = 1}}
<1> DEFINE l == Len(interleave)
           x == CellOf(xBits, point)
           path == Paths!Shuffled(GridCell(point), GridBits)
<1>1. /\ stage = "ready" /\ key = Interleaved(interleave, xBits, x)
      /\ xBits \in Resolutions /\ interleave \in Seq(1..Len(xBits))
      /\ AllUsed(interleave, xBits) /\ l = GridBits
  BY DEF GridInv, GridBits
<1>2. ASSUME NEW n \in 1..l
      PROVE  path[n] = BitAt(x[interleave[n]], BitOfPlace(interleave, xBits, n))
  <2>1. interleave[n] \in 1..Len(xBits)
    BY <1>1
  <2>2. Paths!XBits(interleave[n]) = xBits[interleave[n]]
    BY <1>1, <2>1, PathsXBits DEF AllUsed
  <2>3. path = Paths!Shuffled(x, l)
    BY ONLY <1>1, GridCellIsCell
  <2> HIDE DEF x, path
  <2>4. Paths!Shuffled(x, l)[n] = BitAt(x[interleave[n]],
            Paths!XBits(interleave[n]) - Count(interleave, interleave[n], n))
    BY PathsShuffled
  <2> QED
    BY ONLY <2>2, <2>3, <2>4 DEF BitOfPlace
<1>3. key = {TopBit + 1 - n : n \in {k \in 1..l : path[k] = 1}}
  <2> HIDE DEF path, x
  <2>1. {k \in 1..l : path[k] = 1}
            = {k \in 1..l : BitAt(x[interleave[k]], BitOfPlace(interleave, xBits, k)) = 1}
    BY <1>2
  <2> QED
    BY ONLY <1>1, <2>1 DEF Interleaved
<1> QED
  BY <1>1, <1>3

\* The table lookups interleave the coordinates bit by bit, for every
\* interleaving that the constructor accepts (Space::shuffle).
THEOREM KeyIsAlwaysPath == GridSpec => []KeyIsPath
<1>1. GridInv => KeyIsPath
  BY GridTypes, InterleavedIsPath DEF KeyIsPath
<1> QED
  BY <1>1, GridInvariance, PTL

-----------------------------------------------------------------------------
\* The order of the cells.

NarrowDimensions == \A r \in Resolutions : \A d \in DOMAIN r : r[d] < IntBits - 1

LEMMA CellsInOrder ==
    ASSUME NarrowDimensions, xBits \in Resolutions, NEW d \in GridDims
    PROVE  /\ \A x \in Coordinates(d) : AppToZ(d, x) \in 0..(2^xBits[d] - 1)
           /\ \A x, y \in Coordinates(d) : x < y => AppToZ(d, x) <= AppToZ(d, y)
           /\ \A z \in 0..(2^xBits[d] - 1) : AppToZ(d, ZToApp(d, z)) = z
<1> DEFINE w == xBits[d]
           P == 2^w
           H == 2^(LongBits - 1)
<1>1. w \in Nat /\ w < IntBits - 1 /\ d \in 1..Len(xBits)
  BY ResolutionFacts DEF NarrowDimensions, GridDims
<1>2. P \in Nat \ {0} /\ Range64(d) = P
  BY <1>1, WidthsAssumption, DoublePower DEF Range64
<1>3. P < H
  <2> DEFINE j == LongBits - 1 - w - 1
  <2>1. j \in Nat /\ w + (j + 1) = LongBits - 1 /\ j + 1 \in Nat
    BY <1>1, WidthsAssumption
  <2> DEFINE J == 2^j
  <2>2. J \in Nat \ {0} /\ 2^(j + 1) = 2 * J
    BY <2>1, DoublePower
  <2>3. 2^(w + (j + 1)) = P * 2^(j + 1)
    BY <1>1, <2>1, PowerSum
  <2>4. H = P * (2 * J)
    BY <2>1, <2>2, <2>3
  <2> HIDE DEF H, J, P
  <2> QED
    BY <1>2, <2>2, <2>4, Z3
<1>4. ASSUME NEW x \in Nat
      PROVE  AppToZ(d, x) = IF x = 2 * P THEN P - 1 ELSE x \div 2
  <2>1. (x * P) \div (2 * P) = x \div 2
    <3> HIDE DEF P
    <3> DEFINE z == x * P
    <3>1. z \in Int /\ x \in Int /\ 2 * P = P * 2
      BY <1>2
    <3>2. z \div P = x
      BY <1>2, <3>1, QuotientOfMultiple
    <3> HIDE DEF z
    <3> DEFINE h == 2
    <3>4. h \in Nat \ {0}
      OBVIOUS
    <3> HIDE DEF h
    <3>3. z \div (P * h) = (z \div P) \div h
      BY <1>2, <3>1, <3>4, QuotientTwice
    <3> QED
      BY <3>1, <3>2, <3>3 DEF h, z
  <2>2. H \in Nat
    BY <1>1, WidthsAssumption, DoublePower
  <2>3. ~(P >= H)
    <3> HIDE DEF P, H
    <3> QED
      BY <1>2, <1>3, <2>2
  <2>4. AppToZ(d, x) = IF x = 2 * P
                       THEN (IF P >= H THEN P - 2^LongBits ELSE P) - 1
                       ELSE (x * P) \div (2 * P)
    BY <1>2 DEF AppToZ
  <2> HIDE DEF P, H
  <2> QED
    BY <2>1, <2>3, <2>4
<1>5. Coordinates(d) = 0..(2 * P)
  BY DEF Coordinates
<1>6. ASSUME NEW z \in 0..(P - 1)
      PROVE  ZToApp(d, z) = 2 * z
  <2> DEFINE y == 2 * z
  <2>1. ZToApp(d, z) = (z * 2 * P) \div P
    BY <1>2 DEF ZToApp
  <2> HIDE DEF P
  <2>2. y \in Int /\ z * 2 = y
    BY <1>2
  <2> HIDE DEF y
  <2>3. (y * P) \div P = y
    BY <1>2, <2>2, QuotientOfMultiple
  <2>4. ZToApp(d, z) = y
    BY ONLY <2>1, <2>2, <2>3
  <2> QED
    BY ONLY <2>4 DEF y
<1> HIDE DEF P
<1>7. \A x \in Coordinates(d) : AppToZ(d, x) \in 0..(P - 1)
  <2> SUFFICES ASSUME NEW x \in Coordinates(d)
               PROVE  AppToZ(d, x) \in 0..(P - 1)
    OBVIOUS
  <2>1. x \in Nat /\ x <= 2 * P
    BY <1>2, <1>5
  <2>2. AppToZ(d, x) = IF x = 2 * P THEN P - 1 ELSE x \div 2
    BY <1>4, <2>1
  <2> QED
    BY ONLY <1>2, <2>1, <2>2
<1>8. \A x, y \in Coordinates(d) : x < y => AppToZ(d, x) <= AppToZ(d, y)
  <2> SUFFICES ASSUME NEW x \in Coordinates(d), NEW y \in Coordinates(d), x < y
               PROVE  AppToZ(d, x) <= AppToZ(d, y)
    OBVIOUS
  <2>1. x \in 0..(2 * P) /\ y \in 0..(2 * P) /\ x # 2 * P
    BY <1>2, <1>5
  <2>2. AppToZ(d, x) = x \div 2 /\ AppToZ(d, y) = IF y = 2 * P THEN P - 1 ELSE y \div 2
    BY <1>2, <1>4, <2>1
  <2> QED
    BY ONLY <1>2, <2>1, <2>2, x < y
<1>9. \A z \in 0..(P - 1) : AppToZ(d, ZToApp(d, z)) = z
  <2> SUFFICES ASSUME NEW z \in 0..(P - 1)
               PROVE  AppToZ(d, ZToApp(d, z)) = z
    OBVIOUS
  <2> DEFINE y == 2 * z
  <2>1. ZToApp(d, z) = y
    BY <1>6
  <2>2. y \in Nat /\ y # 2 * P /\ y \div 2 = z
    BY <1>2
  <2> HIDE DEF y
  <2>3. AppToZ(d, y) = y \div 2
    BY <1>4, <2>2
  <2> QED
    BY <2>1, <2>2, <2>3
<1> QED
  BY <1>7, <1>8, <1>9 DEF P

\* If no dimension has as many bits as an int without its sign, every point
\* is in a cell, the cells are ordered as the coordinates are, and the low end
\* of a cell is in it (Space::appToZ, zToApp).
THEOREM GridAlwaysKeepsOrder ==
    ASSUME NarrowDimensions
    PROVE  GridSpec => []GridKeepsOrder
<1>1. GridInv => GridKeepsOrder
  BY CellsInOrder DEF GridInv, GridKeepsOrder
<1> QED
  BY <1>1, GridInvariance, PTL
=============================================================================
