------------------------- MODULE ApplicationProofs -------------------------
(***************************************************************************)
(* The answers of the programs are exact, and the programs keep to the     *)
(* rules of ownership, for any space, points, boxes and numbers of them:   *)
(* what has been proved of each part, put together.                        *)
(***************************************************************************)
EXTENDS Application, Numbers

-----------------------------------------------------------------------------
\* The words of z-values as integers.

InWords == INSTANCE SpatialIndexProofs WITH
    ZBits <- Len(Interleaving),
    Soids <- {}, Shapes <- {}, Decompositions <- << >>, MaxOutput <- 0,
    objects <- << >>, searching <- FALSE, query <- {}, kept <- 0, a <- << >>, b <- << >>

LEMMA WordsAssumptions ==
    /\ Len(Interleaving) \in Nat \ {0}
    /\ MaxZBits \in Nat /\ LengthBits \in Nat
    /\ Len(Interleaving) <= MaxZBits /\ Len(Interleaving) < MaxZBits
    /\ MaxZBits < 2^LengthBits
    /\ {} \subseteq Int /\ {} \subseteq SUBSET InWords!Cell
    /\ \A s \in {} : \A d \in << >>[s] : InWords!Approximates(d, s)
BY SpaceAssumption

\* The operators of Application on words are those of the lemmas.
LEMMA SameWords ==
    /\ \A r : Words!ZValue(r) = InWords!ZValue(r)
    /\ \A z : Words!Hi(z) = InWords!Hi(z)
    /\ \A r : Words!Cells(r) = InWords!Cells(r)
    /\ Words!Region = InWords!Region /\ Words!Cell = InWords!Cell
    /\ Words!WordBits = InWords!WordBits
BY DEF Words!ZValue, InWords!ZValue, Words!Packed, InWords!Packed, Words!WordBits, InWords!WordBits,
       Words!LengthWord, InWords!LengthWord, Words!LengthMask, InWords!LengthMask,
       Words!Mask, InWords!Mask, Words!Hi, InWords!Hi, Words!Length, InWords!Length,
       Words!Cells, InWords!Cells, Words!Has, InWords!Has, Words!Cell, InWords!Cell,
       Words!Bit, InWords!Bit, Words!Region, InWords!Region

\* Z-values and the ends of their intervals are below ZEnd.
ZEnd == 2^(MaxZBits + LengthBits)

LEMMA WordIsInteger ==
    ASSUME NEW v \in InWords!Word, NEW w \in InWords!Word
    PROVE  /\ Integer(v) \in 0..(ZEnd - 1)
           /\ InWords!Less(v, w) <=> Integer(v) < Integer(w)
<1> DEFINE m == MaxZBits + LengthBits
<1>1. m \in Nat
  BY SpaceAssumption
<1>2. InWords!Word = SUBSET (0..(m - 1))
  <2>1. InWords!WordBits - 2 = m - 1
    BY SpaceAssumption DEF InWords!WordBits
  <2> QED
    BY <2>1 DEF InWords!Word
<1>3. \A s : Integer(s) = BitSum(s)
  BY DEF Integer, BitSum
<1>4. \A s \in InWords!Word : Integer(s) \in 0..(ZEnd - 1)
  <2> SUFFICES ASSUME NEW s \in InWords!Word PROVE BitSum(s) \in 0..(ZEnd - 1)
    BY <1>3
  <2> HIDE DEF m
  <2>1. BitSum(s) \in 0..(2^m - 1)
    BY <1>1, <1>2, BitSumBelow
  <2> QED
    BY <2>1 DEF ZEnd, m
<1>5. \A s, t \in InWords!Word : InWords!Less(s, t) => Integer(s) < Integer(t)
  <2> SUFFICES ASSUME NEW s \in InWords!Word, NEW t \in InWords!Word, InWords!Less(s, t)
               PROVE  BitSum(s) < BitSum(t)
    BY <1>3
  <2>1. PICK h \in t \ s : \A j \in s \cup t : j > h => j \in s \cap t
    BY DEF InWords!Less
  <2> HIDE DEF m
  <2> QED
    BY <1>1, <1>2, <2>1, BitSumOrder
<1>6. v = w \/ InWords!Less(v, w) \/ InWords!Less(w, v)
  BY WordsAssumptions, InWords!LessTotal
<1> QED
  <2>1. Integer(v) \in Int /\ Integer(w) \in Int
    <3>1. ZEnd \in Int
      BY <1>1, DoublePower DEF ZEnd
    <3> QED
      BY <1>4, <3>1
  <2> QED
    BY <1>4, <1>5, <1>6, <2>1

\* The cells of a region are those whose z-values are in its interval.
LEMMA IntervalOfRegion ==
    ASSUME NEW r \in Words!Region, NEW c \in Words!Cell
    PROVE  /\ Z(r) \in 0..(ZEnd - 1) /\ Z(c) \in 0..(ZEnd - 1) /\ ZHi(r) \in 0..(ZEnd - 1)
           /\ c \in Words!Cells(r) <=> Z(r) <= Z(c) /\ Z(c) < ZHi(r)
<1>1. r \in InWords!Region /\ c \in InWords!Cell
  BY SameWords
<1>2. /\ c \in InWords!Region
      /\ c \in InWords!Cells(r) <=> InWords!ContainsZ(InWords!ZValue(r), InWords!ZValue(c))
  BY <1>1, WordsAssumptions, InWords!CellFacts
<1> DEFINE v == InWords!ZValue(r)
           w == InWords!ZValue(c)
           h == InWords!Hi(v)
<1>3. /\ InWords!ContainsZ(v, w) <=> ~InWords!Less(w, v) /\ InWords!Less(w, h)
      /\ v \in InWords!Word /\ w \in InWords!Word /\ h \in InWords!Word
  BY <1>1, <1>2, WordsAssumptions, InWords!ScanIsContainment
<1>4. Z(r) = Integer(v) /\ Z(c) = Integer(w) /\ ZHi(r) = Integer(h)
  BY SameWords DEF Z, ZHi
<1> HIDE DEF v, w, h
<1>5. /\ InWords!Less(w, v) <=> Integer(w) < Integer(v)
      /\ InWords!Less(w, h) <=> Integer(w) < Integer(h)
      /\ Integer(v) \in 0..(ZEnd - 1) /\ Integer(w) \in 0..(ZEnd - 1)
      /\ Integer(h) \in 0..(ZEnd - 1)
  BY <1>3, WordIsInteger
<1>6. Integer(v) \in Int /\ Integer(w) \in Int /\ Integer(h) \in Int
  <2>1. ZEnd \in Int
    BY SpaceAssumption, DoublePower DEF ZEnd
  <2> QED
    BY <1>5, <2>1
<1>7. c \in Words!Cells(r) <=> InWords!ContainsZ(v, w)
  BY <1>2, SameWords DEF v, w
<1> QED
  BY <1>3, <1>4, <1>5, <1>6, <1>7

-----------------------------------------------------------------------------
\* Points and their keys.

LEMMA Counts ==
    /\ TestSide \in Nat /\ TestSide * TestSide \in Nat
    /\ MaxPoints \in Nat /\ NPoints <= MaxPoints /\ TestSide * TestSide <= MaxPoints
    /\ Count \in 0..MaxPoints
    /\ Ids = 0..(MaxPoints - 1)
<1>1. TestSide \in Nat
  BY ProgramsAssumption, Quotient DEF TestSide
<1> DEFINE s == TestSide * TestSide
<1>2. s \in Nat
  <2> HIDE DEF s
  <2> DEFINE t == TestSide
  <2>1. t \in Nat
    BY <1>1
  <2> HIDE DEF t
  <2>2. t * t \in Nat
    BY <2>1
  <2> QED
    BY <2>2 DEF s, t
<1>3. MaxPoints = Max({NPoints, s}) /\ Count \in {NPoints, s}
  BY DEF MaxPoints, Count
<1> HIDE DEF s
<1>4. \E x \in {NPoints, s} : \A y \in {NPoints, s} : x >= y
  BY <1>2, ProgramsAssumption
<1>5. /\ Max({NPoints, s}) \in {NPoints, s}
      /\ \A y \in {NPoints, s} : Max({NPoints, s}) >= y
  BY <1>4 DEF Max
<1>6. MaxPoints \in Nat /\ NPoints <= MaxPoints /\ s <= MaxPoints /\ Count \in 0..MaxPoints
  BY <1>2, <1>3, <1>5, ProgramsAssumption
<1> QED
  BY <1>1, <1>2, <1>6 DEF s, Ids

\* A point of the test is in the space, as one of the examples is.
LEMMA PlacedInSpace ==
    ASSUME NEW n \in 0..(Count - 1)
    PROVE  Placed(n) \subseteq Places
<1>1. CASE program # "testRetrieval"
  BY <1>1, ProgramsAssumption DEF Placed
<1>2. CASE program = "testRetrieval"
  <2> DEFINE t == TestSide
             x == n \div t
             y == n % t
  <2>1. t \in Nat /\ n \in Nat /\ n < t * t
    BY <1>2, Counts DEF Count
  <2>2. t # 0
    <3> HIDE DEF t
    <3> QED
      BY <2>1
  <2>3. x \in 0..(t - 1) /\ y \in 0..(t - 1)
    <3> HIDE DEF t
    <3>1. y \in 0..(t - 1)
      BY <2>1, <2>2
    <3>2. x \in Nat /\ t * x <= n
      BY <2>1, <2>2, Quotient
    <3> HIDE DEF x
    <3>3. ~(t <= x)
      BY <2>1, <2>2, <3>2, Z3
    <3> QED
      BY <2>1, <3>1, <3>2, <3>3
  <2>4. Spacing * t <= XMax /\ Spacing \in Nat \ {0} /\ XMax \in Nat \ {0}
    BY ProgramsAssumption, Quotient DEF TestSide
  <2>5. Placed(n) = {<<Spacing * x, Spacing * y>>}
    BY <1>2 DEF Placed
  <2> HIDE DEF x, y, t
  <2>6. \A z \in 0..(t - 1) : Spacing * z \in 0..(XMax - 1)
    BY <2>1, <2>4, Z3
  <2>7. Spacing * x \in 0..(XMax - 1) /\ Spacing * y \in 0..(XMax - 1)
    BY <2>3, <2>6
  <2> QED
    BY <2>5, <2>7 DEF Places, Dims
<1> QED
  BY <1>1, <1>2

\* The z-value and the id can be read off a key, and keys are in the order of
\* the z-values.
LEMMA KeyHolds ==
    ASSUME NEW z \in Nat, NEW soid \in Ids
    PROVE  /\ Key(z, soid) \in Nat \ {0}
           /\ ZOf(Key(z, soid)) = z /\ SoidOf(Key(z, soid)) = soid
<1> DEFINE S == Slots
           p == z * S
<1>1. S \in Nat \ {0} /\ soid \in 0..(S - 2)
  BY Counts DEF Slots
<1> HIDE DEF S
<1>2. p \in Nat /\ p = S * z
  BY <1>1
<1>3. Key(z, soid) = p + soid + 2
  BY DEF Key, S
<1> HIDE DEF p
<1>4. (p + soid + 1) \div S = z
  BY <1>1, <1>2, QuotientIs
<1>5. (p + soid) % S = soid
  <2> DEFINE y == p + soid
             h == y \div S
             e == y % S
  <2>1. y \in Nat /\ S * z <= y /\ y < S * z + S
    BY <1>1, <1>2
  <2> HIDE DEF y
  <2>2. h = z
    BY <1>1, <2>1, QuotientIs
  <2>3. e = y - S * h
    BY <1>1, <2>1, Z3
  <2> HIDE DEF e, h
  <2>4. e = y - p
    BY <1>2, <2>2, <2>3
  <2>5. e = soid
    BY <1>1, <1>2, <2>4 DEF y
  <2> QED
    BY <2>5 DEF e, y
<1>6. Key(z, soid) - 1 = p + soid + 1 /\ Key(z, soid) - 2 = p + soid
  BY <1>1, <1>2, <1>3
<1> QED
  BY <1>1, <1>2, <1>3, <1>4, <1>5, <1>6 DEF ZOf, SoidOf, S

LEMMA KeysInOrder ==
    ASSUME NEW z \in Nat, NEW soid \in Ids, NEW w \in Nat, NEW other \in Ids
    PROVE  /\ Key(z, soid) <= Key(w, other) => z <= w
           /\ MinKey(z) <= Key(w, other) <=> z <= w
           /\ MinKey(z) # Key(w, other)
<1> DEFINE S == Slots
<1>1. S \in Nat \ {0} /\ soid \in 0..(S - 2) /\ other \in 0..(S - 2)
  BY Counts DEF Slots
<1>2. Key(z, soid) = z * S + soid + 2 /\ Key(w, other) = w * S + other + 2 /\ MinKey(z) = z * S + 1
  BY DEF Key, MinKey
<1> HIDE DEF S
<1>3. z <= w => z * S <= w * S
  BY <1>1, Z3
<1>4. w < z => w * S + S <= z * S
  BY <1>1, Z3
<1> DEFINE p == z * S
           r == w * S
<1>5. p \in Nat /\ r \in Nat
  BY <1>1
<1>6. MinKey(z) # Key(w, other)
  <2> SUFFICES ASSUME p + 1 = r + other + 2 PROVE FALSE
    BY <1>2
  <2>1. CASE z <= w
    <3> HIDE DEF p, r
    <3>1. p <= r
      BY <1>3, <2>1 DEF p, r
    <3> QED
      BY <1>1, <1>5, <3>1
  <2>2. CASE w < z
    <3> HIDE DEF p, r
    <3>1. r + S <= p
      BY <1>4, <2>2 DEF p, r
    <3> QED
      BY <1>1, <1>5, <3>1
  <2> QED
    BY <2>1, <2>2
<1>7. Key(z, soid) = p + soid + 2 /\ Key(w, other) = r + other + 2 /\ MinKey(z) = p + 1
      /\ (z <= w => p <= r) /\ (w < z => r + S <= p)
  BY <1>2, <1>3, <1>4
<1> HIDE DEF p, r
<1> QED
  BY <1>1, <1>5, <1>6, <1>7

IndexKeys == 1..(2^(1 + MaxZBits + LengthBits) * Slots)

LEMMA KeysFit ==
    ASSUME NEW z \in 0..(ZEnd - 1)
    PROVE  /\ z \in Nat
           /\ MinKey(z) \in IndexKeys
           /\ \A soid \in Ids : Key(z, soid) \in IndexKeys
<1> DEFINE S == Slots
           E == ZEnd
           p == z * S
           t == E * S
<1>1. S \in Nat \ {0} /\ \A soid \in Ids : soid \in 0..(S - 2)
  BY Counts DEF Slots
<1>2. E \in Nat \ {0} /\ 2^(1 + MaxZBits + LengthBits) = 2 * E
  <2> DEFINE m == MaxZBits + LengthBits
  <2>1. m \in Nat /\ 1 + MaxZBits + LengthBits = m + 1
    BY SpaceAssumption
  <2> HIDE DEF m
  <2>2. 2^m \in Nat \ {0} /\ 2^(m + 1) = 2 * 2^m
    BY <2>1, DoublePower
  <2> QED
    BY <2>1, <2>2 DEF ZEnd, m
<1>3. IndexKeys = 1..(2 * E * S) /\ MinKey(z) = p + 1 /\ \A soid : Key(z, soid) = p + soid + 2
  BY <1>2 DEF IndexKeys, MinKey, Key
<1>4. z \in Nat /\ z + 1 <= E
  BY <1>2
<1> HIDE DEF S, E
<1>5. p + S <= t /\ p \in Nat /\ t \in Nat /\ 2 * E * S = 2 * t
  BY <1>1, <1>2, <1>4, Z3
<1> HIDE DEF p, t
<1>6. ASSUME NEW soid \in Ids PROVE Key(z, soid) \in IndexKeys
  <2>1. soid \in 0..(S - 2)
    BY <1>1
  <2> QED
    BY <1>1, <1>3, <1>5, <2>1
<1> QED
  BY <1>1, <1>3, <1>4, <1>5, <1>6

-----------------------------------------------------------------------------
\* The cells of points.

LEMMA CountOf ==
    ASSUME NEW n \in 0..Len(Interleaving), NEW d
    PROVE  LET S == {m \in 1..n : Interleaving[m] = d}
           IN  /\ IsFiniteSet(S) /\ Cardinality(S) \in Nat
               /\ Space!Cardinality(S) = Cardinality(S)
               /\ Cardinality(S) <= XBits(d)
<1> DEFINE l == Len(Interleaving)
           S == {m \in 1..n : Interleaving[m] = d}
           T == {m \in 1..l : Interleaving[m] = d}
<1>1. l \in Nat /\ DOMAIN Interleaving = 1..l /\ n \in 0..l
  BY SpaceAssumption
<1>2. XBits(d) = Cardinality(T)
  BY <1>1 DEF XBits
<1> HIDE DEF l
<1>3. IsFiniteSet(T)
  <2>1. IsFiniteSet(1..l) /\ T \in SUBSET (1..l)
    BY <1>1, FS_Interval
  <2> HIDE DEF T
  <2> QED
    BY <2>1, FS_Subset
<1>4. S \in SUBSET T
  BY <1>1
<1> HIDE DEF S, T
<1>5. IsFiniteSet(S) /\ Cardinality(S) <= Cardinality(T)
  BY <1>3, <1>4, FS_Subset
<1>6. Space!Cardinality(S) = Cardinality(S)
  BY DEF Cardinality, Space!Cardinality
<1>7. Cardinality(S) \in Nat
  BY <1>5, FS_CardinalityType
<1> QED
  BY <1>2, <1>5, <1>6, <1>7 DEF S

LEMMA XBitsFacts == \A d : XBits(d) \in Nat /\ Space!XBits(d) = XBits(d)
<1> SUFFICES ASSUME NEW d
             PROVE  XBits(d) \in Nat /\ Space!XBits(d) = XBits(d)
  OBVIOUS
<1> DEFINE l == Len(Interleaving)
           S == {n \in 1..l : Interleaving[n] = d}
<1>1. l \in 0..l /\ DOMAIN Interleaving = 1..l
  BY SpaceAssumption
<1>2. Cardinality(S) \in Nat /\ Space!Cardinality(S) = Cardinality(S)
  BY <1>1, CountOf
<1>3. XBits(d) = Cardinality(S)
  BY <1>1 DEF XBits
<1>4. Space!XBits(d) = Space!Cardinality(S)
  BY DEF Space!XBits, Space!ZBits
<1> QED
  BY <1>2, <1>3, <1>4

\* A coordinate is in a cell of the grid, in order (Space::appToZ).
LEMMA AppToZFacts ==
    ASSUME NEW d, NEW x \in 0..(XMax - 1), NEW y \in 0..(XMax - 1)
    PROVE  /\ AppToZ(d, x) \in 0..(2^XBits(d) - 1) /\ AppToZ(d, x) \in Nat
           /\ x <= y => AppToZ(d, x) <= AppToZ(d, y)
<1> DEFINE P == 2^XBits(d)
           u == x * P
           v == y * P
           qu == u \div XMax
           qv == v \div XMax
<1>1. P \in Nat \ {0} /\ XMax \in Nat \ {0} /\ x \in Nat /\ y \in Nat /\ x + 1 <= XMax
  BY XBitsFacts, DoublePower, ProgramsAssumption
<1> HIDE DEF P
<1>2. u \in Nat /\ v \in Nat /\ u + P <= XMax * P /\ (x <= y => u <= v)
  BY <1>1, Z3
<1>3. AppToZ(d, x) = qu /\ AppToZ(d, y) = qv
  BY DEF AppToZ, P
<1> HIDE DEF u, v
<1>4. /\ qu \in Nat /\ XMax * qu <= u /\ u < XMax * qu + XMax
      /\ qv \in Nat /\ XMax * qv <= v /\ v < XMax * qv + XMax
  BY <1>1, <1>2, Quotient
<1> HIDE DEF qu, qv
<1>5. ~(P <= qu)
  <2> SUFFICES ASSUME P <= qu PROVE FALSE
    OBVIOUS
  <2>1. XMax * P <= XMax * qu
    BY <1>1, <1>4, Z3
  <2> DEFINE a == XMax * P
             c == XMax * qu
  <2>2. a \in Nat /\ c \in Nat
    BY <1>1, <1>4
  <2>3. a <= c /\ c <= u /\ u + P <= a
    BY <1>2, <1>4, <2>1
  <2> HIDE DEF a, c
  <2> QED
    BY <1>1, <1>2, <2>2, <2>3
<1>6. ASSUME x <= y PROVE ~(qv + 1 <= qu)
  <2> SUFFICES ASSUME qv + 1 <= qu PROVE FALSE
    OBVIOUS
  <2>1. XMax * qv + XMax <= XMax * qu
    BY <1>1, <1>4, Z3
  <2> DEFINE a == XMax * qv
             c == XMax * qu
  <2>2. a \in Nat /\ c \in Nat
    BY <1>1, <1>4
  <2>3. a + XMax <= c /\ c <= u /\ v < a + XMax /\ u <= v
    BY <1>2, <1>4, <1>6, <2>1
  <2> HIDE DEF a, c
  <2> QED
    BY <1>1, <1>2, <2>2, <2>3
<1> QED
  BY <1>1, <1>3, <1>4, <1>5, <1>6 DEF P

LEMMA GridOrder ==
    ASSUME NEW p \in Places
    PROVE  /\ \A d \in Dims : GridPoint(p)[d] \in 0..(2^XBits(d) - 1) /\ GridPoint(p)[d] \in Nat
           /\ \A r \in Places, d \in Dims :
                 p[d] <= r[d] => GridPoint(p)[d] <= GridPoint(r)[d]
<1>1. \A r \in Places : \A d \in Dims : r[d] \in 0..(XMax - 1)
  BY DEF Places
<1>2. \A r, d : d \in Dims => GridPoint(r)[d] = AppToZ(d, r[d])
  BY DEF GridPoint
<1>3. ASSUME NEW d \in Dims
      PROVE  GridPoint(p)[d] \in 0..(2^XBits(d) - 1) /\ GridPoint(p)[d] \in Nat
  <2>1. AppToZ(d, p[d]) \in 0..(2^XBits(d) - 1) /\ AppToZ(d, p[d]) \in Nat
    BY <1>1, AppToZFacts
  <2> QED
    BY <1>2, <2>1
<1>4. ASSUME NEW r \in Places, NEW d \in Dims, p[d] <= r[d]
      PROVE  GridPoint(p)[d] <= GridPoint(r)[d]
  BY <1>1, <1>2, <1>4, AppToZFacts
<1> QED
  BY <1>3, <1>4

\* The cell of the grid that a point is in, as a path of halvings.
CellOf(p) == Space!Shuffled(GridPoint(p), Len(Interleaving))

LEMMA CellIsPath ==
    ASSUME NEW p \in Places
    PROVE  CellOf(p) \in Words!Cell
<1> DEFINE l == Len(Interleaving)
           g == GridPoint(p)
<1>1. ASSUME NEW m \in 1..l
      PROVE  LET d == Interleaving[m]
                 S == {n \in 1..m : Interleaving[n] = d}
             IN  Space!BitAt(g[d], Space!XBits(d) - Space!Cardinality(S)) \in {0, 1}
  <2> DEFINE d == Interleaving[m]
             S == {n \in 1..m : Interleaving[n] = d}
             e == Space!XBits(d) - Space!Cardinality(S)
             P == 2^e
             y == g[d]
  <2>1. d \in Dims /\ m \in 0..l
    BY SpaceAssumption
  <2>2. y \in Nat
    BY <2>1, GridOrder
  <2>3. e \in Nat
    <3>1. /\ Space!XBits(d) = XBits(d) /\ XBits(d) \in Nat
          /\ Space!Cardinality(S) = Cardinality(S) /\ Cardinality(S) \in Nat
          /\ Cardinality(S) <= XBits(d)
      BY <2>1, XBitsFacts, CountOf
    <3> HIDE DEF d, S
    <3> QED
      BY <3>1
  <2> HIDE DEF e
  <2>4. P \in Nat \ {0}
    BY <2>3, DoublePower
  <2> HIDE DEF y, P
  <2>5. y \div P \in Nat
    BY <2>2, <2>4, Quotient
  <2>6. (y \div P) % 2 \in {0, 1}
    BY <2>5
  <2> QED
    BY <2>6 DEF Space!BitAt, y, P, e
<1>2. CellOf(p) \in [1..l -> {0, 1}]
  BY <1>1 DEF CellOf, Space!Shuffled
<1> QED
  BY <1>2 DEF Words!Cell, Words!Bit

-----------------------------------------------------------------------------
\* The index goes on as in the module of its own.

InIndex == INSTANCE ArrayProofs WITH
    Keys <- IndexKeys, Least <- 0, EOF <- EndOfRecords,
    Zs <- {}, Uninitialized <- 0, MaxLength <- 0, slots <- << >>, length <- 0

LEMMA IndexAssumptions ==
    /\ IndexKeys \subseteq Int /\ 0 \in Int
    /\ \A l \in IndexKeys : 0 < l
    /\ EndOfRecords \notin IndexKeys
    /\ {} \subseteq Int /\ InitialCapacity \in Nat \ {0} /\ 0 \in Nat
<1> DEFINE m == 2^(1 + MaxZBits + LengthBits) * Slots
<1>1. IndexKeys = 1..m
  BY DEF IndexKeys
<1> HIDE DEF m
<1>2. \A l \in IndexKeys : l \in Int /\ 0 < l /\ l # -1
  BY <1>1
<1> QED
  BY <1>2, SpaceAssumption DEF EndOfRecords

IndexInv == InIndex!IInv

\* The keys in the index.
Held == {records[m] : m \in DOMAIN records}

LEMMA SameIndex ==
    /\ Index!Init <=> InIndex!Init
    /\ \A l : Index!Add(l) <=> InIndex!Add(l)
    /\ Index!Freeze <=> InIndex!Freeze
    /\ Index!Open <=> InIndex!Open
    /\ Index!Delete <=> InIndex!Delete
    /\ Index!Renew <=> InIndex!Renew
    /\ \A l : Index!GoTo(l) <=> InIndex!GoTo(l)
    /\ Index!Retrieve(TRUE) <=> InIndex!Retrieve(TRUE)
    /\ InIndex!Range(records) = Held
<1>1. Index!Init <=> InIndex!Init
  BY DEF Index!Init, InIndex!Init
<1>2. \A l : Index!Add(l) <=> InIndex!Add(l)
  BY DEF Index!Add, InIndex!Add, Index!Range, InIndex!Range, Index!Displaces, InIndex!Displaces,
         Index!cursor, InIndex!cursor
<1>3. Index!Freeze <=> InIndex!Freeze
  BY DEF Index!Freeze, InIndex!Freeze, Index!Sorted, InIndex!Sorted, Index!Range, InIndex!Range,
         Index!Cardinality, InIndex!Cardinality, Index!cursor, InIndex!cursor
<1>4. /\ Index!Open <=> InIndex!Open
      /\ Index!Delete <=> InIndex!Delete
      /\ Index!Renew <=> InIndex!Renew
      /\ \A l : Index!GoTo(l) <=> InIndex!GoTo(l)
  BY DEF Index!Open, InIndex!Open, Index!Delete, InIndex!Delete, Index!Renew, InIndex!Renew,
         Index!GoTo, InIndex!GoTo, Index!cursor, InIndex!cursor
<1>5. Index!Retrieve(TRUE) <=> InIndex!Retrieve(TRUE)
  BY DEF Index!Retrieve, InIndex!Retrieve, Index!Delivered, InIndex!Delivered,
         Index!Start, InIndex!Start, Index!Position, InIndex!Position,
         Index!Found, InIndex!Found, Index!n, InIndex!n, Index!At, InIndex!At
<1>6. InIndex!Range(records) = Held
  BY DEF InIndex!Range, Held
<1> QED
  BY <1>1, <1>2, <1>3, <1>4, <1>5, <1>6

LEMMA IndexStarts ==
    ASSUME Index!Init
    PROVE  IndexInv /\ Held = {} /\ state = "none" /\ ~stale
<1>1. InIndex!Init
  BY SameIndex
<1>2. IndexInv
  BY <1>1, IndexAssumptions, InIndex!InitInv DEF IndexInv
<1>3. records = << >> /\ state = "none" /\ stale = FALSE
  BY <1>1 DEF InIndex!Init
<1> QED
  BY <1>2, <1>3 DEF Held

LEMMA IndexKept ==
    ASSUME IndexInv, UNCHANGED indexVars
    PROVE  IndexInv' /\ Held' = Held
<1>1. UNCHANGED InIndex!vars
  BY DEF indexVars, InIndex!vars
<1>2. IndexInv'
  BY <1>1, IndexAssumptions, InIndex!NextInv DEF IndexInv
<1> QED
  BY <1>2 DEF indexVars, Held

LEMMA IndexAdds ==
    ASSUME IndexInv, NEW l \in IndexKeys, Index!Add(l), state = "none"
    PROVE  /\ IndexInv' /\ l \notin Held /\ Held' = Held \cup {l}
           /\ state' = state /\ stale' = stale
<1>1. InIndex!Add(l)
  BY SameIndex
<1>2. IndexInv' /\ InIndex!Abstract!Add(l)
  BY <1>1, IndexAssumptions, InIndex!AddStep DEF IndexInv
<1>3. InIndex!Range(records') = InIndex!Range(records) \cup {l} /\ l \notin InIndex!Range(records)
  BY <1>2 DEF InIndex!Abstract!Add
<1>4. state' = state /\ stale' = stale
  <2>1. stale \in BOOLEAN
    BY DEF IndexInv, InIndex!IInv, InIndex!FrozenInOrder, InIndex!TypeOK
  <2> QED
    BY <1>1, <2>1 DEF InIndex!Add, InIndex!Displaces, InIndex!cursor
<1>5. InIndex!Range(records') = Held' /\ InIndex!Range(records) = Held
  BY DEF InIndex!Range, Held
<1> QED
  BY <1>2, <1>3, <1>4, <1>5

LEMMA IndexFreezes ==
    ASSUME IndexInv, Index!Freeze, state = "none"
    PROVE  /\ IndexInv' /\ Held' = Held /\ frozen'
           /\ state' = state /\ stale' = stale
<1>1. InIndex!Freeze
  BY SameIndex
<1>2. IndexInv' /\ InIndex!Abstract!Freeze
  BY <1>1, IndexAssumptions, InIndex!FreezeStep DEF IndexInv
<1>3. InIndex!Range(records') = InIndex!Range(records)
  BY <1>2 DEF InIndex!Abstract!Freeze
<1>4. state' = state /\ stale' = stale /\ frozen' = TRUE
  <2>1. stale \in BOOLEAN
    BY DEF IndexInv, InIndex!IInv, InIndex!FrozenInOrder, InIndex!TypeOK
  <2> QED
    BY <1>1, <2>1 DEF InIndex!Freeze, InIndex!cursor
<1>5. InIndex!Range(records') = Held' /\ InIndex!Range(records) = Held
  BY DEF InIndex!Range, Held
<1> QED
  BY <1>2, <1>3, <1>4, <1>5

\* The steps of the cursor that do not retrieve.
LEMMA CursorMoves ==
    ASSUME IndexInv
    PROVE  /\ Index!Open => /\ IndexInv' /\ UNCHANGED <<records, frozen, stale>>
                            /\ state = "none" /\ state' = "NEVER_USED"
           /\ Index!Delete => /\ IndexInv' /\ UNCHANGED <<records, frozen>> /\ ~stale'
                              /\ state' = "none"
           /\ Index!Renew => /\ IndexInv' /\ Held' = {} /\ UNCHANGED stale
                             /\ state = "none" /\ state' = "none"
           /\ \A l \in IndexKeys : Index!GoTo(l) =>
                 /\ IndexInv' /\ UNCHANGED <<records, frozen>> /\ ~stale'
                 /\ state' = "NEVER_USED" /\ startAt' = l
<1>1. Index!Open \/ Index!Delete \/ Index!Renew => IndexInv'
  BY SameIndex, IndexAssumptions, InIndex!CursorSteps DEF IndexInv
<1>2. \A l \in IndexKeys : Index!GoTo(l) => IndexInv'
  BY SameIndex, IndexAssumptions, InIndex!CursorSteps DEF IndexInv
<1> QED
  BY <1>1, <1>2 DEF Index!Open, Index!Delete, Index!Renew, Index!GoTo, Index!cursor, Held

\* The keys that lie ahead of the cursor.
Ahead == {l \in Held : l > startAt \/ (state = "NEVER_USED" /\ l = startAt)}

LEMMA IndexRetrieves ==
    ASSUME IndexInv, state \in {"NEVER_USED", "IN_USE"}, frozen, ~stale, Index!Retrieve(TRUE)
    PROVE  /\ IndexInv' /\ UNCHANGED <<records, frozen>> /\ ~stale'
           /\ IF Ahead = {} THEN current' = EndOfRecords
              ELSE current' \in Ahead /\ \A l \in Ahead : current' <= l
           /\ current' # EndOfRecords => state' = "IN_USE" /\ startAt' = current'
<1>1. InIndex!Retrieve(TRUE) /\ InIndex!Active
  BY SameIndex DEF InIndex!Active
<1>2. IndexInv' /\ InIndex!Abstract!Retrieve(TRUE)
  BY <1>1, IndexAssumptions, InIndex!RetrieveActive DEF IndexInv
<1>3. InIndex!Abstract!Ahead(TRUE) = Ahead
  BY SameIndex DEF InIndex!Abstract!Ahead, Ahead
<1>4. current' \in InIndex!Abstract!Deliverable(TRUE)
  BY <1>2 DEF InIndex!Abstract!Retrieve
<1>5. InIndex!Abstract!Deliverable(TRUE) =
          IF Ahead = {} THEN {EndOfRecords} ELSE InIndex!Abstract!Nearest(TRUE)
  BY <1>3 DEF InIndex!Abstract!Deliverable
<1>6. \A l : l \in InIndex!Abstract!Nearest(TRUE) <=> l \in Ahead /\ \A x \in Ahead : l <= x
  BY <1>3 DEF InIndex!Abstract!Nearest
<1>7. /\ UNCHANGED <<records, frozen>> /\ ~stale'
      /\ current' # EndOfRecords => state' = "IN_USE" /\ startAt' = current'
  BY <1>1 DEF InIndex!Retrieve
<1> QED
  BY <1>2, <1>4, <1>5, <1>6, <1>7

\* What the invariant says of the records.
LEMMA HeldFacts ==
    ASSUME IndexInv
    PROVE  Held \subseteq IndexKeys
<1>1. records \in Seq(IndexKeys)
  BY DEF IndexInv, InIndex!IInv, InIndex!FrozenInOrder, InIndex!TypeOK
<1> QED
  BY <1>1 DEF Held

-----------------------------------------------------------------------------
\* What decompose returns: one z-value for a point, and for a box z-values that
\* have no cell in common, and the cells of all the points in the box.
Covers(b) ==
    /\ \A p \in Places : Overlap(b, p) => \E j \in DOMAIN zs : CellOf(p) \in Words!Cells(zs[j])
    /\ \A j, l \in DOMAIN zs : j # l => Words!Cells(zs[j]) \cap Words!Cells(zs[l]) = {}

Returned ==
    /\ zs \in Seq(Words!Region)
    /\ pc = "done" =>
          /\ \A p \in Places : box = GridBox(PointBox(p)) => zs = <<CellOf(p)>>
          /\ \A b \in Queries : box = GridBox(b) => Covers(b)

LEMMA SpaceStarts == Space!Init => Returned
BY DEF Space!Init, Returned

LEMMA SpaceCalled ==
    ASSUME NEW b, NEW m, Space!Decompose(b, m)
    PROVE  Returned' /\ box' = b /\ pc' # "done" /\ zs' = << >>
BY DEF Space!Decompose, Returned

LEMMA SpaceSteps == Space!Step => box' = box
BY DEF Space!Step, Space!Up, Space!StartQueue, Space!EmitPoint, Space!Divide, Space!Taking,
       Space!Sort, Space!MergePair, Space!EndPass

LEMMA SpaceKept == Returned /\ UNCHANGED spaceVars => Returned'
BY DEF spaceVars, Returned, Covers

-----------------------------------------------------------------------------
\* What the program knows at each stage.

Reference == {"copy", "object", "inline"} \X Nat

\* The key of a point in the index.
KeyOf(o) == Key(Z(CellOf(points[o])), o)

\* How many points have been made, and how many of them have been added.
Made ==
    CASE stage \in {"setup", "load"} -> id
      [] stage = "add" -> id + 1
      [] OTHER -> Count
Added == IF stage = "add" THEN id - 1 + k ELSE id

Deleting == {"deletePoints", "ended"}
Searching == {"query", "answered"}

MainState ==
    /\ stage \in {"setup", "load", "add", "queries", "query", "answered", "deletePoints", "ended"}
    /\ id \in 0..Count /\ q \in 0..NQueries
    /\ stage = "add" => id < Count
    /\ stage \in {"queries"} \cup Searching => id = Count
    /\ stage \in Searching => q < NQueries
    /\ \E size \in Nat : types \in [0..(size - 1) -> BOOLEAN]

PointsMade ==
    /\ DOMAIN points = 0..(Made - 1)
    /\ \A o \in DOMAIN points : points[o] \in Placed(o)
    /\ alive \subseteq DOMAIN points
    /\ stage = "add" => id \in alive

\* The index has one record of each point that has been added.
PointsFiled ==
    /\ Held = IF stage \in Deleting THEN {} ELSE {KeyOf(o) : o \in 0..(Added - 1)}
    /\ DOMAIN refs = Held
    /\ \A l \in DOMAIN refs : refs[l] \in Reference
    /\ copies \in 0..MaxPoints
    /\ stage \notin Deleting => copies = IF manager = "buffering" THEN Added ELSE 0

\* The index has no cursor but for a query, which finds it frozen.
IndexReady ==
    /\ ~stale
    /\ stage \notin Searching => state = "none"
    /\ stage = "answered" /\ program # "testRetrieval" => state = "none"
    /\ stage \in {"queries"} \cup Searching => frozen

\* What the call of decompose is for.
CallFor ==
    /\ stage = "add" => /\ box = GridBox(PointBox(points[id]))
                        /\ k \in {1, 2} /\ (k = 2 => pc = "done")
    /\ stage = "query" => box = GridBox(queryBox)
    /\ stage \in Searching => queryBox \in Queries
    /\ k \in Nat \ {0}
    /\ stage \notin {"add"} \cup Searching => k = 1

In(o, j) == CellOf(points[o]) \in Words!Cells(zs[j])

\* The points that the search has come to: those in the z-values it is through
\* with, and those of the present one that are not ahead of the cursor.
Seen(o) ==
    \/ \E j \in DOMAIN zs : j < k /\ In(o, j)
    \/ reading /\ state = "IN_USE" /\ In(o, k) /\ KeyOf(o) <= startAt

Passed(o) == stage = "answered" \/ Seen(o)

\* The output has what the search has come to and the filter has passed, once.
OutputSoFar ==
    /\ output \in Seq([id : Ids, ref : Reference])
    /\ stage \notin Searching => output = << >>
    /\ stage \in Searching =>
          {output[m].id : m \in DOMAIN output} =
              {o \in 0..(Count - 1) : Overlap(queryBox, points[o]) /\ Passed(o)}
    /\ \A m, n \in DOMAIN output : output[m].id = output[n].id => m = n

CursorAt ==
    /\ reading \in BOOLEAN
    /\ stage = "query" /\ pc # "done" => k = 1
    /\ reading => /\ stage = "query" /\ pc = "done" /\ k \in DOMAIN zs
                  /\ \/ state = "NEVER_USED" /\ startAt = MinKey(Z(zs[k]))
                     \/ state = "IN_USE" /\ startAt \in Held /\ MinKey(Z(zs[k])) <= startAt

Inv ==
    /\ MainState /\ PointsMade /\ PointsFiled /\ IndexReady
    /\ CallFor /\ OutputSoFar /\ CursorAt

\* The invariant, with what the parts contribute to it.
AppInv == Returned /\ IndexInv /\ Inv

LEMMA RegionWords ==
    ASSUME NEW r \in Words!Region
    PROVE  Z(r) \in 0..(ZEnd - 1) /\ ZHi(r) \in 0..(ZEnd - 1) /\ Z(r) \in Nat /\ ZHi(r) \in Nat
<1> DEFINE c == [n \in 1..Len(Interleaving) |-> 0]
<1>1. c \in Words!Cell
  BY DEF Words!Cell, Words!Bit
<1> HIDE DEF c
<1>2. Z(r) \in 0..(ZEnd - 1) /\ ZHi(r) \in 0..(ZEnd - 1)
  BY <1>1, IntervalOfRegion
<1> QED
  BY <1>2

LEMMA MadeBound ==
    ASSUME MainState
    PROVE  Made \in 0..Count /\ id \in Nat /\ Count \in Nat
BY Counts DEF MainState, Made

\* The keys of the points.
LEMMA PointKeys ==
    ASSUME MainState, PointsMade, NEW o \in DOMAIN points
    PROVE  /\ o \in 0..(Count - 1) /\ o \in Ids /\ points[o] \in Places
           /\ CellOf(points[o]) \in Words!Cell /\ CellOf(points[o]) \in Words!Region
           /\ Z(CellOf(points[o])) \in Nat
           /\ KeyOf(o) \in IndexKeys
           /\ ZOf(KeyOf(o)) = Z(CellOf(points[o])) /\ SoidOf(KeyOf(o)) = o
<1>1. o \in 0..(Count - 1) /\ o \in Ids
  <2>1. DOMAIN points = 0..(Made - 1) /\ Made \in 0..Count /\ Count \in 0..MaxPoints
    BY MadeBound, Counts DEF PointsMade
  <2>2. MaxPoints \in Nat /\ Ids = 0..(MaxPoints - 1)
    BY Counts
  <2> QED
    BY <2>1, <2>2
<1> DEFINE p == points[o]
           c == CellOf(p)
           z == Z(c)
<1>2. p \in Places
  BY <1>1, PlacedInSpace DEF PointsMade
<1> HIDE DEF p
<1>3. c \in Words!Cell
  BY <1>2, CellIsPath
<1>4. \A x \in Words!Cell : x \in Words!Region
  <2>1. Len(Interleaving) \in 0..Len(Interleaving)
    BY SpaceAssumption
  <2>2. Words!Cell = [1..Len(Interleaving) -> {0, 1}]
    BY DEF Words!Cell, Words!Bit
  <2> QED
    BY <2>1, <2>2 DEF Words!Region, Words!Bit
<1> HIDE DEF c
<1>5. z \in 0..(ZEnd - 1)
  BY <1>3, <1>4, RegionWords
<1>6. KeyOf(o) = Key(z, o)
  BY DEF KeyOf, z, c, p
<1> HIDE DEF z
<1>7. z \in Nat /\ Key(z, o) \in IndexKeys
  BY <1>1, <1>5, KeysFit
<1>8. ZOf(Key(z, o)) = z /\ SoidOf(Key(z, o)) = o
  BY <1>1, <1>7, KeyHolds
<1> QED
  BY <1>1, <1>2, <1>3, <1>4, <1>6, <1>7, <1>8 DEF z, c, p

-----------------------------------------------------------------------------
\* The program starts with the invariant.

LEMMA AppInit == Init => AppInv
<1> SUFFICES ASSUME Init
             PROVE  AppInv
  OBVIOUS
<1>1. Space!Init /\ Index!Init
  BY DEF Init
<1>2. Returned /\ IndexInv /\ Held = {} /\ state = "none" /\ ~stale
  BY <1>1, SpaceStarts, IndexStarts
<1>3. /\ stage = "setup" /\ types = [n \in 0..(InitialSize - 1) |-> FALSE]
      /\ id = 0 /\ points = << >> /\ alive = {} /\ refs = << >> /\ copies = 0
      /\ k = 1 /\ reading = FALSE /\ output = << >> /\ q = 0
  BY DEF Init
<1>4. Made = 0 /\ Added = 0 /\ Count \in Nat /\ MaxPoints \in Nat
  BY <1>3, Counts DEF Made, Added
<1>5. MainState
  <2>1. types \in [0..(InitialSize - 1) -> BOOLEAN] /\ InitialSize \in Nat /\ NQueries \in Nat
    BY <1>3, ProgramsAssumption
  <2> QED
    BY <1>3, <1>4, <2>1 DEF MainState, Searching
<1>6. PointsMade
  <2>1. DOMAIN points = {} /\ 0..(Made - 1) = {}
    BY <1>3, <1>4
  <2> QED
    BY <1>3, <2>1 DEF PointsMade
<1>7. PointsFiled
  <2>1. DOMAIN refs = {} /\ 0..(Added - 1) = {}
    BY <1>3, <1>4
  <2> QED
    BY <1>2, <1>3, <1>4, <2>1 DEF PointsFiled, Deleting
<1>8. IndexReady /\ CallFor /\ CursorAt
  <2>1. IndexReady
    BY <1>2, <1>3 DEF IndexReady, Searching
  <2>2. CallFor
    BY <1>3 DEF CallFor, Searching
  <2>3. CursorAt
    BY Zenon, <1>3 DEF CursorAt
  <2> QED
    BY <2>1, <2>2, <2>3
<1>9. OutputSoFar
  <2>1. output \in Seq([id : Ids, ref : Reference])
    BY <1>3
  <2> QED
    BY <1>3, <2>1 DEF OutputSoFar, Searching
<1> QED
  BY <1>2, <1>5, <1>6, <1>7, <1>8, <1>9 DEF AppInv, Inv

-----------------------------------------------------------------------------
\* Every step keeps the invariant.

\* What a step keeps of the points and the index.
LEMMA SameProgram ==
    ASSUME UNCHANGED program
    PROVE  Count' = Count /\ manager' = manager /\ \A n : Placed(n)' = Placed(n)
BY DEF Count, manager, Placed

LEMMA SamePoints ==
    ASSUME UNCHANGED points
    PROVE  \A o : KeyOf(o)' = KeyOf(o)
BY DEF KeyOf

LEMMA RegisteredType ==
    ASSUME NEW D, NEW array \in [D -> BOOLEAN], NEW type
    PROVE  Registered(array, type) \in [D \cup 0..type -> BOOLEAN]
<1> DEFINE R == [n \in D \cup 0..type |-> IF n = type THEN TRUE ELSE n \in D /\ array[n]]
<1>1. Registered(array, type) = R
  BY DEF Registered
<1>2. \A n \in D \cup 0..type : (IF n = type THEN TRUE ELSE n \in D /\ array[n]) \in BOOLEAN
  BY Zenon
<1>3. R \in [D \cup 0..type -> BOOLEAN]
  BY <1>2, Zenon
<1> QED
  BY <1>1, <1>3, Zenon

LEMMA SetupStep ==
    ASSUME AppInv, Setup
    PROVE  AppInv'
<1>1. /\ stage = "setup" /\ stage' = "load"
      /\ types' = Registered(Registered(types, PointType), BoxType)
      /\ UNCHANGED <<spaceVars, indexVars, program, objectVars, searchVars>>
  BY DEF Setup
<1>2. Returned' /\ IndexInv' /\ Held' = Held
  BY <1>1, SpaceKept, IndexKept DEF AppInv
<1>3. UNCHANGED <<Count, manager>> /\ \A n : Placed(n)' = Placed(n)
  BY <1>1, SameProgram
<1>4. /\ UNCHANGED <<id, points, alive, refs, copies, queryBox, k, reading, output, q>>
      /\ UNCHANGED <<pc, box, zs, frozen, state, startAt, stale>>
      /\ \A o : KeyOf(o)' = KeyOf(o)
  BY <1>1, SamePoints DEF objectVars, searchVars, spaceVars, indexVars
<1>5. Made' = Made /\ Added' = Added
  BY <1>1, <1>4 DEF Made, Added
<1>6. MainState'
  <2>1. PICK size \in Nat : types \in [0..(size - 1) -> BOOLEAN]
    BY DEF AppInv, Inv, MainState
  <2> DEFINE more == IF size < 3 THEN 3 ELSE size
  <2>2. more \in Nat /\ 0..(more - 1) = (0..(size - 1) \cup 0..1) \cup 0..2
    OBVIOUS
  <2> DEFINE D == 0..(size - 1)
             E == D \cup 0..PointType
             array == Registered(types, PointType)
  <2>3. types \in [D -> BOOLEAN] /\ types' = Registered(array, BoxType)
    BY <1>1, <2>1
  <2>4. E \cup 0..BoxType = 0..(more - 1)
    BY <2>2 DEF PointType, BoxType
  <2> HIDE DEF D
  <2>5. array \in [E -> BOOLEAN]
    BY <2>3, RegisteredType, Zenon
  <2> HIDE DEF E, array
  <2>6. types' \in [E \cup 0..BoxType -> BOOLEAN]
    BY <2>3, <2>5, RegisteredType, Zenon
  <2>7. types' \in [0..(more - 1) -> BOOLEAN]
    BY <2>4, <2>6, Zenon
  <2> HIDE DEF more
  <2> QED
    BY Zenon, <1>1, <1>3, <1>4, <2>2, <2>7 DEF AppInv, Inv, MainState, Searching
<1>7. PointsMade'
  BY <1>1, <1>3, <1>4, <1>5 DEF AppInv, Inv, PointsMade
<1>8. PointsFiled'
  BY <1>1, <1>2, <1>3, <1>4, <1>5 DEF AppInv, Inv, PointsFiled, Deleting
<1>9. IndexReady' /\ CallFor' /\ OutputSoFar' /\ CursorAt'
  BY <1>1, <1>4 DEF AppInv, Inv, IndexReady, CallFor, OutputSoFar, CursorAt, Searching
<1> QED
  BY <1>2, <1>6, <1>7, <1>8, <1>9 DEF AppInv, Inv

\* Without a search there is no output.
LEMMA NoOutput == output' = << >> /\ stage' \notin Searching => OutputSoFar'
<1>1. << >> \in Seq([id : Ids, ref : Reference])
  OBVIOUS
<1> QED
  BY <1>1 DEF OutputSoFar, Searching

LEMMA NewPointStep ==
    ASSUME AppInv, NewPoint
    PROVE  AppInv'
<1>1. /\ stage = "load" /\ id < Count /\ stage' = "add" /\ alive' = alive \cup {id}
      /\ UNCHANGED <<indexVars, program, types, id, refs, copies, deleted, searchVars>>
  BY DEF NewPoint
<1>2. PICK p \in Placed(id) :
          /\ points' = [o \in DOMAIN points \cup {id} |-> IF o = id THEN p ELSE points[o]]
          /\ Space!Decompose(GridBox(PointBox(p)), 1)
  BY DEF NewPoint
<1>3. /\ id \in 0..(Count - 1) /\ Made = id /\ Made' = id + 1 /\ Count \in Nat
      /\ k = 1 /\ output = << >> /\ reading = FALSE
  BY <1>1, MadeBound DEF AppInv, Inv, MainState, Made, CallFor, OutputSoFar, CursorAt, Searching
<1>4. p \in Places
  BY <1>3, PlacedInSpace
<1>5. Returned' /\ box' = GridBox(PointBox(p)) /\ pc' # "done"
  BY <1>2, SpaceCalled
<1>6. IndexInv' /\ Held' = Held
  BY <1>1, IndexKept DEF AppInv
<1>7. UNCHANGED <<Count, manager>> /\ \A n : Placed(n)' = Placed(n)
  BY <1>1, SameProgram
<1>8. /\ UNCHANGED <<program, types, id, refs, copies, queryBox, k, reading, output, q>>
      /\ UNCHANGED <<frozen, state, startAt, stale>>
  BY <1>1 DEF searchVars, indexVars
<1>9. Added' = Added /\ Added = id
  BY <1>1, <1>3, <1>8 DEF Added
<1>10. MainState'
  BY <1>1, <1>7, <1>8 DEF AppInv, Inv, MainState, Searching
<1>11. /\ DOMAIN points = 0..(id - 1) /\ DOMAIN points' = 0..id
       /\ points'[id] = p /\ \A o \in DOMAIN points : points'[o] = points[o]
  BY <1>2, <1>3 DEF AppInv, Inv, PointsMade
<1>12. PointsMade'
  BY <1>1, <1>3, <1>7, <1>8, <1>11 DEF AppInv, Inv, PointsMade
<1>13. PointsFiled'
  <2>1. \A o \in DOMAIN points : KeyOf(o)' = KeyOf(o)
    BY <1>11 DEF KeyOf
  <2>2. {KeyOf(o)' : o \in 0..(Added - 1)} = {KeyOf(o) : o \in 0..(Added - 1)}
    BY <1>9, <1>11, <2>1
  <2> QED
    BY <1>1, <1>6, <1>7, <1>8, <1>9, <2>2 DEF AppInv, Inv, PointsFiled, Deleting
<1>14. IndexReady' /\ CursorAt'
  BY <1>1, <1>3, <1>8, Zenon DEF AppInv, Inv, IndexReady, CursorAt, Searching
<1>15. CallFor'
  BY <1>1, <1>3, <1>5, <1>8, <1>11 DEF CallFor, Searching
<1>16. OutputSoFar'
  BY <1>1, <1>3, <1>8, NoOutput DEF Searching
<1> QED
  BY <1>5, <1>6, <1>10, <1>12, <1>13, <1>14, <1>15, <1>16 DEF AppInv, Inv

LEMMA DecomposeStepStep ==
    ASSUME AppInv, DecomposeStep, Returned'
    PROVE  AppInv'
<1>1. /\ stage \in {"add", "query"} /\ pc # "done" /\ Space!Step
      /\ UNCHANGED <<indexVars, program, stage, types, objectVars, searchVars>>
  BY DEF DecomposeStep
<1>2. Returned' /\ box' = box
  BY <1>1, SpaceSteps
<1>3. IndexInv' /\ Held' = Held
  BY <1>1, IndexKept DEF AppInv
<1>4. UNCHANGED <<Count, manager>> /\ \A n : Placed(n)' = Placed(n)
  BY <1>1, SameProgram
<1>5. /\ UNCHANGED <<program, stage, types, id, points, alive, refs, copies>>
      /\ UNCHANGED <<queryBox, k, reading, output, q>>
      /\ UNCHANGED <<frozen, state, startAt, stale>>
      /\ \A o : KeyOf(o)' = KeyOf(o)
  BY <1>1, SamePoints DEF objectVars, searchVars, indexVars
<1>6. Made' = Made /\ Added' = Added
  BY <1>4, <1>5 DEF Made, Added
<1>7. k = 1 /\ reading = FALSE
  BY <1>1 DEF AppInv, Inv, CallFor, CursorAt
<1>8. MainState' /\ PointsMade' /\ IndexReady'
  BY <1>4, <1>5, <1>6 DEF AppInv, Inv, MainState, PointsMade, IndexReady, Searching
<1>9. PointsFiled'
  BY <1>3, <1>4, <1>5, <1>6 DEF AppInv, Inv, PointsFiled, Deleting
<1>10. CallFor'
  BY <1>2, <1>5, <1>7 DEF AppInv, Inv, CallFor, Searching
<1>11. OutputSoFar'
  <2>1. zs \in Seq(Words!Region) /\ zs' \in Seq(Words!Region)
    BY <1>2 DEF AppInv, Returned
  <2>2. \A o : ~Seen(o)
    BY <1>7, <2>1 DEF Seen
  <2>3. \A o : ~Seen(o)'
    BY <1>5, <1>7, <2>1 DEF Seen
  <2>4. \A o : Passed(o)' <=> Passed(o)
    BY <1>5, <2>2, <2>3 DEF Passed
  <2> QED
    BY <1>4, <1>5, <2>4 DEF AppInv, Inv, OutputSoFar, Searching
<1>12. CursorAt'
  BY <1>5, <1>7, Zenon DEF CursorAt
<1> QED
  BY <1>2, <1>3, <1>8, <1>9, <1>10, <1>11, <1>12 DEF AppInv, Inv

\* The record that AddRecord makes: its key is that of the point, which has one
\* z-value.
LEMMA RecordOfPoint ==
    ASSUME AppInv, stage = "add", pc = "done", k <= Len(zs)
    PROVE  /\ k = 1 /\ zs = <<CellOf(points[id])>> /\ id \in DOMAIN points
           /\ Key(Z(zs[k]), id) = KeyOf(id) /\ KeyOf(id) \in IndexKeys
<1>1. id \in DOMAIN points
  BY DEF AppInv, Inv, PointsMade
<1>2. points[id] \in Places /\ KeyOf(id) \in IndexKeys
  BY <1>1, PointKeys DEF AppInv, Inv
<1>3. box = GridBox(PointBox(points[id])) /\ k \in {1, 2}
  BY DEF AppInv, Inv, CallFor
<1>4. zs = <<CellOf(points[id])>>
  BY <1>2, <1>3 DEF AppInv, Returned
<1>5. k = 1
  BY <1>3, <1>4
<1> QED
  BY <1>1, <1>2, <1>4, <1>5 DEF KeyOf

LEMMA AddRecordStep ==
    ASSUME AppInv, AddRecord
    PROVE  AppInv'
<1> DEFINE ref == CASE manager = "buffering" -> <<"copy", copies + 1>>
                    [] manager = "inMemory" -> <<"object", id>>
                    [] manager = "inline" -> <<"inline", id>>
           key == Key(Z(zs[k]), id)
<1>1. /\ stage = "add" /\ pc = "done" /\ k <= Len(zs) /\ Index!Add(key)
      /\ refs' = [l \in DOMAIN refs \cup {key} |-> IF l = key THEN ref ELSE refs[l]]
      /\ copies' = IF manager = "buffering" THEN copies + 1 ELSE copies
      /\ k' = k + 1
      /\ UNCHANGED <<spaceVars, program, stage, types, id, points, alive, deleted>>
      /\ UNCHANGED <<queryBox, reading, output, q>>
  BY DEF AddRecord
<1>2. /\ k = 1 /\ id \in DOMAIN points /\ key = KeyOf(id) /\ KeyOf(id) \in IndexKeys
  BY <1>1, RecordOfPoint
<1>3. manager \in {"buffering", "inMemory", "inline"}
  BY DEF manager
<1>4. /\ state = "none" /\ id \in Nat /\ copies \in Nat /\ output = << >> /\ id < Count
      /\ Count \in 0..MaxPoints /\ MaxPoints \in Nat
  BY <1>1, MadeBound, Counts
     DEF AppInv, Inv, IndexReady, PointsFiled, OutputSoFar, Searching, MainState
<1>5. ref \in Reference
  BY <1>3, <1>4 DEF Reference
<1> HIDE DEF key, ref
<1>6. Returned'
  BY <1>1, SpaceKept DEF AppInv
<1>7. /\ IndexInv' /\ Held' = Held \cup {KeyOf(id)}
      /\ state' = state /\ stale' = stale
  BY <1>1, <1>2, <1>4, IndexAdds DEF AppInv
<1>8. UNCHANGED <<Count, manager>> /\ \A n : Placed(n)' = Placed(n)
  BY <1>1, SameProgram
<1>9. \A o : KeyOf(o)' = KeyOf(o)
  BY <1>1, SamePoints
<1>10. UNCHANGED <<pc, box, zs>>
  BY <1>1 DEF spaceVars
<1>11. Made' = Made /\ Added = id /\ Added' = id + 1
  BY <1>1, <1>2, <1>4, <1>8 DEF Made, Added
<1>12. MainState' /\ PointsMade'
  BY <1>1, <1>8, <1>11 DEF AppInv, Inv, MainState, PointsMade, Searching
<1>13. PointsFiled'
  <2>1. stage \notin Deleting
    BY <1>1 DEF Deleting
  <2>2. Held = {KeyOf(o) : o \in 0..(id - 1)} /\ DOMAIN refs = Held
    BY <1>11, <2>1 DEF AppInv, Inv, PointsFiled
  <2>3. 0..(Added' - 1) = 0..(id - 1) \cup {id}
    BY <1>4, <1>11
  <2>4. Held' = {KeyOf(o)' : o \in 0..(Added' - 1)}
    BY <1>7, <1>9, <2>2, <2>3
  <2>5. DOMAIN refs' = Held' /\ \A l \in DOMAIN refs' : refs'[l] \in Reference
    <3>1. DOMAIN refs' = DOMAIN refs \cup {key}
      BY <1>1
    <3>2. \A l \in DOMAIN refs' : refs'[l] = IF l = key THEN ref ELSE refs[l]
      BY <1>1
    <3>3. \A l \in DOMAIN refs : refs[l] \in Reference
      BY DEF AppInv, Inv, PointsFiled
    <3> QED
      BY <1>2, <1>5, <1>7, <2>2, <3>1, <3>2, <3>3
  <2>6. copies = IF manager = "buffering" THEN id ELSE 0
    BY <1>11, <2>1 DEF AppInv, Inv, PointsFiled
  <2>7. copies' = (IF manager' = "buffering" THEN Added' ELSE 0) /\ copies' \in 0..MaxPoints
    BY <1>1, <1>4, <1>8, <1>11, <2>6
  <2> QED
    BY <1>1, <2>1, <2>4, <2>5, <2>7, Zenon DEF PointsFiled, Deleting
<1>14. IndexReady'
  BY <1>1, <1>4, <1>7, Zenon DEF AppInv, Inv, IndexReady, Searching
<1>15. CallFor'
  BY <1>1, <1>2, <1>10 DEF AppInv, Inv, CallFor, Searching
<1>16. OutputSoFar'
  BY <1>1, <1>4, NoOutput DEF Searching
<1>17. CursorAt'
  BY <1>1, <1>2, Zenon DEF AppInv, Inv, CursorAt
<1> QED
  BY <1>6, <1>7, <1>12, <1>13, <1>14, <1>15, <1>16, <1>17 DEF AppInv, Inv

LEMMA NextPointStep ==
    ASSUME AppInv, NextPoint
    PROVE  AppInv'
<1>1. /\ stage = "add" /\ pc = "done" /\ k > Len(zs) /\ k' = 1 /\ id' = id + 1
      /\ alive' = IF manager = "inline" THEN alive \ {id} ELSE alive
      /\ stage' = "load"
      /\ UNCHANGED <<spaceVars, indexVars, program, types, points, refs, copies, deleted>>
      /\ UNCHANGED <<queryBox, reading, output, q>>
  BY DEF NextPoint
<1>2. Returned' /\ IndexInv' /\ Held' = Held
  BY <1>1, SpaceKept, IndexKept DEF AppInv
<1>3. UNCHANGED <<Count, manager>> /\ \A n : Placed(n)' = Placed(n)
  BY <1>1, SameProgram
<1>4. UNCHANGED <<frozen, state, startAt, stale>> /\ \A o : KeyOf(o)' = KeyOf(o)
  BY <1>1, SamePoints DEF indexVars
<1>5. id \in Nat /\ id < Count /\ Count \in Nat /\ output = << >> /\ reading = FALSE
  BY <1>1, MadeBound DEF AppInv, Inv, MainState, OutputSoFar, CursorAt, Searching
<1>6. k = 2
  <2>1. zs = <<CellOf(points[id])>>
    <3>1. points[id] \in Places
      BY <1>1, PointKeys DEF AppInv, Inv, PointsMade
    <3> QED
      BY <1>1, <3>1 DEF AppInv, Returned, Inv, CallFor
  <2>2. k \in {1, 2}
    BY <1>1 DEF AppInv, Inv, CallFor
  <2> QED
    BY <1>1, <2>1, <2>2
<1>7. Made' = Made /\ Added' = Added
  BY <1>1, <1>5, <1>6 DEF Made, Added
<1>8. MainState' /\ PointsMade'
  BY <1>1, <1>3, <1>5, <1>7 DEF AppInv, Inv, MainState, PointsMade, Searching
<1>9. PointsFiled'
  BY <1>1, <1>2, <1>3, <1>4, <1>7 DEF AppInv, Inv, PointsFiled, Deleting
<1>10. IndexReady' /\ CursorAt'
  BY <1>1, <1>4, <1>5, Zenon DEF AppInv, Inv, IndexReady, CursorAt, Searching
<1>11. CallFor' /\ OutputSoFar'
  BY <1>1, <1>5, NoOutput DEF CallFor, Searching
<1> QED
  BY <1>2, <1>8, <1>9, <1>10, <1>11 DEF AppInv, Inv

LEMMA FreezeIndexStep ==
    ASSUME AppInv, FreezeIndex
    PROVE  AppInv'
<1>1. /\ stage = "load" /\ id = Count /\ Index!Freeze /\ stage' = "queries"
      /\ UNCHANGED <<spaceVars, program, types, objectVars, searchVars>>
  BY DEF FreezeIndex
<1>2. state = "none" /\ ~stale /\ output = << >> /\ reading = FALSE /\ k = 1
  BY <1>1 DEF AppInv, Inv, IndexReady, OutputSoFar, CursorAt, CallFor, Searching
<1>3. Returned' /\ IndexInv' /\ Held' = Held /\ frozen' /\ state' = state /\ stale' = stale
  BY <1>1, <1>2, SpaceKept, IndexFreezes DEF AppInv
<1>4. UNCHANGED <<Count, manager>> /\ \A n : Placed(n)' = Placed(n)
  BY <1>1, SameProgram
<1>5. /\ UNCHANGED <<id, points, alive, refs, copies, queryBox, k, reading, output, q>>
      /\ \A o : KeyOf(o)' = KeyOf(o)
  BY <1>1, SamePoints DEF objectVars, searchVars
<1>6. Made' = Made /\ Added' = Added
  BY <1>1, <1>4, <1>5 DEF Made, Added
<1>7. MainState' /\ PointsMade'
  BY <1>1, <1>4, <1>5, <1>6 DEF AppInv, Inv, MainState, PointsMade, Searching
<1>8. PointsFiled'
  BY <1>1, <1>3, <1>4, <1>5, <1>6 DEF AppInv, Inv, PointsFiled, Deleting
<1>9. IndexReady' /\ CursorAt'
  BY <1>1, <1>2, <1>3, <1>5, Zenon DEF IndexReady, CursorAt, Searching
<1>10. CallFor' /\ OutputSoFar'
  BY <1>1, <1>2, <1>5, NoOutput DEF CallFor, Searching
<1> QED
  BY <1>3, <1>7, <1>8, <1>9, <1>10 DEF AppInv, Inv

LEMMA FindOverlappingStep ==
    ASSUME AppInv, FindOverlapping
    PROVE  AppInv'
<1>1. /\ stage = "queries" /\ q < NQueries /\ stage' = "query"
      /\ UNCHANGED <<indexVars, program, types, objectVars, k, reading, output, q>>
  BY DEF FindOverlapping
<1>2. PICK b \in Queries : queryBox' = b /\ Space!Decompose(GridBox(b), MaxZ)
  BY DEF FindOverlapping
<1>3. output = << >> /\ reading = FALSE /\ k = 1 /\ id = Count
  BY <1>1 DEF AppInv, Inv, MainState, OutputSoFar, CursorAt, CallFor, Searching
<1>4. Returned' /\ box' = GridBox(b) /\ pc' # "done" /\ zs' = << >>
  BY <1>2, SpaceCalled
<1>5. IndexInv' /\ Held' = Held
  BY <1>1, IndexKept DEF AppInv
<1>6. UNCHANGED <<Count, manager>> /\ \A n : Placed(n)' = Placed(n)
  BY <1>1, SameProgram
<1>7. /\ UNCHANGED <<id, points, alive, refs, copies, frozen, state, stale>>
      /\ \A o : KeyOf(o)' = KeyOf(o)
  BY <1>1, SamePoints DEF objectVars, indexVars
<1>8. Made' = Made /\ Added' = Added
  BY <1>1, <1>6, <1>7 DEF Made, Added
<1>9. MainState' /\ PointsMade'
  BY <1>1, <1>3, <1>6, <1>7, <1>8 DEF AppInv, Inv, MainState, PointsMade, Searching
<1>10. PointsFiled'
  BY <1>1, <1>5, <1>6, <1>7, <1>8 DEF AppInv, Inv, PointsFiled, Deleting
<1>11. IndexReady' /\ CursorAt'
  BY <1>1, <1>3, <1>7, Zenon DEF AppInv, Inv, IndexReady, CursorAt, Searching
<1>12. CallFor'
  BY <1>1, <1>2, <1>3, <1>4 DEF CallFor, Searching
<1>13. OutputSoFar'
  <2>1. \A o : ~Seen(o)'
    BY <1>1, <1>3, <1>4 DEF Seen
  <2>2. \A o : ~Passed(o)'
    BY <1>1, <2>1 DEF Passed
  <2>3. output' = << >> /\ << >> \in Seq([id : Ids, ref : Reference])
    BY <1>1, <1>3
  <2> QED
    BY <1>1, <2>2, <2>3 DEF OutputSoFar, Searching
<1> QED
  BY <1>4, <1>5, <1>9, <1>10, <1>11, <1>12, <1>13 DEF AppInv, Inv

\* Steps of a query that change neither the points nor the index.
LEMMA QueryGoesOn ==
    ASSUME AppInv, stage = "query", UNCHANGED stage, Returned', IndexInv', Held' = Held,
           UNCHANGED spaceVars, UNCHANGED objectVars,
           UNCHANGED <<frozen, program, types, queryBox, q>>, ~stale',
           k' \in Nat \ {0}, pc # "done" => k' = 1,
           OutputSoFar', CursorAt'
    PROVE  AppInv'
<1>1. UNCHANGED <<Count, manager>> /\ \A n : Placed(n)' = Placed(n)
  BY SameProgram
<1>2. /\ UNCHANGED <<id, points, alive, refs, copies, pc, box>>
      /\ \A o : KeyOf(o)' = KeyOf(o)
  BY SamePoints DEF objectVars, spaceVars
<1>3. Made' = Made /\ Added' = Added
  BY <1>1, <1>2 DEF Made, Added
<1>4. MainState' /\ PointsMade' /\ IndexReady'
  BY <1>1, <1>2, <1>3 DEF AppInv, Inv, MainState, PointsMade, IndexReady, Searching
<1>5. PointsFiled'
  BY <1>1, <1>2, <1>3 DEF AppInv, Inv, PointsFiled, Deleting
<1>6. CallFor'
  BY <1>2 DEF AppInv, Inv, CallFor, Searching
<1> QED
  BY <1>4, <1>5, <1>6 DEF AppInv, Inv

LEMMA SameOutput ==
    ASSUME AppInv, stage = "query", UNCHANGED <<stage, program, points, queryBox, output>>,
           \A o \in 0..(Count - 1) : Seen(o)' <=> Seen(o)
    PROVE  OutputSoFar'
<1>1. UNCHANGED Count
  BY SameProgram
<1>2. \A o \in 0..(Count - 1) : Passed(o)' <=> Passed(o)
  BY DEF Passed
<1> QED
  BY <1>1, <1>2 DEF AppInv, Inv, OutputSoFar, Searching

LEMMA OpenCursorStep ==
    ASSUME AppInv, OpenCursor
    PROVE  AppInv'
<1>1. /\ stage = "query" /\ pc = "done" /\ Index!Open
      /\ UNCHANGED <<spaceVars, program, stage, types, objectVars, searchVars>>
  BY DEF OpenCursor
<1>2. /\ IndexInv' /\ UNCHANGED <<records, frozen, stale>>
      /\ state = "none" /\ state' = "NEVER_USED"
  BY <1>1, CursorMoves DEF AppInv
<1>3. Returned' /\ Held' = Held
  BY <1>1, <1>2, SpaceKept DEF AppInv, Held
<1>4. UNCHANGED <<queryBox, k, reading, output, q, pc, zs, points>> /\ ~stale
  BY <1>1 DEF searchVars, spaceVars, objectVars, AppInv, Inv, IndexReady
<1>5. reading = FALSE /\ k \in Nat \ {0}
  BY <1>1, <1>2, Zenon DEF AppInv, Inv, CursorAt, CallFor
<1>6. \A o : Seen(o)' <=> Seen(o)
  BY <1>4, <1>5 DEF Seen, In
<1>7. CursorAt'
  BY <1>1, <1>4, <1>5, Zenon DEF CursorAt
<1>8. OutputSoFar'
  BY <1>1, <1>4, <1>6, SameOutput
<1> QED
  BY <1>1, <1>2, <1>3, <1>4, <1>5, <1>7, <1>8, QueryGoesOn

LEMMA GoToZStep ==
    ASSUME AppInv, GoToZ
    PROVE  AppInv'
<1> DEFINE l == MinKey(Z(zs[k]))
<1>1. /\ stage = "query" /\ pc = "done" /\ k <= Len(zs) /\ ~reading
      /\ Index!GoTo(l) /\ reading' = TRUE
      /\ UNCHANGED <<spaceVars, program, stage, types, objectVars, queryBox, k, output, q>>
  BY DEF GoToZ
<1>2. zs \in Seq(Words!Region) /\ k \in Nat \ {0}
  BY <1>1 DEF AppInv, Returned, Inv, CallFor
<1>3. k \in DOMAIN zs /\ zs[k] \in Words!Region
  BY <1>1, <1>2
<1>4. l \in IndexKeys
  BY <1>3, RegionWords, KeysFit
<1> HIDE DEF l
<1>5. /\ IndexInv' /\ UNCHANGED <<records, frozen>> /\ ~stale'
      /\ state' = "NEVER_USED" /\ startAt' = l
  BY <1>1, <1>4, CursorMoves DEF AppInv
<1>6. Returned' /\ Held' = Held
  BY <1>1, <1>5, SpaceKept DEF AppInv, Held
<1>7. UNCHANGED <<queryBox, k, output, q, pc, zs, points>>
  BY <1>1 DEF spaceVars, objectVars
<1>8. \A o : Seen(o)' <=> Seen(o)
  BY <1>1, <1>5, <1>7 DEF Seen, In
<1>9. CursorAt'
  <2>1. MinKey(Z(zs[k]))' = l
    BY <1>7 DEF l
  <2> QED
    BY <1>1, <1>3, <1>5, <1>7, <2>1 DEF CursorAt
<1>10. OutputSoFar'
  BY <1>1, <1>7, <1>8, SameOutput
<1> QED
  BY <1>1, <1>2, <1>5, <1>6, <1>7, <1>9, <1>10, QueryGoesOn

\* A point of the z-value that is looked up.
LEMMA KeyInRegion ==
    ASSUME AppInv, reading, NEW o \in 0..(Count - 1)
    PROVE  /\ o \in DOMAIN points /\ KeyOf(o) \in Held /\ KeyOf(o) \in IndexKeys
           /\ In(o, k) <=> /\ MinKey(Z(zs[k])) <= KeyOf(o)
                           /\ ZOf(KeyOf(o)) < ZHi(zs[k])
           /\ SoidOf(KeyOf(o)) = o
<1>1. /\ stage = "query" /\ k \in DOMAIN zs /\ id = Count
      /\ MainState /\ PointsMade
  BY DEF AppInv, Inv, CursorAt, MainState, Searching
<1>2. Made = Count /\ Added = Count
  BY <1>1 DEF Made, Added
<1>3. o \in DOMAIN points
  BY <1>1, <1>2 DEF PointsMade
<1>4. KeyOf(o) \in Held
  BY <1>1, <1>2 DEF AppInv, Inv, PointsFiled, Deleting
<1> DEFINE c == CellOf(points[o])
           r == zs[k]
           z == Z(c)
           y == Z(r)
<1>5. /\ c \in Words!Cell /\ z \in Nat /\ o \in Ids
      /\ KeyOf(o) \in IndexKeys /\ ZOf(KeyOf(o)) = z /\ SoidOf(KeyOf(o)) = o
  BY <1>1, <1>3, PointKeys
<1>6. zs \in Seq(Words!Region)
  BY DEF AppInv, Returned
<1>7. r \in Words!Region
  BY <1>1, <1>6
<1>8. In(o, k) <=> c \in Words!Cells(r)
  BY DEF In
<1>9. KeyOf(o) = Key(z, o)
  BY DEF KeyOf
<1> HIDE DEF c, r
<1>10. c \in Words!Cells(r) <=> y <= z /\ z < ZHi(r)
  BY <1>5, <1>7, IntervalOfRegion
<1>11. y \in Nat
  BY <1>7, RegionWords
<1> HIDE DEF z, y
<1>12. MinKey(y) <= Key(z, o) <=> y <= z
  BY <1>5, <1>11, KeysInOrder
<1> QED
  BY <1>3, <1>4, <1>5, <1>8, <1>9, <1>10, <1>12 DEF r, y

\* The cursor is at the z-value or behind it, and ahead of it are the points of
\* the z-value that the search has not come to.
LEMMA AheadInRegion ==
    ASSUME AppInv, reading, NEW o \in 0..(Count - 1), In(o, k)
    PROVE  KeyOf(o) \in Ahead <=> ~(state = "IN_USE" /\ KeyOf(o) <= startAt)
<1>1. /\ KeyOf(o) \in Held /\ KeyOf(o) \in Int /\ MinKey(Z(zs[k])) <= KeyOf(o)
  BY KeyInRegion DEF IndexKeys
<1>2. \/ state = "NEVER_USED" /\ startAt = MinKey(Z(zs[k]))
      \/ state = "IN_USE" /\ startAt \in Held
  BY DEF AppInv, Inv, CursorAt
<1>3. CASE state = "NEVER_USED"
  <2>1. startAt \in Int
    <3>1. k \in DOMAIN zs /\ zs \in Seq(Words!Region)
      BY DEF AppInv, Returned, Inv, CursorAt
    <3>2. zs[k] \in Words!Region
      BY <3>1
    <3>3. MinKey(Z(zs[k])) \in IndexKeys
      BY <3>2, RegionWords, KeysFit
    <3> QED
      BY <1>2, <1>3, <3>3 DEF IndexKeys
  <2> QED
    BY <1>1, <1>2, <1>3, <2>1 DEF Ahead
<1>4. CASE state = "IN_USE"
  <2>1. startAt \in Int
    BY <1>2, <1>4, HeldFacts DEF IndexKeys, AppInv
  <2> QED
    BY <1>1, <1>4, <2>1 DEF Ahead
<1> QED
  BY <1>2, <1>3, <1>4

\* The cursor delivers the next record, or finds that there is none.
LEMMA RecordRead ==
    ASSUME AppInv, reading, Index!Retrieve(TRUE)
    PROVE  /\ IndexInv' /\ UNCHANGED <<records, frozen>> /\ ~stale'
           /\ \/ /\ Ahead = {} /\ current' = EndOfRecords
              \/ \E o \in 0..(Count - 1) :
                    /\ current' = KeyOf(o) /\ KeyOf(o) \in Ahead
                    /\ \A other \in Ahead : KeyOf(o) <= other
                    /\ current' # EndOfRecords
                    /\ state' = "IN_USE" /\ startAt' = KeyOf(o)
<1>1. stage = "query" /\ state \in {"NEVER_USED", "IN_USE"} /\ id = Count
  BY DEF AppInv, Inv, CursorAt, MainState, Searching
<1>2. frozen /\ ~stale
  BY <1>1 DEF AppInv, Inv, IndexReady, Searching
<1>3. /\ IndexInv' /\ UNCHANGED <<records, frozen>> /\ ~stale'
      /\ IF Ahead = {} THEN current' = EndOfRecords
         ELSE current' \in Ahead /\ \A l \in Ahead : current' <= l
      /\ current' # EndOfRecords => state' = "IN_USE" /\ startAt' = current'
  BY <1>1, <1>2, IndexRetrieves, Zenon DEF AppInv
<1>4. ASSUME Ahead # {}
      PROVE  \E o \in 0..(Count - 1) :
                    /\ current' = KeyOf(o) /\ KeyOf(o) \in Ahead
                    /\ \A other \in Ahead : KeyOf(o) <= other
                    /\ current' # EndOfRecords
                    /\ state' = "IN_USE" /\ startAt' = KeyOf(o)
  <2>1. current' \in Ahead /\ \A l \in Ahead : current' <= l
    BY <1>3, <1>4
  <2>2. Added = Count /\ stage \notin Deleting
    BY <1>1 DEF Added, Deleting
  <2>3. Held = {KeyOf(o) : o \in 0..(Count - 1)}
    BY <2>2 DEF AppInv, Inv, PointsFiled
  <2>4. PICK o \in 0..(Count - 1) : current' = KeyOf(o)
    BY <2>1, <2>3 DEF Ahead
  <2>5. KeyOf(o) # EndOfRecords
    BY KeyInRegion DEF IndexKeys, EndOfRecords
  <2> QED
    BY <1>3, <2>1, <2>4, <2>5
<1> QED
  BY <1>3, <1>4

\* The key of a record within the z-value has been found.
LEMMA SeesOneMore ==
    ASSUME AppInv, reading, NEW o \in 0..(Count - 1), In(o, k), KeyOf(o) \in Ahead,
           \A other \in Ahead : KeyOf(o) <= other,
           state' = "IN_USE", startAt' = KeyOf(o), UNCHANGED <<k, reading, zs, points>>
    PROVE  /\ ~Seen(o)
           /\ \A p \in 0..(Count - 1) : Seen(p)' <=> Seen(p) \/ p = o
<1>1. /\ stage = "query" /\ pc = "done" /\ k \in DOMAIN zs /\ queryBox \in Queries
      /\ box = GridBox(queryBox)
  BY DEF AppInv, Inv, CursorAt, CallFor, Searching
<1>2. Covers(queryBox)
  BY <1>1 DEF AppInv, Returned
<1>3. ~Seen(o)
  <2>1. ~(state = "IN_USE" /\ KeyOf(o) <= startAt)
    BY AheadInRegion
  <2>2. ASSUME NEW j \in DOMAIN zs, j < k, In(o, j)
        PROVE  FALSE
    <3>1. j # k
      <4>1. zs \in Seq(Words!Region)
        BY DEF AppInv, Returned
      <4> QED
        BY <1>1, <2>2, <4>1
    <3>2. Words!Cells(zs[j]) \cap Words!Cells(zs[k]) = {}
      BY <1>1, <1>2, <3>1 DEF Covers
    <3> QED
      BY <2>2, <3>2 DEF In
  <2> QED
    BY <2>1, <2>2 DEF Seen
<1>4. \A p, j : In(p, j)' <=> In(p, j)
  BY DEF In
<1>5. \A p : KeyOf(p)' = KeyOf(p)
  BY SamePoints
<1>6. ASSUME NEW p \in 0..(Count - 1), In(p, k)
      PROVE  KeyOf(p) <= KeyOf(o) <=> (state = "IN_USE" /\ KeyOf(p) <= startAt) \/ p = o
  <2>1. KeyOf(p) \in Int /\ KeyOf(o) \in Int /\ SoidOf(KeyOf(p)) = p /\ SoidOf(KeyOf(o)) = o
    BY KeyInRegion DEF IndexKeys
  <2>2. CASE KeyOf(p) \in Ahead
    <3>1. KeyOf(o) <= KeyOf(p) /\ ~(state = "IN_USE" /\ KeyOf(p) <= startAt)
      BY <1>6, <2>2, AheadInRegion
    <3> QED
      BY <2>1, <3>1
  <2>3. CASE KeyOf(p) \notin Ahead
    <3>1. state = "IN_USE" /\ KeyOf(p) <= startAt
      BY <1>6, <2>3, AheadInRegion
    <3>2. startAt \in Int
      BY <3>1, HeldFacts DEF AppInv, Inv, CursorAt, IndexKeys
    <3>3. startAt < KeyOf(o)
      BY <3>1, <3>2 DEF Ahead
    <3> QED
      BY <2>1, <3>1, <3>2, <3>3
  <2> QED
    BY <2>2, <2>3
<1>7. ASSUME NEW p \in 0..(Count - 1)
      PROVE  Seen(p)' <=> Seen(p) \/ p = o
  <2>1. Seen(p)' <=> \/ \E j \in DOMAIN zs : j < k /\ In(p, j)
                     \/ In(p, k) /\ KeyOf(p) <= KeyOf(o)
    BY <1>4, <1>5 DEF Seen
  <2> QED
    BY <1>6, <2>1 DEF Seen
<1> QED
  BY <1>3, <1>7

\* No record of the z-value is ahead of the cursor.
LEMMA SeesAll ==
    ASSUME AppInv, reading, NEW o \in 0..(Count - 1), In(o, k) => KeyOf(o) \notin Ahead,
           k' = k + 1, reading' = FALSE, UNCHANGED <<zs, points>>
    PROVE  Seen(o)' <=> Seen(o)
<1>1. k \in DOMAIN zs /\ zs \in Seq(Words!Region)
  BY DEF AppInv, Returned, Inv, CursorAt
<1>2. \A j : In(o, j)' <=> In(o, j)
  BY DEF In
<1>3. Seen(o)' <=> \E j \in DOMAIN zs : j < k + 1 /\ In(o, j)
  BY <1>2 DEF Seen
<1>4. (\E j \in DOMAIN zs : j < k + 1 /\ In(o, j))
          <=> (\E j \in DOMAIN zs : j < k /\ In(o, j)) \/ In(o, k)
  BY <1>1
<1>5. In(o, k) => state = "IN_USE" /\ KeyOf(o) <= startAt
  BY AheadInRegion
<1> QED
  BY <1>3, <1>4, <1>5 DEF Seen

LEMMA ReadRecordStep ==
    ASSUME AppInv, ReadRecord
    PROVE  AppInv'
<1> DEFINE found == current' # EndOfRecords /\ ZOf(current') < ZHi(zs[k])
           passed == Overlap(queryBox, points[SoidOf(current')])
           one == [id |-> SoidOf(current'), ref |-> refs[current']]
<1>1. /\ stage = "query" /\ reading /\ Index!Retrieve(TRUE)
      /\ IF found
         THEN /\ output' = IF passed THEN Append(output, one) ELSE output
              /\ UNCHANGED <<k, reading>>
         ELSE k' = k + 1 /\ reading' = FALSE /\ UNCHANGED output
      /\ UNCHANGED <<spaceVars, program, stage, types, objectVars, queryBox, q>>
  BY DEF ReadRecord
<1> HIDE DEF found, passed, one
<1>2. /\ IndexInv' /\ UNCHANGED <<records, frozen>> /\ ~stale' /\ Held' = Held
      /\ Returned' /\ UNCHANGED <<zs, pc, points>>
  BY <1>1, RecordRead, SpaceKept DEF AppInv, Held, spaceVars, objectVars
<1>3. /\ k \in DOMAIN zs /\ pc = "done" /\ zs \in Seq(Words!Region)
      /\ MinKey(Z(zs[k])) \in Int
  <2>1. k \in DOMAIN zs /\ pc = "done" /\ zs \in Seq(Words!Region)
    BY <1>1 DEF AppInv, Returned, Inv, CursorAt
  <2>2. zs[k] \in Words!Region
    BY <2>1
  <2> QED
    BY <2>1, <2>2, RegionWords, KeysFit DEF IndexKeys
<1>4. CASE found
  <2>1. PICK o \in 0..(Count - 1) :
            /\ current' = KeyOf(o) /\ KeyOf(o) \in Ahead
            /\ \A other \in Ahead : KeyOf(o) <= other
            /\ state' = "IN_USE" /\ startAt' = KeyOf(o)
    BY <1>1, <1>4, RecordRead DEF found
  <2>2. /\ KeyOf(o) \in Held /\ KeyOf(o) \in Int /\ SoidOf(KeyOf(o)) = o /\ o \in DOMAIN points
        /\ In(o, k) <=> MinKey(Z(zs[k])) <= KeyOf(o) /\ ZOf(KeyOf(o)) < ZHi(zs[k])
    BY <1>1, KeyInRegion DEF IndexKeys
  <2>3. MinKey(Z(zs[k])) <= startAt /\ startAt \in Int
    <3>1. \/ startAt = MinKey(Z(zs[k]))
          \/ startAt \in Held /\ MinKey(Z(zs[k])) <= startAt
      BY <1>1 DEF AppInv, Inv, CursorAt
    <3> QED
      BY <1>3, <3>1, HeldFacts DEF IndexKeys, AppInv
  <2>4. MinKey(Z(zs[k])) <= KeyOf(o)
    <3>1. startAt <= KeyOf(o)
      BY <2>1, <2>2, <2>3 DEF Ahead
    <3> QED
      BY <1>3, <2>2, <2>3, <3>1
  <2>5. In(o, k)
    BY <1>4, <2>1, <2>2, <2>4 DEF found
  <2>6. ~Seen(o) /\ \A p \in 0..(Count - 1) : Seen(p)' <=> Seen(p) \/ p = o
    BY <1>1, <1>2, <1>4, <2>1, <2>5, SeesOneMore
  <2>7. UNCHANGED <<Count, k, reading, stage, queryBox, points>>
    BY <1>1, <1>2, <1>4, SameProgram
  <2>8. \A p \in 0..(Count - 1) : Passed(p)' <=> Passed(p) \/ p = o
    BY <1>1, <2>6, <2>7 DEF Passed
  <2>9. CursorAt'
    <3>1. MinKey(Z(zs[k]))' = MinKey(Z(zs[k]))
      BY <1>2, <2>7
    <3> QED
      BY <1>1, <1>2, <1>3, <2>1, <2>2, <2>4, <2>7, <3>1 DEF CursorAt
  <2>10. one \in [id : Ids, ref : Reference] /\ one.id = o
    <3>1. o \in Ids
      BY <2>2, PointKeys DEF AppInv, Inv
    <3>2. refs[KeyOf(o)] \in Reference
      BY <2>2 DEF AppInv, Inv, PointsFiled
    <3> QED
      BY <2>1, <2>2, <3>1, <3>2 DEF one
  <2>11. /\ output \in Seq([id : Ids, ref : Reference])
         /\ {output[m].id : m \in DOMAIN output} =
              {p \in 0..(Count - 1) : Overlap(queryBox, points[p]) /\ Passed(p)}
         /\ \A m, n \in DOMAIN output : output[m].id = output[n].id => m = n
    BY <1>1 DEF AppInv, Inv, OutputSoFar, Searching
  <2>12. passed <=> Overlap(queryBox, points[o])
    BY <2>1, <2>2 DEF passed
  <2>13. OutputSoFar'
    <3>1. CASE passed
      <4>1. output' = Append(output, one)
        BY <1>1, <1>4, <3>1
      <4>2. output' \in Seq([id : Ids, ref : Reference])
        BY <2>10, <2>11, <4>1
      <4>3. /\ DOMAIN output' = DOMAIN output \cup {Len(output) + 1}
            /\ output'[Len(output) + 1] = one
            /\ \A m \in DOMAIN output : output'[m] = output[m]
            /\ Len(output) + 1 \notin DOMAIN output
        BY <2>10, <2>11, <4>1
      <4>4. {output'[m].id : m \in DOMAIN output'} = {output[m].id : m \in DOMAIN output} \cup {o}
        BY <2>10, <4>3
      <4>5. {p \in 0..(Count - 1) : Overlap(queryBox, points[p]) /\ Passed(p)'} =
                {output[m].id : m \in DOMAIN output} \cup {o}
        BY <2>8, <2>11, <2>12, <3>1, Zenon
      <4>6. o \notin {output[m].id : m \in DOMAIN output}
        BY <1>1, <2>6, <2>11 DEF Passed
      <4>7. \A m, n \in DOMAIN output' : output'[m].id = output'[n].id => m = n
        BY <2>10, <2>11, <4>3, <4>6
      <4> QED
        BY <1>1, <2>7, <4>2, <4>4, <4>5, <4>7, Zenon DEF OutputSoFar, Searching
    <3>2. CASE ~passed
      <4>1. output' = output
        BY <1>1, <1>4, <3>2
      <4>2. {p \in 0..(Count - 1) : Overlap(queryBox, points[p]) /\ Passed(p)'} =
                {output[m].id : m \in DOMAIN output}
        BY <2>8, <2>11, <2>12, <3>2
      <4> QED
        BY <1>1, <2>7, <2>11, <4>1, <4>2 DEF OutputSoFar, Searching
    <3> QED
      BY <3>1, <3>2
  <2>14. k' \in Nat \ {0}
    BY <2>7 DEF AppInv, Inv, CallFor
  <2> QED
    BY <1>1, <1>2, <1>3, <2>9, <2>13, <2>14, QueryGoesOn
<1>5. CASE ~found
  <2>1. k' = k + 1 /\ reading' = FALSE /\ UNCHANGED output
    BY <1>1, <1>5
  <2>2. ASSUME NEW o \in 0..(Count - 1), In(o, k), KeyOf(o) \in Ahead
        PROVE  FALSE
    <3>1. PICK p \in 0..(Count - 1) :
              current' = KeyOf(p) /\ KeyOf(p) <= KeyOf(o) /\ current' # EndOfRecords
      BY <1>1, <2>2, RecordRead
    <3>2. ~(ZOf(KeyOf(p)) < ZHi(zs[k]))
      BY <1>5, <3>1 DEF found
    <3>3. ZOf(KeyOf(o)) < ZHi(zs[k])
      BY <1>1, <2>2, KeyInRegion
    <3> DEFINE y == ZOf(KeyOf(p))
               z == ZOf(KeyOf(o))
               h == ZHi(zs[k])
    <3>4. y \in Nat /\ z \in Nat /\ y <= z /\ h \in Nat
      <4> DEFINE y0 == Z(CellOf(points[p]))
                 z0 == Z(CellOf(points[o]))
      <4>1. /\ y0 \in Nat /\ z0 \in Nat /\ p \in Ids /\ o \in Ids
            /\ y = y0 /\ z = z0
        BY <1>1, KeyInRegion, PointKeys DEF AppInv, Inv
      <4>2. KeyOf(p) = Key(y0, p) /\ KeyOf(o) = Key(z0, o)
        BY DEF KeyOf
      <4> HIDE DEF y0, z0, y, z
      <4>3. Key(y0, p) <= Key(z0, o) => y0 <= z0
        BY <4>1, KeysInOrder
      <4>4. zs[k] \in Words!Region
        BY <1>3
      <4> QED
        BY <3>1, <4>1, <4>2, <4>3, <4>4, RegionWords
    <3> HIDE DEF y, z, h
    <3>5. ~(y < h) /\ z < h
      BY <3>2, <3>3 DEF y, z, h
    <3> QED
      BY <3>4, <3>5
  <2>3. \A o \in 0..(Count - 1) : Seen(o)' <=> Seen(o)
    BY <1>1, <1>2, <2>1, <2>2, SeesAll, Zenon
  <2>4. OutputSoFar'
    BY <1>1, <1>2, <2>1, <2>3, SameOutput
  <2>5. CursorAt'
    BY <1>1, <1>2, <1>3, <2>1, Zenon DEF CursorAt
  <2>6. k' \in Nat \ {0}
    BY <2>1 DEF AppInv, Inv, CallFor
  <2> QED
    BY <1>1, <1>2, <1>3, <2>4, <2>5, <2>6, QueryGoesOn
<1> QED
  BY <1>4, <1>5

LEMMA EndQueryStep ==
    ASSUME AppInv, EndQuery
    PROVE  AppInv'
<1>1. /\ stage = "query" /\ pc = "done" /\ k > Len(zs) /\ stage' = "answered"
      /\ IF program = "testRetrieval" THEN UNCHANGED indexVars ELSE Index!Delete
      /\ UNCHANGED <<spaceVars, program, types, objectVars, searchVars>>
  BY DEF EndQuery
<1>2. /\ IndexInv' /\ Held' = Held /\ frozen' = frozen /\ ~stale'
      /\ program # "testRetrieval" => state' = "none"
  <2>1. CASE program = "testRetrieval"
    <3>1. IndexInv' /\ Held' = Held
      BY <1>1, <2>1, IndexKept DEF AppInv
    <3> QED
      BY <1>1, <2>1, <3>1 DEF indexVars, AppInv, Inv, IndexReady
  <2>2. CASE program # "testRetrieval"
    BY <1>1, <2>2, CursorMoves DEF AppInv, Held
  <2> QED
    BY <2>1, <2>2
<1>3. Returned'
  BY <1>1, SpaceKept DEF AppInv
<1>4. UNCHANGED <<Count, manager>> /\ \A n : Placed(n)' = Placed(n)
  BY <1>1, SameProgram
<1>5. /\ UNCHANGED <<id, points, alive, refs, copies, queryBox, k, reading, output, q>>
      /\ \A o : KeyOf(o)' = KeyOf(o)
  BY <1>1, SamePoints DEF objectVars, searchVars
<1>6. Made' = Made /\ Added' = Added
  BY <1>1, <1>4, <1>5 DEF Made, Added
<1>7. zs \in Seq(Words!Region) /\ reading = FALSE
  <2>1. zs \in Seq(Words!Region) /\ (reading => k \in DOMAIN zs) /\ reading \in BOOLEAN
    BY DEF AppInv, Returned, Inv, CursorAt
  <2>2. k \notin DOMAIN zs
    BY <1>1, <2>1
  <2> QED
    BY <2>1, <2>2
<1>8. MainState' /\ PointsMade'
  BY <1>1, <1>4, <1>5, <1>6 DEF AppInv, Inv, MainState, PointsMade, Searching
<1>9. PointsFiled'
  BY <1>1, <1>2, <1>4, <1>5, <1>6 DEF AppInv, Inv, PointsFiled, Deleting
<1>10. IndexReady'
  BY <1>1, <1>2, Zenon DEF AppInv, Inv, IndexReady, Searching
<1>11. CallFor' /\ CursorAt'
  BY <1>1, <1>5, <1>7, Zenon DEF AppInv, Inv, CallFor, CursorAt, Searching
<1>12. OutputSoFar'
  <2>1. queryBox \in Queries /\ box = GridBox(queryBox)
    BY <1>1 DEF AppInv, Inv, CallFor, Searching
  <2>2. Covers(queryBox)
    BY <1>1, <2>1 DEF AppInv, Returned
  <2>3. ASSUME NEW o \in 0..(Count - 1), Overlap(queryBox, points[o])
        PROVE  Passed(o)
    <3>1. points[o] \in Places
      <4>1. Made = Count
        BY <1>1 DEF Made
      <4>2. o \in DOMAIN points
        BY <4>1 DEF AppInv, Inv, PointsMade
      <4> QED
        BY <4>2, PointKeys DEF AppInv, Inv
    <3> DEFINE p == points[o]
    <3>2. p \in Places /\ Overlap(queryBox, p)
      BY <2>3, <3>1
    <3> HIDE DEF p
    <3>3. PICK j \in DOMAIN zs : CellOf(p) \in Words!Cells(zs[j])
      BY <2>2, <3>2 DEF Covers
    <3>4. k \in Nat
      BY DEF AppInv, Inv, CallFor
    <3>5. j < k
      BY <1>1, <1>7, <3>3, <3>4
    <3> QED
      BY <3>3, <3>5 DEF Passed, Seen, In, p
  <2>4. \A o : Passed(o)'
    BY <1>1 DEF Passed
  <2>5. {o \in 0..(Count - 1) : Overlap(queryBox, points[o]) /\ Passed(o)'} =
            {o \in 0..(Count - 1) : Overlap(queryBox, points[o]) /\ Passed(o)}
    BY <2>3, <2>4
  <2> QED
    BY <1>1, <1>4, <1>5, <2>5 DEF AppInv, Inv, OutputSoFar, Searching
<1> QED
  BY <1>2, <1>3, <1>8, <1>9, <1>10, <1>11, <1>12 DEF AppInv, Inv

LEMMA ClearOutputStep ==
    ASSUME AppInv, ClearOutput
    PROVE  AppInv'
<1>1. /\ stage = "answered" /\ stage' = "queries" /\ output' = << >> /\ k' = 1 /\ q' = q + 1
      /\ IF program = "testRetrieval" THEN Index!Delete ELSE UNCHANGED indexVars
      /\ UNCHANGED <<spaceVars, program, types, objectVars, reading>>
  BY DEF ClearOutput
<1>2. IndexInv' /\ Held' = Held /\ frozen' = frozen /\ ~stale' /\ state' = "none"
  <2>1. CASE program # "testRetrieval"
    <3>1. IndexInv' /\ Held' = Held
      BY <1>1, <2>1, IndexKept DEF AppInv
    <3> QED
      BY <1>1, <2>1, <3>1 DEF indexVars, AppInv, Inv, IndexReady
  <2>2. CASE program = "testRetrieval"
    BY <1>1, <2>2, CursorMoves DEF AppInv, Held
  <2> QED
    BY <2>1, <2>2
<1>3. Returned'
  BY <1>1, SpaceKept DEF AppInv
<1>4. UNCHANGED <<Count, manager>> /\ \A n : Placed(n)' = Placed(n)
  BY <1>1, SameProgram
<1>5. UNCHANGED <<id, points, alive, refs, copies>> /\ \A o : KeyOf(o)' = KeyOf(o)
  BY <1>1, SamePoints DEF objectVars
<1>6. Made' = Made /\ Added' = Added
  BY <1>1, <1>4, <1>5 DEF Made, Added
<1>7. reading = FALSE
  BY <1>1, Zenon DEF AppInv, Inv, CursorAt
<1>8. q' \in 0..NQueries
  BY <1>1, ProgramsAssumption DEF AppInv, Inv, MainState, Searching
<1>9. MainState' /\ PointsMade'
  BY <1>1, <1>4, <1>5, <1>6, <1>8, Zenon DEF AppInv, Inv, MainState, PointsMade, Searching
<1>10. PointsFiled'
  BY <1>1, <1>2, <1>4, <1>5, <1>6 DEF AppInv, Inv, PointsFiled, Deleting
<1>11. IndexReady' /\ CursorAt'
  BY <1>1, <1>2, <1>7, Zenon DEF AppInv, Inv, IndexReady, CursorAt, Searching
<1>12. CallFor' /\ OutputSoFar'
  BY <1>1, NoOutput DEF CallFor, Searching
<1> QED
  BY <1>2, <1>3, <1>9, <1>10, <1>11, <1>12 DEF AppInv, Inv

LEMMA DeleteIndexStep ==
    ASSUME AppInv, DeleteIndex
    PROVE  AppInv'
<1>1. /\ stage = "queries" /\ stage' = "deletePoints" /\ Index!Renew
      /\ refs' = << >> /\ id' = 0
      /\ UNCHANGED <<spaceVars, program, types, points, alive, copies, searchVars>>
  BY DEF DeleteIndex
<1>2. IndexInv' /\ Held' = {} /\ ~stale' /\ state' = "none"
  BY <1>1, CursorMoves DEF AppInv, Inv, IndexReady
<1>3. Returned'
  BY <1>1, SpaceKept DEF AppInv
<1>4. UNCHANGED <<Count, manager>> /\ \A n : Placed(n)' = Placed(n)
  BY <1>1, SameProgram
<1>5. UNCHANGED <<queryBox, k, reading, output, q>>
  BY <1>1 DEF searchVars
<1>6. Made = Count /\ Made' = Count /\ Count \in Nat
  BY <1>1, <1>4, MadeBound DEF Made, AppInv, Inv
<1>7. output = << >> /\ reading = FALSE /\ k = 1
  BY <1>1, Zenon DEF AppInv, Inv, OutputSoFar, CursorAt, CallFor, Searching
<1>8. MainState' /\ PointsMade'
  BY <1>1, <1>4, <1>5, <1>6 DEF AppInv, Inv, MainState, PointsMade, Searching
<1>9. PointsFiled'
  <2>1. DOMAIN refs' = {}
    BY <1>1
  <2> QED
    BY <1>1, <1>2, <2>1 DEF AppInv, Inv, PointsFiled, Deleting
<1>10. IndexReady' /\ CursorAt'
  BY <1>1, <1>2, <1>5, <1>7, Zenon DEF IndexReady, CursorAt, Searching
<1>11. CallFor' /\ OutputSoFar'
  BY <1>1, <1>5, <1>7, NoOutput DEF CallFor, Searching
<1> QED
  BY <1>2, <1>3, <1>8, <1>9, <1>10, <1>11 DEF AppInv, Inv

\* The last steps of main, and steps that change nothing.
LEMMA LastSteps ==
    ASSUME AppInv, DeletePoint \/ End \/ UNCHANGED vars
    PROVE  AppInv'
<1>1. /\ UNCHANGED <<spaceVars, indexVars, program, types, points, refs, copies, searchVars>>
      /\ alive' \subseteq alive
  BY DEF DeletePoint, End, vars, objectVars
<1>2. \/ stage \in Deleting /\ stage' \in Deleting /\ id' \in 0..Count
      \/ UNCHANGED <<stage, id, alive>>
  BY MadeBound DEF DeletePoint, End, vars, objectVars, Deleting, AppInv, Inv
<1>3. Returned' /\ IndexInv' /\ Held' = Held
  BY <1>1, SpaceKept, IndexKept DEF AppInv
<1>4. UNCHANGED <<Count, manager>> /\ \A n : Placed(n)' = Placed(n)
  BY <1>1, SameProgram
<1>5. /\ UNCHANGED <<queryBox, k, reading, output, q, pc, box, zs>>
      /\ UNCHANGED <<frozen, state, startAt, stale>>
      /\ \A o : KeyOf(o)' = KeyOf(o)
  BY <1>1, SamePoints DEF searchVars, spaceVars, indexVars
<1>6. CASE stage \in Deleting /\ stage' \in Deleting /\ id' \in 0..Count
  <2>1. Made' = Count /\ Made = Count
    BY <1>4, <1>6 DEF Made, Deleting
  <2>2. MainState' /\ PointsMade'
    BY <1>1, <1>4, <1>5, <1>6, <2>1
       DEF AppInv, Inv, MainState, PointsMade, Searching, Deleting
  <2>3. PointsFiled'
    BY <1>1, <1>3, <1>4, <1>6 DEF AppInv, Inv, PointsFiled
  <2>4. output = << >> /\ reading = FALSE /\ k = 1 /\ state = "none" /\ ~stale
    BY <1>6, Zenon
       DEF AppInv, Inv, OutputSoFar, CursorAt, CallFor, IndexReady, Searching, Deleting
  <2>5. IndexReady' /\ CursorAt'
    BY <1>5, <1>6, <2>4, Zenon DEF IndexReady, CursorAt, Searching, Deleting
  <2>6. CallFor' /\ OutputSoFar'
    BY <1>5, <1>6, <2>4, NoOutput DEF CallFor, Searching, Deleting
  <2> QED
    BY <1>3, <2>2, <2>3, <2>5, <2>6 DEF AppInv, Inv
<1>7. CASE UNCHANGED <<stage, id, alive>>
  <2>1. Made' = Made /\ Added' = Added
    BY <1>4, <1>5, <1>7 DEF Made, Added
  <2>2. MainState' /\ PointsMade' /\ IndexReady'
    BY <1>1, <1>4, <1>5, <1>7, <2>1
       DEF AppInv, Inv, MainState, PointsMade, IndexReady, Searching
  <2>3. PointsFiled'
    BY <1>1, <1>3, <1>4, <1>5, <1>7, <2>1 DEF AppInv, Inv, PointsFiled, Deleting
  <2>4. CallFor' /\ CursorAt'
    BY <1>1, <1>3, <1>5, <1>7 DEF AppInv, Inv, CallFor, CursorAt, Searching
  <2>5. OutputSoFar'
    <3>1. \A o : Passed(o)' <=> Passed(o)
      BY <1>1, <1>5, <1>7 DEF Passed, Seen, In
    <3> QED
      BY <1>1, <1>4, <1>5, <1>7, <3>1 DEF AppInv, Inv, OutputSoFar, Searching
  <2> QED
    BY <1>3, <2>2, <2>3, <2>4, <2>5 DEF AppInv, Inv
<1> QED
  BY <1>2, <1>6, <1>7

LEMMA AppKept == AppInv /\ [Next]_vars /\ (DecomposeStep => Returned') => AppInv'
<1> SUFFICES ASSUME AppInv, [Next]_vars, DecomposeStep => Returned'
             PROVE  AppInv'
  OBVIOUS
<1>1. CASE Setup \/ NewPoint \/ DecomposeStep \/ AddRecord \/ NextPoint \/ FreezeIndex
  BY <1>1, SetupStep, NewPointStep, DecomposeStepStep, AddRecordStep, NextPointStep,
     FreezeIndexStep
<1>2. CASE FindOverlapping \/ OpenCursor \/ GoToZ \/ ReadRecord \/ EndQuery \/ ClearOutput
  BY <1>2, FindOverlappingStep, OpenCursorStep, GoToZStep, ReadRecordStep, EndQueryStep,
     ClearOutputStep
<1>3. CASE DeleteIndex \/ DeletePoint \/ End \/ UNCHANGED vars
  BY <1>3, DeleteIndexStep, LastSteps
<1> QED
  BY <1>1, <1>2, <1>3 DEF Next

LEMMA AppTyped ==
    ASSUME AppInv
    PROVE  TypeOK
<1>1. MainState /\ PointsMade /\ PointsFiled /\ CursorAt
  BY DEF AppInv, Inv
<1>2. types \in [0..(Cardinality(DOMAIN types) - 1) -> BOOLEAN]
  <2>1. PICK size \in Nat : types \in [0..(size - 1) -> BOOLEAN]
    BY <1>1 DEF MainState
  <2>2. DOMAIN types = 0..(size - 1)
    BY <2>1
  <2>3. Cardinality(0..(size - 1)) = size
    <3>1. Cardinality(0..(size - 1)) = IF 0 > size - 1 THEN 0 ELSE (size - 1) - 0 + 1
      BY FS_Interval
    <3> QED
      BY <3>1
  <2> QED
    BY <2>1, <2>2, <2>3, Zenon
<1>3. id \in 0..MaxPoints /\ copies \in 0..MaxPoints
  BY <1>1, Counts DEF MainState, PointsFiled
<1>4. DOMAIN points \subseteq 0..(Count - 1)
  BY <1>1, MadeBound DEF PointsMade
<1> QED
  BY <1>1, <1>2, <1>3, <1>4 DEF TypeOK, MainState, PointsMade, PointsFiled, CursorAt, Held

-----------------------------------------------------------------------------
\* The programs keep to the rules of ownership: every step is one that module
\* References lets a client or the index take.

Living == Ids \ (DOMAIN points \ alive)
Entries == {<<ZOf(key), SoidOf(key), refs[key]>> : key \in DOMAIN refs}
IsOpen == stage \notin Deleting
Delivered == {output[m].ref : m \in DOMAIN output}

LEMMA OwnersVars ==
    /\ Owners!vars = <<manager, Living, copies, deleted, Entries, IsOpen, Delivered, {}>>
    /\ Owners!vars' = <<manager', Living', copies', deleted', Entries', IsOpen', Delivered', {}>>
BY DEF Owners!vars, Living, Entries, IsOpen, Delivered, Deleting

LEMMA OwnersStutter ==
    ASSUME UNCHANGED <<program, copies, deleted, refs, output>>, Living' = Living,
           IsOpen' = IsOpen
    PROVE  UNCHANGED Owners!vars
<1>1. manager' = manager
  BY SameProgram
<1>2. Entries' = Entries /\ Delivered' = Delivered
  BY DEF Entries, Delivered
<1> QED
  BY <1>1, <1>2, OwnersVars

LEMMA OwnersKept ==
    ASSUME UNCHANGED <<program, copies, deleted, refs, output>>, UNCHANGED <<points, alive>>,
           IsOpen' = IsOpen
    PROVE  UNCHANGED Owners!vars
BY OwnersStutter DEF Living

LEMMA OwnersInit == Init => Owners!Init
<1> SUFFICES ASSUME Init
             PROVE  Owners!Init
  OBVIOUS
<1>1. /\ stage = "setup" /\ points = << >> /\ alive = {} /\ refs = << >>
      /\ copies = 0 /\ deleted = [n \in 1..MaxPoints |-> 0] /\ output = << >>
  BY DEF Init
<1>2. manager \in Owners!Managers
  BY DEF manager, Owners!Managers
<1>3. Living = Ids /\ Entries = {} /\ IsOpen /\ Delivered = {}
  BY <1>1 DEF Living, Entries, IsOpen, Delivered, Deleting
<1> QED
  BY <1>1, <1>2, <1>3 DEF Owners!Init, Living, Entries, IsOpen, Delivered, Deleting

\* The steps of main that ownership does not show.
LEMMA HiddenSteps ==
    ASSUME AppInv,
           \/ Setup \/ NewPoint \/ DecomposeStep \/ FreezeIndex
           \/ FindOverlapping \/ OpenCursor \/ GoToZ \/ EndQuery \/ End
           \/ UNCHANGED vars
    PROVE  UNCHANGED Owners!vars
<1>1. CASE NewPoint
  <2>1. /\ stage = "load" /\ stage' = "add" /\ alive' = alive \cup {id}
        /\ UNCHANGED <<program, refs, copies, deleted, output>>
        /\ DOMAIN points' = DOMAIN points \cup {id}
    BY <1>1 DEF NewPoint, searchVars
  <2>2. id \notin DOMAIN points
    <3>1. Made = id /\ id \in Nat
      BY <2>1, MadeBound DEF Made, AppInv, Inv
    <3> QED
      BY <3>1 DEF AppInv, Inv, PointsMade
  <2>3. Living' = Living
    BY <2>1, <2>2 DEF Living
  <2>4. IsOpen' = IsOpen
    BY <2>1 DEF IsOpen, Deleting
  <2> QED
    BY <2>1, <2>3, <2>4, OwnersStutter
<1>2. CASE Setup \/ DecomposeStep \/ FreezeIndex
  <2>1. /\ UNCHANGED <<program, copies, deleted, refs, output>> /\ UNCHANGED <<points, alive>>
        /\ stage \in {"setup", "load", "add", "query"}
        /\ stage' \in {"load", "queries", "add", "query"}
    BY <1>2 DEF Setup, DecomposeStep, FreezeIndex, objectVars, searchVars
  <2>2. IsOpen' = IsOpen
    BY <2>1 DEF IsOpen, Deleting
  <2> QED
    BY <2>1, <2>2, OwnersKept
<1>3. CASE FindOverlapping \/ OpenCursor \/ GoToZ \/ EndQuery
  <2>1. /\ UNCHANGED <<program, copies, deleted, refs, output>> /\ UNCHANGED <<points, alive>>
        /\ stage \in {"queries", "query"} /\ stage' \in {"query", "answered"}
    BY <1>3 DEF FindOverlapping, OpenCursor, GoToZ, EndQuery, objectVars, searchVars
  <2>2. IsOpen' = IsOpen
    BY <2>1 DEF IsOpen, Deleting
  <2> QED
    BY <2>1, <2>2, OwnersKept
<1>4. CASE End \/ UNCHANGED vars
  <2>1. UNCHANGED <<program, copies, deleted, refs, output>> /\ UNCHANGED <<points, alive>>
    BY <1>4 DEF End, vars, objectVars, searchVars
  <2>2. IsOpen' = IsOpen
    BY <1>4 DEF End, vars, IsOpen, Deleting
  <2> QED
    BY <2>1, <2>2, OwnersKept
<1> QED
  BY <1>1, <1>2, <1>3, <1>4

LEMMA AddRecordOwns ==
    ASSUME AppInv, AddRecord
    PROVE  \E o \in Ids : \E s \in PointZSets : Owners!Add(o, s)
<1> DEFINE c == CellOf(points[id])
           z == Z(c)
           ref == CASE manager = "buffering" -> <<"copy", copies + 1>>
                    [] manager = "inMemory" -> <<"object", id>>
                    [] manager = "inline" -> <<"inline", id>>
           key == Key(Z(zs[k]), id)
<1>1. /\ stage = "add" /\ pc = "done" /\ k <= Len(zs) /\ Index!Add(key)
      /\ refs' = [l \in DOMAIN refs \cup {key} |-> IF l = key THEN ref ELSE refs[l]]
      /\ copies' = IF manager = "buffering" THEN copies + 1 ELSE copies
      /\ UNCHANGED <<program, stage, points, alive, deleted, output>>
  BY DEF AddRecord
<1>2. /\ k = 1 /\ zs = <<c>> /\ id \in DOMAIN points /\ key = KeyOf(id) /\ KeyOf(id) \in IndexKeys
  BY <1>1, RecordOfPoint
<1>3. /\ c \in Words!Cell /\ id \in Ids /\ ZOf(KeyOf(id)) = z /\ SoidOf(KeyOf(id)) = id /\ z \in Nat
  BY <1>2, PointKeys DEF AppInv, Inv
<1>4. id \in Living /\ IsOpen /\ IsOpen'
  BY <1>1, <1>3 DEF Living, IsOpen, Deleting, AppInv, Inv, PointsMade
<1>5. Added = id /\ id \in Nat /\ id < Count /\ Count \in 0..MaxPoints /\ MaxPoints \in Nat
  BY <1>1, <1>2, MadeBound, Counts DEF Added, AppInv, Inv, MainState
<1>6. /\ DOMAIN refs = {KeyOf(o) : o \in 0..(id - 1)}
      /\ copies = IF manager = "buffering" THEN id ELSE 0
  BY <1>1, <1>5 DEF AppInv, Inv, PointsFiled, Deleting
<1>7. \A o \in 0..(id - 1) : SoidOf(KeyOf(o)) = o
  <2>1. DOMAIN points = 0..id
    BY <1>1, <1>5 DEF AppInv, Inv, PointsMade, Made
  <2> QED
    BY <1>5, <2>1, PointKeys DEF AppInv, Inv
<1>8. \A l \in DOMAIN refs : SoidOf(l) # id
  BY <1>5, <1>6, <1>7
<1>9. KeyOf(id) \notin DOMAIN refs
  BY <1>3, <1>8
<1>10. {z} \in PointZSets
  <2>1. Words!Cell = [1..Len(Interleaving) -> {0, 1}]
    BY DEF Words!Cell, Words!Bit
  <2> QED
    BY <1>3, <2>1 DEF PointZSets
<1> HIDE DEF c, z
<1>11. Owners!Cardinality({z}) = 1
  <2>1. Cardinality({z}) = 1
    BY FS_Singleton, Zenon
  <2> QED
    BY <2>1 DEF Cardinality, Owners!Cardinality
<1>12. Owners!CopyFor(z, {z}) = copies + 1
  <2>1. {y \in {z} : y <= z} = {z}
    BY <1>3
  <2> QED
    BY <1>11, <2>1 DEF Owners!CopyFor
<1>13. ref = Owners!NewReference(id, z, {z})
  BY <1>12 DEF Owners!NewReference, Owners!ToObject, Owners!ToCopy, Owners!Inline, manager
<1> HIDE DEF ref, key
<1>14. Entries' = Entries \cup {<<z, id, ref>>}
  <2>1. DOMAIN refs' = DOMAIN refs \cup {key} /\ refs'[key] = ref
        /\ \A l \in DOMAIN refs : refs'[l] = refs[l]
    BY <1>1, <1>2, <1>9
  <2>2. ZOf(key) = z /\ SoidOf(key) = id
    BY <1>2, <1>3
  <2>3. Entries' = {<<ZOf(l), SoidOf(l), refs'[l]>> : l \in DOMAIN refs'}
    BY DEF Entries
  <2>4. {<<ZOf(l), SoidOf(l), refs'[l]>> : l \in DOMAIN refs \cup {key}} =
            {<<ZOf(l), SoidOf(l), refs'[l]>> : l \in DOMAIN refs} \cup {<<ZOf(key), SoidOf(key), refs'[key]>>}
    OBVIOUS
  <2>5. {<<ZOf(l), SoidOf(l), refs'[l]>> : l \in DOMAIN refs} = Entries
    BY <2>1 DEF Entries
  <2> QED
    BY <2>1, <2>2, <2>3, <2>4, <2>5
<1>15. id \notin {r[2] : r \in Entries}
  BY <1>8 DEF Entries
<1>16. /\ Living' = Living /\ Delivered' = Delivered /\ manager' = manager
       /\ deleted' = deleted
  BY <1>1, SameProgram DEF Living, Delivered
<1>17. copies + 1 <= MaxPoints /\ copies \in Nat
  BY <1>5, <1>6
<1>18. {<<y, id, Owners!NewReference(id, y, {z})>> : y \in {z}} = {<<z, id, ref>>}
  BY <1>13
<1>19. ASSUME NEW o \in Ids, NEW s \in PointZSets, o = id, s = {z}
       PROVE  Owners!Add(o, s)
  <2>1. Owners!Indexed = {r[2] : r \in Entries}
    BY DEF Owners!Indexed, Entries
  <2>2. {<<y, o, Owners!NewReference(o, y, s)>> : y \in s} = {<<z, id, ref>>}
    BY <1>18, <1>19
  <2>3. /\ IsOpen /\ o \in Living /\ o \notin Owners!Indexed
        /\ copies + Owners!Cardinality(s) <= MaxPoints
        /\ Entries' = Entries \cup {<<y, o, Owners!NewReference(o, y, s)>> : y \in s}
        /\ copies' = IF manager = "buffering" THEN copies + Owners!Cardinality(s) ELSE copies
        /\ manager' = manager /\ Living' = Living /\ deleted' = deleted
        /\ IsOpen' = IsOpen /\ Delivered' = Delivered
    BY <1>1, <1>4, <1>11, <1>14, <1>15, <1>16, <1>17, <1>19, <2>1, <2>2, Zenon
  <2> QED
    BY <2>3 DEF Owners!Add, Entries, Living, IsOpen, Delivered, Deleting
<1>20. (\E o \in Ids : o = id) /\ \E s \in PointZSets : s = {z}
  BY <1>3, <1>10
<1> QED
  BY <1>19, <1>20, Zenon

LEMMA NextPointOwns ==
    ASSUME AppInv, NextPoint
    PROVE  (\E o \in Ids : Owners!DeleteObject(o)) \/ UNCHANGED Owners!vars
<1>1. /\ stage = "add" /\ stage' = "load"
      /\ alive' = IF manager = "inline" THEN alive \ {id} ELSE alive
      /\ UNCHANGED <<program, points, refs, copies, deleted, output>>
  BY DEF NextPoint
<1>2. IsOpen' = IsOpen
  BY <1>1 DEF IsOpen, Deleting
<1>3. CASE manager # "inline"
  BY <1>1, <1>2, <1>3, OwnersKept
<1>4. CASE manager = "inline"
  <2>1. id \in alive /\ id \in DOMAIN points /\ id \in Ids
    BY <1>1, PointKeys DEF AppInv, Inv, PointsMade
  <2>2. Living' = Living \ {id} /\ id \in Living
    BY <1>1, <1>4, <2>1 DEF Living
  <2>3. manager' = manager /\ Entries' = Entries /\ Delivered' = Delivered
    BY <1>1, SameProgram DEF Entries, Delivered
  <2>4. ASSUME NEW o \in Ids, o = id
        PROVE  Owners!DeleteObject(o)
    <3>1. /\ o \in Living /\ manager # "inMemory" /\ Living' = Living \ {o}
          /\ UNCHANGED <<copies, deleted>>
      BY <1>1, <1>4, <2>2, <2>4
    <3> QED
      BY <1>2, <2>3, <3>1
         DEF Owners!DeleteObject, Living, Entries, Delivered, IsOpen, Deleting
  <2>5. \E o \in Ids : o = id
    BY <2>1
  <2> QED
    BY <2>4, <2>5, Zenon
<1> QED
  BY <1>3, <1>4

LEMMA ReadRecordOwns ==
    ASSUME AppInv, ReadRecord
    PROVE  Owners!Find \/ UNCHANGED Owners!vars
<1> DEFINE ref == refs[current']
           one == [id |-> SoidOf(current'), ref |-> ref]
           found == current' # EndOfRecords /\ ZOf(current') < ZHi(zs[k])
           passed == Overlap(queryBox, points[SoidOf(current')])
<1>1. /\ stage = "query" /\ reading /\ Index!Retrieve(TRUE)
      /\ IF found THEN output' = IF passed THEN Append(output, one) ELSE output
         ELSE UNCHANGED output
      /\ UNCHANGED <<program, stage, points, alive, refs, copies, deleted>>
  BY Zenon DEF ReadRecord, objectVars
<1> HIDE DEF passed
<1>2. IsOpen' = IsOpen /\ IsOpen
  BY <1>1 DEF IsOpen, Deleting
<1>3. CASE output' = output
  BY <1>1, <1>2, <1>3, OwnersKept
<1>4. CASE found /\ output' = Append(output, one)
  <2>1. current' \in DOMAIN refs
    <3>1. current' \in Held
      BY <1>1, <1>4, RecordRead DEF Ahead
    <3> QED
      BY <3>1 DEF AppInv, Inv, PointsFiled
  <2>2. ref \in {r[3] : r \in Entries}
    <3> DEFINE e == <<ZOf(current'), SoidOf(current'), ref>>
    <3>1. e \in Entries
      BY <2>1 DEF Entries
    <3>2. e[3] = ref
      OBVIOUS
    <3> HIDE DEF e, ref
    <3> QED
      BY <3>1, <3>2
  <2>3. Delivered' = Delivered \cup {ref}
    <3>1. output \in Seq([id : Ids, ref : Reference])
      BY DEF AppInv, Inv, OutputSoFar
    <3>2. one.ref = ref
      OBVIOUS
    <3> HIDE DEF one, ref
    <3>3. /\ DOMAIN output' = DOMAIN output \cup {Len(output) + 1}
          /\ output'[Len(output) + 1] = one
          /\ \A m \in DOMAIN output : output'[m] = output[m]
      <4>1. DOMAIN output = 1..Len(output) /\ Len(output) \in Nat
        BY <3>1
      <4>2. DOMAIN output' = 1..(Len(output) + 1) /\ output'[Len(output) + 1] = one
            /\ \A m \in 1..Len(output) : output'[m] = output[m]
        BY <1>4, <3>1
      <4> QED
        BY <4>1, <4>2
    <3>4. Delivered' = {output'[m].ref : m \in DOMAIN output'}
      BY DEF Delivered
    <3> QED
      BY <3>2, <3>3, <3>4 DEF Delivered
  <2>4. manager' = manager /\ Entries' = Entries /\ Living' = Living
    BY <1>1, SameProgram DEF Entries, Living
  <2>5. Owners!Held = {r[3] : r \in Entries}
    BY DEF Owners!Held, Entries
  <2> HIDE DEF ref
  <2>6. Owners!Find
    BY <1>1, <1>2, <2>2, <2>3, <2>4, <2>5, Zenon
       DEF Owners!Find, Living, Entries, Delivered, IsOpen, Deleting
  <2> QED
    BY <2>6
<1> QED
  BY <1>1, <1>3, <1>4

LEMMA ClearOutputOwns ==
    ASSUME AppInv, ClearOutput
    PROVE  Owners!ClearOutput
<1>1. /\ stage = "answered" /\ stage' = "queries" /\ output' = << >>
      /\ UNCHANGED <<program, points, alive, refs, copies, deleted>>
  BY DEF ClearOutput, objectVars
<1>2. Delivered' = {} /\ IsOpen' = IsOpen
  BY <1>1 DEF Delivered, IsOpen, Deleting
<1>3. manager' = manager /\ Entries' = Entries /\ Living' = Living
  BY <1>1, SameProgram DEF Entries, Living
<1> QED
  BY <1>1, <1>2, <1>3 DEF Owners!ClearOutput, Living, Entries, Delivered, IsOpen, Deleting

\* The index's destructor cleans up as many references to a copy as there are
\* records with it: no two records have the same z-value and object.
LEMMA SameNumber ==
    ASSUME AppInv, stage = "queries", NEW y
    PROVE  Owners!Cardinality({r \in Entries : r[3] = y})
               = Cardinality({key \in DOMAIN refs : refs[key] = y})
<1> DEFINE A == {key \in DOMAIN refs : refs[key] = y}
           B == {r \in Entries : r[3] = y}
           f == [key \in A |-> <<ZOf(key), SoidOf(key), refs[key]>>]
<1>1. /\ DOMAIN refs = {KeyOf(o) : o \in 0..(Count - 1)} /\ Count \in Nat
      /\ \A o \in 0..(Count - 1) : SoidOf(KeyOf(o)) = o
  <2>1. Added = Count /\ Made = Count /\ Count \in Nat
    BY MadeBound DEF Added, Made, AppInv, Inv, MainState, Searching
  <2>2. DOMAIN points = 0..(Count - 1)
    BY <2>1 DEF AppInv, Inv, PointsMade
  <2> QED
    BY <2>1, <2>2, PointKeys DEF AppInv, Inv, PointsFiled, Deleting
<1>2. IsFiniteSet(A)
  <2> DEFINE S == DOMAIN refs
             I == 0..(Count - 1)
             g == [o \in I |-> KeyOf(o)]
  <2>1. IsFiniteSet(I)
    BY <1>1, FS_Interval
  <2>2. g \in Surjection(I, S)
    BY <1>1 DEF Surjection
  <2> HIDE DEF I, g, S
  <2>3. IsFiniteSet(S)
    BY <2>1, <2>2, FS_Surjection
  <2>4. A \in SUBSET S
    BY DEF S
  <2> HIDE DEF A
  <2> QED
    BY <2>3, <2>4, FS_Subset
<1>3. f \in Bijection(A, B)
  <2>1. \A key \in A : f[key] = <<ZOf(key), SoidOf(key), refs[key]>> /\ f[key] \in B
    BY DEF Entries
  <2>2. f \in [A -> B]
    BY <2>1
  <2>3. \A key, other \in A : f[key] = f[other] => key = other
    <3> SUFFICES ASSUME NEW key \in A, NEW other \in A, f[key] = f[other]
                 PROVE  key = other
      OBVIOUS
    <3>1. SoidOf(key) = SoidOf(other)
      BY <2>1
    <3>2. PICK o \in 0..(Count - 1) : key = KeyOf(o)
      BY <1>1
    <3>3. PICK p \in 0..(Count - 1) : other = KeyOf(p)
      BY <1>1
    <3> QED
      BY <1>1, <3>1, <3>2, <3>3
  <2>4. \A r \in B : \E key \in A : f[key] = r
    BY <2>1 DEF Entries
  <2>5. DOMAIN f = A
    OBVIOUS
  <2> HIDE DEF f, A, B
  <2> QED
    BY <2>2, <2>3, <2>4, <2>5 DEF Bijection, Injection, Surjection, IsInjective
<1> HIDE DEF f, A, B
<1>4. Cardinality(B) = Cardinality(A)
  BY <1>2, <1>3, FS_Bijection DEF ExistsBijection
<1>5. Owners!Cardinality(B) = Cardinality(B)
  BY DEF Cardinality, Owners!Cardinality
<1> QED
  BY <1>4, <1>5 DEF A, B

LEMMA DeleteIndexOwns ==
    ASSUME AppInv, DeleteIndex
    PROVE  Owners!Destroy
<1>1. /\ stage = "queries" /\ stage' = "deletePoints" /\ refs' = << >>
      /\ deleted' = [n \in 1..MaxPoints |->
            deleted[n] + Cardinality({key \in DOMAIN refs : refs[key] = <<"copy", n>>})]
      /\ UNCHANGED <<program, points, alive, copies, output>>
  BY DEF DeleteIndex, searchVars
<1>2. IsOpen /\ ~IsOpen'
  BY <1>1 DEF IsOpen, Deleting
<1>3. manager' = manager /\ Living' = Living /\ Delivered' = Delivered
  BY <1>1, SameProgram DEF Living, Delivered
<1>4. Entries' = {}
  <2>1. DOMAIN refs' = {}
    BY <1>1
  <2> QED
    BY <2>1 DEF Entries
<1>5. deleted' = [n \in 1..MaxPoints |->
          deleted[n] + Owners!Cardinality({r \in Entries : r[3] = <<"copy", n>>})]
  BY <1>1, SameNumber, Zenon
<1>6. Owners!Delete(Entries)
  BY <1>5 DEF Owners!Delete, Owners!ToCopy
<1> QED
  BY <1>1, <1>2, <1>3, <1>4, <1>6
     DEF Owners!Destroy, Living, Entries, Delivered, IsOpen, Deleting

LEMMA DeletePointOwns ==
    ASSUME AppInv, DeletePoint
    PROVE  (\E o \in Ids : Owners!DeleteObject(o)) \/ UNCHANGED Owners!vars
<1>1. /\ stage = "deletePoints" /\ UNCHANGED stage
      /\ alive' = IF manager = "inline" THEN alive ELSE alive \ {id}
      /\ UNCHANGED <<program, points, refs, copies, deleted, output>>
  BY DEF DeletePoint, searchVars
<1>2. IsOpen' = IsOpen
  BY <1>1 DEF IsOpen
<1>3. CASE alive' = alive
  BY <1>1, <1>2, <1>3, OwnersKept
<1>4. CASE id \in alive /\ alive' = alive \ {id}
  <2>1. id \in DOMAIN points /\ id \in Ids
    BY <1>4, PointKeys DEF AppInv, Inv, PointsMade
  <2>2. Living' = Living \ {id} /\ id \in Living
    BY <1>1, <1>4, <2>1 DEF Living
  <2>3. manager' = manager /\ Entries' = Entries /\ Delivered' = Delivered
    BY <1>1, SameProgram DEF Entries, Delivered
  <2>4. Entries = {} /\ Delivered = {}
    BY <1>1 DEF Entries, Delivered, AppInv, Inv, PointsFiled, OutputSoFar, Searching, Deleting
  <2>5. \A o : o \notin Owners!Indexed
    BY <2>4 DEF Owners!Indexed, Entries
  <2>6. ASSUME NEW o \in Ids, o = id
        PROVE  Owners!DeleteObject(o)
    <3>1. /\ o \in Living /\ o \notin Owners!Indexed /\ Owners!ToObject(o) \notin Delivered
          /\ Living' = Living \ {o} /\ UNCHANGED <<copies, deleted>>
      BY <1>1, <2>2, <2>4, <2>5, <2>6
    <3> QED
      BY <1>2, <2>3, <3>1
         DEF Owners!DeleteObject, Living, Entries, Delivered, IsOpen, Deleting
  <2>7. \E o \in Ids : o = id
    BY <2>1
  <2> QED
    BY <2>6, <2>7, Zenon
<1> QED
  BY <1>1, <1>3, <1>4

LEMMA OwnersStep == AppInv /\ [Next]_vars => [Owners!Next]_(Owners!vars)
<1> SUFFICES ASSUME AppInv, [Next]_vars
             PROVE  Owners!Next \/ UNCHANGED Owners!vars
  OBVIOUS
<1>1. CASE \/ Setup \/ NewPoint \/ DecomposeStep \/ FreezeIndex
           \/ FindOverlapping \/ OpenCursor \/ GoToZ \/ EndQuery \/ End
           \/ UNCHANGED vars
  BY <1>1, HiddenSteps
<1>2. CASE AddRecord
  BY <1>2, AddRecordOwns DEF Owners!Next
<1>3. CASE NextPoint \/ DeletePoint
  BY <1>3, NextPointOwns, DeletePointOwns DEF Owners!Next
<1>4. CASE ReadRecord \/ ClearOutput \/ DeleteIndex
  BY <1>4, ReadRecordOwns, ClearOutputOwns, DeleteIndexOwns DEF Owners!Next
<1> QED
  BY <1>1, <1>2, <1>3, <1>4 DEF Next

-----------------------------------------------------------------------------
\* The decompositions go on as in the module of their own.

InSpace == INSTANCE SpaceProofs WITH
    Boxes <- {GridBox(b) : b \in Queries \cup {PointBox(p) : p \in Places}},
    MaxZs <- {1, MaxZ},
    Resolutions <- {}, ByteBits <- 1, IntBits <- 0, LongBits <- 1, TopBit <- 0,
    stage <- 0, xBits <- 0, interleave <- << >>, dim <- 0, masks <- 0, point <- 0, key <- 0

LEMMA SameGrid ==
    /\ \A d : InSpace!XBits(d) = XBits(d)
    /\ InSpace!ZBits = Len(Interleaving)
    /\ \A p : CellOf(p) = InSpace!Shuffled(GridPoint(p), InSpace!ZBits)
<1>1. \A d : InSpace!XBits(d) = Space!XBits(d)
  BY DEF InSpace!XBits, Space!XBits, InSpace!ZBits, Space!ZBits, InSpace!Cardinality,
         Space!Cardinality
<1>2. \A p : CellOf(p) = InSpace!Shuffled(GridPoint(p), InSpace!ZBits)
  BY DEF CellOf, InSpace!Shuffled, Space!Shuffled, InSpace!BitAt, Space!BitAt, InSpace!XBits,
         Space!XBits, InSpace!ZBits, Space!ZBits, InSpace!Cardinality, Space!Cardinality
<1> QED
  BY <1>1, <1>2, XBitsFacts DEF InSpace!ZBits

LEMMA GridPointFacts ==
    ASSUME NEW p \in Places
    PROVE  GridPoint(p) \in InSpace!Point
<1>1. \A d \in Dims : GridPoint(p)[d] \in InSpace!Coordinate(d)
  BY GridOrder, SameGrid DEF InSpace!Coordinate
<1> QED
  BY <1>1 DEF InSpace!Point, GridPoint

LEMMA SpaceAssumptions ==
    /\ Interleaving \in Seq(Dims) /\ Interleaving # << >>
    /\ \A b \in {GridBox(b) : b \in Queries \cup {PointBox(p) : p \in Places}} :
          /\ b.lo \in InSpace!Point /\ b.hi \in InSpace!Point
          /\ \A d \in Dims : b.lo[d] <= b.hi[d]
    /\ InitialCapacity \in Nat \ {0}
    /\ {1, MaxZ} \subseteq 1..InitialCapacity
    /\ 1 \in Nat \ {0} /\ 0 \in Nat /\ 0 < 1 /\ 0 \in Int
    /\ \A r \in {} : /\ r \in Seq(Nat) /\ r # << >>
                     /\ \A d \in DOMAIN r : r[d] < 0
<1>1. ASSUME NEW b \in Queries \cup {PointBox(p) : p \in Places}
      PROVE  /\ GridBox(b).lo \in InSpace!Point /\ GridBox(b).hi \in InSpace!Point
             /\ \A d \in Dims : GridBox(b).lo[d] <= GridBox(b).hi[d]
  <2>1. /\ b.lo \in Places /\ b.hi \in Places
        /\ \A d \in Dims : b.lo[d] <= b.hi[d]
    <3>1. CASE b \in Queries
      BY <3>1, ProgramsAssumption
    <3>2. ASSUME NEW p \in Places, b = PointBox(p)
          PROVE  b.lo \in Places /\ b.hi \in Places /\ \A d \in Dims : b.lo[d] <= b.hi[d]
      <4>1. b.lo = p /\ b.hi = p
        BY <3>2 DEF PointBox
      <4>2. \A d \in Dims : p[d] \in Int
        BY ProgramsAssumption DEF Places
      <4> QED
        BY <4>1, <4>2
    <3> QED
      BY <3>1, <3>2
  <2>2. GridBox(b).lo = GridPoint(b.lo) /\ GridBox(b).hi = GridPoint(b.hi)
    BY DEF GridBox
  <2> QED
    BY <2>1, <2>2, GridPointFacts, GridOrder
<1> QED
  BY <1>1, SpaceAssumption

LEMMA CellOfPoint ==
    ASSUME NEW p \in Places
    PROVE  /\ CellOf(p) \in InSpace!Calls!Cell
           /\ InSpace!CellsOfBox(GridBox(PointBox(p))) = {CellOf(p)}
<1> DEFINE g == GridPoint(p)
           b == GridBox(PointBox(p))
<1>1. g \in InSpace!Point
  BY GridPointFacts
<1>2. CellOf(p) \in InSpace!Calls!Cell
  BY CellIsPath DEF Words!Cell, Words!Bit, InSpace!Calls!Cell, InSpace!Calls!Bit, InSpace!ZBits
<1>3. b.lo = g /\ b.hi = g
  BY DEF GridBox, PointBox
<1> HIDE DEF b
<1>4. ASSUME NEW y \in InSpace!Point, \A d \in Dims : g[d] <= y[d] /\ y[d] <= g[d]
      PROVE  y = g
  <2>1. \A x \in InSpace!Point : x = [d \in Dims |-> x[d]]
    BY DEF InSpace!Point
  <2>2. \A d \in Dims : g[d] \in Nat /\ y[d] \in InSpace!Coordinate(d)
    BY GridPointFacts, GridOrder DEF InSpace!Point
  <2>3. ASSUME NEW d \in Dims PROVE g[d] = y[d]
    <3>1. y[d] \in 0..(2^XBits(d) - 1) /\ XBits(d) \in Nat
      BY <2>2, XBitsFacts, SameGrid DEF InSpace!Coordinate
    <3>2. 2^XBits(d) \in Nat
      BY <3>1, DoublePower
    <3>3. y[d] \in Int /\ g[d] \in Int
      BY <2>2, <3>1, <3>2
    <3> QED
      BY <1>4, <3>3
  <2> HIDE DEF g
  <2>4. [d \in Dims |-> y[d]] = [d \in Dims |-> g[d]]
    BY <2>3
  <2> QED
    BY <1>1, <2>1, <2>4
<1>5. \A d \in Dims : g[d] <= g[d]
  BY GridOrder
<1>6. {y \in InSpace!Point : \A d \in Dims : b.lo[d] <= y[d] /\ y[d] <= b.hi[d]} = {g}
  <2> HIDE DEF g
  <2> QED
    BY <1>1, <1>3, <1>4, <1>5
<1>7. InSpace!CellsOfBox(b) = {CellOf(p)}
  BY <1>6, SameGrid DEF InSpace!CellsOfBox
<1> QED
  BY <1>2, <1>7 DEF b

\* A point in a box is in one of the box's cells.
LEMMA CellInBox ==
    ASSUME NEW b \in Queries, NEW p \in Places, Overlap(b, p)
    PROVE  CellOf(p) \in InSpace!CellsOfBox(GridBox(b))
<1>1. b.lo \in Places /\ b.hi \in Places
  BY ProgramsAssumption
<1>2. GridBox(b).lo = GridPoint(b.lo) /\ GridBox(b).hi = GridPoint(b.hi)
  BY DEF GridBox
<1>3. \A d \in Dims : /\ GridPoint(b.lo)[d] <= GridPoint(p)[d]
                      /\ GridPoint(p)[d] <= GridPoint(b.hi)[d]
  BY <1>1, GridOrder DEF Overlap
<1>4. GridPoint(p) \in InSpace!Point
  BY GridPointFacts
<1> QED
  BY <1>2, <1>3, <1>4, SameGrid DEF InSpace!CellsOfBox

CodeInv == InSpace!CodeInv

LEMMA CodeReturned ==
    /\ CodeInv => Returned
    /\ CodeInv' => Returned'
<1>1. CodeInv => Returned
  <2> SUFFICES ASSUME CodeInv
               PROVE  Returned
    OBVIOUS
  <2>1. zs \in Seq(Words!Region)
    <3>1. Words!Region = InSpace!Z!Region
      BY DEF Words!Region, Words!Bit, InSpace!Z!Region, InSpace!Z!Bit, InSpace!ZBits
    <3> QED
      BY <3>1 DEF CodeInv, InSpace!CodeInv, InSpace!IInv, InSpace!TypeOK
  <2>2. ASSUME pc = "done", NEW p \in Places, box = GridBox(PointBox(p))
        PROVE  zs = <<CellOf(p)>>
    <3>1. CellOf(p) \in InSpace!Calls!Cell /\ InSpace!CellsOfBox(box) = {CellOf(p)}
      BY <2>2, CellOfPoint
    <3> QED
      BY <2>2, <3>1, SpaceAssumptions, InSpace!CellReturns DEF CodeInv
  <2>3. ASSUME pc = "done", NEW b \in Queries, box = GridBox(b)
        PROVE  Covers(b)
    <3>1. InSpace!Calls!Approximated(InSpace!CellsOfBox(box), zs)
      BY <2>3, SpaceAssumptions, InSpace!CodeReturns DEF CodeInv
    <3>2. \A r : InSpace!Calls!Cells(r) = Words!Cells(r)
      BY DEF InSpace!Calls!Cells, Words!Cells, InSpace!Calls!Has, Words!Has, InSpace!Calls!Cell,
             Words!Cell, InSpace!Calls!Bit, Words!Bit, InSpace!ZBits
    <3>3. \A p \in Places : Overlap(b, p) => CellOf(p) \in InSpace!CellsOfBox(GridBox(b))
      BY CellInBox
    <3> QED
      BY <2>3, <3>1, <3>2, <3>3 DEF Covers, InSpace!Calls!Approximated
  <2> QED
    BY <2>1, <2>2, <2>3 DEF Returned
<1> QED
  BY <1>1, PTL

LEMMA SameSpace ==
    /\ Space!Init <=> InSpace!Init
    /\ \A b, m : Space!Decompose(b, m) <=> InSpace!Decompose(b, m)
    /\ Space!Step <=> InSpace!Step
<1>1. Space!Init <=> InSpace!Init
  BY DEF Space!Init, InSpace!Init, Space!NoBox, InSpace!NoBox, Space!NoRegion,
         InSpace!NoRegion, Space!Pool!NewPool, InSpace!Pool!NewPool
<1>2. \A b, m : Space!Decompose(b, m) <=> InSpace!Decompose(b, m)
  BY DEF Space!Decompose, InSpace!Decompose, Space!Stored, InSpace!Stored,
         Space!Initialized, InSpace!Initialized, Space!ArbitraryPoint,
         InSpace!ArbitraryPoint, Space!ZBits, InSpace!ZBits, Space!Pool!Taken,
         InSpace!Pool!Taken, Space!Pool!Free, InSpace!Pool!Free, Space!Pool!FirstFree,
         InSpace!Pool!FirstFree, Space!Pool!Grown, InSpace!Pool!Grown
<1>3. Space!Up \/ Space!StartQueue <=> InSpace!Up \/ InSpace!StartQueue
  BY DEF Space!Up, InSpace!Up, Space!StartQueue, InSpace!StartQueue, Space!ContainedBy,
         InSpace!ContainedBy, Space!At, InSpace!At, Space!NoRegion, InSpace!NoRegion,
         Space!RegionUp, InSpace!RegionUp, Space!Divided, InSpace!Divided,
         Space!ClearBit, InSpace!ClearBit, Space!SetBit, InSpace!SetBit, Space!BitAt,
         InSpace!BitAt
<1>4. Space!EmitPoint \/ Space!Divide <=> InSpace!EmitPoint \/ InSpace!Divide
  BY DEF Space!EmitPoint, InSpace!EmitPoint, Space!Divide, InSpace!Divide, Space!Taking,
         InSpace!Taking, Space!Region, InSpace!Region, Space!At, InSpace!At, Space!Emit,
         InSpace!Emit, Space!Requeue, InSpace!Requeue, Space!Room, InSpace!Room,
         Space!Stored, InSpace!Stored, Space!Without, InSpace!Without, Space!DropLeft,
         InSpace!DropLeft, Space!DropRight, InSpace!DropRight, Space!EmitWhole,
         InSpace!EmitWhole, Space!EmitLeftQueueRight, InSpace!EmitLeftQueueRight,
         Space!EmitRightQueueLeft, InSpace!EmitRightQueueLeft, Space!QueueBoth,
         InSpace!QueueBoth, Space!Coarsen, InSpace!Coarsen, Space!OutsideBox,
         InSpace!OutsideBox, Space!InsideBox, InSpace!InsideBox, Space!OverlapsBox,
         InSpace!OverlapsBox, Space!Restrict, InSpace!Restrict, Space!RegionUp,
         InSpace!RegionUp, Space!Divided, InSpace!Divided, Space!ClearBit,
         InSpace!ClearBit, Space!SetBit, InSpace!SetBit, Space!BitAt, InSpace!BitAt,
         Space!DownLeft, InSpace!DownLeft, Space!DownRight, InSpace!DownRight,
         Space!IsPoint, InSpace!IsPoint, Space!RegionZ, InSpace!RegionZ, Space!Shuffled,
         InSpace!Shuffled, Space!XBits, InSpace!XBits, Space!ZBits, InSpace!ZBits,
         Space!Cardinality, InSpace!Cardinality, Space!Pool!Taken, InSpace!Pool!Taken,
         Space!Pool!Returned, InSpace!Pool!Returned, Space!Pool!Free, InSpace!Pool!Free,
         Space!Pool!FirstFree, InSpace!Pool!FirstFree, Space!Pool!Grown,
         InSpace!Pool!Grown
<1>5. Space!Sort <=> InSpace!Sort
  BY DEF Space!Sort, InSpace!Sort, Space!Bijection, InSpace!Bijection, Space!Injection,
         InSpace!Injection, Space!Surjection, InSpace!Surjection, Space!IsInjective,
         InSpace!IsInjective, Space!Z!Before, InSpace!Z!Before, Space!Z!PaddedBit,
         InSpace!Z!PaddedBit, Space!ZBits, InSpace!ZBits
<1>6. Space!MergePair \/ Space!EndPass <=> InSpace!MergePair \/ InSpace!EndPass
  BY DEF Space!MergePair, InSpace!MergePair, Space!EndPass, InSpace!EndPass,
         Space!Z!SiblingOf, InSpace!Z!SiblingOf, Space!Z!Parent, InSpace!Z!Parent,
         Space!RemoveAt, InSpace!RemoveAt
<1>7. Space!Step <=> InSpace!Step
  BY <1>3, <1>4, <1>5, <1>6 DEF Space!Step, InSpace!Step
<1> QED
  BY <1>1, <1>2, <1>7

LEMMA CodeStarts == Init => CodeInv
BY SpaceAssumptions, SameSpace, InSpace!CodeInvStarts DEF Init, CodeInv

LEMMA CodeKept == CodeInv /\ AppInv /\ [Next]_vars => CodeInv'
<1> SUFFICES ASSUME CodeInv, AppInv, [Next]_vars
             PROVE  CodeInv'
  OBVIOUS
<1>1. \/ \E b \in Queries \cup {PointBox(p) : p \in Places} : \E m \in {1, MaxZ} :
             Space!Decompose(GridBox(b), m)
      \/ Space!Step
      \/ UNCHANGED spaceVars
  <2>1. CASE NewPoint
    <3>1. PICK p \in Placed(id) : Space!Decompose(GridBox(PointBox(p)), 1)
      BY <2>1 DEF NewPoint
    <3>2. id \in 0..(Count - 1)
      BY <2>1, MadeBound DEF NewPoint, AppInv, Inv
    <3>3. p \in Places
      BY <3>2, PlacedInSpace
    <3> QED
      BY <3>1, <3>3
  <2>2. CASE FindOverlapping
    BY <2>2 DEF FindOverlapping
  <2>3. CASE DecomposeStep
    BY <2>3 DEF DecomposeStep
  <2>4. CASE ~(NewPoint \/ FindOverlapping \/ DecomposeStep)
    BY <2>4 DEF Next, vars, Setup, AddRecord, NextPoint, FreezeIndex, OpenCursor, GoToZ,
                ReadRecord, EndQuery, ClearOutput, DeleteIndex, DeletePoint, End
  <2> QED
    BY <2>1, <2>2, <2>3, <2>4
<1>2. [InSpace!Next]_(InSpace!vars)
  <2>1. InSpace!Step \/ UNCHANGED InSpace!vars
           \/ \E b \in Queries \cup {PointBox(p) : p \in Places} : \E m \in {1, MaxZ} :
                 InSpace!Decompose(GridBox(b), m)
    BY <1>1, SameSpace DEF spaceVars, InSpace!vars
  <2> QED
    BY <2>1 DEF InSpace!Next
<1> QED
  BY <1>2, SpaceAssumptions, InSpace!CodeInvKept DEF CodeInv

\* The invariant of the program and its parts.
Whole == CodeInv /\ AppInv

LEMMA WholeKept ==
    /\ Init => Whole
    /\ Whole /\ [Next]_vars => Whole'
<1>1. Init => Whole
  BY CodeStarts, AppInit DEF Whole
<1>2. Whole /\ [Next]_vars => Whole'
  BY CodeKept, CodeReturned, AppKept DEF Whole
<1> QED
  BY <1>1, <1>2

\* The answer to every query of the programs has every point in the box, and no
\* other, and each once (runQueries, testRetrieval), whatever the space, the
\* points, their order and the boxes are.
THEOREM AnswersExact == Spec => []QueryExact
<1>1. Init => Whole
  BY WholeKept
<1>2. Whole /\ [Next]_vars => Whole'
  BY WholeKept
<1>3. Whole => QueryExact
  <2> SUFFICES ASSUME AppInv
               PROVE  QueryExact
    BY DEF Whole
  <2>1. TypeOK
    BY AppTyped
  <2>2. \A o : stage = "answered" => Passed(o)
    BY DEF Passed
  <2> QED
    BY <2>1, <2>2 DEF QueryExact, AppInv, Inv, OutputSoFar, Searching
<1> QED
  BY <1>1, <1>2, <1>3, PTL DEF Spec

\* The programs use the objects and the references to them as module References
\* asks of the clients of an index (loadRandomPoints, runQueries, deletePoints
\* and the destructors), with any of the managers.
THEOREM OwnershipKept == Spec => KeepsOwnership
<1>1. Init => Whole /\ Owners!Init
  BY WholeKept, OwnersInit
<1>2. Whole /\ [Next]_vars => Whole'
  BY WholeKept
<1>3. Whole /\ [Next]_vars => [Owners!Next]_(Owners!vars)
  BY OwnersStep DEF Whole
<1> QED
  BY <1>1, <1>2, <1>3, PTL DEF Spec, KeepsOwnership, Owners!Spec

-----------------------------------------------------------------------------
\* What module References promises of its clients' objects.
InObjects == INSTANCE ObjectProofs WITH
    Objects <- Ids,
    ZSets <- PointZSets,
    MaxCopies <- MaxPoints,
    alive <- Ids \ (DOMAIN points \ alive),
    records <- {<<ZOf(key), SoidOf(key), refs[key]>> : key \in DOMAIN refs},
    open <- stage \notin {"deletePoints", "ended"},
    output <- {output[n].ref : n \in DOMAIN output},
    removed <- {},
    InitialSize <- 1, Values <- {}, Junk <- 0, Types <- {}, FieldsOf <- [t \in {} |-> 0], Storable <- {},
    Plain <- {}, bytes <- << >>, position <- 0, limit <- 0, mark <- 0, outcome <- 0, got <- 0,
    pc <- 0, obj <- 0, done <- 0, copy <- 0

LEMMA OwnersAssumptions ==
    /\ \A s \in PointZSets : s \subseteq Nat /\ InObjects!IsFiniteSet(s) /\ s # {}
    /\ MaxPoints \in Nat
    /\ 1 \in Nat \ {0}
    /\ {} \cup {} \subseteq {} /\ [t \in {} |-> 0] \in [{} -> Nat]
    /\ {} \subseteq UNION {[type : {t}, fields : [1..[u \in {} |-> 0][t] -> {}]] : t \in {}}
<1>1. ASSUME NEW s \in PointZSets
      PROVE  s \subseteq Nat /\ InObjects!IsFiniteSet(s) /\ s # {}
  <2>1. PICK c \in [1..Len(Interleaving) -> {0, 1}] : s = {Z(c)}
    BY DEF PointZSets
  <2>2. c \in Words!Region
    <3>1. Len(Interleaving) \in 0..Len(Interleaving)
      BY SpaceAssumption
    <3> QED
      BY <3>1 DEF Words!Region, Words!Bit
  <2>3. Z(c) \in Nat
    BY <2>2, RegionWords
  <2>4. IsFiniteSet(s)
    BY <2>1, FS_Singleton, Zenon
  <2>5. InObjects!IsFiniteSet(s)
    BY <2>4 DEF IsFiniteSet, InObjects!IsFiniteSet
  <2> QED
    BY <2>1, <2>3, <2>5
<1> QED
  BY <1>1, Counts

LEMMA SameOwners ==
    /\ Owners!Init <=> InObjects!Init
    /\ [Owners!Next]_(Owners!vars) <=> [InObjects!Next]_(InObjects!vars)
    /\ Owners!DeletedOnce <=> InObjects!DeletedOnce
    /\ Owners!ReferencesUsable <=> InObjects!ReferencesUsable
    /\ Owners!NothingLeaks <=> InObjects!NothingLeaks
<1>1. Owners!Init <=> InObjects!Init
  BY DEF Owners!Init, InObjects!Init, Owners!Managers, InObjects!Managers
<1>2. Owners!Next <=> InObjects!Next
  BY DEF Owners!Next, InObjects!Next, Owners!DeleteObject, InObjects!DeleteObject,
         Owners!Add, InObjects!Add, Owners!Remove, InObjects!Remove, Owners!Find,
         InObjects!Find, Owners!ClearOutput, InObjects!ClearOutput, Owners!Destroy,
         InObjects!Destroy, Owners!DeleteRemoved, InObjects!DeleteRemoved, Owners!Delete,
         InObjects!Delete, Owners!Indexed, InObjects!Indexed, Owners!Held, InObjects!Held,
         Owners!NewReference, InObjects!NewReference, Owners!CopyFor, InObjects!CopyFor,
         Owners!ToObject, InObjects!ToObject, Owners!ToCopy, InObjects!ToCopy,
         Owners!Inline, InObjects!Inline, Owners!Cardinality, InObjects!Cardinality
<1>3. UNCHANGED Owners!vars <=> UNCHANGED InObjects!vars
  BY DEF Owners!vars, InObjects!vars
<1>4. /\ Owners!DeletedOnce <=> InObjects!DeletedOnce
      /\ Owners!ReferencesUsable <=> InObjects!ReferencesUsable
      /\ Owners!NothingLeaks <=> InObjects!NothingLeaks
  BY DEF Owners!DeletedOnce, InObjects!DeletedOnce, Owners!TypeOK, InObjects!TypeOK,
         Owners!Managers, InObjects!Managers, Owners!ReferencesUsable,
         InObjects!ReferencesUsable, Owners!Usable, InObjects!Usable, Owners!Held,
         InObjects!Held, Owners!NothingLeaks, InObjects!NothingLeaks, Owners!ToCopy,
         InObjects!ToCopy
<1> QED
  BY <1>1, <1>2, <1>3, <1>4

\* No reference in the index or in an output dangles while the index exists, no
\* copy is deleted twice, and none is left when the index has been deleted.
THEOREM NothingOfTheProgramsDangles ==
    Spec => [](Owners!DeletedOnce /\ Owners!ReferencesUsable /\ Owners!NothingLeaks)
<1> DEFINE J == Whole /\ InObjects!IInv
<1>1. Init => J
  BY WholeKept, OwnersInit, SameOwners, OwnersAssumptions, InObjects!StartsOwned
<1>2. J /\ [Next]_vars => J'
  <2>1. InObjects!IInv /\ [InObjects!Next]_(InObjects!vars) => InObjects!IInv'
    BY OwnersAssumptions, InObjects!StaysOwned
  <2> QED
    BY <2>1, WholeKept, OwnersStep, SameOwners DEF Whole
<1>3. J => Owners!DeletedOnce /\ Owners!ReferencesUsable /\ Owners!NothingLeaks
  <2>1. /\ InObjects!IInv => InObjects!DeletedOnce
        /\ InObjects!IInv => InObjects!ReferencesUsable
        /\ InObjects!IInv => InObjects!NothingLeaks
    BY OwnersAssumptions, InObjects!DeletesOnce, InObjects!KeepsUsable, InObjects!LosesNothing
  <2> QED
    BY <2>1, SameOwners
<1> HIDE DEF J
<1> QED
  BY <1>1, <1>2, <1>3, PTL DEF Spec

=============================================================================
