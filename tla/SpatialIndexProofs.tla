-------------------------- MODULE SpatialIndexProofs --------------------------
(***************************************************************************)
(* The masks and the integer order of Z agree with the regions, for every  *)
(* resolution and every layout of the word.  The lengths are in the order  *)
(* of their binary numerals; the rest is about the position of the first   *)
(* path bit in which two words differ.  And what a search of the spatial   *)
(* index reports is what the regions of the records and of the query say,  *)
(* whatever was added, frozen and searched before.                         *)
(***************************************************************************)
EXTENDS SpatialIndex, ZPairs, Numbers, SequenceTheorems, TLAPS

-----------------------------------------------------------------------------
\* A larger number has no less left.
LEMMA AboveMonotone ==
    ASSUME NEW x \in Nat, NEW y \in Nat, x <= y, NEW k \in Nat
    PROVE  Above(x, k) <= Above(y, k)
<1>1. 2^k \in Nat \ {0}
  BY DoublePower
<1> DEFINE c == 2^k
<1>2. c \in Nat \ {0}
  BY <1>1
<1>3. x \div c <= y \div c
  <2> HIDE DEF c
  <2> DEFINE p == x \div c
             q == y \div c
  <2>1. p \in Nat /\ q \in Nat /\ c * p <= x /\ y < c * q + c
    BY <1>2, Quotient
  <2> HIDE DEF p, q
  <2>2. ~(q + 1 <= p)
    BY <1>2, <2>1, Z3
  <2> QED
    BY <2>1, <2>2 DEF p, q
<1> QED
  BY <1>3 DEF Above

\* The numerals of lengths are in the order of the lengths.
LEMMA LengthsInOrder ==
    ASSUME NEW m \in 0..MaxZBits, NEW n \in 0..MaxZBits, m < n
    PROVE  Less(LengthWord(m), LengthWord(n))
<1>1. /\ MaxZBits \in Nat /\ LengthBits \in Nat
      /\ m \in Nat /\ n \in Nat /\ 2^LengthBits \in Nat
      /\ m < 2^LengthBits /\ n < 2^LengthBits
  <2>1. 2^LengthBits \in Nat
    BY SizesAssumption, DoublePower
  <2> QED
    BY <2>1, SizesAssumption
<1>2. \A k : k \in LengthWord(m) <=> k \in 0..(LengthBits - 1) /\ Above(m, k) % 2 = 1
  BY <1>1 DEF LengthWord, LengthMask, Mask, Above
<1>3. \A k : k \in LengthWord(n) <=> k \in 0..(LengthBits - 1) /\ Above(n, k) % 2 = 1
  BY <1>1 DEF LengthWord, LengthMask, Mask, Above
<1>4. \A k \in Nat : /\ Above(m, k) \in Nat /\ Above(n, k) \in Nat
                     /\ Above(m, k + 1) = Above(m, k) \div 2
                     /\ Above(n, k + 1) = Above(n, k) \div 2
                     /\ Above(m, k) <= Above(n, k)
  BY <1>1, AboveFacts, AboveMonotone
<1>5. Above(m, LengthBits) = 0 /\ Above(n, LengthBits) = 0
  BY <1>1, AboveFacts
<1>6. Above(m, 0) = m /\ Above(n, 0) = n
  BY <1>1 DEF Above
<1> DEFINE S == {k \in 0..LengthBits : Above(m, k) = Above(n, k)}
<1>7. S \in SUBSET Nat /\ LengthBits \in S /\ 0 \notin S
  BY <1>1, <1>5, <1>6
<1>8. PICK p \in S : \A k \in S : p <= k
  BY <1>7, LeastElement
<1>9. p \in Nat /\ p > 0 /\ p <= LengthBits /\ Above(m, p) = Above(n, p)
  BY <1>7, <1>8
<1> DEFINE d == p - 1
<1>10. d \in 0..(LengthBits - 1) /\ d \in Nat /\ p = d + 1 /\ Above(m, d) # Above(n, d)
  BY <1>1, <1>8, <1>9
<1>11. d \in LengthWord(n) \ LengthWord(m)
  <2>1. Above(m, d) \div 2 = Above(n, d) \div 2 /\ Above(m, d) <= Above(n, d)
        /\ Above(m, d) \in Nat /\ Above(n, d) \in Nat
    BY <1>4, <1>9, <1>10
  <2>2. Above(n, d) % 2 = 1 /\ Above(m, d) % 2 = 0
    BY <1>10, <2>1
  <2> QED
    BY <1>2, <1>3, <1>10, <2>2
<1>12. ASSUME NEW j \in Nat, j >= p
       PROVE  Above(m, j) = Above(n, j)
  <2> DEFINE T == {t \in Nat : t >= p /\ Above(m, t) # Above(n, t)}
  <2>1. SUFFICES ASSUME T # {} PROVE FALSE
    BY <1>12
  <2>2. PICK t \in T : \A u \in T : t <= u
    BY <2>1, LeastElement
  <2>3. t \in Nat /\ t > p /\ Above(m, t) # Above(n, t)
    BY <1>9, <2>2
  <2>4. t - 1 \in Nat /\ t - 1 >= p /\ t - 1 \notin T
    BY <1>9, <2>2, <2>3
  <2>5. Above(m, t - 1) = Above(n, t - 1)
    BY <2>4
  <2>6. Above(m, (t - 1) + 1) = Above(n, (t - 1) + 1)
    BY <1>4, <2>4, <2>5
  <2> QED
    BY <2>3, <2>6
<1>13. \A j \in LengthWord(m) \cup LengthWord(n) :
          j > d => j \in LengthWord(m) \cap LengthWord(n)
  BY <1>1, <1>2, <1>3, <1>10, <1>12
<1> QED
  BY <1>11, <1>13 DEF Less

-----------------------------------------------------------------------------
\* The position of the n-th bit of a path.
Pos(n) == WordBits - 1 - n

\* The assumptions on the layout of the word.
LEMMA Sizes ==
    /\ ZBits \in Nat /\ MaxZBits \in Nat /\ LengthBits \in Nat /\ ZBits < MaxZBits
    /\ WordBits = 1 + MaxZBits + LengthBits
  BY ZBitsAssumption, SizesAssumption, SpareBitAssumption DEF WordBits

\* Words are sets of positions of path bits and of the numeral of the length.
LEMMA Positions ==
    /\ ZBits \in Nat /\ MaxZBits \in Nat /\ LengthBits \in Nat /\ ZBits < MaxZBits
    /\ \A n \in Int : Pos(n) = MaxZBits + LengthBits - n
    /\ LengthMask = 0..(LengthBits - 1)
    /\ \A n \in 1..MaxZBits : Pos(n) \notin LengthMask
    /\ \A k \in Int : k \in LengthBits..(LengthBits + MaxZBits - 1) =>
          \E n \in 1..MaxZBits : k = Pos(n)
    /\ \A k : k \in 0..(WordBits - 2) <=> k \in LengthMask \/ \E n \in 1..MaxZBits : k = Pos(n)
<1>1. ZBits \in Nat /\ MaxZBits \in Nat /\ LengthBits \in Nat /\ ZBits < MaxZBits
  BY ZBitsAssumption, SizesAssumption, SpareBitAssumption
<1>2. \A n \in Int : Pos(n) = MaxZBits + LengthBits - n
  BY <1>1 DEF Pos, WordBits
<1>3. LengthMask = 0..(LengthBits - 1)
  BY <1>1 DEF LengthMask, Mask
<1>4. \A n \in 1..MaxZBits : Pos(n) \in LengthBits..(LengthBits + MaxZBits - 1)
  BY <1>1, <1>2
<1>5. \A k \in Int : k \in LengthBits..(LengthBits + MaxZBits - 1) =>
          \E n \in 1..MaxZBits : k = Pos(n)
  <2> SUFFICES ASSUME NEW k \in LengthBits..(LengthBits + MaxZBits - 1)
               PROVE  \E n \in 1..MaxZBits : k = Pos(n)
    OBVIOUS
  <2>1. MaxZBits + LengthBits - k \in 1..MaxZBits
    BY <1>1
  <2>2. k = Pos(MaxZBits + LengthBits - k)
    BY <1>1, <1>2, <2>1
  <2> QED
    BY <2>1, <2>2
<1>6. WordBits - 2 = LengthBits + MaxZBits - 1
  BY <1>1 DEF WordBits
<1>7. \A k : k \in 0..(WordBits - 2) <=>
          k \in 0..(LengthBits - 1) \/ k \in LengthBits..(LengthBits + MaxZBits - 1)
  BY <1>1, <1>6
<1> QED
  BY <1>1, <1>2, <1>3, <1>4, <1>5, <1>7

\* The first path bit that differs decides.
LEMMA FirstBitDecides ==
    ASSUME NEW v \in Word, NEW w \in Word, NEW n \in 1..MaxZBits,
           Pos(n) \in w, Pos(n) \notin v,
           \A k \in 1..(n - 1) : Pos(k) \in v <=> Pos(k) \in w
    PROVE  Less(v, w)
<1>1. \A j \in v \cup w : j > Pos(n) => j \in v \cap w
  <2> SUFFICES ASSUME NEW j \in v \cup w, j > Pos(n) PROVE j \in v \cap w
    OBVIOUS
  <2>1. j \in LengthMask \/ \E k \in 1..MaxZBits : j = Pos(k)
    BY Positions DEF Word
  <2>2. j \notin LengthMask
    BY Positions
  <2>3. PICK k \in 1..MaxZBits : j = Pos(k)
    BY <2>1, <2>2
  <2>4. k \in 1..(n - 1)
    BY <2>3, Positions
  <2> QED
    BY <2>3, <2>4
<1> QED
  BY <1>1 DEF Less

\* Without such a bit the lengths decide.
LEMMA LengthDecides ==
    ASSUME NEW v \in Word, NEW w \in Word,
           \A n \in 1..MaxZBits : Pos(n) \in v <=> Pos(n) \in w,
           Less(v \cap LengthMask, w \cap LengthMask)
    PROVE  Less(v, w)
<1>1. PICK k \in (w \cap LengthMask) \ (v \cap LengthMask) :
          \A j \in (v \cap LengthMask) \cup (w \cap LengthMask) : j > k => j \in v \cap w
  BY DEF Less
<1>2. k \in w \ v
  BY <1>1
<1>3. \A j \in v \cup w : j \in LengthMask \/ j \in v \cap w
  <2> SUFFICES ASSUME NEW j \in v \cup w, j \notin LengthMask PROVE j \in v \cap w
    OBVIOUS
  <2>1. PICK n \in 1..MaxZBits : j = Pos(n)
    BY Positions DEF Word
  <2> QED
    BY <2>1
<1> QED
  BY <1>1, <1>2, <1>3 DEF Less

\* The order of words is strict.
LEMMA LessIsStrict ==
    ASSUME NEW v \in Word, NEW w \in Word, Less(v, w)
    PROVE  ~Less(w, v) /\ v # w
<1>1. PICK k \in w \ v : \A j \in v \cup w : j > k => j \in v \cap w
  BY DEF Less
<1>2. ASSUME Less(w, v) PROVE FALSE
  <2>1. PICK l \in v \ w : \A j \in v \cup w : j > l => j \in v \cap w
    BY <1>2 DEF Less
  <2>2. k \in Int /\ l \in Int /\ k # l
    BY <1>1, <2>1 DEF Word
  <2> QED
    BY <1>1, <2>1, <2>2
<1> QED
  BY <1>1, <1>2

-----------------------------------------------------------------------------
\* The word of a region holds its path and its length.
LEMMA WordOfRegion ==
    ASSUME NEW r \in Region
    PROVE  /\ Len(r) \in 0..ZBits /\ Len(r) \in 0..MaxZBits
           /\ \A n \in 1..Len(r) : r[n] \in Bit
           /\ ZValue(r) \in Word
           /\ \A n \in 1..MaxZBits : Pos(n) \in ZValue(r) <=> PaddedBit(r, n) = 1
           /\ \A n \in 1..MaxZBits : PaddedBit(r, n) \in Bit
           /\ ZValue(r) \cap LengthMask = LengthWord(Len(r))
           /\ Length(ZValue(r)) = Len(r)
<1>1. /\ Len(r) \in 0..ZBits /\ Len(r) \in 0..MaxZBits
      /\ \A n \in 1..Len(r) : r[n] \in Bit
  BY Positions DEF Region
<1> DEFINE path == {Pos(n) : n \in {k \in 1..Len(r) : r[k] = 1}}
<1>2. ZValue(r) = path \cup LengthWord(Len(r))
  BY DEF ZValue, Packed, Pos
<1>3. LengthWord(Len(r)) \subseteq LengthMask
  BY DEF LengthWord
<1>4. \A n \in 1..Len(r) : n \in 1..MaxZBits
  BY <1>1, Positions
<1>5. path \cap LengthMask = {}
  BY <1>4, Positions
<1>6. ZValue(r) \in Word
  <2>1. path \subseteq 0..(WordBits - 2)
    BY <1>4, Positions
  <2>2. LengthMask \subseteq 0..(WordBits - 2)
    BY Positions
  <2> QED
    BY <1>2, <1>3, <2>1, <2>2 DEF Word
<1>7. \A n \in 1..MaxZBits : Pos(n) \in ZValue(r) <=> PaddedBit(r, n) = 1
  <2> SUFFICES ASSUME NEW n \in 1..MaxZBits
               PROVE  Pos(n) \in ZValue(r) <=> PaddedBit(r, n) = 1
    OBVIOUS
  <2>1. Pos(n) \in ZValue(r) <=> Pos(n) \in path
    BY <1>2, <1>3, Positions
  <2>2. \A k \in 1..Len(r) : Pos(n) = Pos(k) => n = k
    BY <1>1, Positions
  <2>3. Pos(n) \in path <=> n \in 1..Len(r) /\ r[n] = 1
    BY <2>2
  <2>4. PaddedBit(r, n) = 1 <=> n \in 1..Len(r) /\ r[n] = 1
    BY <1>1 DEF PaddedBit
  <2> QED
    BY <2>1, <2>3, <2>4
<1>8. \A n \in 1..MaxZBits : PaddedBit(r, n) \in Bit
  BY <1>1 DEF PaddedBit, Bit
<1>9. ZValue(r) \cap LengthMask = LengthWord(Len(r))
  BY <1>2, <1>3, <1>5
<1>10. Length(ZValue(r)) = Len(r)
  <2>1. \A n \in 0..MaxZBits : LengthWord(n) = LengthWord(Len(r)) => n = Len(r)
    <3> SUFFICES ASSUME NEW n \in 0..MaxZBits, n # Len(r)
                 PROVE  LengthWord(n) # LengthWord(Len(r))
      OBVIOUS
    <3>1. n < Len(r) \/ Len(r) < n
      BY <1>1
    <3>2. \A m \in 0..MaxZBits : LengthWord(m) \in Word
      BY Positions DEF LengthWord, Word
    <3>3. CASE n < Len(r)
      BY <1>1, <3>2, <3>3, LengthsInOrder, LessIsStrict
    <3>4. CASE Len(r) < n
      BY <1>1, <3>2, <3>4, LengthsInOrder, LessIsStrict
    <3> QED
      BY <3>1, <3>3, <3>4
  <2> QED
    BY <1>1, <1>9, <2>1 DEF Length
<1> QED
  BY <1>1, <1>6, <1>7, <1>8, <1>9, <1>10

\* Two regions are in order one way or the other, or have the same path.
LEMMA InOrderOrSame ==
    ASSUME NEW a1 \in Region, NEW b1 \in Region
    PROVE  \/ Before(a1, b1) \/ Before(b1, a1)
           \/ /\ Len(a1) = Len(b1)
              /\ \A n \in 1..ZBits : PaddedBit(a1, n) = PaddedBit(b1, n)
<1>1. /\ Len(a1) \in Nat /\ Len(b1) \in Nat /\ ZBits \in Nat
      /\ \A n \in 1..ZBits : PaddedBit(a1, n) \in Bit /\ PaddedBit(b1, n) \in Bit
  <2>1. \A r \in Region : Len(r) \in 0..ZBits
    BY WordOfRegion
  <2>2. \A r \in Region : \A n \in 1..MaxZBits : PaddedBit(r, n) \in Bit
    BY WordOfRegion
  <2> QED
    BY <2>1, <2>2, Positions
<1> DEFINE D == {n \in 1..ZBits : PaddedBit(a1, n) # PaddedBit(b1, n)}
<1>2. CASE D = {}
  <2>1. \A n \in 1..ZBits : PaddedBit(a1, n) = PaddedBit(b1, n)
    BY <1>2
  <2>2. Len(a1) < Len(b1) \/ Len(b1) < Len(a1) \/ Len(a1) = Len(b1)
    BY <1>1
  <2> QED
    BY <2>1, <2>2 DEF Before
<1>3. CASE D # {}
  <2>1. D \in SUBSET Nat
    OBVIOUS
  <2>2. PICK n \in D : \A m \in D : n <= m
    BY <1>3, <2>1, LeastElement
  <2>3. n \in 1..ZBits /\ \A k \in 1..(n - 1) : PaddedBit(a1, k) = PaddedBit(b1, k)
    BY <1>1, <2>2
  <2>4. PaddedBit(a1, n) < PaddedBit(b1, n) \/ PaddedBit(b1, n) < PaddedBit(a1, n)
    BY <1>1, <2>2 DEF Bit
  <2> QED
    BY <2>3, <2>4 DEF Before
<1> QED
  BY <1>2, <1>3

\* Regions that are in order have words that are.
LEMMA BeforeIsLess ==
    ASSUME NEW a1 \in Region, NEW b1 \in Region, Before(a1, b1)
    PROVE  Less(ZValue(a1), ZValue(b1))
<1>1. /\ ZValue(a1) \in Word /\ ZValue(b1) \in Word
      /\ Len(a1) \in 0..MaxZBits /\ Len(b1) \in 0..MaxZBits
      /\ Len(a1) \in 0..ZBits /\ Len(b1) \in 0..ZBits
      /\ \A n \in 1..MaxZBits : Pos(n) \in ZValue(a1) <=> PaddedBit(a1, n) = 1
      /\ \A n \in 1..MaxZBits : Pos(n) \in ZValue(b1) <=> PaddedBit(b1, n) = 1
      /\ \A n \in 1..MaxZBits : PaddedBit(a1, n) \in Bit /\ PaddedBit(b1, n) \in Bit
      /\ ZValue(a1) \cap LengthMask = LengthWord(Len(a1))
      /\ ZValue(b1) \cap LengthMask = LengthWord(Len(b1))
  BY WordOfRegion
<1>2. \A n \in 1..ZBits : n \in 1..MaxZBits
  BY Positions
<1>3. ASSUME NEW n \in 1..ZBits, PaddedBit(a1, n) < PaddedBit(b1, n),
             \A k \in 1..(n - 1) : PaddedBit(a1, k) = PaddedBit(b1, k)
      PROVE  Less(ZValue(a1), ZValue(b1))
  <2>1. n \in 1..MaxZBits
    BY <1>2
  <2>2. PaddedBit(a1, n) # 1 /\ PaddedBit(b1, n) = 1
    BY <1>1, <1>3, <2>1 DEF Bit
  <2>3. \A k \in 1..(n - 1) : k \in 1..MaxZBits
    BY <2>1, Positions
  <2> QED
    BY <1>1, <1>3, <2>1, <2>2, <2>3, FirstBitDecides
<1>4. ASSUME \A n \in 1..ZBits : PaddedBit(a1, n) = PaddedBit(b1, n), Len(a1) < Len(b1)
      PROVE  Less(ZValue(a1), ZValue(b1))
  <2>1. \A n \in 1..MaxZBits : PaddedBit(a1, n) = PaddedBit(b1, n)
    <3> SUFFICES ASSUME NEW n \in 1..MaxZBits, n \notin 1..ZBits
                 PROVE  PaddedBit(a1, n) = PaddedBit(b1, n)
      BY <1>4
    <3>1. ~(n <= Len(a1)) /\ ~(n <= Len(b1))
      BY <1>1, Positions
    <3> QED
      BY <3>1 DEF PaddedBit
  <2>2. Less(LengthWord(Len(a1)), LengthWord(Len(b1)))
    BY <1>1, <1>4, LengthsInOrder
  <2> QED
    BY <1>1, <2>1, <2>2, LengthDecides
<1> QED
  BY <1>3, <1>4 DEF Before

\* The converse: words are in order only as the regions are.
LEMMA LessIsBefore ==
    ASSUME NEW a1 \in Region, NEW b1 \in Region
    PROVE  Less(ZValue(a1), ZValue(b1)) <=> Before(a1, b1)
<1>1. ZValue(a1) \in Word /\ ZValue(b1) \in Word
  BY WordOfRegion
<1>2. CASE Before(a1, b1)
  BY <1>2, BeforeIsLess
<1>3. CASE Before(b1, a1) /\ ~Before(a1, b1)
  BY <1>1, <1>3, BeforeIsLess, LessIsStrict
<1>4. CASE /\ Len(a1) = Len(b1)
           /\ \A n \in 1..ZBits : PaddedBit(a1, n) = PaddedBit(b1, n)
  <2>1. Len(a1) \in 0..ZBits /\ Len(b1) \in 0..ZBits /\ a1 \in Seq(Bit) /\ b1 \in Seq(Bit)
    BY WordOfRegion DEF Region
  <2>2. \A n \in 1..Len(a1) : a1[n] = b1[n]
    BY <1>4, <2>1, Positions DEF PaddedBit
  <2>3. a1 = b1
    BY <1>4, <2>1, <2>2
  <2>4. ~Before(a1, b1)
    <3>1. \A n \in 1..ZBits : PaddedBit(a1, n) \in Bit /\ PaddedBit(b1, n) \in Bit
      BY WordOfRegion, Positions
    <3>2. \A n \in 1..ZBits : ~(PaddedBit(a1, n) < PaddedBit(b1, n))
      BY <1>4, <3>1 DEF Bit
    <3>3. ~(Len(a1) < Len(b1))
      BY <1>4, <2>1
    <3> QED
      BY <3>2, <3>3 DEF Before
  <2> QED
    BY <1>1, <2>3, <2>4, LessIsStrict
<1> QED
  BY <1>2, <1>3, <1>4, InOrderOrSame

-----------------------------------------------------------------------------
\* The path of a1 is the beginning of that of b1.
Prefix(a1, b1) == Len(a1) <= Len(b1) /\ \A n \in 1..Len(a1) : a1[n] = b1[n]

\* Containment of the cells is that of the paths: otherwise one of b1's cells
\* turns the other way where a1's path does.
LEMMA CellsOfPrefix ==
    ASSUME NEW a1 \in Region, NEW b1 \in Region
    PROVE  Cells(b1) \subseteq Cells(a1) <=> Prefix(a1, b1)
<1>1. /\ Len(a1) \in 0..ZBits /\ Len(b1) \in 0..ZBits /\ ZBits \in Nat
      /\ \A n \in 1..Len(a1) : a1[n] \in Bit
      /\ \A n \in 1..Len(b1) : b1[n] \in Bit
  BY WordOfRegion, Positions
<1>2. ASSUME Prefix(a1, b1) PROVE Cells(b1) \subseteq Cells(a1)
  BY <1>1, <1>2 DEF Prefix, Cells, Has
<1>3. ASSUME Cells(b1) \subseteq Cells(a1) PROVE Prefix(a1, b1)
  <2> DEFINE Fill(n) == IF n <= Len(b1) THEN b1[n]
                        ELSE IF n <= Len(a1) THEN 1 - a1[n] ELSE 0
             c == [n \in 1..ZBits |-> Fill(n)]
  <2>1. \A n \in 1..ZBits : Fill(n) \in Bit
    BY <1>1 DEF Bit
  <2>2. c \in Cell
    BY <2>1 DEF Cell
  <2>3. \A n \in 1..ZBits : c[n] = Fill(n)
    OBVIOUS
  <2>4. c \in Cells(b1)
    <3>1. \A n \in 1..Len(b1) : c[n] = b1[n]
      BY <1>1, <2>3
    <3> QED
      BY <2>2, <3>1 DEF Cells, Has
  <2>5. \A n \in 1..Len(a1) : c[n] = a1[n]
    <3> HIDE DEF c
    <3>1. c \in Cells(a1)
      BY <1>3, <2>4
    <3> QED
      BY <3>1 DEF Cells, Has
  <2>6. \A n \in 1..Len(a1) : Fill(n) = a1[n]
    <3> HIDE DEF c, Fill
    <3>1. \A n \in 1..Len(a1) : n \in 1..ZBits
      BY <1>1
    <3> QED
      BY <2>3, <2>5, <3>1
  <2>7. \A n \in 1..Len(a1) : n <= Len(b1)
    BY <1>1, <2>6 DEF Bit
  <2>8. Len(a1) <= Len(b1)
    BY <1>1, <2>7
  <2>9. \A n \in 1..Len(a1) : a1[n] = b1[n]
    BY <2>6, <2>7
  <2> QED
    BY <2>8, <2>9 DEF Prefix
<1> QED
  BY <1>2, <1>3

\* The positions of the first l bits of a path.
Bits(l) == {Pos(n) : n \in 1..l}

\* The masks of siblingOf, parent and contains select the first bits, or the last.
LEMMA Masks ==
    ASSUME NEW l \in 0..ZBits
    PROVE  /\ Mask(WordBits - 1 - l, l) = Bits(l)
           /\ l > 0 => /\ Mask(WordBits - l, l - 1) = Bits(l - 1)
                       /\ Mask(WordBits - 1 - l, 1) = {Pos(l)}
<1>1. WordBits \in Nat /\ l \in Nat /\ l < WordBits
  BY Sizes
<1>2. ASSUME NEW m \in Nat
      PROVE  (WordBits - 1 - m)..(WordBits - 2) = Bits(m)
  <2>1. ASSUME NEW k \in (WordBits - 1 - m)..(WordBits - 2) PROVE k \in Bits(m)
    <3>1. WordBits - 1 - k \in 1..m /\ Pos(WordBits - 1 - k) = k
      BY <1>1, <1>2 DEF Pos
    <3> QED
      BY <3>1 DEF Bits
  <2>2. \A n \in 1..m : Pos(n) \in (WordBits - 1 - m)..(WordBits - 2)
    BY <1>1, <1>2 DEF Pos
  <2> QED
    BY <2>1, <2>2 DEF Bits
<1>3. Mask(WordBits - 1 - l, l) = (WordBits - 1 - l)..(WordBits - 2)
  BY <1>1 DEF Mask
<1>4. l > 0 => /\ Mask(WordBits - l, l - 1) = (WordBits - 1 - (l - 1))..(WordBits - 2)
               /\ Mask(WordBits - 1 - l, 1) = {Pos(l)}
  BY <1>1 DEF Mask, Pos
<1>5. l > 0 => l - 1 \in Nat
  BY <1>1
<1> QED
  BY <1>1, <1>2, <1>3, <1>4, <1>5

\* A bit of a region's path is the bit of its word in that position.
LEMMA PathBit ==
    ASSUME NEW r \in Region, NEW n \in 1..Len(r)
    PROVE  /\ n \in 1..MaxZBits /\ PaddedBit(r, n) = r[n] /\ r[n] \in Bit
           /\ Pos(n) \in ZValue(r) <=> r[n] = 1
<1>1. Len(r) \in 0..ZBits /\ r[n] \in Bit
  BY WordOfRegion
<1>2. n \in 1..MaxZBits
  BY <1>1, Sizes
<1>3. PaddedBit(r, n) = r[n]
  BY <1>1 DEF PaddedBit
<1> QED
  BY <1>1, <1>2, <1>3, WordOfRegion

\* What the words of two regions share of the first bits.
LEMMA SharedBits ==
    ASSUME NEW a1 \in Region, NEW b1 \in Region, NEW l \in Nat, l <= Len(a1), l <= Len(b1)
    PROVE  ZValue(a1) \cap Bits(l) = ZValue(b1) \cap Bits(l) <=> \A n \in 1..l : a1[n] = b1[n]
<1>1. Len(a1) \in Nat /\ Len(b1) \in Nat
  BY DEF Region
<1>2. \A n \in 1..l : n \in 1..Len(a1) /\ n \in 1..Len(b1)
  BY <1>1
<1>3. \A n \in 1..l : (Pos(n) \in ZValue(a1) <=> Pos(n) \in ZValue(b1)) <=> a1[n] = b1[n]
  BY <1>2, PathBit DEF Bit
<1>4. ZValue(a1) \cap Bits(l) = ZValue(b1) \cap Bits(l)
         <=> \A n \in 1..l : Pos(n) \in ZValue(a1) <=> Pos(n) \in ZValue(b1)
  BY DEF Bits
<1> QED
  BY <1>3, <1>4

\* contains compares the lengths and the first bits.
LEMMA ContainsIsPrefix ==
    ASSUME NEW a1 \in Region, NEW b1 \in Region
    PROVE  ContainsZ(ZValue(a1), ZValue(b1)) <=> Prefix(a1, b1)
<1>1. /\ Length(ZValue(a1)) = Len(a1) /\ Length(ZValue(b1)) = Len(b1)
      /\ Len(a1) \in 0..ZBits /\ Len(a1) \in Nat
  BY WordOfRegion
<1>2. ContainsZ(ZValue(a1), ZValue(b1)) <=>
         Len(a1) <= Len(b1) /\ ZValue(a1) \cap Bits(Len(a1)) = ZValue(b1) \cap Bits(Len(a1))
  BY <1>1, Masks DEF ContainsZ
<1>3. ASSUME Len(a1) <= Len(b1)
      PROVE  ZValue(a1) \cap Bits(Len(a1)) = ZValue(b1) \cap Bits(Len(a1))
                <=> \A n \in 1..Len(a1) : a1[n] = b1[n]
  <2>1. Len(a1) <= Len(a1)
    BY <1>1
  <2> QED
    BY <1>1, <1>3, <2>1, SharedBits
<1> QED
  BY <1>2, <1>3 DEF Prefix

\* siblingOf compares all bits but the last, and finds that one different.
LEMMA SiblingWords ==
    ASSUME NEW a1 \in Region, NEW b1 \in Region
    PROVE  Siblings(ZValue(a1), ZValue(b1)) <=> SiblingOf(a1, b1)
<1>1. /\ Length(ZValue(a1)) = Len(a1) /\ Length(ZValue(b1)) = Len(b1)
      /\ Len(a1) \in 0..ZBits /\ Len(a1) \in Nat
  BY WordOfRegion
<1> SUFFICES ASSUME Len(a1) > 0, Len(a1) = Len(b1)
             PROVE  Siblings(ZValue(a1), ZValue(b1)) <=> SiblingOf(a1, b1)
  BY <1>1 DEF Siblings, SiblingOf
<1> DEFINE l == Len(a1)
<1>2. /\ Mask(WordBits - l, l - 1) = Bits(l - 1)
      /\ Mask(WordBits - 1 - l, 1) = {Pos(l)}
  BY <1>1, Masks
<1>3. Siblings(ZValue(a1), ZValue(b1)) <=>
         /\ ZValue(a1) \cap Bits(l - 1) = ZValue(b1) \cap Bits(l - 1)
         /\ ZValue(a1) \cap {Pos(l)} # ZValue(b1) \cap {Pos(l)}
  BY <1>1, <1>2 DEF Siblings
<1>4. ZValue(a1) \cap Bits(l - 1) = ZValue(b1) \cap Bits(l - 1)
         <=> \A n \in 1..(l - 1) : a1[n] = b1[n]
  <2>1. l - 1 \in Nat /\ l - 1 <= Len(a1) /\ l - 1 <= Len(b1)
    BY <1>1
  <2> QED
    BY ONLY <2>1, SharedBits, a1 \in Region, b1 \in Region
<1>5. ZValue(a1) \cap {Pos(l)} # ZValue(b1) \cap {Pos(l)} <=> a1[l] # b1[l]
  <2>1. l \in 1..Len(a1) /\ l \in 1..Len(b1)
    BY <1>1
  <2>2. (Pos(l) \in ZValue(a1) <=> a1[l] = 1) /\ (Pos(l) \in ZValue(b1) <=> b1[l] = 1)
        /\ a1[l] \in Bit /\ b1[l] \in Bit
    BY <2>1, PathBit
  <2>3. ZValue(a1) \cap {Pos(l)} # ZValue(b1) \cap {Pos(l)}
           <=> ~(Pos(l) \in ZValue(a1) <=> Pos(l) \in ZValue(b1))
    OBVIOUS
  <2> QED
    BY <2>2, <2>3 DEF Bit
<1> QED
  BY <1>3, <1>4, <1>5 DEF SiblingOf

\* parent drops the last bit and counts one less.
LEMMA ParentWord ==
    ASSUME NEW a1 \in Region, NEW b1 \in Region, SiblingOf(a1, b1)
    PROVE  ParentZ(ZValue(a1)) = ZValue(Parent(b1))
<1>1. /\ Length(ZValue(a1)) = Len(a1) /\ ZBits \in Nat
      /\ Len(a1) \in 0..ZBits /\ Len(a1) > 0 /\ Len(b1) = Len(a1)
      /\ \A n \in 1..(Len(a1) - 1) : a1[n] = b1[n]
  BY WordOfRegion, Sizes DEF SiblingOf
<1> DEFINE l == Len(a1) - 1
<1>2. l \in 0..ZBits
  BY <1>1
<1>3. ParentZ(ZValue(a1)) = (ZValue(a1) \cap Bits(l)) \cup LengthWord(l)
  BY <1>1, <1>2, Masks DEF ParentZ, Packed
<1>4. Len(Parent(b1)) = l /\ \A n \in 1..l : Parent(b1)[n] = b1[n]
  BY <1>1, <1>2 DEF Parent, Region
<1>5. ZValue(Parent(b1)) = {Pos(n) : n \in {k \in 1..l : Parent(b1)[k] = 1}} \cup LengthWord(l)
  BY <1>4 DEF ZValue, Packed, Pos
<1>6. \A n \in 1..l : Pos(n) \in ZValue(a1) <=> Parent(b1)[n] = 1
  <2>1. \A n \in 1..l : n \in 1..Len(a1) /\ a1[n] = b1[n]
    BY <1>1
  <2> QED
    BY <1>4, <2>1, PathBit
<1>7. ZValue(a1) \cap Bits(l) = {Pos(n) : n \in {k \in 1..l : Parent(b1)[k] = 1}}
  BY <1>6 DEF Bits
<1> QED
  BY <1>3, <1>5, <1>7

-----------------------------------------------------------------------------
\* The high end of the scanned interval has a 1 for every bit beyond the path.
LEMMA HiWord ==
    ASSUME NEW r \in Region
    PROVE  /\ Hi(ZValue(r)) \in Word
           /\ \A n \in 1..MaxZBits : Pos(n) \in Hi(ZValue(r)) <=> n > Len(r) \/ PaddedBit(r, n) = 1
<1>1. /\ Length(ZValue(r)) = Len(r) /\ Len(r) \in 0..MaxZBits /\ Len(r) \in 0..ZBits
      /\ ZValue(r) \in Word
      /\ \A n \in 1..MaxZBits : Pos(n) \in ZValue(r) <=> PaddedBit(r, n) = 1
  BY WordOfRegion
<1> DEFINE rest == LengthBits..(LengthBits + MaxZBits - Len(r) - 1)
<1>2. Hi(ZValue(r)) = ZValue(r) \cup rest
  BY <1>1, Sizes DEF Hi, Mask
<1>3. \A n \in 1..MaxZBits : Pos(n) \in rest <=> n > Len(r)
  BY <1>1, Sizes DEF Pos
<1>4. rest \subseteq 0..(WordBits - 2)
  BY <1>1, Sizes
<1> HIDE DEF rest
<1> QED
  BY <1>1, <1>2, <1>3, <1>4 DEF Word

\* A region within another is below its high end: in the lowest path bit, if
\* not before, where regions below the maximal length have a 0.
LEMMA WithinIsBelowHi ==
    ASSUME NEW a1 \in Region, NEW b1 \in Region, Prefix(a1, b1)
    PROVE  Less(ZValue(b1), Hi(ZValue(a1)))
<1>1. /\ Len(a1) \in 0..ZBits /\ Len(b1) \in 0..ZBits
      /\ ZValue(b1) \in Word /\ Hi(ZValue(a1)) \in Word
      /\ \A n \in 1..MaxZBits : Pos(n) \in ZValue(b1) <=> PaddedBit(b1, n) = 1
      /\ \A n \in 1..MaxZBits :
            Pos(n) \in Hi(ZValue(a1)) <=> n > Len(a1) \/ PaddedBit(a1, n) = 1
  BY WordOfRegion, HiWord
<1> DEFINE D == {n \in 1..MaxZBits : Pos(n) \in Hi(ZValue(a1)) /\ Pos(n) \notin ZValue(b1)}
<1>2. MaxZBits \in D
  <2>1. MaxZBits \in 1..MaxZBits /\ MaxZBits > Len(a1) /\ ~(MaxZBits <= Len(b1))
    BY <1>1, Positions
  <2> QED
    BY <1>1, <2>1 DEF PaddedBit
<1>3. D \in SUBSET Nat
  OBVIOUS
<1>4. PICK n \in D : \A m \in D : n <= m
  BY <1>2, <1>3, LeastElement
<1>5. n \in 1..MaxZBits /\ Pos(n) \in Hi(ZValue(a1)) /\ Pos(n) \notin ZValue(b1)
  BY <1>4
<1>6. ASSUME NEW k \in 1..(n - 1)
      PROVE  Pos(k) \in ZValue(b1) <=> Pos(k) \in Hi(ZValue(a1))
  <2>1. k \in 1..MaxZBits /\ k \notin D
    BY <1>4, <1>5, Positions
  <2>2. CASE k > Len(a1)
    BY <1>1, <2>1, <2>2
  <2>3. CASE k <= Len(a1)
    <3>1. PaddedBit(a1, k) = PaddedBit(b1, k)
      BY <1>1, <2>1, <2>3 DEF Prefix, PaddedBit
    <3> QED
      BY <1>1, <2>1, <2>3, <3>1
  <2> QED
    BY <1>1, <2>1, <2>2, <2>3
<1> QED
  BY <1>1, <1>5, <1>6, FirstBitDecides

\* A region within another is not before it: its path is no smaller, and longer.
LEMMA WithinIsNotBefore ==
    ASSUME NEW a1 \in Region, NEW b1 \in Region, Prefix(a1, b1)
    PROVE  ~Before(b1, a1)
<1>1. /\ Len(a1) \in 0..ZBits /\ Len(b1) \in 0..ZBits /\ Len(a1) <= Len(b1)
      /\ \A n \in 1..ZBits : PaddedBit(b1, n) \in Bit
  BY WordOfRegion, Positions DEF Prefix
<1>2. \A n \in 1..ZBits : ~(PaddedBit(b1, n) < PaddedBit(a1, n))
  <2> SUFFICES ASSUME NEW n \in 1..ZBits PROVE ~(PaddedBit(b1, n) < PaddedBit(a1, n))
    OBVIOUS
  <2>1. CASE n <= Len(a1)
    <3>1. PaddedBit(b1, n) = PaddedBit(a1, n)
      BY <1>1, <2>1 DEF Prefix, PaddedBit
    <3> QED
      BY <1>1, <3>1 DEF Bit
  <2>2. CASE ~(n <= Len(a1))
    <3>1. PaddedBit(a1, n) = 0
      BY <2>2 DEF PaddedBit
    <3> QED
      BY <1>1, <3>1 DEF Bit
  <2> QED
    BY <2>1, <2>2
<1>3. ~(Len(b1) < Len(a1))
  BY <1>1
<1> QED
  BY <1>2, <1>3 DEF Before

\* What is in the interval has the path of the query's region: where it would
\* turn left instead it is before the low end, where right, behind the high end.
LEMMA InIntervalIsWithin ==
    ASSUME NEW a1 \in Region, NEW b1 \in Region,
           ~Before(b1, a1), Less(ZValue(b1), Hi(ZValue(a1)))
    PROVE  Prefix(a1, b1)
<1>1. /\ Len(a1) \in 0..ZBits /\ Len(b1) \in 0..ZBits
      /\ ZValue(b1) \in Word /\ Hi(ZValue(a1)) \in Word
      /\ \A n \in 1..MaxZBits : Pos(n) \in ZValue(b1) <=> PaddedBit(b1, n) = 1
      /\ \A n \in 1..MaxZBits :
            Pos(n) \in Hi(ZValue(a1)) <=> n > Len(a1) \/ PaddedBit(a1, n) = 1
      /\ \A n \in 1..MaxZBits : PaddedBit(a1, n) \in Bit /\ PaddedBit(b1, n) \in Bit
  BY WordOfRegion, HiWord
<1>2. /\ \A n \in 1..ZBits : n \in 1..MaxZBits
      /\ \A n \in 1..Len(a1) : n \in 1..ZBits
  BY <1>1, Sizes
<1>3. ASSUME Len(a1) <= Len(b1), \A n \in 1..Len(a1) : PaddedBit(a1, n) = PaddedBit(b1, n)
      PROVE  Prefix(a1, b1)
  BY <1>1, <1>3 DEF Prefix, PaddedBit
<1>4. CASE \A n \in 1..ZBits : PaddedBit(a1, n) = PaddedBit(b1, n)
  <2>1. ~(Len(b1) < Len(a1))
    BY <1>4 DEF Before
  <2> QED
    BY <1>1, <1>3, <1>4, <1>2, <2>1
<1>5. ASSUME NEW n \in 1..ZBits, PaddedBit(a1, n) < PaddedBit(b1, n),
             \A k \in 1..(n - 1) : PaddedBit(a1, k) = PaddedBit(b1, k)
      PROVE  Prefix(a1, b1)
  <2>1. n \in 1..MaxZBits /\ PaddedBit(a1, n) # 1 /\ PaddedBit(b1, n) = 1
    BY <1>1, <1>5, <1>2 DEF Bit
  <2>2. n <= Len(b1)
    BY <2>1 DEF PaddedBit
  <2>3. CASE n > Len(a1)
    BY <1>1, <1>3, <1>5, <2>2, <2>3
  <2>4. CASE n <= Len(a1)
    <3>1. Pos(n) \in ZValue(b1) /\ Pos(n) \notin Hi(ZValue(a1))
      BY <1>1, <2>1, <2>4
    <3>2. ASSUME NEW k \in 1..(n - 1)
          PROVE  Pos(k) \in Hi(ZValue(a1)) <=> Pos(k) \in ZValue(b1)
      <4>1. k \in 1..MaxZBits /\ ~(k > Len(a1)) /\ PaddedBit(a1, k) = PaddedBit(b1, k)
        BY <1>1, <1>5, <2>1, <2>4, Sizes
      <4> QED
        BY <1>1, <4>1
    <3>3. Less(Hi(ZValue(a1)), ZValue(b1))
      BY <1>1, <2>1, <3>1, <3>2, FirstBitDecides
    <3> QED
      BY <1>1, <3>3, LessIsStrict
  <2> QED
    BY <1>1, <2>3, <2>4
<1>6. Before(a1, b1) \/ \A n \in 1..ZBits : PaddedBit(a1, n) = PaddedBit(b1, n)
  BY InOrderOrSame
<1> QED
  BY <1>4, <1>5, <1>6 DEF Before

-----------------------------------------------------------------------------
\* The pairs are pairs of regions.
PairOfRegions == a \in Region /\ b \in Region

\* The variables always hold regions of the space.
LEMMA Pairs == PairsSpec => []PairOfRegions
<1>1. Whole \in Region
  BY Positions DEF Whole, Region
<1>2. PairsInit => PairOfRegions
  BY <1>1 DEF PairsInit, PairOfRegions
<1>3. PairOfRegions /\ [PairsNext]_<<a, b>> => PairOfRegions'
  <2> SUFFICES ASSUME PairOfRegions, [PairsNext]_<<a, b>> PROVE PairOfRegions'
    OBVIOUS
  <2>1. CASE Descend
    <3>1. PICK bit \in Bit : Len(b) < ZBits /\ b' = Append(b, bit) /\ a' = a
      BY <2>1 DEF Descend, Child
    <3>2. b \in Seq(Bit) /\ Len(b) \in Nat
      BY DEF PairOfRegions, Region
    <3>3. Append(b, bit) \in Seq(Bit) /\ Len(Append(b, bit)) = Len(b) + 1
      BY <3>2
    <3> QED
      BY <3>1, <3>2, <3>3, Positions DEF PairOfRegions, Region
  <2>2. CASE Exchange
    BY <2>2 DEF Exchange, PairOfRegions
  <2>3. CASE Restart
    BY <1>1, <2>3 DEF Restart, PairOfRegions
  <2>4. CASE UNCHANGED <<a, b>>
    BY <2>4 DEF PairOfRegions
  <2> QED
    BY <2>1, <2>2, <2>3, <2>4 DEF PairsNext
<1> QED
  BY <1>2, <1>3, PTL DEF PairsSpec

\* For every resolution below the maximum: sorting z-values as integers puts
\* them in the order of the paths, on which the merge loop and the index rely.
THEOREM OrderIsPathOrder == PairsSpec => []OrderAgrees
<1>1. PairOfRegions => OrderAgrees
  BY LessIsBefore DEF PairOfRegions, OrderAgrees
<1> QED
  BY <1>1, Pairs, PTL

\* For every resolution below the maximum: contains, siblingOf and parent
\* compute with masks what they say of regions.
THEOREM MasksAreRegions == PairsSpec => []SiblingsAgree
<1>1. PairOfRegions => SiblingsAgree
  BY CellsOfPrefix, ContainsIsPrefix, SiblingWords, ParentWord DEF PairOfRegions, SiblingsAgree
<1> QED
  BY <1>1, Pairs, PTL

\* For every resolution below the maximum: the interval of integers that a
\* search scans holds the z-values within the query's, and no others.
THEOREM IntervalIsRegion == PairsSpec => []IntervalExact
<1>1. PairOfRegions => IntervalExact
  <2> SUFFICES ASSUME PairOfRegions PROVE IntervalExact
    OBVIOUS
  <2>1. a \in Region /\ b \in Region
    BY DEF PairOfRegions
  <2>2. Less(ZValue(b), Lo(ZValue(a))) <=> Before(b, a)
    BY <2>1, LessIsBefore DEF Lo
  <2> QED
    BY <2>1, <2>2, CellsOfPrefix, WithinIsBelowHi, WithinIsNotBefore, InIntervalIsWithin
       DEF IntervalExact
<1> QED
  BY <1>1, Pairs, PTL
-----------------------------------------------------------------------------
\* The searches of the index.  The invariant: an object is filed under the
\* z-values of one decomposition of it, each of them once; frozen records are
\* in order; the z-values of a search are those of one decomposition of the
\* query, each of them once; the scan of a z-value has passed every record
\* before it; and so far an object that overlaps the query has been reported
\* once for every record and z-value that match and have been passed.
Values(d) == {ZValue(r) : r \in d}

ValuesOf(rs, soid) == {rs[k][1] : k \in {n \in DOMAIN rs : rs[n][2] = soid}}

Unique == \A j, k \in DOMAIN records : records[j] = records[k] => j = k

FrozenInOrder ==
    frozen => \A j, k \in DOMAIN records : j < k => KeyLess(records[j], records[k])

Filed ==
    /\ \A n \in DOMAIN records : records[n][2] \in DOMAIN objects
    /\ \A soid \in DOMAIN objects :
          \E d \in Decompositions[objects[soid]] : ValuesOf(records, soid) = Values(d)

QueryDecomposed ==
    searching \/ query # {} =>
        /\ query \in Shapes
        /\ \E d \in Decompositions[query] : Range(zs) = Values(d)
        /\ \A j, k \in DOMAIN zs : zs[j] = zs[k] => j = k

Scanning ==
    /\ searching \/ query # {} => frozen
    /\ position > 0 =>
          /\ searching /\ i \in DOMAIN zs
          /\ \A n \in DOMAIN records : n >= position => ~Less(records[n][1], zs[i])
    /\ Answered => i > Len(zs)

\* The records and z-values that match.
Matches(rs, ws, soid) ==
    {p \in (DOMAIN rs) \X (DOMAIN ws) :
        rs[p[1]][2] = soid /\ ContainsZ(ws[p[2]], rs[p[1]][1])}

\* The pair has been passed when record n of z-value k is next.
Passed(p, k, n) == p[2] < k \/ (p[2] = k /\ p[1] < n)

Done(rs, ws, soid, k, n) == Cardinality({p \in Matches(rs, ws, soid) : Passed(p, k, n)})

\* How often x is in the sequence s.
CountIn(s, x) == Cardinality({n \in DOMAIN s : s[n] = x})

Counted ==
    searching \/ Answered =>
        \A soid \in DOMAIN objects :
            CountIn(SubSeq(output, kept + 1, Len(output)), soid) =
                IF objects[soid] \cap query # {} THEN Done(records, zs, soid, i, position) ELSE 0

IInv ==
    /\ TypeOK /\ Unique /\ FrozenInOrder /\ Filed
    /\ QueryDecomposed /\ Scanning /\ Counted

-----------------------------------------------------------------------------
\* The order of words is an order.
LEMMA LessTransitive ==
    ASSUME NEW u \in Word, NEW v \in Word, NEW w \in Word, Less(u, v), Less(v, w)
    PROVE  Less(u, w)
<1>1. PICK k \in v \ u : \A j \in u \cup v : j > k => j \in u \cap v
  BY DEF Less
<1>2. PICK l \in w \ v : \A j \in v \cup w : j > l => j \in v \cap w
  BY DEF Less
<1>3. k \in Int /\ l \in Int /\ k # l /\ \A j \in u \cup v \cup w : j \in Int
  BY <1>1, <1>2, Sizes DEF Word
<1>4. CASE k > l
  <2>1. k \in w \ u
    BY <1>1, <1>2, <1>4
  <2>2. \A j \in u \cup w : j > k => j \in u \cap w
    BY <1>1, <1>2, <1>3, <1>4
  <2> QED
    BY <2>1, <2>2 DEF Less
<1>5. CASE l > k
  <2>1. l \in w \ u
    BY <1>1, <1>2, <1>5
  <2>2. \A j \in u \cup w : j > l => j \in u \cap w
    BY <1>1, <1>2, <1>3, <1>5
  <2> QED
    BY <2>1, <2>2 DEF Less
<1> QED
  BY <1>3, <1>4, <1>5

LEMMA LessTotal ==
    ASSUME NEW v \in Word, NEW w \in Word, v # w
    PROVE  Less(v, w) \/ Less(w, v)
<1> DEFINE D == (v \ w) \cup (w \ v)
           M == {m \in Nat : \A j \in D : j <= m}
<1>1. WordBits \in Nat /\ WordBits - 2 \in Int /\ D # {}
      /\ \A j \in v \cup w : j \in 0..(WordBits - 2)
  BY Sizes DEF Word
<1>2. M \in SUBSET Nat /\ WordBits - 2 \in M
  BY <1>1
<1>3. PICK m \in M : \A x \in M : m <= x
  BY <1>2, LeastElement
<1>4. m \in D
  <2> SUFFICES ASSUME m \notin D
               PROVE  FALSE
    OBVIOUS
  <2>1. m \in Nat /\ \A j \in D : j <= m /\ j \in Nat /\ j # m
    BY <1>1, <1>3
  <2>2. PICK j \in D : TRUE
    BY <1>1
  <2>3. m - 1 \in Nat /\ \A e \in D : e <= m - 1
    BY <2>1, <2>2
  <2> QED
    BY <1>3, <2>1, <2>3
<1>5. \A j \in v \cup w : j > m => j \in v \cap w
  BY <1>1, <1>3
<1> QED
  BY <1>4, <1>5 DEF Less

\* The set of words is finite, and so is every set of them.
LEMMA WordsFinite ==
    ASSUME NEW S, S \subseteq Word
    PROVE  IsFiniteSet(S)
<1>1. IsFiniteSet(0..(WordBits - 2))
  <2>1. 0 \in Int /\ WordBits - 2 \in Int
    BY Sizes
  <2> QED
    BY <2>1, FS_Interval
<1>2. IsFiniteSet(Word)
  BY <1>1, FS_SUBSET DEF Word
<1> QED
  BY <1>2, FS_Subset

-----------------------------------------------------------------------------
\* What the sorts leave.
Record == Word \X Soids

\* The keys of records are ordered.
LEMMA KeyOrder ==
    /\ \A k \in Record : ~KeyLess(k, k)
    /\ \A k, l \in Record : k # l => KeyLess(k, l) \/ KeyLess(l, k)
    /\ \A k, l, m \in Record : KeyLess(k, l) /\ KeyLess(l, m) => KeyLess(k, m)
<1>1. \A k \in Record : k[1] \in Word /\ k[2] \in Int /\ k = <<k[1], k[2]>>
  <2> SUFFICES ASSUME NEW k \in Record
               PROVE  k[1] \in Word /\ k[2] \in Int /\ k = <<k[1], k[2]>>
    OBVIOUS
  <2>1. k[1] \in Word /\ k[2] \in Soids /\ k = <<k[1], k[2]>>
    BY DEF Record
  <2> QED
    BY <2>1, ObjectsAssumption
<1>2. \A v, w \in Word : /\ ~Less(v, v)
                         /\ v # w => Less(v, w) \/ Less(w, v)
  BY LessIsStrict, LessTotal
<1>3. \A u, v, w \in Word : Less(u, v) /\ Less(v, w) => Less(u, w)
  BY LessTransitive
<1>4. ASSUME NEW k \in Record PROVE ~KeyLess(k, k)
  BY <1>1, <1>2 DEF KeyLess
<1>5. ASSUME NEW k \in Record, NEW l \in Record, k # l
      PROVE  KeyLess(k, l) \/ KeyLess(l, k)
  <2>1. k[1] \in Word /\ l[1] \in Word /\ k[2] \in Int /\ l[2] \in Int
    BY <1>1
  <2>2. k[1] # l[1] \/ k[2] # l[2]
    BY <1>1, <1>5
  <2>3. CASE k[1] # l[1]
    BY <1>2, <2>1, <2>3 DEF KeyLess
  <2>4. CASE k[1] = l[1]
    BY <2>1, <2>2, <2>4 DEF KeyLess
  <2> QED
    BY <2>3, <2>4
<1>6. ASSUME NEW k \in Record, NEW l \in Record, NEW m \in Record,
             KeyLess(k, l), KeyLess(l, m)
      PROVE  KeyLess(k, m)
  <2>1. /\ k[1] \in Word /\ l[1] \in Word /\ m[1] \in Word
        /\ k[2] \in Int /\ l[2] \in Int /\ m[2] \in Int
    BY <1>1
  <2>2. Less(k[1], l[1]) /\ Less(l[1], m[1]) => Less(k[1], m[1])
    BY <1>3, <2>1
  <2> QED
    BY <1>6, <2>1, <2>2 DEF KeyLess
<1> QED
  BY <1>4, <1>5, <1>6

\* Records are left in order, each of them once.
LEMMA SortedRecords ==
    ASSUME records \in Seq(Record), Unique, Freeze, NEW r, r = records'
    PROVE  /\ r \in Seq(Record) /\ Range(r) = Range(records)
           /\ \A j, k \in DOMAIN r : j < k => KeyLess(r[j], r[k])
           /\ \A j, k \in DOMAIN r : r[j] = r[k] => j = k
           /\ (\A j, k \in DOMAIN records : j < k => KeyLess(records[j], records[k]))
                => r = records
<1> DEFINE S == Range(records)
           m == Len(records)
<1>a. /\ m \in Nat /\ DOMAIN records = 1..m /\ S \subseteq Record
      /\ records \in [1..m -> S]
      /\ \A e \in S : \E k \in 1..m : records[k] = e
  BY DEF Range
<1>b. IsFiniteSet(S) /\ Cardinality(S) = m
  <2>1. records \in Bijection(1..m, S)
    BY <1>a, Fun_IsBij DEF Unique
  <2>2. IsFiniteSet(1..m) /\ Cardinality(1..m) = m
    <3>1. m \in Nat
      BY <1>a
    <3> HIDE DEF S, m
    <3>2. IsFiniteSet(1..m) /\ Cardinality(1..m) = IF 1 > m THEN 0 ELSE m - 1 + 1
      BY ONLY <3>1, FS_Interval
    <3> QED
      BY ONLY <3>1, <3>2
  <2> QED
    BY <2>1, <2>2, FS_Bijection DEF ExistsBijection
<1>c. r = [k \in 1..Cardinality(S) |->
              CHOOSE e \in S : Cardinality({d \in S : KeyLess(d, e)}) = k - 1]
  BY DEF Freeze, Sorted
<1> DEFINE R == {p \in Record \X Record : KeyLess(p[1], p[2])}
<1> HIDE DEF S, m
<1>1. \A x, y \in S : <<x, y>> \in R <=> KeyLess(x, y)
  BY <1>a
<1> HIDE DEF R
<1>2. Orders(S, R)
  BY <1>a, <1>1, KeyOrder DEF Orders
<1>3. \A e \in S : {d \in S : KeyLess(d, e)} = {d \in S : <<d, e>> \in R}
  BY <1>1
<1>4. PICK f : /\ Arranges(f, Cardinality(S), S, R) /\ Cardinality(S) \in Nat
              /\ \A k \in 1..Cardinality(S), e \in S :
                    Cardinality({d \in S : <<d, e>> \in R}) = k - 1 <=> e = f[k]
  BY ONLY <1>b, <1>2, Arrangement
<1>5. /\ f \in [1..Cardinality(S) -> S]
      /\ \A e \in S : \E k \in 1..Cardinality(S) : f[k] = e
      /\ \A j, k \in 1..Cardinality(S) : j < k <=> <<f[j], f[k]>> \in R
  BY ONLY <1>4 DEF Arranges
<1>6. r = f
  <2> DEFINE Is(e, k) == Cardinality({d \in S : KeyLess(d, e)}) = k - 1
             One(k) == CHOOSE e \in S : Is(e, k)
  <2>1. r = [k \in 1..Cardinality(S) |-> One(k)]
    BY ONLY <1>c
  <2>2. \A k \in 1..Cardinality(S), e \in S : Is(e, k) <=> e = f[k]
    BY ONLY <1>3, <1>4
  <2> HIDE DEF Is
  <2>3. \A k \in 1..Cardinality(S) : One(k) = f[k]
    BY ONLY <1>5, <2>2
  <2> HIDE DEF One
  <2> QED
    BY ONLY <1>5, <2>1, <2>3
<1> DEFINE N == Cardinality(S)
<1>7. DOMAIN r = 1..N /\ N \in Nat /\ r \in [1..N -> S]
  BY ONLY <1>4, <1>5, <1>6
<1>8. r \in Seq(Record)
  <2>1. S \subseteq Record
    BY <1>a
  <2> HIDE DEF N
  <2> QED
    BY ONLY <1>7, <2>1
<1>9. Range(r) = S
  BY ONLY <1>5, <1>6, <1>7 DEF Range
<1>10. \A j, k \in DOMAIN r : j < k => KeyLess(r[j], r[k])
  <2>1. \A j, k \in DOMAIN r : r[j] \in S /\ r[k] \in S
    BY ONLY <1>7
  <2>2. \A j, k \in DOMAIN r : j < k => <<r[j], r[k]>> \in R
    BY ONLY <1>5, <1>6, <1>7
  <2> QED
    BY ONLY <1>1, <2>1, <2>2
<1>11. \A j, k \in DOMAIN r : r[j] = r[k] => j = k
  <2> SUFFICES ASSUME NEW j \in DOMAIN r, NEW k \in DOMAIN r, r[j] = r[k] PROVE j = k
    OBVIOUS
  <2>1. j \in DOMAIN r /\ k \in DOMAIN r /\ r[j] = r[k]
    OBVIOUS
  <2>2. j \in 1..N /\ k \in 1..N /\ j \in Int /\ k \in Int
    BY ONLY <1>7, <2>1
  <2>3. r[j] \in S /\ <<r[j], r[j]>> \notin R
    BY ONLY <1>2, <1>7, <2>2 DEF Orders
  <2>4. ~(j < k) /\ ~(k < j)
    BY ONLY <1>5, <1>6, <2>1, <2>2, <2>3
  <2> QED
    BY ONLY <2>2, <2>4
<1>12. ASSUME \A j, k \in DOMAIN records : j < k => KeyLess(records[j], records[k])
       PROVE  r = records
  <2>1. \A j, k \in 1..m : j < k => <<records[j], records[k]>> \in R
    BY ONLY <1>1, <1>a, <1>12
  <2>2. \A j, k \in 1..m : j < k <=> <<records[j], records[k]>> \in R
    <3>a. ASSUME NEW j \in 1..m, NEW k \in 1..m, <<records[j], records[k]>> \in R
          PROVE  j < k
      <4>1. j \in 1..m /\ k \in 1..m /\ <<records[j], records[k]>> \in R /\ m \in Nat
        BY ONLY <1>a, <3>a, j \in 1..m, k \in 1..m
      <4>2. j \in Int /\ k \in Int
        BY ONLY <4>1
      <4>3. records[j] \in S /\ records[k] \in S
        BY ONLY <1>a, <4>1
      <4>4. ~(k < j) /\ j # k
        BY ONLY <1>2, <2>1, <4>1, <4>3 DEF Orders
      <4> QED
        BY ONLY <4>2, <4>4
    <3> QED
      BY ONLY <2>1, <3>a
  <2>3. Arranges(records, m, S, R)
    BY ONLY <1>a, <2>2 DEF Arranges
  <2>4. Arranges(f, m, S, R)
    BY ONLY <1>b, <1>4
  <2>5. m \in Nat
    BY <1>a
  <2> QED
    BY ONLY <1>2, <1>6, <2>3, <2>4, <2>5, SameArrangement
<1> QED
  BY <1>8, <1>9, <1>10, <1>11, <1>12 DEF S

-----------------------------------------------------------------------------
\* What decompositions are.
LEMMA DecompositionFacts ==
    ASSUME NEW s \in Shapes, NEW d \in Decompositions[s]
    PROVE  /\ d \subseteq Region /\ Values(d) \subseteq Word /\ IsFiniteSet(Values(d))
           /\ \A c \in s : \E r \in d : c \in Cells(r)
           /\ \A r, q \in d : r # q => Cells(r) \cap Cells(q) = {}
           /\ \A c \in s, n \in 0..ZBits : s \subseteq Cells(SubSeq(c, 1, n)) =>
                  \A r \in d : Cells(r) \subseteq Cells(SubSeq(c, 1, n))
<1>1. Approximates(d, s)
  BY DecompositionsAssumption
<1>2. d \subseteq Region
  BY <1>1 DEF Approximates
<1>3. Values(d) \subseteq Word
  BY <1>2, WordOfRegion DEF Values
<1>4. IsFiniteSet(Values(d))
  BY <1>3, WordsFinite
<1>5. \A c \in s : \E r \in d : c \in Cells(r)
  BY <1>1 DEF Approximates
<1>6. \A r, q \in d : r # q => Cells(r) \cap Cells(q) = {}
  BY <1>1 DEF Approximates
<1>7. \A c \in s, n \in 0..ZBits : s \subseteq Cells(SubSeq(c, 1, n)) =>
          \A r \in d : Cells(r) \subseteq Cells(SubSeq(c, 1, n))
  BY <1>1 DEF Approximates, ContainedBy
<1> QED
  BY <1>2, <1>3, <1>4, <1>5, <1>6, <1>7

\* The z-values in the order in which decompose leaves them.
LEMMA InOrderFacts ==
    ASSUME NEW s \in Shapes, NEW dec \in Decompositions[s], NEW r, r = InOrder(dec)
    PROVE  /\ r \in Seq(Word) /\ Range(r) = Values(dec)
           /\ \A j, k \in DOMAIN r : r[j] = r[k] => j = k
<1> DEFINE S == Values(dec)
<1>a. S \subseteq Word /\ IsFiniteSet(S)
  BY DecompositionFacts
<1>b. r = [k \in 1..Cardinality(S) |->
              CHOOSE e \in S : Cardinality({d \in S : Less(d, e)}) = k - 1]
  BY DEF InOrder, Sorted, Values
<1> HIDE DEF S
<1> DEFINE R == {p \in S \X S : Less(p[1], p[2])}
<1>1. \A x, y \in S : <<x, y>> \in R <=> Less(x, y)
  OBVIOUS
<1> HIDE DEF R
<1>2. Orders(S, R)
  BY <1>a, <1>1, LessIsStrict, LessTotal, LessTransitive DEF Orders
<1>3. \A e \in S : {d \in S : Less(d, e)} = {d \in S : <<d, e>> \in R}
  BY <1>1
<1>4. PICK f : /\ Arranges(f, Cardinality(S), S, R) /\ Cardinality(S) \in Nat
              /\ \A k \in 1..Cardinality(S), e \in S :
                    Cardinality({d \in S : <<d, e>> \in R}) = k - 1 <=> e = f[k]
  BY ONLY <1>a, <1>2, Arrangement
<1>5. /\ f \in [1..Cardinality(S) -> S]
      /\ \A e \in S : \E k \in 1..Cardinality(S) : f[k] = e
      /\ \A j, k \in 1..Cardinality(S) : j < k <=> <<f[j], f[k]>> \in R
  BY ONLY <1>4 DEF Arranges
<1>6. r = f
  <2> DEFINE Is(e, k) == Cardinality({d \in S : Less(d, e)}) = k - 1
             One(k) == CHOOSE e \in S : Is(e, k)
  <2>1. r = [k \in 1..Cardinality(S) |-> One(k)]
    BY ONLY <1>b
  <2>2. \A k \in 1..Cardinality(S), e \in S : Is(e, k) <=> e = f[k]
    BY ONLY <1>3, <1>4
  <2> HIDE DEF Is
  <2>3. \A k \in 1..Cardinality(S) : One(k) = f[k]
    BY ONLY <1>5, <2>2
  <2> HIDE DEF One
  <2> QED
    BY ONLY <1>5, <2>1, <2>3
<1> DEFINE N == Cardinality(S)
<1>7. DOMAIN r = 1..N /\ N \in Nat /\ r \in [1..N -> S]
  BY ONLY <1>4, <1>5, <1>6
<1>8. r \in Seq(Word)
  <2>1. S \subseteq Word
    BY <1>a
  <2> HIDE DEF N
  <2> QED
    BY ONLY <1>7, <2>1
<1>9. Range(r) = S
  BY ONLY <1>5, <1>6, <1>7 DEF Range
<1>10. \A j, k \in DOMAIN r : r[j] = r[k] => j = k
  <2> SUFFICES ASSUME NEW j \in DOMAIN r, NEW k \in DOMAIN r, r[j] = r[k] PROVE j = k
    OBVIOUS
  <2>1. j \in DOMAIN r /\ k \in DOMAIN r /\ r[j] = r[k]
    OBVIOUS
  <2>2. j \in 1..N /\ k \in 1..N /\ j \in Int /\ k \in Int
    BY ONLY <1>7, <2>1
  <2>3. r[j] \in S /\ <<r[j], r[j]>> \notin R
    BY ONLY <1>2, <1>7, <2>2 DEF Orders
  <2>4. ~(j < k) /\ ~(k < j)
    BY ONLY <1>5, <1>6, <2>1, <2>2, <2>3
  <2> QED
    BY ONLY <2>2, <2>4
<1> QED
  BY ONLY <1>8, <1>9, <1>10 DEF S

\* A search by interval is a search by containment.
LEMMA ScanIsContainment ==
    ASSUME NEW q \in Region, NEW r \in Region
    PROVE  /\ ContainsZ(ZValue(q), ZValue(r)) <=>
                  ~Less(ZValue(r), ZValue(q)) /\ Less(ZValue(r), Hi(ZValue(q)))
           /\ ZValue(q) \in Word /\ ZValue(r) \in Word /\ Hi(ZValue(q)) \in Word
<1>1. ContainsZ(ZValue(q), ZValue(r)) <=> Prefix(q, r)
  BY ContainsIsPrefix
<1>2. Less(ZValue(r), ZValue(q)) <=> Before(r, q)
  BY LessIsBefore
<1>3. Prefix(q, r) => ~Before(r, q) /\ Less(ZValue(r), Hi(ZValue(q)))
  BY WithinIsBelowHi, WithinIsNotBefore
<1>4. ~Before(r, q) /\ Less(ZValue(r), Hi(ZValue(q))) => Prefix(q, r)
  BY InIntervalIsWithin
<1> QED
  BY <1>1, <1>2, <1>3, <1>4, WordOfRegion, HiWord

\* A cell is a region, and the regions that have it are its prefixes.
LEMMA CellFacts ==
    ASSUME NEW c \in Cell
    PROVE  /\ c \in Region /\ Len(c) = ZBits /\ SubSeq(c, 1, ZBits) = c
           /\ Cells(c) = {c}
           /\ \A r \in Region : c \in Cells(r) <=> ContainsZ(ZValue(r), ZValue(c))
<1>1. ZBits \in Nat
  BY Sizes
<1>2. c \in Seq(Bit) /\ Len(c) = ZBits /\ DOMAIN c = 1..ZBits
  BY <1>1 DEF Cell
<1>3. c \in Region
  BY <1>1, <1>2 DEF Region
<1>4. SubSeq(c, 1, ZBits) = c
  BY <1>1, <1>2
<1>5. Cells(c) = {c}
  <2>1. c \in Cells(c)
    BY DEF Cells, Has
  <2>2. ASSUME NEW e \in Cells(c) PROVE e = c
    <3>1. /\ e \in [1..ZBits -> Bit] /\ c \in [1..ZBits -> Bit]
          /\ \A n \in 1..ZBits : e[n] = c[n]
      BY <1>2 DEF Cells, Has, Cell
    <3>2. e = [n \in 1..ZBits |-> e[n]] /\ c = [n \in 1..ZBits |-> c[n]]
      BY <3>1
    <3> QED
      BY ONLY <3>1, <3>2
  <2> QED
    BY <2>1, <2>2
<1>6. ASSUME NEW r \in Region
      PROVE  c \in Cells(r) <=> ContainsZ(ZValue(r), ZValue(c))
  <2>1. Len(r) <= Len(c)
    BY <1>2 DEF Region
  <2>2. c \in Cells(r) <=> Prefix(r, c)
    BY <2>1 DEF Cells, Has, Prefix
  <2> QED
    BY <1>3, <2>2, ContainsIsPrefix
<1> QED
  BY <1>2, <1>3, <1>4, <1>5, <1>6

\* An object of one cell has one decomposition: the cell.
LEMMA PointDecomposition ==
    ASSUME NEW c \in Cell, {c} \in Shapes, NEW d \in Decompositions[{c}]
    PROVE  d = {c}
<1>1. Cells(SubSeq(c, 1, ZBits)) = {c} /\ ZBits \in 0..ZBits /\ c \in Region
  <2>1. SubSeq(c, 1, ZBits) = c /\ Cells(c) = {c} /\ c \in Region
    BY CellFacts
  <2>2. ZBits \in 0..ZBits
    BY Sizes
  <2> QED
    BY <2>1, <2>2
<1>2. d \subseteq Region /\ \A r \in d : Cells(r) \subseteq {c}
  BY <1>1, DecompositionFacts
<1>3. PICK r \in d : c \in Cells(r)
  BY DecompositionFacts
<1>4. ASSUME NEW q \in d PROVE q = c
  <2>1. q \in Region /\ Cells(q) \subseteq Cells(c)
    BY <1>1, <1>2, CellFacts
  <2>2. Prefix(c, q) /\ Len(c) = ZBits
    BY <1>1, <2>1, CellsOfPrefix, CellFacts
  <2>3. Len(q) = ZBits /\ q \in Seq(Bit) /\ c \in Seq(Bit) /\ \A n \in 1..ZBits : c[n] = q[n]
    BY <1>1, <2>1, <2>2, Sizes DEF Prefix, Region
  <2> QED
    BY <2>2, <2>3
<1> QED
  BY <1>3, <1>4

-----------------------------------------------------------------------------
\* What the invariant says of the records and of the search.
LEMMA RecordsTyped ==
    ASSUME TypeOK
    PROVE  /\ records \in Seq(Record) /\ Len(records) \in Nat
           /\ DOMAIN records = 1..Len(records)
           /\ \A n \in DOMAIN records :
                 /\ records[n] \in Record
                 /\ records[n] = <<records[n][1], records[n][2]>>
                 /\ records[n][1] \in Word /\ records[n][2] \in Soids
           /\ Range(records) = {records[n] : n \in DOMAIN records}
<1>1. records \in Seq(Record)
  BY DEF TypeOK, Record
<1>2. /\ Len(records) \in Nat /\ DOMAIN records = 1..Len(records)
      /\ \A n \in DOMAIN records : records[n] \in Record
  BY <1>1
<1>3. \A e \in Record : e = <<e[1], e[2]>> /\ e[1] \in Word /\ e[2] \in Soids
  BY DEF Record
<1> QED
  BY <1>1, <1>2, <1>3 DEF Range

LEMMA ValuesOfMembers ==
    ASSUME NEW rs, NEW o, NEW v
    PROVE  v \in ValuesOf(rs, o) <=> \E k \in DOMAIN rs : rs[k][2] = o /\ v = rs[k][1]
BY DEF ValuesOf

LEMMA RegionWords ==
    ASSUME IInv
    PROVE  /\ \A n \in DOMAIN records : \E r \in Region : records[n][1] = ZValue(r)
           /\ searching \/ query # {} =>
                 \A k \in DOMAIN zs : \E r \in Region : zs[k] = ZValue(r)
<1>1. TypeOK /\ Filed /\ QueryDecomposed
  BY DEF IInv
<1>2. \A soid \in DOMAIN objects : objects[soid] \in Shapes
  BY <1>1 DEF TypeOK, Range
<1>3. ASSUME NEW n \in DOMAIN records
      PROVE  \E r \in Region : records[n][1] = ZValue(r)
  <2> DEFINE soid == records[n][2]
  <2>1. soid \in DOMAIN objects
    BY <1>1 DEF Filed
  <2>2. PICK d \in Decompositions[objects[soid]] : ValuesOf(records, soid) = Values(d)
    BY <1>1, <2>1 DEF Filed
  <2>4. records[n][1] \in ValuesOf(records, soid)
    BY ValuesOfMembers
  <2>5. records[n][1] \in Values(d)
    BY <2>2, <2>4
  <2>6. d \subseteq Region
    BY <1>2, <2>1, DecompositionFacts
  <2> QED
    BY <2>5, <2>6 DEF Values
<1>4. ASSUME searching \/ query # {}, NEW k \in DOMAIN zs
      PROVE  \E r \in Region : zs[k] = ZValue(r)
  <2>1. PICK d \in Decompositions[query] : Range(zs) = Values(d)
    BY <1>1, <1>4 DEF QueryDecomposed
  <2>2. query \in Shapes
    BY <1>1, <1>4 DEF QueryDecomposed
  <2>3. zs[k] \in Values(d)
    BY <2>1 DEF Range
  <2>4. d \subseteq Region
    BY <2>2, DecompositionFacts
  <2> QED
    BY <2>3, <2>4 DEF Values
<1> QED
  BY <1>3, <1>4

\* What a scan meets: the z-value contains the record's if the record is in
\* the scan's interval.
LEMMA ScannedMatch ==
    ASSUME IInv, searching \/ query # {}, NEW n \in DOMAIN records, NEW k \in DOMAIN zs
    PROVE  /\ ContainsZ(zs[k], records[n][1]) <=>
                  ~Less(records[n][1], zs[k]) /\ Less(records[n][1], Hi(zs[k]))
           /\ zs[k] \in Word /\ records[n][1] \in Word /\ Hi(zs[k]) \in Word
<1>1. PICK r \in Region : records[n][1] = ZValue(r)
  BY RegionWords
<1>2. PICK q \in Region : zs[k] = ZValue(q)
  BY RegionWords
<1> QED
  BY <1>1, <1>2, ScanIsContainment

LEMMA MatchesFinite ==
    ASSUME TypeOK, NEW soid, NEW k, NEW n
    PROVE  /\ IsFiniteSet({p \in Matches(records, zs, soid) : Passed(p, k, n)})
           /\ Done(records, zs, soid, k, n) \in Nat
<1>1. Len(records) \in Nat /\ DOMAIN records = 1..Len(records)
  BY RecordsTyped
<1>2. Len(zs) \in Nat /\ DOMAIN zs = 1..Len(zs)
  BY DEF TypeOK
<1>3. IsFiniteSet(DOMAIN records) /\ IsFiniteSet(DOMAIN zs)
  BY <1>1, <1>2, FS_Interval
<1>4. IsFiniteSet((DOMAIN records) \X (DOMAIN zs))
  BY <1>3, FS_Product
<1>5. {p \in Matches(records, zs, soid) : Passed(p, k, n)} \subseteq (DOMAIN records) \X (DOMAIN zs)
  BY DEF Matches
<1>6. IsFiniteSet({p \in Matches(records, zs, soid) : Passed(p, k, n)})
  BY ONLY <1>4, <1>5, FS_Subset
<1> QED
  BY ONLY <1>6, FS_CardinalityType DEF Done

LEMMA CountAppend ==
    ASSUME NEW S, NEW s \in Seq(S), NEW y \in S, NEW x
    PROVE  /\ CountIn(s, x) \in Nat
           /\ CountIn(Append(s, y), x) = IF x = y THEN CountIn(s, x) + 1 ELSE CountIn(s, x)
<1> DEFINE t == Append(s, y)
           A == {n \in DOMAIN s : s[n] = x}
           B == {n \in DOMAIN t : t[n] = x}
           l == Len(s)
<1>1. /\ l \in Nat /\ DOMAIN s = 1..l /\ DOMAIN t = 1..(l + 1)
      /\ t[l + 1] = y /\ \A n \in 1..l : t[n] = s[n]
  OBVIOUS
<1>2. IsFiniteSet(A) /\ Cardinality(A) \in Nat
  <2>1. IsFiniteSet(1..l)
    BY <1>1, FS_Interval
  <2>2. A \subseteq 1..l
    BY <1>1
  <2> QED
    BY <2>1, <2>2, FS_Subset, FS_CardinalityType
<1>3. l + 1 \notin A
  BY <1>1
<1>4. B = IF x = y THEN A \cup {l + 1} ELSE A
  BY <1>1
<1>5. Cardinality(A \cup {l + 1}) = Cardinality(A) + 1
  BY <1>2, <1>3, FS_AddElement
<1> QED
  BY <1>2, <1>4, <1>5 DEF CountIn

LEMMA AnswerAppend ==
    ASSUME TypeOK, NEW y \in Soids
    PROVE  /\ SubSeq(output, kept + 1, Len(output)) \in Seq(Soids)
           /\ SubSeq(Append(output, y), kept + 1, Len(Append(output, y)))
                  = Append(SubSeq(output, kept + 1, Len(output)), y)
<1>1. output \in Seq(Soids) /\ kept \in 0..Len(output) /\ Len(output) \in Nat
  BY DEF TypeOK
<1> DEFINE o == Append(output, y)
           l == Len(output)
           s == SubSeq(output, kept + 1, l)
           t == SubSeq(o, kept + 1, l + 1)
<1>2. /\ Len(o) = l + 1 /\ o[l + 1] = y /\ o \in Seq(Soids)
      /\ \A n \in 1..l : o[n] = output[n]
  BY <1>1
<1>3. /\ s \in Seq(Soids) /\ Len(s) = l - kept
      /\ \A n \in 1..(l - kept) : s[n] = output[kept + n]
  BY <1>1
<1>4. /\ t \in Seq(Soids) /\ Len(t) = l + 1 - kept
      /\ \A n \in 1..(l + 1 - kept) : t[n] = o[kept + n]
  BY <1>1, <1>2
<1>5. /\ Append(s, y) \in Seq(Soids) /\ Len(Append(s, y)) = l + 1 - kept
      /\ \A n \in 1..(l - kept) : Append(s, y)[n] = s[n]
      /\ Append(s, y)[l + 1 - kept] = y
  BY <1>1, <1>3
<1>6. \A n \in 1..(l + 1 - kept) : Append(s, y)[n] = t[n]
  BY <1>1, <1>2, <1>3, <1>4, <1>5
<1>7. Append(s, y) = t
  BY <1>4, <1>5, <1>6, SeqEqual
<1> QED
  BY <1>2, <1>3, <1>7

-----------------------------------------------------------------------------
\* The steps keep the invariant.
LEMMA InitIndex == Init => IInv
<1> SUFFICES ASSUME Init
             PROVE  IInv
  OBVIOUS
<1>1. /\ objects = << >> /\ records = << >> /\ frozen = FALSE
      /\ searching = FALSE /\ query = {} /\ zs = << >> /\ i = 1 /\ position = 0
      /\ output = << >> /\ kept = 0
  BY DEF Init
<1>2. DOMAIN objects = {} /\ DOMAIN records = {} /\ Len(records) = 0 /\ Len(output) = 0
  BY <1>1
<1>3. Range(objects) = {}
  BY <1>2 DEF Range
<1>4. /\ records \in Seq(Word \X Soids) /\ zs \in Seq(Word) /\ output \in Seq(Soids)
      /\ i \in Nat \ {0} /\ position \in 0..(Len(records) + 1) /\ kept \in 0..Len(output)
  BY <1>1, <1>2
<1>5. frozen \in BOOLEAN /\ searching \in BOOLEAN /\ query \in Shapes \cup {{}}
  BY <1>1, Zenon
<1>6. TypeOK
  BY <1>2, <1>3, <1>4, <1>5, Zenon DEF TypeOK
<1>7. Unique /\ Filed
  BY <1>2 DEF Unique, Filed
<1>8. ~frozen /\ ~searching /\ query = {} /\ ~(position > 0)
  BY <1>1
<1>9. FrozenInOrder /\ QueryDecomposed /\ Scanning /\ Counted
  BY <1>8 DEF FrozenInOrder, QueryDecomposed, Scanning, Counted, Answered
<1> QED
  BY <1>6, <1>7, <1>9 DEF IInv

LEMMA AddKeeps ==
    ASSUME IInv, NEW soid \in Soids, NEW s \in Shapes, Add(soid, s)
    PROVE  IInv'
<1>1. TypeOK /\ Unique /\ Filed /\ Scanning
  BY DEF IInv
<1>2. /\ ~searching /\ soid \notin DOMAIN objects
      /\ objects' = [o \in DOMAIN objects \cup {soid} |-> IF o = soid THEN s ELSE objects[o]]
      /\ frozen' = FALSE /\ query' = {}
      /\ searching' = searching /\ i' = i /\ position' = position
      /\ output' = output /\ kept' = kept
  BY DEF Add
<1>3. PICK dec \in Decompositions[s] :
          /\ zs' = InOrder(dec)
          /\ records' = records \o [n \in DOMAIN zs' |-> <<zs'[n], soid>>]
  BY DEF Add
<1> DEFINE new == [n \in DOMAIN zs' |-> <<zs'[n], soid>>]
           l == Len(records)
           m == Len(zs')
<1>4. /\ zs' \in Seq(Word) /\ Range(zs') = Values(dec)
      /\ \A j, k \in DOMAIN zs' : zs'[j] = zs'[k] => j = k
  BY <1>3, InOrderFacts
<1>5. m \in Nat /\ DOMAIN zs' = 1..m /\ \A n \in 1..m : zs'[n] \in Word
  BY <1>4
<1>6. /\ new \in Seq(Record) /\ Len(new) = m
      /\ \A n \in 1..m : new[n] = <<zs'[n], soid>>
  BY <1>5 DEF Record
<1>7. /\ records \in Seq(Record) /\ l \in Nat /\ DOMAIN records = 1..l
      /\ \A n \in 1..l : records[n] \in Record
  BY <1>1, RecordsTyped
<1> HIDE DEF new
<1>8. /\ records' \in Seq(Record) /\ Len(records') = l + m
      /\ \A n \in 1..(l + m) : records'[n] = IF n <= l THEN records[n] ELSE new[n - l]
  <2>1. records' = records \o new
    BY <1>3 DEF new
  <2>2. records \in Seq(Record) /\ new \in Seq(Record)
    BY <1>6, <1>7
  <2>3. /\ records \o new \in Seq(Record)
        /\ Len(records \o new) = Len(records) + Len(new)
        /\ \A n \in 1..(Len(records) + Len(new)) :
              (records \o new)[n] = IF n <= Len(records) THEN records[n]
                                    ELSE new[n - Len(records)]
    BY ONLY <2>2, ConcatProperties
  <2> QED
    BY ONLY <1>6, <2>1, <2>3
<1>9. DOMAIN records' = 1..(l + m)
  BY <1>8
<1>10. /\ \A n \in 1..l : records'[n] = records[n]
       /\ \A n \in 1..m : records'[l + n] = <<zs'[n], soid>>
  <2>1. ASSUME NEW n \in 1..l PROVE records'[n] = records[n]
    BY <1>5, <1>7, <1>8
  <2>2. ASSUME NEW n \in 1..m PROVE records'[l + n] = <<zs'[n], soid>>
    <3>1. l + n \in 1..(l + m) /\ ~(l + n <= l) /\ (l + n) - l = n
      BY <1>5, <1>7
    <3> QED
      BY <1>6, <1>8, <3>1
  <2> QED
    BY <2>1, <2>2
<1>11. \A k \in 1..(l + m) : k \in 1..l \/ \E n \in 1..m : k = l + n
  <2> SUFFICES ASSUME NEW k \in 1..(l + m), k \notin 1..l
               PROVE  \E n \in 1..m : k = l + n
    OBVIOUS
  <2>1. k - l \in 1..m /\ k = l + (k - l)
    BY <1>5, <1>7
  <2> QED
    BY <2>1
<1>12. \A n \in 1..l : records[n][2] \in DOMAIN objects /\ records[n][2] # soid
  BY <1>1, <1>2, <1>7 DEF Filed
<1>13. TypeOK'
  <2>1. DOMAIN objects' = DOMAIN objects \cup {soid} /\ Range(objects') \subseteq Shapes
    BY <1>1, <1>2 DEF TypeOK, Range
  <2>2. records' \in Seq(Word \X Soids)
    BY <1>8 DEF Record
  <2>3. position' \in 0..(Len(records') + 1)
    BY <1>1, <1>2, <1>5, <1>7, <1>8 DEF TypeOK
  <2>4. frozen' \in BOOLEAN /\ query' \in Shapes \cup {{}}
    BY <1>2, Zenon
  <2>5. /\ searching' \in BOOLEAN /\ i' \in Nat \ {0}
        /\ output' \in Seq(Soids) /\ kept' \in 0..Len(output')
    BY <1>1, <1>2 DEF TypeOK
  <2>6. DOMAIN objects' \subseteq Soids
    BY <1>1, <2>1 DEF TypeOK
  <2> QED
    BY <1>4, <2>1, <2>2, <2>3, <2>4, <2>5, <2>6 DEF TypeOK
<1>14. Unique'
  <2> SUFFICES ASSUME NEW j \in 1..(l + m), NEW k \in 1..(l + m), records'[j] = records'[k]
               PROVE  j = k
    BY <1>9 DEF Unique
  <2>1. CASE j \in 1..l /\ k \in 1..l
    BY <1>1, <1>7, <1>10, <2>1 DEF Unique
  <2>2. CASE \E x \in 1..m : j = l + x
    <3>1. PICK x \in 1..m : j = l + x
      BY <2>2
    <3>2. records'[k] = <<zs'[x], soid>> /\ records'[k][2] = soid
      BY <1>10, <3>1
    <3>3. k \notin 1..l
      BY <1>10, <1>12, <3>2
    <3>4. PICK y \in 1..m : k = l + y
      BY <1>11, <3>3
    <3>5. zs'[x] = zs'[y]
      BY <1>10, <3>2, <3>4
    <3> QED
      BY <1>4, <1>5, <3>1, <3>4, <3>5
  <2>3. CASE \E y \in 1..m : k = l + y
    <3>1. PICK y \in 1..m : k = l + y
      BY <2>3
    <3>2. records'[j] = <<zs'[y], soid>> /\ records'[j][2] = soid
      BY <1>10, <3>1
    <3>3. j \notin 1..l
      BY <1>10, <1>12, <3>2
    <3> QED
      BY <1>11, <2>2, <3>3
  <2> QED
    BY <1>11, <2>1, <2>2, <2>3
<1>15. Filed'
  <2>1. DOMAIN objects' = DOMAIN objects \cup {soid} /\ objects'[soid] = s
        /\ \A o \in DOMAIN objects : objects'[o] = objects[o]
    BY <1>2
  <2>2. \A k \in 1..(l + m) : records'[k][2] \in DOMAIN objects'
    <3> SUFFICES ASSUME NEW k \in 1..(l + m) PROVE records'[k][2] \in DOMAIN objects'
      OBVIOUS
    <3>1. CASE k \in 1..l
      BY <1>10, <1>12, <2>1, <3>1
    <3>2. CASE \E n \in 1..m : k = l + n
      BY <1>10, <2>1, <3>2
    <3> QED
      BY <1>11, <3>1, <3>2
  <2>3. \A o, v : v \in ValuesOf(records', o) <=>
                  \E k \in 1..(l + m) : records'[k][2] = o /\ v = records'[k][1]
    BY <1>9, ValuesOfMembers
  <2>4. \A o, v : v \in ValuesOf(records, o) <=>
                  \E k \in 1..l : records[k][2] = o /\ v = records[k][1]
    BY <1>7, ValuesOfMembers
  <2>6. ASSUME NEW o \in DOMAIN objects
        PROVE  ValuesOf(records', o) = ValuesOf(records, o)
    <3>1. o # soid
      BY <1>2
    <3>2. \A v : (\E k \in 1..(l + m) : records'[k][2] = o /\ v = records'[k][1]) <=>
                 (\E k \in 1..l : records[k][2] = o /\ v = records[k][1])
      <4>1. ASSUME NEW v, NEW k \in 1..(l + m), records'[k][2] = o, v = records'[k][1]
            PROVE  \E n \in 1..l : records[n][2] = o /\ v = records[n][1]
        <5>1. k \notin 1..l => \E n \in 1..m : k = l + n
          BY <1>11
        <5>2. k \in 1..l
          BY <1>10, <3>1, <4>1, <5>1
        <5> QED
          BY <1>10, <4>1, <5>2
      <4>2. ASSUME NEW v, NEW k \in 1..l, records[k][2] = o, v = records[k][1]
            PROVE  \E n \in 1..(l + m) : records'[n][2] = o /\ v = records'[n][1]
        <5>1. k \in 1..(l + m)
          BY <1>5, <1>7
        <5> QED
          BY <1>10, <4>2, <5>1
      <4> QED
        BY <4>1, <4>2
    <3>3. \A v : v \in ValuesOf(records', o) <=> v \in ValuesOf(records, o)
      BY ONLY <2>3, <2>4, <3>2
    <3> QED
      BY ONLY <3>3 DEF ValuesOf
  <2>7. ValuesOf(records', soid) = Values(dec)
    <3>1. \A v : (\E k \in 1..(l + m) : records'[k][2] = soid /\ v = records'[k][1]) <=>
                 (\E n \in 1..m : v = zs'[n])
      <4>1. ASSUME NEW v, NEW k \in 1..(l + m), records'[k][2] = soid, v = records'[k][1]
            PROVE  \E n \in 1..m : v = zs'[n]
        <5>1. k \notin 1..l
          BY <1>10, <1>12, <4>1
        <5>2. PICK n \in 1..m : k = l + n
          BY <1>11, <5>1
        <5>3. records'[k] = <<zs'[n], soid>>
          BY <1>10, <5>2
        <5> QED
          BY ONLY <4>1, <5>3, n \in 1..m
      <4>2. ASSUME NEW v, NEW n \in 1..m, v = zs'[n]
            PROVE  \E k \in 1..(l + m) : records'[k][2] = soid /\ v = records'[k][1]
        <5>1. l + n \in 1..(l + m)
          BY <1>5, <1>7
        <5> QED
          BY <1>10, <4>2, <5>1
      <4> QED
        BY <4>1, <4>2
    <3>2. \A v : v \in Values(dec) <=> \E n \in 1..m : v = zs'[n]
      BY <1>4, <1>5 DEF Range
    <3>3. \A v : v \in ValuesOf(records', soid) <=> v \in Values(dec)
      BY ONLY <2>3, <3>1, <3>2
    <3> QED
      BY ONLY <3>3 DEF ValuesOf, Values
  <2>8. \A o \in DOMAIN objects' : \E d \in Decompositions[objects'[o]] : ValuesOf(records', o) = Values(d)
    BY <1>1, <1>3, <2>1, <2>6, <2>7 DEF Filed
  <2> QED
    BY <1>9, <2>2, <2>8 DEF Filed, Values
<1>16. ~frozen' /\ ~searching' /\ query' = {} /\ ~(position' > 0)
  BY <1>1, <1>2 DEF Scanning
<1>17. FrozenInOrder' /\ QueryDecomposed' /\ Scanning' /\ Counted'
  BY <1>16 DEF FrozenInOrder, QueryDecomposed, Scanning, Counted, Answered
<1> QED
  BY <1>13, <1>14, <1>15, <1>17 DEF IInv

LEMMA FreezeKeeps ==
    ASSUME IInv, Freeze
    PROVE  IInv'
<1>1. TypeOK /\ Unique /\ FrozenInOrder /\ Filed /\ QueryDecomposed /\ Scanning /\ Counted
  BY DEF IInv
<1>2. /\ ~searching /\ frozen' = TRUE
      /\ UNCHANGED <<objects, searching, query, zs, i, position, output, kept>>
  BY DEF Freeze
<1>3. records \in Seq(Record)
  BY <1>1, RecordsTyped
<1>4. /\ records' \in Seq(Record) /\ Range(records') = Range(records)
      /\ \A j, k \in DOMAIN records' : j < k => KeyLess(records'[j], records'[k])
      /\ \A j, k \in DOMAIN records' : records'[j] = records'[k] => j = k
      /\ (\A j, k \in DOMAIN records : j < k => KeyLess(records[j], records[k]))
           => records' = records
  BY ONLY <1>1, <1>3, Freeze, SortedRecords
<1>5. frozen => records' = records
  BY ONLY <1>1, <1>4 DEF FrozenInOrder
<1>6. Unique' /\ FrozenInOrder'
  BY ONLY <1>4 DEF Unique, FrozenInOrder
<1>7. position = 0 /\ position' = 0
  <2>1. position \in Nat
    BY ONLY <1>1 DEF TypeOK
  <2> QED
    BY ONLY <1>1, <1>2, <2>1 DEF Scanning
<1>8. TypeOK'
  <2>1. records' \in Seq(Word \X Soids) /\ Len(records') \in Nat
    BY ONLY <1>4 DEF Record
  <2>2. position' \in 0..(Len(records') + 1)
    BY ONLY <1>7, <2>1
  <2>3. frozen' \in BOOLEAN
    BY ONLY <1>2, Zenon
  <2> QED
    BY ONLY <1>1, <1>2, <2>1, <2>2, <2>3 DEF TypeOK
<1>9. Filed'
  <2>1. \A e : e \in Range(records) <=> \E k \in DOMAIN records : e = records[k]
    BY ONLY Range(records) = Range(records) DEF Range
  <2>2. \A e : e \in Range(records) <=> \E k \in DOMAIN records' : e = records'[k]
    <3>1. \A e : e \in Range(records') <=> \E k \in DOMAIN records' : e = records'[k]
      BY ONLY Range(records) = Range(records) DEF Range
    <3> QED
      BY ONLY <1>4, <3>1
  <2>3. ASSUME NEW n \in DOMAIN records'
        PROVE  records'[n][2] \in DOMAIN objects
    <3>1. n \in DOMAIN records'
      OBVIOUS
    <3>2. PICK k \in DOMAIN records : records[k] = records'[n]
      BY ONLY <2>1, <2>2, <3>1
    <3> QED
      BY ONLY <1>1, <3>2 DEF Filed
  <2>4. ASSUME NEW o
        PROVE  ValuesOf(records', o) = ValuesOf(records, o)
    <3>1. \A v : v \in ValuesOf(records', o) <=>
                 \E k \in DOMAIN records' : records'[k][2] = o /\ v = records'[k][1]
      BY ONLY ValuesOfMembers
    <3>2. \A v : v \in ValuesOf(records, o) <=>
                 \E k \in DOMAIN records : records[k][2] = o /\ v = records[k][1]
      BY ONLY ValuesOfMembers
    <3>3. ASSUME NEW v \in ValuesOf(records', o) PROVE v \in ValuesOf(records, o)
      <4>1. PICK k \in DOMAIN records' : records'[k][2] = o /\ v = records'[k][1]
        BY <3>1
      <4>2. PICK n \in DOMAIN records : records'[k] = records[n]
        BY ONLY <2>1, <2>2, k \in DOMAIN records'
      <4> QED
        BY ONLY <3>2, <4>1, <4>2
    <3>4. ASSUME NEW v \in ValuesOf(records, o) PROVE v \in ValuesOf(records', o)
      <4>1. PICK k \in DOMAIN records : records[k][2] = o /\ v = records[k][1]
        BY <3>2
      <4>2. PICK n \in DOMAIN records' : records[k] = records'[n]
        BY ONLY <2>1, <2>2, k \in DOMAIN records
      <4> QED
        BY ONLY <3>1, <4>1, <4>2
    <3> QED
      BY <3>3, <3>4, Zenon
  <2>5. \A o \in DOMAIN objects : \E d \in Decompositions[objects[o]] :
            ValuesOf(records', o) = Values(d)
    BY ONLY <1>1, <2>4 DEF Filed
  <2> QED
    BY ONLY <1>2, <2>3, <2>5 DEF Filed, Values
<1>10. QueryDecomposed'
  BY ONLY <1>1, <1>2 DEF QueryDecomposed, Values
<1>11. Scanning'
  BY ONLY <1>1, <1>2, <1>7 DEF Scanning, Answered
<1>12. Counted'
  <2>1. CASE ~frozen
    <3>1. ~searching' /\ ~(query' # {})
      BY ONLY <1>1, <1>2, <2>1 DEF Scanning
    <3> QED
      BY ONLY <3>1 DEF Counted, Answered
  <2>2. CASE frozen
    <3>1. UNCHANGED vars
      BY ONLY <1>2, <1>5, <2>2 DEF vars
    <3> QED
      BY ONLY <1>1, <3>1, Zenon DEF vars, Counted, Answered
  <2> QED
    BY ONLY <2>1, <2>2
<1> QED
  BY ONLY <1>6, <1>8, <1>9, <1>10, <1>11, <1>12 DEF IInv

\* A step that adds nothing leaves what has been added, and a step of a
\* search also what has been asked.
LEMMA SearchLeaves ==
    ASSUME IInv, UNCHANGED <<objects, records, frozen>>
    PROVE  /\ Unique' /\ FrozenInOrder' /\ Filed'
           /\ UNCHANGED <<searching, query, zs>> => QueryDecomposed'
<1>1. Unique /\ FrozenInOrder /\ Filed /\ QueryDecomposed
  BY DEF IInv
<1>2. Unique' /\ FrozenInOrder'
  BY <1>1 DEF Unique, FrozenInOrder
<1>3. Filed'
  BY <1>1 DEF Filed, ValuesOf, Values
<1>4. UNCHANGED <<searching, query, zs>> => QueryDecomposed'
  BY <1>1 DEF QueryDecomposed, Values
<1> QED
  BY <1>2, <1>3, <1>4

LEMMA FindKeeps ==
    ASSUME IInv, NEW s \in Shapes, FindOverlapping(s)
    PROVE  IInv'
<1>1. TypeOK /\ Unique /\ FrozenInOrder /\ Filed /\ Scanning
  BY DEF IInv
<1>2. /\ ~searching /\ frozen /\ searching' = TRUE /\ query' = s
      /\ i' = 1 /\ position' = 0 /\ kept' = Len(output)
      /\ UNCHANGED <<objects, records, frozen, output>>
  BY DEF FindOverlapping
<1>3. PICK dec \in Decompositions[s] : zs' = InOrder(dec)
  BY DEF FindOverlapping
<1>4. /\ zs' \in Seq(Word) /\ Range(zs') = Values(dec)
      /\ \A j, k \in DOMAIN zs' : zs'[j] = zs'[k] => j = k
  BY <1>3, InOrderFacts
<1>5. Len(output) \in Nat /\ Len(records) \in Nat
  BY <1>1 DEF TypeOK
<1>6. TypeOK'
  <2>1. searching' \in BOOLEAN /\ query' \in Shapes \cup {{}}
    BY <1>2, Zenon
  <2>2. position' \in 0..(Len(records') + 1) /\ i' \in Nat \ {0} /\ kept' \in 0..Len(output')
    BY <1>2, <1>5
  <2> QED
    BY <1>1, <1>2, <1>4, <2>1, <2>2 DEF TypeOK
<1>7. Unique' /\ FrozenInOrder' /\ Filed'
  BY <1>2, SearchLeaves
<1>8. QueryDecomposed'
  BY <1>2, <1>3, <1>4 DEF QueryDecomposed, Values
<1>9. Scanning'
  BY <1>2 DEF Scanning, Answered
<1>10. Counted'
  <2>1. SubSeq(output, Len(output) + 1, Len(output)) = << >>
    BY <1>1, <1>5 DEF TypeOK
  <2>2. \A soid : CountIn(<< >>, soid) = 0
    <3> SUFFICES ASSUME NEW soid PROVE CountIn(<< >>, soid) = 0
      OBVIOUS
    <3>1. {n \in DOMAIN << >> : << >>[n] = soid} = {}
      OBVIOUS
    <3> QED
      BY ONLY <3>1, FS_EmptySet DEF CountIn
  <2>3. \A soid : Done(records, zs', soid, 1, 0) = 0
    <3> SUFFICES ASSUME NEW soid PROVE Done(records, zs', soid, 1, 0) = 0
      OBVIOUS
    <3>1. \A p \in Matches(records, zs', soid) : p[1] \in 1..Len(records) /\ p[2] \in 1..Len(zs')
      BY <1>1, <1>4 DEF Matches, TypeOK
    <3>2. Len(zs') \in Nat
      BY <1>4
    <3>3. \A p \in Matches(records, zs', soid) : ~Passed(p, 1, 0)
      BY <1>5, <3>1, <3>2 DEF Passed
    <3>4. {p \in Matches(records, zs', soid) : Passed(p, 1, 0)} = {}
      BY ONLY <3>3
    <3> QED
      BY ONLY <3>4, FS_EmptySet DEF Done
  <2> QED
    BY ONLY <1>2, <2>1, <2>2, <2>3 DEF Counted
<1> QED
  BY <1>6, <1>7, <1>8, <1>9, <1>10 DEF IInv

\* In frozen records, what precedes a record has no greater z-value.
LEMMA RecordsInOrder ==
    ASSUME TypeOK, FrozenInOrder, frozen, NEW j \in DOMAIN records, NEW k \in DOMAIN records,
           NEW w \in Word
    PROVE  j < k /\ Less(records[k][1], w) => Less(records[j][1], w)
<1> SUFFICES ASSUME j < k, Less(records[k][1], w)
             PROVE  Less(records[j][1], w)
  OBVIOUS
<1>1. records[j][1] \in Word /\ records[k][1] \in Word
  BY RecordsTyped
<1>2. Less(records[j][1], records[k][1]) \/ records[j][1] = records[k][1]
  BY DEF FrozenInOrder, KeyLess
<1> QED
  BY <1>1, <1>2, LessTransitive

LEMMA GoToKeeps ==
    ASSUME IInv, GoTo
    PROVE  IInv'
<1>1. TypeOK /\ FrozenInOrder /\ QueryDecomposed /\ Scanning /\ Counted
  BY DEF IInv
<1>2. /\ searching /\ i <= Len(zs) /\ position = 0
      /\ UNCHANGED <<objects, records, frozen, searching, query, zs, i, output, kept>>
  BY DEF GoTo
<1> DEFINE B == {n \in DOMAIN records : Less(records[n][1], zs[i])}
           m == Len(records)
<1>3. position' = 1 + Cardinality(B)
  BY DEF GoTo
<1>4. m \in Nat /\ DOMAIN records = 1..m
  BY <1>1, RecordsTyped
<1>5. i \in DOMAIN zs /\ zs[i] \in Word /\ frozen
  BY <1>1, <1>2 DEF TypeOK, Scanning
<1>6. Cardinality(B) \in 0..m /\ B = 1..Cardinality(B)
  <2>1. \A j, k \in 1..m : j < k /\ k \in B => j \in B
    BY <1>1, <1>4, <1>5, RecordsInOrder
  <2>2. B \in SUBSET (1..m)
    BY <1>4
  <2> HIDE DEF B, m
  <2> QED
    BY <1>4, <2>1, <2>2, FirstOnes
<1>7. \A n \in DOMAIN records : n >= position' <=> ~Less(records[n][1], zs[i])
  <2>1. \A n \in DOMAIN records : n \in B <=> Less(records[n][1], zs[i])
    OBVIOUS
  <2> HIDE DEF B, m
  <2>2. \A n \in 1..m : n \in B <=> n <= Cardinality(B)
    BY ONLY <1>4, <1>6
  <2>3. \A n \in 1..m : n >= position' <=> ~(n <= Cardinality(B))
    BY ONLY <1>3, <1>4, <1>6
  <2> QED
    BY ONLY <1>4, <2>1, <2>2, <2>3
<1>8. position' \in 1..(m + 1)
  <2> HIDE DEF B, m
  <2> QED
    BY ONLY <1>3, <1>4, <1>6
<1> HIDE DEF B, m
<1>9. TypeOK'
  <2>1. position' \in 0..(Len(records') + 1)
    BY ONLY <1>2, <1>4, <1>8 DEF m
  <2> QED
    BY ONLY <1>1, <1>2, <2>1 DEF TypeOK
<1>10. Scanning'
  BY ONLY <1>1, <1>2, <1>5, <1>7 DEF Scanning, Answered
<1>11. Counted'
  <2>1. ASSUME NEW soid
        PROVE  Done(records, zs, soid, i, position') = Done(records, zs, soid, i, position)
    <3>1. ASSUME NEW p \in Matches(records, zs, soid)
          PROVE  Passed(p, i, position') <=> Passed(p, i, position)
      <4>1. /\ p[1] \in DOMAIN records /\ p[2] \in DOMAIN zs
            /\ ContainsZ(zs[p[2]], records[p[1]][1])
        BY DEF Matches
      <4>2. ~(p[1] < 0)
        BY <1>4, <4>1
      <4>3. p[2] = i => ~(p[1] < position')
        <5> SUFFICES ASSUME p[2] = i PROVE ~(p[1] < position')
          OBVIOUS
        <5>1. ~Less(records[p[1]][1], zs[i])
          BY <1>2, <4>1, ScannedMatch
        <5>2. p[1] >= position' /\ p[1] \in Int /\ position' \in Int
          BY <1>4, <1>7, <1>8, <4>1, <5>1
        <5> QED
          BY ONLY <5>2
      <4> QED
        BY ONLY <1>2, <4>2, <4>3 DEF Passed
    <3>2. {p \in Matches(records, zs, soid) : Passed(p, i, position')}
              = {p \in Matches(records, zs, soid) : Passed(p, i, position)}
      BY ONLY <3>1
    <3> QED
      BY ONLY <3>2 DEF Done
  <2> QED
    BY ONLY <1>1, <1>2, <2>1 DEF Counted
<1> QED
  BY <1>2, <1>9, <1>10, <1>11, SearchLeaves DEF IInv

\* To pass one more record is to pass one more pair, if it matches.
LEMMA PassOne ==
    ASSUME TypeOK, i \in DOMAIN zs, position \in DOMAIN records,
           ContainsZ(zs[i], records[position][1]), NEW soid
    PROVE  Done(records, zs, soid, i, position + 1) =
               IF records[position][2] = soid THEN Done(records, zs, soid, i, position) + 1
               ELSE Done(records, zs, soid, i, position)
<1> DEFINE M == Matches(records, zs, soid)
           A == {p \in M : Passed(p, i, position)}
           B == {p \in M : Passed(p, i, position + 1)}
           new == <<position, i>>
<1>1. DOMAIN records = 1..Len(records) /\ DOMAIN zs = 1..Len(zs)
      /\ Len(records) \in Nat /\ Len(zs) \in Nat
  BY RecordsTyped DEF TypeOK
<1>2. \A p \in M : p[1] \in Int /\ p[2] \in Int /\ p = <<p[1], p[2]>>
                   /\ records[p[1]][2] = soid
  BY <1>1 DEF Matches
<1>3. position \in Int /\ i \in Int
  BY <1>1
<1>4. new \in M <=> records[position][2] = soid
  BY DEF Matches
<1>5. ASSUME NEW p \in M
      PROVE  Passed(p, i, position + 1) <=> Passed(p, i, position) \/ p = new
  <2>1. p[1] \in Int /\ p[2] \in Int /\ p = <<p[1], p[2]>>
    BY <1>2
  <2>2. p = new <=> p[1] = position /\ p[2] = i
    BY ONLY <2>1
  <2>3. p[1] < position + 1 <=> p[1] < position \/ p[1] = position
    BY ONLY <1>3, <2>1
  <2> QED
    BY ONLY <1>3, <2>1, <2>2, <2>3 DEF Passed
<1>6. ~Passed(new, i, position)
  BY <1>3 DEF Passed
<1> HIDE DEF M, new
<1>7. new \notin A /\ IsFiniteSet(A)
  <2>1. IsFiniteSet(A)
    BY MatchesFinite DEF M
  <2> QED
    BY ONLY <1>6, <2>1
<1>8. B = IF records[position][2] = soid THEN A \cup {new} ELSE A
  BY ONLY <1>4, <1>5
<1>9. Cardinality(A \cup {new}) = Cardinality(A) + 1
  <2> HIDE DEF A, B
  <2> QED
    BY ONLY <1>7, FS_AddElement
<1>10. Cardinality(B) = IF records[position][2] = soid THEN Cardinality(A) + 1 ELSE Cardinality(A)
  <2> HIDE DEF A, B
  <2> QED
    BY ONLY <1>8, <1>9
<1> QED
  BY ONLY <1>10 DEF Done, M

LEMMA ReadKeeps ==
    ASSUME IInv, ReadRecord
    PROVE  IInv'
<1>1. TypeOK /\ FrozenInOrder /\ Filed /\ Scanning /\ Counted
  BY DEF IInv
<1> DEFINE y == records[position][2]
           overlaps == objects[y] \cap query # {}
<1>2. /\ searching /\ i <= Len(zs) /\ position > 0
      /\ position \in DOMAIN records /\ Less(records[position][1], Hi(zs[i]))
      /\ output' = IF overlaps THEN Append(output, y) ELSE output
      /\ position' = position + 1
      /\ UNCHANGED <<objects, records, frozen, searching, query, zs, i, kept>>
  BY DEF ReadRecord, InScan, Overlap
<1>3. i \in DOMAIN zs /\ ~Less(records[position][1], zs[i]) /\ frozen
  BY <1>1, <1>2 DEF TypeOK, Scanning
<1>4. ContainsZ(zs[i], records[position][1])
  BY <1>2, <1>3, ScannedMatch
<1>5. y \in Soids /\ y \in DOMAIN objects
  BY <1>1, <1>2, RecordsTyped DEF Filed
<1>6. DOMAIN records = 1..Len(records) /\ Len(records) \in Nat /\ zs[i] \in Word
  BY <1>1, <1>3, RecordsTyped DEF TypeOK
<1> DEFINE answer == SubSeq(output, kept + 1, Len(output))
<1>7. answer \in Seq(Soids)
      /\ SubSeq(Append(output, y), kept + 1, Len(Append(output, y))) = Append(answer, y)
  BY ONLY <1>1, <1>5, AnswerAppend
<1>8. TypeOK'
  <2>1. output \in Seq(Soids) /\ kept \in 0..Len(output)
    BY <1>1 DEF TypeOK
  <2>2. /\ Append(output, y) \in Seq(Soids) /\ kept \in 0..Len(Append(output, y))
    BY ONLY <1>5, <2>1
  <2>3. output' \in Seq(Soids) /\ kept' \in 0..Len(output')
    BY ONLY <1>2, <2>1, <2>2
  <2>4. position' \in 0..(Len(records') + 1)
    BY ONLY <1>2, <1>6
  <2> QED
    BY ONLY <1>1, <1>2, <2>3, <2>4 DEF TypeOK
<1>9. Scanning'
  <2>1. ASSUME NEW n \in DOMAIN records, n >= position + 1
        PROVE  ~Less(records[n][1], zs[i])
    <3>1. n >= position
      BY <1>2, <1>6, <2>1
    <3> QED
      BY <1>1, <1>2, <3>1 DEF Scanning
  <2> QED
    BY ONLY <1>1, <1>2, <1>3, <2>1 DEF Scanning, Answered
<1>10. Counted'
  <2> DEFINE rest == SubSeq(output', kept' + 1, Len(output'))
  <2>1. /\ overlaps => rest = Append(answer, y)
        /\ ~overlaps => rest = answer
    <3>1. CASE overlaps
      <4>1. output' = Append(output, y) /\ kept' = kept
        BY ONLY <1>2, <3>1
      <4> QED
        BY ONLY <1>7, <3>1, <4>1
    <3>2. CASE ~overlaps
      <4>1. output' = output /\ kept' = kept
        BY ONLY <1>2, <3>2
      <4> QED
        BY ONLY <3>2, <4>1
    <3> QED
      BY ONLY <3>1, <3>2
  <2>2. ASSUME NEW soid \in DOMAIN objects
        PROVE  CountIn(rest, soid) =
                   IF objects[soid] \cap query # {}
                   THEN Done(records, zs, soid, i, position + 1) ELSE 0
    <3>1. CountIn(answer, soid) =
              IF objects[soid] \cap query # {} THEN Done(records, zs, soid, i, position) ELSE 0
      BY ONLY <1>1, <1>2, soid \in DOMAIN objects DEF Counted
    <3>2. Done(records, zs, soid, i, position + 1) =
              IF y = soid THEN Done(records, zs, soid, i, position) + 1
              ELSE Done(records, zs, soid, i, position)
      BY ONLY <1>1, <1>2, <1>3, <1>4, PassOne
    <3>3. CountIn(Append(answer, y), soid) =
              IF soid = y THEN CountIn(answer, soid) + 1 ELSE CountIn(answer, soid)
      <4>1. y \in Soids /\ answer \in Seq(Soids)
        BY ONLY <1>5, <1>7
      <4> HIDE DEF y, answer
      <4> QED
        BY ONLY <4>1, CountAppend
    <3> HIDE DEF rest, answer, y
    <3>4. CASE soid = y /\ overlaps
      BY ONLY <2>1, <3>1, <3>2, <3>3, <3>4
    <3>5. CASE soid = y /\ ~overlaps
      BY ONLY <2>1, <3>1, <3>5
    <3>6. CASE soid # y
      BY ONLY <2>1, <3>1, <3>2, <3>3, <3>6
    <3> QED
      BY ONLY <3>4, <3>5, <3>6
  <2>3. records' = records /\ zs' = zs /\ objects' = objects /\ query' = query
        /\ i' = i /\ position' = position + 1 /\ searching'
    BY ONLY <1>2
  <2> QED
    BY ONLY <2>2, <2>3 DEF Counted
<1> QED
  BY <1>2, <1>8, <1>9, <1>10, SearchLeaves DEF IInv

LEMMA EndKeeps ==
    ASSUME IInv, EndScan
    PROVE  IInv'
<1>1. TypeOK /\ FrozenInOrder /\ Filed /\ Scanning /\ Counted
  BY DEF IInv
<1>2. /\ searching /\ i <= Len(zs) /\ position > 0
      /\ ~(position \in DOMAIN records /\ Less(records[position][1], Hi(zs[i])))
      /\ i' = i + 1 /\ position' = 0
      /\ UNCHANGED <<objects, records, frozen, searching, query, zs, output, kept>>
  BY DEF EndScan, InScan
<1>3. /\ DOMAIN records = 1..Len(records) /\ Len(records) \in Nat
      /\ DOMAIN zs = 1..Len(zs) /\ Len(zs) \in Nat
      /\ i \in DOMAIN zs /\ i \in Nat \ {0} /\ position \in 1..(Len(records) + 1) /\ frozen
  BY <1>1, <1>2, RecordsTyped DEF TypeOK, Scanning
<1>4. TypeOK'
  <2>1. i' \in Nat \ {0} /\ position' \in 0..(Len(records') + 1)
    BY ONLY <1>2, <1>3
  <2> QED
    BY ONLY <1>1, <1>2, <2>1 DEF TypeOK
<1>5. Scanning'
  BY ONLY <1>1, <1>2 DEF Scanning, Answered
<1>6. Counted'
  <2>1. ASSUME NEW soid
        PROVE  Done(records, zs, soid, i + 1, 0) = Done(records, zs, soid, i, position)
    <3>1. ASSUME NEW p \in Matches(records, zs, soid)
          PROVE  Passed(p, i + 1, 0) <=> Passed(p, i, position)
      <4>1. /\ p[1] \in DOMAIN records /\ p[2] \in DOMAIN zs
            /\ ContainsZ(zs[p[2]], records[p[1]][1])
        BY DEF Matches
      <4>2. p[1] \in 1..Len(records) /\ p[2] \in 1..Len(zs)
        BY ONLY <1>3, <4>1
      <4>3. ASSUME p[2] = i, ~(p[1] < position) PROVE FALSE
        <5>1. /\ Less(records[p[1]][1], Hi(zs[i])) /\ Hi(zs[i]) \in Word
          BY <1>2, <4>1, <4>3, ScannedMatch
        <5>2. position \in DOMAIN records /\ (position = p[1] \/ position < p[1])
          BY ONLY <1>3, <4>2, <4>3
        <5>3. Less(records[position][1], Hi(zs[i]))
          BY <1>1, <1>3, <4>1, <5>1, <5>2, RecordsInOrder
        <5> QED
          BY ONLY <1>2, <5>2, <5>3
      <4>4. p[2] < i + 1 <=> p[2] < i \/ p[2] = i
        BY ONLY <1>3, <4>2
      <4>5. ~(p[1] < 0)
        BY ONLY <1>3, <4>2
      <4> QED
        BY ONLY <4>3, <4>4, <4>5 DEF Passed
    <3>2. {p \in Matches(records, zs, soid) : Passed(p, i + 1, 0)}
              = {p \in Matches(records, zs, soid) : Passed(p, i, position)}
      BY ONLY <3>1
    <3> QED
      BY ONLY <3>2 DEF Done
  <2> QED
    BY ONLY <1>1, <1>2, <2>1 DEF Counted
<1> QED
  BY <1>2, <1>4, <1>5, <1>6, SearchLeaves DEF IInv

LEMMA ReturnKeeps ==
    ASSUME IInv, Return
    PROVE  IInv'
<1>1. /\ TypeOK /\ Unique /\ FrozenInOrder /\ Filed /\ QueryDecomposed /\ Scanning /\ Counted
  BY DEF IInv
<1>2. /\ searching /\ i > Len(zs) /\ searching' = FALSE
      /\ UNCHANGED <<objects, records, frozen, query, zs, i, position, output, kept>>
  BY DEF Return
<1>3. ~(position > 0)
  <2>1. DOMAIN zs = 1..Len(zs) /\ Len(zs) \in Nat /\ i \in Nat
    BY ONLY <1>1 DEF TypeOK
  <2> QED
    BY ONLY <1>1, <1>2, <2>1 DEF Scanning
<1>4. TypeOK'
  <2>1. searching' \in BOOLEAN
    BY ONLY <1>2, Zenon
  <2> QED
    BY ONLY <1>1, <1>2, <2>1 DEF TypeOK
<1>5. Unique' /\ FrozenInOrder' /\ Filed'
  BY <1>2, SearchLeaves
<1>6. QueryDecomposed'
  BY ONLY <1>1, <1>2 DEF QueryDecomposed, Values
<1>7. Scanning'
  BY ONLY <1>1, <1>2, <1>3 DEF Scanning, Answered
<1>8. Counted'
  BY ONLY <1>1, <1>2 DEF Counted
<1> QED
  BY ONLY <1>4, <1>5, <1>6, <1>7, <1>8 DEF IInv

LEMMA ClearKeeps ==
    ASSUME IInv, ClearOutput
    PROVE  IInv'
<1>1. /\ TypeOK /\ Unique /\ FrozenInOrder /\ Filed /\ Scanning
  BY DEF IInv
<1>2. /\ ~searching /\ output' = << >> /\ kept' = 0 /\ query' = {}
      /\ UNCHANGED <<objects, records, frozen, searching, zs, i, position>>
  BY DEF ClearOutput
<1>3. TypeOK'
  <2>1. output' \in Seq(Soids) /\ kept' \in 0..Len(output')
    BY ONLY <1>2
  <2>2. query' \in Shapes \cup {{}}
    BY ONLY <1>2, Zenon
  <2> QED
    BY ONLY <1>1, <1>2, <2>1, <2>2 DEF TypeOK
<1>4. Unique' /\ FrozenInOrder' /\ Filed'
  BY <1>2, SearchLeaves
<1>5. ~searching' /\ query' = {} /\ ~(position' > 0)
  BY ONLY <1>1, <1>2 DEF Scanning
<1>6. QueryDecomposed' /\ Scanning' /\ Counted'
  BY ONLY <1>5 DEF QueryDecomposed, Scanning, Counted, Answered
<1> QED
  BY ONLY <1>3, <1>4, <1>6 DEF IInv

\* Every step keeps the invariant.
LEMMA NextKeeps == IInv /\ [Next]_vars => IInv'
<1> SUFFICES ASSUME IInv, [Next]_vars
             PROVE  IInv'
  OBVIOUS
<1>1. ASSUME NEW soid \in Soids, NEW s \in Shapes, Add(soid, s) PROVE IInv'
  BY <1>1, AddKeeps
<1>2. CASE Freeze
  BY <1>2, FreezeKeeps
<1>3. ASSUME NEW s \in Shapes, FindOverlapping(s) PROVE IInv'
  BY <1>3, FindKeeps
<1>4. CASE GoTo
  BY <1>4, GoToKeeps
<1>5. CASE ReadRecord
  BY <1>5, ReadKeeps
<1>6. CASE EndScan
  BY <1>6, EndKeeps
<1>7. CASE Return
  BY <1>7, ReturnKeeps
<1>8. CASE ClearOutput
  BY <1>8, ClearKeeps
<1>9. CASE UNCHANGED vars
  <2>1. Unique' /\ FrozenInOrder' /\ Filed' /\ QueryDecomposed'
    BY <1>9, SearchLeaves DEF vars
  <2>2. TypeOK' /\ Scanning' /\ Counted'
    BY <1>9 DEF vars, IInv, TypeOK, Scanning, Counted, Answered
  <2> QED
    BY <2>1, <2>2 DEF IInv
<1> QED
  BY <1>1, <1>2, <1>3, <1>4, <1>5, <1>6, <1>7, <1>8, <1>9 DEF Next, Search

\* The invariant says what a search that has returned has reported.
LEMMA AnsweredDone ==
    ASSUME IInv, Answered, NEW soid \in DOMAIN objects
    PROVE  Times(soid) = IF Overlap(soid) THEN Cardinality(Matches(records, zs, soid)) ELSE 0
<1>1. TypeOK /\ Scanning /\ Counted /\ i > Len(zs) /\ ~searching
  BY DEF IInv, Scanning, Answered
<1>2. /\ DOMAIN zs = 1..Len(zs) /\ Len(zs) \in Nat /\ i \in Nat
  BY <1>1 DEF TypeOK
<1>3. Times(soid) = IF Overlap(soid) THEN Done(records, zs, soid, i, position) ELSE 0
  BY <1>1 DEF Counted, Times, Answer, CountIn, Overlap
<1>4. ASSUME NEW p \in Matches(records, zs, soid)
      PROVE  Passed(p, i, position)
  <2>1. p[2] \in DOMAIN zs
    BY DEF Matches
  <2>2. p[2] < i
    BY ONLY <1>1, <1>2, <2>1
  <2> QED
    BY ONLY <2>2 DEF Passed
<1>5. {p \in Matches(records, zs, soid) : Passed(p, i, position)} = Matches(records, zs, soid)
  BY ONLY <1>4
<1>6. Done(records, zs, soid, i, position) = Cardinality(Matches(records, zs, soid))
  BY ONLY <1>5 DEF Done
<1> QED
  BY ONLY <1>3, <1>6

LEMMA CellsFinite ==
    ASSUME NEW S, S \subseteq Cell
    PROVE  IsFiniteSet(S)
<1> DEFINE f == [c \in S |-> ZValue(c)]
<1>1. ASSUME NEW c \in S, NEW e \in S, ZValue(c) = ZValue(e)
      PROVE  c = e
  <2>1. c \in Cell /\ e \in Cell
    OBVIOUS
  <2>2. /\ Cells(c) = {c} /\ c \in Region /\ e \in Region /\ Cells(e) = {e}
        /\ c \in Cells(c) <=> ContainsZ(ZValue(c), ZValue(c))
        /\ c \in Cells(e) <=> ContainsZ(ZValue(e), ZValue(c))
    BY <2>1, CellFacts
  <2> QED
    BY ONLY <1>1, <2>2
<1>2. f \in [S -> Word]
  BY CellFacts, WordOfRegion
<1>3. f \in Injection(S, Word)
  <2>1. \A x, y \in S : f[x] = f[y] => x = y
    BY <1>1
  <2> HIDE DEF f
  <2> QED
    BY <1>2, <2>1, Fun_IsInj
<1>4. IsFiniteSet(Word)
  BY WordsFinite
<1> HIDE DEF f
<1> QED
  BY <1>3, <1>4, FS_Injection

\* An object of one cell has one record, and one z-value of a query that has
\* the cell contains it.
LEMMA PointMatches ==
    ASSUME IInv, Answered, NEW soid \in DOMAIN objects, NEW c \in Cell,
           objects[soid] = {c}, c \in query
    PROVE  \E p : Matches(records, zs, soid) = {p}
<1>1. TypeOK /\ Unique /\ Filed /\ QueryDecomposed
  BY DEF IInv
<1>2. {c} \in Shapes /\ query \in Shapes
  BY <1>1 DEF TypeOK, Range, QueryDecomposed, Answered
<1>3. PICK d \in Decompositions[{c}] : ValuesOf(records, soid) = Values(d)
  BY <1>1 DEF Filed
<1>4. \A v : v \in ValuesOf(records, soid) <=> v = ZValue(c)
  <2>1. d = {c}
    BY <1>2, PointDecomposition
  <2> QED
    BY <1>3, <2>1 DEF Values
<1>5. PICK n \in DOMAIN records : records[n][2] = soid /\ ZValue(c) = records[n][1]
  BY <1>4, ValuesOfMembers
<1>6. ASSUME NEW m \in DOMAIN records, records[m][2] = soid
      PROVE  m = n
  <2>1. records[m][1] = ZValue(c)
    BY <1>4, <1>6, ValuesOfMembers
  <2>2. records[m] = <<records[m][1], records[m][2]>> /\ records[n] = <<records[n][1], records[n][2]>>
    BY <1>1, RecordsTyped
  <2>3. records[m] = records[n]
    BY ONLY <1>5, <1>6, <2>1, <2>2
  <2> QED
    BY <1>1, <2>3 DEF Unique
<1>7. PICK e \in Decompositions[query] : Range(zs) = Values(e)
  BY <1>1 DEF QueryDecomposed, Answered
<1>8. PICK r \in e : c \in Cells(r)
  BY <1>2, DecompositionFacts
<1>9. e \subseteq Region /\ \A q \in e : q # r => Cells(q) \cap Cells(r) = {}
  BY <1>2, DecompositionFacts
<1>10. PICK k \in DOMAIN zs : zs[k] = ZValue(r)
  BY <1>7 DEF Range, Values
<1>11. ContainsZ(zs[k], records[n][1])
  BY <1>5, <1>8, <1>9, <1>10, CellFacts
<1>12. ASSUME NEW l \in DOMAIN zs, ContainsZ(zs[l], records[n][1])
       PROVE  l = k
  <2>1. PICK q \in e : zs[l] = ZValue(q)
    BY <1>7 DEF Range, Values
  <2>2. c \in Cells(q)
    BY <1>5, <1>9, <1>12, <2>1, CellFacts
  <2>3. q = r
    BY <1>8, <1>9, <2>2
  <2>4. zs[l] = zs[k]
    BY <1>10, <2>1, <2>3
  <2> QED
    BY <1>1, <2>4 DEF QueryDecomposed, Answered
<1>13. <<n, k>> \in Matches(records, zs, soid)
  BY <1>5, <1>11 DEF Matches
<1>14. ASSUME NEW p \in Matches(records, zs, soid)
       PROVE  p = <<n, k>>
  <2>1. /\ p[1] \in DOMAIN records /\ p[2] \in DOMAIN zs /\ p = <<p[1], p[2]>>
        /\ records[p[1]][2] = soid /\ ContainsZ(zs[p[2]], records[p[1]][1])
    BY DEF Matches
  <2>2. p[1] = n
    BY <1>6, <2>1
  <2>3. p[2] = k
    BY <1>12, <2>1, <2>2
  <2> QED
    BY ONLY <2>1, <2>2, <2>3
<1>15. Matches(records, zs, soid) = {<<n, k>>}
  BY ONLY <1>13, <1>14
<1> QED
  BY <1>15

\* What the invariant says of a search that has returned is the property.
LEMMA InvariantIsExact == IInv => SearchesExact
<1> SUFFICES ASSUME IInv
             PROVE  SearchesExact
  OBVIOUS
<1>1. TypeOK
  BY DEF IInv
<1>2. ReportedByContainment
  BY AnsweredDone DEF ReportedByContainment, Matches
<1>3. ASSUME Answered, NEW soid \in DOMAIN objects, Cardinality(objects[soid]) = 1
      PROVE  Times(soid) = IF Overlap(soid) THEN 1 ELSE 0
  <2>1. objects[soid] \subseteq Cell
    <3>1. Range(objects) \subseteq Shapes
      BY <1>1 DEF TypeOK
    <3>2. objects[soid] \in Shapes
      BY ONLY <3>1, soid \in DOMAIN objects DEF Range
    <3> QED
      BY ONLY <3>2, ObjectsAssumption
  <2>2. IsFiniteSet(objects[soid])
    BY <2>1, CellsFinite
  <2>3. PICK c : objects[soid] = {c}
    BY <1>3, <2>2, FS_Singleton
  <2>4. c \in Cell /\ (Overlap(soid) <=> c \in query)
    BY <2>1, <2>3 DEF Overlap
  <2>5. CASE c \in query
    <3>1. PICK p : Matches(records, zs, soid) = {p}
      BY <1>3, <2>3, <2>4, <2>5, PointMatches
    <3>2. Cardinality(Matches(records, zs, soid)) = 1
      BY ONLY <3>1, FS_Singleton
    <3> QED
      BY <1>3, <2>4, <2>5, <3>2, AnsweredDone
  <2>6. CASE c \notin query
    BY <1>3, <2>4, <2>6, AnsweredDone
  <2> QED
    BY <2>5, <2>6
<1>4. PointsFoundOnce
  BY <1>3 DEF PointsFoundOnce
<1> QED
  BY <1>1, <1>2, <1>4 DEF SearchesExact

\* A search reports an object that overlaps the query once for every pair of
\* its records and the query's z-values such that the query's region contains
\* the record's, and no other object (SpatialIndex::findOverlapping and
\* SpatialIndexScan over the sorted records); so an object of one cell is
\* reported once.
THEOREM SearchesExactly == Spec => []SearchesExact
<1>1. Init => IInv
  BY InitIndex
<1>2. IInv /\ [Next]_vars => IInv'
  BY NextKeeps
<1>3. IInv => SearchesExact
  BY InvariantIsExact
<1> QED
  BY <1>1, <1>2, <1>3, PTL DEF Spec
=============================================================================
