------------------------------ MODULE Numbers -------------------------------
(***************************************************************************)
(* What the proofs need of numbers: least elements, for the first position *)
(* of a kind, powers of two and quotients by them, for words and           *)
(* coordinates whose bits the code moves, ranks, for what it sorts, and    *)
(* sums of powers, for words as numbers.                                   *)
(***************************************************************************)
EXTENDS FiniteSetsExt, WellFoundedInduction, FiniteSetTheorems, FunctionTheorems, TLAPS

\* A nonempty set of natural numbers has a least element.
LEMMA LeastElement ==
    ASSUME NEW S \in SUBSET Nat, S # {}
    PROVE  \E x \in S : \A y \in S : x <= y
<1> DEFINE R == OpToRel(<, Nat)
<1>1. \A x, y \in Nat : y < x => <<y, x>> \in R
  BY DEF OpToRel
<1>2. \E x \in S : \A y \in S : ~(<<y, x>> \in R)
  BY NatLessThanWellFounded, WFMin
<1> HIDE DEF R
<1>3. PICK x \in S : \A y \in S : ~(<<y, x>> \in R)
  BY <1>2
<1>4. \A y \in S : x <= y
  <2> SUFFICES ASSUME NEW y \in S
               PROVE  x <= y
    OBVIOUS
  <2>1. ~(y < x)
    BY <1>1, <1>3
  <2> QED
    BY <2>1
<1> QED
  BY <1>4

-----------------------------------------------------------------------------
\* A power of two counts the subsets, of which one more element makes twice
\* as many.
LEMMA DoublePower ==
    ASSUME NEW k \in Nat
    PROVE  2^k \in Nat \ {0} /\ 2^(k + 1) = 2 * 2^k
<1> DEFINE A == SUBSET (0..(k - 1))
           With(s) == s \cup {k}
           B == {With(s) : s \in A}
<1>1. IsFiniteSet(0..(k - 1)) /\ Cardinality(0..(k - 1)) = k
  BY FS_Interval
<1>2. IsFiniteSet(0..k) /\ Cardinality(0..k) = k + 1
  BY FS_Interval
<1>3. IsFiniteSet(A) /\ Cardinality(A) = 2^k
  BY <1>1, FS_SUBSET
<1>4. Cardinality(SUBSET (0..k)) = 2^(k + 1)
  BY <1>2, FS_SUBSET
<1>5. SUBSET (0..k) = A \cup B
  <2>1. 0..k = 0..(k - 1) \cup {k} /\ k \notin 0..(k - 1)
    OBVIOUS
  <2>2. ASSUME NEW t \in SUBSET (0..k), k \in t PROVE t \in B
    <3>1. t \ {k} \in A /\ t = With(t \ {k})
      BY <2>1, <2>2
    <3> QED
      BY <3>1
  <2>3. ASSUME NEW t \in SUBSET (0..k), k \notin t PROVE t \in A
    BY <2>1, <2>3
  <2>4. A \cup B \subseteq SUBSET (0..k)
    BY <2>1
  <2> QED
    BY <2>2, <2>3, <2>4
<1>6. A \cap B = {}
  OBVIOUS
<1>7. IsFiniteSet(B) /\ Cardinality(B) = Cardinality(A)
  <2> DEFINE f == [s \in A |-> With(s)]
  <2>1. f \in Bijection(A, B)
    <3>1. f \in [A -> B]
      OBVIOUS
    <3>2. \A s, t \in A : f[s] = f[t] => s = t
      <4> SUFFICES ASSUME NEW s \in A, NEW t \in A, With(s) = With(t) PROVE s = t
        OBVIOUS
      <4>1. k \notin s /\ k \notin t
        OBVIOUS
      <4> QED
        BY <4>1
    <3>3. \A u \in B : \E s \in A : f[s] = u
      OBVIOUS
    <3> QED
      BY <3>1, <3>2, <3>3, Fun_IsBij
  <2> QED
    BY <1>3, <2>1, FS_Bijection DEF ExistsBijection
<1>8. Cardinality(A \cup B) = Cardinality(A) + Cardinality(B)
  <2> HIDE DEF A, B
  <2> QED
    BY <1>3, <1>6, <1>7, FS_Union, FS_EmptySet
<1>9. 2^k \in Nat /\ 2^k # 0
  <2>1. {} \in A
    OBVIOUS
  <2> HIDE DEF A
  <2> QED
    BY <1>3, <2>1, FS_CardinalityType, FS_EmptySet
<1>10. 2^(k + 1) = 2^k + 2^k
  BY ONLY <1>3, <1>4, <1>5, <1>7, <1>8
<1> QED
  BY ONLY <1>9, <1>10

\* What a quotient is, and that nothing else is.
LEMMA Quotient ==
    ASSUME NEW c \in Nat \ {0}, NEW x \in Nat
    PROVE  /\ x \div c \in Nat
           /\ c * (x \div c) <= x /\ x < c * (x \div c) + c
  BY Z3

LEMMA QuotientIs ==
    ASSUME NEW c \in Nat \ {0}, NEW x \in Nat, NEW h \in Nat, c * h <= x, x < c * h + c
    PROVE  x \div c = h
  BY Z3

\* Dividing by twice as much is halving the quotient.
LEMMA HalfQuotient ==
    ASSUME NEW c \in Nat \ {0}, NEW x \in Nat
    PROVE  x \div (2 * c) = (x \div c) \div 2
<1> DEFINE q == x \div c
           h == q \div 2
<1>1. q \in Nat /\ c * q <= x /\ x < c * q + c
  BY Quotient
<1> HIDE DEF q
<1>2. h \in Nat /\ (q = 2 * h \/ q = 2 * h + 1)
  BY <1>1
<1> HIDE DEF h
<1>3. c * q = (2 * c) * h \/ c * q = (2 * c) * h + c
  BY <1>1, <1>2, Z3
<1>4. (2 * c) * h <= x /\ x < (2 * c) * h + 2 * c
  BY <1>1, <1>2, <1>3, Z3
<1>5. 2 * c \in Nat \ {0}
  OBVIOUS
<1> QED
  BY <1>2, <1>4, <1>5, QuotientIs DEF h, q

\* Powers of two with the sum of the exponents.
LEMMA PowerSum ==
    ASSUME NEW j \in Nat, NEW k \in Nat
    PROVE  2^(j + k) = 2^j * 2^k
<1> DEFINE Bad == {n \in Nat : 2^(j + n) # 2^j * 2^n}
<1>1. SUFFICES ASSUME Bad # {} PROVE FALSE
  OBVIOUS
<1>2. PICK n \in Bad : \A m \in Bad : n <= m
  BY <1>1, LeastElement
<1> DEFINE J == 2^j
<1>3. J \in Nat
  BY DoublePower
<1>4. n # 0
  <2>1. j + 0 = j /\ 2^0 = 1
    OBVIOUS
  <2>2. J = J * 1
    BY ONLY <1>3
  <2> QED
    BY <1>2, <2>1, <2>2
<1> DEFINE p == n - 1
           P == 2^p
           Q == 2^(j + p)
<1>5. p \in Nat /\ n = p + 1 /\ j + n = (j + p) + 1 /\ ~(n <= p) /\ j + p \in Nat
  BY <1>2, <1>4
<1>6. Q = J * P
  BY <1>2, <1>5
<1>7. 2^n = 2 * P /\ 2^(j + n) = 2 * Q /\ P \in Nat /\ Q \in Nat
  BY <1>5, DoublePower
<1>8. 2 * (J * P) = J * (2 * P)
  <2> HIDE DEF J, P
  <2> QED
    BY <1>3, <1>7, Z3
<1>9. 2^(j + n) = J * 2^n
  BY ONLY <1>6, <1>7, <1>8
<1> QED
  BY <1>2, <1>9

\* The quotient by a positive number rounds down, whatever the sign.
LEMMA FloorQuotient ==
    ASSUME NEW c \in Nat \ {0}, NEW x \in Int
    PROVE  /\ x \div c \in Int /\ x % c \in 0..(c - 1)
           /\ x = c * (x \div c) + (x % c)
<1>1. x \div c \in Int /\ x % c \in 0..(c - 1)
  BY Z3
<1>2. x = c * (x \div c) + (x % c)
  BY Z3
<1> QED
  BY ONLY <1>1, <1>2

LEMMA FloorQuotientIs ==
    ASSUME NEW c \in Nat \ {0}, NEW x \in Int, NEW h \in Int, c * h <= x, x < c * h + c
    PROVE  x \div c = h
  BY Z3

\* Dividing twice is dividing by the product.
LEMMA QuotientTwice ==
    ASSUME NEW c \in Nat \ {0}, NEW d \in Nat \ {0}, NEW x \in Int
    PROVE  /\ c * d \in Nat \ {0} /\ x \div (c * d) = (x \div c) \div d
<1> DEFINE q == x \div c
           h == q \div d
           r == x % c
           s == q % d
<1>1. q \in Int /\ r \in 0..(c - 1) /\ x = c * q + r
  BY FloorQuotient
<1> HIDE DEF q, r
<1>2. h \in Int /\ s \in 0..(d - 1) /\ q = d * h + s
  BY <1>1, FloorQuotient
<1> HIDE DEF h, s
<1>3. c * q = (c * d) * h + c * s
  BY <1>1, <1>2, Z3
<1>4. 0 <= c * s /\ c * s <= c * d - c
  BY <1>2, Z3
<1>5. c * d \in Nat \ {0}
  BY Z3
<1> DEFINE e == c * d
           f == e * h
           g == c * s
<1>6. f <= x /\ x < f + e /\ e \in Nat \ {0} /\ h \in Int
  <2>1. f \in Int /\ g \in Int /\ e \in Int
    BY <1>2
  <2>2. c * q = f + g /\ 0 <= g /\ g <= e - c
    BY <1>3, <1>4
  <2>3. x = f + g + r
    BY <1>1, <2>2
  <2> HIDE DEF e, f, g
  <2>4. f <= x /\ x < f + e
    BY ONLY <1>1, <2>1, <2>2, <2>3, c \in Nat
  <2> QED
    BY <1>2, <1>5, <2>4 DEF e
<1>7. x \div e = h
  <2> HIDE DEF e
  <2> QED
    BY <1>6, FloorQuotientIs DEF f
<1> QED
  BY <1>5, <1>7 DEF h, q

\* A multiple.
LEMMA QuotientOfMultiple ==
    ASSUME NEW c \in Nat \ {0}, NEW x \in Int
    PROVE  (x * c) \div c = x
  BY Z3

\* What is left of a number above its lowest k bits.
Above(x, k) == x \div 2^k

\* One more bit gone halves what is left; beyond the highest bit nothing is.
LEMMA AboveFacts ==
    ASSUME NEW x \in Nat, NEW k \in Nat
    PROVE  /\ Above(x, k) \in Nat
           /\ Above(x, k + 1) = Above(x, k) \div 2
           /\ x < 2^k => Above(x, k) = 0
<1>1. 2^k \in Nat \ {0} /\ 2^(k + 1) = 2 * 2^k
  BY DoublePower
<1> DEFINE c == 2^k
<1>2. c \in Nat \ {0}
  BY <1>1
<1>3. x \div (2 * c) = (x \div c) \div 2 /\ x \div c \in Nat
  <2> HIDE DEF c
  <2> QED
    BY <1>2, HalfQuotient, Quotient
<1>4. x < c => x \div c = 0
  <2> HIDE DEF c
  <2>1. c * 0 <= x /\ (x < c => x < c * 0 + c)
    BY <1>2
  <2> QED
    BY <1>2, <2>1, QuotientIs
<1> QED
  BY <1>1, <1>3, <1>4 DEF Above

-----------------------------------------------------------------------------
\* R orders S.
Orders(S, R) ==
    /\ \A x \in S : <<x, x>> \notin R
    /\ \A x, y \in S : x # y => (<<x, y>> \in R \/ <<y, x>> \in R)
    /\ \A x, y, z \in S : <<x, y>> \in R /\ <<y, z>> \in R => <<x, z>> \in R

\* f lists the m elements of S in the order R.
Arranges(f, m, S, R) ==
    /\ f \in [1..m -> S]
    /\ \A e \in S : \E k \in 1..m : f[k] = e
    /\ \A j, k \in 1..m : j < k <=> <<f[j], f[k]>> \in R

\* An ordered finite set can be listed, and as many elements are before the
\* k-th one as k - 1 says: a sort may find it by that.
LEMMA Arrangement ==
    ASSUME NEW S, IsFiniteSet(S), NEW R, Orders(S, R)
    PROVE  /\ Cardinality(S) \in Nat
           /\ \E f : /\ Arranges(f, Cardinality(S), S, R)
                    /\ \A k \in 1..Cardinality(S), e \in S :
                          Cardinality({d \in S : <<d, e>> \in R}) = k - 1 <=> e = f[k]
<1> DEFINE N == Cardinality(S)
           Under(e) == {d \in S : <<d, e>> \in R}
           rank(e) == Cardinality(Under(e))
<1>1. N \in Nat
  BY FS_CardinalityType
<1>2. ASSUME NEW e \in S
      PROVE  IsFiniteSet(Under(e)) /\ rank(e) \in 0..(N - 1)
  <2>1. Under(e) \in SUBSET S /\ e \notin Under(e)
    BY DEF Orders
  <2>2. IsFiniteSet(Under(e)) /\ rank(e) <= N /\ (N = rank(e) => S = Under(e))
    BY <2>1, FS_Subset
  <2>3. rank(e) \in Nat
    BY <2>2, FS_CardinalityType
  <2> QED
    BY <1>1, <2>1, <2>2, <2>3
<1>3. ASSUME NEW d \in S, NEW e \in S, <<d, e>> \in R
      PROVE  rank(d) < rank(e)
  <2>1. Under(d) \in SUBSET Under(e) /\ d \in Under(e) /\ d \notin Under(d)
    BY <1>3 DEF Orders
  <2>2. IsFiniteSet(Under(e)) /\ rank(e) \in Nat /\ rank(d) \in Nat
    <3>1. \A c \in S : IsFiniteSet(Under(c)) /\ rank(c) \in Nat
      BY <1>1, <1>2
    <3> QED
      BY <3>1
  <2>3. rank(d) <= rank(e) /\ (rank(e) = rank(d) => Under(e) = Under(d))
    BY <2>1, <2>2, FS_Subset
  <2> QED
    BY <2>1, <2>2, <2>3
<1>4. PICK r \in [S -> 0..(N - 1)] :
          /\ \A e \in S : r[e] = Cardinality({d \in S : <<d, e>> \in R})
          /\ \A d, e \in S : <<d, e>> \in R => r[d] < r[e]
  <2> DEFINE g == [e \in S |-> rank(e)]
  <2>1. g \in [S -> 0..(N - 1)]
    BY <1>2
  <2>2. \A d, e \in S : <<d, e>> \in R => g[d] < g[e]
    BY <1>3
  <2>3. \A e \in S : g[e] = Cardinality({d \in S : <<d, e>> \in R})
    OBVIOUS
  <2> QED
    BY <2>1, <2>2, <2>3
<1> HIDE DEF rank, Under
<1>5. \A d, e \in S : r[d] = r[e] => d = e
  <2> SUFFICES ASSUME NEW d \in S, NEW e \in S, r[d] = r[e] PROVE d = e
    OBVIOUS
  <2>1. d # e => <<d, e>> \in R \/ <<e, d>> \in R
    BY DEF Orders
  <2>2. r[d] \in Int /\ r[e] \in Int
    BY <1>1
  <2>3. ~(<<d, e>> \in R) /\ ~(<<e, d>> \in R)
    BY <1>4, <2>2
  <2> QED
    BY <2>1, <2>3
<1>6. \A k \in 1..N : \E e \in S : r[e] = k - 1
  <2> DEFINE g == [e \in S |-> r[e] + 1]
  <2>1. g \in [S -> 1..N]
    BY <1>1
  <2>2. \A d, e \in S : g[d] = g[e] => d = e
    <3> SUFFICES ASSUME NEW d \in S, NEW e \in S, r[d] + 1 = r[e] + 1 PROVE d = e
      OBVIOUS
    <3>1. r[d] \in Int /\ r[e] \in Int
      BY <1>1
    <3> QED
      BY <1>5, <3>1
  <2>3. g \in Injection(S, 1..N)
    BY <2>1, <2>2, Fun_IsInj
  <2>4. IsFiniteSet(1..N) /\ Cardinality(1..N) = N
    BY <1>1, FS_Interval
  <2>5. g \in Surjection(S, 1..N)
    BY <2>3, <2>4, FS_Injection
  <2>6. \A k \in 1..N : \E e \in S : g[e] = k
    BY <2>5 DEF Surjection
  <2> QED
    BY <1>1, <2>6
<1>7. PICK f \in [1..N -> S] : \A k \in 1..N : f[k] \in S /\ r[f[k]] = k - 1
  <2> DEFINE g == [k \in 1..N |-> CHOOSE e \in S : r[e] = k - 1]
  <2>1. \A k \in 1..N : g[k] \in S /\ r[g[k]] = k - 1
    BY <1>6
  <2>2. g \in [1..N -> S]
    BY <2>1
  <2> QED
    BY <2>1, <2>2
<1>8. \A e \in S : \E k \in 1..N : f[k] = e
  <2> SUFFICES ASSUME NEW e \in S
               PROVE  \E k \in 1..N : f[k] = e
    OBVIOUS
  <2>1. r[e] \in 0..(N - 1)
    OBVIOUS
  <2>2. r[e] + 1 \in 1..N /\ (r[e] + 1) - 1 = r[e]
    BY <1>1, <2>1
  <2>3. r[f[r[e] + 1]] = r[e] /\ f[r[e] + 1] \in S
    BY <1>7, <2>2
  <2> QED
    BY <1>5, <2>2, <2>3
<1>9. ASSUME NEW j \in 1..N, NEW k \in 1..N
      PROVE  j < k <=> <<f[j], f[k]>> \in R
  <2> DEFINE x == f[j]
             y == f[k]
  <2>1. x \in S /\ y \in S /\ r[x] = j - 1 /\ r[y] = k - 1 /\ j \in Int /\ k \in Int
    <3>1. j \in 1..N /\ k \in 1..N
      BY <1>9
    <3> HIDE DEF N
    <3>2. j \in Int /\ k \in Int
      BY ONLY <1>1, <3>1
    <3> QED
      BY ONLY <1>7, <3>1, <3>2
  <2> HIDE DEF x, y
  <2>2. <<x, y>> \in R => r[x] < r[y]
    BY <1>4, <2>1
  <2>3. <<y, x>> \in R => r[y] < r[x]
    BY <1>4, <2>1
  <2>4. x = y \/ <<x, y>> \in R \/ <<y, x>> \in R
    BY <2>1 DEF Orders
  <2>5. ~(<<x, x>> \in R)
    BY <2>1 DEF Orders
  <2>6. j < k <=> <<x, y>> \in R
    BY <2>1, <2>2, <2>3, <2>4, <2>5
  <2> QED
    BY <2>6 DEF x, y
<1>10. Arranges(f, N, S, R)
  <2> HIDE DEF N
  <2> QED
    BY <1>7, <1>8, <1>9 DEF Arranges
<1>11. \A k \in 1..N, e \in S : r[e] = k - 1 <=> e = f[k]
  BY <1>5, <1>7
<1>12. \A k \in 1..N, e \in S :
          Cardinality({d \in S : <<d, e>> \in R}) = k - 1 <=> e = f[k]
  BY <1>4, <1>11
<1> QED
  BY <1>1, <1>10, <1>12

\* There is one such list only.
LEMMA SameArrangement ==
    ASSUME NEW S, NEW R, Orders(S, R), NEW m \in Nat, NEW f, NEW g,
           Arranges(f, m, S, R), Arranges(g, m, S, R)
    PROVE  f = g
<1>a. /\ f \in [1..m -> S] /\ g \in [1..m -> S]
      /\ \A e \in S : \E k \in 1..m : f[k] = e
      /\ \A e \in S : \E k \in 1..m : g[k] = e
      /\ \A j, k \in 1..m : j < k => <<f[j], f[k]>> \in R
      /\ \A j, k \in 1..m : j < k => <<g[j], g[k]>> \in R
  BY DEF Arranges
<1> SUFFICES ASSUME f # g
             PROVE  FALSE
  OBVIOUS
<1> DEFINE T == {j \in 1..m : f[j] # g[j]}
<1>1. T \in SUBSET Nat /\ T # {}
  <2>1. \E j \in 1..m : f[j] # g[j]
    BY <1>a
  <2>2. T # {}
    BY ONLY <2>1
  <2>3. \A j \in T : j \in Nat
    OBVIOUS
  <2> QED
    BY ONLY <2>2, <2>3
<1>2. PICK j \in T : \A k \in T : j <= k
  BY <1>1, LeastElement
<1>3. j \in 1..m /\ f[j] # g[j] /\ f[j] \in S /\ g[j] \in S
  BY <1>a, <1>2
<1>4. \A k \in 1..m : k < j => f[k] = g[k]
  BY <1>2
<1>5. PICK k \in 1..m : g[k] = f[j]
  BY <1>a, <1>3
<1>6. PICK l \in 1..m : f[l] = g[j]
  BY <1>a, <1>3
<1>7. <<f[j], f[j]>> \notin R /\ <<g[j], g[j]>> \notin R
  BY <1>3 DEF Orders
<1>8. j < k
  <2>1. k < j => f[k] = f[j] /\ <<f[k], f[j]>> \in R
    BY <1>a, <1>3, <1>4, <1>5
  <2>2. ~(k < j) /\ k # j
    BY <1>3, <1>5, <1>7, <2>1
  <2>3. j \in Int /\ k \in Int
    BY <1>3
  <2> QED
    BY ONLY <2>2, <2>3
<1>9. j < l
  <2>1. l < j => g[l] = g[j] /\ <<g[l], g[j]>> \in R
    BY <1>a, <1>3, <1>4, <1>6
  <2>2. ~(l < j) /\ l # j
    BY <1>3, <1>6, <1>7, <2>1
  <2>3. j \in Int /\ l \in Int
    BY <1>3
  <2> QED
    BY ONLY <2>2, <2>3
<1>10. <<g[j], f[j]>> \in R /\ <<f[j], g[j]>> \in R
  BY <1>a, <1>3, <1>5, <1>6, <1>8, <1>9
<1> QED
  BY <1>3, <1>7, <1>10 DEF Orders

\* A set of the first numbers that has all below any of its own.
LEMMA FirstOnes ==
    ASSUME NEW n \in Nat, NEW B \in SUBSET (1..n),
           \A j, k \in 1..n : j < k /\ k \in B => j \in B
    PROVE  Cardinality(B) \in 0..n /\ B = 1..Cardinality(B)
<1> DEFINE M == {x \in Nat : x > 0 /\ x \notin B}
<1>1. M \in SUBSET Nat /\ n + 1 \in M
  OBVIOUS
<1>2. PICK l \in M : \A x \in M : l <= x
  BY <1>1, LeastElement
<1>3. l \in Nat /\ l > 0 /\ l \notin B /\ l <= n + 1
  BY <1>1, <1>2
<1>4. \A x \in 1..(l - 1) : x \in B
  BY <1>2, <1>3
<1>5. \A x \in B : x \in 1..(l - 1)
  <2> SUFFICES ASSUME NEW x \in B PROVE x \in 1..(l - 1)
    OBVIOUS
  <2>1. x \in 1..n /\ x # l
    BY <1>3
  <2>2. ~(l < x)
    BY <1>3, <2>1
  <2> QED
    BY <1>3, <2>1, <2>2
<1>6. B = 1..(l - 1)
  BY <1>4, <1>5
<1>7. l - 1 \in Nat /\ Cardinality(1..(l - 1)) = l - 1
  BY <1>3, FS_Interval
<1> QED
  BY <1>3, <1>6, <1>7

-----------------------------------------------------------------------------
\* The number whose binary numeral has its ones at the positions of a set.
BitSum(s) == MapThenSumSet(LAMBDA b : 2^b, s)

\* The fold behind it takes the elements in some order: first this one.
Picked(s) == CHOOSE y \in s : TRUE
SumTurn(s, sum) == IF s = {} THEN 0 ELSE 2^Picked(s) + sum[s \ {Picked(s)}]
Sums(S) == CHOOSE sum : sum = [s \in SUBSET S |-> SumTurn(s, sum)]

LEMMA BitSumIsFold == \A S : BitSum(S) = Sums(S)[S]
BY DEF BitSum, MapThenSumSet, MapThenFoldSet, Sums, SumTurn, Picked

\* Taking the element away leaves one less.
LEMMA PickedFacts ==
    ASSUME NEW S, IsFiniteSet(S), S # {}
    PROVE  /\ Picked(S) \in S
           /\ S \ {Picked(S)} \in SUBSET S /\ IsFiniteSet(S \ {Picked(S)})
           /\ Cardinality(S) \in Nat \ {0}
           /\ Cardinality(S \ {Picked(S)}) = Cardinality(S) - 1
<1>1. Picked(S) \in S
  BY DEF Picked
<1>2. Cardinality(S) \in Nat /\ Cardinality(S) # 0
  BY FS_CardinalityType, FS_EmptySet
<1> QED
  BY <1>1, <1>2, FS_RemoveElement

\* There is such a fold: one for the small subsets gives one for those with
\* one element more.
LEMMA SumsExist ==
    ASSUME NEW S, IsFiniteSet(S)
    PROVE  Sums(S) = [s \in SUBSET S |-> SumTurn(s, Sums(S))]
<1> DEFINE Small(n) == {s \in SUBSET S : Cardinality(s) <= n}
           Folds(n, f) == f = [s \in Small(n) |-> SumTurn(s, f)]
           Bad == {n \in Nat : ~\E f : Folds(n, f)}
<1>1. \A s \in SUBSET S : IsFiniteSet(s) /\ Cardinality(s) \in Nat /\ Cardinality(s) <= Cardinality(S)
  BY FS_Subset, FS_CardinalityType
<1>2. 0 \notin Bad
  <2> DEFINE f == [s \in Small(0) |-> 0]
  <2>1. \A s \in Small(0) : s = {}
    BY <1>1, FS_EmptySet
  <2>2. \A s \in Small(0) : SumTurn(s, f) = 0
    BY <2>1 DEF SumTurn
  <2>3. f = [s \in Small(0) |-> SumTurn(s, f)]
    BY <2>2
  <2> QED
    BY <2>3
<1>3. ASSUME NEW n \in Nat, n \notin Bad PROVE n + 1 \notin Bad
  <2>1. PICK f : Folds(n, f)
    BY <1>3
  <2> DEFINE g == [s \in Small(n + 1) |-> SumTurn(s, f)]
  <2>2. ASSUME NEW s \in Small(n + 1), s # {} 
        PROVE  /\ s \ {Picked(s)} \in Small(n) /\ s \ {Picked(s)} \in Small(n + 1)
    <3>1. IsFiniteSet(s) /\ Cardinality(s) <= n + 1 /\ s \in SUBSET S
      BY <1>1
    <3>2. /\ s \ {Picked(s)} \in SUBSET s
          /\ Cardinality(s) \in Nat
          /\ Cardinality(s \ {Picked(s)}) = Cardinality(s) - 1
      BY <2>2, <3>1, PickedFacts
    <3> QED
      BY <3>1, <3>2
  <2>3. ASSUME NEW s \in Small(n + 1) PROVE SumTurn(s, f) = SumTurn(s, g)
    <3>1. CASE s = {}
      BY <3>1 DEF SumTurn
    <3>2. CASE s # {}
      <4> DEFINE r == s \ {Picked(s)}
      <4>1. r \in Small(n) /\ r \in Small(n + 1)
        BY <2>2, <3>2
      <4>2. g[r] = SumTurn(r, f)
        BY <4>1
      <4>3. f[r] = SumTurn(r, f)
        <5> HIDE DEF r, Small
        <5>1. f = [t \in Small(n) |-> SumTurn(t, f)]
          BY <2>1
        <5> QED
          BY <4>1, <5>1
      <4> HIDE DEF g
      <4> QED
        BY <3>2, <4>2, <4>3 DEF SumTurn
    <3> QED
      BY <3>1, <3>2
  <2>4. g = [s \in Small(n + 1) |-> SumTurn(s, g)]
    <3> HIDE DEF Small
    <3>1. g = [s \in Small(n + 1) |-> SumTurn(s, f)]
      OBVIOUS
    <3> HIDE DEF g
    <3> QED
      BY <3>1, <2>3
  <2> HIDE DEF g
  <2> QED
    BY <2>4
<1>4. Bad = {}
  <2> SUFFICES ASSUME Bad # {} PROVE FALSE
    OBVIOUS
  <2>0. Bad \in SUBSET Nat
    OBVIOUS
  <2> HIDE DEF Bad
  <2>1. PICK n \in Bad : \A x \in Bad : n <= x
    BY <2>0, LeastElement
  <2>2. n \in Nat /\ n # 0
    BY <1>2, <2>0
  <2>3. n - 1 \in Nat /\ n - 1 \notin Bad
    BY <2>0, <2>1, <2>2
  <2>4. (n - 1) + 1 \notin Bad
    BY <1>3, <2>3
  <2> QED
    BY <2>2, <2>4
<1>5. Small(Cardinality(S)) = SUBSET S
  BY <1>1
<1>6. Cardinality(S) \in Nat
  BY FS_CardinalityType
<1>7. \E f : f = [s \in SUBSET S |-> SumTurn(s, f)]
  <2>1. \E f : Folds(Cardinality(S), f)
    BY <1>4, <1>6
  <2> HIDE DEF Small
  <2> QED
    BY <1>5, <2>1
<1> QED
  BY <1>7 DEF Sums

\* A set's sum is the same whatever the fold began with.
LEMMA SameSums ==
    ASSUME NEW S, IsFiniteSet(S), NEW T \in SUBSET S
    PROVE  Sums(S)[T] = BitSum(T)
<1>1. IsFiniteSet(T)
  BY FS_Subset
<1> DEFINE Bad == {n \in Nat : \E s \in SUBSET T : Cardinality(s) = n /\ Sums(S)[s] # Sums(T)[s]}
<1>2. ASSUME NEW s \in SUBSET T PROVE Sums(S)[s] = SumTurn(s, Sums(S)) /\ Sums(T)[s] = SumTurn(s, Sums(T))
  <2>1. s \in SUBSET S
    OBVIOUS
  <2> QED
    BY <1>1, <2>1, SumsExist
<1>3. Bad = {}
  <2> SUFFICES ASSUME Bad # {} PROVE FALSE
    OBVIOUS
  <2>0. Bad \in SUBSET Nat
    OBVIOUS
  <2>1. PICK n \in Bad : \A x \in Bad : n <= x
    <3> HIDE DEF Bad
    <3> QED
      BY <2>0, LeastElement
  <2>2. PICK s \in SUBSET T : Cardinality(s) = n /\ Sums(S)[s] # Sums(T)[s]
    BY <2>1
  <2>3. IsFiniteSet(s)
    BY <1>1, FS_Subset
  <2>4. s # {}
    BY <1>2, <2>2 DEF SumTurn
  <2> DEFINE r == s \ {Picked(s)}
  <2>5. r \in SUBSET T /\ Cardinality(r) = n - 1 /\ n - 1 \in Nat
    <3> HIDE DEF Bad
    <3>1. r \in SUBSET s /\ Cardinality(s) \in Nat \ {0} /\ Cardinality(r) = Cardinality(s) - 1
      BY <2>3, <2>4, PickedFacts
    <3> HIDE DEF r
    <3> QED
      BY <2>2, <3>1
  <2>6. n - 1 \notin Bad
    <3> HIDE DEF Bad
    <3> QED
      BY <2>0, <2>1, <2>5
  <2>7. Sums(S)[r] = Sums(T)[r]
    BY <2>5, <2>6
  <2> QED
    BY <1>2, <2>2, <2>4, <2>7 DEF SumTurn
<1>4. Cardinality(T) \in Nat
  BY <1>1, FS_CardinalityType
<1>5. Sums(S)[T] = Sums(T)[T]
  BY <1>3, <1>4
<1> QED
  BY <1>5, BitSumIsFold

\* The sum without elements, and with one more.
LEMMA BitSumTurns ==
    ASSUME NEW S, IsFiniteSet(S)
    PROVE  /\ BitSum({}) = 0
           /\ S # {} => BitSum(S) = 2^Picked(S) + BitSum(S \ {Picked(S)})
<1>1. BitSum(S) = SumTurn(S, Sums(S))
  BY BitSumIsFold, SumsExist
<1>2. BitSum({}) = 0
  <2>1. IsFiniteSet({})
    BY FS_EmptySet
  <2>2. Sums({})[{}] = SumTurn({}, Sums({}))
    BY <2>1, SumsExist
  <2> QED
    BY <2>2, BitSumIsFold DEF SumTurn
<1>3. ASSUME S # {} PROVE BitSum(S) = 2^Picked(S) + BitSum(S \ {Picked(S)})
  BY <1>1, <1>3, SameSums DEF SumTurn
<1> QED
  BY <1>2, <1>3

\* The sum is a natural number.
LEMMA BitSumType ==
    ASSUME NEW S \in SUBSET Nat, IsFiniteSet(S)
    PROVE  BitSum(S) \in Nat
<1> DEFINE Bad == {n \in Nat : \E s \in SUBSET S : Cardinality(s) = n /\ BitSum(s) \notin Nat}
<1>1. Bad = {}
  <2> SUFFICES ASSUME Bad # {} PROVE FALSE
    OBVIOUS
  <2>0. Bad \in SUBSET Nat
    OBVIOUS
  <2>1. PICK n \in Bad : \A x \in Bad : n <= x
    <3> HIDE DEF Bad
    <3> QED
      BY <2>0, LeastElement
  <2>2. PICK s \in SUBSET S : Cardinality(s) = n /\ BitSum(s) \notin Nat
    BY <2>1
  <2>3. IsFiniteSet(s) /\ s # {}
    <3> HIDE DEF Bad
    <3>1. IsFiniteSet(s)
      BY FS_Subset
    <3>2. BitSum({}) = 0
      BY <3>1, BitSumTurns
    <3> QED
      BY <2>2, <3>1, <3>2
  <2> DEFINE r == s \ {Picked(s)}
  <2>4. /\ Picked(s) \in Nat /\ r \in SUBSET S
        /\ Cardinality(s) \in Nat \ {0} /\ Cardinality(r) = Cardinality(s) - 1
    BY <2>3, PickedFacts
  <2>5. BitSum(s) = 2^Picked(s) + BitSum(r)
    BY <2>3, BitSumTurns
  <2>6. 2^Picked(s) \in Nat
    BY <2>4, DoublePower
  <2> HIDE DEF r
  <2>7. n - 1 \in Nat /\ n - 1 \notin Bad
    <3> HIDE DEF Bad
    <3> QED
      BY <2>0, <2>1, <2>2, <2>4
  <2>8. BitSum(r) \in Nat
    BY <2>2, <2>4, <2>7
  <2> QED
    BY <2>2, <2>5, <2>6, <2>8
<1>2. Cardinality(S) \in Nat
  BY FS_CardinalityType
<1> QED
  BY <1>1, <1>2

\* The sum of one position.
LEMMA BitSumOne ==
    ASSUME NEW b \in Nat
    PROVE  BitSum({b}) = 2^b
<1>1. IsFiniteSet({b}) /\ {b} # {} /\ Picked({b}) = b /\ {b} \ {b} = {}
  BY FS_Singleton DEF Picked
<1>2. BitSum({b}) = 2^b + BitSum({})
  BY <1>1, BitSumTurns
<1>3. BitSum({}) = 0 /\ 2^b \in Nat
  BY <1>1, BitSumTurns, DoublePower
<1> QED
  BY <1>2, <1>3

\* The sums of sets that share no position add up.
LEMMA BitSumAdds ==
    ASSUME NEW S \in SUBSET Nat, IsFiniteSet(S), NEW A \in SUBSET S
    PROVE  BitSum(S) = BitSum(A) + BitSum(S \ A)
<1> DEFINE Split(s, a) == BitSum(s) = BitSum(a) + BitSum(s \ a)
           Bad == {n \in Nat : \E s \in SUBSET S : Cardinality(s) = n /\ \E a \in SUBSET s : ~Split(s, a)}
<1>0. \A s \in SUBSET S : IsFiniteSet(s) /\ BitSum(s) \in Nat /\ Cardinality(s) \in Nat
  BY FS_Subset, FS_CardinalityType, BitSumType
<1>a. BitSum({}) = 0
  BY BitSumTurns
<1>1. Bad = {}
  <2> SUFFICES ASSUME Bad # {} PROVE FALSE
    OBVIOUS
  <2>0. Bad \in SUBSET Nat
    OBVIOUS
  <2>1. PICK n \in Bad : \A x \in Bad : n <= x
    <3> HIDE DEF Bad
    <3> QED
      BY <2>0, LeastElement
  <2>2. PICK s \in SUBSET S : Cardinality(s) = n /\ \E a \in SUBSET s : ~Split(s, a)
    BY <2>1
  <2>3. \A t \in SUBSET S : Cardinality(t) < n => \A a \in SUBSET t : Split(t, a)
    <3> SUFFICES ASSUME NEW t \in SUBSET S, Cardinality(t) < n
                 PROVE  \A a \in SUBSET t : Split(t, a)
      OBVIOUS
    <3>1. Cardinality(t) \in Nat /\ Cardinality(t) \notin Bad
      <4> HIDE DEF Bad, Split
      <4> QED
        BY <1>0, <2>0, <2>1
    <3> HIDE DEF Split
    <3> QED
      BY <3>1
  <2> HIDE DEF Bad
  <2>4. ASSUME NEW a \in SUBSET s, ~Split(s, a), Picked(s) \in a PROVE FALSE
    <3> DEFINE x == Picked(s)
               r == s \ {x}
    <3>1. /\ IsFiniteSet(s) /\ s # {}
          /\ x \in s /\ x \in Nat /\ r \in SUBSET S
          /\ Cardinality(s) \in Nat \ {0} /\ Cardinality(r) = Cardinality(s) - 1
          /\ BitSum(s) = 2^x + BitSum(r)
      <4>1. IsFiniteSet(s) /\ s # {}
        BY <1>0, <2>4
      <4> QED
        BY <4>1, PickedFacts, BitSumTurns
    <3>2. 2^x \in Nat
      BY <3>1, DoublePower
    <3> HIDE DEF x
    <3>x. x \in a
      BY <2>4 DEF x
    <3>3. Cardinality(r) < n /\ a \ {x} \in SUBSET r /\ a \ {x} \in SUBSET S
      <4>1. Cardinality(r) < n
        <5> HIDE DEF r
        <5> QED
          BY <2>2, <3>1
      <4> QED
        BY <4>1
    <3>4. Split(r, a \ {x})
      <4> HIDE DEF Split, r
      <4> QED
        BY <2>3, <3>1, <3>3
    <3>5. r \ (a \ {x}) = s \ a
      BY <3>x
    <3>6. BitSum(r) = BitSum(a \ {x}) + BitSum(s \ a)
      BY <3>4, <3>5
    <3>7. BitSum(a) = 2^x + BitSum(a \ {x})
      <4>1. CASE a = s
        <5>1. a \ {x} = r
          BY <4>1
        <5> QED
          BY <3>1, <4>1, <5>1
      <4>2. CASE a # s
        <5>1. Cardinality(a) < Cardinality(s)
          <6> HIDE DEF Split, r
          <6>1. a \in SUBSET s /\ IsFiniteSet(s)
            BY <3>1
          <6>2. /\ Cardinality(a) <= Cardinality(s)
                /\ Cardinality(a) = Cardinality(s) => a = s
            BY <6>1, FS_Subset
          <6>3. Cardinality(a) \in Nat /\ Cardinality(s) \in Nat
            BY <1>0
          <6> QED
            BY <4>2, <6>2, <6>3
        <5>2. {x} \in SUBSET a /\ a \in SUBSET S
          BY <3>x
        <5>3. Split(a, {x})
          <6> HIDE DEF Split
          <6> QED
            BY <2>2, <2>3, <5>1, <5>2
        <5>4. BitSum({x}) = 2^x
          BY <3>1, BitSumOne
        <5> QED
          BY <5>3, <5>4
      <4> QED
        BY <4>1, <4>2
    <3>8. /\ BitSum(a \ {x}) \in Nat /\ BitSum(s \ a) \in Nat /\ BitSum(r) \in Nat
          /\ BitSum(s) \in Nat /\ BitSum(a) \in Nat
      BY <1>0, <3>1, <3>3
    <3>9. BitSum(s) = BitSum(a) + BitSum(s \ a)
      <4> HIDE DEF r
      <4> QED
        BY <3>1, <3>2, <3>6, <3>7, <3>8
    <3> QED
      BY <2>4, <3>9
  <2>5. PICK a \in SUBSET s : ~Split(s, a)
    BY <2>2
  <2>6. Picked(s) \notin a
    BY <2>4, <2>5
  <2>7. s # {}
    <3> SUFFICES ASSUME s = {} PROVE FALSE
      OBVIOUS
    <3>1. a = {} /\ s \ a = {}
      OBVIOUS
    <3>2. BitSum(s) = BitSum(a) + BitSum(s \ a)
      BY ONLY <1>a, <3>1, s = {}
    <3> QED
      BY <2>5, <3>2
  <2>8. Picked(s) \in s \ a
    BY <1>0, <2>6, <2>7, PickedFacts
  <2>9. ~Split(s, s \ a)
    <3>1. s \ (s \ a) = a
      OBVIOUS
    <3>2. BitSum(a) \in Nat /\ BitSum(s \ a) \in Nat
      BY <1>0
    <3>3. BitSum(s) # BitSum(a) + BitSum(s \ a)
      BY <2>5
    <3>4. BitSum(s) # BitSum(s \ a) + BitSum(s \ (s \ a))
      BY ONLY <3>1, <3>2, <3>3
    <3> QED
      BY <3>4
  <2> HIDE DEF Split
  <2> QED
    BY <2>4, <2>8, <2>9
<1>2. Cardinality(S) \in Nat
  BY <1>0
<1>3. Split(S, A)
  <2> HIDE DEF Split
  <2> QED
    BY <1>1, <1>2
<1> QED
  BY <1>3

\* Positions below k make a number below 2^k.
LEMMA BitSumBelow ==
    ASSUME NEW m \in Nat, NEW S \in SUBSET (0..(m - 1))
    PROVE  IsFiniteSet(S) /\ BitSum(S) \in 0..(2^m - 1)
<1> DEFINE Bad == {n \in Nat : \E s \in SUBSET (0..(n - 1)) : BitSum(s) \notin 0..(2^n - 1)}
<1>0. ASSUME NEW n \in Nat, NEW s \in SUBSET (0..(n - 1))
      PROVE  IsFiniteSet(s) /\ BitSum(s) \in Nat /\ s \in SUBSET Nat
  <2>1. IsFiniteSet(0..(n - 1))
    BY FS_Interval
  <2> HIDE DEF Bad
  <2>2. s \in SUBSET Nat
    OBVIOUS
  <2>3. IsFiniteSet(s)
    BY <2>1, FS_Subset
  <2> QED
    BY <2>2, <2>3, BitSumType
<1>1. Bad = {}
  <2> SUFFICES ASSUME Bad # {} PROVE FALSE
    OBVIOUS
  <2>0. Bad \in SUBSET Nat
    OBVIOUS
  <2>1. PICK n \in Bad : \A x \in Bad : n <= x
    <3> HIDE DEF Bad
    <3> QED
      BY <2>0, LeastElement
  <2>2. PICK s \in SUBSET (0..(n - 1)) : BitSum(s) \notin 0..(2^n - 1)
    BY <2>1
  <2>3. n # 0
    <3> SUFFICES ASSUME n = 0 PROVE FALSE
      OBVIOUS
    <3> HIDE DEF Bad
    <3>1. s = {}
      OBVIOUS
    <3>2. BitSum({}) = 0
      BY FS_EmptySet, BitSumTurns
    <3>3. 2^0 \in Nat \ {0}
      BY DoublePower
    <3> QED
      BY <2>2, <3>1, <3>2, <3>3
  <2>4. n - 1 \in Nat /\ n - 1 \notin Bad
    <3> HIDE DEF Bad
    <3> QED
      BY <2>0, <2>1, <2>3
  <2> DEFINE b == n - 1
             r == s \ {b}
  <2>5. r \in SUBSET (0..(b - 1))
    OBVIOUS
  <2>6. BitSum(r) \in 0..(2^b - 1)
    BY <2>4, <2>5
  <2>7. 2^b \in Nat \ {0} /\ 2^n = 2 * 2^b
    BY <2>4, DoublePower
  <2>8. CASE b \notin s
    <3>1. r = s
      BY <2>8
    <3> HIDE DEF r, b, Bad
    <3> QED
      BY <2>2, <2>6, <2>7, <3>1
  <2>9. CASE b \in s
    <3>1. BitSum(s) = BitSum({b}) + BitSum(r)
      <4>1. {b} \in SUBSET s /\ s \in SUBSET Nat /\ IsFiniteSet(s)
        BY <2>0, <2>9, <1>0
      <4> HIDE DEF b
      <4> QED
        BY <4>1, BitSumAdds
    <3>2. BitSum({b}) = 2^b
      BY <2>4, BitSumOne
    <3> HIDE DEF r, b, Bad
    <3> QED
      BY <2>2, <2>6, <2>7, <3>1, <3>2
  <2> QED
    BY <2>8, <2>9
<1>2. BitSum(S) \in 0..(2^m - 1)
  BY <1>1
<1> QED
  BY <1>0, <1>2

\* Of two numbers that with the one in the highest position where they differ
\* is larger.
LEMMA BitSumOrder ==
    ASSUME NEW m \in Nat, NEW v \in SUBSET (0..(m - 1)), NEW w \in SUBSET (0..(m - 1)),
           NEW h \in w \ v, \A j \in v \cup w : j > h => j \in v \cap w
    PROVE  BitSum(v) < BitSum(w)
<1> DEFINE top == {j \in v : j > h}
           low == v \ top
           one == top \cup {h}
           rest == w \ one
<1>0. \A j \in v \cup w : j \in 0..(m - 1)
  OBVIOUS
<1>1. h \in Nat /\ IsFiniteSet(v) /\ IsFiniteSet(w) /\ v \in SUBSET Nat /\ w \in SUBSET Nat
  <2>1. h \in Nat /\ v \in SUBSET Nat /\ w \in SUBSET Nat
    BY <1>0
  <2> QED
    BY <2>1, BitSumBelow
<1>2. top \in SUBSET v /\ one \in SUBSET w /\ low \in SUBSET (0..(h - 1))
  <2>1. top \in SUBSET v /\ one \in SUBSET w
    OBVIOUS
  <2>2. ASSUME NEW j \in low PROVE j \in 0..(h - 1)
    <3>1. j \in 0..(m - 1) /\ ~(j > h) /\ j # h
      BY <1>0
    <3> QED
      BY <1>1, <3>1
  <2> QED
    BY <2>1, <2>2
<1>3. one \ top = {h} /\ top \in SUBSET one /\ IsFiniteSet(one) /\ one \in SUBSET Nat
  BY <1>1, <1>2, FS_Subset
<1>4. IsFiniteSet(rest) /\ IsFiniteSet(top) /\ rest \in SUBSET Nat /\ top \in SUBSET Nat
  BY <1>1, <1>2, FS_Subset
<1> HIDE DEF top, one
<1>5. BitSum(v) = BitSum(top) + BitSum(low)
  BY <1>1, <1>2, BitSumAdds
<1>6. BitSum(w) = BitSum(one) + BitSum(rest)
  BY <1>1, <1>2, BitSumAdds
<1>7. BitSum(one) = BitSum(top) + 2^h
  <2>1. BitSum(one) = BitSum(top) + BitSum({h})
    BY <1>3, BitSumAdds
  <2>2. BitSum({h}) = 2^h
    BY <1>1, BitSumOne
  <2> QED
    BY <2>1, <2>2
<1> HIDE DEF low, rest
<1>8. BitSum(low) \in 0..(2^h - 1) /\ 2^h \in Nat
  BY <1>1, <1>2, BitSumBelow, DoublePower
<1>9. BitSum(rest) \in Nat /\ BitSum(top) \in Nat
  BY <1>4, BitSumType
<1> QED
  BY <1>5, <1>6, <1>7, <1>8, <1>9

=============================================================================
