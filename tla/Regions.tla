------------------------------ MODULE Regions ------------------------------
(***************************************************************************)
(* The space and its regions, as the rest of the project sees them.        *)
(*                                                                         *)
(* geophile divides a space ZBits times, each time halving one dimension.  *)
(* A region reached by the halvings is named by the turns taken: 0 for the *)
(* left (low) half, 1 for the right (high) half.  That path is at the same *)
(* time the bit string of the region's z-value, so regions and z-values    *)
(* are one thing here; which dimension a halving divides is the detail     *)
(* that module BoxRegion adds.                                              *)
(***************************************************************************)
EXTENDS Naturals, Sequences

CONSTANT ZBits      \* Space::_z_bits, the resolution of the space

ASSUME ZBitsAssumption == ZBits \in Nat \ {0}

Bit == {0, 1}

\* A finest region: every halving has been decided.
Cell == [1..ZBits -> Bit]

Region == {r \in Seq(Bit) : Len(r) <= ZBits}

\* The region covers the cell: the region's path is a prefix of the cell's.
Has(r, c) == \A n \in 1..Len(r) : c[n] = r[n]

Cells(r) == {c \in Cell : Has(r, c)}

Whole == << >>

Child(r, b) == Append(r, b)

Parent(r) == SubSeq(r, 1, Len(r) - 1)

IsPoint(r) == Len(r) = ZBits

\* Mutant of SiblingOf: the common prefix is not compared.
SiblingOfAnyParent(a, b) ==
    Len(a) > 0 /\ Len(a) = Len(b) /\ a[Len(a)] # b[Len(b)]

\* Two regions that are the halves of the same region.
SiblingOf(a, b) ==
    /\ Len(a) > 0
    /\ Len(a) = Len(b)
    /\ \A n \in 1..(Len(a) - 1) : a[n] = b[n]
    /\ a[Len(a)] # b[Len(b)]

\* What SpatialObject::containedBy and SpatialObject::compare answer for an
\* object occupying the cells of obj.
ContainedBy(obj, r) == obj \subseteq Cells(r)

\* Mutant of Inside: only a cell is recognised as inside.
InsideIfCell(obj, r) == IsPoint(r) /\ r \in obj

Inside(obj, r)   == Cells(r) \subseteq obj
Outside(obj, r)  == Cells(r) \cap obj = {}
Overlaps(obj, r) == ~Inside(obj, r) /\ ~Outside(obj, r)

\* The n-th of the left-justified z-value bits: zero beyond the length.
PaddedBit(r, n) == IF n <= Len(r) THEN r[n] ELSE 0

\* The order of the z-values as integers: the left-justified bits decide,
\* and among equal bits the length, which is held in the lowest bits.
Before(a, b) ==
    \/ \E n \in 1..ZBits :
          /\ PaddedBit(a, n) < PaddedBit(b, n)
          /\ \A k \in 1..(n - 1) : PaddedBit(a, k) = PaddedBit(b, k)
    \/ /\ \A n \in 1..ZBits : PaddedBit(a, n) = PaddedBit(b, n)
       /\ Len(a) < Len(b)
=============================================================================
