----------------------------- MODULE BoxRegion -----------------------------
(***************************************************************************)
(* Region and Box2: a region as the code holds it, an interval of each     *)
(* coordinate, and a box compared with it.                                 *)
(*                                                                         *)
(* Coordinates are the integers that Space::appToZ yields for the          *)
(* application's coordinates.                                              *)
(***************************************************************************)
EXTENDS Integers, Sequences, FiniteSets

CONSTANTS
    Dims,           \* the dimensions
    Interleaving      \* the sequence of the dimensions that the halvings divide

ASSUME InterleavingAssumption == Interleaving \in Seq(Dims) /\ Interleaving # << >>

\* Space::_z_bits and Space::_x_bits.
ZBits == Len(Interleaving)
XBits(d) == Cardinality({n \in 1..ZBits : Interleaving[n] = d})

Coordinate(d) == 0..(2^XBits(d) - 1)
Point == {x \in [Dims -> UNION {Coordinate(d) : d \in Dims}] :
              \A d \in Dims : x[d] \in Coordinate(d)}

\* The bits of an unsigned integer.
BitAt(x, k) == (x \div 2^k) % 2
SetBit(x, k) == x + (1 - BitAt(x, k)) * 2^k
ClearBit(x, k) == x - BitAt(x, k) * 2^k

-----------------------------------------------------------------------------
\* Region::initialize for level = ZBits, the only level it is called with.
\* Space::decompose passes the same point for lo and hi.
Initialized(x) ==
    [level |-> ZBits, lo |-> x, hi |-> x, xBit |-> [d \in Dims |-> 0]]

\* The dimension that the halving from level to level + 1 divides.
Divided(level) == Interleaving[level + 1]

DownLeft(r) ==
    LET d == Divided(r.level)
    IN  [r EXCEPT !.level = @ + 1, !.xBit[d] = @ - 1,
                  !.hi[d] = ClearBit(@, r.xBit[d] - 1)]

DownRight(r) ==
    LET d == Divided(r.level)
    IN  [r EXCEPT !.level = @ + 1, !.xBit[d] = @ - 1,
                  !.lo[d] = SetBit(@, r.xBit[d] - 1)]

\* Mutant of RegionUp: the bit position is not put back.
RegionUpNoBit(r) ==
    LET d == Divided(r.level - 1)
    IN  [r EXCEPT !.level = @ - 1,
                  !.lo[d] = ClearBit(@, r.xBit[d]),
                  !.hi[d] = SetBit(@, r.xBit[d])]

RegionUp(r) ==
    LET d == Divided(r.level - 1)
    IN  [r EXCEPT !.level = @ - 1, !.xBit[d] = @ + 1,
                  !.lo[d] = ClearBit(@, r.xBit[d]),
                  !.hi[d] = SetBit(@, r.xBit[d])]

IsPoint(r) == r.level = ZBits

\* Space::shuffle of the first level bits: bit n of the z-value is the next
\* bit, from the left, of the coordinate that halving n divides.
Shuffled(x, level) ==
    [n \in 1..level |->
        LET d == Interleaving[n]
            seen == Cardinality({m \in 1..n : Interleaving[m] = d})
        IN  BitAt(x[d], XBits(d) - seen)]

\* Region::z
RegionZ(r) == Shuffled(r.lo, r.level)

-----------------------------------------------------------------------------
\* Box2, with its corners box.lo and box.hi (Point2 is the box of one point).

ArbitraryPoint(box) == box.lo

ContainedBy(box, r) ==
    \A d \in Dims : r.lo[d] <= box.lo[d] /\ box.hi[d] <= r.hi[d]

\* Mutant of InsideBox: one dimension is enough.
InsideSomeSide(box, r) ==
    \E d \in Dims : box.lo[d] <= r.lo[d] /\ r.hi[d] <= box.hi[d]

\* The three answers of compare.
InsideBox(box, r) ==
    \A d \in Dims : box.lo[d] <= r.lo[d] /\ r.hi[d] <= box.hi[d]

OutsideBox(box, r) ==
    ~InsideBox(box, r)
        /\ \E d \in Dims : r.hi[d] < box.lo[d] \/ r.lo[d] > box.hi[d]

OverlapsBox(box, r) == ~InsideBox(box, r) /\ ~OutsideBox(box, r)

\* The z-values of the cells of a box, for the comparison with Decomposition.
CellsOfBox(box) ==
    {Shuffled(x, ZBits) : x \in
        {y \in Point : \A d \in Dims : box.lo[d] <= y[d] /\ y[d] <= box.hi[d]}}
=============================================================================
