----------------------------- MODULE SpaceGrid -----------------------------
(***************************************************************************)
(* The constructor of Space, and the way from an application's point to a  *)
(* z-value: appToZ finds the grid cell in each dimension, shuffle          *)
(* interleaves the bits of the cell's coordinates by looking up masks, one *)
(* byte of a coordinate at a time.                                         *)
(*                                                                         *)
(* The code's sizes are ByteBits = 8, IntBits = 32, LongBits = 64 and      *)
(* TopBit = 62.  A z-value is the set of the positions of its 1 bits.      *)
(* Coordinates of the application are counted in halves of a grid cell     *)
(* from the low end of the space, so that arithmetic is exact: what the    *)
(* rounding of doubles adds is not modelled.                               *)
(***************************************************************************)
EXTENDS Integers, Sequences, FiniteSets

CONSTANTS
    Resolutions,    \* the x_bits that applications ask for
    ByteBits, IntBits, LongBits,
    TopBit          \* the position of the first bit of a z-value

ASSUME WidthsAssumption ==
    /\ ByteBits \in Nat \ {0} /\ IntBits \in Nat /\ LongBits \in Nat
    /\ IntBits < LongBits /\ TopBit \in Int

ASSUME ResolutionsAssumption ==
    \A r \in Resolutions :
        /\ r \in Seq(Nat) /\ r # << >>
        /\ \A d \in DOMAIN r : r[d] < IntBits

VARIABLES
    stage,         \* where the constructor is
    xBits,      \* _x_bits
    interleave, \* _interleave
    dim,        \* local d of useDefaultInterleaving
    masks,      \* _shuffle, by dimension, byte position and byte
    point,      \* the point whose z-value was last asked for
    key         \* its z-value

gridVars == <<stage, xBits, interleave, dim, masks, point, key>>

GridInit ==
    /\ stage = "none" /\ xBits = << >> /\ interleave = << >> /\ dim = 0
    /\ masks = << >> /\ point = << >> /\ key = {}

GridDims == DOMAIN xBits

\* The paths to the cells of the grid, as module BoxRegion has them.
Paths == INSTANCE BoxRegion WITH Dims <- GridDims, Interleaving <- interleave

\* The bits of the coordinates, and their number.
BitsOf(r) == UNION {{d} \X (1..r[d]) : d \in DOMAIN r}
GridBits == Cardinality(BitsOf(xBits))                          \* _z_bits

\* How often the first n places of the interleaving name dimension d.
Named(d, n) == Cardinality({k \in 1..n : interleave[k] = d})

Bytes(d) == 0..((xBits[d] + ByteBits - 1) \div ByteBits - 1)     \* _x_bytes

\* The byte at byte position b.
ByteAt(x, b) == (x \div 2^(ByteBits * b)) % 2^ByteBits

-----------------------------------------------------------------------------
\* The constructor, with the default interleaving or with one it is given.

Construct(r) ==
    /\ stage = "none"
    /\ xBits' = r
    /\ dim' = 0
    /\ \/ stage' = "interleave" /\ interleave' = << >>
       \/ /\ stage' = "check"
          /\ interleave' \in [1..Cardinality(BitsOf(r)) -> DOMAIN r]
    /\ UNCHANGED <<masks, point, key>>

\* Mutant of NextTurn: a dimension keeps its turn while it has bits left.
NextTurnKept(d) ==
    CHOOSE e \in GridDims : /\ Named(e, Len(interleave)) # xBits[e]
                        /\ \A f \in 1..(e - 1) : Named(f, Len(interleave)) = xBits[f]

\* The dimension whose turn is n places after that of d.
Turn(d, n) == ((d + n - 1) % Len(xBits)) + 1

\* The next dimension in turn that has bits left.
NextTurn(d) ==
    LET free == {n \in 1..Len(xBits) :
                    Named(Turn(d, n), Len(interleave)) # xBits[Turn(d, n)]}
    IN  Turn(d, CHOOSE n \in free : \A m \in free : n <= m)

\* One round of the loop of useDefaultInterleaving.
InterleaveNext ==
    /\ stage = "interleave" /\ Len(interleave) < GridBits
    /\ dim' = NextTurn(dim)
    /\ interleave' = Append(interleave, dim')
    /\ UNCHANGED <<stage, xBits, masks, point, key>>

EndInterleave ==
    /\ stage = "interleave" /\ Len(interleave) = GridBits
    /\ stage' = "check"
    /\ UNCHANGED <<xBits, interleave, dim, masks, point, key>>

\* The constructor throws unless the interleaving uses every bit once.
RejectInterleaving ==
    /\ stage = "check" /\ \E d \in GridDims : Named(d, GridBits) # xBits[d]
    /\ stage' = "rejected"
    /\ UNCHANGED <<xBits, interleave, dim, masks, point, key>>

\* xz[d][p]: the place of bit p of coordinate d, counted from the left.
Place(d, p) ==
    CHOOSE n \in 1..GridBits : interleave[n] = d /\ Named(d, n) = p + 1

\* Mutant of MaskOf: the bit is looked for in the first byte.
MaskOfFirstByte(d, b, byte) ==
    {TopBit + 1 - Place(d, xBits[d] - 1 - k) :
        k \in {j \in 0..(xBits[d] - 1) : j \div ByteBits = b /\ Paths!BitAt(byte, j) = 1}}

\* The bits of the z-value that a byte of coordinate d contributes, if it is
\* the byte at position b: for each bit k of the coordinate that lies in that
\* byte and is set.
MaskOf(d, b, byte) ==
    {TopBit + 1 - Place(d, xBits[d] - 1 - k) :
        k \in {j \in 0..(xBits[d] - 1) :
                  j \div ByteBits = b /\ Paths!BitAt(byte * 2^(ByteBits * b), j) = 1}}

ComputeShuffleMasks ==
    /\ stage = "check" /\ \A d \in GridDims : Named(d, GridBits) = xBits[d]
    /\ stage' = "ready"
    /\ masks' = [d \in GridDims |-> [b \in Bytes(d) |->
                    [byte \in 0..(2^ByteBits - 1) |-> MaskOf(d, b, byte)]]]
    /\ UNCHANGED <<xBits, interleave, dim, point, key>>

-----------------------------------------------------------------------------
\* From a point to its z-value.

\* 1 << x_bits, a signed int, stored in a uint64_t.
Range64(d) ==
    IF xBits[d] = IntBits - 1 THEN 2^LongBits - 2^(IntBits - 1) ELSE 2^xBits[d]

\* The coordinates of the application, in halves of a cell.
Coordinates(d) == 0..(2 * 2^xBits[d])

\* Mutant of AppToZ: the high end is not treated apart.
AppToZPlain(d, x) == (x * Range64(d)) \div (2 * 2^xBits[d])

AppToZ(d, x) ==
    IF x = 2 * 2^xBits[d]
    THEN LET range == Range64(d)
         IN  (IF range >= 2^(LongBits - 1) THEN range - 2^LongBits ELSE range) - 1
    ELSE (x * Range64(d)) \div (2 * 2^xBits[d])

\* zToApp, exactly.
ZToApp(d, z) == (z * 2 * 2^xBits[d]) \div Range64(d)

GridCell(p) == [d \in GridDims |-> AppToZ(d, p[d])]

\* One table lookup for every byte of every coordinate.
Shuffle(x) ==
    UNION {UNION {masks[d][b][ByteAt(x[d], b)] : b \in Bytes(d)} : d \in GridDims}

SpatialIndexKey(p) ==
    /\ stage = "ready"
    /\ point' = p /\ key' = Shuffle(GridCell(p))
    /\ UNCHANGED <<stage, xBits, interleave, dim, masks>>

\* The space is deleted, or was never made.
Delete ==
    /\ stage \in {"ready", "rejected"}
    /\ stage' = "none" /\ xBits' = << >> /\ interleave' = << >> /\ dim' = 0
    /\ masks' = << >> /\ point' = << >> /\ key' = {}

GridNext ==
    \/ \E r \in Resolutions : Construct(r)
    \/ InterleaveNext \/ EndInterleave \/ RejectInterleaving \/ ComputeShuffleMasks
    \/ \E p \in [GridDims -> UNION {Coordinates(d) : d \in GridDims}] :
          (\A d \in GridDims : p[d] \in Coordinates(d)) /\ SpatialIndexKey(p)
    \/ Delete

GridSpec == GridInit /\ [][GridNext]_gridVars

-----------------------------------------------------------------------------

GridTypeOK ==
    /\ stage \in {"none", "interleave", "check", "rejected", "ready"}
    /\ interleave \in Seq(GridDims)
    /\ \A d \in GridDims : Named(d, Len(interleave)) <= xBits[d] \/ stage \in {"check", "rejected"}
    /\ key \subseteq (TopBit + 1 - GridBits)..TopBit

\* The default interleaving never fails the constructor's own check, and the
\* dimensions take turns: no dimension is divided twice before another one
\* that has bits left.  (dim is 0 only when an interleaving was given.)
DefaultTakesTurns ==
    dim # 0 =>
        /\ stage # "rejected"
        /\ \A d, e \in GridDims : \A n \in 1..Len(interleave) :
              Named(d, n) > Named(e, n) + 1 => Named(e, n) = xBits[e]

\* The table lookups interleave the coordinates bit by bit: the z-value is the
\* path to the cell that module BoxRegion divides the space by, which is what
\* Space::decompose and the index take it for.
KeyIsPath ==
    /\ GridTypeOK
    /\ point # << >> =>
        LET path == Paths!Shuffled(GridCell(point), GridBits)
        IN  key = {TopBit + 1 - n : n \in {k \in 1..GridBits : path[k] = 1}}

\* Every point of the space, its high end included, is in a cell of the grid;
\* cells are ordered as the coordinates are, and the low end of a cell is a
\* point of the cell.
GridKeepsOrder ==
    stage = "ready" => \A d \in GridDims :
        /\ \A x \in Coordinates(d) : AppToZ(d, x) \in 0..(2^xBits[d] - 1)
        /\ \A x, y \in Coordinates(d) : x < y => AppToZ(d, x) <= AppToZ(d, y)
        /\ \A z \in 0..(2^xBits[d] - 1) : AppToZ(d, ZToApp(d, z)) = z
=============================================================================
