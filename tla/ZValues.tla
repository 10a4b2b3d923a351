------------------------------ MODULE ZValues ------------------------------
(***************************************************************************)
(* Z: a z-value packed in a 64-bit integer.  The sign bit is 0, then come  *)
(* the bits of the region's path, left-justified and padded with zeros,    *)
(* and the lowest LengthBits bits hold the length of the path.  Indexes    *)
(* order z-values as integers and a search scans an interval of them, so   *)
(* what the bit masks compute must agree with the regions of module        *)
(* Regions.                                                                *)
(*                                                                         *)
(* A word is the set of the positions of its 1 bits, position 0 being the  *)
(* lowest: & and | are \cap and \cup.  The code's sizes are MAX_Z_BITS     *)
(* = 57 and LENGTH_BITS = 6, of 64; its shifts by 63 - n and 64 - n are    *)
(* shifts by WordBits - 1 - n and WordBits - n here.                       *)
(***************************************************************************)
EXTENDS Regions, Integers

CONSTANTS MaxZBits, LengthBits

ASSUME SizesAssumption ==
    /\ MaxZBits \in Nat /\ LengthBits \in Nat
    /\ ZBits <= MaxZBits        \* README.md: "must never exceed 57"
    /\ MaxZBits < 2^LengthBits

WordBits == 1 + MaxZBits + LengthBits

Word == SUBSET (0..(WordBits - 2))      \* the sign bit is not used

\* ((1 << count) - 1) << lowest
Mask(lowest, count) == lowest..(lowest + count - 1)

LengthMask == Mask(0, LengthBits)

\* A number in the lowest bits.
LengthWord(n) == {k \in LengthMask : (n \div 2^k) % 2 = 1}

\* Z(bits, length)
Packed(bits, length) == bits \cup LengthWord(length)

\* z & LENGTH_MASK, as a number
Length(z) == CHOOSE n \in 0..MaxZBits : LengthWord(n) = z \cap LengthMask

\* Mutant of ZValue: the bits are not left-justified.
ZValueRightJustified(r) ==
    Packed({LengthBits + Len(r) - n : n \in {k \in 1..Len(r) : r[k] = 1}}, Len(r))

\* The z-value of a region: Space::shuffle puts bit n of the path (counting
\* from 1) at position 62 - (n - 1).
ZValue(r) ==
    Packed({WordBits - 1 - n : n \in {k \in 1..Len(r) : r[k] = 1}}, Len(r))

\* < of nonnegative integers: the highest bit that differs decides.
Less(v, w) ==
    \E k \in w \ v : \A j \in (v \cup w) : j > k => j \in v \cap w

Lo(z) == z

\* Mutant of Hi: one bit short.
HiShort(z) == z \cup Mask(LengthBits, MaxZBits - Length(z) - 1)

Hi(z) == z \cup Mask(LengthBits, MaxZBits - Length(z))

\* Mutant of Siblings: the bits above the last are not compared.
SiblingsLastBit(z, that) ==
    LET length == Length(z)
        differ == Mask(WordBits - 1 - length, 1)
    IN  length > 0 /\ length = Length(that) /\ z \cap differ # that \cap differ

\* siblingOf
Siblings(z, that) ==
    LET length == Length(z)
        match  == Mask(WordBits - length, length - 1)
        differ == Mask(WordBits - 1 - length, 1)
    IN  /\ length > 0
        /\ length = Length(that)
        /\ z \cap match = that \cap match
        /\ z \cap differ # that \cap differ

\* parent
ParentZ(z) ==
    LET length == Length(z) - 1
    IN  Packed(z \cap Mask(WordBits - 1 - length, length), length)

ContainsZ(z, that) ==
    LET mask == Mask(WordBits - 1 - Length(z), Length(z))
    IN  Length(z) <= Length(that) /\ z \cap mask = that \cap mask

=============================================================================
