------------------------------- MODULE ZPairs -------------------------------
(***************************************************************************)
(* The operations of Z on all pairs of z-values of a space, compared with  *)
(* the regions they stand for: sorting, the merge loop, the index and the  *)
(* searches put any two of them side by side.                              *)
(***************************************************************************)
EXTENDS ZValues

\* Z-values of the maximal length, which README.md allows, are left out: the
\* interval of such a one is empty (Z.h: hi is the z-value itself).
ASSUME SpareBitAssumption == ZBits < MaxZBits

VARIABLES a, b      \* the regions whose z-values are at hand

PairsInit == a = Whole /\ b = Whole

Descend == \E bit \in Bit : Len(b) < ZBits /\ b' = Child(b, bit) /\ a' = a
Exchange == a' = b /\ b' = a
Restart == b' = Whole /\ a' = a

PairsNext == Descend \/ Exchange \/ Restart

PairsSpec == PairsInit /\ [][PairsNext]_<<a, b>>

-----------------------------------------------------------------------------

\* The integer order of z-values is the order of the regions' paths, on
\* which sorting, the merge loop and the index rely.
OrderAgrees == Less(ZValue(a), ZValue(b)) <=> Before(a, b)

\* contains is containment of the regions; siblingOf finds the two halves of
\* a region and nothing else, and their parent is that region: a merge puts in
\* the place of two z-values the one with the same cells.
SiblingsAgree ==
    /\ ContainsZ(ZValue(a), ZValue(b)) <=> Cells(b) \subseteq Cells(a)
    /\ Siblings(ZValue(a), ZValue(b)) <=> SiblingOf(a, b)
    /\ SiblingOf(a, b) => ParentZ(ZValue(a)) = ZValue(Parent(b))

\* The z-values from lo up to below hi are those of the regions within the
\* region: what SpatialIndexScan::find reads of the index.
IntervalExact ==
    Cells(b) \subseteq Cells(a) <=>
        ~Less(ZValue(b), Lo(ZValue(a))) /\ Less(ZValue(b), Hi(ZValue(a)))
=============================================================================
