-------------------------- MODULE MCSpaceDecompose --------------------------
(***************************************************************************)
(* A space of two dimensions of 4 coordinates each, whose bits are         *)
(* interleaved in the default way, and the boxes that extend in any way in *)
(* the second dimension and in four ways in the first: one coordinate, an  *)
(* aligned pair, a pair across the first halving, and three coordinates.   *)
(***************************************************************************)
EXTENDS SpaceDecompose

MCInterleaving == <<1, 2, 1, 2>>

MCBoxes ==
    {b \in [lo : Point, hi : Point] :
        /\ \A d \in Dims : b.lo[d] <= b.hi[d]
        /\ b.lo[1] \in {0, 1} /\ b.hi[1] \in {1, 2}}
=============================================================================
