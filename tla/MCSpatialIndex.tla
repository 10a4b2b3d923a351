--------------------------- MODULE MCSpatialIndex ---------------------------
(***************************************************************************)
(* Four cells in a space of two halvings.  The shapes: three cells, among  *)
(* them the first and the last, an aligned pair, a pair across the first   *)
(* halving, and the whole space.                                           *)
(* Every approximation of a shape may be its decomposition.                *)
(***************************************************************************)
EXTENDS SpatialIndex

At(x, y) == <<x, y>>

MCShapes ==
    {{At(0, 0)}, {At(0, 1)}, {At(1, 1)}, {At(0, 0), At(0, 1)},
     {At(0, 1), At(1, 0)}, Cell}

MCRegions == UNION {[1..n -> Bit] : n \in 0..ZBits}

MCDecompositions ==
    [s \in MCShapes |-> {d \in SUBSET MCRegions : Approximates(d, s)}]
=============================================================================
