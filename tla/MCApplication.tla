--------------------------- MODULE MCApplication ---------------------------
(***************************************************************************)
(* A space of 4 by 4 cells, two coordinates to a cell.  The examples have  *)
(* two points, which may share a cell, be in one column or row of cells,   *)
(* or apart; the test has sixteen, one in each cell.  The boxes are single *)
(* columns of points or cut cells, and need up to four z-values.           *)
(***************************************************************************)
EXTENDS Application

At(x, y) == <<x, y>>
Box(xlo, xhi, ylo, yhi) == [lo |-> At(xlo, ylo), hi |-> At(xhi, yhi)]

MCInterleaving == <<1, 2, 1, 2>>
MCPositions == {At(x, y) : x \in {1, 2, 3}, y \in {3, 6}}
MCQueries ==
    {Box(xlo, xhi, y[1], y[2]) : xlo \in {1, 3}, xhi \in {3, 4}, y \in {<<0, 3>>, <<3, 7>>}}
=============================================================================
