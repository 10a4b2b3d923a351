-------------------------- MODULE MCDecomposition --------------------------
(***************************************************************************)
(* A space of four halvings.  An object is put together from four shapes,  *)
(* one in each quarter of the space: nothing, one cell, two cells that are *)
(* in different halves of the quarter, and the whole quarter; the last     *)
(* quarter is empty or full.                                               *)
(***************************************************************************)
EXTENDS Decomposition

Shapes == {{}, {<<0, 1>>}, {<<0, 0>>, <<1, 1>>}, Bit \X Bit}

PutTogether(f) == UNION {{q \o c : c \in f[q]} : q \in DOMAIN f}

MCObjects ==
    {PutTogether(f) :
        f \in {g \in [Bit \X Bit -> Shapes] : g[<<1, 1>>] \in {{}, Bit \X Bit}}} \ {{}}
=============================================================================
