------------------------------ MODULE Sorting -------------------------------
(***************************************************************************)
(* qsort, for keys of which no two are equal.                              *)
(***************************************************************************)
EXTENDS Naturals, FiniteSets

\* The elements of S in the order Precedes: each stands behind as many others
\* as precede it.
Sorted(S, Precedes(_, _)) ==
    [k \in 1..Cardinality(S) |->
        CHOOSE e \in S : Cardinality({d \in S : Precedes(d, e)}) = k - 1]
=============================================================================
