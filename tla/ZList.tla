------------------------------- MODULE ZList -------------------------------
(***************************************************************************)
(* What ZArray promises: a list of z-values.                               *)
(***************************************************************************)
EXTENDS Integers, Sequences, Functions, SequencesExt

CONSTANTS
    Zs,             \* the z-values, as integers
    MaxLength       \* the bound on the length of the list

VARIABLE list

Init == list = << >>

AppendZ(z) == Len(list) < MaxLength /\ list' = Append(list, z)

SetZ(k, z) == k \in DOMAIN list /\ list' = [list EXCEPT ![k] = z]

RemoveZ(k) == k \in DOMAIN list /\ list' = RemoveAt(list, k)

Clear == list' = << >>

\* Some rearrangement of the list is in order.
Sort ==
    \E p \in Bijection(DOMAIN list, DOMAIN list) :
        /\ list' = [n \in DOMAIN list |-> list[p[n]]]
        /\ \A j, k \in DOMAIN list : j < k => list'[j] <= list'[k]

Next ==
    \/ \E z \in Zs : AppendZ(z)
    \/ \E k \in DOMAIN list : RemoveZ(k) \/ \E z \in Zs : SetZ(k, z)
    \/ Clear \/ Sort

Spec == Init /\ [][Next]_list
=============================================================================
