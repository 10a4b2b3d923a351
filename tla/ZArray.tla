------------------------------- MODULE ZArray -------------------------------
(***************************************************************************)
(* ZArray: the growing array in which decompose leaves its z-values.  It   *)
(* lives in the session memory and is used by one call after another;      *)
(* clear only resets the length, so the slots beyond the length keep what  *)
(* earlier calls left there.                                               *)
(***************************************************************************)
EXTENDS Integers, Sequences, Sorting

CONSTANTS
    Zs,                 \* the z-values, as the integers that zcompare compares
    Uninitialized,      \* Z(): UNINITIALIZED
    InitialCapacity,    \* INITIAL_CAPACITY
    MaxLength           \* the bound on the length in this specification

ASSUME ArrayAssumption ==
    /\ Zs \subseteq Int
    /\ InitialCapacity \in Nat \ {0} /\ MaxLength \in Nat

VARIABLES
    slots,      \* _z, numbered from 0; its capacity is that of the array
    length      \* _n

arrayVars == <<slots, length>>

Capacity == Cardinality(DOMAIN slots)

Fresh(c) == [k \in 0..(c - 1) |-> Uninitialized]

ArrayInit == slots = Fresh(InitialCapacity) /\ length = 0

\* ensureSpace: a full array is copied into one of twice the capacity.
Ensured ==
    IF length < Capacity THEN slots
    ELSE [k \in 0..(2 * Capacity - 1) |->
             IF k < Capacity THEN slots[k] ELSE Uninitialized]

AppendZ(z) ==
    /\ length < MaxLength
    /\ slots' = [Ensured EXCEPT ![length] = z]
    /\ length' = length + 1

SetZ(p, z) ==
    /\ p < length
    /\ slots' = [slots EXCEPT ![p] = z]
    /\ UNCHANGED length

\* Mutant of RemoveZ: one element too few is moved.
RemoveZMovesOneLess(p) ==
    /\ p < length
    /\ slots' = [k \in DOMAIN slots |->
                   IF k = length - 1 THEN Uninitialized
                   ELSE IF p <= k /\ k < length - 2 THEN slots[k + 1] ELSE slots[k]]
    /\ length' = length - 1

\* memmove of the elements behind p, then the last one is reset.
RemoveZ(p) ==
    /\ p < length
    /\ slots' = [k \in DOMAIN slots |->
                   IF k = length - 1 THEN Uninitialized
                   ELSE IF p <= k /\ k < length - 1 THEN slots[k + 1] ELSE slots[k]]
    /\ length' = length - 1

\* One slot's z-value comes before another's; the order of equal ones, which
\* qsort does not promise, makes no difference.
Sooner(j, k) == slots[j] < slots[k] \/ (slots[j] = slots[k] /\ j < k)

\* qsort of the first length slots.
SortZs ==
    LET order == Sorted(0..(length - 1), Sooner)
    IN  /\ slots' = [k \in DOMAIN slots |-> IF k < length THEN slots[order[k + 1]] ELSE slots[k]]
        /\ UNCHANGED length

Clear == length' = 0 /\ UNCHANGED slots

ArrayNext ==
    \/ \E z \in Zs : AppendZ(z)
    \/ \E p \in 0..(length - 1) : RemoveZ(p) \/ \E z \in Zs : SetZ(p, z)
    \/ Clear \/ SortZs

ArraySpec == ArrayInit /\ [][ArrayNext]_arrayVars

-----------------------------------------------------------------------------

\* The array is a list of z-values.
List == INSTANCE ZList WITH list <- [k \in 1..length |-> slots[k - 1]]
IsList == List!Spec
=============================================================================
