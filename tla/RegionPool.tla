----------------------------- MODULE RegionPool -----------------------------
(***************************************************************************)
(* RegionPool: a session's supply of Region objects.  The regions are the  *)
(* elements of one array, with a free flag each; the first free one is     *)
(* handed out.  When none is free the array is replaced by one of twice    *)
(* the size, and the old one is deleted: a Region* handed out before       *)
(* points into the deleted array.  The flags of the new half are never     *)
(* initialised, save that of the region being handed out.                  *)
(*                                                                         *)
(* A Region* is a pair <<array, slot>>: the number of the array it points  *)
(* into, counting from 0, and its place there.                             *)
(***************************************************************************)
EXTENDS Naturals, FiniteSets

CONSTANT InitialCapacity    \* INITIAL_CAPACITY

ASSUME InitialCapacityAssumption == InitialCapacity \in Nat \ {0}

NewPool == [array |-> 0, capacity |-> InitialCapacity,
            free |-> [p \in 0..(InitialCapacity - 1) |-> TRUE]]

Free(pool) == {p \in 0..(pool.capacity - 1) : pool.free[p]}

\* The loop in useFreePosition stops at the first free position.
FirstFree(pool) == CHOOSE p \in Free(pool) : \A q \in Free(pool) : p <= q

\* Mutant of Grown: the flag of the region handed out is not set.
GrownAllFree(pool) ==
    {[array |-> pool.array + 1, capacity |-> 2 * pool.capacity,
      free |-> [p \in 0..(2 * pool.capacity - 1) |->
                  IF p < pool.capacity THEN pool.free[p] ELSE TRUE]]}

\* The pools that growing may leave: the old flags are copied, the region at
\* the old capacity is in use and the flags beyond it are indeterminate.
Grown(pool) ==
    {[array |-> pool.array + 1, capacity |-> 2 * pool.capacity,
      free |-> [p \in 0..(2 * pool.capacity - 1) |->
                  IF p < pool.capacity THEN pool.free[p]
                  ELSE p # pool.capacity /\ flag[p]]] :
        flag \in [(pool.capacity + 1)..(2 * pool.capacity - 1) -> BOOLEAN]}

\* takeRegion: the pool after the call and the Region* it returns.
Taken(pool) ==
    IF Free(pool) # {}
    THEN {[pool |-> [pool EXCEPT !.free[FirstFree(pool)] = FALSE],
           region |-> <<pool.array, FirstFree(pool)>>]}
    ELSE {[pool |-> g, region |-> <<g.array, pool.capacity>>] : g \in Grown(pool)}

\* The two assertions of returnRegion: the pointer is into the current array.
InArray(pool, r) == r[1] = pool.array /\ r[2] < pool.capacity

\* Mutant of Returned: the region stays in use.
ReturnedNowhere(pool, r) == pool

Returned(pool, r) == [pool EXCEPT !.free[r[2]] = TRUE]
=============================================================================
