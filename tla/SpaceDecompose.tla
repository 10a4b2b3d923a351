--------------------------- MODULE SpaceDecompose ---------------------------
(***************************************************************************)
(* Space::decompose in detail: coordinates instead of sets of cells, and   *)
(* Region objects from the session's pool that are moved down and up in    *)
(* place, copied, queued by pointer and given back.                        *)
(*                                                                         *)
(* The queue and the z-values are sequences here: that RegionQueue and     *)
(* ZArray behave like sequences is what modules RegionTraffic and ZArray   *)
(* show.                                                                   *)
(***************************************************************************)
EXTENDS BoxRegion, Functions, SequencesExt

CONSTANTS
    Boxes,              \* the boxes that callers decompose
    MaxZs,              \* the values of max_z that callers pass
    InitialCapacity     \* of the region pool

ASSUME BoxesAssumption ==
    \A b \in Boxes : /\ b.lo \in Point /\ b.hi \in Point
                     /\ \A d \in Dims : b.lo[d] <= b.hi[d]

ASSUME InitialCapacityAssumption == InitialCapacity \in Nat \ {0}

\* With a larger max_z the pool may have to grow, which deletes the regions
\* that are in the queue: see module RegionPool.
ASSUME MaxZsAssumption == MaxZs \subseteq 1..InitialCapacity

VARIABLES
    pc, box, maxZ,      \* the call
    cur,                \* local region, a Region*, until it is queued
    pool,               \* the session's RegionPool: the flags
    memory,             \* the contents of the Region objects in use, by position
    queue,              \* local queue: Region*s
    zs,                 \* the session's ZArray
    i, merge            \* locals of the merge loop

vars == <<pc, box, maxZ, cur, pool, memory, queue, zs, i, merge>>

Pool == INSTANCE RegionPool
Z == INSTANCE Regions

NoRegion == <<0, 0>>
NoBox == [lo |-> [d \in Dims |-> 0], hi |-> [d \in Dims |-> 0]]

\* The object a pointer points to.
At(p) == memory[p[2]]

Init ==
    /\ pc = "idle" /\ box = NoBox /\ maxZ = 0 /\ cur = NoRegion
    /\ pool = Pool!NewPool
    /\ memory = << >>
    /\ queue = << >> /\ zs = << >> /\ i = 1 /\ merge = FALSE

\* The Region objects after r is stored in the one at p.
Stored(p, r) ==
    [s \in DOMAIN memory \cup {p[2]} |-> IF s = p[2] THEN r ELSE memory[s]]

\* The Region objects without the one at p, which is given back: whoever
\* takes it next writes it before reading it (initialize, copyFrom).
Without(p) == Restrict(memory, DOMAIN memory \ {p[2]})

Decompose(b, m) ==
    /\ pc \in {"idle", "done"}
    /\ pc' = "enclose"
    /\ box' = b /\ maxZ' = m
    /\ \E t \in Pool!Taken(pool) :
          /\ pool' = t.pool
          /\ cur' = t.region
          /\ memory' = Stored(t.region, Initialized(ArbitraryPoint(b)))
    /\ queue' = << >> /\ zs' = << >> /\ i' = 1 /\ merge' = FALSE

Up ==
    /\ pc = "enclose"
    /\ ~ContainedBy(box, At(cur))
    /\ memory' = [memory EXCEPT ![cur[2]] = RegionUp(@)]
    /\ UNCHANGED <<pc, box, maxZ, cur, pool, queue, zs, i, merge>>

StartQueue ==
    /\ pc = "enclose"
    /\ ContainedBy(box, At(cur))
    /\ pc' = "split"
    /\ queue' = <<cur>>
    /\ cur' = NoRegion
    /\ UNCHANGED <<box, maxZ, pool, memory, zs, i, merge>>

-----------------------------------------------------------------------------
\* The splitting loop: one action per way the two switches can end.

\* left is the region at the front moved to its left half, right is that one
\* moved on to the right half.

Region == At(Head(queue))

Room == Len(Tail(queue)) + 1 + Len(zs) < maxZ

\* The region at the front is taken and is a point, or is not.
Taking(point) ==
    /\ pc = "split" /\ queue # << >>
    /\ IsPoint(Region) = point
    /\ UNCHANGED <<pc, box, maxZ, cur, i, merge>>

\* Mutant of Emit: the region is not given back.
EmitAndKeep(r) ==
    /\ zs' = Append(zs, RegionZ(r))
    /\ memory' = Stored(Head(queue), r)
    /\ queue' = Tail(queue)
    /\ UNCHANGED pool

\* The region, moved to r, becomes a z-value and is given back.
Emit(r) ==
    /\ zs' = Append(zs, RegionZ(r))
    /\ memory' = Without(Head(queue))
    /\ pool' = Pool!Returned(pool, Head(queue))
    /\ queue' = Tail(queue)

\* The region, moved to r, is queued again.
Requeue(r) ==
    /\ memory' = Stored(Head(queue), r)
    /\ queue' = Append(Tail(queue), Head(queue))
    /\ UNCHANGED pool

EmitPoint == Taking(TRUE) /\ Emit(Region)

DropLeft(left, right) ==
    /\ OutsideBox(box, left)
    /\ \/ InsideBox(box, right) /\ Emit(right)
       \/ OverlapsBox(box, right) /\ Requeue(right) /\ UNCHANGED zs

DropRight(left, right) ==
    /\ OutsideBox(box, right)
    /\ \/ InsideBox(box, left) /\ Emit(DownLeft(RegionUp(right)))
       \/ OverlapsBox(box, left) /\ Requeue(DownLeft(RegionUp(right))) /\ UNCHANGED zs

EmitWhole(left, right) ==
    /\ InsideBox(box, left) /\ InsideBox(box, right)
    /\ Emit(RegionUp(right))

\* A copy of the right half is queued, the left half is emitted.
EmitLeftQueueRight(left, right) ==
    /\ InsideBox(box, left) /\ OverlapsBox(box, right)
    /\ Room
    /\ \E t \in Pool!Taken(pool) :
          /\ queue' = Append(Tail(queue), t.region)
          /\ memory' = Restrict(Stored(t.region, right),
                               (DOMAIN memory \ {Head(queue)[2]}) \cup {t.region[2]})
          /\ pool' = Pool!Returned(t.pool, Head(queue))
    /\ zs' = Append(zs, RegionZ(DownLeft(RegionUp(right))))

\* The right half is emitted, then the same region is queued as the left.
EmitRightQueueLeft(left, right) ==
    /\ OverlapsBox(box, left) /\ InsideBox(box, right)
    /\ Room
    /\ zs' = Append(zs, RegionZ(right))
    /\ Requeue(DownLeft(RegionUp(right)))

\* Mutant of QueueBoth: the region itself is queued twice, without a copy.
QueueBothNoCopy(left, right) ==
    /\ OverlapsBox(box, left) /\ OverlapsBox(box, right)
    /\ Room
    /\ queue' = Tail(queue) \o <<Head(queue), Head(queue)>>
    /\ memory' = Stored(Head(queue), DownLeft(RegionUp(right)))
    /\ UNCHANGED <<pool, zs>>

\* A copy of the right half is queued, then the region as the left half.
QueueBoth(left, right) ==
    /\ OverlapsBox(box, left) /\ OverlapsBox(box, right)
    /\ Room
    /\ \E t \in Pool!Taken(pool) :
          /\ queue' = Tail(queue) \o <<t.region, Head(queue)>>
          /\ memory' = [Stored(t.region, right)
                          EXCEPT ![Head(queue)[2]] = DownLeft(RegionUp(right))]
          /\ pool' = t.pool
    /\ UNCHANGED zs

Coarsen(left, right) ==
    /\ ~OutsideBox(box, left) /\ ~OutsideBox(box, right)
    /\ OverlapsBox(box, left) \/ OverlapsBox(box, right)
    /\ ~Room
    /\ Emit(RegionUp(right))

Divide ==
    /\ Taking(FALSE)
    /\ \E left \in {DownLeft(Region)} : \E right \in {DownRight(RegionUp(left))} :
          \/ DropLeft(left, right) \/ DropRight(left, right) \/ EmitWhole(left, right)
          \/ EmitLeftQueueRight(left, right) \/ EmitRightQueueLeft(left, right)
          \/ QueueBoth(left, right) \/ Coarsen(left, right)

-----------------------------------------------------------------------------
\* Sorting and merging, as in module Decomposition.

Sort ==
    /\ pc = "split" /\ queue = << >>
    /\ pc' = "merge"
    /\ \E p \in Bijection(DOMAIN zs, DOMAIN zs) :
          /\ zs' = [n \in DOMAIN zs |-> zs[p[n]]]
          /\ \A j, k \in DOMAIN zs : j < k => ~Z!Before(zs'[k], zs'[j])
    /\ i' = 1 /\ merge' = FALSE
    /\ UNCHANGED <<box, maxZ, cur, pool, memory, queue>>

MergePair ==
    /\ pc = "merge" /\ i < Len(zs)
    /\ merge' = Z!SiblingOf(zs[i], zs[i + 1])
    /\ zs' = IF merge' THEN RemoveAt([zs EXCEPT ![i] = Z!Parent(@)], i + 1) ELSE zs
    /\ i' = i + 1
    /\ UNCHANGED <<pc, box, maxZ, cur, pool, memory, queue>>

EndPass ==
    /\ pc = "merge" /\ i >= Len(zs)
    /\ pc' = IF merge THEN "merge" ELSE "done"
    /\ i' = 1 /\ merge' = FALSE
    /\ UNCHANGED <<box, maxZ, cur, pool, memory, queue, zs>>

-----------------------------------------------------------------------------

Step ==
    \/ Up \/ StartQueue
    \/ EmitPoint \/ Divide
    \/ Sort \/ MergePair \/ EndPass

Next ==
    \/ \E b \in Boxes, m \in MaxZs : Decompose(b, m)
    \/ Step

Spec == Init /\ [][Next]_vars /\ WF_vars(Step)

-----------------------------------------------------------------------------

\* The Region objects that the call still needs.
Used == IF pc = "enclose" THEN {cur} ELSE Range(queue)

TypeOK ==
    /\ pc \in {"idle", "enclose", "split", "merge", "done"}
    /\ pool.free \in [0..(pool.capacity - 1) -> BOOLEAN]
    /\ {p[2] : p \in Used} \subseteq DOMAIN memory
    /\ \A s \in DOMAIN memory :
          /\ memory[s].level \in 0..ZBits
          /\ {memory[s].lo, memory[s].hi} \subseteq Point
          /\ \A d \in Dims : memory[s].xBit[d] \in 0..XBits(d)
    /\ zs \in Seq(Z!Region)

\* The x bit positions of a region agree with its bounds: in each dimension
\* the region is an aligned interval of 2^xBit coordinates, however often it
\* has been moved down and up in place.
RegionsAligned ==
    /\ TypeOK
    /\ \A p \in Used : \A d \in Dims :
        LET r == At(p)
        IN  /\ r.lo[d] % 2^r.xBit[d] = 0
            /\ r.hi[d] = r.lo[d] + 2^r.xBit[d] - 1

\* No two places of the queue hold the same Region object, so moving the
\* region in hand changes no queued one.
RegionsUnshared == IsInjective(queue)

\* The regions in use are those that the call still needs: none is given back
\* too early, and when the call returns none is missing from the pool.
PoolExact ==
    {p[2] : p \in Used} = DOMAIN pool.free \ Pool!Free(pool)

(***************************************************************************)
(* The detail implements module Decomposition: a box stands for its cells  *)
(* and a Region object for the z-value it has.                             *)
(***************************************************************************)
\* The smallest region enclosing a box: the common halvings of its corners.
EnclosingZ(b) == LongestCommonPrefix({Shuffled(b.lo, ZBits), Shuffled(b.hi, ZBits)})

\* The boxes as sets of cells.
Occupied == [b \in Boxes |-> CellsOfBox(b)]
OccupiedSets == Range(Occupied)

AbstractObject == IF pc = "idle" THEN {} ELSE Occupied[box]

AbstractRegion ==
    IF pc = "idle" THEN Z!Whole
    ELSE IF pc = "enclose" THEN RegionZ(At(cur))
    ELSE EnclosingZ(box)

AbstractQueue == [k \in DOMAIN queue |-> RegionZ(At(queue[k]))]

Abstract == INSTANCE Decomposition WITH
    Objects <- OccupiedSets,
    obj     <- AbstractObject,
    region  <- AbstractRegion,
    queue   <- AbstractQueue

\* The code on boxes and Region objects is a run of module Decomposition, so
\* every property checked there for arbitrary objects holds of it.
Implements == Abstract!Spec
=============================================================================
