--------------------------- MODULE Decomposition ---------------------------
(***************************************************************************)
(* Space::decompose: the z-values that approximate a spatial object.       *)
(*                                                                         *)
(* The walk starts at the cell of an arbitrary point of the object, climbs *)
(* until the region encloses the object, then splits regions breadth first *)
(* from a queue: a half inside the object is emitted as a z-value, a half  *)
(* that overlaps it is queued, a half outside is dropped.  When splitting  *)
(* a region in two would exceed max_z regions, the region is emitted whole *)
(* (the approximation gets coarser).  The z-values are then sorted and     *)
(* adjacent siblings are merged into their parent, in passes.              *)
(*                                                                         *)
(* An object is the set of cells it occupies; any nonempty set of cells    *)
(* may be an object, since SpatialObject is an interface.  The z-values    *)
(* are kept in the session's ZArray and survive the call.                  *)
(***************************************************************************)
EXTENDS Regions, Integers, FiniteSets, Functions

CONSTANTS
    Objects,    \* the objects that callers decompose
    MaxZs       \* the values of max_z that callers pass

ASSUME ObjectsAssumption ==
    /\ Objects \subseteq (SUBSET Cell) \ {{}}
    /\ \A o \in Objects : IsFiniteSet(o)
ASSUME MaxZsAssumption == MaxZs \subseteq Nat \ {0}

VARIABLES
    pc,         \* where the call is
    obj,        \* parameter spatial_object
    maxZ,       \* parameter max_z
    region,     \* local region, while the enclosing region is searched
    queue,      \* local queue: the regions still to be examined
    zs,         \* the session memory's ZArray
    i,          \* local i of the merge loop (1-based: the left neighbour)
    merge       \* local merge of the merge loop

vars == <<pc, obj, maxZ, region, queue, zs, i, merge>>

Init ==
    /\ pc = "idle"
    /\ obj = {} /\ maxZ = 0
    /\ region = Whole /\ queue = << >> /\ zs = << >>
    /\ i = 1 /\ merge = FALSE

(***************************************************************************)
(* The enclosing region.                                                   *)
(***************************************************************************)

\* The call: the result array is cleared and the walk starts at a cell of
\* the object.
Decompose(o, m) ==
    /\ pc \in {"idle", "done"}
    /\ pc' = "enclose"
    /\ obj' = o /\ maxZ' = m
    /\ region' \in o
    /\ queue' = << >> /\ zs' = << >>
    /\ i' = 1 /\ merge' = FALSE

\* Mutant of Up: the region gets smaller.
DownForUp ==
    /\ pc = "enclose" /\ ~ContainedBy(obj, region)
    /\ region' = Child(region, 0)
    /\ UNCHANGED <<pc, obj, maxZ, queue, zs, i, merge>>

Up ==
    /\ pc = "enclose"
    /\ ~ContainedBy(obj, region)
    /\ region' = Parent(region)
    /\ UNCHANGED <<pc, obj, maxZ, queue, zs, i, merge>>

StartQueue ==
    /\ pc = "enclose"
    /\ ContainedBy(obj, region)
    /\ pc' = "split"
    /\ queue' = <<region>>
    /\ UNCHANGED <<obj, maxZ, region, zs, i, merge>>

(***************************************************************************)
(* The splitting loop.  Each action takes the region at the front of the   *)
(* queue, emits some regions as z-values and queues others.  There is no   *)
(* action for a region both of whose halves are outside the object: the    *)
(* code asserts that this cannot happen (see NoRegionOutside).             *)
(***************************************************************************)

Front == Head(queue)
Half(b) == Child(Front, b)

\* Mutant of Room: <= for <.
RoomForOneMore == Len(Tail(queue)) + 1 + Len(zs) <= maxZ

\* Mutant of Room: the size is read before the take.
RoomBeforeTake == Len(queue) + 1 + Len(zs) < maxZ

\* queue.size() + 1 + zs->length() < max_z, evaluated after the take
Room == Len(Tail(queue)) + 1 + Len(zs) < maxZ

Taking == pc = "split" /\ queue # << >>

Divide(emitted, queued) ==
    /\ zs' = zs \o emitted
    /\ queue' = Tail(queue) \o queued
    /\ UNCHANGED <<pc, obj, maxZ, region, i, merge>>

EmitPoint ==
    /\ Taking
    /\ IsPoint(Front)
    /\ Divide(<<Front>>, << >>)

\* Mutant of DropHalf: the left half is not restored before the emission.
DropHalfEmitsRight(b) ==
    /\ Taking /\ ~IsPoint(Front) /\ Outside(obj, Half(1 - b))
    /\ \/ Inside(obj, Half(b)) /\ Divide(<<Half(1)>>, << >>)
       \/ Overlaps(obj, Half(b)) /\ Divide(<< >>, <<Half(b)>>)

\* One half is outside the object and is dropped.
DropHalf(b) ==
    /\ Taking
    /\ ~IsPoint(Front)
    /\ Outside(obj, Half(1 - b))
    /\ \/ Inside(obj, Half(b)) /\ Divide(<<Half(b)>>, << >>)
       \/ Overlaps(obj, Half(b)) /\ Divide(<< >>, <<Half(b)>>)

EmitWhole ==
    /\ Taking
    /\ ~IsPoint(Front)
    /\ \A b \in Bit : Inside(obj, Half(b))
    /\ Divide(<<Front>>, << >>)

\* Mutant of EmitHalf: the copy of the other half is not queued.
EmitHalfOnly(b) ==
    /\ Taking /\ ~IsPoint(Front) /\ Room
    /\ Inside(obj, Half(b)) /\ Overlaps(obj, Half(1 - b))
    /\ Divide(<<Half(b)>>, << >>)

\* One half is inside and the other overlaps.
EmitHalf(b) ==
    /\ Taking
    /\ ~IsPoint(Front)
    /\ Inside(obj, Half(b)) /\ Overlaps(obj, Half(1 - b))
    /\ Room
    /\ Divide(<<Half(b)>>, <<Half(1 - b)>>)

\* Mutant of SplitBoth: the region is not moved to its left half.
SplitBothRight ==
    /\ Taking /\ ~IsPoint(Front) /\ Room
    /\ \A b \in Bit : Overlaps(obj, Half(b))
    /\ Divide(<< >>, <<Half(1), Half(1)>>)

SplitBoth ==
    /\ Taking
    /\ ~IsPoint(Front)
    /\ \A b \in Bit : Overlaps(obj, Half(b))
    /\ Room
    /\ Divide(<< >>, <<Half(1), Half(0)>>)

\* Mutant of Coarsen: one up() too many.
CoarsenTooFar ==
    /\ Taking /\ ~IsPoint(Front) /\ ~Room
    /\ \A b \in Bit : ~Outside(obj, Half(b))
    /\ \E b \in Bit : Overlaps(obj, Half(b))
    /\ Divide(<<Parent(Front)>>, << >>)

\* Both halves are needed but there is no room for one region more.
Coarsen ==
    /\ Taking
    /\ ~IsPoint(Front)
    /\ \A b \in Bit : ~Outside(obj, Half(b))
    /\ \E b \in Bit : Overlaps(obj, Half(b))
    /\ ~Room
    /\ Divide(<<Front>>, << >>)

(***************************************************************************)
(* Sorting and merging.                                                    *)
(***************************************************************************)

Ascending(s) == \A j, k \in DOMAIN s : j < k => ~Before(s[k], s[j])

\* Mutant of Sort: the array is left as it is.
SortNothing ==
    /\ pc = "split" /\ queue = << >> /\ pc' = "merge"
    /\ i' = 1 /\ merge' = FALSE
    /\ UNCHANGED <<obj, maxZ, region, queue, zs>>

\* qsort: some permutation of the array that is in order.
Sort ==
    /\ pc = "split" /\ queue = << >>
    /\ pc' = "merge"
    /\ \E p \in Bijection(DOMAIN zs, DOMAIN zs) :
          /\ zs' = [n \in DOMAIN zs |-> zs[p[n]]]
          /\ Ascending(zs')
    /\ i' = 1 /\ merge' = FALSE
    /\ UNCHANGED <<obj, maxZ, region, queue>>

Merging == pc = "merge" /\ i < Len(zs)

\* The neighbours are siblings: their parent replaces them, and the loop
\* goes on with the next pair, which does not include the parent.
MergeSiblings ==
    /\ Merging
    /\ SiblingOf(zs[i], zs[i + 1])
    /\ zs' = SubSeq(zs, 1, i - 1) \o <<Parent(zs[i])>>
                \o SubSeq(zs, i + 2, Len(zs))
    /\ i' = i + 1
    /\ merge' = TRUE
    /\ UNCHANGED <<pc, obj, maxZ, region, queue>>

KeepPair ==
    /\ Merging
    /\ ~SiblingOf(zs[i], zs[i + 1])
    /\ i' = i + 1
    /\ merge' = FALSE
    /\ UNCHANGED <<pc, obj, maxZ, region, queue, zs>>

\* Mutant of EndPass: merge is not reset for the new pass.
EndPassKeepsMerge ==
    /\ pc = "merge" /\ i >= Len(zs)
    /\ pc' = IF merge THEN "merge" ELSE "done"
    /\ i' = 1
    /\ UNCHANGED <<obj, maxZ, region, queue, zs, merge>>

\* The end of a pass.  merge tells whether the LAST pair of the pass was
\* merged, not whether any pair was.
EndPass ==
    /\ pc = "merge" /\ i >= Len(zs)
    /\ pc' = IF merge THEN "merge" ELSE "done"
    /\ i' = 1 /\ merge' = FALSE
    /\ UNCHANGED <<obj, maxZ, region, queue, zs>>

-----------------------------------------------------------------------------

Step ==
    \/ Up \/ StartQueue
    \/ EmitPoint \/ EmitWhole \/ SplitBoth \/ Coarsen
    \/ \E b \in Bit : DropHalf(b) \/ EmitHalf(b)
    \/ Sort \/ MergeSiblings \/ KeepPair \/ EndPass

Next ==
    \/ \E o \in Objects, m \in MaxZs : Decompose(o, m)
    \/ Step

\* The call runs to its end on the caller's thread; when to make the next
\* call is the caller's business.
Spec == Init /\ [][Next]_vars /\ WF_vars(Step)

-----------------------------------------------------------------------------

TypeOK ==
    /\ pc \in {"idle", "enclose", "split", "merge", "done"}
    /\ obj \in SUBSET Cell
    /\ maxZ \in Nat
    /\ region \in Region
    /\ queue \in Seq(Region)
    /\ zs \in Seq(Region)
    /\ i \in Nat \ {0}
    /\ merge \in BOOLEAN

Dividing == pc \in {"split", "merge", "done"}

\* The regions that stand for the object at this point of the walk.
Live == zs \o queue

Covered == UNION {Cells(r) : r \in Range(Live)}

\* No cell of the object is ever lost: while regions are split, sorted and
\* merged, the z-values and the queue together cover the object.
Covers == Dividing => obj \subseteq Covered

\* The z-values and the queued regions never overlap each other, so no part
\* of the object is indexed twice.
Disjoint ==
    \A j, k \in DOMAIN Live : j # k => Cells(Live[j]) \cap Cells(Live[k]) = {}

\* Z-values and queued regions never exceed max_z in number: the caller gets
\* at most max_z z-values, and RegionQueue::add finds a slot (its capacity is
\* max_z).
Budget == Len(zs) + Len(queue) <= maxZ

\* Every region held meets the object.  So the halves of a queued region are
\* never both outside it and GEOPHILE_ASSERT(false) is not reached.
NoRegionOutside == \A r \in Range(Live) : ~Outside(obj, r)

\* The approximation stays within the smallest region that encloses the
\* object.
WithinEnclosing ==
    Dividing => \A c \in obj, n \in 0..ZBits :
        LET r == SubSeq(c, 1, n)
        IN  ContainedBy(obj, r) => Covered \subseteq Cells(r)

\* With at least as many z-values allowed as the object has cells, the
\* approximation is the object itself: coarsening is never forced.
ExactWhenRoomy ==
    pc = "done" /\ Cardinality(obj) <= maxZ => Covered = obj

\* Sorting leaves siblings next to each other, and merging keeps the order:
\* otherwise the merge loop, which compares neighbours only, would miss them.
SiblingsAdjacent ==
    pc \in {"merge", "done"} =>
        \A j, k \in DOMAIN zs :
            j < k /\ SiblingOf(zs[j], zs[k]) => k = j + 1

\* An approximation that needed no coarsening has no two siblings left: it
\* is the one with the fewest z-values.
ExactIsMinimal ==
    pc = "done" /\ Covered = obj =>
        \A j, k \in DOMAIN zs : ~SiblingOf(zs[j], zs[k])

\* A step of the splitting loop only tightens the approximation, and sorting
\* and merging leave the covered cells as they are.
OnlyTightens ==
    [][/\ pc = "split" => Covered' \subseteq Covered
       /\ pc = "merge" => Covered' = Covered]_vars

\* Every call returns.
Terminates == pc = "enclose" ~> pc = "done"
=============================================================================
