---------------------------- MODULE SpatialIndex ----------------------------
(***************************************************************************)
(* SpatialIndex and SpatialIndexScan over a RecordArray: an object is      *)
(* added under each of its z-values, freeze sorts the records, and a       *)
(* search scans, for each z-value of the query, the records from that      *)
(* z-value up to below its high end, and passes them through the filter.   *)
(*                                                                         *)
(* Space::decompose enters as the constant Decompositions, with the        *)
(* properties that module Decomposition shows of it.  The cursor is a      *)
(* position in the sequence of records.                                    *)
(***************************************************************************)
EXTENDS ZValues, FiniteSets, SequencesExt, Sorting

CONSTANTS
    Soids,              \* ids of spatial objects: integers
    Shapes,             \* the sets of cells that objects and queries occupy
    Decompositions,     \* Decompositions[s]: what decompose may return for shape s
    MaxOutput           \* bound: clients search with at most this much output kept

\* The regions d may be the decomposition of a shape: properties Covers,
\* NoRegionOutside, Disjoint and WithinEnclosing of module Decomposition.
Approximates(d, s) ==
    /\ d \subseteq Region
    /\ s \subseteq UNION {Cells(r) : r \in d}
    /\ \A r \in d : ~Outside(s, r)
    /\ \A r, q \in d : r # q => Cells(r) \cap Cells(q) = {}
    /\ \A c \in s, n \in 0..ZBits :
          LET enclosing == SubSeq(c, 1, n)
          IN  ContainedBy(s, enclosing) => \A r \in d : Cells(r) \subseteq Cells(enclosing)

ASSUME ObjectsAssumption == Soids \subseteq Int /\ Shapes \subseteq SUBSET Cell

ASSUME DecompositionsAssumption ==
    \A s \in Shapes : \A d \in Decompositions[s] : Approximates(d, s)

VARIABLES
    objects,    \* the objects added: their shapes, by soid
    records,    \* RecordArray::_records: <<z, soid>> each
    frozen,     \* freeze has been called since the last add
    searching,  \* findOverlapping is running
    query,      \* parameter query_object: its shape, {} once the index changes
    zs,         \* the session memory's ZArray
    i,          \* local i of findOverlapping: the z-value being scanned
    position,   \* the cursor's next record, or 0 before goTo
    output,     \* OutputArray: soids
    kept        \* the length that output had when the last search began

vars == <<objects, records, frozen, searching, query, zs, i, position, output, kept>>

Init ==
    /\ objects = << >> /\ records = << >> /\ frozen = FALSE
    /\ searching = FALSE /\ query = {} /\ zs = << >> /\ i = 1 /\ position = 0
    /\ output = << >> /\ kept = 0

\* The z-values of a decomposition in the order in which decompose leaves them.
InOrder(d) == Sorted({ZValue(r) : r \in d}, Less)

\* SpatialObjectKey::compare is negative.
KeyLess(k, l) == Less(k[1], l[1]) \/ (k[1] = l[1] /\ k[2] < l[2])

Add(soid, s) ==
    /\ ~searching
    /\ soid \notin DOMAIN objects
    /\ objects' = [o \in DOMAIN objects \cup {soid} |-> IF o = soid THEN s ELSE objects[o]]
    /\ \E d \in Decompositions[s] :
          /\ zs' = InOrder(d)
          /\ records' = records \o [n \in DOMAIN zs' |-> <<zs'[n], soid>>]
    /\ frozen' = FALSE
    /\ query' = {}
    /\ UNCHANGED <<searching, i, position, output, kept>>

Freeze ==
    /\ ~searching
    /\ records' = Sorted(Range(records), KeyLess)
    /\ frozen' = TRUE
    /\ UNCHANGED <<objects, searching, query, zs, i, position, output, kept>>

\* "Before an OrderedIndex can be used for retrieval, freeze() must be
\* called": a search of records that are not in order is not modelled.
FindOverlapping(s) ==
    /\ ~searching /\ frozen
    /\ Len(output) <= MaxOutput
    /\ searching' = TRUE
    /\ query' = s
    /\ \E d \in Decompositions[s] : zs' = InOrder(d)
    /\ i' = 1 /\ position' = 0
    /\ kept' = Len(output)
    /\ UNCHANGED <<objects, records, frozen, output>>

\* find: the cursor goes to the first record that is not before the key of z
\* with the least soid.
GoTo ==
    /\ searching /\ i <= Len(zs) /\ position = 0
    /\ position' = 1 + Cardinality({n \in DOMAIN records : Less(records[n][1], zs[i])})
    /\ UNCHANGED <<objects, records, frozen, searching, query, zs, i, output, kept>>

InScan ==
    /\ position \in DOMAIN records
    /\ Less(records[position][1], Hi(zs[i]))

\* SpatialIndexFilter::overlap
Overlap(soid) == objects[soid] \cap query # {}

ReadRecord ==
    /\ searching /\ i <= Len(zs) /\ position > 0
    /\ InScan
    /\ output' = IF Overlap(records[position][2])
                 THEN Append(output, records[position][2]) ELSE output
    /\ position' = position + 1
    /\ UNCHANGED <<objects, records, frozen, searching, query, zs, i, kept>>

\* The end of find, and the next z-value's turn.
EndScan ==
    /\ searching /\ i <= Len(zs) /\ position > 0
    /\ ~InScan
    /\ i' = i + 1
    /\ position' = 0
    /\ UNCHANGED <<objects, records, frozen, searching, query, zs, output, kept>>

Return ==
    /\ searching /\ i > Len(zs)
    /\ searching' = FALSE
    /\ UNCHANGED <<objects, records, frozen, query, zs, i, position, output, kept>>

\* SessionMemory::clearOutput
ClearOutput ==
    /\ ~searching
    /\ output # << >>
    /\ output' = << >> /\ kept' = 0 /\ query' = {}
    /\ UNCHANGED <<objects, records, frozen, searching, zs, i, position>>

Search == GoTo \/ ReadRecord \/ EndScan \/ Return

Next ==
    \/ \E soid \in Soids, s \in Shapes : Add(soid, s)
    \/ Freeze
    \/ \E s \in Shapes : FindOverlapping(s)
    \/ Search
    \/ ClearOutput

Spec == Init /\ [][Next]_vars

-----------------------------------------------------------------------------

TypeOK ==
    /\ DOMAIN objects \subseteq Soids /\ Range(objects) \subseteq Shapes
    /\ records \in Seq(Word \X Soids)
    /\ frozen \in BOOLEAN /\ searching \in BOOLEAN
    /\ query \in Shapes \cup {{}}
    /\ zs \in Seq(Word) /\ i \in Nat \ {0}
    /\ position \in 0..(Len(records) + 1)
    /\ output \in Seq(Soids)
    /\ kept \in 0..Len(output)

\* The output of the last search.
Answer == SubSeq(output, kept + 1, Len(output))
Times(soid) == Cardinality({n \in DOMAIN Answer : Answer[n] = soid})

\* A search has just returned: nothing has been added or cleared since.
Answered == ~searching /\ frozen /\ query # {}

\* An object that overlaps the query is reported once for every record of it
\* and z-value of the query such that the query's region contains the
\* record's, and any other object not at all: the scans of intervals of
\* integers are a search by containment of regions.
ReportedByContainment ==
    Answered => \A soid \in DOMAIN objects :
        LET matches == {p \in (DOMAIN records) \X (DOMAIN zs) :
                           /\ records[p[1]][2] = soid
                           /\ ContainsZ(zs[p[2]], records[p[1]][1])}
        IN  Times(soid) = IF Overlap(soid) THEN Cardinality(matches) ELSE 0

\* An object of one cell is reported by every search it overlaps, and once
\* only, however the query is decomposed.
PointsFoundOnce ==
    Answered => \A soid \in DOMAIN objects :
        Cardinality(objects[soid]) = 1 =>
            Times(soid) = IF Overlap(soid) THEN 1 ELSE 0

\* What a search delivers: reports by containment, and a point once.
SearchesExact == TypeOK /\ ReportedByContainment /\ PointsFoundOnce

\* "Find all the SpatialObjects in this SpatialIndex that overlap
\* spatial_object" (SpatialIndex.h).
FindsAll ==
    Answered => \A soid \in DOMAIN objects : Overlap(soid) => Times(soid) > 0
=============================================================================
