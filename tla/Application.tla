---------------------------- MODULE Application ----------------------------
(***************************************************************************)
(* The three example programs and the test of retrieval, and with them all *)
(* the parts at work: points are decomposed, referred to by one of the     *)
(* managers, and added to a RecordArray; boxes are decomposed into         *)
(* z-values that a cursor looks up, and the filter decides on what it      *)
(* delivers.                                                               *)
(*                                                                         *)
(* Modules SpaceDecompose and RecordArray run inside, with their own       *)
(* variables.  Coordinates are integers in two dimensions; several of      *)
(* them share a cell of the space's grid.  A key is the z-value's integer  *)
(* and the id of the object, as one integer in the order of                *)
(* SpatialObjectKey::compare.                                              *)
(***************************************************************************)
EXTENDS Integers, Sequences, FiniteSetsExt, Functions

CONSTANTS
    Interleaving,       \* of the space
    InitialCapacity,    \* of the region pool
    MaxZBits, LengthBits,   \* of z-values
    InitialSize,        \* SpatialObjectTypes::INITIAL_SIZE
    XMax,               \* X_MAX and Y_MAX
    NPoints,            \* N_POINTS
    Spacing,            \* 10, the distance of the test's points
    NQueries,           \* N_QUERIES, and TRIALS of the test
    MaxZ,               \* Box2::MAX_Z
    Positions,          \* where rand() may put points
    Queries             \* the boxes it may make

Dims == {1, 2}
TestSide == XMax \div Spacing       \* the test has as many points to a side
MaxPoints == Max({NPoints, TestSide * TestSide})     \* with N_RECORDS
Ids == 0..(MaxPoints - 1)
PointType == 1
BoxType == 2

\* Where points and the corners of boxes may be: rand() % X_MAX is below the
\* high end of the space.
Places == [Dims -> 0..(XMax - 1)]

\* The z-values of the space fit into a word, with a bit to spare (the interval
\* of one of the maximal length is empty, see ZPairs), and decompose gets no
\* larger max_z than the region pool has regions: Box2::MAX_Z is 8 and the
\* pool's INITIAL_CAPACITY 20.
ASSUME SpaceAssumption ==
    /\ Interleaving \in Seq(Dims) /\ Interleaving # << >>
    /\ MaxZBits \in Nat /\ LengthBits \in Nat
    /\ Len(Interleaving) < MaxZBits /\ MaxZBits < 2^LengthBits
    /\ InitialCapacity \in Nat \ {0} /\ MaxZ \in 1..InitialCapacity

ASSUME ProgramsAssumption ==
    /\ InitialSize \in Nat /\ NPoints \in Nat /\ NQueries \in Nat
    /\ XMax \in Nat \ {0} /\ Spacing \in Nat \ {0}
    /\ Positions \subseteq Places
    /\ \A b \in Queries :
          /\ {b.lo, b.hi} \subseteq Places
          /\ \A d \in Dims : b.lo[d] <= b.hi[d]

VARIABLES
    pc, box, maxZ, cur, pool, memory, queue, zs, i, merge,      \* SpaceDecompose
    records, frozen, state, position, startAt, forward, current, stale,     \* RecordArray
    program,    \* which of the programs this is
    stage,      \* where main is
    types,      \* the SpatialObjectTypes: its capacity and what is registered
    id,         \* local id of loadRandomPoints and deletePoints
    points,     \* the points made, by id
    alive,      \* those that have not been deleted or left their scope
    refs,       \* the references in the index's records, by key
    copies, deleted,    \* the copies of the buffering manager, as in References
    queryBox,   \* local box of runQueries
    k,          \* local i of findOverlapping
    reading,    \* find has positioned the cursor
    output,     \* OutputArray: the ids and references found
    q           \* local q of runQueries

spaceVars == <<pc, box, maxZ, cur, pool, memory, queue, zs, i, merge>>
indexVars == <<records, frozen, state, position, startAt, forward, current, stale>>
searchVars == <<queryBox, k, reading, output, q>>
objectVars == <<id, points, alive, refs, copies, deleted>>
vars == <<spaceVars, indexVars, program, stage, types, objectVars, searchVars>>

-----------------------------------------------------------------------------
\* Coordinates and keys.

\* The bits of each dimension, as many as the interleaving has of it.
XBits(d) == Cardinality({n \in DOMAIN Interleaving : Interleaving[n] = d})

\* Space::appToZ of a coordinate below the high end of the space.
AppToZ(d, x) == (x * 2^XBits(d)) \div XMax

GridPoint(p) == [d \in Dims |-> AppToZ(d, p[d])]

\* A box, or a point as a box, as containedBy and compare see it.
GridBox(b) == [lo |-> GridPoint(b.lo), hi |-> GridPoint(b.hi)]
PointBox(p) == [lo |-> p, hi |-> p]

Space == INSTANCE SpaceDecompose WITH
    Boxes <- {GridBox(b) : b \in Queries \cup {PointBox(p) : p \in Places}},
    MaxZs <- {1, MaxZ}

\* Z::asInteger, and hi, of a z-value of the ZArray.
Words == INSTANCE ZValues WITH ZBits <- Len(Interleaving)
Integer(word) == MapThenSumSet(LAMBDA b : 2^b, word)
Z(path) == Integer(Words!ZValue(path))
ZHi(path) == Integer(Words!Hi(Words!ZValue(path)))

Slots == MaxPoints + 1

\* Mutant of MinKey: the key behind all those with the z-value.
MaxKey(z) == z * Slots + Slots

\* SpatialObjectKey(z) has the least soid.
MinKey(z) == z * Slots + 1

Key(z, soid) == z * Slots + soid + 2
ZOf(key) == (key - 1) \div Slots
SoidOf(key) == (key - 2) % Slots

EndOfRecords == -1
Index == INSTANCE RecordArray WITH
    Keys <- 1..(2^(1 + MaxZBits + LengthBits) * Slots), Least <- 0, EOF <- EndOfRecords

-----------------------------------------------------------------------------
\* What the programs differ in.

manager ==
    CASE program = "example2" -> "inline"
      [] program = "example3" -> "buffering"
      [] OTHER -> "inMemory"

\* How many points there are, and where point n may be: in the test, in a grid.
Count == IF program = "testRetrieval" THEN TestSide * TestSide ELSE NPoints

Placed(n) ==
    IF program = "testRetrieval"
    THEN {<<Spacing * (n \div TestSide), Spacing * (n % TestSide)>>}
    ELSE Positions

-----------------------------------------------------------------------------
\* The steps of main.

NoBox == [lo |-> [d \in Dims |-> 0], hi |-> [d \in Dims |-> 0]]

Init ==
    /\ Space!Init /\ Index!Init
    /\ program \in {"example1", "example2", "example3", "testRetrieval"}
    /\ stage = "setup"
    /\ types = [n \in 0..(InitialSize - 1) |-> FALSE]
    /\ id = 0 /\ points = << >> /\ alive = {} /\ refs = << >>
    /\ copies = 0 /\ deleted = [n \in 1..MaxPoints |-> 0]
    /\ queryBox = NoBox /\ k = 1 /\ reading = FALSE /\ output = << >> /\ q = 0

\* Mutant of Registered: what was registered is not copied to the new array.
RegisteredForgetting(array, type) ==
    [n \in DOMAIN array \cup 0..type |->
        IF n = type THEN TRUE ELSE type \in DOMAIN array /\ array[n]]

\* registerType grows the array just to the type; a type in between is not
\* registered: FALSE stands for uninitializedConstructor.
Registered(array, type) ==
    [n \in DOMAIN array \cup 0..type |->
        IF n = type THEN TRUE ELSE n \in DOMAIN array /\ array[n]]

Setup ==
    /\ stage = "setup"
    /\ types' = Registered(Registered(types, PointType), BoxType)
    /\ stage' = "load"
    /\ UNCHANGED <<spaceVars, indexVars, program, objectVars, searchVars>>

\* newSpatialObject asserts that the type is registered.
CanMake(type) == type \in DOMAIN types /\ types[type]

\* A new point, whose add clears the z-values and starts a decomposition.
NewPoint ==
    /\ stage = "load" /\ id < Count
    /\ \E p \in Placed(id) :
          /\ points' = [o \in DOMAIN points \cup {id} |-> IF o = id THEN p ELSE points[o]]
          /\ Space!Decompose(GridBox(PointBox(p)), 1)
    /\ alive' = alive \cup {id}
    /\ stage' = "add"
    /\ UNCHANGED <<indexVars, program, types, id, refs, copies, deleted, searchVars>>

\* A step of decompose, for a point or for a query.
DecomposeStep ==
    /\ stage \in {"add", "query"} /\ pc # "done"
    /\ Space!Step
    /\ UNCHANGED <<indexVars, program, stage, types, objectVars, searchVars>>

\* The record for the next z-value of a point.
AddRecord ==
    /\ stage = "add" /\ pc = "done" /\ k <= Len(zs)
    /\ LET key == Key(Z(zs[k]), id)
           ref == CASE manager = "buffering" -> <<"copy", copies + 1>>
                    [] manager = "inMemory" -> <<"object", id>>
                    [] manager = "inline" -> <<"inline", id>>
       IN  /\ Index!Add(key)
           /\ refs' = [l \in DOMAIN refs \cup {key} |-> IF l = key THEN ref ELSE refs[l]]
    /\ manager = "buffering" => CanMake(PointType)
    /\ copies' = IF manager = "buffering" THEN copies + 1 ELSE copies
    /\ k' = k + 1
    /\ UNCHANGED <<spaceVars, program, stage, types, id, points, alive, deleted,
                   queryBox, reading, output, q>>

\* The next turn of the loop of loadRandomPoints; in example2 the point was a
\* local variable of the turn.
NextPoint ==
    /\ stage = "add" /\ pc = "done" /\ k > Len(zs)
    /\ k' = 1 /\ id' = id + 1
    /\ alive' = IF manager = "inline" THEN alive \ {id} ELSE alive
    /\ stage' = "load"
    /\ UNCHANGED <<spaceVars, indexVars, program, types, points, refs, copies, deleted,
                   queryBox, reading, output, q>>

FreezeIndex ==
    /\ stage = "load" /\ id = Count
    /\ Index!Freeze
    /\ stage' = "queries"
    /\ UNCHANGED <<spaceVars, program, types, objectVars, searchVars>>

-----------------------------------------------------------------------------
\* runQueries, with findOverlapping and SpatialIndexScan::find inside.

FindOverlapping ==
    /\ stage = "queries" /\ q < NQueries
    /\ \E b \in Queries : queryBox' = b /\ Space!Decompose(GridBox(b), MaxZ)
    /\ stage' = "query"
    /\ UNCHANGED <<indexVars, program, types, objectVars, k, reading, output, q>>

\* The first call of find opens the cursor, for all of them.
OpenCursor ==
    /\ stage = "query" /\ pc = "done" /\ k <= Len(zs)
    /\ Index!Open
    /\ UNCHANGED <<spaceVars, program, stage, types, objectVars, searchVars>>

GoToZ ==
    /\ stage = "query" /\ pc = "done" /\ k <= Len(zs)
    /\ ~reading
    /\ Index!GoTo(MinKey(Z(zs[k])))
    /\ reading' = TRUE
    /\ UNCHANGED <<spaceVars, program, stage, types, objectVars, queryBox, k, output, q>>

\* PointFilter::overlap
Overlap(b, p) == \A d \in Dims : b.lo[d] <= p[d] /\ p[d] <= b.hi[d]

\* A record within the z-value is passed to the filter; another one, or the
\* end of the records, ends the call of find.
ReadRecord ==
    /\ stage = "query" /\ reading
    /\ Index!Retrieve(TRUE)
    /\ IF current' # EndOfRecords /\ ZOf(current') < ZHi(zs[k])
       THEN /\ output' = IF Overlap(queryBox, points[SoidOf(current')])
                         THEN Append(output, [id |-> SoidOf(current'), ref |-> refs[current']])
                         ELSE output
            /\ UNCHANGED <<k, reading>>
       ELSE /\ k' = k + 1 /\ reading' = FALSE
            /\ UNCHANGED output
    /\ UNCHANGED <<spaceVars, program, stage, types, objectVars, queryBox, q>>

\* The examples delete the scan, and its cursor with it, before they use the
\* output, the test after it.
EndQuery ==
    /\ stage = "query" /\ pc = "done" /\ k > Len(zs)
    /\ IF program = "testRetrieval" THEN UNCHANGED indexVars ELSE Index!Delete
    /\ stage' = "answered"
    /\ UNCHANGED <<spaceVars, program, types, objectVars, searchVars>>

\* What the test expects: the points of its grid from the first in the box on.
Expected(b) ==
    {p \in (0..XMax) \X (0..XMax) :
        /\ Overlap(b, p)
        /\ \A d \in Dims :
              /\ p[d] % Spacing = 0
              /\ p[d] >= Spacing * ((b.lo[d] + Spacing - 1) \div Spacing)
              /\ p[d] <= Spacing * (b.hi[d] \div Spacing)}

\* compare: as many points, and the same ones.
Compare(expected) ==
    /\ Len(output) = Cardinality(expected)
    /\ {points[output[n].id] : n \in DOMAIN output} = expected

\* The output has been printed, or compared, and is cleared.
ClearOutput ==
    /\ stage = "answered"
    /\ IF program = "testRetrieval" THEN Compare(Expected(queryBox)) /\ Index!Delete
       ELSE UNCHANGED indexVars
    /\ output' = << >> /\ k' = 1 /\ q' = q + 1 /\ queryBox' = NoBox
    /\ stage' = "queries"
    /\ UNCHANGED <<spaceVars, program, types, objectVars, reading>>

-----------------------------------------------------------------------------
\* The end of main.

\* RecordArray::~RecordArray cleans up every reference.
DeleteIndex ==
    /\ stage = "queries" /\ q = NQueries
    /\ Index!Renew
    /\ deleted' = [n \in 1..MaxPoints |->
          deleted[n] + Cardinality({key \in DOMAIN refs : refs[key] = <<"copy", n>>})]
    /\ refs' = << >>
    /\ id' = 0
    /\ stage' = "deletePoints"
    /\ UNCHANGED <<spaceVars, program, types, points, alive, copies, searchVars>>

\* Mutant of DeletePoint: the points are deleted before the index.
DeletePointEarly ==
    /\ stage = "queries" /\ q = NQueries /\ manager # "inline"
    /\ alive # {}
    /\ alive' = alive \ {CHOOSE o \in alive : TRUE}
    /\ UNCHANGED <<spaceVars, indexVars, program, stage, types, id, points, refs, copies, deleted,
                   searchVars>>

\* deletePoints, or the end of the test; example2 has none left.
DeletePoint ==
    /\ stage = "deletePoints" /\ id < Count
    /\ alive' = IF manager = "inline" THEN alive ELSE alive \ {id}
    /\ id' = id + 1
    /\ UNCHANGED <<spaceVars, indexVars, program, stage, types, points, refs, copies, deleted,
                   searchVars>>

End ==
    /\ stage = "deletePoints" /\ id = Count
    /\ stage' = "ended"
    /\ UNCHANGED <<spaceVars, indexVars, program, types, objectVars, searchVars>>

Next ==
    \/ Setup \/ NewPoint \/ DecomposeStep \/ AddRecord \/ NextPoint \/ FreezeIndex
    \/ FindOverlapping \/ OpenCursor \/ GoToZ \/ ReadRecord \/ EndQuery \/ ClearOutput
    \/ DeleteIndex \/ DeletePoint \/ End

\* The program is sequential and goes on while it can.
Spec == Init /\ [][Next]_vars /\ WF_vars(Next)

-----------------------------------------------------------------------------

TypeOK ==
    /\ stage \in {"setup", "load", "add", "queries", "query", "answered", "deletePoints", "ended"}
    /\ types \in [0..(Cardinality(DOMAIN types) - 1) -> BOOLEAN]
    /\ id \in 0..MaxPoints /\ copies \in 0..MaxPoints
    /\ DOMAIN points \subseteq 0..(Count - 1) /\ \A n \in DOMAIN points : points[n] \in Placed(n)
    /\ alive \subseteq DOMAIN points
    /\ DOMAIN refs = {records[n] : n \in DOMAIN records}
    /\ q \in 0..NQueries /\ reading \in BOOLEAN

\* The answer to a query: every point in the box, and no other, and each
\* once, whatever the decompositions, the order of the points, the cells they
\* share and the cells that the box only cuts.
QueryExact ==
    /\ TypeOK
    /\ stage = "answered" =>
        /\ {output[n].id : n \in DOMAIN output} = {o \in 0..(Count - 1) : Overlap(queryBox, points[o])}
        /\ \A m, n \in DOMAIN output : output[m].id = output[n].id => m = n

\* The programs keep to the rules of ownership, so that module References
\* applies to them: no reference dangles, nothing is deleted twice.
PointZSets == {{Z(c)} : c \in [1..Len(Interleaving) -> {0, 1}]}
Owners == INSTANCE References WITH
    Objects <- Ids,
    ZSets <- PointZSets,
    MaxCopies <- MaxPoints,
    alive <- Ids \ (DOMAIN points \ alive),
    records <- {<<ZOf(key), SoidOf(key), refs[key]>> : key \in DOMAIN refs},
    open <- stage \notin {"deletePoints", "ended"},
    output <- {output[n].ref : n \in DOMAIN output},
    removed <- {}
KeepsOwnership == Owners!Spec

\* main returns: no assertion stops it and every loop ends.
ProgramEnds == <>(stage = "ended")
=============================================================================
