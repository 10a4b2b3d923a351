# Verification of geophile.c

TLA+ models of geophile, a spatial index, with the TLC runs that check them and
the proofs that TLAPS checks. Module names below are files of this directory;
source paths are relative to `src/geophile` unless they start with `src/`.

## 1. The system

geophile maps every spatial object to a few *z-values*: regions that come from
halving the space again and again, one dimension at a time. The z-values are
the keys of an ordered index; a search decomposes the query in the same way and
scans, for each z-value of the query, an interval of keys.

The code is a library. It has no threads and no storage: all calls run on the
caller's thread, and what one call leaves behind for the next is the content of
a `SessionMemory` and of the index. What makes it hard is not concurrency but
objects that are moved in place, recycled and shared by pointer, arithmetic on
packed integers, limits (`max_z`, capacities, 57 bits), and long call sequences
on objects with state (cursor, ring buffer, pool).

| component | state | operations | used by | modules |
|---|---|---|---|---|
| `Space::decompose` (`Space.cpp`) | locals `region`, `queue`, `i`, `merge`; the session's `ZArray` and `RegionPool` | one call: search of the enclosing region, splitting, sort, merge | `SpatialIndex::add`, `findOverlapping` | `Decomposition`, `SpaceDecompose` |
| `Region` | level, bounds and bit position per dimension | `initialize`, `downLeft`, `downRight`, `up`, `isPoint`, `z`, `copyFrom` | `decompose`, the objects' `containedBy` and `compare` (callbacks) | `Regions`, `BoxRegion` |
| `RegionPool` | array of regions, free flags | `takeRegion`, `returnRegion`, growth | `decompose` | `RegionPool`, `RegionTraffic` |
| `RegionQueue` | ring of region pointers, front, back, size | `add`, `take`, `size` | `decompose` | `RegionQueue`, `RegionTraffic`, `Fifo` |
| `ZArray` | array, length | `append`, `set`, `remove`, `sort`, `clear` | `decompose`, `SpatialIndex` | `ZArray`, `ZList` |
| `Z` | a 64-bit integer | `siblingOf`, `parent`, `contains`, `lo`, `hi` | all of them | `ZValues`, `ZPairs` |
| `Space` (rest) | dimensions, bits, interleaving, shuffle tables | constructor, `shuffle`, `appToZ` | `Region::z`, the objects | `SpaceGrid` |
| `SpatialIndex`, `SpatialIndexScan` | references to the space, the index, a cursor | `add`, `remove` (a stub), `freeze`, `findOverlapping`, `find` | the application | `SpatialIndex`, `Application` |
| `OrderedIndex`, `Cursor` | interface | `add`, `remove`, `freeze`, `cursor`; `next`, `previous`, `goTo` | `SpatialIndex` | `OrderedCursor` |
| `RecordArray` (`src/examples/RecordArray.cpp.h`) | array of records; cursor: state, position, start key, direction | the above | tests, examples | `RecordArray` |
| `SessionMemory`, `OutputArray` | z-array, pool, output that accumulates, a byte buffer that nothing uses | `output`, `clearOutput` | the application | `SpaceDecompose`, `SpatialIndex`, `Application` (partly) |
| reference managers | which object or copy a reference is to | `newSpatialObjectReference`, `cleanup...` | `SpatialIndex::add`, `~RecordArray` | `References`, `Application` (partly) |
| `SpatialObjectTypes` | type registry | `registerType`, `newSpatialObject` | the buffering manager, `deserialize` | `Application` |
| `Box2`, `Point2` | coordinates | `containedBy`, `compare`, `writeTo`, `readFrom` | all of them | `BoxRegion`, `Serialization`, `Application` (partly) |
| `ByteBuffer` | position, limit, mark | get, put, flip, clear, mark, reset | `writeTo` and `readFrom` of the objects | `ByteBuffer`, `Serialization` |
| serialization (`RecordArray`) | an array of bytes that grows | `serialize`, `deserialize` | nothing at this commit | `Serialization` |
| `IntSet`, `IntList` | open-addressing table, bounded list | `add`, `contains`, `append` | the tests | `IndexTests` |
| tests and examples (`testbase.cpp`, `src/examples/example[123].cpp`) | what they expect, the objects they own | the tests of the index, of the cursor and of retrieval; three programs | | `IndexTests`, `Application` (partly) |
| unit tests of the core (`src/test/core_unittest.cpp`) | | | | not modelled |

What makes each correct:

* `decompose`: the z-values cover the object, do not overlap, are at most
  `max_z`, stay within the smallest enclosing region, are exact when `max_z`
  allows it; the call returns, and returns every pooled region.
* `Region`: after any moves the bounds are an aligned interval of the size its
  level says.
* `RegionPool`: a region has one holder. `RegionQueue`: a FIFO. `ZArray`: a
  list. `RecordArray` and its cursor: an ordered set that can be walked both
  ways, and that says how much of a walk survives a change.
* `Z`: the masks and the integer order agree with containment of regions.
* `SpatialIndex`: a search reports the overlapping objects, each once.
* `Space`: the z-value of a point is the path to the grid cell of the point.
* `ByteBuffer`: calls fail as documented and without effect; what was written
  is read back, also after retries.
* Reference managers: every copy is deleted once, and no reference dangles.
* Tests and examples: they end, no assertion of theirs fails, they delete what
  they own, and a query is answered with exactly the points in its box.

## 2. Modules

    Regions -- Decomposition -- MCDecomposition
       |             |   \-- DecompositionProofs (with Numbers)
       |             +-- (implemented by) SpaceDecompose -- MCSpaceDecompose, SpaceProofs
       |                      |-- BoxRegion
       |                      \-- RegionPool
       \-- ZValues -- ZPairs ------------------ SpatialIndexProofs (with Numbers)
               \-- SpatialIndex (with Sorting) --/
                       \-- MCSpatialIndex
    RegionPool + RegionQueue -- RegionTraffic -- MCRegionTraffic
                                 |-- (implements) Fifo
                                 \-- RegionTrafficProofs (with Numbers)
    ZArray (with Sorting) -- MCZArray
       |-- (implements) ZList
       \-- ArrayProofs (with Numbers)
    RecordArray (with Sorting) -- IndexTests -- MCIndexTests
       |-- (implements) OrderedCursor
       \-- ArrayProofs
    SpaceDecompose + RecordArray + ZValues -- Application -- MCApplication
                                 |-- (implements) References
                                 \-- ApplicationProofs (with SpaceProofs, ArrayProofs,
                                        SpatialIndexProofs, ObjectProofs, Numbers)
    References -- MCReferences, ObjectProofs
    BoxRegion -- SpaceGrid -- MCSpaceGrid, SpaceProofs (with Numbers)
    ByteBuffer -- Serialization -- MCSerialization, ObjectProofs

**Regions.** A region is the sequence of turns (0 left, 1 right) that leads to
it, which is also the bit string of its z-value. Operators for what `Region`,
`Z` and `SpatialObject` answer about regions: `Child`, `Parent`, `SiblingOf`,
`ContainedBy`, `Inside`, `Outside`, `Before` (the order of the integers).

**Decomposition.** `Space::decompose` on sets of cells: any nonempty finite set
of cells may be an object, because `SpatialObject` is an interface that
applications implement. `pc` tells the part of the function: `enclose`
(lines 41-43, action `Up`), `split` (46-135), `merge` (142-153). The nine cases
of the nested `switch` are the actions `DropHalf(b)` (one half is outside; b is
the half that is kept), `EmitWhole`, `EmitHalf(b)`, `SplitBoth` and `Coarsen`
(the `else` branches). The case of two halves outside has no action: the code
asserts it away, and `NoRegionOutside` shows that rightly so. The order in
which the code evaluates `queue.size()` (after the take) and queues the halves
(right before left) is kept. `Sort` picks any permutation in order, as `qsort`
may. The merge loop keeps the code's flag: `merge` is overwritten for every
pair, so what decides about another pass is the last pair alone. The loop at
lines 136-140 never finds anything in the queue and is part of `Sort`'s guard.

**BoxRegion, SpaceDecompose.** The same function with the objects the code
has: boxes of grid coordinates (`Box2`; `Point2` is a box of one cell), Region
records with `level`, `lo`, `hi` and `xBit`, changed in place by the bit
operations of `Region.cpp`, held by pointer in the queue, copied where the code
copies, taken from and returned to the pool (operators of `RegionPool`). The
queue and the z-values are sequences, which `RegionTraffic` and `ZArray` justify.
A returned Region's content is dropped, because the next taker writes it before
reading it (`initialize`, `copyFrom`). `RegionZ` shuffles only the first
`level` bits where the code shuffles all: the rest are 0, since `lo` is aligned
(`RegionsAligned`).

**RegionPool, RegionQueue, RegionTraffic (Fifo).** Pool and ring are modules of
operators on their records; `RegionTraffic` is the client that both have in
`decompose`: regions go from the pool into its hands, by pointer into the queue,
back into its hands, and back to the pool, in any order. Uninitialised memory is
nondeterministic: the ring's positions and slots, the pool's flags after growth.
A `Region*` is a pair of the array it points into and a slot, so that a pointer
into a deleted array can be told; returning such a pointer is an action of its
own. A call of the queue whose assertion would fail is left out: it throws and
changes nothing.

**ZArray (ZList).** The array, driven by every sequence of calls whose
assertions hold, against a list. Z-values are the integers that `zcompare` compares.

**ZValues, ZPairs.** The packed integers of `Z.h`. A word is the set of its
1 bits, so the code's masks are ranges of bit positions and `&`, `|` are
intersection and union. `ZPairs` walks through all pairs of z-values of a space
and compares every operation with `Regions`.

**RecordArray (OrderedCursor).** The array with its binary search (a recursive
function) and the cursor's `neighbor`, with position, start key and direction
as in the code. Records are their keys. The index may be changed while a cursor
is open, and searched and changed before it is frozen. The abstract module states what
the comments of `OrderedIndex.h` and `Cursor.h` promise, and where they are silent, how
much of it is left: `frozen` tells whether the order can be relied on, and
`stale` whether the cursor has lost its place, which it has from the change that
displaced the records it had still to come to until it has retrieved once more or has
been positioned. Both are the observer's knowledge, not fields of the code.

**Sorting.** `qsort`, which `freeze` and `ZArray::sort` call, by what it leaves of
distinct keys: each of them behind as many others as precede it. `RecordArray`,
`SpatialIndex` and `ZArray` use it; equal z-values, which cannot be told apart, are taken in
the order they had.

**IndexTests.** The tests of `testbase.cpp` as clients of the `RecordArray`. A
test is a list of calls made of the test's loops, with what it asserts of each
result: loading, `checkContents` with its `IntSet` and `IntList`s,
`checkRetrieval`, `removeAll` and `testCursor`. A loop that goes on
until the index has no more records is one entry, which stays until then.
`alive` holds the objects that the test has made and not deleted. Next to the
tests there is a client that makes any calls in any order.

**SpatialIndex.** `add`, `freeze`, `findOverlapping` and the scan, step by
step. `decompose` enters through the constant `Decompositions` under the
assumption `Approximates`, which states `Covers`, `NoRegionOutside`, `Disjoint`
and `WithinEnclosing` of module `Decomposition` (all proved there). The cursor
is a position, which the refinement of `RecordArray` justifies. The application's filter is exact:
it answers whether the shapes overlap. `frozen`, `objects` and `kept` are the
clients' knowledge, not variables of the code.

**Application.** The whole system at work: `example1`, `example2`, `example3`
and the test of retrieval from the first line of `main` to the last. Their
points are decomposed by `SpaceDecompose`, referred to through the manager that the
program has chosen, added to a `RecordArray` under the integers of their z-values, frozen,
and searched with boxes; the filter compares coordinates, several of which share
a cell. The modules run inside with variables of their own. The
registry of types is here, because its only effect is an assertion when the
buffering manager makes a copy. What the programs do with objects and
references is shown to be a behaviour of `References`.

**SpaceGrid.** `Space`'s constructor (`Construct`, a round of
`useDefaultInterleaving` per `InterleaveNext`, the check, `ComputeShuffleMasks`)
and the way from a point to a z-value: `AppToZ` for each coordinate, then
`Shuffle`, one table lookup per byte. The widths of bytes, ints and longs are
constants, so that a small space has coordinates of several bytes. `KeyIsPath`
compares the lookups with `Shuffled` of `BoxRegion`, which takes the bits one at
a time. Coordinates are counted in halves of a cell and arithmetic is exact.

**ByteBuffer, Serialization.** The buffer is an array of cells of four bytes;
a cell holds one part of the value that was put there last, so a get that does
not match a put delivers `"garbage"`. Every call ends with `CheckState`, the
assertions of `checkState` after the changes have been made; after a failed one
the buffer is given up. `Serialization` drives it, before the first object by any calls
(`OtherUse`), then the way `RecordArray::serialize` and `deserialize` do with the
fields of points and boxes.

**References.** Who owns what: `Add` asks the manager for a reference per
z-value (a copy each for the buffering manager), `Find` copies references to
the output, `Remove` gives one to the client, `Destroy` cleans up the rest.
`deleted` counts the deletions of each copy. Clients keep to the comments
and to the README: they delete only what they got from `remove` or made
themselves, and with the in-memory manager only what the index and the output
no longer refer to.

## 3. Runs

| run | what it asks | size |
|---|---|---|
| `decomposition` | covering, disjointness, budget, tightness, exactness, adjacency of siblings, minimality, monotonicity, termination of `decompose` | 16 cells, 127 objects, `max_z` 1, 4, 5; 9954 states |
| `space_decompose` | the detailed function keeps regions aligned, unshared and accounted for, and implements `Decomposition` | 4 by 4 cells, 40 boxes, `max_z` 2 and 5; 992 states |
| `region_traffic` | one place and one holder per region, exact flags without growth; the ring implements a FIFO | pool of 2 growing to 4, queue of 3, indeterminate slots and positions; 28356 states |
| `z_array` | the array implements a list | two values, growth 2 to 4 to 8, length 5; 895 states |
| `z_pairs` | masks and order against regions, the scanned interval | 4 bits of a 5-bit maximum, 961 pairs |
| `record_array` | array and cursor implement an ordered cursor; no assertion of the tests fails and no object they deleted is followed | tests with up to 4 objects of up to 3 copies; any calls with 4 keys; 25243 states |
| `spatial_index` | a search reports exactly the containment matches, one-cell objects exactly once | 4 cells, 6 shapes with all their approximations, two objects; 105765 states |
| `application` | every query is answered with exactly the points in its box; the programs keep to the rules of ownership; they end | 4 by 4 cells of 2 by 2 coordinates, 2 points (test: 16), 2 queries, `max_z` 4; 42271 states |
| `serialization` | after any calls on the buffer, what is written to a growing array is read back; gets stay within the limit; writing ends | points and boxes, 3 cells growing to 12; 27042 states |
| `space_grid` | masks against paths, default interleaving, grid | 6 spaces of 1 to 3 dimensions, one with a dimension without bits, all interleavings; 4771 states |
| `references` | one deletion per copy, no dangling reference, no leak | two objects with 1 or 2 z-values, 5 copies; 48797 states |

One run ends in a violation, a disagreement between the code and what the
repository says of it:

| run | what it shows |
|---|---|
| `find_misses_enclosing` | "Find all the SpatialObjects in this SpatialIndex that overlap" does not hold: the scan of a query z-value reads only records within it, and misses an object that was indexed under a larger region around it. Boxes searched by small boxes are affected; points are not, which is why the programs of `application` get exact answers. |

Other deviations of the code that came up while modelling it. The models have
them, and the runs stay clear of them by their bounds or say so in a property:

* `Z.h:57`, `SpatialIndexScan.h:34`: for a z-value of the maximal length, which
  `src/README.md:64` allows, `hi()` is the z-value itself, and the strict comparison
  of the scan drops its record. (`spatial_index`, `application` and `z_pairs` stay one
  bit below the maximum; with `MaxZBits = ZBits` the searches are not exact.)
* `RegionPool.cpp:49`: growing the pool deletes the array into which `decompose`
  still holds pointers. It takes a `max_z` above 20; `Point2` has 1 and `Box2`
  stays below. (`ExactWithinCapacity` is about clients that hold no more than
  the initial capacity.)
* `ZArray.cpp:42`: `clear` only resets the length, so the unused slots hold old
  z-values and not the -1 that the comment at `Space.h:45` promises.
* `Space.cpp:236`: `1 << x_bits` is an `int`; with 31 bits in a dimension
  `appToZ` leaves the grid. (`GridKeepsOrder` fails with `<<5>>` among the resolutions.)
* `ByteBuffer.cpp:168` and `:176`: `clear` and `flip` do not maintain the mark, and
  then the assertion at line 246 fails.
* `ByteBuffer.cpp:11` and the like: the sizes are compared with the end of the
  array, not with the limit. Beyond the limit a get fails an assertion instead
  of throwing the underflow exception. (`NothingBeyondLimit` says no more than
  that such a get does not succeed.)
* `ByteBuffer.cpp:74` and `:139`: `getBytes` and `putBytes` copy to and from
  their own pointer parameters. The unit test does not notice, because it reads
  into the array that it put.
* `OrderedIndex.h:40-44` promises that `remove` of a missing key returns an
  empty reference; when the reference is a `Point2` held inline, `RecordArray`
  returns `Point2()`, whose `isNull` is false.
* `src/examples/RecordArray.cpp.h:30-45`: the comment has `remove` delete the
  spatial object with its last record; the code deletes nothing, and the tests and
  `References` rely on that.
* `OrderedIndex::serialize` (`OrderedIndex.h:76-86`) neither retries after an
  overflow nor returns what it wrote. Nothing calls it.
* `src/examples/example1.cpp:79` says that the points "will be owned by the index"; `main`
  deletes them itself, after the index.
* The tests are weaker than they look: the scans of `testCursor` around key 0 are empty,
  because `base - 1` wraps to 2^32 - 1 (`testbase.cpp:366-369`, against the
  comment at 362); the allowance for empty scans (380-382) lets any scan that begins
  empty pass; `testCursorVaryingIndexSizes` searches an index that it never froze
  (489-505), which works because it adds in ascending order; `key_position` would
  not end if the key were present (126-129).

The type invariant of a module, `TypeOK`, is a conjunct of an invariant of its
run where it is not a property of its own; `ZArray`, whose refinement implies it,
and `ZPairs`, whose state is two regions, have none.

### Why the bounds are enough

*decomposition.* Four halvings (16 cells) give regions with both halves outside,
inside and overlapping at three levels. An object is put together from one of
four shapes in each quarter of the space (nothing, one cell, one cell in each
half of the quarter, the whole quarter; the last quarter is empty or full), in
all 127 ways. With `max_z` 1 the enclosing region itself is emitted; 4 stops the
splitting when all the regions of a level are queued, so that they are emitted
whole and merged in two passes; 5 is enough for many objects to be approximated
exactly. Calls are repeated, so every call also starts from the leftovers of
every other.

*space_decompose.* Two dimensions with two bits each, so each bit position is
decremented and incremented at both values. The boxes extend in all 10 ways in one
dimension and in 4 ways in the other, and every case of the `switch` occurs.

*Containers.* A ring of 4 slots with 3 items wraps in every way, also right after
its first `add`; the pool grows once with regions in hand and in the queue
(`MaxCapacity`); the z-array grows twice (`MaxLength`).

*z_pairs, spatial_index.* Lengths from 0 to 4 and an unused bit: the maximum is
one above the resolution, the smallest that is not the special case described
above. `MaxOutput` bounds the results kept when a search starts.

*record_array.* Objects with up to three copies overlap in their z-values, as
`(id + copy) * GAP` does in the tests; the tests are run for every smaller number of
objects, 0 included, with the set's table at every filling. `CheckEvery` is 2
where the code has 1000, so that contents are checked between removals. Four keys
give an arbitrary client a record before, at, and behind the cursor, and one to
add or remove there.

*application.* Several coordinates share a cell, the two points may share a cell,
a row or a column, and the boxes cut cells at either edge. The registry starts
with room for one type too few, and so grows. Two queries show what one leaves to
the next.

*serialization.* Three cells hold one value of each width, or three of the
smaller, with every relation of mark, position, limit and end. For a point as for
a box the three cells double twice, with overflows at different fields.

*space_grid* scales the widths down (bytes of 2 bits, ints of 6, longs of 12),
so coordinates of 3 and 4 bits take two bytes. *references* has objects that get
two copies each, in all orders of adding, finding, removing and deleting
(`MaxCopies`).

### Fairness

`Decomposition`, `SpaceDecompose` and `Serialization` assume weak fairness of
the steps inside a call and of nothing else: a call runs on the caller's thread
until it returns, while when to make the next call is the caller's business.
`Application` assumes weak fairness of every step, because there the whole
program is modelled, sequential from `main` to its end; only there is
`CHECK_DEADLOCK` off, since an ended program stops. `Terminates`, `Serialized` and
`ProgramEnds` depend on it; the refinement `Implements` carries the fairness of
`Decomposition` with it. The other modules state none.

## 4. Proofs

The theorems hold for every value of the constants that satisfies the named
assumptions.

**DecompositionProofs** (assumptions: the resolution is positive, objects are
nonempty finite sets of cells of the space, `max_z` is positive):

* `TypeCorrect`: `TypeOK`; the moves never leave the space's levels.
* `BudgetKept`: at most `max_z` regions are held, so `RegionQueue::add` never fails.
* `CoverKept`, `OverlapFree`: the z-values and the queue cover the object without overlaps.
* `NothingOutside`: `GEOPHILE_ASSERT(false)` is unreachable.
* `Tightening`: splitting never enlarges the approximation; sorting and merging keep it.
* `NeverBeyondEnclosing`: the approximation stays within the smallest region
  that encloses the object.
* `RoomyIsExact`: with as many z-values allowed as the object has cells, it is exact.
* `SiblingsStayAdjacent`: in the sorted z-values siblings are neighbours, also after merges.
* `ExactIsSmallest`: an exact approximation has no two siblings.

The first six rest on one inductive invariant, `IInv`, which conjoins these safety
invariants with `CallState`: outside the `split` phase the queue is empty,
before it the z-values are, and within a call the object is nonempty and
`max_z` at least 1. None of the invariants is inductive alone. `Budget` needs
`CallState` for the first region queued. `NoRegionOutside` is what lets a
dropped half leave a half that meets the object, and `Disjoint` needs it too,
through the sort: only as no two regions overlap is an ancestor never beside
its descendant. The core is `DivideKeeps`: replacing the front of the queue
by disjoint regions within it that meet the object and cover its part of the
object keeps the invariant. Each action of the loop is shown to be such a
division (`WholeStep`, `DropHalfStep`, `EmitHalfStep`, `SplitBothStep`); `Sort`
and `MergeSiblings` are covered by `ReplaceZs`, for which `SiblingCells` shows
that a parent has the cells of its two halves.

The last four have invariants of their own on top of it. `WithinRegion` and
`NoneSmaller`: everything held lies in the region the search ended with, and the
climb has passed no region that encloses the object. `ExactInv`: with a roomy
`max_z` whatever is emitted is inside the object; it has to be shown that there
is always room, by an injection of the regions held, and of one more, into the
cells of the object (`OneMoreCell`, `NoCoarsening`). `SortedZs`: the z-values are in
the order of their left ends, so nothing fits between siblings
(`NothingBetween`), and a parent keeps the place of its halves
(`ParentKeepsOrder`). `NoPairs`: when nothing is coarsened, no two regions held are
siblings, in or out of the queue.

**RegionTrafficProofs** (assumptions: positive capacities, a bound that lets the
pool grow at most once, `None` is no item): `PositionsAlwaysAgree`,
`HeldIsNeverFree`, `AlwaysExactWithinCapacity`, and the refinement
`QueueIsFifo`, each from the invariant `Types /\ OnePlace /\ HeldIsUsed /\ Counted`. The
arithmetic of the ring is in the lemmas on the contents of a queue before and after a call
(`AddedContents`, `RestContents`); that the pool does not grow under a client within the capacity
is a counting argument over the regions it holds (`Counted`, `FullMeansHeld`).

**ObjectProofs** is about the objects that an index refers to and about their bytes.

*References* (assumptions: an object has finitely many z-values and at
least one): `NoDoubleDeletion`, `NothingDangles` and `NoLeak`, from
`Typed /\ AllFit /\ OneOwner /\ NoneLost`. The heart is that each copy is owned by exactly
one of the index and the client that removed it, and that the numbers of new
copies are a bijection with the z-values (`RankBijective`).

*Serialization* (assumptions: the array has a size, the objects are those
of the types): `AlwaysReadsBack` and `LimitHeld`, from `BufferIs /\ Progress`.
`BufferIs` holds under any call (`AnyCallKeeps`); `Progress` says that the values
put so far lie in the array in their places, from its beginning on, and that
those got so far are the first of the object. The names of `Serialization`'s behaviours
begin with `Serial`, because one module of proofs extends it and `References`.

**SpatialIndexProofs** is about z-values and about the searches that rely on them.

*Z-values* (assumptions: the bits for the length can hold the maximal resolution, and
the resolution of the space is below it, so that a bit is spare):
`OrderIsPathOrder`, `MasksAreRegions` and `IntervalIsRegion`, for all resolutions
and all pairs of z-values. A word is the set of its one bits, so the order of two
words is decided by the highest bit in which they differ. Among the bits of the path
that is the first turn in which the paths differ (`FirstBitDecides`); otherwise
it is a bit of the lengths, and the numerals of the lengths are in the order of the
lengths (`LengthsInOrder`). The masks select the bits of the first turns (`SharedBits`),
and the high end of a region has a one for every turn beyond its path (`HiWord`). At the
maximal resolution, which the assumption excludes, the code treats cells apart.

*Searches* (further assumptions: ids are integers, shapes are sets of cells, and
decompositions are such as `DecompositionProofs` shows those of `decompose` to be):
`SearchesExactly`. The invariant `IInv` says where a search stands: every
object is filed under the z-values of one of its decompositions, each of them once
(`Filed`, `Unique`); frozen records are in order; the z-values of the search are those
of one decomposition of the query (`QueryDecomposed`); the records behind the cursor
are not before the z-value being scanned (`Scanning`); and an object that
overlaps the query has been reported as often as there are pairs of a record
of it and a z-value of the query that match and have been passed (`Counted`). The
last alone is what the property needs, but it is kept only because the others say that a
scan passes every match: `GoToKeeps` skips only records before the z-value, since the
records are in order; `EndKeeps` leaves only records beyond its high end; and in between
every record matches, by `ScanIsContainment`. `ReadKeeps` adds the one pair that a step
passes (`PassOne`). When the search has returned, all pairs have been passed
(`AnsweredDone`). An object of one cell has one record, and exactly one region of the
query, as its regions are disjoint, has the cell (`PointMatches`), so it is reported once.

**ArrayProofs** is about the two arrays.

The index (assumption: keys are integers above `Least`, and `EOF` is none):
`FrozenStaysInOrder`, and the refinement `ArrayIsOrderedCursor`. The invariant adds
to the order of the records that they are distinct (`Unique`), that a cursor in use
stands between the keys up to the one it delivered and those beyond
(`CursorPlaced`), unless a change has displaced it (`stale`), and that one that is done
holds the end (`Settled`). The binary search is a recursive function over the range
that is left. `SearchEnds` shows that the ranges cannot shrink forever, and `SearchFinds` that in ordered records it
finds a key or the place where it would be. Then each step on positions is the step on
the set of keys with the same name: retrieving takes the next key because the keys
are in order and the cursor is placed.

The z-values (assumption: they are integers, and the initial capacity is positive):
`ArrayIsList`. The invariant `ArrayInv` says that the length is within the
capacity and what lies within the length are z-values, and nothing about the
slots beyond. Sorting is a rearrangement because the slots within the length, taken by
z-value and place, are an order without equals (`OrderFacts`, from `Arrangement`).

**SpaceProofs** is about `SpaceDecompose` and `SpaceGrid`. It begins with the moves of a
single region and with what a box answers. `Aligned` says of a
Region object that in each dimension its bounds are a multiple of a power of two and the
number that fills the bits below, and that the bit position is the number of halvings
still to come. `Halves` and `UpAligned` show that the moves in place keep it and that
`up` undoes `downLeft` and `downRight`; `LevelZeroIsWhole` that at level 0 it is the
whole space. `InRegionIsOnPath` links bounds and z-values: a point is within the bounds
exactly if its path begins with the region's. With `EveryPathIsPoint`, `containedBy` and
`compare` on coordinates become statements about sets of cells (`ContainedCells`,
`InsideCells`, `OutsideCells`).

Then it turns to the calls of `decompose` (assumptions: there is at least one halving, the boxes' corners are points of the space and in
order, `max_z` is at most the pool's initial capacity): `RegionsStayAligned`,
`RegionsNeverShared` and `PoolAlwaysExact`. None of the three is inductive: the pool hands out
a region that no pointer of the queue leads to only because its flags are exact, these stay
exact only because no pointer is queued twice, and `up` keeps a region aligned only
while it is below the whole space, which it is because the whole space contains every
box (`UpBelowWhole`). So `IInv` says all of it: the queue holds
distinct pointers into the first array (`IsInjective`), and the flags and the objects
are those of the regions in use, each aligned (`HeldIs`). That the first array is
never replaced is a counting argument (`ShortQueue`, `RoomInPool`): a region is copied only
while there is room for one more within `max_z`.

`DetailIsDecomposition` is the refinement: initial states and steps are those of
`Decomposition` (the fairness in `Implements` stays with the run). A queue of pointers stands for
the z-values of the objects they lead to (`PathsOf`), which a step changes only where
`Decomposition` does because no object is shared (`RestStays`); the comparisons
agree by the lemmas on boxes (`AnswersAgree`). The region that `decompose` climbs
to is the longest common prefix of the corners' paths, since `EncloseInv`
keeps that the paths part within the level below (`EnclosingIsFound`). So the safety
theorems of `DecompositionProofs`, which hold of the steps alone, hold for boxes.
`BoxesAlwaysApproximated` puts together what they say of a call that has returned.

Last come the constructor and the keys (assumptions: a byte has at least one bit, an int
fewer than a long, and every dimension fewer than an int): `DefaultAlwaysTakesTurns`,
`KeyIsAlwaysPath` and `GridAlwaysKeepsOrder`. The invariant `GridInv` has three parts.
While the default interleaving is made, it is in some round (`InRound`): the dimensions
up to the last one named have been named once more than the others, or have no bits
left. Naming the next dimension in turn with bits left keeps that (`TurnKept`), and in a
round no dimension is ahead by two (`RoundIsFair`). That the constructor's check succeeds
then is a counting argument: the places of the interleaving map one to one to the
bits of the coordinates, so that as many places as bits use up every dimension
(`BitsAreCounted`). When the space is ready, an entry of the mask tables has the bits that
its byte contributes (`TableOf`). And the key of a point has the bits of the coordinates of
its cell in the places that the interleaving gives them: a bit of a coordinate is the
same bit of the byte it lies in (`ByteBit`), so that the lookups together yield every
bit once (`LookupsInterleave`).
`GridAlwaysKeepsOrder` supposes that every dimension has at least one bit less than an int
without its sign (`NarrowDimensions`). `1 << x_bits[d]` at `Space.cpp:236` is
computed as an int; with 31 bits it is negative, the range of the dimension becomes a
huge number, and points are outside the grid. `KeyIsAlwaysPath` needs no such
assumption.

**ApplicationProofs** is about the programs as a whole (assumptions, in `Application`: the z-values
of the space fit a word with a bit to spare, `max_z` is at most the pool's initial capacity,
points and the corners of boxes are below the high end of the space, as `rand() % X_MAX` is, and
corners are in order). It composes the proofs of the parts:
each is instantiated with the programs' variables, its assumptions are shown to hold there
(`WordsAssumptions`, `IndexAssumptions`, `SpaceAssumptions`, `OwnersAssumptions`), and its operators to be those that
`Application` uses (`SameWords`, `SameIndex`, `SameSpace`, `SameOwners`).

`AnswersExact` needs four things. As integers, z-values are in the order of the words, so the cells
of a region are those whose integers are in its interval (`IntervalOfRegion`, from
`ScanIsContainment` of `SpatialIndexProofs`). Keys are in the order of z-values first, and the
z-value and the id can be read off a key (`KeysInOrder`, `KeyHolds`). `AppToZ` keeps the
order of coordinates (`AppToZFacts`), so a point in a box is in one of the cells of the box
(`CellInBox`), and a point has one cell (`CellOfPoint`). And what a call of `decompose` has returned is `Returned`: the
one cell of a point, or regions that have all the cells of the box and none in common. The
invariant `Inv` then says where the program is: which points
exist and which are in the index, under which keys (`PointsMade`, `PointsFiled`); that the
index is frozen and its cursor in place whenever a query relies on it (`IndexReady`); for what the call
of `decompose` is (`CallFor`); where the cursor stands in the z-value that is looked up
(`CursorAt`); and `OutputSoFar`: the output has, once each, the points in the box that the
search has come to, which are those in the z-values it is through with and those of the present
one that are not ahead of the cursor (`Seen`). The last is the one to be proved, and is not
inductive without the others: that a record read was not `Seen` before needs disjoint
regions (`SeesOneMore`), that none is left when the cursor has passed the interval needs the order of
keys (`SeesAll`, `AheadInRegion`), and that all points in the box are `Seen` in the end needs the
cover. `AppInv` adds the invariant of the index (`ArrayProofs`) to it, and `Whole` that of
`decompose` (`SpaceProofs`), from which `Returned` follows.

`OwnershipKept` maps the steps to those of `References`; most are hidden by it. The
same invariant shows that a key is new to the index, so that a reference is never overwritten
(`AddRecordOwns`), that the programs delete objects only when the index is gone or has no reference to them
(`NextPointOwns`, `DeletePointOwns`), and that the destructor's loop deletes every copy
(`DeleteIndexOwns`, with the copies numbered as in `SameNumber`). `NothingOfTheProgramsDangles`
then carries the theorems about `References` over to the programs.

**Numbers**: a nonempty set of naturals has a least element; a power of two counts
subsets, and one more element makes twice as many; powers of sums; quotients of integers
round down, and dividing twice is dividing by the product; quotients by powers of two, and the bits of
a number above a position; an ordered finite set can be listed in one way (`Arrangement`,
`SameArrangement`), an element being where as many others precede it. That is how
module `Sorting` defines what `qsort` leaves, so that `freeze` can be
reasoned about.

Only model-checked:

* the liveness properties `Terminates`, `Serialized` and `ProgramEnds`, which are out of the
  prover's reach, as is the fairness in the refinement `Implements`, whose steps are proved;
* `TestsPass` and `ObjectsUsable` of `IndexTests`. A test is a list of calls computed by loops over its data
  (folds of sequences), so a proof would need induction over data, which the prover does not
  have. What the tests ask of an index is proved: `ArrayIsOrderedCursor`.

## 5. Not modelled

* The rounding of doubles in `appToZ` and `zToApp`: out of TLC's reach.
  `SpaceGrid` computes exactly, the other models start from grid coordinates or
  integers.
* Objects outside the space, which the code does not guard against.
* Exceptions thrown by application code in the callbacks.
* The session's byte buffer and the functions of `SOR.h`, which nothing uses.
* The growth of the output array and of the array of records, which is that of `ZArray`.
* `SpatialIndex::remove`, a stub whose assertion always fails.
* `setNull` and printing of the objects, options, timing and output of the programs, `TestSpatialObject`.
* `src/test/core_unittest.cpp`: fixed inputs with fixed outputs for the classes
  modelled here.

## 6. What could follow

1. `TestsPass` for every number of objects, by an invariant over the position in the lists of calls,
   when an induction theorem can be instantiated.
2. Rounding in `appToZ`, with a model of doubles.
