----------------------------- MODULE IndexTests -----------------------------
(***************************************************************************)
(* The tests of testbase.cpp as clients of a RecordArray, next to a client *)
(* that makes any calls in any order.  A test is a list of calls, made of  *)
(* the test's loops for a number of objects and of copies, with what each  *)
(* asserts of its result; the loops that go on until the index has no more *)
(* records are single entries of the list, which stay until then.          *)
(*                                                                         *)
(* The keys are built as int_to_z builds z-values, which keeps the order   *)
(* of the integers, with slots for the spatial object ids: the least, the  *)
(* uninitialised one, those of the objects, and the greatest.              *)
(***************************************************************************)
EXTENDS RecordArray

CONSTANTS
    Gap,            \* GAP
    MaxObjects,     \* bound: of n_objects and n
    MaxCopies,      \* bound: of copies
    CheckEvery,     \* 1000 in removeAll
    Prime,          \* IntSet::PRIME
    Wide,           \* 2^32, what a uint32_t wraps at
    AnyKeys         \* the keys that the arbitrary client uses

ASSUME IndexTestsAssumption ==
    /\ Gap \in Nat /\ Gap > 2 /\ CheckEvery \in Nat \ {0}
    /\ MaxObjects \in Nat \ {0} /\ MaxCopies \in Nat \ {0}
    /\ Wide > Gap * (MaxObjects + MaxCopies) /\ AnyKeys \subseteq Keys

VARIABLES
    client,     \* "tests", or "any"
    nObjects,   \* parameter n_objects, or n
    copies,     \* parameter copies
    todo,       \* what is left of the test
    failed,     \* an assertion of the test or of its tools has failed
    alive,      \* the spatial objects that exist
    removedIds, \* removed_ids, an IntSet
    presentIds, \* present_ids, an IntSet
    zById       \* z_by_id: the contents of an IntList for each id

testVars == <<client, nObjects, copies, todo, failed, alive, removedIds, presentIds, zById>>

-----------------------------------------------------------------------------
\* Keys.

Soids == MaxObjects + 3
MinSoid == 0
Uninitialized == 1
IdSlot(id) == id + 2
MaxSoid == MaxObjects + 2

Key(z, soid) == z * Soids + soid

\* int_to_z, z_to_int, and the z-values that are before and after all of them.
IntToZ(x) == x + 2
ZToInt(k) == (k \div Soids) - 2
ZFirst == 1
ZLast == IntToZ(Gap * (MaxObjects + MaxCopies))

\* SpatialObjectKey(z), which positions a cursor.
StartKey(z) == Key(z, MinSoid)

\* The object that the record of a key refers to: testCursor's have no id,
\* but only one z-value each.
ObjectOf(k) ==
    IF k % Soids = Uninitialized THEN ZToInt(k) \div Gap ELSE (k % Soids) - 2

-----------------------------------------------------------------------------
\* IntSet: open addressing in twice as many slots as elements.

NewIntSet(capacity) ==
    [capacity |-> capacity, count |-> 0, at |-> [p \in 0..(2 * capacity - 1) |-> -1]]

\* The first slot from the hashed one on that is free or holds x.
SlotOf(set, x) ==
    LET slots == 2 * set.capacity
        Probe(m) == ((x * Prime) + m) % slots
    IN  Probe(Min({m \in 0..(slots - 1) : set.at[Probe(m)] \in {-1, x}}))

IntSetContains(set, x) == set.at[SlotOf(set, x)] = x

\* The assertion of add.
IntSetTakes(set, x) == IntSetContains(set, x) \/ set.count < set.capacity

IntSetAdded(set, x) ==
    IF IntSetContains(set, x) THEN set
    ELSE [set EXCEPT !.at[SlotOf(set, x)] = x, !.count = @ + 1]

\* The assertion of IntList::append.
IntListTakes(list, size) == Len(list) < size

-----------------------------------------------------------------------------
\* The tests.

\* The integers of a set in order.
Ordered(S) ==
    IF S = {} THEN << >>
    ELSE SelectSeq([m \in 1..(Max(S) - Min(S) + 1) |-> Min(S) + m - 1], LAMBDA x : x \in S)

\* A loop over the integers of a set, in order, and one over 0 to k - 1.
For(S, Calls(_)) ==
    FlattenSeq([m \in 1..Cardinality(S) |-> Calls(Ordered(S)[m])])

Each(k, Calls(_)) == For(0..(k - 1), Calls)

Call(op) == <<[op |-> op]>>
GoToCall(z) == <<[op |-> "goTo", key |-> StartKey(z)]>>
Move(next, expected) == <<[op |-> "move", next |-> next, expected |-> expected]>>
AddCall(k) == <<[op |-> "add", key |-> k]>>
RemoveCall(k, found) == <<[op |-> "remove", key |-> k, found |-> found]>>

\* "while (!(record = cursor->next()).eof())", with an assertion on each record.
Traversal(z, next, expected) ==
    GoToCall(z) \o FlattenSeq([m \in DOMAIN expected |-> Move(next, {expected[m]})])
        \o Move(next, {EOF})

LoadKey(id, c) == Key(IntToZ((id + c) * Gap), IdSlot(id))

Load(objects, n_copies) ==
    Each(objects, LAMBDA id : Each(n_copies, LAMBDA c : AddCall(LoadKey(id, c))))

CheckContents ==
    Call("newIntSet") \o Call("cursor") \o GoToCall(ZFirst) \o Call("collect")
        \o Call("checkCollected") \o Call("deleteCursor")

CheckRetrieval(objects, n_copies) ==
    LET keys == Ordered({LoadKey(id, c) : id \in 0..(objects - 1), c \in 0..(n_copies - 1)})
        all == [m \in DOMAIN keys |-> ZToInt(keys[m])]
        half == IntToZ((Gap * objects) \div 2 + Gap \div 2)
        \* key_position: the key is missing.
        lo == Cardinality({m \in DOMAIN keys : keys[m] < StartKey(half)})
    IN  Call("cursor")
        \o Traversal(ZFirst, TRUE, all)
        \o Traversal(half, TRUE, SubSeq(all, lo + 1, Len(all)))
        \o Traversal(ZLast, TRUE, << >>)
        \o Traversal(ZFirst, FALSE, << >>)
        \o Traversal(half, FALSE, Reverse(SubSeq(all, 1, lo)))
        \o Traversal(ZLast, FALSE, Reverse(all))
        \o Call("deleteCursor")

RemoveAll(objects, n_copies) ==
    Each(objects, LAMBDA id :
        Each(n_copies, LAMBDA c :
            LET x == (id + c) * Gap
            IN  RemoveCall(Key(IntToZ(x), IdSlot(id)), TRUE)
                \o RemoveCall(Key(IntToZ(x + Gap \div 2), IdSlot(id)), FALSE)
                \o RemoveCall(Key(IntToZ(x), MaxSoid), FALSE))
        \o <<[op |-> "deleteTarget", id |-> id]>>
        \o IF id % CheckEvery = 0 THEN CheckContents ELSE << >>)

TestIndexOperations(objects, n_copies) ==
    Load(objects, n_copies) \o Call("freeze") \o CheckContents
        \o CheckRetrieval(objects, n_copies) \o RemoveAll(objects, n_copies)

\* "starting at, before, and after each key": base - 1 is computed in unsigned
\* integers, so that nothing is tried around key 0.
Around(base) == ((base - 1) % Wide)..(base + 1)

ScanCall(startBase, endBase, start, end) ==
    [op |-> "scan", end |-> end, empty |-> TRUE,
     expected |-> IF start <= startBase THEN startBase ELSE startBase + Gap,
     last |-> IF end >= endBase THEN endBase ELSE endBase - Gap,
     mayBeEmpty |-> end >= startBase \/ start <= endBase]

Scans(n_keys) ==
    Each(n_keys, LAMBDA m :
        LET startBase == Gap * m
            endBase == Gap * (n_keys - 1 - m)
        IN  For(Around(startBase), LAMBDA start :
                For({b \in Around(endBase) : start <= b}, LAMBDA end :
                    GoToCall(IntToZ(start))
                    \o <<ScanCall(startBase, endBase, start, end)>>)))

\* What is read first is not asserted, save that there is something.
FirstOf(n_keys) == IF n_keys = 0 THEN {EOF} ELSE {Gap * m : m \in 0..(n_keys - 1)}

NextAndPrevious(n_keys) ==
    GoToCall(ZFirst) \o Move(TRUE, FirstOf(n_keys))
        \o Each(n_keys - 1, LAMBDA m :
             Move(TRUE, {Gap * (m + 1)})
             \o IF m + 2 = n_keys THEN << >>
                ELSE Move(TRUE, {Gap * (m + 2)}) \o Move(FALSE, {Gap * (m + 1)}))
        \o Move(TRUE, {EOF})

PreviousAndNext(n_keys) ==
    GoToCall(ZLast) \o Move(FALSE, FirstOf(n_keys))
        \o Each(n_keys - 1, LAMBDA m :
             LET expected == n_keys - 2 - m
             IN  Move(FALSE, {Gap * expected})
                 \o IF expected = 0 THEN << >>
                    ELSE Move(FALSE, {Gap * (expected - 1)}) \o Move(TRUE, {Gap * expected}))
        \o Move(FALSE, {EOF})

GoTos(n_keys) ==
    Each(n_keys, LAMBDA m :
        LET match == Gap * (m + 1)
            before == IntToZ(match - Gap \div 2)
        IN  (IF m + 1 < n_keys
             THEN GoToCall(IntToZ(match)) \o Move(TRUE, {match})
                  \o GoToCall(IntToZ(match + 1)) \o Move(FALSE, {match})
             ELSE << >>)
            \o GoToCall(before) \o Move(TRUE, {IF m + 1 = n_keys THEN EOF ELSE match})
            \o GoToCall(before) \o Move(FALSE, {match - Gap}))

\* The index is not frozen: the keys are added in order.
TestCursor(n_keys) ==
    Each(n_keys, LAMBDA m : AddCall(Key(IntToZ(Gap * m), Uninitialized)))
        \o Call("cursor") \o Traversal(ZFirst, TRUE, [m \in 1..n_keys |-> Gap * (m - 1)])
        \o Scans(n_keys) \o NextAndPrevious(n_keys) \o PreviousAndNext(n_keys)
        \o GoTos(n_keys)
        \o GoToCall(ZFirst) \o Call("deleteObjects") \o Call("deleteCursor")

\* testIndexCreationAndDestruction is testCursor's frame around nothing.
Tests ==
    {<<k, c, TestIndexOperations(k, c)>> : k \in 0..MaxObjects, c \in 1..MaxCopies}
        \cup {<<k, 1, TestCursor(k)>> : k \in 0..MaxObjects}
        \cup {<<0, 1, << >> >>}

-----------------------------------------------------------------------------
\* The tests' steps.

StartTest(objects, n_copies, calls) ==
    /\ nObjects' = objects /\ copies' = n_copies /\ todo' = calls
    /\ removedIds' = NewIntSet(objects) /\ presentIds' = NewIntSet(objects)
    /\ zById' = [id \in 0..(objects - 1) |-> << >>]
    /\ UNCHANGED <<client, failed, alive>>

TestsInit ==
    /\ Init
    /\ client \in {"tests", "any"}
    /\ nObjects = 0 /\ copies = 1 /\ todo = << >> /\ failed = FALSE /\ alive = {}
    /\ removedIds = NewIntSet(0) /\ presentIds = NewIntSet(0) /\ zById = << >>

\* The next test, with an index of its own.
NextTest ==
    /\ client = "tests" /\ todo = << >> /\ ~failed
    /\ \E t \in Tests : StartTest(t[1], t[2], t[3])
    /\ Renew

ThisCall == Head(todo)
Doing(op) == client = "tests" /\ todo # << >> /\ ThisCall.op = op

\* An assertion that fails ends the tests.
Asserts(holds) ==
    /\ failed' = ~holds
    /\ todo' = IF holds THEN Tail(todo) ELSE << >>

Sets == <<removedIds, presentIds, zById>>
Size == <<client, nObjects, copies>>

AddObject ==
    /\ Doing("add") /\ Add(ThisCall.key)
    /\ alive' = alive \cup {ObjectOf(ThisCall.key)}
    /\ Asserts(TRUE)
    /\ UNCHANGED <<Size, Sets>>

FreezeIndex == Doing("freeze") /\ Freeze /\ Asserts(TRUE) /\ UNCHANGED <<Size, alive, Sets>>
OpenCursor == Doing("cursor") /\ Open /\ Asserts(TRUE) /\ UNCHANGED <<Size, alive, Sets>>
DeleteCursor ==
    Doing("deleteCursor") /\ Delete /\ Asserts(TRUE) /\ UNCHANGED <<Size, alive, Sets>>
GoToKey ==
    Doing("goTo") /\ GoTo(ThisCall.key) /\ Asserts(TRUE) /\ UNCHANGED <<Size, alive, Sets>>

\* The integer of the record that a retrieval delivers.
Got == IF current' = EOF THEN EOF ELSE ZToInt(current')

MoveOnce ==
    /\ Doing("move") /\ Retrieve(ThisCall.next)
    /\ Asserts(Got \in ThisCall.expected)
    /\ UNCHANGED <<Size, alive, Sets>>

\* A turn of the loop of a scan, or the assertion after its last one.
ScanOnce ==
    /\ Doing("scan") /\ Retrieve(TRUE)
    /\ IF current' # EOF /\ Got <= ThisCall.end
       THEN /\ failed' = (Got # ThisCall.expected)
            /\ todo' = IF failed' THEN << >>
                       ELSE [todo EXCEPT ![1].expected = @ + Gap, ![1].empty = FALSE]
       ELSE Asserts(IF ThisCall.empty THEN ThisCall.mayBeEmpty
                    ELSE ThisCall.last + Gap = ThisCall.expected)
    /\ UNCHANGED <<Size, alive, Sets>>

RemoveRecord ==
    /\ Doing("remove") /\ RemoveKey(ThisCall.key)
    /\ Asserts(Removable(ThisCall.key) = ThisCall.found)
    /\ UNCHANGED <<Size, alive, Sets>>

DeleteTarget ==
    /\ Doing("deleteTarget")
    /\ alive' = alive \ {ThisCall.id}
    /\ removedIds' = IntSetAdded(removedIds, ThisCall.id)
    /\ Asserts(IntSetTakes(removedIds, ThisCall.id))
    /\ UNCHANGED <<vars, Size, presentIds, zById>>

NewCollection ==
    /\ Doing("newIntSet")
    /\ presentIds' = NewIntSet(nObjects)
    /\ zById' = [id \in 0..(nObjects - 1) |-> << >>]
    /\ Asserts(TRUE)
    /\ UNCHANGED <<vars, Size, alive, removedIds>>

\* A turn of checkContents's loop.
Collect ==
    /\ Doing("collect") /\ Retrieve(TRUE)
    /\ IF current' = EOF
       THEN Asserts(TRUE) /\ UNCHANGED <<presentIds, zById>>
       ELSE LET id == ObjectOf(current')
            IN  /\ failed' = ~( /\ ~IntSetContains(removedIds, id)
                                /\ IntSetTakes(presentIds, id)
                                /\ IntListTakes(zById[id], copies))
                /\ todo' = IF failed' THEN << >> ELSE todo
                /\ presentIds' = IntSetAdded(presentIds, id)
                /\ zById' = [zById EXCEPT ![id] = Append(@, Got)]
    /\ UNCHANGED <<Size, alive, removedIds>>

CheckCollected ==
    /\ Doing("checkCollected")
    /\ Asserts(\A id \in 0..(nObjects - 1) : ~IntSetContains(removedIds, id) =>
          /\ IntSetContains(presentIds, id)
          /\ Len(zById[id]) = copies
          /\ \A c \in 1..copies : zById[id][c] = (id + c - 1) * Gap)
    /\ UNCHANGED <<vars, Size, alive, Sets>>

\* A turn of the loop that deletes testCursor's objects.
DeleteDelivered ==
    /\ Doing("deleteObjects") /\ Retrieve(TRUE)
    /\ IF current' = EOF THEN Asserts(TRUE) /\ UNCHANGED alive
       ELSE alive' = alive \ {ObjectOf(current')} /\ UNCHANGED <<todo, failed>>
    /\ UNCHANGED <<Size, Sets>>

TestStep ==
    \/ NextTest \/ AddObject \/ FreezeIndex \/ OpenCursor \/ DeleteCursor
    \/ GoToKey \/ MoveOnce \/ ScanOnce \/ RemoveRecord \/ DeleteTarget
    \/ NewCollection \/ Collect \/ CheckCollected \/ DeleteDelivered

AnyCall == client = "any" /\ NextOn(AnyKeys) /\ UNCHANGED testVars

TestsSpec == TestsInit /\ [][TestStep \/ AnyCall]_<<vars, testVars>>

-----------------------------------------------------------------------------

\* No assertion of the tests fails, nor one of the sets and lists they use:
\* the tests' claims about an index hold of RecordArray.  And a test leaves no
\* object behind.
TestsPass == ~failed /\ (todo = << >> => alive = {})

Retrieving == todo # << >> /\ ThisCall.op \in {"move", "scan", "collect", "deleteObjects"}

\* What a cursor delivers to a test can be followed, and no object is deleted
\* twice: remove has taken the last record of an object from the index when
\* removeAll deletes it.
ObjectsUsable ==
    [][/\ (Retrieving /\ current' # EOF) => ObjectOf(current') \in alive
       /\ Doing("deleteTarget") => ThisCall.id \in alive]_<<vars, testVars>>
=============================================================================
