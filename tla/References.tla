----------------------------- MODULE References -----------------------------
(***************************************************************************)
(* Who owns the spatial objects that an index refers to.  Adding an object *)
(* asks the SpatialObjectReferenceManager for a reference for each z-value *)
(* of the object; records hold the references, searches copy them to the   *)
(* output, remove hands them back, and the index's destructor has the      *)
(* manager clean up those it still holds.                                  *)
(*                                                                         *)
(* The buffering manager makes a copy of the object on the heap for each   *)
(* reference and deletes it in the cleanup; with the in-memory manager     *)
(* every reference is to the application's own object, which the           *)
(* application deletes; the inline manager's references hold the object.   *)
(***************************************************************************)
EXTENDS Integers, FiniteSets

CONSTANTS
    Objects,        \* the application's spatial objects
    ZSets,          \* the sets of z-values that decompose may yield
    MaxCopies       \* bound: of copies made

ASSUME ReferencesAssumption ==
    /\ \A zs \in ZSets : zs \subseteq Nat /\ IsFiniteSet(zs) /\ zs # {}
    /\ MaxCopies \in Nat

VARIABLES
    manager,    \* the kind of manager
    alive,      \* the application's objects that exist
    copies,     \* how many copies on the heap have been made
    deleted,    \* how often each has been deleted
    records,    \* the index: <<z, o, reference>>, o being the object's id
    open,       \* the index exists
    output,     \* the references in the output array
    removed     \* the references that remove returned to the client

vars == <<manager, alive, copies, deleted, records, open, output, removed>>

Managers == {"buffering", "inMemory", "inline"}

\* A reference: to the application's object, to a copy, or the object itself.
ToObject(o) == <<"object", o>>
ToCopy(n) == <<"copy", n>>
Inline(o) == <<"inline", o>>

Init ==
    /\ manager \in Managers
    /\ alive = Objects /\ copies = 0 /\ deleted = [n \in 1..MaxCopies |-> 0]
    /\ records = {} /\ open = TRUE /\ output = {} /\ removed = {}

Held == {r[3] : r \in records}
Indexed == {r[2] : r \in records}

\* The copy of an object that the buffering manager makes for one of its
\* z-values, in their order.
CopyFor(z, zs) == copies + Cardinality({y \in zs : y <= z})

\* Mutant of NewReference: the buffering manager does not copy the object.
NewReferenceUncopied(o, z, zs) == ToObject(o)

\* newSpatialObjectReference
NewReference(o, z, zs) ==
    CASE manager = "buffering" -> ToCopy(CopyFor(z, zs))
      [] manager = "inMemory"  -> ToObject(o)
      [] manager = "inline"    -> Inline(o)

\* SpatialIndex::add
Add(o, zs) ==
    /\ open /\ o \in alive /\ o \notin Indexed
    /\ copies + Cardinality(zs) <= MaxCopies
    /\ records' = records \cup {<<z, o, NewReference(o, z, zs)>> : z \in zs}
    /\ copies' = IF manager = "buffering" THEN copies + Cardinality(zs) ELSE copies
    /\ UNCHANGED <<manager, alive, deleted, open, output, removed>>

\* A search appends the reference of a record that it finds to the output.
Find ==
    /\ open
    /\ \E ref \in Held : output' = output \cup {ref}
    /\ UNCHANGED <<manager, alive, copies, deleted, records, open, removed>>

ClearOutput ==
    /\ output' = {}
    /\ UNCHANGED <<manager, alive, copies, deleted, records, open, removed>>

\* Deleting what each of some references refers to.
Delete(refs) ==
    deleted' = [n \in 1..MaxCopies |-> deleted[n] + Cardinality({r \in refs : r[3] = ToCopy(n)})]

\* Mutant of Remove: the spatial object is deleted as well.
RemoveDeletes(r) ==
    /\ open /\ r \in records
    /\ records' = records \ {r} /\ removed' = removed \cup {r[3]}
    /\ Delete({r})
    /\ UNCHANGED <<manager, alive, copies, open, output>>

\* RecordArray::remove: the client gets the reference.
Remove(r) ==
    /\ open /\ r \in records
    /\ records' = records \ {r} /\ removed' = removed \cup {r[3]}
    /\ UNCHANGED <<manager, alive, copies, deleted, open, output>>

\* Mutant of Destroy: the references are not cleaned up.
DestroyOnly ==
    /\ open /\ open' = FALSE /\ records' = {}
    /\ UNCHANGED <<manager, alive, copies, deleted, output, removed>>

\* RecordArray::~RecordArray
Destroy ==
    /\ open
    /\ open' = FALSE
    /\ Delete(records)
    /\ records' = {}
    /\ UNCHANGED <<manager, alive, copies, output, removed>>

-----------------------------------------------------------------------------
\* What the client does, keeping to the rules: references that it got from
\* remove are its own; references in the output are not used once it has
\* deleted the index.

\* The client deletes the copy that a removed record referred to.
DeleteRemoved(n) ==
    /\ ToCopy(n) \in removed \ output
    /\ removed' = removed \ {ToCopy(n)}
    /\ deleted' = [deleted EXCEPT ![n] = @ + 1]
    /\ UNCHANGED <<manager, alive, copies, records, open, output>>

\* The application deletes an object: one that the index refers to only if the
\* manager has copied it.
DeleteObject(o) ==
    /\ o \in alive
    /\ manager = "inMemory" => o \notin Indexed /\ ToObject(o) \notin output
    /\ alive' = alive \ {o}
    /\ UNCHANGED <<manager, copies, deleted, records, open, output, removed>>

Next ==
    \/ \E o \in Objects : DeleteObject(o) \/ \E zs \in ZSets : Add(o, zs)
    \/ \E r \in records : Remove(r)
    \/ Find \/ ClearOutput \/ Destroy
    \/ \E n \in 1..MaxCopies : DeleteRemoved(n)

Spec == Init /\ [][Next]_vars

-----------------------------------------------------------------------------

Usable(ref) ==
    CASE ref[1] = "object" -> ref[2] \in alive
      [] ref[1] = "copy"   -> deleted[ref[2]] = 0
      [] ref[1] = "inline" -> TRUE

TypeOK ==
    /\ manager \in Managers /\ open \in BOOLEAN
    /\ alive \subseteq Objects
    /\ copies \in 0..MaxCopies
    /\ \A n \in (copies + 1)..MaxCopies : deleted[n] = 0

\* No copy is deleted twice, whether by the index or by the client that got its
\* reference from remove.
DeletedOnce ==
    /\ TypeOK
    /\ \A n \in 1..copies : deleted[n] <= 1

\* Whatever was deleted, the references in the index and those that searches
\* have delivered can be followed as long as the index exists.
ReferencesUsable == open => \A ref \in Held \cup output : Usable(ref)

\* When the index is gone, the only copies left are those that remove gave to
\* the client.
NothingLeaks ==
    ~open => \A n \in 1..copies : deleted[n] = 0 => ToCopy(n) \in removed
=============================================================================
