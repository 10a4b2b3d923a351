---------------------------- MODULE ObjectProofs ----------------------------
(***************************************************************************)
(* Proofs about the spatial objects: what the references to them refer to  *)
(* is there as long as it is used, and deleted once, and what is           *)
(* serialized of them is read back.                                        *)
(***************************************************************************)
EXTENDS References, Serialization, FiniteSetTheorems, SequenceTheorems, TLAPS

-----------------------------------------------------------------------------
\* References.

(***************************************************************************)
(* The copies that an add makes are numbered by the rank of their z-value. *)
(***************************************************************************)

Rank(z, zs) == Cardinality({y \in zs : y <= z})

\* Ranks lie between 1 and the number of z-values, and grow with them.
LEMMA RankGrows ==
    ASSUME NEW zs \in ZSets
    PROVE  /\ IsFiniteSet(zs) /\ Cardinality(zs) \in Nat
           /\ \A z \in zs : Rank(z, zs) \in 1..Cardinality(zs)
           /\ \A y, z \in zs : y < z => Rank(y, zs) < Rank(z, zs)
<1> DEFINE Upto(z) == {y \in zs : y <= z}
<1>1. IsFiniteSet(zs) /\ zs \subseteq Nat
  BY ReferencesAssumption
<1>2. Cardinality(zs) \in Nat
  BY <1>1, FS_CardinalityType
<1>3. ASSUME NEW z \in zs
      PROVE  /\ IsFiniteSet(Upto(z)) /\ Cardinality(Upto(z)) \in Nat
             /\ Cardinality(Upto(z)) \in 1..Cardinality(zs)
  <2>1. Upto(z) \in SUBSET zs /\ z \in Upto(z)
    BY <1>1
  <2> HIDE DEF Upto
  <2>2. IsFiniteSet(Upto(z)) /\ Cardinality(Upto(z)) <= Cardinality(zs)
    BY <1>1, <2>1, FS_Subset
  <2>3. Cardinality(Upto(z)) \in Nat /\ Cardinality(Upto(z)) # 0
    BY <2>1, <2>2, FS_CardinalityType, FS_EmptySet
  <2> QED
    BY <1>2, <2>2, <2>3
<1>4. ASSUME NEW y \in zs, NEW z \in zs, y < z
      PROVE  Cardinality(Upto(y)) < Cardinality(Upto(z))
  <2>1. Upto(y) \in SUBSET Upto(z) /\ z \in Upto(z) /\ z \notin Upto(y)
    <3>1. /\ y \in Nat /\ z \in Nat /\ y < z
          /\ \A x \in zs : x \in Nat
      BY <1>1, <1>4
    <3>2. \A x \in zs : x <= y => x <= z
      BY <3>1
    <3>3. z <= z /\ ~(z <= y)
      BY <3>1
    <3> QED
      BY <3>2, <3>3
  <2>2. IsFiniteSet(Upto(z)) /\ Cardinality(Upto(y)) \in Nat /\ Cardinality(Upto(z)) \in Nat
    BY <1>3
  <2> HIDE DEF Upto
  <2>3. /\ Cardinality(Upto(y)) <= Cardinality(Upto(z))
        /\ Cardinality(Upto(z)) = Cardinality(Upto(y)) => Upto(z) = Upto(y)
    BY <2>1, <2>2, FS_Subset
  <2> QED
    BY <2>1, <2>2, <2>3
<1>5. \A z \in zs : Rank(z, zs) = Cardinality(Upto(z))
  BY DEF Rank
<1> QED
  BY <1>1, <1>2, <1>3, <1>4, <1>5

\* Every number up to that of the z-values is the rank of exactly one of them.
LEMMA RankBijective ==
    ASSUME NEW zs \in ZSets
    PROVE  /\ \A y, z \in zs : Rank(y, zs) = Rank(z, zs) => y = z
           /\ \A n \in 1..Cardinality(zs) : \E z \in zs : Rank(z, zs) = n
<1> DEFINE k == Cardinality(zs)
           f == [z \in zs |-> Rank(z, zs)]
<1>1. /\ IsFiniteSet(zs) /\ k \in Nat
      /\ \A z \in zs : Rank(z, zs) \in 1..k
      /\ \A y, z \in zs : y < z => Rank(y, zs) < Rank(z, zs)
  BY RankGrows
<1>2. zs \subseteq Nat
  BY ReferencesAssumption
<1>3. ASSUME NEW y \in zs, NEW z \in zs, Rank(y, zs) = Rank(z, zs)
      PROVE  y = z
  <2>1. y \in Nat /\ z \in Nat /\ Rank(y, zs) \in Int /\ Rank(z, zs) \in Int
    BY <1>1, <1>2
  <2>2. ~(y < z) /\ ~(z < y)
    BY <1>1, <1>3, <2>1
  <2> QED
    BY <2>1, <2>2
<1>4. f \in Injection(zs, 1..k)
  BY <1>1, <1>3 DEF Injection, IsInjective
<1>5. IsFiniteSet(1..k) /\ Cardinality(1..k) = k
  BY <1>1, FS_Interval
<1>6. f \in Surjection(zs, 1..k)
  <2> HIDE DEF f
  <2> QED
    BY <1>4, <1>5, FS_Injection
<1>7. ASSUME NEW n \in 1..k
      PROVE  \E z \in zs : Rank(z, zs) = n
  BY <1>6, <1>7 DEF Surjection
<1> QED
  BY <1>3, <1>7

(***************************************************************************)
(* The inductive invariant.                                                *)
(***************************************************************************)

\* What a reference in the index or in the output is to.
Fits(ref) ==
    \/ manager = "buffering" /\ \E n \in 1..copies : ref = ToCopy(n)
    \/ manager = "inMemory" /\ \E o \in alive : ref = ToObject(o)
    \/ manager = "inline" /\ \E o \in Objects : ref = Inline(o)

Typed ==
    /\ TypeOK
    /\ deleted \in [1..MaxCopies -> {0, 1}]
    /\ \A r \in records : r[2] \in Objects

AllFit ==
    /\ \A r \in records : Fits(r[3])
    /\ \A r \in records : manager = "inMemory" => r[3] = ToObject(r[2])
    /\ \A ref \in output : Fits(ref)
    /\ \A n \in 1..MaxCopies : ToCopy(n) \in removed => n <= copies

\* A copy belongs to one record, or to the client to whom remove gave it, and
\* has not been deleted as long as it does.
OneOwner ==
    /\ \A r, s \in records, n \in 1..MaxCopies : r[3] = ToCopy(n) /\ s[3] = ToCopy(n) => r = s
    /\ \A n \in 1..MaxCopies :
          /\ ToCopy(n) \in Held => ToCopy(n) \notin removed /\ deleted[n] = 0
          /\ ToCopy(n) \in removed => deleted[n] = 0
          /\ open /\ ToCopy(n) \in output => deleted[n] = 0

\* Every copy that exists has an owner.
NoneLost ==
    /\ \A n \in 1..copies : deleted[n] = 0 => ToCopy(n) \in Held \cup removed
    /\ ~open => records = {}

IInv == Typed /\ AllFit /\ OneOwner /\ NoneLost

(***************************************************************************)
(* Every action keeps the invariant.                                       *)
(***************************************************************************)

\* No reference is to two things.
LEMMA Kinds ==
    /\ \A o, n : ToObject(o) # ToCopy(n) /\ Inline(o) # ToCopy(n) /\ ToObject(o) # Inline(n)
    /\ \A m, n : ToCopy(m) = ToCopy(n) => m = n
    /\ \A m, n : ToObject(m) = ToObject(n) => m = n
  BY DEF ToObject, ToCopy, Inline

\* The references that SpatialIndex::add makes: with the buffering manager each
\* to the copy whose number is the rank of the z-value among the new ones.
LEMMA NewReferences ==
    ASSUME Typed, NEW o \in Objects, NEW zs \in ZSets, NEW z \in zs
    PROVE  /\ manager = "buffering" => NewReference(o, z, zs) = ToCopy(copies + Rank(z, zs))
           /\ manager = "inMemory" => NewReference(o, z, zs) = ToObject(o)
           /\ manager = "inline" => NewReference(o, z, zs) = Inline(o)
  BY DEF NewReference, CopyFor, Rank

\* SpatialIndex::add.
LEMMA AddStep ==
    ASSUME IInv, NEW o \in Objects, NEW zs \in ZSets, Add(o, zs)
    PROVE  IInv'
<1> DEFINE new == {<<z, o, NewReference(o, z, zs)>> : z \in zs}
           k == Cardinality(zs)
<1>1. /\ k \in Nat
      /\ \A z \in zs : Rank(z, zs) \in 1..k
      /\ \A y, z \in zs : Rank(y, zs) = Rank(z, zs) => y = z
      /\ \A n \in 1..k : \E z \in zs : Rank(z, zs) = n
  BY RankGrows, RankBijective
<1>2. /\ Typed /\ AllFit /\ OneOwner /\ NoneLost
      /\ records' = records \cup new
      /\ copies' = IF manager = "buffering" THEN copies + k ELSE copies
      /\ open /\ o \in alive /\ copies + k <= MaxCopies
      /\ copies \in Nat /\ MaxCopies \in Nat /\ copies' \in 0..MaxCopies /\ copies <= copies'
      /\ UNCHANGED <<manager, alive, deleted, open, output, removed>>
  BY <1>1, ReferencesAssumption DEF Add, IInv, Typed, TypeOK
<1>3. /\ manager \in Managers
      /\ manager = "buffering" => \A z \in zs : NewReference(o, z, zs) = ToCopy(copies + Rank(z, zs))
      /\ manager = "inMemory" => \A z \in zs : NewReference(o, z, zs) = ToObject(o)
      /\ manager = "inline" => \A z \in zs : NewReference(o, z, zs) = Inline(o)
  BY <1>2, NewReferences DEF Typed, TypeOK
<1>4. \A r \in new : \E z \in zs : r = <<z, o, NewReference(o, z, zs)>>
  OBVIOUS
<1> HIDE DEF new, k
<1>5. Typed'
  <2>1. deleted \in [1..MaxCopies -> {0, 1}] /\ \A n \in (copies' + 1)..MaxCopies : deleted[n] = 0
    BY <1>2 DEF Typed, TypeOK
  <2>2. \A r \in new : r[2] = o
    BY <1>4
  <2> QED
    BY <1>2, <2>1, <2>2 DEF Typed, TypeOK
<1>6. \A ref : Fits(ref) => Fits(ref)'
  BY <1>2 DEF Fits
<1>7. AllFit'
  <2>1. \A r \in new : Fits(r[3])' /\ (manager = "inMemory" => r[3] = ToObject(r[2]))
    <3> SUFFICES ASSUME NEW z \in zs, NEW r, r = <<z, o, NewReference(o, z, zs)>>
                 PROVE  Fits(r[3])' /\ (manager = "inMemory" => r[3] = ToObject(r[2]))
      BY <1>4
    <3>1. r[2] = o /\ r[3] = NewReference(o, z, zs)
      OBVIOUS
    <3>2. manager = "buffering" => copies + Rank(z, zs) \in 1..copies'
      BY <1>1, <1>2
    <3> QED
      BY <1>2, <1>3, <3>1, <3>2 DEF Fits, Managers
  <2>2. \A n \in 1..MaxCopies : ToCopy(n) \in removed => n <= copies'
    BY <1>2 DEF AllFit
  <2> QED
    BY <1>2, <1>6, <2>1, <2>2 DEF AllFit
\* A new record with a reference to a copy.
<1>8. \A r \in new, n \in 1..MaxCopies : r[3] = ToCopy(n) =>
          /\ manager = "buffering"
          /\ n > copies
          /\ \E z \in zs : r = <<z, o, NewReference(o, z, zs)>> /\ n = copies + Rank(z, zs)
  <2> SUFFICES ASSUME NEW z \in zs, NEW r, r = <<z, o, NewReference(o, z, zs)>>,
                      NEW n \in 1..MaxCopies, r[3] = ToCopy(n)
               PROVE  /\ manager = "buffering" /\ n > copies
                      /\ n = copies + Rank(z, zs)
    BY <1>4
  <2>1. manager = "buffering"
    BY <1>3, Kinds DEF Managers
  <2>2. n = copies + Rank(z, zs)
    BY <1>3, <2>1, Kinds
  <2> QED
    BY <1>1, <1>2, <2>1, <2>2
<1>9. \A r \in records, n \in 1..MaxCopies : r[3] = ToCopy(n) => n <= copies
  BY <1>2, Kinds DEF AllFit, Fits
<1>10. \A n \in 1..MaxCopies : ToCopy(n) \in output => n <= copies
  BY <1>2, Kinds DEF AllFit, Fits
<1>11. OneOwner'
  <2>1. ASSUME NEW r \in records', NEW s \in records', NEW n \in 1..MaxCopies,
               r[3] = ToCopy(n), s[3] = ToCopy(n)
        PROVE  r = s
    <3>1. CASE r \in records /\ s \in records
      BY <1>2, <2>1, <3>1 DEF OneOwner
    <3>2. CASE r \in new /\ s \in new
      <4>1. PICK y \in zs : r = <<y, o, NewReference(o, y, zs)>> /\ n = copies + Rank(y, zs)
        BY <1>8, <2>1, <3>2
      <4>2. PICK z \in zs : s = <<z, o, NewReference(o, z, zs)>> /\ n = copies + Rank(z, zs)
        BY <1>8, <2>1, <3>2
      <4>3. Rank(y, zs) = Rank(z, zs)
        BY <1>1, <1>2, <4>1, <4>2
      <4> QED
        BY <1>1, <4>1, <4>2, <4>3
    <3> QED
      BY <1>2, <1>8, <1>9, <2>1, <3>1, <3>2
  <2>2. ASSUME NEW n \in 1..MaxCopies, ToCopy(n) \in Held'
        PROVE  ToCopy(n) \notin removed /\ deleted[n] = 0
    <3>1. PICK r \in records' : r[3] = ToCopy(n)
      BY <2>2 DEF Held
    <3>2. CASE r \in records
      BY <1>2, <3>1, <3>2 DEF OneOwner, Held
    <3>3. CASE r \in new
      <4>1. n \in (copies + 1)..MaxCopies
        BY <1>2, <1>8, <3>1, <3>3
      <4> QED
        BY <1>2, <4>1 DEF AllFit, Typed, TypeOK
    <3> QED
      BY <1>2, <3>2, <3>3
  <2> QED
    BY <1>2, <2>1, <2>2 DEF OneOwner
<1>12. NoneLost'
  <2>1. ASSUME NEW n \in 1..copies', deleted[n] = 0
        PROVE  ToCopy(n) \in Held' \cup removed
    <3>1. CASE n \in 1..copies
      <4>1. ToCopy(n) \in Held \cup removed
        BY <1>2, <2>1, <3>1 DEF NoneLost
      <4>2. Held \subseteq Held'
        BY <1>2 DEF Held
      <4> QED
        BY <4>1, <4>2
    <3>2. CASE n \notin 1..copies
      <4>1. manager = "buffering" /\ n - copies \in 1..k
        BY <1>1, <1>2, <3>2
      <4>2. PICK z \in zs : Rank(z, zs) = n - copies
        BY <1>1, <4>1
      <4>3. NewReference(o, z, zs) = ToCopy(n)
        BY <1>2, <1>3, <4>1, <4>2
      <4>4. <<z, o, NewReference(o, z, zs)>> \in new
        BY DEF new
      <4>5. <<z, o, NewReference(o, z, zs)>>[3] = ToCopy(n)
        BY <4>3
      <4> QED
        BY <1>2, <4>4, <4>5 DEF Held
    <3> QED
      BY <3>1, <3>2
  <2> QED
    BY <1>2, <2>1 DEF NoneLost
<1> QED
  BY <1>5, <1>7, <1>11, <1>12 DEF IInv

\* A search (SpatialIndexScan::find), and SessionMemory::clearOutput.
LEMMA OutputStep ==
    ASSUME IInv, Find \/ ClearOutput
    PROVE  IInv'
<1>1. /\ Typed /\ AllFit /\ OneOwner /\ NoneLost
      /\ UNCHANGED <<manager, alive, copies, deleted, records, open, removed>>
      /\ output' \subseteq output \cup Held
  BY DEF Find, ClearOutput, IInv
<1>2. Typed'
  BY <1>1 DEF Typed, TypeOK
<1>3. \A ref \in Held : Fits(ref)
  BY <1>1 DEF AllFit, Held
<1>4. \A ref : Fits(ref) => Fits(ref)'
  BY <1>1 DEF Fits
<1>5. AllFit'
  BY <1>1, <1>3, <1>4 DEF AllFit
<1>6. Held' = Held
  BY <1>1 DEF Held
<1>7. OneOwner'
  BY <1>1, <1>6 DEF OneOwner
<1>8. NoneLost'
  BY <1>1, <1>6 DEF NoneLost
<1> QED
  BY <1>2, <1>5, <1>7, <1>8 DEF IInv

\* RecordArray::remove: the reference goes from the index to the client.
LEMMA RemoveStep ==
    ASSUME IInv, NEW r \in records, Remove(r)
    PROVE  IInv'
<1>1. /\ Typed /\ AllFit /\ OneOwner /\ NoneLost
      /\ records' = records \ {r} /\ removed' = removed \cup {r[3]} /\ open
      /\ UNCHANGED <<manager, alive, copies, deleted, open, output>>
  BY DEF Remove, IInv
<1>2. Typed'
  BY <1>1 DEF Typed, TypeOK
<1>3. \A ref : Fits(ref) => Fits(ref)'
  BY <1>1 DEF Fits
<1>4. \A n \in 1..MaxCopies : r[3] = ToCopy(n) => n <= copies
  BY <1>1, Kinds DEF AllFit, Fits, Typed, TypeOK
<1>5. AllFit'
  BY <1>1, <1>3, <1>4 DEF AllFit
<1>6. r[3] \in Held /\ Held' \subseteq Held /\ Held \subseteq Held' \cup {r[3]}
  BY <1>1 DEF Held
<1>7. \A n \in 1..MaxCopies : r[3] = ToCopy(n) => ToCopy(n) \notin Held'
  BY <1>1 DEF OneOwner, Held
<1>8. OneOwner'
  BY <1>1, <1>6, <1>7 DEF OneOwner
<1>9. NoneLost'
  BY <1>1, <1>6 DEF NoneLost
<1> QED
  BY <1>2, <1>5, <1>8, <1>9 DEF IInv

\* How many records refer to a copy.
LEMMA RecordsOfCopy ==
    ASSUME OneOwner, NEW n \in 1..MaxCopies
    PROVE  Cardinality({r \in records : r[3] = ToCopy(n)}) = IF ToCopy(n) \in Held THEN 1 ELSE 0
<1>1. CASE ToCopy(n) \in Held
  <2>1. PICK r \in records : r[3] = ToCopy(n)
    BY <1>1 DEF Held
  <2>2. {s \in records : s[3] = ToCopy(n)} = {r}
    BY <2>1 DEF OneOwner
  <2> QED
    BY <1>1, <2>2, FS_Singleton
<1>2. CASE ToCopy(n) \notin Held
  <2>1. {r \in records : r[3] = ToCopy(n)} = {}
    BY <1>2 DEF Held
  <2> QED
    BY <1>2, <2>1, FS_EmptySet
<1> QED
  BY <1>1, <1>2

\* RecordArray::~RecordArray: what the records refer to is deleted.
LEMMA DestroyStep ==
    ASSUME IInv, Destroy
    PROVE  IInv'
<1>1. /\ Typed /\ AllFit /\ OneOwner /\ NoneLost
      /\ records' = {} /\ ~open'
      /\ UNCHANGED <<manager, alive, copies, output, removed>>
  BY DEF Destroy, IInv
<1>2. deleted' = [n \in 1..MaxCopies |-> deleted[n] + IF ToCopy(n) \in Held THEN 1 ELSE 0]
  BY <1>1, RecordsOfCopy DEF Destroy, Delete
<1>3. \A n \in 1..MaxCopies :
          /\ deleted[n] \in {0, 1}
          /\ deleted'[n] = IF ToCopy(n) \in Held THEN 1 ELSE deleted[n]
  BY <1>1, <1>2 DEF Typed, OneOwner
<1>4. \A n \in 1..MaxCopies : ToCopy(n) \in Held => n <= copies
  BY <1>1, Kinds DEF AllFit, Fits, Held, Typed, TypeOK
<1>5. Typed'
  <2>1. deleted' \in [1..MaxCopies -> {0, 1}]
    BY <1>2, <1>3
  <2>2. \A n \in (copies + 1)..MaxCopies : deleted'[n] = 0
    BY <1>1, <1>3, <1>4 DEF Typed, TypeOK
  <2>3. open' \in BOOLEAN
    BY DEF Destroy
  <2> QED
    BY <1>1, <2>1, <2>2, <2>3 DEF Typed, TypeOK
<1>6. \A ref : Fits(ref) => Fits(ref)'
  BY <1>1 DEF Fits
<1>7. AllFit'
  BY <1>1, <1>6 DEF AllFit
<1>8. Held' = {}
  BY <1>1 DEF Held
<1>9. OneOwner'
  BY <1>1, <1>3, <1>8 DEF OneOwner
<1>10. \A n \in 1..copies : n \in 1..MaxCopies
  BY <1>1, ReferencesAssumption DEF Typed, TypeOK
<1>11. NoneLost'
  BY <1>1, <1>3, <1>8, <1>10 DEF NoneLost
<1> QED
  BY <1>5, <1>7, <1>9, <1>11 DEF IInv

\* The client deletes a copy that remove gave it.
LEMMA DeleteRemovedStep ==
    ASSUME IInv, NEW n \in 1..MaxCopies, DeleteRemoved(n)
    PROVE  IInv'
<1>1. /\ Typed /\ AllFit /\ OneOwner /\ NoneLost
      /\ ToCopy(n) \in removed /\ ToCopy(n) \notin output
      /\ removed' = removed \ {ToCopy(n)}
      /\ deleted' = [deleted EXCEPT ![n] = deleted[n] + 1]
      /\ UNCHANGED <<manager, alive, copies, records, open, output>>
  BY DEF DeleteRemoved, IInv
<1>2. deleted[n] = 0 /\ n <= copies /\ ToCopy(n) \notin Held
  BY <1>1 DEF OneOwner, AllFit
<1>3. /\ deleted' \in [1..MaxCopies -> {0, 1}]
      /\ \A m \in 1..MaxCopies : deleted'[m] = IF m = n THEN 1 ELSE deleted[m]
  BY <1>1, <1>2 DEF Typed
<1>4. Typed'
  BY <1>1, <1>2, <1>3 DEF Typed, TypeOK
<1>5. \A ref : Fits(ref) => Fits(ref)'
  BY <1>1 DEF Fits
<1>6. AllFit'
  BY <1>1, <1>5 DEF AllFit
<1>7. Held' = Held
  BY <1>1 DEF Held
<1>8. \A m \in 1..MaxCopies : m # n => ToCopy(m) # ToCopy(n)
  BY Kinds
<1>9. OneOwner'
  BY <1>1, <1>2, <1>3, <1>7, <1>8 DEF OneOwner
<1>10. \A m \in 1..copies : m \in 1..MaxCopies
  BY <1>1, ReferencesAssumption DEF Typed, TypeOK
<1>11. NoneLost'
  BY <1>1, <1>3, <1>7, <1>8, <1>10 DEF NoneLost
<1> QED
  BY <1>4, <1>6, <1>9, <1>11 DEF IInv

\* The application deletes an object, which no reference in use is to.
LEMMA DeleteObjectStep ==
    ASSUME IInv, NEW o \in Objects, DeleteObject(o)
    PROVE  IInv'
<1>1. /\ Typed /\ AllFit /\ OneOwner /\ NoneLost
      /\ manager = "inMemory" => o \notin Indexed /\ ToObject(o) \notin output
      /\ alive' = alive \ {o}
      /\ UNCHANGED <<manager, copies, deleted, records, open, output, removed>>
  BY DEF DeleteObject, IInv
<1>2. Typed'
  BY <1>1 DEF Typed, TypeOK
<1>3. \A ref : Fits(ref) /\ (manager = "inMemory" => ref # ToObject(o)) => Fits(ref)'
  BY <1>1 DEF Fits
<1>4. \A r \in records : manager = "inMemory" => r[3] # ToObject(o)
  BY <1>1, Kinds DEF AllFit, Indexed
<1>5. AllFit'
  BY <1>1, <1>3, <1>4 DEF AllFit
<1>6. Held' = Held
  BY <1>1 DEF Held
<1>7. OneOwner' /\ NoneLost'
  BY <1>1, <1>6 DEF OneOwner, NoneLost
<1> QED
  BY <1>2, <1>5, <1>7 DEF IInv

LEMMA StartsOwned == Init => IInv
<1> SUFFICES ASSUME Init
             PROVE  IInv
  OBVIOUS
<1>1. Typed
  <2>1. open \in BOOLEAN
    BY Zenon DEF Init
  <2>2. copies = 0 /\ 0 \in 0..MaxCopies /\ deleted = [n \in 1..MaxCopies |-> 0]
    BY ReferencesAssumption DEF Init
  <2>3. \A n \in 1..MaxCopies : deleted[n] = 0
    BY <2>2
  <2>4. \A n \in (copies + 1)..MaxCopies : n \in 1..MaxCopies
    BY <2>2, ReferencesAssumption
  <2> QED
    BY <2>1, <2>2, <2>3, <2>4 DEF Init, Typed, TypeOK
<1> QED
  BY <1>1 DEF Init, IInv, AllFit, OneOwner, NoneLost, Held

LEMMA StaysOwned == IInv /\ [Next]_vars => IInv'
<1> SUFFICES ASSUME IInv, [Next]_vars
             PROVE  IInv'
  OBVIOUS
<1>1. ASSUME NEW o \in Objects, DeleteObject(o)
      PROVE  IInv'
  BY <1>1, DeleteObjectStep
<1>2. ASSUME NEW o \in Objects, NEW zs \in ZSets, Add(o, zs)
      PROVE  IInv'
  BY <1>2, AddStep
<1>3. ASSUME NEW r \in records, Remove(r)
      PROVE  IInv'
  BY <1>3, RemoveStep
<1>4. CASE Find \/ ClearOutput
  BY <1>4, OutputStep
<1>5. CASE Destroy
  BY <1>5, DestroyStep
<1>6. ASSUME NEW n \in 1..MaxCopies, DeleteRemoved(n)
      PROVE  IInv'
  BY <1>6, DeleteRemovedStep
<1>7. CASE UNCHANGED vars
  BY <1>7 DEF vars, IInv, Typed, TypeOK, AllFit, Fits, OneOwner, NoneLost, Held
<1> QED
  BY <1>1, <1>2, <1>3, <1>4, <1>5, <1>6, <1>7 DEF Next

\* The invariant holds at first and is kept by every step.
THEOREM Invariance == Spec => []IInv
BY StartsOwned, StaysOwned, PTL DEF Spec

LEMMA DeletesOnce == IInv => DeletedOnce
<1> SUFFICES ASSUME IInv
             PROVE  DeletedOnce
  OBVIOUS
<1>1. TypeOK /\ copies \in 0..MaxCopies /\ deleted \in [1..MaxCopies -> {0, 1}]
  BY DEF IInv, Typed, TypeOK
<1>2. \A n \in 1..copies : deleted[n] <= 1
  BY <1>1, ReferencesAssumption
<1> QED
  BY <1>1, <1>2 DEF DeletedOnce

LEMMA KeepsUsable == IInv => ReferencesUsable
<1> SUFFICES ASSUME IInv, open, NEW ref \in Held \cup output
             PROVE  Usable(ref)
  BY DEF ReferencesUsable
<1>1. Fits(ref)
  BY DEF IInv, AllFit, Held
<1>2. copies \in 0..MaxCopies /\ MaxCopies \in Nat
  BY ReferencesAssumption DEF IInv, Typed, TypeOK
<1>3. ASSUME NEW n \in 1..copies, ref = ToCopy(n)
      PROVE  Usable(ref)
  <2>1. n \in 1..MaxCopies
    BY <1>2
  <2>2. deleted[n] = 0
    BY <1>3, <2>1 DEF IInv, OneOwner
  <2>3. ref[1] = "copy" /\ ref[2] = n
    BY <1>3 DEF ToCopy
  <2> QED
    BY <2>2, <2>3 DEF Usable
<1>4. ASSUME NEW o \in alive, ref = ToObject(o)
      PROVE  Usable(ref)
  <2>1. ref[1] = "object" /\ ref[2] = o
    BY <1>4 DEF ToObject
  <2> QED
    BY <2>1 DEF Usable
<1>5. ASSUME NEW o \in Objects, ref = Inline(o)
      PROVE  Usable(ref)
  <2>1. ref[1] = "inline"
    BY <1>5 DEF Inline
  <2> QED
    BY <2>1 DEF Usable
<1> QED
  BY <1>1, <1>3, <1>4, <1>5 DEF Fits

LEMMA LosesNothing == IInv => NothingLeaks
BY DEF IInv, NoneLost, NothingLeaks, Held

\* No copy is deleted twice, whatever is added, removed and deleted and in
\* whatever order (cleanupSpatialObjectReference).
THEOREM NoDoubleDeletion == Spec => []DeletedOnce
BY Invariance, DeletesOnce, PTL

\* Every reference in an index, and every one that a search has delivered, can
\* be followed as long as the index exists (SpatialIndexScan::find).
THEOREM NothingDangles == Spec => []ReferencesUsable
BY Invariance, KeepsUsable, PTL

\* When the index has been deleted, no copy is left but those that remove gave
\* to the client (RecordArray::~RecordArray).
THEOREM NoLeak == Spec => []NothingLeaks
BY Invariance, LosesNothing, PTL

-----------------------------------------------------------------------------
\* Serialization.

(***************************************************************************)
(* The buffer.                                                             *)
(***************************************************************************)

Cell == {Junk} \cup (Stored \X Width \X Width)

Outcomes == {"ok", "overflow", "underflow", "asserted"}

\* The buffer between two calls; in particular what the last call delivered
\* lies within the limit.
BufferIs ==
    /\ bytes \in Seq(Cell)
    /\ position \in 0..End /\ limit \in 0..End
    /\ mark \in {NoMark} \cup 0..End
    /\ outcome \in Outcomes
    /\ outcome = "ok" => got.at + got.width <= limit

\* A function on an interval from 1 is a sequence.
LEMMA FunctionIsSeq ==
    ASSUME NEW S, NEW n \in Nat, NEW s \in [1..n -> S]
    PROVE  s \in Seq(S) /\ Len(s) = n
  OBVIOUS

\* An array of junk.
LEMMA JunkIsSeq ==
    ASSUME NEW n \in Nat
    PROVE  [k \in 1..n |-> Junk] \in Seq(Cell) /\ Len([k \in 1..n |-> Junk]) = n
<1> DEFINE s == [k \in 1..n |-> Junk]
<1>1. s \in [1..n -> Cell]
  BY DEF Cell
<1> HIDE DEF s
<1>2. s \in Seq(Cell) /\ Len(s) = n
  BY <1>1, FunctionIsSeq
<1> QED
  BY <1>2 DEF s

LEMMA EndIsNatural ==
    ASSUME BufferIs
    PROVE  End \in Nat /\ position \in Nat /\ limit \in Nat /\ End = Len(bytes)
<1>1. Len(bytes) \in Nat
  BY LenProperties DEF BufferIs
<1> QED
  BY <1>1 DEF BufferIs, End

\* What a put leaves in the array.
LEMMA CellsWritten ==
    ASSUME BufferIs, NEW v \in Stored, NEW w \in Width, position + w <= End
    PROVE  /\ Written(v, w) \in Seq(Cell)
           /\ Len(Written(v, w)) = End
           /\ \A k \in 1..w : Written(v, w)[position + k] = <<v, w, k>>
           /\ \A k \in 1..position : Written(v, w)[k] = bytes[k]
<1> DEFINE s == Written(v, w)
<1>1. /\ End \in Nat /\ position \in Nat /\ w \in Nat
      /\ \A k \in 1..End : bytes[k] \in Cell
  BY EndIsNatural, ElementOfSeq DEF BufferIs, Width
<1>2. s = [k \in 1..End |-> IF k \in (position + 1)..(position + w)
                            THEN <<v, w, k - position>> ELSE bytes[k]]
  BY DEF Written
<1>3. \A k \in (position + 1)..(position + w) : k - position \in Width
  BY <1>1 DEF Width
<1>4. s \in [1..End -> Cell]
  <2>1. ASSUME NEW k \in 1..End
        PROVE  s[k] \in Cell
    <3>1. CASE k \in (position + 1)..(position + w)
      <4>1. s[k] = <<v, w, k - position>>
        BY <1>2, <3>1
      <4> QED
        BY <1>3, <3>1, <4>1 DEF Cell
    <3>2. CASE k \notin (position + 1)..(position + w)
      <4>1. s[k] = bytes[k]
        BY <1>2, <3>2
      <4> QED
        BY <1>1, <4>1
    <3> QED
      BY <3>1, <3>2
  <2> QED
    BY <1>2, <2>1
<1>5. \A k \in 1..w : s[position + k] = <<v, w, k>>
  <2> SUFFICES ASSUME NEW k \in 1..w
               PROVE  s[position + k] = <<v, w, k>>
    OBVIOUS
  <2>1. /\ position + k \in 1..End /\ position + k \in (position + 1)..(position + w)
        /\ (position + k) - position = k
    BY <1>1
  <2> QED
    BY <1>2, <2>1
<1>6. \A k \in 1..position : s[k] = bytes[k]
  <2> SUFFICES ASSUME NEW k \in 1..position
               PROVE  s[k] = bytes[k]
    OBVIOUS
  <2>1. k \in 1..End /\ k \notin (position + 1)..(position + w)
    BY <1>1
  <2> QED
    BY <1>2, <2>1
<1> HIDE DEF s
<1>7. s \in Seq(Cell) /\ Len(s) = End
  BY <1>1, <1>4, FunctionIsSeq
<1> QED
  BY <1>5, <1>6, <1>7 DEF s

\* The constructor, over any array.
LEMMA WrapKeeps ==
    ASSUME NEW array \in Seq(Cell), Wrap(array)
    PROVE  BufferIs' /\ position' = 0 /\ limit' = End' /\ mark' = NoMark /\ outcome' = "ok"
<1>1. Len(array) \in Nat
  BY LenProperties
<1> QED
  BY <1>1 DEF Wrap, BufferIs, End, Outcomes, Nothing

\* A call that throws before it changes anything.
LEMMA ThrowsKeeps ==
    ASSUME BufferIs, NEW e \in {"overflow", "underflow", "asserted"}, Throws(e)
    PROVE  BufferIs' /\ End' = End /\ outcome' = e
  BY DEF Throws, BufferIs, End, Outcomes

\* A put or a get that succeeds ends within the limit.
LEMMA PutKeeps ==
    ASSUME BufferIs, NEW v \in Stored, NEW w \in Width, Put(v, w)
    PROVE  /\ BufferIs' /\ End' = End
           /\ \/ outcome' = "overflow" /\ position + w > End
              \/ /\ outcome' # "overflow" /\ position + w <= End
                 /\ position' = position + w /\ bytes' = Written(v, w)
                 /\ UNCHANGED <<limit, mark>> /\ CheckState
<1>1. End \in Nat /\ position \in Nat /\ limit \in Nat /\ w \in Nat
  BY EndIsNatural DEF Width
<1>2. CASE position + w > End /\ Throws("overflow")
  BY <1>2, ThrowsKeeps
<1>3. CASE /\ position + w <= End
           /\ bytes' = Written(v, w) /\ position' = position + w
           /\ got' = Nothing /\ UNCHANGED <<limit, mark>> /\ CheckState
  <2>1. bytes' \in Seq(Cell) /\ Len(bytes') = End
    BY <1>3, CellsWritten
  <2>2. outcome' \in {"ok", "asserted"}
    BY <1>3 DEF CheckState
  <2>3. End' = End
    BY <2>1 DEF End
  <2>4. position' \in 0..End' /\ limit' \in 0..End' /\ mark' \in {NoMark} \cup 0..End'
    BY <1>1, <1>3, <2>3 DEF BufferIs
  <2>5. got'.at + got'.width <= limit'
    BY <1>1, <1>3 DEF Nothing
  <2> QED
    BY <1>3, <2>1, <2>2, <2>3, <2>4, <2>5 DEF BufferIs, Outcomes
<1> QED
  BY <1>2, <1>3 DEF Put

LEMMA TakeKeeps ==
    ASSUME BufferIs, NEW w \in Width, NEW d, Take(w, d)
    PROVE  /\ BufferIs' /\ UNCHANGED <<bytes, limit, mark>>
           /\ \/ outcome' = "underflow" /\ position + w > End
              \/ /\ position + w <= End /\ position' = position + w
                 /\ got' = Delivered(d, w) /\ CheckState
<1>1. End \in Nat /\ position \in Nat /\ limit \in Nat /\ w \in Nat
  BY EndIsNatural DEF Width
<1>2. CASE position + w > End /\ Throws("underflow")
  BY <1>2, ThrowsKeeps DEF Throws
<1>3. CASE /\ position + w <= End
           /\ position' = position + w /\ got' = Delivered(d, w)
           /\ UNCHANGED <<bytes, limit, mark>> /\ CheckState
  <2>1. outcome' \in {"ok", "asserted"} /\ (outcome' = "ok" => position' <= limit')
    BY <1>3 DEF CheckState, PositionWithinLimit
  <2>2. got'.at = position /\ got'.width = w
    BY <1>3 DEF Delivered
  <2>3. outcome' = "ok" => got'.at + got'.width <= limit'
    BY <1>3, <2>1, <2>2
  <2>4. position' \in 0..End' /\ End' = End
    BY <1>1, <1>3 DEF End
  <2> QED
    BY <1>3, <2>1, <2>3, <2>4 DEF BufferIs, Outcomes, End
<1> QED
  BY <1>2, <1>3 DEF Take

\* A call that only moves the cursor.
LEMMA MovesKeeps ==
    ASSUME BufferIs, NEW p \in 0..End, NEW l \in 0..End, NEW m \in {NoMark} \cup 0..End,
           Moves(p, l, m)
    PROVE  BufferIs' /\ bytes' = bytes
<1>1. End' = End /\ End \in Nat
  BY EndIsNatural DEF Moves, End
<1>2. outcome' \in {"ok", "asserted"}
  BY DEF Moves, CheckState
<1>3. got'.at + got'.width <= limit'
  BY <1>1 DEF Moves, Nothing
<1> QED
  BY <1>1, <1>2, <1>3 DEF Moves, BufferIs, Outcomes

LEMMA CopyToKeeps ==
    ASSUME BufferIs, CopyTo
    PROVE  BufferIs'
<1>1. End' = End /\ End \in Nat /\ position \in Nat
  BY EndIsNatural DEF CopyTo, End
<1>2. outcome' \in {"ok", "asserted"} /\ (outcome' = "ok" => End <= limit')
  BY <1>1 DEF CopyTo, CheckState, PositionWithinLimit
<1>3. got'.at + got'.width = End
  BY <1>1 DEF CopyTo, Delivered
<1>4. mark' \in {NoMark} \cup 0..End
  BY DEF CopyTo, MaintainedMark, BufferIs
<1> QED
  BY <1>1, <1>2, <1>3, <1>4 DEF CopyTo, BufferIs, Outcomes

\* Whatever is done with a buffer keeps it in order.
LEMMA AnyCallKeeps ==
    ASSUME BufferIs, AnyCall(Plain)
    PROVE  BufferIs'
<1>1. /\ End \in Nat /\ position \in 0..End /\ limit \in 0..End
      /\ mark \in {NoMark} \cup 0..End
      /\ 0 \in 0..End /\ End \in 0..End
  BY EndIsNatural DEF BufferIs
<1>2. ASSUME NEW w \in Width, Get(w) \/ GetBytes(w)
      PROVE  BufferIs'
    BY <1>2, TakeKeeps DEF Get, GetBytes
<1>3. ASSUME NEW w \in Width, PutBytes(w)
      PROVE  BufferIs'
  <2>1. "pointer" \in Stored
    BY DEF Stored
  <2> QED
    BY <1>3, <2>1, PutKeeps DEF PutBytes
<1>4. ASSUME NEW w \in Width, NEW v \in Plain, Put(v, w)
      PROVE  BufferIs'
  <2>1. v \in Stored
    BY ObjectsAssumption DEF Stored
  <2> QED
    BY <1>4, <2>1, PutKeeps
<1>5. CASE Clear \/ Flip \/ Mark \/ Rewind
  <2>1. MaintainedMark(0, limit) \in {NoMark} \cup 0..End
    BY <1>1 DEF MaintainedMark
  <2> QED
    BY <1>1, <1>5, <2>1, MovesKeeps DEF Clear, Flip, Mark, Rewind
<1>6. CASE Reset
  <2>1. CASE mark # NoMark /\ Moves(mark, limit, mark)
    BY <1>1, <2>1, MovesKeeps
  <2>2. CASE Throws("asserted")
    BY <2>2, ThrowsKeeps
  <2> QED
    BY <1>6, <2>1, <2>2 DEF Reset
<1>7. ASSUME NEW p \in 0..End, SetLimit(p) \/ SetPosition(p)
      PROVE  BufferIs'
  <2>1. /\ MaintainedMark(position, p) \in {NoMark} \cup 0..End
        /\ MaintainedMark(p, limit) \in {NoMark} \cup 0..End
    BY <1>1 DEF MaintainedMark
  <2> QED
    BY <1>1, <1>7, <2>1, MovesKeeps DEF SetLimit, SetPosition
<1>8. CASE Wrap(bytes)
  BY <1>8, WrapKeeps DEF BufferIs
<1> QED
  BY <1>2, <1>3, <1>4, <1>5, <1>6, <1>7, <1>8, CopyToKeeps DEF AnyCall

(***************************************************************************)
(* Serializing and deserializing.                                          *)
(***************************************************************************)

\* The place behind the first d values of an object: one cell for the type
\* and two for each field.
Offset(d) == IF d = 0 THEN 0 ELSE 2 * d - 1

\* The first d values of the object are in the array.
Laid(d) ==
    /\ d > 0 => bytes[1] = <<obj.type, 1, 1>>
    /\ \A n \in 1..(d - 1) : /\ bytes[2 * n] = <<obj.fields[n], 2, 1>>
                             /\ bytes[2 * n + 1] = <<obj.fields[n], 2, 2>>

\* A buffer that has been wrapped for this pass and is behind done values.
Underway ==
    /\ done \in 0..(Len(obj.fields) + 1)
    /\ position = Offset(done) /\ limit = End /\ mark = NoMark /\ outcome = "ok"

\* The whole object is in the array.
Complete == Laid(Len(obj.fields) + 1) /\ Offset(Len(obj.fields) + 1) <= End

Progress ==
    /\ pc \in {"idle", "put", "grow", "stored", "get", "read"}
    /\ obj \in Storable \cup {NoObject} /\ done \in Nat
    /\ pc # "idle" => obj \in Storable /\ outcome # "asserted"
    /\ pc = "put" => Underway /\ Laid(done)
    /\ pc \in {"stored", "get", "read"} => Complete
    /\ pc = "get" =>
          /\ Underway
          /\ done > 0 => copy = [type |-> obj.type, fields |-> SubSeq(obj.fields, 1, done - 1)]
    /\ pc = "read" => copy = obj

SerialIInv == BufferIs /\ Progress

\* An object is a type and a sequence of as many values as the type has.
LEMMA ObjectShape ==
    ASSUME NEW o \in Storable
    PROVE  /\ o.type \in Types /\ o.type \in Stored
           /\ o.fields \in Seq(Values) /\ Len(o.fields) = FieldsOf[o.type]
           /\ Len(o.fields) \in Nat
           /\ \A n \in 1..Len(o.fields) : o.fields[n] \in Stored
           /\ o = [type |-> o.type, fields |-> o.fields]
<1>1. PICK t \in Types : o \in [type : {t}, fields : [1..FieldsOf[t] -> Values]]
  BY ObjectsAssumption
<1>2. o.type = t /\ o.fields \in [1..FieldsOf[t] -> Values] /\ FieldsOf[t] \in Nat
  BY <1>1, ObjectsAssumption
<1>3. o.fields \in Seq(Values) /\ Len(o.fields) = FieldsOf[t]
  BY <1>2, FunctionIsSeq
<1>4. o = [type |-> o.type, fields |-> o.fields]
  BY <1>1
<1>5. t \in Stored /\ \A n \in 1..FieldsOf[t] : o.fields[n] \in Stored
  BY <1>2, ObjectsAssumption DEF Stored
<1> QED
  BY <1>2, <1>3, <1>4, <1>5

LEMMA InitEstablishes ==
    ASSUME SerialInit
    PROVE  SerialIInv
<1>1. /\ bytes = [k \in 1..InitialSize |-> Junk] /\ InitialSize \in Nat
      /\ position = 0 /\ limit = InitialSize /\ mark = NoMark /\ outcome = "ok" /\ got = Nothing
      /\ pc = "idle" /\ obj = NoObject /\ done = 0
  BY InitialSizeAssumption DEF SerialInit, InitBuffer
<1>2. bytes \in Seq(Cell) /\ Len(bytes) = InitialSize
  BY <1>1, JunkIsSeq
<1>3. BufferIs
  BY <1>1, <1>2 DEF BufferIs, End, Outcomes, Nothing
<1> QED
  BY <1>1, <1>3 DEF SerialIInv, Progress

\* A buffer wrapped for a new pass over an object.
LEMMA PassBegins ==
    ASSUME NEW array \in Seq(Cell), Wrap(array), obj' \in Storable, done' = 0
    PROVE  BufferIs' /\ Underway' /\ outcome' = "ok" /\ Laid(0)'
<1>1. BufferIs' /\ position' = 0 /\ limit' = End' /\ mark' = NoMark /\ outcome' = "ok"
  BY WrapKeeps
<1>2. Len(obj'.fields) \in Nat
  BY ObjectShape
<1> QED
  BY <1>1, <1>2 DEF Underway, Offset, Laid

\* A serialize call begins, for the first time or with an array twice as long.
LEMMA SerializeStep ==
    ASSUME SerialIInv, NEW o \in Storable, Serialize(o)
    PROVE  SerialIInv'
<1>1. /\ bytes \in Seq(Cell) /\ Wrap(bytes)
      /\ pc' = "put" /\ obj' = o /\ done' = 0
  BY DEF Serialize, SerialIInv, BufferIs
<1>2. BufferIs' /\ Underway' /\ outcome' = "ok" /\ Laid(0)'
  BY <1>1, PassBegins
<1>3. Laid(done)'
  BY <1>1, <1>2 DEF Laid
<1> QED
  BY <1>1, <1>2, <1>3 DEF SerialIInv, Progress

LEMMA GrowBufferStep ==
    ASSUME SerialIInv, GrowBuffer
    PROVE  SerialIInv'
<1> DEFINE junk == [k \in 1..End |-> Junk]
<1>1. /\ bytes \in Seq(Cell) /\ End \in Nat /\ obj \in Storable
      /\ Wrap(bytes \o junk) /\ pc' = "put" /\ obj' = obj /\ done' = 0
  BY EndIsNatural DEF GrowBuffer, SerialIInv, BufferIs, Progress
<1>2. junk \in Seq(Cell)
  BY <1>1, JunkIsSeq
<1> HIDE DEF junk
<1>3. bytes \o junk \in Seq(Cell)
  BY <1>1, <1>2, ConcatProperties
<1>4. BufferIs' /\ Underway' /\ outcome' = "ok" /\ Laid(0)'
  BY <1>1, <1>3, PassBegins
<1>5. Laid(done)'
  BY <1>1, <1>4 DEF Laid
<1> QED
  BY <1>1, <1>4, <1>5 DEF SerialIInv, Progress

\* A value is put behind those that are already in the array.
LEMMA PutNextStep ==
    ASSUME SerialIInv, PutNext
    PROVE  SerialIInv'
<1> DEFINE v == IF done = 0 THEN obj.type ELSE obj.fields[done]
           w == IF done = 0 THEN 1 ELSE 2
<1>1. /\ BufferIs /\ Underway /\ Laid(done) /\ obj \in Storable /\ pc = "put"
      /\ done \in Nat /\ done <= Len(obj.fields) /\ Len(obj.fields) \in Nat
      /\ obj' = obj
      /\ position \in Nat /\ position = Offset(done) /\ End \in Nat
  BY ObjectShape, EndIsNatural DEF PutNext, SerialIInv, Progress, Underway
<1>2. v \in Stored /\ w \in Width
  <2>1. done # 0 => done \in 1..Len(obj.fields)
    BY <1>1
  <2> QED
    BY <1>1, <2>1, ObjectShape DEF Width
<1>3. Put(v, w)
  BY DEF PutNext
<1>4. Offset(done + 1) = Offset(done) + w
  BY <1>1 DEF Offset
<1> HIDE DEF v, w
<1>5. /\ BufferIs' /\ End' = End
      /\ \/ outcome' = "overflow" /\ position + w > End
         \/ /\ outcome' # "overflow" /\ position + w <= End
            /\ position' = position + w /\ bytes' = Written(v, w)
            /\ UNCHANGED <<limit, mark>> /\ CheckState
  BY <1>1, <1>2, <1>3, PutKeeps
<1>6. CASE outcome' = "overflow"
  <2>1. pc' = "grow" /\ done' = done
    BY <1>6 DEF PutNext
  <2> QED
    BY <1>1, <1>5, <1>6, <2>1 DEF SerialIInv, Progress
<1>7. CASE outcome' # "overflow"
  <2>1. /\ pc' = "put" /\ done' = done + 1
        /\ position + w <= End /\ position' = position + w /\ bytes' = Written(v, w)
        /\ limit' = limit /\ mark' = mark /\ CheckState
    BY <1>5, <1>7 DEF PutNext
  <2>2. limit = End /\ mark = NoMark
    BY <1>1 DEF Underway
  <2>3. outcome' = "ok"
    <3>1. MarkBehindPosition'
      BY <2>1, <2>2 DEF MarkBehindPosition
    <3>2. PositionWithinLimit'
      <4>1. position' <= limit' /\ limit' <= End'
        BY <1>1, <1>5, <2>1, <2>2
      <4> QED
        BY <4>1 DEF PositionWithinLimit
    <3> QED
      BY <2>1, <3>1, <3>2 DEF CheckState
  <2>4. Underway'
    <3>1. position' = Offset(done')
      BY <1>1, <1>4, <2>1
    <3>2. done' \in 0..(Len(obj'.fields) + 1)
      BY <1>1, <2>1
    <3> QED
      BY <1>5, <2>1, <2>2, <2>3, <3>1, <3>2 DEF Underway
  <2>5. /\ \A k \in 1..w : bytes'[position + k] = <<v, w, k>>
        /\ \A k \in 1..position : bytes'[k] = bytes[k]
    BY <1>1, <1>2, <2>1, CellsWritten
  <2>6. Laid(done)'
    <3>1. CASE done = 0
      <4>1. done' = 1 /\ 1 \in 1..w /\ w = 1 /\ v = obj.type /\ position + 1 = 1
        BY <1>1, <2>1, <3>1 DEF v, w, Offset
      <4>2. bytes'[1] = <<obj.type, 1, 1>>
        BY <2>5, <4>1
      <4> QED
        BY <1>1, <4>1, <4>2 DEF Laid
    <3>2. CASE done > 0
      <4>1. w = 2 /\ v = obj.fields[done] /\ position = 2 * done - 1 /\ done' - 1 = done
        BY <1>1, <2>1, <3>2 DEF v, w, Offset
      <4>2. bytes'[1] = <<obj.type, 1, 1>>
        <5>1. 1 \in 1..position
          BY <1>1, <3>2, <4>1
        <5> QED
          BY <1>1, <2>5, <3>2, <5>1 DEF Laid
      <4>3. /\ bytes'[2 * done] = <<obj.fields[done], 2, 1>>
            /\ bytes'[2 * done + 1] = <<obj.fields[done], 2, 2>>
        <5>1. 1 \in 1..w /\ 2 \in 1..w /\ position + 1 = 2 * done /\ position + 2 = 2 * done + 1
          BY <1>1, <4>1
        <5> QED
          BY <2>5, <4>1, <5>1
      <4>4. ASSUME NEW n \in 1..(done - 1)
            PROVE  /\ bytes'[2 * n] = <<obj.fields[n], 2, 1>>
                   /\ bytes'[2 * n + 1] = <<obj.fields[n], 2, 2>>
        <5>1. 2 * n \in 1..position /\ 2 * n + 1 \in 1..position
          BY <1>1, <4>1
        <5> QED
          BY <1>1, <2>5, <5>1 DEF Laid
      <4>5. \A n \in 1..done : n \in 1..(done - 1) \/ n = done
        BY <1>1
      <4> QED
        BY <1>1, <4>1, <4>2, <4>3, <4>4, <4>5 DEF Laid
    <3> QED
      BY <1>1, <3>1, <3>2
  <2> QED
    BY <1>1, <1>5, <2>1, <2>3, <2>4, <2>6 DEF SerialIInv, Progress
<1> QED
  BY <1>6, <1>7

\* The object has been put completely.
LEMMA FlipStoredStep ==
    ASSUME SerialIInv, FlipStored
    PROVE  SerialIInv'
<1>1. /\ BufferIs /\ Underway /\ Laid(done) /\ obj \in Storable
      /\ done = Len(obj.fields) + 1 /\ done \in Nat
      /\ Moves(0, position, mark) /\ pc' = "stored" /\ obj' = obj /\ done' = done
      /\ position \in 0..End /\ position \in Nat /\ End \in Nat /\ mark = NoMark
  BY EndIsNatural DEF FlipStored, Flip, SerialIInv, Progress, BufferIs, Underway
<1>2. BufferIs' /\ bytes' = bytes
  <2>1. 0 \in 0..End /\ mark \in {NoMark} \cup 0..End
    BY <1>1
  <2> QED
    BY <1>1, <2>1, MovesKeeps
<1>3. outcome' = "ok"
  <2>1. position' = 0 /\ limit' = position /\ mark' = NoMark /\ End' = End /\ CheckState
    BY <1>1, <1>2 DEF Moves, End
  <2>2. MarkBehindPosition' /\ PositionWithinLimit'
    BY <1>1, <2>1 DEF MarkBehindPosition, PositionWithinLimit
  <2> QED
    BY <2>1, <2>2 DEF CheckState
<1>4. Complete'
  BY <1>1, <1>2 DEF Complete, Laid, Underway, End
<1> QED
  BY <1>1, <1>2, <1>3, <1>4 DEF SerialIInv, Progress

\* A deserialize call begins, on what a serialize call stored.
LEMMA DeserializeStep ==
    ASSUME SerialIInv, Deserialize
    PROVE  SerialIInv'
<1>1. /\ bytes \in Seq(Cell) /\ obj \in Storable /\ Complete
      /\ Wrap(bytes) /\ pc' = "get" /\ obj' = obj /\ done' = 0
  BY DEF Deserialize, SerialIInv, BufferIs, Progress
<1>2. BufferIs' /\ Underway' /\ outcome' = "ok"
  BY <1>1, PassBegins
<1>3. bytes' = bytes
  BY <1>1 DEF Wrap
<1>4. Complete'
  BY <1>1, <1>3 DEF Complete, Laid, End
<1> QED
  BY <1>1, <1>2, <1>4 DEF SerialIInv, Progress

\* A get at the place of a value of the object delivers that value.
LEMMA GetDelivers ==
    ASSUME BufferIs, Underway, NEW v \in Stored, NEW w \in Width, Get(w),
           position + w <= End,
           \A k \in 1..w : bytes[position + k] = <<v, w, k>>
    PROVE  /\ BufferIs' /\ bytes' = bytes /\ position' = position + w
           /\ limit' = limit /\ mark' = mark /\ outcome' = "ok"
           /\ got'.value = v
<1>1. ValueHere(w) = v
  <2>1. bytes[position + 1] = <<v, w, 1>>
    <3>1. 1 \in 1..w
      BY DEF Width
    <3> QED
      BY <3>1
  <2>2. bytes[position + 1][1] = v
    BY <2>1
  <2> QED
    BY <2>2 DEF ValueHere
<1>2. End \in Nat /\ position \in Nat /\ limit \in Nat /\ w \in Nat
  BY EndIsNatural DEF Width
<1>3. Take(w, v)
  BY <1>1 DEF Get
<1>4. /\ BufferIs' /\ bytes' = bytes /\ limit' = limit /\ mark' = mark
      /\ position' = position + w /\ got' = Delivered(v, w) /\ CheckState
  BY <1>2, <1>3, TakeKeeps
<1>5. outcome' = "ok"
  <2>1. limit = End /\ mark = NoMark /\ End' = End
    BY <1>4 DEF Underway, End
  <2>2. MarkBehindPosition' /\ PositionWithinLimit'
    BY <1>2, <1>4, <2>1 DEF MarkBehindPosition, PositionWithinLimit
  <2> QED
    BY <1>4, <2>2 DEF CheckState
<1> QED
  BY <1>4, <1>5 DEF Delivered

LEMMA GetTypeStep ==
    ASSUME SerialIInv, GetType
    PROVE  SerialIInv'
<1>1. /\ BufferIs /\ Underway /\ Complete /\ obj \in Storable /\ pc = "get" /\ done = 0
      /\ Get(1) /\ copy' = [type |-> got'.value, fields |-> << >>] /\ done' = 1
      /\ pc' = "get" /\ obj' = obj
      /\ Len(obj.fields) \in Nat /\ obj.type \in Stored
  BY ObjectShape DEF GetType, SerialIInv, Progress
<1>2. position = 0 /\ 1 <= End /\ End \in Nat
  BY <1>1, EndIsNatural DEF Underway, Complete, Offset
<1>3. \A k \in 1..1 : bytes[position + k] = <<obj.type, 1, k>>
  BY <1>1, <1>2 DEF Complete, Laid
<1>4. /\ BufferIs' /\ bytes' = bytes /\ position' = 1 /\ limit' = limit /\ mark' = mark
      /\ outcome' = "ok" /\ got'.value = obj.type
  <2>1. 1 \in Width /\ position + 1 <= End /\ position + 1 = 1
    BY <1>2 DEF Width
  <2> QED
    BY <1>1, <1>3, <2>1, GetDelivers
<1>5. Complete' /\ End' = End
  BY <1>1, <1>4 DEF Complete, Laid, End
<1>6. Underway'
  BY <1>1, <1>4, <1>5 DEF Underway, Offset
<1>7. copy' = [type |-> obj'.type, fields |-> SubSeq(obj'.fields, 1, done' - 1)]
  <2>1. SubSeq(obj.fields, 1, 0) = << >>
    BY SubSeqEmpty
  <2> QED
    BY <1>1, <1>4, <2>1
<1> QED
  BY <1>1, <1>4, <1>5, <1>6, <1>7 DEF SerialIInv, Progress

LEMMA GetFieldStep ==
    ASSUME SerialIInv, GetField
    PROVE  SerialIInv'
<1> DEFINE s == obj.fields
<1>1. /\ BufferIs /\ Underway /\ Complete /\ obj \in Storable /\ pc = "get"
      /\ done \in Nat /\ done > 0
      /\ copy = [type |-> obj.type, fields |-> SubSeq(s, 1, done - 1)]
      /\ done <= FieldsOf[copy.type]
      /\ Get(2) /\ copy' = [copy EXCEPT !.fields = Append(@, got'.value)] /\ done' = done + 1
      /\ pc' = "get" /\ obj' = obj
  BY DEF GetField, SerialIInv, Progress
<1>2. /\ s \in Seq(Values) /\ Len(s) \in Nat /\ done \in 1..Len(s) /\ s[done] \in Stored
  <2>1. /\ s \in Seq(Values) /\ Len(s) \in Nat /\ FieldsOf[obj.type] = Len(s)
        /\ \A n \in 1..Len(s) : s[n] \in Stored
    BY <1>1, ObjectShape
  <2>2. done \in 1..Len(s)
    BY <1>1, <2>1
  <2> QED
    BY <2>1, <2>2
<1>3. position = 2 * done - 1 /\ position + 2 <= End /\ End \in Nat
  <2>1. /\ position = Offset(done) /\ Offset(Len(s) + 1) <= End
        /\ End \in Nat /\ position \in Nat
    BY <1>1, EndIsNatural DEF Underway, Complete
  <2>2. done \in Nat /\ done > 0 /\ done <= Len(s) /\ Len(s) \in Nat
    BY <1>1, <1>2
  <2> HIDE DEF s
  <2> QED
    BY ONLY <2>1, <2>2 DEF Offset
<1>4. \A k \in 1..2 : bytes[position + k] = <<s[done], 2, k>>
  <2>1. bytes[2 * done] = <<s[done], 2, 1>> /\ bytes[2 * done + 1] = <<s[done], 2, 2>>
    <3>1. \A n \in 1..((Len(s) + 1) - 1) : /\ bytes[2 * n] = <<s[n], 2, 1>>
                                            /\ bytes[2 * n + 1] = <<s[n], 2, 2>>
      BY <1>1 DEF Complete, Laid
    <3>2. done \in 1..((Len(s) + 1) - 1)
      BY <1>2
    <3> HIDE DEF s
    <3> QED
      BY <3>1, <3>2
  <2>2. position + 1 = 2 * done /\ position + 2 = 2 * done + 1
    BY <1>1, <1>3
  <2>3. \A k \in 1..2 : k = 1 \/ k = 2
    OBVIOUS
  <2> QED
    BY <2>1, <2>2, <2>3
<1>5. /\ BufferIs' /\ bytes' = bytes /\ position' = position + 2 /\ limit' = limit
      /\ mark' = mark /\ outcome' = "ok" /\ got'.value = s[done]
  <2>1. 2 \in Width
    BY DEF Width
  <2> QED
    BY <1>1, <1>2, <1>3, <1>4, <2>1, GetDelivers
<1>6. Complete' /\ End' = End
  BY <1>1, <1>5 DEF Complete, Laid, End
<1>7. Underway'
  <2>1. done' \in 0..(Len(obj'.fields) + 1) /\ position' = Offset(done')
    <3>1. /\ done \in Nat /\ done > 0 /\ done <= Len(s) /\ Len(s) \in Nat
          /\ done' = done + 1 /\ position' = position + 2 /\ position = 2 * done - 1
          /\ Len(obj'.fields) = Len(s)
      BY <1>1, <1>2, <1>3, <1>5
    <3> HIDE DEF s
    <3> QED
      BY ONLY <3>1 DEF Offset
  <2> QED
    BY <1>1, <1>5, <1>6, <2>1 DEF Underway
<1>8. Append(SubSeq(s, 1, done - 1), s[done]) = SubSeq(s, 1, done)
  <2> DEFINE t == SubSeq(s, 1, done - 1)
             u == SubSeq(s, 1, done)
             x == s[done]
  <2> HIDE DEF s
  <2>1. \A n \in 1..Len(s) : s[n] \in Values
    BY <1>2, ElementOfSeq
  <2>2. /\ t \in Seq(Values) /\ Len(t) = done - 1
        /\ \A n \in 1..(done - 1) : t[n] = s[n]
    <3>1. /\ 1 \in Int /\ done - 1 \in Int
          /\ \A n \in 1..(done - 1) : s[n] \in Values
      BY <1>2, <2>1
    <3>2. /\ t \in Seq(Values)
          /\ Len(t) = IF 1 <= done - 1 THEN (done - 1) - 1 + 1 ELSE 0
          /\ \A n \in 1..((done - 1) - 1 + 1) : t[n] = s[1 + n - 1]
      BY <3>1, SubSeqProperties
    <3> QED
      BY <1>2, <3>2
  <2>3. /\ u \in Seq(Values) /\ Len(u) = done
        /\ \A n \in 1..done : u[n] = s[n]
    <3>1. 1 \in Int /\ done \in Int /\ \A n \in 1..done : s[n] \in Values
      BY <1>2, <2>1
    <3>2. /\ u \in Seq(Values)
          /\ Len(u) = IF 1 <= done THEN done - 1 + 1 ELSE 0
          /\ \A n \in 1..(done - 1 + 1) : u[n] = s[1 + n - 1]
      BY <3>1, SubSeqProperties
    <3> QED
      BY <1>2, <3>2
  <2>4. x \in Values /\ x = s[done]
    BY <1>2, <2>1
  <2> HIDE DEF t, u, x
  <2>5. /\ Append(t, x) \in Seq(Values) /\ Len(Append(t, x)) = done
        /\ \A n \in 1..done : Append(t, x)[n] = IF n <= done - 1 THEN t[n] ELSE x
    BY <1>2, <2>2, <2>4, AppendProperties
  <2>6. \A n \in 1..done : Append(t, x)[n] = u[n]
    BY <1>2, <2>2, <2>3, <2>4, <2>5
  <2>7. Append(t, x) = u
    BY <2>3, <2>5, <2>6, SeqEqual
  <2> QED
    BY <2>7 DEF t, u, x, s
<1>9. copy' = [type |-> obj'.type, fields |-> SubSeq(obj'.fields, 1, done' - 1)]
  <2>1. copy' = [type |-> obj.type, fields |-> Append(SubSeq(s, 1, done - 1), s[done])]
    BY <1>1, <1>5
  <2>2. done' - 1 = done
    BY <1>1
  <2> QED
    BY <1>1, <1>8, <2>1, <2>2
<1> QED
  <2>1. /\ pc' = "get" /\ obj' \in Storable /\ done' \in Nat /\ outcome' # "asserted"
    BY <1>1, <1>5
  <2> QED
    BY <1>5, <1>6, <1>7, <1>9, <2>1 DEF SerialIInv, Progress

LEMMA EndDeserializeStep ==
    ASSUME SerialIInv, EndDeserialize
    PROVE  SerialIInv'
<1>1. /\ BufferIs /\ Complete /\ obj \in Storable /\ outcome # "asserted"
      /\ done \in Nat /\ done > 0
      /\ copy = [type |-> obj.type, fields |-> SubSeq(obj.fields, 1, done - 1)]
      /\ done = FieldsOf[copy.type] + 1
      /\ pc' = "read" /\ UNCHANGED <<buffer, obj, done, copy>>
  BY DEF EndDeserialize, SerialIInv, Progress
<1>2. copy = obj
  <2>1. /\ obj.fields \in Seq(Values) /\ FieldsOf[obj.type] = Len(obj.fields)
        /\ Len(obj.fields) \in Nat
        /\ obj = [type |-> obj.type, fields |-> obj.fields]
    BY <1>1, ObjectShape
  <2>2. copy.type = obj.type
    BY <1>1
  <2>3. done - 1 = Len(obj.fields)
    BY <1>1, <2>1, <2>2
  <2>4. SubSeq(obj.fields, 1, Len(obj.fields)) = obj.fields
    BY <2>1, SubSeqFull
  <2> QED
    BY <1>1, <2>1, <2>3, <2>4
<1>3. BufferIs' /\ Complete'
  BY <1>1 DEF buffer, BufferIs, Complete, Laid, End
<1> QED
  BY <1>1, <1>2, <1>3 DEF SerialIInv, Progress, buffer

(***************************************************************************)
(* The theorems.                                                           *)
(***************************************************************************)

\* The strengthened invariant: where the buffer stands, which values are in
\* the array and which of them have been read, at every step of the two
\* functions.
THEOREM SerialInvariance == SerialSpec => []SerialIInv
<1>1. SerialInit => SerialIInv
  BY InitEstablishes
<1>2. SerialIInv /\ [SerialNext]_serialVars => SerialIInv'
  <2> SUFFICES ASSUME SerialIInv, [SerialNext]_serialVars
               PROVE  SerialIInv'
    OBVIOUS
  <2>1. ASSUME NEW o \in Storable, Serialize(o)
        PROVE  SerialIInv'
    BY <2>1, SerializeStep
  <2>2. CASE OtherUse
    <3>1. BufferIs'
      BY <2>2, AnyCallKeeps DEF OtherUse, SerialIInv
    <3> QED
      BY <2>2, <3>1 DEF OtherUse, SerialIInv, Progress
  <2>3. CASE UNCHANGED serialVars
    BY <2>3 DEF serialVars, buffer, SerialIInv, BufferIs, Progress, Underway, Complete, Laid, End
  <2> QED
    BY <2>1, <2>2, <2>3, DeserializeStep, PutNextStep, GrowBufferStep, FlipStoredStep,
       GetTypeStep, GetFieldStep, EndDeserializeStep DEF SerialNext, Step
<1> QED
  BY <1>1, <1>2, PTL DEF SerialSpec

\* No call on a buffer that succeeds delivers what lies beyond the limit,
\* although every call checks its size against the end of the array.
THEOREM LimitHeld == SerialSpec => []NothingBeyondLimit
<1>1. SerialIInv => NothingBeyondLimit
  BY DEF SerialIInv, BufferIs, NothingBeyondLimit
<1> QED
  BY <1>1, SerialInvariance, PTL

\* deserialize returns the object that serialize was given, however often the
\* array had to be replaced and whatever it held before, and neither of them
\* runs into an assertion of the buffer.
THEOREM AlwaysReadsBack == SerialSpec => []ReadsBack
<1>1. SerialIInv => ReadsBack
  <2> SUFFICES ASSUME SerialIInv
               PROVE  ReadsBack
    OBVIOUS
  <2>1. SerialTypeOK
    <3>1. \A k \in 1..End : bytes[k] = Junk \/ bytes[k] \in Stored \X Width \X Width
      <4>1. \A k \in 1..End : bytes[k] \in Cell
        BY ElementOfSeq DEF SerialIInv, BufferIs, End
      <4> QED
        BY <4>1 DEF Cell
    <3>2. BufferTypeOK
      BY <3>1 DEF BufferTypeOK, SerialIInv, BufferIs, Outcomes
    <3> QED
      BY <3>2 DEF SerialTypeOK, SerialIInv, Progress
  <2>2. pc \in {"get", "read"} /\ done > 0 => copy.type = obj.type
    BY DEF SerialIInv, Progress
  <2> QED
    BY <2>1, <2>2 DEF ReadsBack, SerialIInv, Progress
<1> QED
  BY <1>1, SerialInvariance, PTL
=============================================================================
