--------------------------- MODULE Serialization ---------------------------
(***************************************************************************)
(* RecordArray::serialize and deserialize, with writeTo and readFrom of    *)
(* the spatial objects: an object is put into a ByteBuffer over the        *)
(* index's array, starting again with an array of twice the size whenever  *)
(* the buffer overflows, and is later read back.                           *)
(*                                                                         *)
(* The array is used again and again, so it holds the remains of earlier   *)
(* objects and of attempts that overflowed; and before the first object    *)
(* anything may be done with the buffer, by any calls.                     *)
(***************************************************************************)
EXTENDS ByteBuffer

CONSTANTS
    Types,      \* the registered types of spatial objects
    FieldsOf,   \* how many fields of two cells (id, coordinates) a type has
    Storable,   \* the objects, as [type, fields]
    Plain       \* what else is put into the buffer

ASSUME ObjectsAssumption ==
    /\ Types \cup Plain \subseteq Values
    /\ FieldsOf \in [Types -> Nat]
    /\ Storable \subseteq UNION {[type : {t}, fields : [1..FieldsOf[t] -> Values]] : t \in Types}

VARIABLES
    pc,         \* which function is running, and where it is
    obj,        \* its parameter spatial_object
    done,       \* how many values have been put or got; the type comes first
    copy        \* the object that deserialize makes, as far as it has been read

serialVars == <<buffer, pc, obj, done, copy>>

NoObject == [type |-> "none", fields |-> << >>]

SerialInit ==
    /\ InitBuffer
    /\ pc = "idle" /\ obj = NoObject /\ done = 0 /\ copy = NoObject

\* Whatever else the buffer is used for.
OtherUse ==
    /\ pc = "idle"
    /\ AnyCall(Plain)
    /\ UNCHANGED <<pc, obj, done, copy>>

\* A new ByteBuffer for an attempt at serializing.
Serialize(o) ==
    /\ pc \in {"idle", "stored", "read"}
    /\ pc' = "put" /\ obj' = o /\ done' = 0 /\ copy' = NoObject
    /\ Wrap(bytes)

\* The type is put first, and then writeTo puts the fields in their order.
PutNext ==
    /\ pc = "put" /\ done <= Len(obj.fields)
    /\ IF done = 0 THEN Put(obj.type, 1) ELSE Put(obj.fields[done], 2)
    /\ pc' = IF outcome' = "overflow" THEN "grow" ELSE "put"
    /\ done' = IF outcome' = "overflow" THEN done ELSE done + 1
    /\ UNCHANGED <<obj, copy>>

\* Mutant of GrowBuffer: the new attempt goes on with the next field.
GrowBufferGoesOn ==
    /\ pc = "grow" /\ Wrap(bytes \o [k \in 1..End |-> Junk])
    /\ pc' = "put" /\ UNCHANGED <<obj, done, copy>>

\* Mutant of GrowBuffer: the size stays the same.
GrowBufferNot ==
    /\ pc = "grow" /\ Wrap(bytes)
    /\ pc' = "put" /\ done' = 0 /\ UNCHANGED <<obj, copy>>

\* growBuffer, and the ByteBuffer of the next attempt.
GrowBuffer ==
    /\ pc = "grow"
    /\ Wrap(bytes \o [k \in 1..End |-> Junk])
    /\ pc' = "put" /\ done' = 0
    /\ UNCHANGED <<obj, copy>>

FlipStored ==
    /\ pc = "put" /\ done = Len(obj.fields) + 1
    /\ Flip
    /\ pc' = "stored"
    /\ UNCHANGED <<obj, done, copy>>

\* A new ByteBuffer over the whole array.
Deserialize ==
    /\ pc \in {"stored", "read"}
    /\ pc' = "get" /\ done' = 0 /\ copy' = NoObject
    /\ Wrap(bytes)
    /\ UNCHANGED obj

\* The type decides which object is made and what its readFrom gets.
GetType ==
    /\ pc = "get" /\ done = 0
    /\ Get(1)
    /\ copy' = [type |-> got'.value, fields |-> << >>]
    /\ done' = 1
    /\ UNCHANGED <<pc, obj>>

GetField ==
    /\ pc = "get" /\ done > 0 /\ copy.type \in Types
    /\ done <= FieldsOf[copy.type]
    /\ Get(2)
    /\ copy' = [copy EXCEPT !.fields = Append(@, got'.value)]
    /\ done' = done + 1
    /\ UNCHANGED <<pc, obj>>

EndDeserialize ==
    /\ pc = "get" /\ done > 0 /\ copy.type \in Types
    /\ done = FieldsOf[copy.type] + 1
    /\ pc' = "read"
    /\ UNCHANGED <<buffer, obj, done, copy>>

Step ==
    \/ PutNext \/ GrowBuffer \/ FlipStored
    \/ GetType \/ GetField \/ EndDeserialize

SerialNext ==
    \/ \E o \in Storable : Serialize(o)
    \/ Deserialize \/ OtherUse
    \/ Step

\* A call runs to its end on the caller's thread.
SerialSpec == SerialInit /\ [][SerialNext]_serialVars /\ WF_serialVars(Step)

-----------------------------------------------------------------------------

SerialTypeOK ==
    /\ BufferTypeOK
    /\ pc \in {"idle", "put", "grow", "stored", "get", "read"}
    /\ obj \in Storable \cup {NoObject}
    /\ done \in Nat

\* An object is read back as it was written, whatever it took to find room
\* for it and whatever was in the array before; and neither function runs into
\* an assertion of the buffer.
ReadsBack ==
    /\ SerialTypeOK
    /\ pc \in {"get", "read"} /\ done > 0 => copy.type = obj.type
    /\ pc = "read" => copy = obj
    /\ pc # "idle" => outcome # "asserted"

\* An object that does not fit is not retried forever.
Serialized == pc = "put" ~> pc = "stored"
=============================================================================
