----------------------------- MODULE ByteBuffer -----------------------------
(***************************************************************************)
(* ByteBuffer: a cursor over an array of bytes, with a limit and a mark,   *)
(* through which spatial objects are serialized.                           *)
(*                                                                         *)
(* A cell is four bytes, so a 32-bit value takes one cell and a 64-bit     *)
(* value or a double takes two.  A cell holds a part of the value last put *)
(* there.  A failed call throws; a caller whose call fails an assertion    *)
(* gives the buffer up, and may wrap the same array in a new one.          *)
(***************************************************************************)
EXTENDS Integers, Sequences

CONSTANTS
    InitialSize,    \* of the array, in cells
    Values,         \* what is put into the buffer
    Junk            \* a cell that was never written

ASSUME InitialSizeAssumption == InitialSize \in Nat \ {0}

VARIABLES
    bytes,      \* the array, _start[0 .. _end - _start - 1]
    position,   \* _position - _start
    limit,      \* _limit - _start
    mark,       \* _mark - _start
    outcome,    \* how the last call ended
    got         \* what the last call delivered, and where it read that

buffer == <<bytes, position, limit, mark, outcome, got>>

Width == {1, 2}
Stored == Values \cup {"pointer"}
NoMark == -1
Nothing == [value |-> "nothing", at |-> 0, width |-> 0]
Delivered(v, w) == [value |-> v, at |-> position, width |-> w]

End == Len(bytes)

\* The conditions that checkState asserts.
MarkBehindPosition == mark = NoMark \/ mark <= position
PositionWithinLimit == position <= limit /\ limit <= End

\* The end of a call: checkState, after everything has been changed.
CheckState ==
    outcome' = IF MarkBehindPosition' /\ PositionWithinLimit' THEN "ok" ELSE "asserted"

\* maintainMark, for a buffer that is going to be at p with limit l.
MaintainedMark(p, l) == IF p < mark \/ l < mark THEN NoMark ELSE mark

InitBuffer ==
    /\ bytes = [k \in 1..InitialSize |-> Junk]
    /\ position = 0 /\ limit = InitialSize /\ mark = NoMark
    /\ outcome = "ok" /\ got = Nothing

\* The constructor.
Wrap(array) ==
    /\ bytes' = array
    /\ position' = 0 /\ limit' = Len(array) /\ mark' = NoMark
    /\ outcome' = "ok" /\ got' = Nothing

-----------------------------------------------------------------------------

\* A call on a buffer that has failed no assertion.
Call == outcome # "asserted"

\* A call that throws before it changes anything.
Throws(exception) ==
    /\ outcome' = exception /\ got' = Nothing
    /\ UNCHANGED <<bytes, position, limit, mark>>

\* The array after v has been put at the position.
Written(v, w) ==
    [k \in 1..End |-> IF k \in (position + 1)..(position + w)
                      THEN <<v, w, k - position>> ELSE bytes[k]]

\* putInt32, putUint32 (one cell), putInt64, putUint64 and putDouble (two).
Put(v, w) ==
    /\ Call
    /\ \/ /\ position + w > End
          /\ Throws("overflow")
       \/ /\ position + w <= End
          /\ bytes' = Written(v, w) /\ position' = position + w
          /\ got' = Nothing /\ UNCHANGED <<limit, mark>>
          /\ CheckState

\* putBytes copies its pointer parameter and not what it points to.  (More
\* than two cells would read beyond the parameter.)
PutBytes(w) == Put("pointer", w)

\* The value of w cells that starts at the position: garbage unless one value
\* of that width was put there and not overwritten.
ValueHere(w) ==
    IF \E v \in Stored : \A k \in 1..w : bytes[position + k] = <<v, w, k>>
    THEN bytes[position + 1][1] ELSE "garbage"

\* Reading w cells and delivering d of them.
Take(w, d) ==
    /\ Call
    /\ \/ /\ position + w > End
          /\ Throws("underflow")
       \/ /\ position + w <= End
          /\ position' = position + w
          /\ got' = Delivered(d, w)
          /\ UNCHANGED <<bytes, limit, mark>>
          /\ CheckState

\* Mutant of Get: the state is not checked.
GetUnchecked(w) ==
    /\ Call
    /\ position + w <= End
    /\ position' = position + w /\ got' = Delivered(ValueHere(w), w) /\ outcome' = "ok"
    /\ UNCHANGED <<bytes, limit, mark>>

Get(w) == Take(w, IF position + w <= End THEN ValueHere(w) ELSE "nothing")

\* getBytes copies over its pointer parameter and not to what it points to:
\* the caller's array stays as it is.  (More than two cells would run over
\* the parameter.)
GetBytes(w) == Take(w, "untouched")

\* A call that only moves the cursor.
Moves(p, l, m) ==
    /\ Call
    /\ position' = p /\ limit' = l /\ mark' = m
    /\ got' = Nothing /\ UNCHANGED bytes
    /\ CheckState

\* copyTo copies to the end of the array, not to the limit.
CopyTo ==
    /\ Call
    /\ position' = End /\ mark' = MaintainedMark(End, limit)
    /\ got' = Delivered("copy", End - position)
    /\ UNCHANGED <<bytes, limit>>
    /\ CheckState

Clear == Moves(0, End, mark)
Flip == Moves(0, position, mark)
SetLimit(l) == Moves(position, l, MaintainedMark(position, l))
SetPosition(p) == Moves(p, limit, MaintainedMark(p, limit))
Rewind == Moves(0, limit, MaintainedMark(0, limit))
Mark == Moves(position, limit, position)

\* The mark is asserted to be set before anything is changed.
Reset ==
    \/ mark # NoMark /\ Moves(mark, limit, mark)
    \/ mark = NoMark /\ Call /\ Throws("asserted")

-----------------------------------------------------------------------------

\* Any call on the buffer, or a new buffer over the same array.
AnyCall(values) ==
    \/ \E w \in Width : Get(w) \/ GetBytes(w) \/ PutBytes(w) \/ \E v \in values : Put(v, w)
    \/ CopyTo \/ Clear \/ Flip \/ Rewind \/ Mark \/ Reset
    \/ \E p \in 0..End : SetLimit(p) \/ SetPosition(p)
    \/ Wrap(bytes)

-----------------------------------------------------------------------------

BufferTypeOK ==
    /\ \A k \in 1..End : bytes[k] = Junk \/ bytes[k] \in Stored \X Width \X Width
    /\ {position, limit} \subseteq 0..End
    /\ mark \in {NoMark} \cup 0..End
    /\ outcome \in {"ok", "overflow", "underflow", "asserted"}

\* What lies beyond the limit, left there by an earlier use of the array, is
\* never delivered by a call that succeeds: the sizes are checked against the
\* end of the array, and only checkState knows of the limit.
NothingBeyondLimit == outcome = "ok" => got.at + got.width <= limit
=============================================================================
