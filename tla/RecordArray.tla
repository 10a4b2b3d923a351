---------------------------- MODULE RecordArray ----------------------------
(***************************************************************************)
(* RecordArray and RecordArrayCursor, the OrderedIndex of the tests and    *)
(* examples: an array of records that freeze sorts, binary search, and a   *)
(* cursor that holds a position in the array.  The array's growth is left  *)
(* out: it is that of module ZArray.                                       *)
(*                                                                         *)
(* A record is its key (z, soid), an integer; no key is added twice, as no *)
(* object has a z-value twice.  Positions count from 0, as in the code.    *)
(* Clients may change the index while a cursor is open, and search it and  *)
(* remove from it before they freeze it.                                   *)
(***************************************************************************)
EXTENDS Integers, Sequences, SequencesExt, Sorting

CONSTANTS Keys, Least, EOF

ASSUME KeysAssumption ==
    /\ Keys \subseteq Int /\ Least \in Int
    /\ \A k \in Keys : Least < k
    /\ EOF \notin Keys

VARIABLES
    records,    \* _records[0 .. _n-1]
    frozen,     \* no key was added before another since the last freeze
    state,      \* Cursor::_state, or "none" without a cursor
    position,   \* _position
    startAt,    \* _start_at
    forward,    \* _forward
    current,    \* Cursor::_current
    stale       \* the cursor has lost its place, see OrderedCursor

vars == <<records, frozen, state, position, startAt, forward, current, stale>>
cursor == <<state, position, startAt, forward, current>>

Init ==
    /\ records = << >> /\ frozen = TRUE
    /\ state = "none" /\ position = 0 /\ startAt = Least
    /\ forward = TRUE /\ current = EOF /\ stale = FALSE

n == Len(records)
At(p) == records[p + 1]

\* The binary search of position: where the key was found, or the lo with
\* which the search ended.
Found(key) ==
    LET search[r \in (0..n) \X (-1..(n - 1))] ==
            LET lo == r[1]
                hi == r[2]
                mid == (lo + hi) \div 2
            IN  IF lo > hi THEN [found |-> FALSE, at |-> lo]
                ELSE IF At(mid) < key THEN search[<<mid + 1, hi>>]
                ELSE IF At(mid) > key THEN search[<<lo, mid - 1>>]
                ELSE [found |-> TRUE, at |-> mid]
    IN  search[<<0, n - 1>>]

\* Mutant of Position: the direction is ignored when the key is missing.
PositionFromMissing(key, forwardMove, includeKey) ==
    LET f == Found(key)
    IN  IF f.found
        THEN IF includeKey THEN f.at
             ELSE IF forwardMove THEN f.at + 1 ELSE f.at - 1
        ELSE f.at

Position(key, forwardMove, includeKey) ==
    LET f == Found(key)
    IN  IF f.found
        THEN IF includeKey THEN f.at
             ELSE IF forwardMove THEN f.at + 1 ELSE f.at - 1
        ELSE IF forwardMove THEN f.at ELSE f.at - 1

Displaces(k) == state = "IN_USE" /\ IF forward THEN k <= startAt ELSE k < startAt

Add(k) ==
    /\ k \notin Range(records)
    /\ records' = Append(records, k)
    /\ frozen' = (frozen /\ \A l \in Range(records) : l < k)
    /\ stale' = (stale \/ Displaces(k))
    /\ UNCHANGED cursor

\* remove would return a reference, not an empty one.
Removable(k) ==
    LET p == Position(k, TRUE, TRUE)
    IN  p < n /\ At(p) = k

\* Mutant of RemoveKey: the last record takes the place of the removed one.
RemoveSwapLast(k) ==
    /\ records' = IF Removable(k)
                  THEN Front([records EXCEPT ![Position(k, TRUE, TRUE) + 1] = Last(records)])
                  ELSE records
    /\ stale' = (stale \/ (Removable(k) /\ Displaces(k)))
    /\ UNCHANGED <<frozen, cursor>>

\* Mutant of RemoveKey: the record behind the one found goes.
RemoveFollowing(k) ==
    /\ records' = IF Removable(k)
                  THEN RemoveAt(records, Min({Position(k, TRUE, TRUE) + 2, n}))
                  ELSE records
    /\ stale' = (stale \/ (Removable(k) /\ Displaces(k)))
    /\ UNCHANGED <<frozen, cursor>>

\* remove
RemoveKey(k) ==
    /\ records' = IF Removable(k) THEN RemoveAt(records, Position(k, TRUE, TRUE) + 1)
                  ELSE records
    /\ stale' = (stale \/ (Removable(k) /\ Displaces(k)))
    /\ UNCHANGED <<frozen, cursor>>

Freeze ==
    /\ records' = Sorted(Range(records), <)
    /\ frozen' = TRUE
    /\ stale' = (stale \/ (state = "IN_USE" /\ ~frozen))
    /\ UNCHANGED cursor

\* cursor(): a new RecordArrayCursor.
Open ==
    /\ state = "none"
    /\ state' = "NEVER_USED" /\ position' = 0 /\ startAt' = Least
    /\ forward' = TRUE /\ current' = EOF
    /\ UNCHANGED <<records, frozen, stale>>

GoTo(k) ==
    /\ state # "none"
    /\ startAt' = k
    /\ state' = "NEVER_USED"
    /\ stale' = FALSE
    /\ UNCHANGED <<records, frozen, position, forward, current>>

\* Mutant of Start: turning around does not move the cursor.
StartNeverTurns(forwardMove) ==
    IF state = "NEVER_USED" THEN Position(startAt, forwardMove, TRUE) ELSE position

\* The position from which neighbor retrieves: looked up for a cursor that
\* was just positioned, or that turns around.
Start(forwardMove) ==
    IF state = "NEVER_USED" THEN Position(startAt, forwardMove, TRUE)
    ELSE IF forward # forwardMove THEN Position(startAt, forwardMove, FALSE)
    ELSE position

\* What neighbor returns; from a cursor that is DONE, the EOF it holds.
Delivered(forwardMove) ==
    IF state # "DONE" /\ Start(forwardMove) \in 0..(n - 1) THEN At(Start(forwardMove))
    ELSE EOF

\* neighbor: next and previous.
Retrieve(forwardMove) ==
    /\ state # "none"
    /\ current' = Delivered(forwardMove)
    /\ IF current' # EOF
       THEN /\ state' = "IN_USE"
            /\ startAt' = current'
            /\ position' = IF forwardMove THEN Start(forwardMove) + 1
                           ELSE Start(forwardMove) - 1
       ELSE /\ state' = "DONE"
            /\ position' = IF state = "DONE" THEN position ELSE Start(forwardMove)
            /\ UNCHANGED startAt
    /\ forward' = IF state = "DONE" THEN forward ELSE forwardMove
    /\ stale' = FALSE
    /\ UNCHANGED <<records, frozen>>

\* Cursor::close
Close ==
    /\ state # "none"
    /\ state' = "DONE" /\ current' = EOF /\ stale' = FALSE
    /\ UNCHANGED <<records, frozen, position, startAt, forward>>

\* The cursor is deleted.
Delete ==
    /\ state # "none"
    /\ state' = "none" /\ position' = 0 /\ startAt' = Least
    /\ forward' = TRUE /\ current' = EOF /\ stale' = FALSE
    /\ UNCHANGED <<records, frozen>>

\* The index is deleted and another one is made.
Renew ==
    /\ state = "none"
    /\ records' = << >> /\ frozen' = TRUE
    /\ UNCHANGED <<cursor, stale>>

NextOn(ks) ==
    \/ \E k \in ks : Add(k) \/ RemoveKey(k)
    \/ Freeze \/ Open \/ Close \/ Delete \/ Renew
    \/ \E k \in ks \cup {Least} : GoTo(k)
    \/ \E forwardMove \in BOOLEAN : Retrieve(forwardMove)

Next == NextOn(Keys)

Spec == Init /\ [][Next]_vars

-----------------------------------------------------------------------------

TypeOK ==
    /\ records \in Seq(Keys)
    /\ frozen \in BOOLEAN /\ forward \in BOOLEAN /\ stale \in BOOLEAN
    /\ state \in {"none", "NEVER_USED", "IN_USE", "DONE"}
    /\ position \in Int
    /\ startAt \in Keys \cup {Least} /\ current \in Keys \cup {EOF}

\* A frozen index stays in order under removals and ascending adds: the
\* binary search relies on it.
FrozenInOrder ==
    /\ TypeOK
    /\ frozen => \A j, k \in 1..n : j < k => records[j] < records[k]

\* Whatever the calls, however often the cursor turns around, and whatever
\* changes while it is open, the array and its cursor behave like an ordered
\* set of keys and a cursor on it that knows when it has lost its place.
Abstract == INSTANCE OrderedCursor WITH keys <- Range(records)
IsOrderedCursor == Abstract!Spec
=============================================================================
