--------------------------- MODULE OrderedCursor ---------------------------
(***************************************************************************)
(* What an OrderedIndex and its Cursor promise, as Cursor.h and            *)
(* OrderedIndex.h put it: next and previous move through the keys of the   *)
(* index in order, in either direction, from a start key that is itself    *)
(* included, until they run off an end.                                    *)
(*                                                                         *)
(* The headers do not say what a cursor delivers when the index has        *)
(* changed since it was opened, or was not frozen.  This is as much as     *)
(* RecordArray keeps: a search or removal that needs the order finds       *)
(* anything or nothing while the index is not frozen; a cursor in use      *)
(* loses its place when a key is removed at or behind it going forward, or *)
(* ahead of it going back, and when freeze has something to sort, until it *)
(* has retrieved once more.                                                *)
(***************************************************************************)
EXTENDS Integers, FiniteSets

CONSTANTS
    Keys,       \* the keys (z, soid) of records, as integers in their order
    Least,      \* the key a new cursor starts at, before all others
    EOF         \* no record

VARIABLES
    keys,       \* the keys in the index
    frozen,     \* no key was added before another since the last freeze
    state,      \* CursorState, or "none" without a cursor
    startAt,    \* the key that goTo was given, or the last one retrieved
    forward,    \* whether the last retrieval was next, not previous
    current,    \* the record last retrieved
    stale       \* the cursor has lost its place

vars == <<keys, frozen, state, startAt, forward, current, stale>>
cursor == <<state, startAt, forward, current>>

Init ==
    /\ keys = {} /\ frozen = TRUE
    /\ state = "none" /\ startAt = Least
    /\ forward = TRUE /\ current = EOF /\ stale = FALSE

\* A change at k moves the records that the cursor has still to come to.
Displaces(k) == state = "IN_USE" /\ IF forward THEN k <= startAt ELSE k < startAt

Add(k) ==
    /\ k \notin keys
    /\ keys' = keys \cup {k}
    /\ frozen' = (frozen /\ \A l \in keys : l < k)
    /\ stale' = (stale \/ Displaces(k))
    /\ UNCHANGED cursor

Remove(k) ==
    /\ \E found \in BOOLEAN :
          /\ found => k \in keys
          /\ frozen => (found <=> k \in keys)
          /\ keys' = IF found THEN keys \ {k} ELSE keys
          /\ stale' = (stale \/ (found /\ Displaces(k)))
    /\ UNCHANGED <<frozen, cursor>>

Freeze ==
    /\ frozen' = TRUE
    /\ stale' = (stale \/ (state = "IN_USE" /\ ~frozen))
    /\ UNCHANGED <<keys, cursor>>

Open ==
    /\ state = "none"
    /\ state' = "NEVER_USED" /\ startAt' = Least
    /\ forward' = TRUE /\ current' = EOF
    /\ UNCHANGED <<keys, frozen, stale>>

GoTo(k) ==
    /\ state # "none"
    /\ state' = "NEVER_USED" /\ startAt' = k /\ stale' = FALSE
    /\ UNCHANGED <<keys, frozen, forward, current>>

\* The keys that lie ahead.
Ahead(forwardMove) ==
    {k \in keys : \/ IF forwardMove THEN k > startAt ELSE k < startAt
                  \/ state = "NEVER_USED" /\ k = startAt}

\* What the cursor may deliver: the nearest key ahead; any, or the end, when
\* the index is not frozen or the cursor has lost its place and goes on.
Nearest(forwardMove) ==
    {k \in Ahead(forwardMove) :
        \A l \in Ahead(forwardMove) : IF forwardMove THEN k <= l ELSE k >= l}

Deliverable(forwardMove) ==
    IF ~frozen \/ (stale /\ forward = forwardMove) THEN keys \cup {EOF}
    ELSE IF Ahead(forwardMove) = {} THEN {EOF}
    ELSE Nearest(forwardMove)

\* A cursor that has run off one end stays there.
Retrieve(forwardMove) ==
    /\ state \in {"NEVER_USED", "IN_USE"}
    /\ \E k \in Deliverable(forwardMove) :
          /\ state' = IF k = EOF THEN "DONE" ELSE "IN_USE"
          /\ startAt' = IF k = EOF THEN startAt ELSE k
          /\ current' = k
    /\ forward' = forwardMove /\ stale' = FALSE
    /\ UNCHANGED <<keys, frozen>>

Close ==
    /\ state # "none"
    /\ state' = "DONE" /\ current' = EOF /\ stale' = FALSE
    /\ UNCHANGED <<keys, frozen, startAt, forward>>

Delete ==
    /\ state # "none"
    /\ state' = "none" /\ startAt' = Least
    /\ forward' = TRUE /\ current' = EOF /\ stale' = FALSE
    /\ UNCHANGED <<keys, frozen>>

\* The index is deleted and another one is made.
Renew ==
    /\ state = "none"
    /\ keys' = {} /\ frozen' = TRUE
    /\ UNCHANGED <<cursor, stale>>

Next ==
    \/ \E k \in Keys : Add(k) \/ Remove(k)
    \/ Freeze \/ Open \/ Close \/ Delete \/ Renew
    \/ \E k \in Keys \cup {Least} : GoTo(k)
    \/ \E forwardMove \in BOOLEAN : Retrieve(forwardMove)

Spec == Init /\ [][Next]_vars
=============================================================================
