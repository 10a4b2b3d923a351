-------------------------------- MODULE Fifo --------------------------------
(***************************************************************************)
(* What RegionQueue promises: a first-in first-out queue that holds at     *)
(* most Capacity items.                                                    *)
(***************************************************************************)
EXTENDS Naturals, Sequences

CONSTANTS
    Items,      \* what is queued
    Capacity,   \* the most items held at once
    None        \* nothing taken yet

VARIABLES
    items,      \* the queued items, oldest first
    taken       \* the item the last take returned

Init == items = << >> /\ taken = None

Add(x) ==
    /\ Len(items) < Capacity
    /\ items' = Append(items, x)
    /\ UNCHANGED taken

Take ==
    /\ items # << >>
    /\ items' = Tail(items)
    /\ taken' = Head(items)

Next == Take \/ \E x \in Items : Add(x)

Spec == Init /\ [][Next]_<<items, taken>>
=============================================================================
