---------------------------- MODULE RegionQueue ----------------------------
(***************************************************************************)
(* RegionQueue: the ring buffer that holds the regions decompose has still *)
(* to examine.  The array has one slot more than the capacity.  Neither    *)
(* the slots nor the two positions are initialised by the constructor; an  *)
(* add to an empty queue starts again at slot 0.                           *)
(*                                                                         *)
(* The operators are on a queue record q; module RegionTraffic drives one. *)
(***************************************************************************)
EXTENDS Naturals, Sequences

CONSTANTS
    Items,          \* the Region pointers
    Capacity,       \* parameter capacity of the constructor
    None,           \* NULL
    Garbage,        \* what an uninitialised slot may hold
    Indeterminate   \* what an uninitialised position may hold

ASSUME CapacityAssumption == Capacity \in Nat \ {0}
ASSUME IndeterminateAssumption ==
    /\ Indeterminate # {} /\ Indeterminate \subseteq Nat
    /\ Garbage # {} /\ Garbage \subseteq Items \cup {None}
ASSUME NoneAssumption == None \notin Items

Slots == 0..Capacity

\* Mutant of Advance: the array is taken to have Capacity slots.
AdvanceOneShort(p) == (p + 1) % Capacity

Advance(p) == (p + 1) % (Capacity + 1)

\* The queues the constructor may leave.
NewQueues == [slots : [Slots -> Garbage],
              front : Indeterminate, back : Indeterminate, size : {0}]

CanAdd(q) == q.size < Capacity

Added(q, x) ==
    LET f == IF q.size = 0 THEN 0 ELSE q.front
        b == IF q.size = 0 THEN 0 ELSE q.back
    IN  [slots |-> [q.slots EXCEPT ![b] = x],
         front |-> f, back |-> Advance(b), size |-> q.size + 1]

\* Mutant of First: the front position is not followed.
FirstSlot(q) == q.slots[0]

First(q) == q.slots[q.front]

\* The queue after take.
Rest(q) ==
    [slots |-> [q.slots EXCEPT ![q.front] = None],
     front |-> Advance(q.front), back |-> q.back, size |-> q.size - 1]

\* What is queued, oldest first.
Contents(q) ==
    [n \in 1..q.size |-> q.slots[(q.front + n - 1) % (Capacity + 1)]]
=============================================================================
