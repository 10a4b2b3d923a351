--------------------------- MODULE RegionTraffic ---------------------------
(***************************************************************************)
(* The way of the Region objects between the session's pool, the hands of  *)
(* Space::decompose and its queue.  decompose takes regions from the pool, *)
(* queues them by pointer, takes them from the queue again, and returns    *)
(* them to the pool or queues them once more; this client does so in any   *)
(* order.                                                                  *)
(***************************************************************************)
EXTENDS RegionPool, RegionQueue

CONSTANT MaxCapacity        \* the bound on the growth of the pool

\* The pool grows at most once, so that the deleted array and the current one
\* were allocated at the same time and are apart.
ASSUME MaxCapacityAssumption ==
    /\ MaxCapacity \in InitialCapacity..(4 * InitialCapacity - 1)
    /\ Items = {0, 1} \X (0..(MaxCapacity - 1))

VARIABLES
    pool,       \* the RegionPool object
    queue,      \* the RegionQueue object
    hand,       \* the Region*s that the client holds outside the queue
    taken,      \* the Region* that the last take from the queue returned
    peak        \* the most regions the client has held at once

vars == <<pool, queue, hand, taken, peak>>

Queued == {Contents(queue)[n] : n \in 1..queue.size}
Held == hand \cup Queued

Init ==
    /\ pool = NewPool
    /\ queue \in NewQueues
    /\ hand = {} /\ taken = None /\ peak = 0

TakeRegion ==
    /\ Free(pool) # {} \/ 2 * pool.capacity <= MaxCapacity
    /\ \E t \in Taken(pool) :
          /\ pool' = t.pool
          /\ hand' = hand \cup {t.region}
    /\ peak' = IF Cardinality(hand) + queue.size + 1 > peak
               THEN Cardinality(hand) + queue.size + 1 ELSE peak
    /\ UNCHANGED <<queue, taken>>

\* RegionQueue::add.  A call that would fail the size assertion throws and
\* changes nothing.
Add(r) ==
    /\ CanAdd(queue)
    /\ queue' = Added(queue, r)
    /\ hand' = hand \ {r}
    /\ UNCHANGED <<pool, taken, peak>>

\* RegionQueue::take
Take ==
    /\ queue.size > 0
    /\ taken' = First(queue)
    /\ queue' = Rest(queue)
    /\ hand' = hand \cup {First(queue)}
    /\ UNCHANGED <<pool, peak>>

ReturnRegion(r) ==
    /\ InArray(pool, r)
    /\ pool' = Returned(pool, r)
    /\ hand' = hand \ {r}
    /\ UNCHANGED <<queue, taken, peak>>

\* The pointer is into a deleted array: an assertion throws, and the client
\* has lost its region.
ReturnDangling(r) ==
    /\ ~InArray(pool, r)
    /\ hand' = hand \ {r}
    /\ UNCHANGED <<pool, queue, taken, peak>>

Next ==
    \/ TakeRegion \/ Take
    \/ \E r \in hand : Add(r) \/ ReturnRegion(r) \/ ReturnDangling(r)

Spec == Init /\ [][Next]_vars

-----------------------------------------------------------------------------

QueueTypeOK ==
    /\ queue \in [slots : [Slots -> Items \cup {None}], front : Nat, back : Nat,
                  size : 0..Capacity]
    /\ queue.size > 0 => queue.front \in Slots /\ queue.back \in Slots
    /\ taken \in Items \cup {None}

PoolTypeOK ==
    /\ pool \in [array : {0, 1}, capacity : InitialCapacity..MaxCapacity,
                 free : UNION {[0..(c - 1) -> BOOLEAN] : c \in 1..MaxCapacity}]
    /\ DOMAIN pool.free = 0..(pool.capacity - 1)
    /\ pool.capacity = IF pool.array = 0 THEN InitialCapacity ELSE 2 * InitialCapacity
    /\ hand \subseteq Items
    /\ peak \in Nat

\* The two positions and the size agree: the next item goes right behind the
\* last one, even after the positions have wrapped around or started again.
PositionsAgree ==
    /\ QueueTypeOK
    /\ queue.size > 0 =>
        queue.back = (queue.front + queue.size) % (Capacity + 1)

\* A region has one place: it is queued once or in the client's hands, so
\* that nobody moves or returns a region that is still queued.
OnePlace ==
    /\ \A m, n \in 1..queue.size : Contents(queue)[m] = Contents(queue)[n] => m = n
    /\ hand \cap Queued = {}

\* A region is handed out to one holder at a time: no flag of a held region
\* of the current array says free, whatever the uninitialised flags hold.
HeldIsNotFree ==
    /\ PoolTypeOK
    /\ OnePlace
    /\ \A r \in Held : InArray(pool, r) => ~pool.free[r[2]]

\* As long as the client never held more regions at once than the initial
\* capacity, every region it holds is in the current array, and the regions
\* in use are exactly those it holds.
ExactWithinCapacity ==
    peak <= InitialCapacity =>
        /\ \A r \in Held : InArray(pool, r)
        /\ {r[2] : r \in Held} = (0..(pool.capacity - 1)) \ Free(pool)

\* The ring buffer is a first-in first-out queue of at most Capacity items.
Abstract == INSTANCE Fifo WITH items <- Contents(queue)
IsFifo == Abstract!Spec
=============================================================================
