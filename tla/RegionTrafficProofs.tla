------------------------ MODULE RegionTrafficProofs ------------------------
(***************************************************************************)
(* Proofs about module RegionTraffic, for every capacity of the queue and  *)
(* of the pool, whatever uninitialised memory holds.                       *)
(***************************************************************************)
EXTENDS RegionTraffic, Numbers, FiniteSetTheorems, SequenceTheorems, TLAPS

(***************************************************************************)
(* The ring buffer.                                                        *)
(***************************************************************************)

\* A position that has wrapped around at most once.
LEMMA Wrapped ==
    ASSUME NEW m \in Nat \ {0}, NEW x \in 0..(2 * m - 1)
    PROVE  x % m = IF x < m THEN x ELSE x - m
<1>1. CASE x < m
  BY <1>1
<1>2. CASE x >= m
  <2>1. x - m \in 0..(m - 1)
    BY <1>2
  <2> QED
    BY <1>2, <2>1
<1> QED
  BY <1>1, <1>2

\* The slot of the nth item of a queue whose front is f.
SlotOf(f, n) == IF f + n - 1 <= Capacity THEN f + n - 1 ELSE f + n - 1 - (Capacity + 1)

LEMMA SlotIs ==
    ASSUME NEW f \in Slots, NEW n \in 1..(Capacity + 1)
    PROVE  /\ (f + n - 1) % (Capacity + 1) = SlotOf(f, n)
           /\ SlotOf(f, n) \in Slots
<1> DEFINE m == Capacity + 1
           x == f + n - 1
<1>1. Capacity \in Nat
  BY CapacityAssumption
<1>2. m \in Nat \ {0} /\ x \in 0..(2 * m - 1)
  BY <1>1 DEF Slots
<1>3. x % m = IF x < m THEN x ELSE x - m
  <2> HIDE DEF m, x
  <2> QED
    BY <1>2, Wrapped
<1> QED
  BY <1>1, <1>2, <1>3 DEF SlotOf, Slots

\* RegionQueue::advance goes to the next slot.
LEMMA AdvanceIs ==
    ASSUME NEW p \in Slots
    PROVE  /\ Advance(p) = IF p = Capacity THEN 0 ELSE p + 1
           /\ Advance(p) \in Slots
<1> DEFINE m == Capacity + 1
           x == p + 1
<1>1. Capacity \in Nat
  BY CapacityAssumption
<1>2. m \in Nat \ {0} /\ x \in 0..(2 * m - 1)
  BY <1>1 DEF Slots
<1>3. x % m = IF x < m THEN x ELSE x - m
  <2> HIDE DEF m, x
  <2> QED
    BY <1>2, Wrapped
<1> QED
  BY <1>1, <1>2, <1>3 DEF Advance, Slots

\* A queue record whose positions agree with its size, and which holds items.
Typed(q) == q \in [slots : [Slots -> Items \cup {None}], front : Nat, back : Nat, size : 0..Capacity]

Agreeing(q) ==
    q.size > 0 => q.front \in Slots /\ q.back = SlotOf(q.front, q.size + 1)

Filled(q) == \A n \in 1..q.size : q.slots[SlotOf(q.front, n)] \in Items

GoodQueue(q) == Typed(q) /\ Agreeing(q) /\ Filled(q)

\* The contents of a good queue are a sequence of items, slot by slot.
LEMMA ContentsOfGood ==
    ASSUME NEW q, GoodQueue(q)
    PROVE  /\ Contents(q) \in Seq(Items)
           /\ Len(Contents(q)) = q.size
           /\ \A n \in 1..q.size : Contents(q)[n] = q.slots[SlotOf(q.front, n)]
<1>1. q.size \in 0..Capacity /\ q.size \in Nat /\ Capacity \in Nat
  BY CapacityAssumption DEF GoodQueue, Typed
<1>2. ASSUME NEW n \in 1..q.size
      PROVE  /\ Contents(q)[n] = q.slots[SlotOf(q.front, n)]
             /\ q.slots[SlotOf(q.front, n)] \in Items
  <2>1. q.front \in Slots /\ n \in 1..(Capacity + 1)
    BY <1>1 DEF GoodQueue, Agreeing
  <2>2. (q.front + n - 1) % (Capacity + 1) = SlotOf(q.front, n)
    BY <2>1, SlotIs
  <2>3. Contents(q)[n] = q.slots[(q.front + n - 1) % (Capacity + 1)]
    BY DEF Contents
  <2> QED
    BY <2>2, <2>3 DEF GoodQueue, Filled
<1>3. Contents(q) \in [1..q.size -> Items]
  <2>1. DOMAIN Contents(q) = 1..q.size /\ Contents(q) = [n \in 1..q.size |-> Contents(q)[n]]
    BY DEF Contents
  <2>2. \A n \in 1..q.size : Contents(q)[n] \in Items
    BY <1>2
  <2> QED
    BY <2>1, <2>2
<1>4. Contents(q) \in Seq(Items) /\ Len(Contents(q)) = q.size
  <2> DEFINE s == Contents(q)
             k == q.size
  <2> HIDE DEF s, k
  <2>1. s \in [1..k -> Items] /\ k \in Nat
    BY <1>1, <1>3 DEF s, k
  <2>2. s \in Seq(Items) /\ Len(s) = k
    BY ONLY <2>1
  <2> QED
    BY <2>2 DEF s, k
<1> QED
  BY <1>2, <1>4

\* Two items of a queue, or an item and the next free slot, have two slots.
LEMMA SlotsDiffer ==
    ASSUME NEW f \in Slots, NEW m \in 1..(Capacity + 1), NEW n \in 1..(Capacity + 1), m # n
    PROVE  SlotOf(f, m) # SlotOf(f, n)
  BY CapacityAssumption DEF SlotOf, Slots

\* RegionQueue::add.
LEMMA AddedContents ==
    ASSUME NEW q, GoodQueue(q), CanAdd(q), NEW x \in Items
    PROVE  /\ GoodQueue(Added(q, x))
           /\ Contents(Added(q, x)) = Append(Contents(q), x)
<1> DEFINE f == IF q.size = 0 THEN 0 ELSE q.front
           b == IF q.size = 0 THEN 0 ELSE q.back
           k == q.size
           slots == q.slots
           p == Added(q, x)
<1>1. /\ k \in Nat /\ k < Capacity /\ Capacity \in Nat
      /\ slots \in [Slots -> Items \cup {None}]
  BY CapacityAssumption DEF GoodQueue, Typed, CanAdd
<1>2. f \in Slots /\ b = SlotOf(f, k + 1)
  BY <1>1 DEF GoodQueue, Agreeing, SlotOf, Slots
<1>3. \A n \in 1..k : slots[SlotOf(f, n)] \in Items
  BY <1>1 DEF GoodQueue, Filled
<1>4. /\ p.slots = [slots EXCEPT ![b] = x] /\ p.front = f /\ p.back = Advance(b) /\ p.size = k + 1
      /\ p = [slots |-> p.slots, front |-> p.front, back |-> p.back, size |-> p.size]
  BY DEF Added
<1> HIDE DEF f, b, k, slots, p
<1>5. b \in Slots
  BY <1>1, <1>2, SlotIs
<1>6. Advance(b) = SlotOf(f, k + 2) /\ Advance(b) \in Slots
  <2>1. /\ Advance(b) = IF b = Capacity THEN 0 ELSE b + 1
        /\ Advance(b) \in Slots
    BY <1>5, AdvanceIs
  <2> QED
    BY <1>1, <1>2, <2>1 DEF SlotOf, Slots
<1>7. p.slots \in [Slots -> Items \cup {None}]
  BY <1>1, <1>4, <1>5
<1>8. Typed(p)
  <2>1. p.front \in Nat /\ p.back \in Nat /\ p.size \in 0..Capacity
    BY <1>1, <1>2, <1>4, <1>6 DEF Slots
  <2> QED
    BY <1>4, <1>7, <2>1 DEF Typed
<1>9. Agreeing(p)
  <2>1. p.size + 1 = k + 2
    BY <1>1, <1>4
  <2> QED
    BY <1>2, <1>4, <1>6, <2>1 DEF Agreeing
<1>10. /\ \A n \in 1..k : p.slots[SlotOf(f, n)] = slots[SlotOf(f, n)]
       /\ p.slots[SlotOf(f, k + 1)] = x
  <2>1. ASSUME NEW n \in 1..k
        PROVE  SlotOf(f, n) \in Slots /\ SlotOf(f, n) # b
    <3>1. n \in 1..(Capacity + 1) /\ k + 1 \in 1..(Capacity + 1) /\ n # k + 1
      BY <1>1
    <3> QED
      BY <1>2, <3>1, SlotIs, SlotsDiffer
  <2> QED
    BY <1>1, <1>2, <1>4, <1>5, <2>1
<1>11. Filled(p)
  <2>1. \A n \in 1..(k + 1) : n \in 1..k \/ n = k + 1
    BY <1>1
  <2> QED
    BY <1>3, <1>4, <1>10, <2>1 DEF Filled
<1>12. GoodQueue(p)
  BY <1>8, <1>9, <1>11 DEF GoodQueue
<1>13. /\ Contents(p) \in Seq(Items) /\ Len(Contents(p)) = k + 1
       /\ \A n \in 1..(k + 1) : Contents(p)[n] = p.slots[SlotOf(f, n)]
  BY <1>4, <1>12, ContentsOfGood
<1>14. /\ Contents(q) \in Seq(Items) /\ Len(Contents(q)) = k
       /\ \A n \in 1..k : Contents(q)[n] = slots[SlotOf(f, n)]
  <2>1. /\ Contents(q) \in Seq(Items) /\ Len(Contents(q)) = q.size
        /\ \A n \in 1..q.size : Contents(q)[n] = q.slots[SlotOf(q.front, n)]
    BY ContentsOfGood
  <2>2. \A n \in 1..q.size : q.front = f
    BY <1>1 DEF f, k
  <2> QED
    BY <2>1, <2>2 DEF k, slots
<1>15. Contents(p) = Append(Contents(q), x)
  <2> DEFINE s == Contents(p)
             t == Contents(q)
  <2>1. /\ s \in Seq(Items) /\ t \in Seq(Items) /\ Len(s) = k + 1 /\ Len(t) = k
        /\ \A n \in 1..k : s[n] = t[n]
        /\ s[k + 1] = x
    <3>1. \A n \in 1..k : n \in 1..(k + 1)
      BY <1>1
    <3>2. k + 1 \in 1..(k + 1)
      BY <1>1
    <3> QED
      BY <1>10, <1>13, <1>14, <3>1, <3>2
  <2> HIDE DEF s, t
  <2>2. s = Append(t, x)
    <3>1. /\ Append(t, x) \in Seq(Items) /\ Len(Append(t, x)) = k + 1
          /\ \A n \in 1..(k + 1) : Append(t, x)[n] = IF n <= k THEN t[n] ELSE x
      BY <1>1, <2>1, AppendProperties
    <3>2. \A n \in 1..Len(s) : s[n] = Append(t, x)[n]
      BY ONLY <1>1, <2>1, <3>1
    <3>3. Len(s) = Len(Append(t, x))
      BY <2>1, <3>1
    <3> QED
      BY <2>1, <3>1, <3>2, <3>3, SeqEqual
  <2> QED
    BY <2>2 DEF s, t
<1> QED
  BY <1>12, <1>15 DEF p

\* RegionQueue::take.
LEMMA RestContents ==
    ASSUME NEW q, GoodQueue(q), q.size > 0
    PROVE  /\ GoodQueue(Rest(q))
           /\ Contents(q) # << >>
           /\ First(q) = Head(Contents(q))
           /\ First(q) = Contents(q)[1]
           /\ First(q) \in Items
           /\ Rest(q).size = q.size - 1
           /\ Contents(Rest(q)) = Tail(Contents(q))
<1> DEFINE f == q.front
           k == q.size
           slots == q.slots
           p == Rest(q)
<1>1. /\ k \in Nat /\ k > 0 /\ k <= Capacity /\ Capacity \in Nat
      /\ slots \in [Slots -> Items \cup {None}]
      /\ f \in Slots /\ q.back = SlotOf(f, k + 1) /\ q.back \in Nat
  BY CapacityAssumption DEF GoodQueue, Typed, Agreeing
<1>2. \A n \in 1..k : slots[SlotOf(f, n)] \in Items
  BY DEF GoodQueue, Filled
<1>3. /\ p.slots = [slots EXCEPT ![f] = None] /\ p.front = Advance(f) /\ p.back = q.back
      /\ p.size = k - 1
      /\ p = [slots |-> p.slots, front |-> p.front, back |-> p.back, size |-> p.size]
  BY DEF Rest
<1>4. /\ Contents(q) \in Seq(Items) /\ Len(Contents(q)) = k
      /\ \A n \in 1..k : Contents(q)[n] = slots[SlotOf(f, n)]
  BY ContentsOfGood
<1>5. First(q) = slots[f]
  BY DEF First
<1> HIDE DEF f, k, slots, p
<1>6. SlotOf(f, 1) = f
  BY <1>1 DEF SlotOf, Slots
<1>7. /\ Advance(f) \in Slots
      /\ \A n \in 1..Capacity : SlotOf(Advance(f), n) = SlotOf(f, n + 1)
  <2>1. /\ Advance(f) = IF f = Capacity THEN 0 ELSE f + 1
        /\ Advance(f) \in Slots
    BY <1>1, AdvanceIs
  <2> QED
    BY <1>1, <2>1 DEF SlotOf, Slots
<1>8. Typed(p)
  <2>1. p.slots \in [Slots -> Items \cup {None}]
    BY <1>1, <1>3
  <2>2. p.front \in Nat /\ p.back \in Nat /\ p.size \in 0..Capacity
    BY <1>1, <1>3, <1>7 DEF Slots
  <2> QED
    BY <1>3, <2>1, <2>2 DEF Typed
<1>9. Agreeing(p)
  <2>1. SlotOf(Advance(f), k) = SlotOf(f, k + 1) /\ p.size + 1 = k
    BY <1>1, <1>3, <1>7
  <2> QED
    BY <1>1, <1>3, <1>7, <2>1 DEF Agreeing
<1>10. \A n \in 1..(k - 1) :
          /\ SlotOf(Advance(f), n) = SlotOf(f, n + 1)
          /\ p.slots[SlotOf(Advance(f), n)] = slots[SlotOf(f, n + 1)]
  <2> SUFFICES ASSUME NEW n \in 1..(k - 1)
               PROVE  /\ SlotOf(Advance(f), n) = SlotOf(f, n + 1)
                      /\ p.slots[SlotOf(f, n + 1)] = slots[SlotOf(f, n + 1)]
    OBVIOUS
  <2>1. n \in 1..Capacity /\ n + 1 \in 1..(Capacity + 1) /\ 1 \in 1..(Capacity + 1) /\ n + 1 # 1
    BY <1>1
  <2>2. SlotOf(f, n + 1) \in Slots
    BY <1>1, <2>1, SlotIs
  <2>3. SlotOf(f, n + 1) # SlotOf(f, 1)
    BY <1>1, <2>1, SlotsDiffer
  <2> QED
    BY <1>1, <1>3, <1>6, <1>7, <2>1, <2>2, <2>3
<1>11. Filled(p)
  <2>1. \A n \in 1..(k - 1) : n + 1 \in 1..k
    BY <1>1
  <2> QED
    BY <1>2, <1>3, <1>10, <2>1 DEF Filled
<1>12. GoodQueue(p)
  BY <1>8, <1>9, <1>11 DEF GoodQueue
<1>13. /\ Contents(p) \in Seq(Items) /\ Len(Contents(p)) = k - 1
       /\ \A n \in 1..(k - 1) : Contents(p)[n] = p.slots[SlotOf(Advance(f), n)]
  <2>1. /\ Contents(p) \in Seq(Items) /\ Len(Contents(p)) = p.size
        /\ \A n \in 1..p.size : Contents(p)[n] = p.slots[SlotOf(p.front, n)]
    BY <1>12, ContentsOfGood
  <2> QED
    BY <1>3, <2>1
<1>14. First(q) = Contents(q)[1] /\ First(q) \in Items
  <2>1. 1 \in 1..k
    BY <1>1
  <2> QED
    BY <1>2, <1>4, <1>5, <1>6, <2>1
<1>15. Contents(q) # << >> /\ Contents(p) = Tail(Contents(q)) /\ First(q) = Head(Contents(q))
  <2> DEFINE s == Contents(p)
             t == Contents(q)
             x == First(q)
  <2>1. /\ s \in Seq(Items) /\ t \in Seq(Items) /\ Len(s) = k - 1 /\ Len(t) = k
        /\ \A n \in 1..(k - 1) : s[n] = t[n + 1]
        /\ t[1] = x
    <3>1. \A n \in 1..(k - 1) : n + 1 \in 1..k
      BY <1>1
    <3> QED
      BY <1>4, <1>10, <1>13, <1>14, <3>1
  <2> HIDE DEF s, t, x
  <2>2. t # << >>
    BY <1>1, <2>1, EmptySeq
  <2>3. /\ Tail(t) \in Seq(Items) /\ Len(Tail(t)) = k - 1
        /\ \A n \in 1..(k - 1) : Tail(t)[n] = t[n + 1]
    BY <2>1, <2>2, HeadTailProperties
  <2>4. s = Tail(t)
    BY <2>1, <2>3, SeqEqual
  <2>5. Head(t) = x
    BY ONLY <2>1, <2>2
  <2> QED
    BY <2>2, <2>4, <2>5 DEF s, t, x
<1> QED
  BY <1>3, <1>12, <1>14, <1>15 DEF p, k

\* The constructor.
LEMMA NewContents ==
    ASSUME NEW q \in NewQueues
    PROVE  /\ GoodQueue(q) /\ q.size = 0
           /\ Contents(q) = << >>
<1>1. q.size = 0 /\ q.front \in Nat /\ q.back \in Nat /\ q.slots \in [Slots -> Items \cup {None}]
  BY IndeterminateAssumption DEF NewQueues
<1>2. Typed(q)
  <2>1. q = [slots |-> q.slots, front |-> q.front, back |-> q.back, size |-> q.size]
    BY DEF NewQueues
  <2>2. 0 \in 0..Capacity
    BY CapacityAssumption
  <2> QED
    BY <1>1, <2>1, <2>2 DEF Typed
<1>3. GoodQueue(q)
  BY <1>1, <1>2 DEF GoodQueue, Agreeing, Filled
<1>4. Contents(q) \in Seq(Items) /\ Len(Contents(q)) = 0
  BY <1>1, <1>3, ContentsOfGood
<1> QED
  BY <1>1, <1>3, <1>4, EmptySeq

(***************************************************************************)
(* The pool.                                                               *)
(***************************************************************************)

\* A pool that has grown at most once.
PoolTyped(p) ==
    /\ p = [array |-> p.array, capacity |-> p.capacity, free |-> p.free]
    /\ p.array \in {0, 1}
    /\ p.capacity = IF p.array = 0 THEN InitialCapacity ELSE 2 * InitialCapacity
    /\ p.capacity <= MaxCapacity
    /\ p.free \in [0..(p.capacity - 1) -> BOOLEAN]

\* Setting a flag of a pool changes nothing else.
LEMMA FlagSet ==
    ASSUME NEW p, PoolTyped(p), NEW f, NEW b
    PROVE  [p EXCEPT !.free[f] = b]
           = [array |-> p.array, capacity |-> p.capacity, free |-> [p.free EXCEPT ![f] = b]]
<1> DEFINE flags == [p.free EXCEPT ![f] = b]
<1>1. [p EXCEPT !.free[f] = b] = [p EXCEPT !.free = flags]
  OBVIOUS
<1>2. p \in [array : {p.array}, capacity : {p.capacity}, free : {p.free}]
  BY DEF PoolTyped
<1> HIDE DEF flags
<1>3. [p EXCEPT !.free = flags] = [array |-> p.array, capacity |-> p.capacity, free |-> flags]
  BY <1>2
<1> QED
  BY <1>1, <1>3 DEF flags

\* The position that useFreePosition finds is free.
LEMMA FirstFreeIsFree ==
    ASSUME NEW p, PoolTyped(p), Free(p) # {}
    PROVE  FirstFree(p) \in Free(p)
<1>1. Free(p) \in SUBSET Nat
  BY DEF Free
<1>2. \E x \in Free(p) : \A y \in Free(p) : x <= y
  BY <1>1, LeastElement
<1> QED
  BY <1>2 DEF FirstFree

\* takeRegion hands out a region that was free, or when there is none, the
\* first one behind the old array.
LEMMA TakenRegion ==
    ASSUME NEW p, PoolTyped(p), Free(p) # {} \/ 2 * p.capacity <= MaxCapacity,
           NEW t \in Taken(p)
    PROVE  /\ PoolTyped(t.pool)
           /\ t.region[1] = t.pool.array /\ t.region[2] \in 0..(t.pool.capacity - 1)
           /\ t.region \in Items /\ t.region = <<t.region[1], t.region[2]>>
           /\ \/ /\ t.pool.array = p.array /\ t.pool.capacity = p.capacity
                 /\ p.free[t.region[2]]
                 /\ t.pool.free = [p.free EXCEPT ![t.region[2]] = FALSE]
              \/ /\ p.array = 0 /\ t.pool.array = 1 /\ Free(p) = {}
                 /\ t.region[2] = p.capacity
                 /\ ~t.pool.free[t.region[2]]
<1>1. /\ InitialCapacity \in Nat /\ InitialCapacity > 0 /\ MaxCapacity \in Nat
      /\ MaxCapacity < 4 * InitialCapacity
      /\ Items = {0, 1} \X (0..(MaxCapacity - 1))
  BY InitialCapacityAssumption, MaxCapacityAssumption
<1>2. CASE Free(p) # {}
  <2> DEFINE f == FirstFree(p)
  <2>1. f \in 0..(p.capacity - 1) /\ p.free[f]
    BY <1>2, FirstFreeIsFree DEF Free
  <2>2. t = [pool |-> [p EXCEPT !.free[f] = FALSE], region |-> <<p.array, f>>]
    BY <1>2 DEF Taken
  <2> HIDE DEF f
  <2>3. [p EXCEPT !.free[f] = FALSE]
        = [array |-> p.array, capacity |-> p.capacity, free |-> [p.free EXCEPT ![f] = FALSE]]
    BY FlagSet
  <2>4. /\ t.pool = [array |-> p.array, capacity |-> p.capacity, free |-> [p.free EXCEPT ![f] = FALSE]]
        /\ t.region = <<p.array, f>>
    BY <2>2, <2>3
  <2>5. /\ t.pool.array = p.array /\ t.pool.capacity = p.capacity
        /\ t.pool.free = [p.free EXCEPT ![f] = FALSE]
        /\ t.region[1] = p.array /\ t.region[2] = f
    BY <2>4
  <2>6. [p.free EXCEPT ![f] = FALSE] \in [0..(p.capacity - 1) -> BOOLEAN]
    BY Zenon DEF PoolTyped
  <2>7. PoolTyped(t.pool)
    BY <2>4, <2>5, <2>6 DEF PoolTyped
  <2>8. <<p.array, f>> \in Items
    BY <1>1, <2>1 DEF PoolTyped
  <2> QED
    BY <2>1, <2>4, <2>5, <2>7, <2>8
<1>3. CASE Free(p) = {}
  <2>1. p.array = 0 /\ p.capacity = InitialCapacity /\ 2 * InitialCapacity <= MaxCapacity
    BY <1>1, <1>3 DEF PoolTyped
  <2>2. PICK flag \in [(p.capacity + 1)..(2 * p.capacity - 1) -> BOOLEAN] :
          t = [pool |-> [array |-> p.array + 1, capacity |-> 2 * p.capacity,
                         free |-> [n \in 0..(2 * p.capacity - 1) |->
                                     IF n < p.capacity THEN p.free[n]
                                     ELSE n # p.capacity /\ flag[n]]],
               region |-> <<p.array + 1, p.capacity>>]
    BY <1>3 DEF Taken, Grown
  <2> DEFINE free == [n \in 0..(2 * p.capacity - 1) |->
                        IF n < p.capacity THEN p.free[n] ELSE n # p.capacity /\ flag[n]]
  <2>3. ~free[p.capacity]
    <3>1. p.capacity \in 0..(2 * p.capacity - 1) /\ ~(p.capacity < p.capacity)
      BY <1>1, <2>1
    <3>2. free[p.capacity] = IF p.capacity < p.capacity THEN p.free[p.capacity]
                             ELSE p.capacity # p.capacity /\ flag[p.capacity]
      BY <3>1
    <3> QED
      BY <3>1, <3>2
  <2>4. free \in [0..(2 * p.capacity - 1) -> BOOLEAN]
    <3>1. ASSUME NEW n \in 0..(2 * p.capacity - 1)
          PROVE  (IF n < p.capacity THEN p.free[n] ELSE n # p.capacity /\ flag[n]) \in BOOLEAN
      <4>1. CASE n < p.capacity
        <5>1. n \in 0..(p.capacity - 1)
          BY <1>1, <2>1, <4>1
        <5>2. p.free[n] \in BOOLEAN
          BY <5>1 DEF PoolTyped
        <5> QED
          BY <4>1, <5>2
      <4>2. CASE ~(n < p.capacity)
        BY <4>2, Zenon
      <4> QED
        BY <4>1, <4>2
    <3> QED
      BY <3>1
  <2> HIDE DEF free
  <2>5. /\ t.pool = [array |-> p.array + 1, capacity |-> 2 * p.capacity, free |-> free]
        /\ t.region = <<p.array + 1, p.capacity>>
    BY <2>2 DEF free
  <2>6. /\ t.pool.array = 1 /\ t.pool.capacity = 2 * p.capacity /\ t.pool.free = free
        /\ t.region[1] = 1 /\ t.region[2] = p.capacity
    BY <2>1, <2>5
  <2>7. PoolTyped(t.pool)
    BY <1>1, <2>1, <2>4, <2>5, <2>6 DEF PoolTyped
  <2>8. <<1, p.capacity>> \in Items /\ p.capacity \in 0..(2 * p.capacity - 1)
    BY <1>1, <2>1
  <2> QED
    BY <1>3, <2>1, <2>3, <2>5, <2>6, <2>7, <2>8
<1> QED
  BY <1>2, <1>3

(***************************************************************************)
(* The traffic of regions.                                                 *)
(***************************************************************************)

Types ==
    /\ GoodQueue(queue) /\ PoolTyped(pool)
    /\ hand \subseteq Items /\ IsFiniteSet(hand)
    /\ taken \in Items \cup {None}

\* No region that is held is a newer array's, or free.
HeldIsUsed ==
    \A r \in Held :
        /\ r[1] <= pool.array
        /\ r[1] = pool.array => r[2] < pool.capacity /\ ~pool.free[r[2]]

\* The peak has been counted, and as long as it has not exceeded the initial
\* capacity, the pool has not grown and every region in use is held.
Counted ==
    /\ peak \in Nat
    /\ Cardinality(hand) + queue.size <= peak
    /\ peak <= InitialCapacity =>
          /\ pool.array = 0
          /\ \A p \in 0..(InitialCapacity - 1) : ~pool.free[p] => <<0, p>> \in Held

IInv == Types /\ OnePlace /\ HeldIsUsed /\ Counted

\* The queued regions are the elements of the contents.
LEMMA QueuedElements ==
    ASSUME Types
    PROVE  /\ Contents(queue) \in Seq(Items) /\ Len(Contents(queue)) = queue.size
           /\ queue.size \in Nat
           /\ Queued \subseteq Items
<1>1. /\ Contents(queue) \in Seq(Items) /\ Len(Contents(queue)) = queue.size
      /\ queue.size \in Nat
  BY ContentsOfGood DEF Types, GoodQueue, Typed
<1>2. \A n \in 1..queue.size : Contents(queue)[n] \in Items
  BY <1>1, ElementOfSeq
<1> QED
  BY <1>1, <1>2 DEF Queued

\* decompose puts a region that it has in hand into the queue: nothing else
\* changes places.
LEMMA AddStep ==
    ASSUME IInv, NEW r \in hand, Add(r)
    PROVE  IInv'
<1> DEFINE c == Contents(queue)
           k == queue.size
<1>1. /\ Types /\ OnePlace /\ HeldIsUsed /\ Counted
      /\ CanAdd(queue) /\ queue' = Added(queue, r) /\ hand' = hand \ {r}
      /\ UNCHANGED <<pool, taken, peak>>
      /\ r \in Items
  BY DEF Add, IInv, Types
<1>2. GoodQueue(queue') /\ Contents(queue') = Append(c, r) /\ queue'.size = k + 1
  <2>1. GoodQueue(Added(queue, r)) /\ Contents(Added(queue, r)) = Append(c, r)
    BY <1>1, AddedContents DEF Types
  <2>2. Added(queue, r).size = k + 1
    BY DEF Added
  <2> QED
    BY <1>1, <2>1, <2>2
<1>3. c \in Seq(Items) /\ Len(c) = k /\ k \in Nat
  BY <1>1, QueuedElements
<1>4. /\ Queued = {c[n] : n \in 1..k}
      /\ \A m, n \in 1..k : c[m] = c[n] => m = n
      /\ hand \cap Queued = {}
  BY <1>1 DEF Queued, OnePlace
<1>5. /\ Queued' = {Append(c, r)[n] : n \in 1..(k + 1)}
  BY <1>2 DEF Queued
<1> HIDE DEF c, k
<1>6. /\ \A n \in 1..k : Append(c, r)[n] = c[n]
      /\ Append(c, r)[k + 1] = r
  BY <1>1, <1>3, AppendProperties
<1>7. \A n \in 1..(k + 1) : n \in 1..k \/ n = k + 1
  BY <1>3
<1>8. Queued' = Queued \cup {r}
  <2>1. \A n \in 1..k : n \in 1..(k + 1)
    BY <1>3
  <2>2. k + 1 \in 1..(k + 1)
    BY <1>3
  <2> QED
    BY <1>4, <1>5, <1>6, <1>7, <2>1, <2>2
<1>9. Held' = Held
  BY <1>1, <1>8 DEF Held
<1>10. OnePlace'
  <2>1. \A n \in 1..k : c[n] # r
    BY <1>4
  <2>2. \A m, n \in 1..(k + 1) : Append(c, r)[m] = Append(c, r)[n] => m = n
    BY <1>4, <1>6, <1>7, <2>1
  <2>3. hand' \cap Queued' = {}
    BY <1>1, <1>4, <1>8
  <2> QED
    BY <1>2, <2>2, <2>3 DEF OnePlace
<1>11. IsFiniteSet(hand') /\ Cardinality(hand') = Cardinality(hand) - 1 /\ Cardinality(hand) \in Nat
  BY <1>1, FS_RemoveElement, FS_CardinalityType DEF Types
<1>12. Types'
  BY <1>1, <1>2, <1>11 DEF Types
<1>13. HeldIsUsed'
  BY <1>1, <1>9 DEF HeldIsUsed
<1>14. Counted'
  <2>1. Cardinality(hand') + queue'.size = Cardinality(hand) + queue.size
    BY <1>2, <1>3, <1>11 DEF k
  <2> QED
    BY <1>1, <1>9, <2>1 DEF Counted
<1> QED
  BY <1>10, <1>12, <1>13, <1>14 DEF IInv

\* decompose takes the oldest region from the queue.
LEMMA TakeStep ==
    ASSUME IInv, Take
    PROVE  IInv'
<1> DEFINE c == Contents(queue)
           k == queue.size
           r == First(queue)
<1>1. /\ Types /\ OnePlace /\ HeldIsUsed /\ Counted
      /\ k > 0 /\ queue' = Rest(queue) /\ hand' = hand \cup {r} /\ taken' = r
      /\ UNCHANGED <<pool, peak>>
  BY DEF Take, IInv
<1>2. /\ GoodQueue(queue') /\ Contents(queue') = Tail(c) /\ queue'.size = k - 1
      /\ c # << >> /\ r = c[1] /\ r \in Items
  BY <1>1, RestContents DEF Types
<1>3. c \in Seq(Items) /\ Len(c) = k /\ k \in Nat
  BY <1>1, QueuedElements
<1>4. /\ Queued = {c[n] : n \in 1..k}
      /\ \A m, n \in 1..k : c[m] = c[n] => m = n
      /\ hand \cap Queued = {}
  BY <1>1 DEF Queued, OnePlace
<1>5. Queued' = {Tail(c)[n] : n \in 1..(k - 1)}
  BY <1>2 DEF Queued
<1> HIDE DEF c, k, r
<1>6. \A n \in 1..(k - 1) : Tail(c)[n] = c[n + 1] /\ n + 1 \in 1..k /\ n + 1 # 1
  <2>1. Len(Tail(c)) = k - 1 /\ \A n \in 1..(k - 1) : Tail(c)[n] = c[n + 1]
    BY <1>2, <1>3, HeadTailProperties
  <2> QED
    BY <1>3, <2>1
<1>7. 1 \in 1..k /\ \A n \in 1..k : n = 1 \/ n - 1 \in 1..(k - 1)
  BY <1>1, <1>3
<1>8. r \in Queued /\ r \notin hand
  BY <1>2, <1>4, <1>7
<1>9. Queued = Queued' \cup {r} /\ r \notin Queued'
  <2>1. ASSUME NEW x \in Queued
        PROVE  x \in Queued' \cup {r}
    <3>1. PICK n \in 1..k : x = c[n]
      BY <1>4
    <3>2. CASE n = 1
      BY <1>2, <3>1, <3>2
    <3>3. CASE n - 1 \in 1..(k - 1)
      <4>1. Tail(c)[n - 1] = c[n]
        <5>1. (n - 1) + 1 = n
          BY <1>3
        <5> QED
          BY <1>6, <3>3, <5>1
      <4> QED
        BY <1>5, <3>1, <3>3, <4>1
    <3> QED
      BY <1>7, <3>2, <3>3
  <2>2. ASSUME NEW x \in Queued'
        PROVE  x \in Queued /\ x # r
    <3>1. PICK n \in 1..(k - 1) : x = Tail(c)[n]
      BY <1>5
    <3>2. x = c[n + 1] /\ n + 1 \in 1..k /\ n + 1 # 1
      BY <1>6, <3>1
    <3>3. c[n + 1] # c[1]
      BY <1>4, <1>7, <3>2
    <3> QED
      BY <1>2, <1>4, <3>2, <3>3
  <2> QED
    BY <1>8, <2>1, <2>2
<1>10. Held' = Held
  BY <1>1, <1>9 DEF Held
<1>11. OnePlace'
  <2>1. \A m, n \in 1..(k - 1) : Tail(c)[m] = Tail(c)[n] => m = n
    <3> SUFFICES ASSUME NEW m \in 1..(k - 1), NEW n \in 1..(k - 1), Tail(c)[m] = Tail(c)[n]
                 PROVE  m = n
      OBVIOUS
    <3>1. m + 1 = n + 1
      BY <1>4, <1>6
    <3> QED
      BY <1>3, <3>1
  <2>2. hand' \cap Queued' = {}
    BY <1>1, <1>4, <1>9
  <2> QED
    BY <1>2, <2>1, <2>2 DEF OnePlace
<1>12. /\ IsFiniteSet(hand') /\ Cardinality(hand') = Cardinality(hand) + 1
       /\ Cardinality(hand) \in Nat
  BY <1>1, <1>8, FS_AddElement, FS_CardinalityType DEF Types
<1>13. Types'
  BY <1>1, <1>2, <1>12 DEF Types
<1>14. HeldIsUsed'
  BY <1>1, <1>10 DEF HeldIsUsed
<1>15. Counted'
  <2>1. Cardinality(hand') + queue'.size = Cardinality(hand) + queue.size
    BY <1>2, <1>3, <1>12 DEF k
  <2> QED
    BY <1>1, <1>10, <2>1 DEF Counted
<1> QED
  BY <1>11, <1>13, <1>14, <1>15 DEF IInv

\* A region leaves the client's hands for good.
LEMMA LetGo ==
    ASSUME IInv, NEW r \in hand, hand' = hand \ {r}, UNCHANGED <<queue, taken, peak>>
    PROVE  /\ Held' = Held \ {r} /\ Queued' = Queued /\ OnePlace'
           /\ IsFiniteSet(hand') /\ hand' \subseteq Items
           /\ Cardinality(hand') + queue'.size <= peak
<1>1. Types /\ OnePlace /\ Counted
  BY DEF IInv
<1>2. Queued' = Queued /\ hand \cap Queued = {}
  BY <1>1 DEF Queued, OnePlace
<1>3. Held' = Held \ {r} /\ OnePlace'
  BY <1>1, <1>2 DEF Held, OnePlace
<1>4. IsFiniteSet(hand') /\ Cardinality(hand') = Cardinality(hand) - 1 /\ Cardinality(hand) \in Nat
  BY <1>1, FS_RemoveElement, FS_CardinalityType DEF Types
<1>5. queue.size \in Nat
  BY <1>1, QueuedElements
<1> QED
  BY <1>1, <1>2, <1>3, <1>4, <1>5 DEF Types, Counted

\* An item is a pair.
LEMMA ItemIsPair ==
    ASSUME NEW r \in Items
    PROVE  r = <<r[1], r[2]>> /\ r[1] \in {0, 1} /\ r[2] \in 0..(MaxCapacity - 1)
  BY MaxCapacityAssumption

\* RegionPool::returnRegion, of a region of the current array.
LEMMA ReturnStep ==
    ASSUME IInv, NEW r \in hand, ReturnRegion(r)
    PROVE  IInv'
<1> DEFINE free == [pool.free EXCEPT ![r[2]] = TRUE]
<1>1. /\ Types /\ OnePlace /\ HeldIsUsed /\ Counted /\ PoolTyped(pool)
      /\ InArray(pool, r) /\ pool' = Returned(pool, r) /\ hand' = hand \ {r}
      /\ UNCHANGED <<queue, taken, peak>>
      /\ r \in Items /\ r \in Held
  BY DEF ReturnRegion, IInv, Types, Held
<1>2. /\ Held' = Held \ {r} /\ OnePlace'
      /\ IsFiniteSet(hand') /\ hand' \subseteq Items
      /\ Cardinality(hand') + queue'.size <= peak
  BY <1>1, LetGo
<1>3. pool' = [array |-> pool.array, capacity |-> pool.capacity, free |-> free]
  BY <1>1, FlagSet DEF Returned
<1>4. pool'.array = pool.array /\ pool'.capacity = pool.capacity /\ pool'.free = free
  BY <1>3
<1>5. free \in [0..(pool.capacity - 1) -> BOOLEAN]
  <2>1. TRUE \in BOOLEAN
    BY Zenon
  <2> QED
    BY <1>1, <2>1 DEF PoolTyped
<1>6. PoolTyped(pool')
  BY <1>1, <1>3, <1>4, <1>5 DEF PoolTyped
<1>7. r[1] = pool.array /\ r[2] \in 0..(pool.capacity - 1) /\ r = <<r[1], r[2]>>
  <2>1. r = <<r[1], r[2]>> /\ r[2] \in Nat
    BY <1>1, ItemIsPair, MaxCapacityAssumption
  <2>2. r[1] = pool.array /\ r[2] < pool.capacity
    BY <1>1 DEF InArray
  <2>3. pool.capacity \in Nat
    BY <1>1, InitialCapacityAssumption DEF PoolTyped
  <2> QED
    BY <2>1, <2>2, <2>3
<1>8. \A p \in 0..(pool.capacity - 1) : free[p] = IF p = r[2] THEN TRUE ELSE pool.free[p]
  BY <1>1, <1>7 DEF PoolTyped
<1> HIDE DEF free
<1>9. Types'
  BY <1>1, <1>2, <1>6 DEF Types
<1>10. Held \subseteq Items
  BY <1>1, QueuedElements DEF Held, Types
<1>11. HeldIsUsed'
  <2> SUFFICES ASSUME NEW s \in Held, s # r
               PROVE  /\ s[1] <= pool.array
                      /\ s[1] = pool.array => s[2] < pool.capacity /\ ~free[s[2]]
    BY <1>2, <1>4 DEF HeldIsUsed
  <2>1. s = <<s[1], s[2]>> /\ s[2] \in Nat
    BY <1>10, ItemIsPair, MaxCapacityAssumption
  <2>2. /\ s[1] <= pool.array
        /\ s[1] = pool.array => s[2] < pool.capacity /\ ~pool.free[s[2]]
    BY <1>1 DEF HeldIsUsed
  <2>3. s[1] = pool.array => s[2] # r[2]
    BY <1>7, <2>1
  <2>4. pool.capacity \in Nat
    BY <1>1, InitialCapacityAssumption DEF PoolTyped
  <2>5. s[1] = pool.array => ~free[s[2]]
    <3> SUFFICES ASSUME s[1] = pool.array
                 PROVE  ~free[s[2]]
      OBVIOUS
    <3>1. s[2] \in 0..(pool.capacity - 1)
      BY <2>1, <2>2, <2>4
    <3>2. free[s[2]] = pool.free[s[2]]
      BY <1>8, <2>3, <3>1
    <3> QED
      BY <2>2, <3>2
  <2> QED
    BY <2>2, <2>5
<1>12. Counted'
  <2>1. ASSUME peak <= InitialCapacity, NEW p \in 0..(InitialCapacity - 1), ~free[p]
        PROVE  <<0, p>> \in Held'
    <3>1. /\ pool.array = 0 /\ pool.capacity = InitialCapacity
          /\ \A q \in 0..(InitialCapacity - 1) : ~pool.free[q] => <<0, q>> \in Held
      BY <1>1, <2>1 DEF Counted, PoolTyped
    <3>2. p # r[2] /\ ~pool.free[p]
      BY <1>8, <2>1, <3>1
    <3>3. <<0, p>> # r
      BY <1>7, <3>2
    <3> QED
      BY <1>2, <3>1, <3>2, <3>3
  <2> QED
    BY <1>1, <1>2, <1>4, <2>1 DEF Counted
<1> QED
  BY <1>2, <1>9, <1>11, <1>12 DEF IInv

\* returnRegion of a dangling pointer: it cannot happen before the pool grows.
LEMMA ReturnDanglingStep ==
    ASSUME IInv, NEW r \in hand, ReturnDangling(r)
    PROVE  IInv'
<1>1. /\ Types /\ OnePlace /\ HeldIsUsed /\ Counted /\ PoolTyped(pool)
      /\ ~InArray(pool, r) /\ hand' = hand \ {r}
      /\ UNCHANGED <<pool, queue, taken, peak>>
      /\ r \in Items /\ r \in Held
  BY DEF ReturnDangling, IInv, Types, Held
<1>2. /\ Held' = Held \ {r} /\ OnePlace'
      /\ IsFiniteSet(hand') /\ hand' \subseteq Items
      /\ Cardinality(hand') + queue'.size <= peak
  BY <1>1, LetGo
<1>3. Types'
  BY <1>1, <1>2 DEF Types
<1>4. HeldIsUsed'
  BY <1>1, <1>2 DEF HeldIsUsed
<1>5. r[1] # pool.array
  BY <1>1 DEF HeldIsUsed, InArray
<1>6. peak <= InitialCapacity => FALSE
  <2>1. r[1] \in {0, 1} /\ r[1] <= pool.array
    BY <1>1, ItemIsPair DEF HeldIsUsed
  <2> QED
    BY <1>1, <1>5, <2>1 DEF Counted
<1>7. Counted'
  BY <1>1, <1>2, <1>6 DEF Counted
<1> QED
  BY <1>2, <1>3, <1>4, <1>7 DEF IInv

\* Queue and hands hold no more regions than are counted.
LEMMA HeldCount ==
    ASSUME Types
    PROVE  IsFiniteSet(Held) /\ Cardinality(Held) <= Cardinality(hand) + queue.size
<1> DEFINE k == queue.size
           f == [n \in 1..k |-> Contents(queue)[n]]
<1>1. k \in Nat /\ IsFiniteSet(hand)
  BY QueuedElements DEF Types
<1>2. Queued = {f[n] : n \in 1..k}
  BY DEF Queued
<1>3. f \in Surjection(1..k, Queued)
  BY <1>2 DEF Surjection
<1> HIDE DEF f, k
<1>4. IsFiniteSet(1..k) /\ Cardinality(1..k) = k
  BY <1>1, FS_Interval
<1>5. IsFiniteSet(Queued) /\ Cardinality(Queued) <= k
  BY <1>3, <1>4, FS_Surjection
<1>6. /\ IsFiniteSet(hand \cup Queued)
      /\ Cardinality(hand \cup Queued)
         = Cardinality(hand) + Cardinality(Queued) - Cardinality(hand \cap Queued)
  BY <1>1, <1>5, FS_Union
<1>7. /\ Cardinality(hand) \in Nat /\ Cardinality(Queued) \in Nat
      /\ Cardinality(hand \cap Queued) \in Nat
  BY <1>1, <1>5, FS_CardinalityType, FS_Intersection
<1> QED
  BY <1>1, <1>5, <1>6, <1>7 DEF Held, k

\* A pool that has not grown has no free region only when InitialCapacity
\* regions are held.
LEMMA FullMeansHeld ==
    ASSUME IInv, peak <= InitialCapacity, Free(pool) = {}
    PROVE  InitialCapacity <= Cardinality(hand) + queue.size
<1> DEFINE S == 0..(InitialCapacity - 1)
           f == [p \in S |-> <<0, p>>]
<1>1. Types /\ Counted /\ PoolTyped(pool) /\ InitialCapacity \in Nat \ {0}
  BY InitialCapacityAssumption DEF IInv, Types
<1>2. \A p \in S : ~pool.free[p]
  BY <1>1 DEF Counted, PoolTyped, Free
<1>3. \A p \in S : <<0, p>> \in Held
  BY <1>1, <1>2 DEF Counted
<1>4. f \in Injection(S, Held)
  <2>1. f \in [S -> Held]
    BY <1>3
  <2>2. \A p, q \in S : f[p] = f[q] => p = q
    OBVIOUS
  <2> HIDE DEF f, S
  <2> QED
    BY <2>1, <2>2 DEF Injection, IsInjective
<1>5. IsFiniteSet(S) /\ Cardinality(S) = InitialCapacity
  BY <1>1, FS_Interval
<1>6. IsFiniteSet(Held) /\ Cardinality(Held) <= Cardinality(hand) + queue.size
  BY <1>1, HeldCount
<1> HIDE DEF f, S
<1>7. Cardinality(S) <= Cardinality(Held)
  BY <1>4, <1>6, FS_Injection
<1>8. Cardinality(Held) \in Nat /\ Cardinality(hand) \in Nat /\ queue.size \in Nat
  BY <1>1, <1>6, FS_CardinalityType, QueuedElements DEF Types
<1> QED
  BY <1>1, <1>5, <1>6, <1>7, <1>8

\* RegionPool::takeRegion.
LEMMA TakeRegionStep ==
    ASSUME IInv, TakeRegion
    PROVE  IInv'
<1>1. /\ Types /\ OnePlace /\ HeldIsUsed /\ Counted /\ PoolTyped(pool)
      /\ UNCHANGED <<queue, taken>>
      /\ IsFiniteSet(hand) /\ Cardinality(hand) \in Nat /\ queue.size \in Nat
      /\ InitialCapacity \in Nat \ {0}
  BY FS_CardinalityType, QueuedElements, InitialCapacityAssumption DEF TakeRegion, IInv, Types
<1>2. PICK t \in Taken(pool) : pool' = t.pool /\ hand' = hand \cup {t.region}
  BY DEF TakeRegion
<1> DEFINE r == t.region
           n == Cardinality(hand) + queue.size
<1>3. /\ PoolTyped(pool')
      /\ r[1] = pool'.array /\ r[2] \in 0..(pool'.capacity - 1)
      /\ r \in Items /\ r = <<r[1], r[2]>>
      /\ \/ /\ pool'.array = pool.array /\ pool'.capacity = pool.capacity
            /\ pool.free[r[2]]
            /\ pool'.free = [pool.free EXCEPT ![r[2]] = FALSE]
         \/ /\ pool.array = 0 /\ pool'.array = 1 /\ Free(pool) = {}
            /\ r[2] = pool.capacity
            /\ ~pool'.free[r[2]]
  <2>1. Free(pool) # {} \/ 2 * pool.capacity <= MaxCapacity
    BY DEF TakeRegion
  <2> QED
    BY <1>1, <1>2, <2>1, TakenRegion
<1>4. /\ peak' \in Nat /\ peak' >= peak /\ peak' >= n + 1
  BY <1>1 DEF TakeRegion, Counted
<1> HIDE DEF r
<1>5. r \notin Held
  BY <1>1, <1>3 DEF HeldIsUsed
<1>6. Queued' = Queued /\ hand' = hand \cup {r} /\ Held' = Held \cup {r}
  <2>1. Queued' = Queued /\ hand' = hand \cup {r}
    BY <1>1, <1>2 DEF Queued, r
  <2> QED
    BY <2>1 DEF Held
<1>7. OnePlace'
  BY <1>1, <1>5, <1>6 DEF OnePlace, Held
<1>8. IsFiniteSet(hand') /\ Cardinality(hand') = Cardinality(hand) + 1
  <2>1. r \notin hand
    BY <1>5 DEF Held
  <2> QED
    BY <1>1, <1>6, <2>1, FS_AddElement
<1>9. Types'
  BY <1>1, <1>3, <1>6, <1>8 DEF Types
<1>10. Held \subseteq Items
  BY <1>1, QueuedElements DEF Held, Types
<1>11. \A s \in Items : s = <<s[1], s[2]>> /\ s[1] \in {0, 1} /\ s[2] \in Nat
  BY ItemIsPair, MaxCapacityAssumption
<1>12. pool.capacity \in Nat /\ pool.free \in [0..(pool.capacity - 1) -> BOOLEAN]
  BY <1>1 DEF PoolTyped
<1>13. ~pool'.free[r[2]]
  BY <1>3, <1>12
<1>14. ASSUME pool'.array = pool.array, NEW p \in 0..(pool.capacity - 1), p # r[2]
       PROVE  pool'.free[p] = pool.free[p]
  BY <1>3, <1>12, <1>14
<1>15. HeldIsUsed'
  <2>1. r[1] <= pool'.array /\ r[2] < pool'.capacity /\ ~pool'.free[r[2]]
    <3>1. pool'.array \in {0, 1} /\ pool'.capacity \in Nat
      BY <1>1, <1>3 DEF PoolTyped
    <3> QED
      BY <1>3, <1>13, <3>1
  <2>2. ASSUME NEW s \in Held
        PROVE  /\ s[1] <= pool'.array
               /\ s[1] = pool'.array => s[2] < pool'.capacity /\ ~pool'.free[s[2]]
    <3>1. /\ s[1] <= pool.array /\ s[1] \in {0, 1} /\ s[2] \in Nat
          /\ s[1] = pool.array => s[2] < pool.capacity /\ ~pool.free[s[2]]
      BY <1>1, <1>10, <1>11 DEF HeldIsUsed
    <3>2. CASE pool'.array = pool.array
      <4>1. s[1] = pool.array => ~pool'.free[s[2]]
        <5> SUFFICES ASSUME s[1] = pool.array
                     PROVE  ~pool'.free[s[2]]
          OBVIOUS
        <5>1. s[2] \in 0..(pool.capacity - 1)
          BY <1>12, <3>1
        <5> QED
          BY <1>13, <1>14, <3>1, <3>2, <5>1
      <4>2. pool'.capacity = pool.capacity
        BY <1>3, <3>2
      <4> QED
        BY <3>1, <3>2, <4>1, <4>2
    <3>3. CASE pool.array = 0 /\ pool'.array = 1
      BY <3>1, <3>3
    <3> QED
      BY <1>3, <3>2, <3>3
  <2> QED
    BY <1>6, <2>1, <2>2 DEF HeldIsUsed
<1>16. ASSUME peak' <= InitialCapacity
       PROVE  /\ pool'.array = 0
              /\ \A p \in 0..(InitialCapacity - 1) : ~pool'.free[p] => <<0, p>> \in Held'
  <2>1. peak <= InitialCapacity /\ ~(InitialCapacity <= n)
    BY <1>1, <1>4, <1>16 DEF Counted
  <2>2. /\ pool.array = 0 /\ pool.capacity = InitialCapacity
        /\ \A p \in 0..(InitialCapacity - 1) : ~pool.free[p] => <<0, p>> \in Held
    BY <1>1, <2>1 DEF Counted, PoolTyped
  <2>3. Free(pool) # {}
    BY <2>1, FullMeansHeld
  <2>4. pool'.array = 0
    BY <1>3, <2>2, <2>3
  <2>5. ASSUME NEW p \in 0..(InitialCapacity - 1), ~pool'.free[p]
        PROVE  <<0, p>> \in Held'
    <3>1. CASE p = r[2]
      BY <1>3, <1>6, <2>4, <3>1
    <3>2. CASE p # r[2]
      <4>1. ~pool.free[p]
        BY <1>14, <2>2, <2>4, <2>5, <3>2
      <4> QED
        BY <1>6, <2>2, <4>1
    <3> QED
      BY <3>1, <3>2
  <2> QED
    BY <2>4, <2>5
<1>17. Counted'
  <2>1. Cardinality(hand') + queue'.size = n + 1
    BY <1>1, <1>8
  <2>2. Cardinality(hand') + queue'.size <= peak'
    BY <1>1, <1>4, <2>1
  <2> QED
    BY <1>4, <1>16, <2>2 DEF Counted
<1> QED
  BY <1>7, <1>9, <1>15, <1>17 DEF IInv

(***************************************************************************)
(* The theorems.                                                           *)
(***************************************************************************)

\* Initially the pool has its first array, the queue is empty, and nobody
\* holds a region.
LEMMA InitEstablishes ==
    ASSUME Init
    PROVE  IInv
<1>1. /\ pool = NewPool /\ queue \in NewQueues /\ hand = {} /\ taken = None /\ peak = 0
      /\ InitialCapacity \in Nat \ {0} /\ InitialCapacity <= MaxCapacity
  BY InitialCapacityAssumption, MaxCapacityAssumption DEF Init
<1>2. GoodQueue(queue) /\ queue.size = 0
  BY <1>1, NewContents
<1>3. /\ pool.array = 0 /\ pool.capacity = InitialCapacity
      /\ pool.free = [p \in 0..(InitialCapacity - 1) |-> TRUE]
      /\ pool = [array |-> pool.array, capacity |-> pool.capacity, free |-> pool.free]
  BY <1>1 DEF NewPool
<1>4. PoolTyped(pool)
  <2>1. pool.free \in [0..(pool.capacity - 1) -> BOOLEAN]
    <3>1. TRUE \in BOOLEAN
      BY Zenon
    <3> QED
      BY <1>3, <3>1
  <2> QED
    BY <1>1, <1>3, <2>1 DEF PoolTyped
<1>5. Queued = {} /\ Held = {}
  <2>1. 1..queue.size = {}
    BY <1>2
  <2> QED
    BY <1>1, <2>1 DEF Queued, Held
<1>6. Types
  BY <1>1, <1>2, <1>4, FS_EmptySet DEF Types
<1>7. OnePlace
  BY <1>1, <1>2 DEF OnePlace
<1>8. HeldIsUsed
  BY <1>5 DEF HeldIsUsed
<1>9. Counted
  <2>1. \A p \in 0..(InitialCapacity - 1) : pool.free[p]
    BY <1>3
  <2> QED
    BY <1>1, <1>2, <1>3, <2>1, FS_EmptySet DEF Counted
<1> QED
  BY <1>6, <1>7, <1>8, <1>9 DEF IInv

\* The strengthened invariant: the queue's positions agree with its size, a
\* region has one place, no held region is free, and the pool has not grown
\* before InitialCapacity regions were held.
THEOREM Invariance == Spec => []IInv
<1>1. Init => IInv
  BY InitEstablishes
<1>2. IInv /\ [Next]_vars => IInv'
  <2> SUFFICES ASSUME IInv, [Next]_vars
               PROVE  IInv'
    OBVIOUS
  <2>1. CASE TakeRegion
    BY <2>1, TakeRegionStep
  <2>2. CASE Take
    BY <2>2, TakeStep
  <2>3. ASSUME NEW r \in hand, Add(r)
        PROVE  IInv'
    BY <2>3, AddStep
  <2>4. ASSUME NEW r \in hand, ReturnRegion(r)
        PROVE  IInv'
    BY <2>4, ReturnStep
  <2>5. ASSUME NEW r \in hand, ReturnDangling(r)
        PROVE  IInv'
    BY <2>5, ReturnDanglingStep
  <2>6. CASE UNCHANGED vars
    BY <2>6 DEF vars, IInv, Types, OnePlace, HeldIsUsed, Counted, Held, Queued
  <2> QED
    BY <2>1, <2>2, <2>3, <2>4, <2>5, <2>6 DEF Next
<1> QED
  BY <1>1, <1>2, PTL DEF Spec

\* The next item always goes into the slot right behind the last one, from
\* whatever the constructor left in the positions.
THEOREM PositionsAlwaysAgree == Spec => []PositionsAgree
<1>1. IInv => PositionsAgree
  <2> SUFFICES ASSUME IInv
               PROVE  PositionsAgree
    OBVIOUS
  <2> DEFINE k == queue.size
             f == queue.front
  <2>1. /\ Typed(queue) /\ Agreeing(queue) /\ taken \in Items \cup {None}
        /\ k \in Nat /\ k <= Capacity /\ Capacity \in Nat
    BY CapacityAssumption DEF IInv, Types, GoodQueue, Typed
  <2>2. ASSUME k > 0
        PROVE  /\ f \in Slots /\ queue.back \in Slots
               /\ queue.back = (f + k) % (Capacity + 1)
    <3>1. f \in Slots /\ queue.back = SlotOf(f, k + 1) /\ k + 1 \in 1..(Capacity + 1)
      BY <2>1, <2>2 DEF Agreeing
    <3> HIDE DEF f, k
    <3>2. (f + (k + 1) - 1) % (Capacity + 1) = SlotOf(f, k + 1) /\ SlotOf(f, k + 1) \in Slots
      BY <3>1, SlotIs
    <3>3. f + (k + 1) - 1 = f + k
      BY <2>1, <3>1 DEF Slots
    <3> QED
      BY <3>1, <3>2, <3>3
  <2> QED
    BY <2>1, <2>2 DEF PositionsAgree, QueueTypeOK, Typed
<1> QED
  BY <1>1, Invariance, PTL

\* No region is handed out while it is held, whatever the flags hold that
\* growing leaves uninitialised, and none is in two places at once.
THEOREM HeldIsNeverFree == Spec => []HeldIsNotFree
<1>1. IInv => HeldIsNotFree
  <2> SUFFICES ASSUME IInv
               PROVE  HeldIsNotFree
    OBVIOUS
  <2>1. /\ PoolTyped(pool) /\ OnePlace /\ HeldIsUsed /\ hand \subseteq Items /\ peak \in Nat
        /\ InitialCapacity \in Nat \ {0} /\ MaxCapacity \in Nat
    BY InitialCapacityAssumption, MaxCapacityAssumption DEF IInv, Types, Counted
  <2>2. pool.capacity \in InitialCapacity..MaxCapacity /\ pool.capacity \in 1..MaxCapacity
    BY <2>1 DEF PoolTyped
  <2>3. pool.free \in UNION {[0..(c - 1) -> BOOLEAN] : c \in 1..MaxCapacity}
    BY <2>1, <2>2 DEF PoolTyped
  <2>4. DOMAIN pool.free = 0..(pool.capacity - 1)
    BY <2>1 DEF PoolTyped
  <2>5. PoolTypeOK
    BY <2>1, <2>2, <2>3, <2>4 DEF PoolTypeOK, PoolTyped
  <2>6. \A r \in Held : InArray(pool, r) => ~pool.free[r[2]]
    BY <2>1 DEF HeldIsUsed, InArray
  <2> QED
    BY <2>1, <2>5, <2>6 DEF HeldIsNotFree
<1> QED
  BY <1>1, Invariance, PTL

\* A client that never holds more regions than the initial capacity sees no
\* dangling region and loses none: those in use are exactly those it holds.
THEOREM AlwaysExactWithinCapacity == Spec => []ExactWithinCapacity
<1>1. IInv => ExactWithinCapacity
  <2> SUFFICES ASSUME IInv, peak <= InitialCapacity
               PROVE  /\ \A r \in Held : InArray(pool, r)
                      /\ {r[2] : r \in Held} = (0..(pool.capacity - 1)) \ Free(pool)
    BY DEF ExactWithinCapacity
  <2>1. /\ Types /\ HeldIsUsed /\ PoolTyped(pool) /\ Held \subseteq Items
        /\ pool.array = 0 /\ pool.capacity = InitialCapacity /\ InitialCapacity \in Nat
        /\ \A p \in 0..(InitialCapacity - 1) : ~pool.free[p] => <<0, p>> \in Held
    BY QueuedElements, InitialCapacityAssumption DEF IInv, Types, Counted, PoolTyped, Held
  <2>2. ASSUME NEW r \in Held
        PROVE  /\ r[1] = pool.array /\ r[2] \in 0..(pool.capacity - 1) /\ r[2] < pool.capacity
               /\ ~pool.free[r[2]]
    <3>1. r[1] \in {0, 1} /\ r[2] \in Nat
      BY <2>1, ItemIsPair, MaxCapacityAssumption
    <3>2. r[1] <= 0 /\ (r[1] = 0 => r[2] < pool.capacity /\ ~pool.free[r[2]])
      BY <2>1 DEF HeldIsUsed
    <3> QED
      BY <2>1, <3>1, <3>2
  <2>3. {r[2] : r \in Held} \subseteq (0..(pool.capacity - 1)) \ Free(pool)
    BY <2>2 DEF Free
  <2>4. ASSUME NEW p \in (0..(pool.capacity - 1)) \ Free(pool)
        PROVE  p \in {r[2] : r \in Held}
    <3>1. <<0, p>> \in Held
      BY <2>1 DEF Free
    <3>2. <<0, p>>[2] = p
      OBVIOUS
    <3> QED
      BY <3>1, <3>2
  <2> QED
    BY <2>2, <2>3, <2>4 DEF InArray
<1> QED
  BY <1>1, Invariance, PTL

\* RegionQueue implements a first-in first-out queue of at most Capacity
\* items: every step of the traffic is a step of the queue's specification,
\* or leaves its contents alone.
THEOREM QueueIsFifo == Spec => IsFifo
<1>1. Init => Abstract!Init
  BY NewContents DEF Init, Abstract!Init
<1>2. IInv /\ [Next]_vars => [Abstract!Next]_<<Contents(queue), taken>>
  <2> SUFFICES ASSUME IInv, [Next]_vars
               PROVE  [Abstract!Next]_<<Contents(queue), taken>>
    OBVIOUS
  <2>1. Types /\ GoodQueue(queue)
    BY DEF IInv, Types
  <2>2. ASSUME NEW r \in hand, Add(r)
        PROVE  Abstract!Next
    <3>1. CanAdd(queue) /\ queue' = Added(queue, r) /\ taken' = taken /\ r \in Items
      BY <2>1, <2>2 DEF Add, Types
    <3>2. Contents(queue') = Append(Contents(queue), r)
      BY <2>1, <3>1, AddedContents
    <3>3. Len(Contents(queue)) < Capacity
      BY <2>1, <3>1, ContentsOfGood DEF CanAdd
    <3> QED
      BY <3>1, <3>2, <3>3 DEF Abstract!Next, Abstract!Add
  <2>3. CASE Take
    <3>1. queue.size > 0 /\ queue' = Rest(queue) /\ taken' = First(queue)
      BY <2>3 DEF Take
    <3>2. /\ Contents(queue) # << >> /\ First(queue) = Head(Contents(queue))
          /\ Contents(queue') = Tail(Contents(queue))
      BY <2>1, <3>1, RestContents
    <3> QED
      BY <3>1, <3>2 DEF Abstract!Next, Abstract!Take
  <2>4. ASSUME UNCHANGED <<queue, taken>>
        PROVE  UNCHANGED <<Contents(queue), taken>>
    BY <2>4
  <2> QED
    BY <2>2, <2>3, <2>4 DEF Next, vars, TakeRegion, ReturnRegion, ReturnDangling
<1> QED
  BY <1>1, <1>2, Invariance, PTL DEF Spec, IsFifo, Abstract!Spec
=============================================================================
