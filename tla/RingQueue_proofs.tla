-------------------------- MODULE RingQueue_proofs --------------------------
(***************************************************************************)
(* The ring of RingQueue is a bounded FIFO queue for every capacity and    *)
(* every kind of item: the invariant TypeOK /\ RingShape is inductive, and *)
(* under it each operation of the ring is the same operation of            *)
(* BoundedFifo on the sequence contents.                                   *)
(***************************************************************************)
EXTENDS RingQueue, TLAPS

\* What wrap returns on the numbers below three times the capacity, which are
\* all the numbers the ring ever wraps.
LEMMA WrapCases ==
  ASSUME NEW n \in 0 .. 3 * Capacity - 1
  PROVE  wrap(n) = IF n < Capacity THEN n
                   ELSE IF n < 2 * Capacity THEN n - Capacity
                   ELSE n - 2 * Capacity
  BY CapacityAssumption DEF wrap

-----------------------------------------------------------------------------

\* The indices stay inside the array and rear stays size cells behind front,
\* for every capacity.
THEOREM TypeAndShape == Spec => []Inv
<1> USE CapacityAssumption DEF Inv, TypeOK, RingShape, Index, isFull, isEmpty
<1>1. Init => Inv
  BY WrapCases DEF Init
<1>2. Inv /\ [Next]_vars => Inv'
  <2> SUFFICES ASSUME Inv, [Next]_vars PROVE Inv'
    OBVIOUS
  <2>1. CASE UNCHANGED vars
    BY <2>1 DEF vars
  <2>2. ASSUME NEW x \in Item, enqueue(x) PROVE Inv'
    <3>1. CASE isFull
      BY <2>2, <3>1 DEF enqueue, vars
    <3>2. CASE ~isFull
      BY <2>2, <3>2, WrapCases DEF enqueue
    <3> QED BY <3>1, <3>2
  <2>3. CASE dequeue
    <3>1. CASE isEmpty
      BY <2>3, <3>1 DEF dequeue
    <3>2. CASE ~isEmpty
      BY <2>3, <3>2, WrapCases DEF dequeue
    <3> QED BY <3>1, <3>2
  <2>4. CASE peekFront
    BY <2>4 DEF peekFront
  <2> QED BY <2>1, <2>2, <2>3, <2>4 DEF Next
<1> QED BY <1>1, <1>2, PTL DEF Spec

-----------------------------------------------------------------------------

\* The items of the ring are a sequence of size items, each read from a cell.
ContentsFacts ==
  /\ contents \in Seq(Item)
  /\ Len(contents) = size
  /\ \A i \in 1 .. size : contents[i] = array[wrap(front + i - 1)]

LEMMA ContentsIsSeq == Inv => ContentsFacts
<1> SUFFICES ASSUME Inv PROVE ContentsFacts
  OBVIOUS
<1>1. \A i \in 1 .. size : array[wrap(front + i - 1)] \in Item
  BY CapacityAssumption, WrapCases DEF Inv, TypeOK, Index
<1>2. size \in Nat
  BY CapacityAssumption DEF Inv, TypeOK
<1> QED BY <1>1, <1>2 DEF contents, ContentsFacts

\* enqueue adds the item behind all others, or drops it when the ring is full.
LEMMA EnqueueRefines ==
  ASSUME Inv, ContentsFacts, ContentsFacts', NEW x \in Item, enqueue(x)
  PROVE  Fifo!Enqueue(x)
<1>1. CASE isFull
  BY <1>1 DEF enqueue, vars, contents, isFull, ContentsFacts,
              Fifo!Enqueue, Fifo!Enqueued
<1>2. CASE ~isFull
  <2>1. /\ front \in Index /\ rear \in Index /\ size \in 0 .. Capacity - 1
        /\ array \in [Index -> Item]
    BY <1>2, CapacityAssumption DEF Inv, TypeOK, isFull, Index
  <2>2. size' = size + 1 /\ front' = front /\ returned' = returned
        /\ rear' = wrap(rear + 1) /\ array' = [array EXCEPT ![rear'] = x]
    BY <1>2 DEF enqueue
  <2>3. rear' = wrap(front + size)
    BY <2>1, <2>2, CapacityAssumption, WrapCases DEF Inv, RingShape, Index
  <2>4. ASSUME NEW i \in 1 .. size
        PROVE  wrap(front + i - 1) \in Index /\ wrap(front + i - 1) # rear'
    BY <2>1, <2>3, CapacityAssumption, WrapCases DEF Index
  <2>5. \A i \in 1 .. size : array'[wrap(front + i - 1)] = array[wrap(front + i - 1)]
    BY <2>1, <2>2, <2>4
  <2>6. rear' \in Index
    BY <2>1, <2>3, CapacityAssumption, WrapCases DEF Index
  <2>7. array'[wrap(front + size)] = x
    BY <2>1, <2>2, <2>3, <2>6
  <2>8. /\ contents' \in Seq(Item) /\ Len(contents') = size + 1
        /\ \A i \in 1 .. size : contents'[i] = contents[i]
        /\ contents'[size + 1] = x
    <3>1. size \in Nat /\ front \in Int
      BY <2>1, CapacityAssumption DEF Index
    <3>2. \A i \in 1 .. size + 1 : contents'[i] = array'[wrap(front + i - 1)]
      BY <2>2 DEF ContentsFacts
    <3>3. front + (size + 1) - 1 = front + size
      BY <3>1
    <3>4. contents'[size + 1] = x
      BY <2>7, <3>1, <3>2, <3>3
    <3>5. contents' \in Seq(Item) /\ Len(contents') = size + 1
      BY <2>2 DEF ContentsFacts
    <3>6. ASSUME NEW i \in 1 .. size PROVE contents'[i] = contents[i]
      <4>1. i \in 1 .. size + 1
        BY <3>1
      <4> QED BY <2>5, <3>2, <4>1 DEF ContentsFacts
    <3> QED BY <3>4, <3>5, <3>6
  <2>9. Append(contents, x) = contents'
    BY <2>1, <2>8, CapacityAssumption DEF ContentsFacts
  <2> QED BY <1>2, <2>2, <2>9 DEF Fifo!Enqueue, Fifo!Enqueued, isFull, ContentsFacts
<1> QED BY <1>1, <1>2

\* The first item of a ring that is not empty is the one in cell front.
LEMMA HeadIsFront ==
  ASSUME Inv, ContentsFacts, ~isEmpty
  PROVE  contents # << >> /\ Head(contents) = array[front]
<1>1. /\ front \in Index /\ size \in 1 .. Capacity
  BY CapacityAssumption DEF Inv, TypeOK, isEmpty, Index
<1>2. wrap(front + 1 - 1) = front
  BY <1>1, CapacityAssumption, WrapCases DEF Index
<1> QED BY <1>1, <1>2 DEF ContentsFacts

\* dequeue takes the oldest item and returns it, or returns -1.
LEMMA DequeueRefines ==
  ASSUME Inv, ContentsFacts, ContentsFacts', dequeue
  PROVE  Fifo!Dequeue
<1>1. CASE isEmpty
  <2>1. contents = << >>
    BY <1>1 DEF isEmpty, ContentsFacts
  <2>2. contents' = contents /\ returned' = -1
    BY <1>1 DEF dequeue, contents
  <2> QED BY <2>1, <2>2 DEF Fifo!Dequeue, Fifo!None
<1>2. CASE ~isEmpty
  <2>1. front \in Index /\ size \in 1 .. Capacity
    BY <1>2, CapacityAssumption DEF Inv, TypeOK, isEmpty, Index
  <2>2. size' = size - 1 /\ front' = wrap(front + 1) /\ array' = array
        /\ returned' = array[front]
    BY <1>2 DEF dequeue
  <2>3. contents # << >> /\ Head(contents) = array[front]
    BY <1>2, HeadIsFront
  <2>4. ASSUME NEW i \in 1 .. size - 1
        PROVE  contents'[i] = contents[i + 1]
    <3>1. wrap(front' + i - 1) = wrap(front + (i + 1) - 1)
      BY <2>1, <2>2, CapacityAssumption, WrapCases DEF Index
    <3>2. i \in 1 .. size' /\ i + 1 \in 1 .. size
      BY <2>1, <2>2, CapacityAssumption
    <3>3. contents'[i] = array[wrap(front' + i - 1)]
      BY <2>2, <3>2 DEF ContentsFacts
    <3> QED BY <3>1, <3>2, <3>3 DEF ContentsFacts
  <2>5. Tail(contents) = contents'
    <3>1. /\ contents' \in Seq(Item) /\ Len(contents') = size - 1
          /\ contents \in Seq(Item) /\ Len(contents) = size /\ size \in Nat \ {0}
      BY <2>1, <2>2, CapacityAssumption DEF ContentsFacts
    <3> QED BY <2>3, <2>4, <3>1
  <2> QED BY <2>2, <2>3, <2>5 DEF Fifo!Dequeue
<1> QED BY <1>1, <1>2

\* front() returns the oldest item, or -1, and takes nothing.
LEMMA FrontRefines ==
  ASSUME Inv, ContentsFacts, peekFront
  PROVE  Fifo!Front
<1>1. contents' = contents
  BY DEF peekFront, contents
<1>2. CASE isEmpty
  <2>1. contents = << >>
    BY <1>2 DEF isEmpty, ContentsFacts
  <2> QED BY <1>1, <1>2, <2>1 DEF peekFront, Fifo!Front, Fifo!None
<1>3. CASE ~isEmpty
  BY <1>1, <1>3, HeadIsFront DEF peekFront, Fifo!Front
<1> QED BY <1>2, <1>3

\* The ring implements the bounded FIFO queue for every Capacity and Item: the
\* two indices never lose, repeat or reorder an item across a wrap-around.
THEOREM RingRefinesFifo == Spec => ImplementsFifo
<1>1. Init => Fifo!Init
  <2> SUFFICES ASSUME Init PROVE Fifo!Init
    OBVIOUS
  <2>1. contents = << >>
    BY DEF Init, contents
  <2> QED BY <2>1 DEF Init, Fifo!Init, Fifo!None
<1>2. /\ Inv /\ ContentsFacts /\ ContentsFacts'
      /\ [Next]_vars
      => [Fifo!Next]_Fifo!vars
  <2> SUFFICES ASSUME Inv, ContentsFacts, ContentsFacts', [Next]_vars
               PROVE  [Fifo!Next]_Fifo!vars
    OBVIOUS
  <2>1. CASE UNCHANGED vars
    BY <2>1 DEF vars, contents, Fifo!vars
  <2>2. ASSUME NEW x \in Item, enqueue(x) PROVE [Fifo!Next]_Fifo!vars
    BY <2>2, EnqueueRefines DEF Fifo!Next, Fifo!vars
  <2>3. CASE dequeue
    BY <2>3, DequeueRefines DEF Fifo!Next
  <2>4. CASE peekFront
    BY <2>4, FrontRefines DEF Fifo!Next
  <2> QED BY <2>1, <2>2, <2>3, <2>4 DEF Next
<1> QED BY <1>1, <1>2, TypeAndShape, ContentsIsSeq, PTL DEF Spec, ImplementsFifo, Fifo!Spec
=============================================================================
