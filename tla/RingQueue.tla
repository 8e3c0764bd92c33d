----------------------------- MODULE RingQueue -----------------------------
(***************************************************************************)
(* struct Queue, the circular array that holds the frames in page          *)
(* replacement order in project6, the suspended processes in project5 and  *)
(* the ready and blocked processes in project4 (the three copies of the    *)
(* code are the same).                                                     *)
(***************************************************************************)
EXTENDS Integers, Sequences

CONSTANTS Capacity, Item

ASSUME CapacityAssumption == Capacity \in Nat \ {0}
ASSUME ItemAssumption     == Item \subseteq Nat

VARIABLES front,        \* index of the oldest item
          rear,         \* index of the newest item
          size,         \* number of items
          array,        \* the malloc'ed cells
          returned      \* what the last dequeue() or front() returned

vars == <<front, rear, size, array, returned>>

Index   == 0 .. Capacity - 1
wrap(n) == n % Capacity     \* the index arithmetic of enqueue and dequeue
isFull  == size = Capacity
isEmpty == size = 0

-----------------------------------------------------------------------------

\* createQueue: rear starts one cell before front, and the cells hold
\* whatever malloc returned.
Init ==
  /\ front = 0
  /\ rear = Capacity - 1
  /\ size = 0
  /\ array \in [Index -> Item]
  /\ returned = -1

\* A slip for the mutation runs: the item goes into the cell rear named before
\* the call.
enqueueBeforeRear(x) ==
  \/ isFull /\ UNCHANGED vars
  \/ /\ ~isFull
     /\ rear' = wrap(rear + 1)
     /\ array' = [array EXCEPT ![rear] = x]
     /\ size' = size + 1
     /\ UNCHANGED <<front, returned>>

enqueue(x) ==
  \/ isFull /\ UNCHANGED vars
  \/ /\ ~isFull
     /\ rear' = wrap(rear + 1)
     /\ array' = [array EXCEPT ![rear'] = x]
     /\ size' = size + 1
     /\ UNCHANGED <<front, returned>>

dequeue ==
  \/ isEmpty /\ returned' = -1 /\ UNCHANGED <<front, rear, size, array>>
  \/ /\ ~isEmpty
     /\ returned' = array[front]
     /\ front' = wrap(front + 1)
     /\ size' = size - 1
     /\ UNCHANGED <<rear, array>>

peekFront ==
  /\ returned' = IF isEmpty THEN -1 ELSE array[front]
  /\ UNCHANGED <<front, rear, size, array>>

Next == (\E x \in Item : enqueue(x)) \/ dequeue \/ peekFront

Spec == Init /\ [][Next]_vars

-----------------------------------------------------------------------------

\* The types of the five fields: both indices stay inside the array and the
\* size inside the capacity, so no cell outside the malloc'ed block is touched.
TypeOK ==
  /\ front \in Index
  /\ rear \in Index
  /\ size \in 0 .. Capacity
  /\ array \in [Index -> Item]
  /\ returned \in Item \cup {-1}

\* rear is the last of the size cells that start at front, across every
\* wrap-around and also when the queue is empty: the two indices, moved by
\* different calls, never drift apart.
RingShape == rear = wrap(front + size + Capacity - 1)

Inv == TypeOK /\ RingShape

\* The ring is a bounded first-in first-out queue: the items in the order of
\* the cells from front on are the abstract queue, what dequeue and front
\* return is the oldest of them, and a full queue drops what it is given.
contents == [i \in 1 .. size |-> array[wrap(front + i - 1)]]

Fifo == INSTANCE BoundedFifo WITH queue <- contents

ImplementsFifo == Fifo!Spec
=============================================================================
