---------------------------- MODULE BoundedFifo ----------------------------
(***************************************************************************)
(* What the queue of projects 4, 5 and 6 promises its callers: a first-in  *)
(* first-out queue of at most Capacity items.  enqueue on a full queue     *)
(* drops the item without a word, and dequeue and front on an empty queue  *)
(* return -1.  The ring of RingQueue is shown to implement this, and the   *)
(* modules that use a queue (FrameTable, ResourceManager) use Enqueued and *)
(* a sequence in its place.                                                *)
(***************************************************************************)
EXTENDS Integers, Sequences

CONSTANTS Capacity,     \* what createQueue was called with
          Item          \* what is queued: frame numbers, slots of the PCB table

VARIABLES queue,        \* the items, oldest first
          returned      \* what the last dequeue or front returned

vars == <<queue, returned>>

None == -1              \* returned for an empty queue

-----------------------------------------------------------------------------

\* The sequence s after enqueue(x) on a queue of capacity cap.
Enqueued(cap, s, x) == IF Len(s) = cap THEN s ELSE Append(s, x)

Init == queue = << >> /\ returned = None

Enqueue(x) == queue' = Enqueued(Capacity, queue, x) /\ UNCHANGED returned

Dequeue ==
  \/ queue = << >> /\ returned' = None /\ UNCHANGED queue
  \/ queue # << >> /\ returned' = Head(queue) /\ queue' = Tail(queue)

Front ==
  /\ returned' = IF queue = << >> THEN None ELSE Head(queue)
  /\ UNCHANGED queue

Next == (\E x \in Item : Enqueue(x)) \/ Dequeue \/ Front

Spec == Init /\ [][Next]_vars
=============================================================================
