-------------------------- MODULE Scheduler_proofs --------------------------
(***************************************************************************)
(* Theorems about Scheduler for any number of slots and launches, and for  *)
(* an alarm and an interrupt that may strike at any point of OSS's loop.   *)
(* What the flags of a PCB mean depends on where its slot is, so the       *)
(* invariant follows the slots through the queues and OSS's hand, the      *)
(* process ids through the table, and the quanta through the mailboxes.    *)
(* On it rests that the scheduler implements ProcessStates.                *)
(***************************************************************************)
EXTENDS Scheduler, FiniteSetTheorems, WellFoundedInduction, TLAPS

Queues == Level \cup {Blocked}

Pcb == [pid : Pid \cup {0}, task : Task, ready : BOOLEAN, suspend : BOOLEAN,
        blocked : BOOLEAN, looper : BOOLEAN, completed : BOOLEAN]

NoRepeat(sq) == \A i, j \in 1 .. Len(sq) : sq[i] = sq[j] => i = j

\* A slot is in one queue, once, or in OSS's hand, or in neither; only slots in use
\* are queued, and nothing is queued in the end.
OnePlace ==
  /\ \A q \in Queues : NoRepeat(queue[q])
  /\ \A q, r \in Queues, s \in Slot : holds(q, s) /\ holds(r, s) => q = r
  /\ \A q \in Queues, s \in Slot : holds(q, s) => s # held /\ bitVector[s] = 1
  /\ held # None => bitVector[held] = IF pc = "book" THEN 0 ELSE 1
  /\ pc = "done" => \A q \in Queues : queue[q] = << >>

forked == {p \in Pid : user[p] # "unborn"}

\* A PCB names at most one process, which has been forked; until the alarm OSS has
\* counted every process it has forked, but for the one it is about to book.
PidsAreOwn ==
  /\ \A s, t \in Slot : shmPCB[s].pid = shmPCB[t].pid /\ shmPCB[s].pid # 0 => s = t
  /\ \A s \in Slot : bitVector[s] = 1 \/ s = held => shmPCB[s].pid # 0
  /\ \A s \in Slot : shmPCB[s].pid # 0 => shmPCB[s].pid \in forked
  /\ forked = 1 .. Cardinality(forked)
  /\ ~stopLaunching /\ pc # "done" =>
       Cardinality(forked) = totalLaunched + IF pc = "book" THEN 1 ELSE 0
  /\ pc = "book" => totalLaunched < MaxLaunch

\* What FlagsFitPlace says of the queues, said of OSS's hand.
FlagsOfHeld ==
  /\ pc \in Processing => ~shmPCB[held].suspend
  /\ ~stopLaunching =>
       /\ pc \in {"book", "admit", "wake", "send"} => ~shmPCB[held].completed
       /\ pc \in {"book", "admit", "send"} => ~shmPCB[held].blocked
       /\ \A s \in Slot : holds(Blocked, s) => ~shmPCB[s].completed

\* The quanta OSS has stopped waiting for.
debt == outstanding - IF pc = "await" THEN 1 ELSE 0

QuantaCounted ==
  /\ IsFiniteSet(given)
  /\ pc # "done" => queueUp /\ debt \in {0, 1} /\ (debt = 1 => stopLaunching)
  /\ pc = "await" /\ ~stopLaunching =>
       LET p == shmPCB[held].pid
       IN  toUser[p] = 1 \/ user[p] = "running" \/ toOss = <<p>>

Inv == TypeOK /\ OnePlace /\ PidsAreOwn /\ FlagsFitPlace /\ FlagsOfHeld /\ QuantaCounted

-----------------------------------------------------------------------------
(* Sequences without repetition *)

In(sq, x) == \E i \in 1 .. Len(sq) : sq[i] = x

LEMMA AppendAdds ==
  ASSUME NEW S, NEW sq \in Seq(S), NEW x \in S, ~In(sq, x), NoRepeat(sq)
  PROVE  /\ Append(sq, x) \in Seq(S) /\ NoRepeat(Append(sq, x))
         /\ \A y : In(Append(sq, x), y) <=> In(sq, y) \/ y = x
<1>1. /\ Append(sq, x) \in Seq(S) /\ Len(sq) \in Nat /\ Len(Append(sq, x)) = Len(sq) + 1
      /\ \A i \in 1 .. Len(sq) : Append(sq, x)[i] = sq[i]
      /\ Append(sq, x)[Len(sq) + 1] = x
  OBVIOUS
<1> DEFINE new == Append(sq, x)
<1> HIDE DEF new
<1>2. NoRepeat(new)
  BY <1>1 DEF NoRepeat, In, new
<1>3. ASSUME NEW y PROVE In(new, y) <=> In(sq, y) \/ y = x
  BY <1>1 DEF In, new
<1> QED BY <1>1, <1>2, <1>3 DEF new

LEMMA TailRemoves ==
  ASSUME NEW S, NEW sq \in Seq(S), sq # << >>, NoRepeat(sq)
  PROVE  /\ Tail(sq) \in Seq(S) /\ NoRepeat(Tail(sq))
         /\ Head(sq) \in S /\ In(sq, Head(sq))
         /\ \A y : In(Tail(sq), y) <=> In(sq, y) /\ y # Head(sq)
<1>1. /\ Tail(sq) \in Seq(S) /\ Len(sq) \in Nat \ {0} /\ Len(Tail(sq)) = Len(sq) - 1
      /\ Head(sq) = sq[1] /\ Head(sq) \in S
      /\ \A i \in 1 .. Len(sq) - 1 : Tail(sq)[i] = sq[i + 1]
  OBVIOUS
<1> DEFINE new == Tail(sq)
<1> HIDE DEF new
<1>2. NoRepeat(new)
  BY <1>1 DEF NoRepeat, new
<1>3. ASSUME NEW y PROVE In(new, y) <=> In(sq, y) /\ y # Head(sq)
  <2>1. In(new, y) => In(sq, y) /\ y # Head(sq)
    BY <1>1 DEF In, new, NoRepeat
  <2>2. ASSUME In(sq, y), y # Head(sq) PROVE In(new, y)
    <3>1. PICK i \in 1 .. Len(sq) : sq[i] = y
      BY <2>2 DEF In
    <3>2. i - 1 \in 1 .. Len(sq) - 1 /\ (i - 1) + 1 = i
      BY <1>1, <2>2, <3>1
    <3> QED BY <1>1, <3>1, <3>2 DEF In, new
  <2> QED BY <2>1, <2>2
<1>4. In(sq, Head(sq))
  BY <1>1 DEF In
<1> QED BY <1>1, <1>2, <1>3, <1>4 DEF new

\* A queue without repetition in which a slot is missing is not full.
LEMMA Room ==
  ASSUME NEW sq \in Seq(Slot), NoRepeat(sq), NEW x \in Slot, ~In(sq, x)
  PROVE  Len(sq) < Slots
<1>1. Len(sq) \in Nat
  OBVIOUS
<1>2. IsFiniteSet(Slot) /\ Cardinality(Slot) = Slots
  BY SlotsAssumption, FS_Interval DEF Slot
<1>3. IsFiniteSet(Slot \ {x}) /\ Cardinality(Slot \ {x}) = Slots - 1
  BY <1>2, FS_RemoveElement
<1>4. IsFiniteSet(1 .. Len(sq)) /\ Cardinality(1 .. Len(sq)) = Len(sq)
  BY <1>1, FS_Interval
<1>5. sq \in [1 .. Len(sq) -> Slot \ {x}]
  BY DEF In
<1>6. ~(Cardinality(Slot \ {x}) < Cardinality(1 .. Len(sq)))
  <2>1. ~ \E i, j \in 1 .. Len(sq) : i # j /\ sq[i] = sq[j]
    BY DEF NoRepeat
  <2> QED BY <1>3, <1>4, <1>5, <2>1, FS_PigeonHole
<1> QED BY <1>1, <1>3, <1>4, <1>6, SlotsAssumption

-----------------------------------------------------------------------------
(* The queues *)

LEMMA HoldsIn == \A q, s : holds(q, s) <=> In(queue[q], s)
  BY DEF holds, In

\* A slot that is in no queue finds room in any.
LEMMA EnqueueEffect ==
  ASSUME queue \in [Queues -> Seq(Slot)], NEW q \in Queues, NEW h \in Slot,
         NoRepeat(queue[q]), ~holds(q, h), queue' = enqueue(queue, q, h)
  PROVE  /\ queue' \in [Queues -> Seq(Slot)]
         /\ \A r \in Queues : NoRepeat(queue[r]) => NoRepeat(queue'[r])
         /\ \A r \in Queues, s \in Slot : holds(r, s)' <=> holds(r, s) \/ (r = q /\ s = h)
<1>1. ~In(queue[q], h) /\ queue[q] \in Seq(Slot)
  BY HoldsIn
<1>2. Len(queue[q]) # Slots
  BY <1>1, Room, SlotsAssumption
<1>3. queue' = [queue EXCEPT ![q] = Append(queue[q], h)]
  BY <1>2 DEF enqueue, Fifo!Enqueued
<1>4. /\ Append(queue[q], h) \in Seq(Slot) /\ NoRepeat(Append(queue[q], h))
      /\ \A y : In(Append(queue[q], h), y) <=> In(queue[q], y) \/ y = h
  BY <1>1, AppendAdds
<1>5. \A r \in Queues : queue'[r] = IF r = q THEN Append(queue[q], h) ELSE queue[r]
  BY <1>3
<1>6. \A r, s : holds(r, s)' <=> In(queue'[r], s)
  BY DEF holds, In
<1>7. queue' \in [Queues -> Seq(Slot)]
  BY <1>3, <1>4
<1> QED BY <1>4, <1>5, <1>6, <1>7, HoldsIn

LEMMA DequeueEffect ==
  ASSUME queue \in [Queues -> Seq(Slot)], NEW q \in Queues, ~isEmpty(q),
         NoRepeat(queue[q]), queue' = dequeue(queue, q)
  PROVE  /\ queue' \in [Queues -> Seq(Slot)]
         /\ \A r \in Queues : NoRepeat(queue[r]) => NoRepeat(queue'[r])
         /\ Head(queue[q]) \in Slot /\ holds(q, Head(queue[q]))
         /\ \A r \in Queues, s \in Slot :
              holds(r, s)' <=> holds(r, s) /\ ~(r = q /\ s = Head(queue[q]))
<1>1. queue[q] \in Seq(Slot) /\ queue[q] # << >>
  BY DEF isEmpty
<1>2. /\ Tail(queue[q]) \in Seq(Slot) /\ NoRepeat(Tail(queue[q]))
      /\ Head(queue[q]) \in Slot /\ In(queue[q], Head(queue[q]))
      /\ \A y : In(Tail(queue[q]), y) <=> In(queue[q], y) /\ y # Head(queue[q])
  BY <1>1, TailRemoves
<1>3. queue' = [queue EXCEPT ![q] = Tail(queue[q])]
  BY DEF dequeue
<1>4. \A r \in Queues : queue'[r] = IF r = q THEN Tail(queue[q]) ELSE queue[r]
  BY <1>3
<1>5. \A r, s : holds(r, s)' <=> In(queue'[r], s)
  BY DEF holds, In
<1>6. queue' \in [Queues -> Seq(Slot)]
  BY <1>2, <1>3
<1> QED BY <1>2, <1>4, <1>5, <1>6, HoldsIn

-----------------------------------------------------------------------------
(* What a step does to the places of the slots *)

Hands == Processing \cup {"book", "admit", "wake"}

\* OSS takes the front of queue q into its hand.
Take(q) ==
  /\ q \in Queues
  /\ pc \notin Hands \cup {"done"} /\ pc' \in {"admit", "wake", "send"}
  /\ ~isEmpty(q)
  /\ held' = Head(queue[q]) /\ queue' = dequeue(queue, q)
  /\ UNCHANGED <<bitVector, currentLaunched, totalLaunched, stopLaunching>>

\* OSS puts what it has in its hand into queue q.
Put(q) ==
  /\ q \in Queues
  /\ pc \in Hands /\ pc' \notin Hands \cup {"done"}
  /\ queue' = enqueue(queue, q, held) /\ held' = None
  /\ IF pc = "book"
     THEN /\ bitVector' = [bitVector EXCEPT ![held] = 1]
          /\ currentLaunched' = currentLaunched + 1 /\ totalLaunched' = totalLaunched + 1
     ELSE UNCHANGED <<bitVector, currentLaunched, totalLaunched>>
  /\ UNCHANGED stopLaunching

\* OSS ends: every queue is emptied.
Clear == /\ queue' = [q \in Queues |-> << >>] /\ held' = None /\ pc' = "done"
         /\ UNCHANGED <<bitVector, currentLaunched, totalLaunched, stopLaunching>>

\* Nothing moves.
Rest == /\ UNCHANGED <<queue, held, bitVector, currentLaunched, totalLaunched>>
        /\ UNCHANGED stopLaunching
        /\ pc \in Hands <=> pc' \in Hands
        /\ pc = "book" <=> pc' = "book"
        /\ pc = "done" <=> pc' = "done"

LEMMA UserStepsRest == ASSUME NEW p, UserStep(p) PROVE Rest /\ UNCHANGED pc
  BY DEF UserStep, Connect, TakeQuantum, Work, QueueGone, Rest, loopVars, launchVars,
         clockVars, mailVars

LEMMA PlaceSteps ==
  ASSUME TypeOK, [Next]_vars
  PROVE  Rest \/ Fork \/ Complete \/ Alarm \/ Clear \/ (\E q \in Queues : Take(q) \/ Put(q))
<1> USE DEF Hands, Processing, Rest, Take, Put, Clear, loopVars, launchVars, clockVars, Queues
<1> USE DEF Point, Level, Blocked
<1>1. CASE UNCHANGED vars
  BY <1>1 DEF vars
<1>2. CASE StartScheduling \/ NoLaunch \/ NoWake \/ Skip \/ Send \/ Receive \/ Reset \/ Ended
  BY <1>2 DEF StartScheduling, NoLaunch, NoWake, Skip, Send, Receive, Reset, Ended, nextLevel,
              vars
<1>3. CASE \E p \in Pid : UserStep(p)
  BY <1>3, UserStepsRest
<1>4. ASSUME Finish \/ Interrupt PROVE Clear
  BY <1>4 DEF Finish, Interrupt, cleanUp, TypeOK
<1>5. CASE Admit
  BY <1>5 DEF Admit, suspendedFirst
<1>6. CASE TakeBlocked
  BY <1>6 DEF TakeBlocked
<1>7. CASE Dispatch
  BY <1>7 DEF Dispatch, runnable, TypeOK
<1>8. CASE Book
  BY <1>8 DEF Book
<1>9. CASE Admitted
  BY <1>9 DEF Admitted
<1>10. CASE Wake
  BY <1>10 DEF Wake
<1>11. CASE Block
  BY <1>11 DEF Block, nextLevel
<1>12. CASE Keep
  BY <1>12 DEF Keep, requeue, nextLevel, TypeOK
<1>13. CASE Demote
  BY <1>13 DEF Demote, requeue, nextLevel, TypeOK
<1> QED
  BY <1>1, <1>2, <1>3, <1>4, <1>5, <1>6, <1>7, <1>8, <1>9, <1>10, <1>11, <1>12,
     <1>13
  DEF Next, OssStep

\* getAvailableLocation returns a member of the set it searches.
LEMMA MinIsMember ==
  ASSUME NEW S, S \subseteq Nat, S # {}
  PROVE  Min(S) \in S
<1> DEFINE below == OpToRel(<, Nat)
<1>1. IsWellFoundedOn(below, Nat)
  BY NatLessThanWellFounded
<1>2. \A x, y \in Nat : y < x => <<y, x>> \in below
  BY DEF OpToRel
<1> HIDE DEF below
<1>3. PICK x \in S : \A y \in S : ~(<<y, x>> \in below)
  BY <1>1, WFMin
<1>4. ASSUME NEW y \in S PROVE x =< y
  <2>1. x \in Nat /\ y \in Nat
    OBVIOUS
  <2>2. ~(y < x)
    BY <1>2, <1>3, <2>1
  <2> QED BY <2>1, <2>2
<1>5. \E z \in S : \A y \in S : z =< y
  BY <1>4
<1> QED BY <1>5, Zenon DEF Min

LEMMA NoneIsNoSlot == None \notin Slot
  BY SlotsAssumption DEF None, Slot

LEMMA TakeKeepsPlaces ==
  ASSUME TypeOK, OnePlace, NEW q \in Queues, Take(q)
  PROVE  /\ OnePlace' /\ queue' \in [Queues -> Seq(Slot)]
         /\ held = None /\ held' \in Slot /\ holds(q, held')
         /\ \A r \in Queues, s \in Slot : holds(r, s)' <=> holds(r, s) /\ s # held'
<1>1. queue \in [Queues -> Seq(Slot)] /\ NoRepeat(queue[q])
  BY DEF TypeOK, OnePlace, Queues
<1>2. /\ queue' \in [Queues -> Seq(Slot)]
      /\ \A r \in Queues : NoRepeat(queue[r]) => NoRepeat(queue'[r])
      /\ held' \in Slot /\ holds(q, held')
      /\ \A r \in Queues, s \in Slot : holds(r, s)' <=> holds(r, s) /\ ~(r = q /\ s = held')
  BY <1>1, DequeueEffect, Zenon DEF Take
<1>3. \A r \in Queues, s \in Slot : holds(r, s)' <=> holds(r, s) /\ s # held'
  BY <1>2 DEF OnePlace
<1>4. pc' # "book" /\ pc' # "done" /\ bitVector' = bitVector /\ held = None
  BY DEF Take, TypeOK, Hands
<1> HIDE DEF holds
<1>5. \A r \in Queues : NoRepeat(queue'[r])
  BY <1>2 DEF OnePlace
<1>6. \A r, t \in Queues, s \in Slot : holds(r, s)' /\ holds(t, s)' => r = t
  BY <1>3 DEF OnePlace
<1>7. \A r \in Queues, s \in Slot : holds(r, s)' => s # held' /\ bitVector'[s] = 1
  BY <1>3, <1>4 DEF OnePlace
<1>8. bitVector'[held'] = 1
  BY <1>2, <1>4 DEF OnePlace
<1> QED BY <1>2, <1>3, <1>4, <1>5, <1>6, <1>7, <1>8 DEF OnePlace

LEMMA PutKeepsPlaces ==
  ASSUME TypeOK, OnePlace, NEW q \in Queues, Put(q)
  PROVE  /\ OnePlace' /\ queue' \in [Queues -> Seq(Slot)]
         /\ held \in Slot /\ held' = None /\ bitVector'[held] = 1
         /\ \A s \in Slot : s # held => bitVector'[s] = bitVector[s]
         /\ \A r \in Queues, s \in Slot : holds(r, s)' <=> holds(r, s) \/ (r = q /\ s = held)
<1>1. held # None /\ held \in Slot
  BY NoneIsNoSlot DEF Put, TypeOK, Hands
<1>2. queue \in [Queues -> Seq(Slot)] /\ NoRepeat(queue[q]) /\ ~holds(q, held)
  BY <1>1 DEF TypeOK, OnePlace, Queues
<1>3. /\ queue' \in [Queues -> Seq(Slot)]
      /\ \A r \in Queues : NoRepeat(queue[r]) => NoRepeat(queue'[r])
      /\ \A r \in Queues, s \in Slot : holds(r, s)' <=> holds(r, s) \/ (r = q /\ s = held)
  BY <1>1, <1>2, EnqueueEffect, Zenon DEF Put
<1>4. pc' # "book" /\ pc' # "done" /\ held' = None
  BY DEF Put, Hands
<1>5. bitVector'[held] = 1 /\ \A s \in Slot : s # held => bitVector'[s] = bitVector[s]
  <2>1. CASE pc = "book"
    BY <1>1, <2>1 DEF Put, TypeOK
  <2>2. CASE pc # "book"
    BY <1>1, <2>2 DEF Put, OnePlace
  <2> QED BY <2>1, <2>2
<1>6. \A r \in Queues : NoRepeat(queue'[r])
  BY <1>3 DEF OnePlace
<1>7. \A r, t \in Queues, s \in Slot : holds(r, s)' /\ holds(t, s)' => r = t
  BY <1>3 DEF OnePlace
<1>8. \A r \in Queues, s \in Slot : holds(r, s)' => s # held' /\ bitVector'[s] = 1
  BY <1>3, <1>4, <1>5, NoneIsNoSlot DEF OnePlace
<1> QED BY <1>1, <1>3, <1>4, <1>5, <1>6, <1>7, <1>8 DEF OnePlace

LEMMA ForkTakesFreeSlot ==
  ASSUME TypeOK, Fork PROVE held' \in Slot /\ bitVector[held'] = 0
<1>1. available \subseteq Nat /\ available # {}
  BY SlotsAssumption DEF available, Slot, Fork
<1>2. Min(available) \in available
  BY <1>1, MinIsMember
<1> QED BY <1>2 DEF Fork, available

LEMMA PlacesKept == TypeOK /\ OnePlace /\ [Next]_vars => OnePlace'
<1> SUFFICES ASSUME TypeOK, OnePlace, [Next]_vars PROVE OnePlace'
  OBVIOUS
<1>1. ASSUME Rest PROVE OnePlace'
  <2>1. \A q, s : holds(q, s)' <=> holds(q, s)
    BY <1>1 DEF Rest, holds
  <2> QED BY <1>1, <2>1 DEF Rest, OnePlace
<1>2. ASSUME Fork PROVE OnePlace'
  <2>1. held' \in Slot /\ bitVector[held'] = 0
    BY <1>2, ForkTakesFreeSlot
  <2>2. /\ queue' = queue /\ bitVector' = bitVector /\ pc' = "book"
        /\ \A q, s : holds(q, s)' <=> holds(q, s)
    BY <1>2 DEF Fork, holds, launchVars
  <2>3. \A q \in Queues, s \in Slot : holds(q, s) => s # held'
    BY <2>1 DEF OnePlace
  <2> QED BY <2>1, <2>2, <2>3 DEF OnePlace
<1>3. ASSUME Complete PROVE OnePlace'
  <2>1. held \in Slot /\ held # None
    BY <1>3, NoneIsNoSlot DEF Complete, TypeOK, Processing
  <2>2. /\ queue' = queue /\ held' = None /\ pc' \notin {"book", "done"}
        /\ \A s \in Slot : bitVector'[s] = IF s = held THEN 0 ELSE bitVector[s]
        /\ \A q, s : holds(q, s)' <=> holds(q, s)
    BY <1>3, <2>1 DEF Complete, holds, nextLevel, TypeOK
  <2> QED BY <2>1, <2>2, NoneIsNoSlot DEF OnePlace
<1>4. ASSUME Alarm PROVE OnePlace'
  <2>1. /\ queue' = queue /\ held' = None /\ pc' # "done" /\ bitVector' = bitVector
        /\ \A q, s : holds(q, s)' <=> holds(q, s)
    BY <1>4 DEF Alarm, holds, launchVars
  <2> QED BY <2>1, NoneIsNoSlot DEF OnePlace
<1>5. ASSUME Clear PROVE OnePlace'
  <2>1. /\ \A q \in Queues : queue'[q] = << >> /\ NoRepeat(queue'[q])
        /\ \A q \in Queues : \A s : ~holds(q, s)'
        /\ held' = None
    BY <1>5 DEF Clear, NoRepeat, holds
  <2> QED BY <2>1 DEF OnePlace
<1> QED
  BY <1>1, <1>2, <1>3, <1>4, <1>5, PlaceSteps, TakeKeepsPlaces, PutKeepsPlaces

-----------------------------------------------------------------------------
(* The process control table *)

\* Only childLauncher's child writes a process id.
LEMMA PidsStay ==
  ASSUME TypeOK, [Next]_vars, ~Fork
  PROVE  \A s \in Slot : shmPCB'[s].pid = shmPCB[s].pid
<1> SUFFICES ASSUME NEW s \in Slot PROVE shmPCB'[s].pid = shmPCB[s].pid
  OBVIOUS
<1>1. shmPCB \in [Slot -> Pcb]
  BY DEF TypeOK, Pcb
<1>2. CASE UNCHANGED shmPCB
  BY <1>2
<1>3. CASE Admitted
  BY <1>1, <1>3 DEF Admitted, Pcb
<1>4. CASE Wake
  BY <1>1, <1>4 DEF Wake, Pcb
<1>5. CASE Keep
  BY <1>1, <1>5 DEF Keep, requeue, Pcb
<1>6. CASE Demote
  BY <1>1, <1>6 DEF Demote, requeue, Pcb
<1>7. CASE Reset
  BY <1>1, <1>7 DEF Reset, Pcb
<1>8. ASSUME NEW p \in Pid, Connect(p) PROVE shmPCB'[s].pid = shmPCB[s].pid
  BY <1>1, <1>8 DEF Connect, Pcb
<1>9. ASSUME NEW p \in Pid, Work(p) PROVE shmPCB'[s].pid = shmPCB[s].pid
  BY <1>1, <1>9 DEF Work, Pcb
<1> QED
  BY <1>2, <1>3, <1>4, <1>5, <1>6, <1>7, <1>8, <1>9
  DEF Next, OssStep, UserStep, vars, Book, StartScheduling, NoLaunch, Finish, Admit, TakeBlocked,
      NoWake, Skip, Dispatch, Send, Receive, Complete, Block, Alarm, Interrupt, TakeQuantum,
      QueueGone, Ended

LEMMA ForkedStays ==
  ASSUME TypeOK, OnePlace, PidsAreOwn, [Next]_vars, ~Fork PROVE forked' = forked
<1>1. CASE UNCHANGED user
  BY <1>1 DEF forked
<1>2. ASSUME NEW p \in Pid, UserStep(p) PROVE forked' = forked
  BY <1>2 DEF UserStep, Connect, TakeQuantum, Work, QueueGone, forked, TypeOK
<1>3. CASE Interrupt
  <2> DEFINE killed == {shmPCB[s].pid : s \in {t \in Slot :
                          \E q \in DOMAIN queue, i \in 1 .. Slots :
                            i \in DOMAIN queue[q] /\ queue[q][i] = t}}
  <2>1. user' = [p \in Pid |-> IF p \in killed THEN "gone" ELSE user[p]]
    BY <1>3 DEF Interrupt, cleanUp
  <2>2. ASSUME NEW p \in killed PROVE p \in forked
    <3>1. PICK s \in Slot, q \in Queues : holds(q, s) /\ p = shmPCB[s].pid
      BY <2>2 DEF TypeOK, holds, Queues
    <3> QED BY <3>1 DEF OnePlace, PidsAreOwn
  <2> HIDE DEF killed
  <2> QED BY <2>1, <2>2 DEF forked
<1>4. CASE Finish
  BY <1>4 DEF Finish, cleanUp, forked
<1> QED
  BY <1>1, <1>2, <1>3, <1>4
  DEF Next, OssStep, vars, Book, StartScheduling, NoLaunch, Admit, Admitted, TakeBlocked, Wake,
      NoWake, Skip, Dispatch, Send, Receive, Complete, Block, Keep, Demote, requeue, Reset, Alarm,
      Ended

\* The id of a new process is one that no process has had.
LEMMA ForkTakesNewPid ==
  ASSUME TypeOK, PidsAreOwn, Fork
  PROVE  /\ nextPid \in Pid \ forked
         /\ nextPid = totalLaunched + 1
         /\ forked' = 1 .. nextPid /\ Cardinality(forked') = nextPid
         /\ shmPCB' = [shmPCB EXCEPT ![held'] = initPCB(nextPid)]
<1> DEFINE n == Cardinality(forked)
<1>1. nextPid = n + 1
  BY DEF nextPid, forked
<1>2. n = totalLaunched /\ totalLaunched \in Nat /\ totalLaunched < MaxLaunch
  BY LaunchAssumption DEF Fork, PidsAreOwn, TypeOK
<1>3. forked = 1 .. n
  BY DEF PidsAreOwn
<1> HIDE DEF n
<1>4. nextPid \in Pid \ forked
  BY <1>1, <1>2, <1>3, LaunchAssumption DEF Pid
<1>5. forked' = forked \cup {nextPid}
  BY <1>4 DEF Fork, forked, TypeOK
<1>6. forked' = 1 .. nextPid
  BY <1>1, <1>2, <1>3, <1>5
<1>7. nextPid = totalLaunched + 1 /\ Cardinality(1 .. nextPid) = nextPid
  BY <1>1, <1>2, FS_Interval
<1> QED BY <1>4, <1>6, <1>7 DEF Fork

LEMMA PidsKept == TypeOK /\ OnePlace /\ PidsAreOwn /\ [Next]_vars => PidsAreOwn'
<1> SUFFICES ASSUME TypeOK, OnePlace, PidsAreOwn, [Next]_vars PROVE PidsAreOwn'
  OBVIOUS
<1>1. CASE Fork
  <2>1. /\ held' \in Slot /\ bitVector' = bitVector
        /\ pc' = "book" /\ totalLaunched' = totalLaunched /\ totalLaunched < MaxLaunch
    BY <1>1, ForkTakesFreeSlot DEF Fork, launchVars
  <2>2. /\ nextPid \in Pid \ forked /\ nextPid # 0
        /\ forked' = 1 .. nextPid /\ Cardinality(forked') = nextPid
        /\ nextPid = totalLaunched + 1
    BY <1>1, ForkTakesNewPid DEF Pid
  <2>3. \A s \in Slot : shmPCB'[s].pid = IF s = held' THEN nextPid ELSE shmPCB[s].pid
    BY <1>1, <2>1, ForkTakesNewPid DEF initPCB, TypeOK
  <2>4. forked \subseteq forked' /\ nextPid \in forked'
    BY <1>1, <2>2, ForkTakesNewPid DEF Fork, forked, TypeOK
  <2> QED BY <2>1, <2>2, <2>3, <2>4 DEF PidsAreOwn
<1>2. CASE ~Fork
  <2>1. forked' = forked /\ \A s \in Slot : shmPCB'[s].pid = shmPCB[s].pid
    BY <1>2, ForkedStays, PidsStay
  <2>2. \A s \in Slot : bitVector'[s] = 1 \/ s = held' => bitVector[s] = 1 \/ s = held
    <3>1. CASE Rest
      BY <3>1 DEF Rest
    <3>2. CASE Complete \/ Alarm \/ Clear
      BY <3>2, NoneIsNoSlot DEF Complete, Alarm, Clear, launchVars, TypeOK
    <3>3. CASE \E q \in Queues : Take(q)
      BY <3>3, TakeKeepsPlaces DEF Take, OnePlace
    <3>4. CASE \E q \in Queues : Put(q)
      BY <3>4, PutKeepsPlaces, NoneIsNoSlot
    <3> QED BY <1>2, <3>1, <3>2, <3>3, <3>4, PlaceSteps
  <2>3. ASSUME ~stopLaunching', pc' # "done"
        PROVE  /\ ~stopLaunching /\ pc # "done"
               /\ totalLaunched' + (IF pc' = "book" THEN 1 ELSE 0)
                    = totalLaunched + (IF pc = "book" THEN 1 ELSE 0)
    <3> USE DEF TypeOK
    <3>1. CASE Rest
      BY <2>3, <3>1 DEF Rest
    <3>2. CASE Complete
      BY <2>3, <3>2 DEF Complete, nextLevel, clockVars
    <3>3. CASE Alarm \/ Clear
      BY <2>3, <3>3 DEF Alarm, Clear
    <3>4. CASE \E q \in Queues : Take(q) \/ Put(q)
      BY <2>3, <3>4 DEF Take, Put, Hands, Processing
    <3> QED BY <1>2, <3>1, <3>2, <3>3, <3>4, PlaceSteps
  <2>4. pc' = "book" => totalLaunched' < MaxLaunch
    <3>1. pc' = "book" => Rest
      BY <1>2, PlaceSteps DEF Complete, nextLevel, Alarm, Clear, Take, Put, Hands
    <3> QED BY <3>1 DEF Rest, PidsAreOwn
  <2> QED BY <2>1, <2>2, <2>3, <2>4 DEF PidsAreOwn
<1> QED BY <1>1, <1>2

-----------------------------------------------------------------------------
(* The quanta *)

LEMMA PidsAreFinite == IsFiniteSet(Pid)
  BY LaunchAssumption, FS_Interval DEF Pid

LEMMA GivenMembers ==
  ASSUME toUser \in [Pid -> Nat], NEW x
  PROVE  x \in given <=> \E p \in Pid : \E i \in 1 .. toUser[p] : x = <<p, i>>
  BY DEF given

\* What the parts of the sum are at least.
LEMMA QuantaSeen ==
  ASSUME TypeOK, IsFiniteSet(given)
  PROVE  /\ Cardinality(given) \in Nat /\ Cardinality(working) \in Nat /\ Len(toOss) \in Nat
         /\ outstanding \in Nat
         /\ \A p \in Pid : toUser[p] <= Cardinality(given)
         /\ working # {} => Cardinality(working) >= 1
         /\ toOss # << >> => Len(toOss) >= 1
<1>1. IsFiniteSet(working)
  BY PidsAreFinite, FS_Subset DEF working
<1>2. Cardinality(given) \in Nat /\ Cardinality(working) \in Nat /\ Len(toOss) \in Nat
  BY <1>1, FS_CardinalityType DEF TypeOK
<1>3. outstanding \in Nat
  BY <1>2 DEF outstanding
<1>4. working # {} => Cardinality(working) >= 1
  BY <1>1, <1>2, FS_EmptySet
<1>5. toOss # << >> => Len(toOss) >= 1
  BY DEF TypeOK
<1>6. ASSUME NEW p \in Pid PROVE toUser[p] <= Cardinality(given)
  <2>1. toUser \in [Pid -> Nat] /\ toUser[p] \in 0 .. 2
    BY DEF TypeOK
  <2>2. ASSUME NEW T \in SUBSET given PROVE Cardinality(T) <= Cardinality(given)
    BY FS_Subset
  <2>3. CASE toUser[p] = 0
    BY <1>2, <2>3
  <2>4. CASE toUser[p] = 1
    <3>1. {<<p, 1>>} \in SUBSET given
      BY <2>1, <2>4, GivenMembers
    <3>2. Cardinality({<<p, 1>>}) = 1
      BY FS_Singleton
    <3> QED BY <2>2, <2>4, <3>1, <3>2
  <2>5. CASE toUser[p] = 2
    <3>1. {<<p, 1>>} \cup {<<p, 2>>} \in SUBSET given
      BY <2>1, <2>5, GivenMembers
    <3>2. Cardinality({<<p, 1>>} \cup {<<p, 2>>}) = 2
      <4>1. IsFiniteSet({<<p, 1>>}) /\ Cardinality({<<p, 1>>}) = 1
        BY FS_Singleton
      <4>2. <<p, 2>> \notin {<<p, 1>>}
        OBVIOUS
      <4>3. Cardinality({<<p, 1>>} \cup {<<p, 2>>}) = Cardinality({<<p, 1>>}) + 1
        BY <4>1, <4>2, FS_AddElement
      <4> QED BY <4>1, <4>3
    <3> QED BY <2>2, <2>5, <3>1, <3>2
  <2> QED BY <2>1, <2>3, <2>4, <2>5
<1> QED BY <1>2, <1>3, <1>4, <1>5, <1>6

LEMMA SendGives ==
  ASSUME TypeOK, IsFiniteSet(given), NEW p \in Pid, toUser' = [toUser EXCEPT ![p] = @ + 1]
  PROVE  IsFiniteSet(given') /\ Cardinality(given') = Cardinality(given) + 1
<1>1. toUser \in [Pid -> Nat] /\ toUser' \in [Pid -> Nat]
  <2>1. toUser \in [Pid -> 0 .. 2]
    BY DEF TypeOK
  <2> QED BY <2>1
<1>2. \A x : x \in given' <=> \E o \in Pid : \E i \in 1 .. toUser'[o] : x = <<o, i>>
  BY <1>1 DEF given
<1>3. <<p, toUser[p] + 1>> \notin given
  BY <1>1, GivenMembers
<1>4. given' = given \cup {<<p, toUser[p] + 1>>}
  <2>1. ASSUME NEW x PROVE x \in given' <=> x \in given \/ x = <<p, toUser[p] + 1>>
    <3>1. \A o \in Pid, i \in Nat : i \in 1 .. toUser'[o] <=>
             i \in 1 .. toUser[o] \/ (o = p /\ i = toUser[p] + 1)
      BY <1>1
    <3> QED BY <1>1, <1>2, <3>1, GivenMembers
  <2> HIDE DEF given
  <2> QED BY <2>1
<1> QED BY <1>3, <1>4, FS_AddElement

LEMMA TakeQuantumTakes ==
  ASSUME TypeOK, IsFiniteSet(given), NEW p \in Pid, toUser[p] > 0,
         toUser' = [toUser EXCEPT ![p] = @ - 1]
  PROVE  IsFiniteSet(given') /\ Cardinality(given') = Cardinality(given) - 1
<1>1. toUser \in [Pid -> Nat] /\ toUser' \in [Pid -> Nat]
  <2>1. toUser \in [Pid -> 0 .. 2]
    BY DEF TypeOK
  <2> QED BY <2>1
<1>2. \A x : x \in given' <=> \E o \in Pid : \E i \in 1 .. toUser'[o] : x = <<o, i>>
  BY <1>1 DEF given
<1>3. <<p, toUser[p]>> \in given
  BY <1>1, GivenMembers
<1>4. given' = given \ {<<p, toUser[p]>>}
  <2>1. ASSUME NEW x PROVE x \in given' <=> x \in given /\ x # <<p, toUser[p]>>
    <3>1. \A o \in Pid, i \in Nat : i \in 1 .. toUser'[o] <=>
             i \in 1 .. toUser[o] /\ ~(o = p /\ i = toUser[p])
      BY <1>1
    <3> QED BY <1>1, <1>2, <3>1, GivenMembers
  <2> HIDE DEF given
  <2> QED BY <2>1
<1> QED BY <1>3, <1>4, FS_RemoveElement

LEMMA StartsWorking ==
  ASSUME TypeOK, NEW p \in Pid, user[p] # "running", user' = [user EXCEPT ![p] = "running"]
  PROVE  Cardinality(working') = Cardinality(working) + 1
<1>1. IsFiniteSet(working) /\ p \notin working
  BY PidsAreFinite, FS_Subset DEF working
<1>2. working' = working \cup {p}
  BY DEF working, TypeOK
<1> QED BY <1>1, <1>2, FS_AddElement

LEMMA StopsWorking ==
  ASSUME TypeOK, NEW p \in Pid, user[p] = "running", NEW u, u # "running",
         user' = [user EXCEPT ![p] = u]
  PROVE  Cardinality(working') = Cardinality(working) - 1
<1>1. IsFiniteSet(working) /\ p \in working
  BY PidsAreFinite, FS_Subset DEF working
<1>2. working' = working \ {p}
  BY DEF working, TypeOK
<1> QED BY <1>1, <1>2, FS_RemoveElement

LEMMA AwaitSteps ==
  ASSUME TypeOK, [Next]_vars, pc' = "await"
  PROVE  Send \/ UNCHANGED vars \/ \E p \in Pid : UserStep(p)
  BY DEF Next, OssStep, Fork, Book, StartScheduling, NoLaunch, Finish, cleanUp, Admit, Admitted,
      TakeBlocked, Wake, NoWake, Skip, Dispatch, Receive, Complete, Block, Keep, Demote, requeue,
      Reset, Alarm, Interrupt, Ended, nextLevel, TypeOK, Level

\* The process OSS has in hand once it has dispatched one.
LEMMA HeldPid ==
  ASSUME TypeOK, PidsAreOwn, pc \in Processing
  PROVE  held \in Slot /\ shmPCB[held].pid \in Pid
<1>1. held \in Slot
  BY NoneIsNoSlot DEF TypeOK
<1> QED BY <1>1 DEF PidsAreOwn, forked

LEMMA SendCounted == ASSUME Inv, Send PROVE QuantaCounted'
<1> DEFINE p == shmPCB[held].pid
<1>1. p \in Pid /\ TypeOK /\ QuantaCounted /\ pc = "send"
  BY HeldPid DEF Inv, Send, Processing
<1>2. /\ toUser' = [toUser EXCEPT ![p] = @ + 1] /\ pc' = "await"
      /\ UNCHANGED <<toOss, user, shmPCB, held, stopLaunching, queueUp>>
  BY DEF Send, loopVars, clockVars
<1> HIDE DEF p
<1>3. IsFiniteSet(given') /\ Cardinality(given') = Cardinality(given) + 1
  BY <1>1, <1>2, SendGives DEF QuantaCounted
<1>4. working' = working
  BY <1>2 DEF working
<1>5. /\ Cardinality(given) \in Nat /\ Cardinality(working) \in Nat /\ Len(toOss) \in Nat
      /\ toUser[p] <= Cardinality(given)
  BY <1>1, QuantaSeen DEF QuantaCounted
<1>6. outstanding' = outstanding + 1 /\ debt' = debt
  BY <1>1, <1>2, <1>3, <1>4, <1>5 DEF outstanding, debt
<1>7. ~stopLaunching => toUser[p] = 0
  <2>1. toUser[p] \in 0 .. 2
    BY <1>1 DEF TypeOK
  <2> QED BY <1>1, <1>5, <2>1 DEF QuantaCounted, debt, outstanding
<1>8. ~stopLaunching => toUser'[p] = 1
  <2>1. toUser \in [Pid -> 0 .. 2]
    BY <1>1 DEF TypeOK
  <2> QED BY <1>1, <1>2, <1>7, <2>1
<1>9. p = shmPCB'[held'].pid
  BY <1>2 DEF p
<1> QED BY <1>1, <1>2, <1>3, <1>6, <1>8, <1>9 DEF QuantaCounted

LEMMA TakeQuantumCounted ==
  ASSUME Inv, NEW o \in Pid, TakeQuantum(o) PROVE QuantaCounted'
<1>1. TypeOK /\ QuantaCounted
  BY DEF Inv
<1>2. /\ user[o] = "waiting" /\ user' = [user EXCEPT ![o] = "running"]
      /\ toUser[o] > 0 /\ toUser' = [toUser EXCEPT ![o] = @ - 1]
      /\ UNCHANGED <<toOss, pc, shmPCB, held, stopLaunching, queueUp>>
  BY DEF TakeQuantum, loopVars, clockVars
<1>3. IsFiniteSet(given') /\ Cardinality(given') = Cardinality(given) - 1
  BY <1>1, <1>2, TakeQuantumTakes DEF QuantaCounted
<1>4. Cardinality(working') = Cardinality(working) + 1
  BY <1>1, <1>2, StartsWorking
<1>5. Cardinality(given) \in Nat /\ Cardinality(working) \in Nat /\ Len(toOss) \in Nat
  BY <1>1, QuantaSeen DEF QuantaCounted
<1>6. outstanding' = outstanding /\ debt' = debt
  BY <1>2, <1>3, <1>4, <1>5 DEF outstanding, debt
<1>7. \A p \in Pid : /\ p # o => toUser'[p] = toUser[p] /\ user'[p] = user[p]
                     /\ user'[o] = "running"
  BY <1>1, <1>2 DEF TypeOK
<1>8. ASSUME pc = "await" PROVE shmPCB[held].pid \in Pid
  BY <1>8, HeldPid DEF Inv, Processing
<1> QED BY <1>1, <1>2, <1>3, <1>6, <1>7, <1>8 DEF QuantaCounted

LEMMA WorkCounted ==
  ASSUME Inv, NEW o \in Pid, Work(o) PROVE QuantaCounted'
<1>1. TypeOK /\ QuantaCounted
  BY DEF Inv
<1>2. PICK u \in {"gone", "waiting"} : user' = [user EXCEPT ![o] = u]
  BY DEF Work
<1>3. /\ user[o] = "running" /\ toOss' = IF queueUp THEN Append(toOss, o) ELSE toOss
      /\ UNCHANGED <<toUser, pc, held, stopLaunching, queueUp>>
  BY DEF Work, loopVars, clockVars
<1>4. given' = given
  BY <1>3 DEF given
<1>5. Cardinality(working') = Cardinality(working) - 1
  BY <1>1, <1>2, <1>3, StopsWorking
<1>6. /\ Cardinality(given) \in Nat /\ Cardinality(working) \in Nat /\ Len(toOss) \in Nat
      /\ \A p \in Pid : toUser[p] <= Cardinality(given)
      /\ Cardinality(working) >= 1 /\ (toOss # << >> => Len(toOss) >= 1)
  <2>1. working # {}
    BY <1>3 DEF working
  <2> QED BY <1>1, <2>1, QuantaSeen DEF QuantaCounted
<1>7. ASSUME pc # "done" PROVE outstanding' = outstanding /\ debt' = debt
  <2>1. Len(toOss') = Len(toOss) + 1
    BY <1>1, <1>3, <1>7 DEF TypeOK, QuantaCounted
  <2> QED BY <1>3, <1>4, <1>5, <1>6, <2>1 DEF outstanding, debt
<1>8. ASSUME pc = "await", ~stopLaunching
      PROVE  LET p == shmPCB'[held].pid
             IN  toUser[p] = 1 \/ user'[p] = "running" \/ toOss' = <<p>>
  <2>1. held \in Slot /\ shmPCB[held].pid \in Pid /\ shmPCB'[held].pid = shmPCB[held].pid
    <3>1. ~Fork
      BY <1>3, <1>8 DEF Fork
    <3>2. [Next]_vars
      BY DEF Next, UserStep
    <3> QED BY <1>8, <3>1, <3>2, HeldPid, PidsStay DEF Inv, Processing
  <2> DEFINE p == shmPCB[held].pid
  <2>2. toUser[p] = 1 \/ user[p] = "running" \/ toOss = <<p>>
    BY <1>1, <1>8 DEF QuantaCounted
  <2> HIDE DEF p
  <2>3. outstanding = 1
    BY <1>1, <1>6, <1>8 DEF QuantaCounted, debt, outstanding
  <2>4. p \in Pid /\ ~(toUser[p] = 1) /\ toOss = << >>
    BY <1>6, <2>1, <2>3 DEF outstanding, p
  <2>5. p = o => toOss' = <<p>>
    BY <1>1, <1>3, <1>8, <2>4 DEF QuantaCounted
  <2>6. p # o => user'[p] = user[p]
    BY <1>2
  <2> QED BY <2>1, <2>2, <2>4, <2>5, <2>6 DEF p
<1> QED BY <1>1, <1>3, <1>4, <1>7, <1>8 DEF QuantaCounted

LEMMA OthersCounted ==
  ASSUME Inv, UNCHANGED <<toUser, toOss, queueUp, working>>, pc # "await", pc' # "await",
         pc = "done" => pc' = "done", stopLaunching => stopLaunching'
  PROVE  QuantaCounted'
<1>1. UNCHANGED <<given, outstanding, debt>>
  BY DEF given, outstanding, debt
<1> QED BY <1>1 DEF QuantaCounted, Inv

LEMMA QuantaKept == Inv /\ [Next]_vars => QuantaCounted'
<1> SUFFICES ASSUME Inv, [Next]_vars PROVE QuantaCounted'
  OBVIOUS
<1>1. TypeOK /\ QuantaCounted
  BY DEF Inv
<1>2. CASE UNCHANGED vars
  <2>1. UNCHANGED <<given, outstanding, debt>>
    BY <1>2 DEF given, working, outstanding, debt, vars, mailVars
  <2> QED BY <1>1, <1>2, <2>1 DEF QuantaCounted, vars, mailVars, loopVars, clockVars
<1>3. CASE Receive
  <2>1. /\ pc = "await" /\ pc' = "settle" /\ Len(toOss) \in Nat
        /\ Len(toOss') = Len(toOss) - 1
    BY <1>1, <1>3 DEF Receive, TypeOK
  <2>2. UNCHANGED <<given, working, stopLaunching, queueUp>>
    BY <1>3 DEF Receive, given, working, clockVars
  <2>3. Cardinality(given) \in Nat /\ Cardinality(working) \in Nat
    BY <1>1, QuantaSeen DEF QuantaCounted
  <2>4. debt' = debt
    BY <2>1, <2>2, <2>3 DEF debt, outstanding
  <2> QED BY <1>1, <2>1, <2>2, <2>4 DEF QuantaCounted
<1>4. CASE Finish \/ Interrupt
  <2>1. toUser' = [p \in Pid |-> 0] /\ pc' = "done"
    BY <1>4 DEF Finish, Interrupt, cleanUp
  <2>2. given' = {}
    BY <2>1 DEF given
  <2> QED BY <2>1, <2>2, FS_EmptySet DEF QuantaCounted
<1>5. ASSUME NEW o \in Pid, Connect(o) \/ QueueGone(o) PROVE QuantaCounted'
  <2>1. /\ UNCHANGED <<toUser, toOss, queueUp, pc, held, stopLaunching>>
        /\ user[o] # "running" /\ user'[o] # "running"
        /\ \A p \in Pid : p # o => user'[p] = user[p]
    BY <1>1, <1>5 DEF Connect, QueueGone, mailVars, loopVars, clockVars, TypeOK
  <2>2. working' = working
    BY <2>1 DEF working
  <2>3. UNCHANGED <<given, outstanding, debt>>
    BY <2>1, <2>2 DEF given, outstanding, debt
  <2>4. ASSUME pc = "await" PROVE shmPCB[held].pid \in Pid /\ shmPCB'[held].pid = shmPCB[held].pid
    <3>1. ~Fork
      BY <2>1, <2>4 DEF Fork
    <3>2. [Next]_vars
      BY <1>5 DEF Next, UserStep
    <3> QED BY <2>4, <3>1, <3>2, HeldPid, PidsStay DEF Inv, Processing
  <2> QED BY <1>1, <2>1, <2>3, <2>4 DEF QuantaCounted
<1>6. CASE Alarm
  <2>1. UNCHANGED <<given, outstanding, queueUp>>
    BY <1>6 DEF Alarm, given, working, outstanding, mailVars
  <2>2. ~stopLaunching /\ stopLaunching' /\ pc # "done" /\ pc' \notin {"await", "done"}
    BY <1>6, SignalAssumption DEF Alarm, Point
  <2>3. outstanding \in Nat
    BY <1>1, QuantaSeen DEF QuantaCounted
  <2>4. debt = 0 /\ outstanding = (IF pc = "await" THEN 1 ELSE 0) /\ debt' \in {0, 1}
    BY <1>1, <2>1, <2>2, <2>3 DEF QuantaCounted, debt
  <2> QED BY <1>1, <2>1, <2>2, <2>4 DEF QuantaCounted
<1>7. CASE Fork
  <2>1. nextPid \in Pid \ forked /\ user' = [user EXCEPT ![nextPid] = "boot"]
    BY <1>7, ForkTakesNewPid DEF Inv, Fork
  <2>2. working' = working
    BY <1>1, <2>1 DEF working, forked, TypeOK
  <2>3. UNCHANGED <<toUser, toOss, queueUp, stopLaunching>> /\ pc = "top" /\ pc' = "book"
    BY <1>7 DEF Fork, mailVars, clockVars
  <2> QED BY <2>2, <2>3, OthersCounted
<1>8. ASSUME UNCHANGED <<toUser, toOss, queueUp, user>>, pc # "await", pc' # "await",
             pc = "done" => pc' = "done", stopLaunching => stopLaunching'
      PROVE  QuantaCounted'
  BY <1>8, OthersCounted DEF working
<1>9. CASE Book \/ StartScheduling \/ NoLaunch \/ Admit \/ Admitted \/ TakeBlocked \/ Wake \/ NoWake
  BY <1>8, <1>9
  DEF Book, StartScheduling, NoLaunch, Admit, Admitted, TakeBlocked, Wake, NoWake, mailVars,
      clockVars
<1>10. CASE Skip \/ Dispatch \/ Complete \/ Block \/ Keep \/ Demote \/ Reset
  BY <1>8, <1>10
  DEF Skip, Dispatch, Complete, Block, Keep, Demote, requeue, Reset, nextLevel, mailVars,
      clockVars
<1> QED
  BY <1>2, <1>3, <1>4, <1>5, <1>6, <1>7, <1>9, <1>10, SendCounted, TakeQuantumCounted,
     WorkCounted
  DEF Next, OssStep, UserStep, Ended

-----------------------------------------------------------------------------
(* The flags *)

FlagsStay(s) == /\ shmPCB'[s].suspend = shmPCB[s].suspend
                /\ shmPCB'[s].blocked = shmPCB[s].blocked
                /\ shmPCB'[s].completed = shmPCB[s].completed

\* What the flags of a slot must say where it is: in queue q, or in OSS's hand.
FitQueue(q, pcb) ==
  /\ q = Blocked => pcb.blocked
  /\ q # 0 => ~pcb.suspend
  /\ ~stopLaunching => ~pcb.completed /\ (q # Blocked => ~pcb.blocked)

FitHand(point, pcb) ==
  /\ point \in Processing => ~pcb.suspend
  /\ ~stopLaunching =>
       /\ point \in {"book", "admit", "wake", "send"} => ~pcb.completed
       /\ point \in {"book", "admit", "send"} => ~pcb.blocked

AllFit ==
  /\ \A q \in Queues, s \in Slot : holds(q, s) => FitQueue(q, shmPCB[s])
  /\ pc \in Hands => FitHand(pc, shmPCB[held])

LEMMA FlagsAreFits == FlagsFitPlace /\ FlagsOfHeld <=> AllFit
<1>1. Queues = {0, 1, 2, Blocked} /\ Level = {0, 1, 2} /\ Blocked = 3
  BY DEF Queues, Level, Blocked
<1>2. {"book", "admit", "wake", "send"} \cup Processing \subseteq Hands
  BY DEF Hands, Processing
<1> QED BY <1>1, <1>2 DEF FlagsFitPlace, FlagsOfHeld, AllFit, FitQueue, FitHand

LEMMA TakeFits ==
  ASSUME Inv, AllFit, NEW q \in Queues, Take(q), \A s \in Slot : FlagsStay(s),
         FitHand(pc', shmPCB[held'])
  PROVE  AllFit'
<1>1. /\ held' \in Slot /\ stopLaunching' = stopLaunching
      /\ \A r \in Queues, s \in Slot : holds(r, s)' => holds(r, s)
  BY TakeKeepsPlaces DEF Inv, Take
<1>2. \A r \in Queues, s \in Slot : holds(r, s)' => FitQueue(r, shmPCB[s])'
  BY <1>1 DEF AllFit, FitQueue, FlagsStay
<1>3. FitHand(pc, shmPCB[held])'
  BY <1>1 DEF FitHand, FlagsStay
<1> QED BY <1>2, <1>3 DEF AllFit

LEMMA PutFits ==
  ASSUME Inv, AllFit, NEW q \in Queues, Put(q), \A s \in Slot : s # held => FlagsStay(s),
         FitQueue(q, shmPCB'[held])
  PROVE  AllFit'
<1>1. /\ stopLaunching' = stopLaunching /\ pc' \notin Hands
      /\ \A r \in Queues, s \in Slot : holds(r, s)' => holds(r, s) \/ (r = q /\ s = held)
  BY PutKeepsPlaces DEF Inv, Put
<1>2. \A r \in Queues, s \in Slot : holds(r, s)' => FitQueue(r, shmPCB[s])'
  <2> SUFFICES ASSUME NEW r \in Queues, NEW s \in Slot, holds(r, s)'
               PROVE  FitQueue(r, shmPCB[s])'
    OBVIOUS
  <2>1. CASE s = held
    <3>1. ~holds(r, s)
      BY <2>1 DEF Inv, OnePlace
    <3> QED BY <1>1, <2>1, <3>1 DEF FitQueue
  <2>2. CASE s # held
    BY <1>1, <2>2 DEF AllFit, FitQueue, FlagsStay
  <2> QED BY <2>1, <2>2
<1> QED BY <1>1, <1>2 DEF AllFit

\* As long as no answer has been missed, only the process OSS waits for can set
\* flags, and its slot is in no queue.
LEMMA WorkerIsHeld ==
  ASSUME Inv, NEW p \in Pid, user[p] = "running", ~stopLaunching, pc # "done"
  PROVE  pc = "await" /\ held \in Slot /\ slotOf(p) = held
<1>1. TypeOK /\ PidsAreOwn /\ QuantaCounted
  BY DEF Inv
<1>2. p \in working
  BY DEF working
<1>3. /\ Cardinality(given) \in Nat /\ Cardinality(working) \in Nat /\ Len(toOss) \in Nat
      /\ \A o \in Pid : toUser[o] <= Cardinality(given)
      /\ Cardinality(working) >= 1 /\ (toOss # << >> => Len(toOss) >= 1)
  BY <1>1, <1>2, QuantaSeen DEF QuantaCounted
<1>4. pc = "await" /\ outstanding = 1
  BY <1>1, <1>3 DEF QuantaCounted, debt, outstanding
<1> DEFINE o == shmPCB[held].pid
<1>5. held \in Slot /\ o \in Pid
  BY <1>1, <1>4, HeldPid DEF Processing
<1>6. toUser[o] = 1 \/ user[o] = "running" \/ toOss = <<o>>
  BY <1>1, <1>4 DEF QuantaCounted
<1>7. o # 0
  BY <1>5 DEF Pid
<1> HIDE DEF o
<1>8. o \in working
  <2>1. ~(toUser[o] = 1) /\ toOss = << >> /\ toOss # <<o>>
    BY <1>3, <1>4, <1>5 DEF outstanding
  <2> QED BY <1>5, <1>6, <2>1 DEF working
<1>9. o = p
  <2>1. Cardinality(working) = 1
    BY <1>3, <1>4 DEF outstanding
  <2>2. IsFiniteSet(working)
    BY PidsAreFinite, FS_Subset DEF working
  <2>3. \E x : working = {x}
    BY <2>1, <2>2, FS_Singleton
  <2> QED BY <1>2, <1>8, <2>3
<1>10. \A s \in Slot : shmPCB[s].pid = p <=> s = held
  BY <1>1, <1>5, <1>7, <1>9 DEF PidsAreOwn, o
<1> QED BY <1>4, <1>5, <1>10 DEF slotOf

LEMMA FlagsKept == Inv /\ [Next]_vars => AllFit'
<1> SUFFICES ASSUME Inv, [Next]_vars PROVE AllFit'
  OBVIOUS
<1>1. TypeOK /\ OnePlace /\ PidsAreOwn /\ AllFit
  BY FlagsAreFits DEF Inv
<1>2. shmPCB \in [Slot -> Pcb] /\ 0 \in Queues /\ Blocked \in Queues /\ Level \subseteq Queues
  BY <1>1 DEF TypeOK, Pcb, Queues, Level
<1>3. ASSUME Rest, \A s \in Slot : FlagsStay(s), pc' \in Processing => pc \in Processing,
             pc' \in Hands \ Processing => pc' = pc, pc' = "send" => pc = "send"
      PROVE  AllFit'
  <2>1. \A q, s : holds(q, s)' <=> holds(q, s)
    BY <1>3 DEF Rest, holds
  <2>2. stopLaunching' = stopLaunching /\ held' = held
    BY <1>3 DEF Rest
  <2>3. \A q \in Queues, s \in Slot : holds(q, s)' => FitQueue(q, shmPCB[s])'
    BY <1>1, <1>3, <2>1, <2>2 DEF AllFit, FitQueue, FlagsStay
  <2>4. ASSUME pc' \in Hands PROVE FitHand(pc, shmPCB[held])'
    <3>1. held \in Slot /\ pc \in Hands
      BY <1>1, <1>3, <2>4, NoneIsNoSlot DEF TypeOK, Rest, Hands
    <3> QED BY <1>1, <1>3, <2>2, <2>4, <3>1 DEF AllFit, FitHand, FlagsStay, Hands, Processing
  <2> QED BY <2>3, <2>4 DEF AllFit
<1>4. ASSUME UNCHANGED shmPCB PROVE \A s \in Slot : FlagsStay(s)
  BY <1>4 DEF FlagsStay
<1>5. CASE UNCHANGED vars
  BY <1>3, <1>4, <1>5 DEF vars, Rest, loopVars, launchVars, clockVars
<1>6. CASE StartScheduling \/ NoLaunch \/ NoWake \/ Skip \/ Send \/ Receive
  BY <1>1, <1>3, <1>4, <1>6
  DEF StartScheduling, NoLaunch, NoWake, Skip, Send, Receive, nextLevel, Rest, Hands, Processing,
      loopVars, launchVars, clockVars, TypeOK
<1>7. CASE Reset
  <2>1. \A s \in Slot : FlagsStay(s)
    BY <1>2, <1>7 DEF Reset, Pcb, FlagsStay
  <2> QED BY <1>3, <1>7, <2>1 DEF Reset, Rest, Hands, Processing, launchVars, clockVars
<1>8. ASSUME NEW p \in Pid, Connect(p) \/ TakeQuantum(p) \/ QueueGone(p) PROVE AllFit'
  <2>1. Rest /\ pc' = pc
    BY <1>8, UserStepsRest DEF UserStep
  <2>2. \A s \in Slot : FlagsStay(s)
    BY <1>2, <1>8 DEF Connect, TakeQuantum, QueueGone, Pcb, FlagsStay
  <2> QED BY <1>3, <2>1, <2>2
<1>9. ASSUME NEW p \in Pid, Work(p) PROVE AllFit'
  <2>1. Rest /\ pc' = pc /\ held' = held /\ stopLaunching' = stopLaunching
    BY <1>9, UserStepsRest DEF UserStep, Rest
  <2>2. \A q, s : holds(q, s)' <=> holds(q, s)
    BY <2>1 DEF Rest, holds
  <2>3. \A s \in Slot : /\ s # slotOf(p) => FlagsStay(s)
                        /\ shmPCB'[s].suspend = shmPCB[s].suspend
                        /\ shmPCB[s].blocked => shmPCB'[s].blocked
    BY <1>2, <1>9 DEF Work, Pcb, FlagsStay
  <2>4. CASE pc = "done"
    BY <1>1, <2>1, <2>2, <2>4 DEF AllFit, OnePlace, holds, Hands, Processing
  <2>5. CASE stopLaunching
    <3>1. pc \in Hands => held \in Slot
      BY <1>1, NoneIsNoSlot DEF TypeOK, Hands
    <3> QED BY <1>1, <2>1, <2>2, <2>3, <2>5, <3>1 DEF AllFit, FitQueue, FitHand
  <2>6. CASE pc # "done" /\ ~stopLaunching
    <3>1. pc = "await" /\ held \in Slot /\ slotOf(p) = held
      BY <1>9, <2>6, WorkerIsHeld DEF Work
    <3>2. \A q \in Queues, s \in Slot : holds(q, s) => FlagsStay(s)
      BY <1>1, <2>3, <3>1 DEF OnePlace
    <3> QED BY <1>1, <2>1, <2>2, <2>3, <3>1, <3>2
            DEF AllFit, FitQueue, FitHand, FlagsStay, Hands, Processing
  <2> QED BY <2>4, <2>5, <2>6
<1>10. CASE Fork
  <2>1. /\ held' \in Slot /\ bitVector[held'] = 0 /\ pc' = "book"
        /\ UNCHANGED <<queue, stopLaunching>>
    BY <1>1, <1>10, ForkTakesFreeSlot DEF Fork, clockVars
  <2>2. \A s \in Slot : /\ s # held' => FlagsStay(s)
                        /\ s = held' => ~shmPCB'[s].completed /\ ~shmPCB'[s].blocked
    BY <1>2, <1>10, <2>1 DEF Fork, initPCB, FlagsStay
  <2>3. \A q \in Queues, s \in Slot : holds(q, s)' => holds(q, s) /\ s # held'
    BY <1>1, <2>1 DEF OnePlace, holds
  <2> QED BY <1>1, <2>1, <2>2, <2>3 DEF AllFit, FitQueue, FitHand, FlagsStay, Processing
<1>11. CASE Complete \/ Alarm
  <2>1. /\ UNCHANGED <<queue, shmPCB>> /\ pc' \notin Hands
        /\ stopLaunching' \/ stopLaunching' = stopLaunching
    BY <1>1, <1>11
    DEF Complete, Alarm, nextLevel, clockVars, Hands, Processing, TypeOK
  <2>2. \A q, s : holds(q, s)' <=> holds(q, s)
    BY <2>1 DEF holds
  <2>3. stopLaunching => stopLaunching'
    BY <1>11 DEF Complete, Alarm, clockVars
  <2> QED BY <1>1, <2>1, <2>2, <2>3 DEF AllFit, FitQueue
<1>12. CASE Clear
  BY <1>12 DEF Clear, AllFit, holds, Hands, Processing
<1>13. CASE Admit
  <2>1. Take(0) /\ pc' = "admit" /\ \A s \in Slot : FlagsStay(s)
    BY <1>4, <1>13 DEF Admit, Take, suspendedFirst, Hands, Processing, launchVars, clockVars,
                       Queues, Level
  <2>2. held' \in Slot /\ holds(0, held')
    BY <1>1, <1>2, <2>1, TakeKeepsPlaces
  <2>3. FitHand(pc', shmPCB[held'])
    BY <1>1, <1>2, <2>1, <2>2 DEF AllFit, FitQueue, FitHand, Blocked, Processing
  <2> QED BY <1>1, <1>2, <2>1, <2>3, TakeFits
<1>14. CASE TakeBlocked
  <2>1. Take(Blocked) /\ pc' = "wake" /\ \A s \in Slot : FlagsStay(s)
    BY <1>4, <1>14 DEF TakeBlocked, Take, Hands, Processing, launchVars, clockVars, Queues
  <2>2. held' \in Slot /\ holds(Blocked, held')
    BY <1>1, <1>2, <2>1, TakeKeepsPlaces
  <2>3. FitHand(pc', shmPCB[held'])
    BY <1>1, <1>2, <2>1, <2>2 DEF AllFit, FitQueue, FitHand, Processing
  <2> QED BY <1>1, <1>2, <2>1, <2>3, TakeFits
<1>15. CASE Dispatch
  <2>1. Take(level) /\ pc' = "send" /\ \A s \in Slot : FlagsStay(s)
    BY <1>1, <1>4, <1>15 DEF Dispatch, runnable, Take, Hands, Processing, launchVars, clockVars,
                             Queues, TypeOK
  <2>2. level \in Level /\ level # Blocked
    BY <1>1 DEF TypeOK, Level, Blocked
  <2>3. held' \in Slot /\ holds(level, held') /\ (level = 0 => ~shmPCB[held'].suspend)
    BY <1>1, <1>2, <1>15, <2>1, <2>2, TakeKeepsPlaces DEF Dispatch, runnable
  <2>4. FitHand(pc', shmPCB[held'])
    BY <1>1, <1>2, <2>1, <2>2, <2>3 DEF AllFit, FitQueue, FitHand, Processing
  <2> QED BY <1>1, <1>2, <2>1, <2>2, <2>4, TakeFits
<1>16. CASE Book
  <2>1. Put(0) /\ pc = "book" /\ \A s \in Slot : FlagsStay(s)
    BY <1>4, <1>16 DEF Book, Put, Hands, Processing, clockVars, Queues, Level
  <2>2. held \in Slot
    BY <1>1, <1>2, <2>1, PutKeepsPlaces
  <2>3. FitQueue(0, shmPCB'[held])
    BY <1>1, <2>1, <2>2 DEF AllFit, FitQueue, FitHand, FlagsStay, Blocked, Hands
  <2> QED BY <1>1, <1>2, <2>1, <2>3, PutFits
<1>17. CASE Admitted
  <2>1. Put(0) /\ pc = "admit"
    BY <1>17 DEF Admitted, Put, Hands, Processing, clockVars, launchVars, Queues, Level
  <2>2. held \in Slot
    BY <1>1, <1>2, <2>1, PutKeepsPlaces
  <2>3. /\ \A s \in Slot : s # held => FlagsStay(s)
        /\ shmPCB'[held].blocked = shmPCB[held].blocked
        /\ shmPCB'[held].completed = shmPCB[held].completed
    BY <1>2, <1>17, <2>2 DEF Admitted, Pcb, FlagsStay
  <2>4. FitQueue(0, shmPCB'[held])
    BY <1>1, <2>1, <2>2, <2>3 DEF AllFit, FitQueue, FitHand, Blocked, Hands
  <2> QED BY <1>1, <1>2, <2>1, <2>3, <2>4, PutFits
<1>18. CASE Wake
  <2>1. Put(0) /\ pc = "wake"
    BY <1>18 DEF Wake, Put, Hands, Processing, clockVars, launchVars, Queues, Level
  <2>2. held \in Slot
    BY <1>1, <1>2, <2>1, PutKeepsPlaces
  <2>3. /\ \A s \in Slot : s # held => FlagsStay(s)
        /\ ~shmPCB'[held].blocked
        /\ shmPCB'[held].completed = shmPCB[held].completed
    BY <1>2, <1>18, <2>2 DEF Wake, Pcb, FlagsStay
  <2>4. FitQueue(0, shmPCB'[held])
    BY <1>1, <2>1, <2>2, <2>3 DEF AllFit, FitQueue, FitHand, Blocked, Hands
  <2> QED BY <1>1, <1>2, <2>1, <2>3, <2>4, PutFits
<1>19. CASE Block
  <2>1. Put(Blocked) /\ pc = "settle" /\ \A s \in Slot : FlagsStay(s)
    BY <1>1, <1>4, <1>19 DEF Block, Put, Hands, Processing, clockVars, launchVars, Queues,
                             nextLevel, TypeOK
  <2>2. held \in Slot
    BY <1>1, <1>2, <2>1, PutKeepsPlaces
  <2>3. FitQueue(Blocked, shmPCB'[held])
    BY <1>1, <1>19, <2>1, <2>2 DEF Block, AllFit, FitQueue, FitHand, FlagsStay, Hands, Processing
  <2> QED BY <1>1, <1>2, <2>1, <2>3, PutFits
<1>20. ASSUME NEW q \in Level, NEW looper, requeue(q, looper) PROVE AllFit'
  <2>1. Put(q) /\ pc = "settle"
    BY <1>1, <1>20 DEF requeue, Put, Hands, Processing, clockVars, launchVars, Queues,
                       nextLevel, TypeOK
  <2>2. held \in Slot
    BY <1>1, <1>2, <2>1, PutKeepsPlaces
  <2>3. \A s \in Slot : FlagsStay(s)
    BY <1>2, <1>20 DEF requeue, Pcb, FlagsStay
  <2>4. FitQueue(q, shmPCB'[held])
    <3>1. ~shmPCB[held].suspend
      BY <1>1, <2>1 DEF AllFit, FitHand, Hands, Processing
    <3>2. ~shmPCB[held].completed /\ ~shmPCB[held].blocked /\ q # Blocked
      BY <1>20 DEF requeue, Blocked, Level
    <3> QED BY <2>2, <2>3, <3>1, <3>2 DEF FitQueue, FlagsStay
  <2> QED BY <1>2, <1>1, <2>1, <2>3, <2>4, PutFits
<1>21. CASE Keep \/ Demote
  <2>1. level \in Level /\ (level < 2 => level + 1 \in Level)
    BY <1>1 DEF TypeOK, Level
  <2> QED BY <1>20, <1>21, <2>1 DEF Keep, Demote
<1> QED
  BY <1>1, <1>5, <1>6, <1>7, <1>8, <1>9, <1>10, <1>11, <1>12, <1>13, <1>14, <1>15, <1>16, <1>17,
     <1>18, <1>19, <1>21
  DEF Next, OssStep, UserStep, Ended, Finish, Interrupt, Clear, cleanUp, launchVars, clockVars,
      TypeOK, Queues

-----------------------------------------------------------------------------
(* Types *)

LEMMA LoopTypes ==
  ASSUME TypeOK, [Next]_vars
  PROVE  /\ pc' \in Point \cup {"done"} /\ level' \in Level
         /\ stopLaunching' \in BOOLEAN /\ scheduling' \in BOOLEAN /\ interrupted' \in BOOLEAN
         /\ queueUp' \in BOOLEAN
<1> DEFINE Typed == /\ pc \in Point \cup {"done"} /\ level \in 0 .. 2
                    /\ stopLaunching \in BOOLEAN /\ scheduling \in BOOLEAN
                    /\ interrupted \in BOOLEAN /\ queueUp \in BOOLEAN
<1> SUFFICES Typed'
  BY DEF Level
<1>1. Typed
  BY DEF TypeOK, Level
<1> USE <1>1 DEF Point, launchVars, loopVars, clockVars, mailVars
<1>2. CASE UNCHANGED vars \/ \E p \in Pid : UserStep(p)
  BY <1>2 DEF vars, UserStep, Connect, TakeQuantum, Work, QueueGone
<1>3. CASE Fork \/ Book \/ StartScheduling \/ NoLaunch
  BY <1>3 DEF Fork, Book, StartScheduling, NoLaunch
<1>4. CASE Admit \/ Admitted \/ TakeBlocked \/ Wake \/ NoWake
  BY <1>4 DEF Admit, Admitted, TakeBlocked, Wake, NoWake
<1>5. CASE Dispatch \/ Send \/ Receive \/ Reset
  BY <1>5 DEF Dispatch, Send, Receive, Reset
<1>6. CASE Alarm
  BY <1>6 DEF Alarm
<1>9. CASE Finish \/ Interrupt
  <2>1. /\ pc' = "done" /\ level' = 0 /\ queueUp' = FALSE
        /\ UNCHANGED <<stopLaunching, scheduling>>
        /\ interrupted' = TRUE \/ interrupted' = interrupted
    BY <1>9 DEF Finish, Interrupt, cleanUp
  <2>2. level' \in 0 .. 2
    BY <2>1
  <2> QED BY <2>1, <2>2, Zenon
<1>7. CASE Skip \/ Complete \/ Block
  BY <1>7 DEF Skip, Complete, Block, nextLevel
<1>8. CASE Keep \/ Demote
  BY <1>8 DEF Keep, Demote, requeue, nextLevel
<1> QED
  BY <1>2, <1>3, <1>4, <1>5, <1>6, <1>7, <1>8, <1>9 DEF Next, OssStep, Ended

LEMMA PlaceTypes ==
  ASSUME TypeOK, OnePlace, [Next]_vars
  PROVE  /\ held' \in Slot \cup {None} /\ (held' # None <=> pc' \in Hands)
         /\ queue' \in [Queues -> Seq(Slot)] /\ bitVector' \in [Slot -> {0, 1}]
<1> USE NoneIsNoSlot DEF Hands, Processing
<1>1. /\ held \in Slot \cup {None} /\ (held # None <=> pc \in Hands)
      /\ queue \in [Queues -> Seq(Slot)] /\ bitVector \in [Slot -> {0, 1}]
  BY DEF TypeOK, Queues
<1>2. CASE Rest
  BY <1>1, <1>2 DEF Rest
<1>3. CASE Fork
  BY <1>1, <1>3, ForkTakesFreeSlot DEF Fork, launchVars
<1>4. CASE Complete
  BY <1>1, <1>4 DEF Complete, nextLevel, TypeOK
<1>5. CASE Alarm
  BY <1>1, <1>5 DEF Alarm, launchVars
<1>6. CASE Clear
  BY <1>1, <1>6 DEF Clear
<1>7. ASSUME NEW q \in Queues, Take(q)
      PROVE  /\ held' \in Slot \cup {None} /\ (held' # None <=> pc' \in Hands)
             /\ queue' \in [Queues -> Seq(Slot)] /\ bitVector' \in [Slot -> {0, 1}]
  BY <1>1, <1>7, TakeKeepsPlaces DEF Take
<1>8. ASSUME NEW q \in Queues, Put(q)
      PROVE  /\ held' \in Slot \cup {None} /\ (held' # None <=> pc' \in Hands)
             /\ queue' \in [Queues -> Seq(Slot)] /\ bitVector' \in [Slot -> {0, 1}]
  BY <1>1, <1>8, PutKeepsPlaces DEF Put
<1> QED BY <1>2, <1>3, <1>4, <1>5, <1>6, <1>7, <1>8, PlaceSteps

used == {s \in Slot : bitVector[s] = 1}

LEMMA UsedIsFinite == IsFiniteSet(used)
<1>1. IsFiniteSet(Slot)
  BY SlotsAssumption, FS_Interval DEF Slot
<1> QED BY <1>1, FS_Subset DEF used

\* currentLaunched goes with the slots in use.
LEMMA CountKept ==
  ASSUME TypeOK, OnePlace, PidsAreOwn, [Next]_vars
  PROVE  currentLaunched' = Cardinality(used)' /\ totalLaunched' \in 0 .. MaxLaunch
<1>1. currentLaunched = Cardinality(used) /\ totalLaunched \in 0 .. MaxLaunch
  BY DEF TypeOK, used
<1>2. Cardinality(used) \in Nat
  BY UsedIsFinite, FS_CardinalityType
<1>3. ASSUME UNCHANGED <<bitVector, currentLaunched, totalLaunched>>
      PROVE  currentLaunched' = Cardinality(used)' /\ totalLaunched' \in 0 .. MaxLaunch
  BY <1>1, <1>3 DEF used
<1>4. CASE Rest \/ Fork \/ Alarm \/ Clear \/ (\E q \in Queues : Take(q))
  BY <1>3, <1>4 DEF Rest, Fork, Alarm, Clear, Take, launchVars
<1>5. CASE Complete
  <2>1. held \in used /\ used' = used \ {held}
    BY <1>5, NoneIsNoSlot DEF Complete, OnePlace, TypeOK, Processing, used
  <2>2. currentLaunched' = currentLaunched - 1 /\ totalLaunched' = totalLaunched
    BY <1>5 DEF Complete
  <2> HIDE DEF used
  <2> QED BY <1>1, <1>2, <2>1, <2>2, UsedIsFinite, FS_RemoveElement
<1>6. ASSUME NEW q \in Queues, Put(q)
      PROVE  currentLaunched' = Cardinality(used)' /\ totalLaunched' \in 0 .. MaxLaunch
  <2>1. CASE pc # "book"
    BY <1>3, <1>6, <2>1 DEF Put
  <2>2. CASE pc = "book"
    <3>1. held \notin used /\ used' = used \cup {held}
      BY <1>6, <2>2, PutKeepsPlaces, NoneIsNoSlot DEF OnePlace, used
    <3>2. currentLaunched' = currentLaunched + 1 /\ totalLaunched' = totalLaunched + 1
      BY <1>6, <2>2 DEF Put
    <3>3. totalLaunched' \in 0 .. MaxLaunch
      BY <1>1, <2>2, <3>2, LaunchAssumption DEF PidsAreOwn
    <3> HIDE DEF used
    <3> QED BY <1>1, <1>2, <3>1, <3>2, <3>3, UsedIsFinite, FS_AddElement
  <2> QED BY <2>1, <2>2
<1> QED BY <1>4, <1>5, <1>6, PlaceSteps

LEMMA PcbTypes ==
  ASSUME TypeOK, PidsAreOwn, [Next]_vars PROVE shmPCB' \in [Slot -> Pcb]
<1>1. shmPCB \in [Slot -> Pcb]
  BY DEF TypeOK, Pcb
<1>2. CASE UNCHANGED shmPCB
  BY <1>1, <1>2
<1>3. CASE Fork
  <2>1. nextPid \in Pid /\ shmPCB' = [shmPCB EXCEPT ![held'] = initPCB(nextPid)]
    BY <1>3, ForkTakesNewPid
  <2>2. initPCB(nextPid) \in Pcb
    BY <2>1 DEF initPCB, Pcb, Task
  <2> QED BY <1>1, <2>1, <2>2
<1>4. CASE Admitted \/ Wake \/ Keep \/ Demote
  <2>1. held \in Slot
    BY <1>4 DEF TypeOK, Admitted, Wake, Keep, Demote, requeue, Processing
  <2>2. PICK t \in Task, x \in BOOLEAN :
          \/ shmPCB' = [shmPCB EXCEPT ![held].task = t, ![held].suspend = FALSE,
                                      ![held].ready = TRUE]
          \/ shmPCB' = [shmPCB EXCEPT ![held].task = t, ![held].blocked = FALSE,
                                      ![held].suspend = FALSE, ![held].ready = TRUE]
          \/ shmPCB' = [shmPCB EXCEPT ![held].task = t, ![held].looper = x]
    BY <1>4 DEF Admitted, Wake, Keep, Demote, requeue
  <2>3. CASE shmPCB' = [shmPCB EXCEPT ![held].task = t, ![held].suspend = FALSE,
                                      ![held].ready = TRUE]
    BY <1>1, <2>1, <2>3 DEF Pcb
  <2>4. CASE shmPCB' = [shmPCB EXCEPT ![held].task = t, ![held].blocked = FALSE,
                                      ![held].suspend = FALSE, ![held].ready = TRUE]
    <3> DEFINE f == [shmPCB EXCEPT ![held].task = t, ![held].blocked = FALSE]
    <3>1. f \in [Slot -> Pcb]
      BY <1>1, <2>1 DEF Pcb
    <3>2. shmPCB' = [f EXCEPT ![held].suspend = FALSE, ![held].ready = TRUE]
      BY <2>4, Zenon
    <3> HIDE DEF f
    <3> QED BY <2>1, <3>1, <3>2 DEF Pcb
  <2>5. CASE shmPCB' = [shmPCB EXCEPT ![held].task = t, ![held].looper = x]
    BY <1>1, <2>1, <2>5 DEF Pcb
  <2> QED BY <2>2, <2>3, <2>4, <2>5
<1>5. CASE Reset
  <2>1. \/ shmPCB' = shmPCB
        \/ \E cells : shmPCB' = [s \in Slot |-> IF s \in cells
                                               THEN [shmPCB[s] EXCEPT !.looper = FALSE]
                                               ELSE shmPCB[s]]
    BY <1>5 DEF Reset
  <2>2. \A s \in Slot : [shmPCB[s] EXCEPT !.looper = FALSE] \in Pcb
    BY <1>1 DEF Pcb
  <2> QED BY <1>1, <2>1, <2>2
<1>6. ASSUME NEW p \in Pid, Connect(p) PROVE shmPCB' \in [Slot -> Pcb]
  BY <1>1, <1>6 DEF Connect, Pcb
<1>7. ASSUME NEW p \in Pid, Work(p) PROVE shmPCB' \in [Slot -> Pcb]
  <2> DEFINE s == slotOf(p)
             x == shmPCB[s].task = "finish"
             y == shmPCB[s].blocked \/ shmPCB[s].task = "block"
  <2>1. shmPCB' = [shmPCB EXCEPT ![s].completed = x, ![s].blocked = y]
    BY <1>7, Zenon DEF Work
  <2>2. x \in BOOLEAN /\ y \in BOOLEAN
    OBVIOUS
  <2> HIDE DEF s, x, y
  <2> QED BY <1>1, <2>1, <2>2 DEF Pcb
<1> QED
  BY <1>2, <1>3, <1>4, <1>5, <1>6, <1>7
  DEF Next, OssStep, UserStep, vars, Book, StartScheduling, NoLaunch, Finish, Admit, TakeBlocked,
      NoWake, Skip, Dispatch, Send, Receive, Complete, Block, Alarm, Interrupt, TakeQuantum,
      QueueGone, Ended

\* No process is ever sent more than two quanta at a time.
LEMMA MailTypes ==
  ASSUME Inv, [Next]_vars
  PROVE  toOss' \in Seq(Pid) /\ toUser' \in [Pid -> 0 .. 2] /\ user' \in [Pid -> UserState]
<1>1. /\ toOss \in Seq(Pid) /\ toUser \in [Pid -> 0 .. 2] /\ user \in [Pid -> UserState]
      /\ TypeOK
  BY DEF Inv, TypeOK
<1>2. CASE UNCHANGED <<toOss, toUser, user>>
  BY <1>1, <1>2
<1>3. CASE Fork
  BY <1>1, <1>3 DEF Fork, mailVars, UserState
<1>4. ASSUME NEW killed, cleanUp(killed)
      PROVE  toOss' \in Seq(Pid) /\ toUser' \in [Pid -> 0 .. 2] /\ user' \in [Pid -> UserState]
  <2>1. \A p \in Pid : (IF p \in killed THEN "gone" ELSE user[p]) \in UserState
    BY <1>1 DEF UserState
  <2> QED BY <1>4, <2>1 DEF cleanUp
<1>5. CASE Send
  <2> DEFINE p == shmPCB[held].pid
  <2>1. p \in Pid /\ toUser' = [toUser EXCEPT ![p] = @ + 1] /\ UNCHANGED <<toOss, user>>
    BY <1>5, HeldPid DEF Inv, Send, Processing
  <2> HIDE DEF p
  <2>2. /\ Cardinality(given) \in Nat /\ Cardinality(working) \in Nat /\ Len(toOss) \in Nat
        /\ toUser[p] <= Cardinality(given)
    BY <2>1, QuantaSeen DEF Inv, QuantaCounted
  <2>3. outstanding \in {0, 1}
    BY <1>5, <2>2 DEF Inv, QuantaCounted, debt, outstanding, Send
  <2>4. toUser[p] + 1 \in 0 .. 2
    BY <1>1, <2>1, <2>2, <2>3 DEF outstanding
  <2> QED BY <1>1, <2>1, <2>4
<1>6. CASE Receive
  BY <1>1, <1>6 DEF Receive
<1>7. ASSUME NEW p \in Pid, UserStep(p)
      PROVE  toOss' \in Seq(Pid) /\ toUser' \in [Pid -> 0 .. 2] /\ user' \in [Pid -> UserState]
  <2>1. CASE Connect(p) \/ QueueGone(p)
    BY <1>1, <2>1 DEF Connect, QueueGone, mailVars, UserState
  <2>2. CASE TakeQuantum(p)
    BY <1>1, <2>2 DEF TakeQuantum, UserState
  <2>3. CASE Work(p)
    BY <1>1, <2>3 DEF Work, UserState
  <2> QED BY <1>7, <2>1, <2>2, <2>3 DEF UserStep
<1> QED
  BY <1>2, <1>3, <1>4, <1>5, <1>6, <1>7
  DEF Next, OssStep, vars, Book, StartScheduling, NoLaunch, Admit, Admitted, TakeBlocked, Wake,
      NoWake, Skip, Dispatch, Complete, Block, Keep, Demote, requeue, Reset, Alarm, Ended, mailVars,
      Finish, Interrupt

LEMMA MarkType ==
  ASSUME TypeOK, NEW qs \in [Queues -> Seq(Slot)], NEW pcbs \in [Slot -> Pcb], mark(qs, pcbs)
  PROVE  looped' \in [Level -> BOOLEAN]
<1>1. looped \in [Level -> BOOLEAN] /\ level \in Level
  BY DEF TypeOK
<1>2. qs[level] # << >> => Head(qs[level]) \in Slot
  BY <1>1 DEF Queues
<1>3. (IF qs[level] = << >> THEN StrayLooper ELSE pcbs[Head(qs[level])].looper) \in BOOLEAN
  BY <1>2, StrayAssumption DEF Pcb
<1> QED BY <1>1, <1>3 DEF mark

LEMMA LoopedType ==
  ASSUME TypeOK, OnePlace, PidsAreOwn, [Next]_vars PROVE looped' \in [Level -> BOOLEAN]
<1>1. looped \in [Level -> BOOLEAN] /\ queue \in [Queues -> Seq(Slot)] /\ shmPCB \in [Slot -> Pcb]
  BY DEF TypeOK, Queues, Pcb
<1>2. queue' \in [Queues -> Seq(Slot)] /\ shmPCB' \in [Slot -> Pcb]
  BY PlaceTypes, PcbTypes
<1>3. CASE UNCHANGED looped
  BY <1>1, <1>3
<1>4. CASE Skip \/ Complete
  BY <1>1, <1>3, <1>4, MarkType DEF Skip, Complete
<1>5. CASE Block \/ Keep \/ Demote
  BY <1>1, <1>2, <1>5, MarkType DEF Block, Keep, Demote, requeue
<1>6. CASE Reset
  <2>1. looped' = [q \in Level |-> looped[q] /\ q \notin round] \/ looped' = looped
    BY <1>6 DEF Reset
  <2> HIDE DEF round
  <2> QED BY <1>1, <2>1
<1> QED
  BY <1>3, <1>4, <1>5, <1>6
  DEF Next, OssStep, UserStep, vars, Fork, Book, StartScheduling, NoLaunch, Finish, Admit,
      Admitted, TakeBlocked, Wake, NoWake, Dispatch, Send, Receive, Alarm, Interrupt, Connect,
      TakeQuantum, Work, QueueGone, Ended, loopVars

LEMMA TypesKept == Inv /\ [Next]_vars => TypeOK'
<1> SUFFICES ASSUME Inv, [Next]_vars PROVE TypeOK'
  OBVIOUS
<1>1. TypeOK /\ OnePlace /\ PidsAreOwn
  BY DEF Inv
<1>2. /\ held' \in Slot \cup {None} /\ (held' # None <=> pc' \in Hands)
      /\ queue' \in [Queues -> Seq(Slot)] /\ bitVector' \in [Slot -> {0, 1}]
      /\ currentLaunched' = Cardinality(used)' /\ totalLaunched' \in 0 .. MaxLaunch
  BY <1>1, PlaceTypes, CountKept
<1>3. shmPCB' \in [Slot -> Pcb] /\ looped' \in [Level -> BOOLEAN]
  BY <1>1, PcbTypes, LoopedType
<1> QED
  BY <1>1, <1>2, <1>3, LoopTypes, MailTypes DEF TypeOK, Queues, Hands, Pcb, used

LEMMA InitInv == Init => Inv
<1> SUFFICES ASSUME Init PROVE Inv
  OBVIOUS
<1>1. /\ \A s \in Slot : bitVector[s] = 0 /\ shmPCB[s].pid = 0
      /\ \A q \in Queues : queue[q] = << >>
      /\ \A p \in Pid : user[p] = "unborn" /\ toUser[p] = 0
      /\ toOss = << >> /\ held = None /\ pc = "top" /\ queueUp /\ ~stopLaunching
  BY DEF Init, Queues
<1>2. \A q \in Queues : \A s : ~holds(q, s)
  BY <1>1 DEF holds
<1>3. {s \in Slot : bitVector[s] = 1} = {} /\ forked = {} /\ working = {} /\ given = {}
  BY <1>1 DEF forked, working, given
<1>4. Cardinality({}) = 0 /\ IsFiniteSet({})
  BY FS_EmptySet
<1>5. TypeOK
  <2>1. currentLaunched = Cardinality({s \in Slot : bitVector[s] = 1})
    BY <1>3, <1>4 DEF Init
  <2>2. queue \in [Queues -> Seq(Slot)] /\ looped \in [Level -> BOOLEAN]
    BY DEF Init, Queues
  <2>3. shmPCB \in [Slot -> Pcb]
    BY DEF Init, Pcb, Task
  <2>4. toOss \in Seq(Pid) /\ toUser \in [Pid -> 0 .. 2] /\ user \in [Pid -> UserState]
    BY DEF Init, UserState
  <2>5. totalLaunched \in 0 .. MaxLaunch /\ level \in Level /\ bitVector \in [Slot -> {0, 1}]
    BY LaunchAssumption DEF Init, Level
  <2>6. pc \in Point \cup {"done"} /\ held \in Slot \cup {None}
        /\ ((held # None) <=> (pc \in Processing \cup {"book", "admit", "wake"}))
    BY DEF Init, Point, Processing
  <2> QED BY <2>1, <2>2, <2>3, <2>4, <2>5, <2>6 DEF Init, TypeOK, Queues, Pcb
<1>6. OnePlace
  BY <1>1, <1>2 DEF OnePlace, NoRepeat
<1>7. PidsAreOwn
  <2>1. totalLaunched = 0
    BY DEF Init
  <2> QED BY <1>1, <1>3, <1>4, <2>1, NoneIsNoSlot DEF PidsAreOwn
<1>8. FlagsFitPlace /\ FlagsOfHeld
  <2>1. /\ \A s : ~holds(0, s) /\ ~holds(1, s) /\ ~holds(2, s) /\ ~holds(Blocked, s)
        /\ \A s \in Slot, q \in Level : ~holds(q, s)
    BY <1>2 DEF Queues, Level
  <2>2. FlagsFitPlace
    BY <2>1, Zenon DEF FlagsFitPlace
  <2>3. FlagsOfHeld
    BY <1>1, <2>1 DEF FlagsOfHeld, Processing
  <2> QED BY <2>2, <2>3
<1>9. QuantaCounted
  <2>1. outstanding = 0 /\ debt = 0
    BY <1>1, <1>3, <1>4 DEF outstanding, debt
  <2> QED BY <1>1, <1>3, <1>4, <2>1 DEF QuantaCounted
<1> QED BY <1>5, <1>6, <1>7, <1>8, <1>9 DEF Inv

LEMMA InvKept == Inv /\ [Next]_vars => Inv'
<1> SUFFICES ASSUME Inv, [Next]_vars PROVE Inv'
  OBVIOUS
<1>1. TypeOK' /\ OnePlace' /\ PidsAreOwn' /\ QuantaCounted'
  BY TypesKept, PlacesKept, PidsKept, QuantaKept DEF Inv
<1>2. FlagsFitPlace' /\ FlagsOfHeld'
  BY FlagsKept, FlagsAreFits, PTL
<1> QED BY <1>1, <1>2 DEF Inv

LEMMA AlwaysInv == Spec => []Inv
  BY InitInv, InvKept, PTL DEF Spec

\* Every index OSS and the processes compute stays in its table, currentLaunched
\* counts the slots in use, and no process is sent more than two quanta, wherever
\* in OSS's loop realTime and killHandler strike.
THEOREM TypeCorrect == Spec => []TypeOK
<1>1. Inv => TypeOK
  BY DEF Inv
<1> QED BY <1>1, AlwaysInv, PTL

\* The flags that scheduler reads off the front of a queue (389, 432) fit the queue
\* they are read from, in every state of every run.
THEOREM FlagsFit == Spec => []FlagsFitPlace
<1>1. Inv => FlagsFitPlace
  BY DEF Inv
<1> QED BY <1>1, AlwaysInv, PTL

\* One quantum is out while OSS waits in queueCalculations, none otherwise, and one
\* more for good once realTime has broken off a wait.
THEOREM QuantumOut == Spec => []OneQuantumOut
<1>1. Inv => OneQuantumOut
  <2> SUFFICES ASSUME Inv PROVE OneQuantumOut
    OBVIOUS
  <2>1. toOss \in Seq(Pid) /\ IsFiniteSet(given)
    BY DEF Inv, TypeOK, QuantaCounted
  <2>2. IsFiniteSet(working)
    BY PidsAreFinite, FS_Subset DEF working
  <2>3. outstanding \in Nat
    BY <2>1, <2>2, FS_CardinalityType DEF outstanding
  <2> HIDE DEF outstanding
  <2>4. pc # "done" =>
          outstanding <= (IF pc = "await" THEN 1 ELSE 0) + (IF stopLaunching THEN 1 ELSE 0)
    BY <2>3 DEF Inv, QuantaCounted, debt
  <2>5. pc = "await" => outstanding >= 1
    BY <2>3 DEF Inv, QuantaCounted, debt
  <2>6. pc = "await" /\ ~stopLaunching =>
          LET p == shmPCB[held].pid
          IN  toUser[p] = 1 \/ user[p] = "running" \/ toOss = <<p>>
    BY DEF Inv, QuantaCounted
  <2> QED BY <2>4, <2>5, <2>6 DEF OneQuantumOut
<1> QED BY <1>1, AlwaysInv, PTL

-----------------------------------------------------------------------------
(* The refinement.  Seen through stateOf and levelOf, every step of OSS, of *)
(* a process or of a signal handler moves one slot the way ProcessStates    *)
(* allows, or none.                                                         *)

(* What the place of a slot says about its state *)

Sound == TypeOK /\ OnePlace

handState == IF pc \in Processing THEN "running" ELSE IF pc = "wake" THEN "blocked" ELSE "ready"
handLevel == IF pc \in Processing THEN level ELSE 0

queued(s) == \E q \in Queues : holds(q, s)

StateByPlace ==
  \A s \in Slot :
    /\ bitVector[s] = 0 => stateOf(s) = "free" /\ levelOf(s) = 0
    /\ bitVector[s] = 1 /\ s = held => stateOf(s) = handState /\ levelOf(s) = handLevel
    /\ \A q \in Level : holds(q, s) => stateOf(s) = "ready" /\ levelOf(s) = q
    /\ holds(Blocked, s) => stateOf(s) = "blocked" /\ levelOf(s) = 0
    /\ bitVector[s] = 1 /\ s # held /\ ~queued(s) => stateOf(s) = "lost" /\ levelOf(s) = 0

LEMMA PlaceGivesState == Sound => StateByPlace
<1> SUFFICES ASSUME Sound, NEW s \in Slot
             PROVE
    /\ bitVector[s] = 0 => stateOf(s) = "free" /\ levelOf(s) = 0
    /\ bitVector[s] = 1 /\ s = held => stateOf(s) = handState /\ levelOf(s) = handLevel
    /\ \A q \in Level : holds(q, s) => stateOf(s) = "ready" /\ levelOf(s) = q
    /\ holds(Blocked, s) => stateOf(s) = "blocked" /\ levelOf(s) = 0
    /\ bitVector[s] = 1 /\ s # held /\ ~queued(s) => stateOf(s) = "lost" /\ levelOf(s) = 0
  BY DEF StateByPlace
<1>1. /\ Queues = Level \cup {Blocked} /\ Blocked \notin Level
      /\ \A q, r \in Queues : holds(q, s) /\ holds(r, s) => q = r
      /\ \A q \in Queues : holds(q, s) => s # held /\ bitVector[s] = 1
  BY DEF Sound, OnePlace, Queues, Level, Blocked
<1> HIDE DEF Level, Blocked
<1>2. CASE bitVector[s] = 0
  <2>1. stateOf(s) = "free" /\ \A q \in Queues : ~holds(q, s)
    BY <1>1, <1>2 DEF stateOf
  <2> QED BY <1>1, <1>2, <2>1 DEF levelOf
<1>3. CASE bitVector[s] = 1 /\ s = held
  <2>1. stateOf(s) = handState /\ \A q \in Queues : ~holds(q, s)
    BY <1>1, <1>3 DEF stateOf, handState
  <2> QED BY <1>1, <1>3, <2>1 DEF levelOf, handLevel, handState
<1>4. ASSUME NEW q \in Level, holds(q, s)
      PROVE  stateOf(s) = "ready" /\ levelOf(s) = q
  <2>1. bitVector[s] = 1 /\ s # held /\ ~holds(Blocked, s)
    BY <1>1, <1>4
  <2>2. stateOf(s) = "ready"
    BY <1>4, <2>1 DEF stateOf
  <2>3. \A r \in Level : holds(r, s) <=> r = q
    BY <1>1, <1>4
  <2> QED BY <1>4, <2>2, <2>3 DEF levelOf
<1>5. CASE holds(Blocked, s)
  <2>1. bitVector[s] = 1 /\ s # held /\ \A q \in Level : ~holds(q, s)
    BY <1>1, <1>5
  <2>2. stateOf(s) = "blocked"
    BY <1>5, <2>1 DEF stateOf
  <2>3. levelOf(s) = 0 /\ queued(s)
    BY <1>1, <1>5, <2>1, <2>2 DEF levelOf, queued
  <2> QED BY <1>5, <2>1, <2>2, <2>3
<1>6. CASE bitVector[s] = 1 /\ s # held /\ ~queued(s)
  <2>1. ~holds(Blocked, s) /\ \A q \in Level : ~holds(q, s)
    BY <1>1, <1>6 DEF queued
  <2>2. stateOf(s) = "lost"
    BY <1>6, <2>1 DEF stateOf
  <2> QED BY <1>1, <1>6, <2>1, <2>2 DEF levelOf
<1> QED BY <1>1, <1>2, <1>3, <1>4, <1>5, <1>6

-----------------------------------------------------------------------------
(* What a step does to the states of the slots *)

\* The step leaves every slot but h where it is.
Touches(h) ==
  \A s \in Slot \ {h} :
    /\ s # held /\ s # held' /\ bitVector'[s] = bitVector[s]
    /\ \A q \in Queues : holds(q, s)' <=> holds(q, s)

SameState(s) == stateOf(s)' = stateOf(s) /\ levelOf(s)' = levelOf(s)

LEMMA OthersStay ==
  ASSUME Sound, Sound', NEW h, Touches(h), NEW s \in Slot \ {h}
  PROVE  SameState(s)
<1>1. StateByPlace /\ StateByPlace'
  BY PlaceGivesState, PTL
<1>2. /\ s # held /\ s # held' /\ bitVector'[s] = bitVector[s]
      /\ \A q \in Queues : holds(q, s)' <=> holds(q, s)
  BY DEF Touches
<1>3. CASE bitVector[s] = 0
  BY <1>1, <1>2, <1>3 DEF StateByPlace, SameState
<1>4. ASSUME NEW q \in Level, holds(q, s) PROVE SameState(s)
  BY <1>1, <1>2, <1>4 DEF StateByPlace, SameState, Queues
<1>5. CASE holds(Blocked, s)
  BY <1>1, <1>2, <1>5 DEF StateByPlace, SameState, Queues
<1>6. CASE bitVector[s] = 1 /\ ~queued(s)
  <2>1. bitVector'[s] = 1 /\ ~queued(s)'
    BY <1>2, <1>6 DEF queued
  <2> QED BY <1>1, <1>2, <1>6, <2>1 DEF StateByPlace, SameState
<1>7. bitVector[s] = 0 \/ bitVector[s] = 1
  BY DEF Sound, TypeOK
<1> QED BY <1>3, <1>4, <1>5, <1>6, <1>7 DEF queued, Queues

LEMMA TakeTouches ==
  ASSUME Sound, Sound', NEW q \in Queues, Take(q)
  PROVE  Touches(held') /\ holds(q, held')
<1>1. /\ held = None /\ held' = Head(queue[q]) /\ ~isEmpty(q) /\ queue' = dequeue(queue, q)
      /\ queue \in [Queues -> Seq(Slot)] /\ NoRepeat(queue[q]) /\ UNCHANGED bitVector
  BY DEF Take, Sound, TypeOK, OnePlace, Hands, Queues
<1>2. /\ held' \in Slot /\ holds(q, held')
      /\ \A r \in Queues, s \in Slot : holds(r, s)' <=> holds(r, s) /\ ~(r = q /\ s = held')
  BY <1>1, DequeueEffect
<1> QED BY <1>1, <1>2, NoneIsNoSlot DEF Touches

LEMMA PutTouches ==
  ASSUME Sound, Sound', NEW q \in Queues, Put(q)
  PROVE  Touches(held) /\ \A s \in Slot : s = held => holds(q, s)'
<1>1. /\ held \in Slot /\ held' = None /\ queue' = enqueue(queue, q, held)
      /\ queue \in [Queues -> Seq(Slot)] /\ NoRepeat(queue[q]) /\ ~holds(q, held)
      /\ \A s \in Slot \ {held} : bitVector'[s] = bitVector[s]
  BY DEF Put, Sound, TypeOK, OnePlace, Hands, Queues
<1>2. \A r \in Queues, s \in Slot : holds(r, s)' <=> holds(r, s) \/ (r = q /\ s = held)
  BY <1>1, EnqueueEffect
<1> QED BY <1>1, <1>2, NoneIsNoSlot DEF Touches

\* Nothing changes its place, and what is in OSS's hand counts for what it did.
LEMMA NothingMoves ==
  ASSUME Sound, Sound', UNCHANGED <<queue, held, bitVector>>,
         held \in Slot => bitVector[held] = 0 \/ (handState' = handState /\ handLevel' = handLevel)
  PROVE  \A s \in Slot : SameState(s)
<1>1. StateByPlace /\ StateByPlace'
  BY PlaceGivesState, PTL
<1>2. \A q, s : holds(q, s)' <=> holds(q, s)
  BY DEF holds
<1>3. held \in Slot => bitVector[held] \in {0, 1}
  BY DEF Sound, TypeOK
<1>4. \A s \in Slot : s = held => SameState(s)
  BY <1>1, <1>3 DEF StateByPlace, SameState
<1>5. Touches(held)
  BY <1>1, <1>2 DEF Touches
<1> QED BY <1>4, <1>5, OthersStay

-----------------------------------------------------------------------------
(* The steps of ProcessStates *)

states == [s \in Slot |-> stateOf(s)]
levels == [s \in Slot |-> levelOf(s)]

\* SIGINT ends the run (killHandler): until it has, it has not struck.
Uninterrupted == pc # "done" => ~interrupted

LEMMA Moved ==
  ASSUME Sound, Sound', NEW h \in Slot, Touches(h), pc # "done", pc' # "done",
         NEW to, NEW l, states'[h] = to, levels'[h] = l
  PROVE  States!Move(h, states[h], to, l)
<1>1. \A s \in Slot \ {h} : SameState(s)
  BY OthersStay
<1>2. states' = [states EXCEPT ![h] = to] /\ levels' = [levels EXCEPT ![h] = l]
  <2>1. \A s \in Slot \ {h} : states'[s] = states[s] /\ levels'[s] = levels[s]
    BY <1>1 DEF SameState, states, levels
  <2>2. /\ states = [s \in Slot |-> states[s]] /\ states' = [s \in Slot |-> states'[s]]
        /\ levels = [s \in Slot |-> levels[s]] /\ levels' = [s \in Slot |-> levels'[s]]
    BY DEF states, levels
  <2> HIDE DEF states, levels
  <2> QED BY <2>1, <2>2
<1> QED BY <1>2 DEF States!Move, states, levels

LEMMA AllStay ==
  ASSUME \A s \in Slot : SameState(s), UNCHANGED <<stopLaunching, interrupted>>,
         pc = "done" <=> pc' = "done"
  PROVE  UNCHANGED States!vars
<1>1. states' = states /\ levels' = levels
  BY DEF states, levels, SameState
<1> QED BY <1>1 DEF States!vars, states, levels

LEMMA StutterSteps ==
  ASSUME Sound, Sound',
         \/ StartScheduling \/ NoLaunch \/ NoWake \/ Skip \/ Send \/ Receive \/ Reset
         \/ (\E p \in Pid : UserStep(p)) \/ Ended \/ UNCHANGED vars
  PROVE  UNCHANGED States!vars
<1>1. /\ UNCHANGED <<queue, held, bitVector, stopLaunching, interrupted>>
      /\ pc = "done" <=> pc' = "done"
      /\ held \in Slot => handState' = handState /\ handLevel' = handLevel
  <2>1. CASE StartScheduling \/ NoLaunch \/ NoWake \/ Skip \/ Reset
    <3>1. pc \notin Hands /\ pc \in Point /\ pc' \in Point
      BY <2>1 DEF StartScheduling, NoLaunch, NoWake, Skip, Reset, Hands, Processing, Point,
                  nextLevel
    <3>2. held \notin Slot
      BY <3>1, NoneIsNoSlot DEF Sound, TypeOK, Hands
    <3> QED
      BY <2>1, <3>1, <3>2
      DEF StartScheduling, NoLaunch, NoWake, Skip, Reset, launchVars, loopVars, clockVars, Point
  <2>2. CASE Send \/ Receive
    BY <2>2 DEF Send, Receive, launchVars, loopVars, clockVars, handState, handLevel, Processing
  <2>3. CASE (\E p \in Pid : UserStep(p)) \/ Ended \/ UNCHANGED vars
    <3>1. UNCHANGED <<pc, launchVars, loopVars, clockVars>>
      BY <2>3 DEF UserStep, Connect, TakeQuantum, Work, QueueGone, Ended, vars
    <3> QED BY <3>1 DEF launchVars, loopVars, clockVars, handState, handLevel
  <2> QED BY <2>1, <2>2, <2>3
<1>2. \A s \in Slot : SameState(s)
  BY <1>1, NothingMoves
<1> QED BY <1>1, <1>2, AllStay

LEMMA ForkStutters == ASSUME Sound, Sound', Fork PROVE UNCHANGED States!vars
<1>1. /\ UNCHANGED <<queue, bitVector, stopLaunching, interrupted>>
      /\ held = None /\ held' \in Slot /\ bitVector[held'] = 0
      /\ pc # "done" /\ pc' # "done"
  BY ForkTakesFreeSlot DEF Sound, Fork, launchVars, clockVars, TypeOK, Processing
<1>2. Touches(held')
  BY <1>1, NoneIsNoSlot DEF Touches, holds
<1>3. StateByPlace /\ StateByPlace'
  BY PlaceGivesState, PTL
<1>4. \A s \in Slot : SameState(s)
  BY <1>1, <1>2, <1>3, OthersStay DEF StateByPlace, SameState
<1> QED BY <1>1, <1>4, AllStay

\* What OSS takes from a queue to look at stays what it was.
LEMMA AdmitsStutter ==
  ASSUME Sound, Sound', Admit \/ TakeBlocked \/ Admitted
  PROVE  UNCHANGED States!vars
<1>1. UNCHANGED <<stopLaunching, interrupted>> /\ pc # "done" /\ pc' # "done"
  BY DEF Admit, TakeBlocked, Admitted, clockVars
<1>2. StateByPlace /\ StateByPlace'
  BY PlaceGivesState, PTL
<1>3. 0 \in Queues /\ 0 \in Level /\ Blocked \in Queues
  BY DEF Queues, Level
<1>4. ASSUME Admit \/ TakeBlocked PROVE \A s \in Slot : SameState(s)
  <2> DEFINE q == IF pc' = "admit" THEN 0 ELSE Blocked
  <2>1. q \in Queues /\ Take(q)
    BY <1>3, <1>4
    DEF Admit, TakeBlocked, suspendedFirst, Take, Hands, Processing, launchVars, clockVars
  <2>2. Touches(held') /\ holds(q, held') /\ held' \in Slot /\ bitVector'[held'] = 1
    BY <1>4, <2>1, TakeTouches
    DEF Sound, TypeOK, OnePlace, Admit, TakeBlocked, Processing
  <2>3. \A s \in Slot : s = held' => SameState(s)
    BY <1>2, <1>3, <1>4, <2>2
    DEF StateByPlace, SameState, handState, handLevel, Processing, Admit, TakeBlocked
  <2> QED BY <2>2, <2>3, OthersStay
<1>5. ASSUME Admitted PROVE \A s \in Slot : SameState(s)
  <2>1. Put(0)
    BY <1>3, <1>5 DEF Admitted, Put, Hands, Processing, launchVars, clockVars
  <2>2. Touches(held) /\ held \in Slot /\ bitVector[held] = 1
    BY <1>3, <1>5, <2>1, PutTouches DEF Sound, TypeOK, OnePlace, Admitted, Processing
  <2>3. \A s \in Slot : s = held => holds(0, s)'
    BY <1>3, <2>1, PutTouches
  <2>4. \A s \in Slot : s = held => SameState(s)
    BY <1>2, <1>3, <1>5, <2>2, <2>3
    DEF StateByPlace, SameState, handState, handLevel, Processing, Admitted
  <2> QED BY <2>2, <2>4, OthersStay
<1> QED BY <1>1, <1>4, <1>5, AllStay

LEMMA StatesAt == \A s \in Slot : states[s] = stateOf(s) /\ levels[s] = levelOf(s)
  BY DEF states, levels

LEMMA DispatchRuns == ASSUME Sound, Sound', Dispatch PROVE \E s \in Slot : States!Run(s)
<1>1. /\ UNCHANGED <<level, stopLaunching, interrupted>>
      /\ pc = "run" /\ pc' = "send" /\ level \in Level /\ level \in Queues
  BY DEF Dispatch, launchVars, clockVars, Sound, TypeOK, Queues
<1>2. Take(level)
  BY <1>1 DEF Dispatch, runnable, Take, Hands, Processing, launchVars, clockVars
<1>3. Touches(held') /\ holds(level, held') /\ held' \in Slot /\ bitVector'[held'] = 1
  BY <1>1, <1>2, TakeTouches DEF Sound, TypeOK, OnePlace, Processing
<1>4. StateByPlace /\ StateByPlace'
  BY PlaceGivesState, PTL
<1>5. stateOf(held') = "ready" /\ levelOf(held') = level
  BY <1>1, <1>3, <1>4 DEF StateByPlace
<1>6. \A s \in Slot : s = held' => stateOf(s)' = "running" /\ levelOf(s)' = level
  BY <1>1, <1>3, <1>4 DEF StateByPlace, handState, handLevel, Processing
<1>7. \A s \in Slot : stateOf(s) # "running"
  <2>1. held = None /\ \A s \in Slot : bitVector[s] \in {0, 1}
    BY <1>1 DEF Sound, TypeOK, Processing
  <2> QED BY <1>4, <2>1, NoneIsNoSlot DEF StateByPlace, queued, Queues
<1>8. states[held'] = "ready" /\ levels[held'] = level
  BY <1>3, <1>5, StatesAt
<1>9. states'[held'] = "running" /\ levels'[held'] = level
  BY <1>3, <1>6 DEF states, levels
<1>10. States!Move(held', "ready", "running", level)
  BY <1>1, <1>3, <1>8, <1>9, Moved
<1>11. States!Run(held')
  BY <1>1, <1>7, <1>8, <1>10 DEF States!Run, States!Idle, states, levels
<1> QED BY <1>3, <1>11

\* What OSS puts into a queue becomes ready on that level, or blocked.
LEMMA PutMoves ==
  ASSUME Sound, Sound', NEW q \in Queues, Put(q)
  PROVE  LET from == IF pc = "book" THEN "free" ELSE handState
             to   == IF q = Blocked THEN "blocked" ELSE "ready"
         IN  held \in Slot /\ States!Move(held, from, to, IF q = Blocked THEN 0 ELSE q)
<1> DEFINE from == IF pc = "book" THEN "free" ELSE handState
           to   == IF q = Blocked THEN "blocked" ELSE "ready"
           l    == IF q = Blocked THEN 0 ELSE q
<1>1. /\ held \in Slot /\ pc # "done" /\ pc' # "done"
      /\ bitVector[held] = IF pc = "book" THEN 0 ELSE 1
  BY NoneIsNoSlot DEF Put, Sound, TypeOK, OnePlace, Hands, Processing
<1>2. Touches(held) /\ \A s \in Slot : s = held => holds(q, s)'
  BY PutTouches
<1>3. StateByPlace /\ StateByPlace'
  BY PlaceGivesState, PTL
<1>4. stateOf(held) = from
  BY <1>1, <1>3 DEF StateByPlace
<1>5. \A s \in Slot : s = held => stateOf(s)' = to /\ levelOf(s)' = l
  <2>1. q # Blocked => q \in Level
    BY DEF Queues
  <2> QED BY <1>2, <1>3, <2>1 DEF StateByPlace
<1>6. states[held] = from /\ states'[held] = to /\ levels'[held] = l
  BY <1>1, <1>4, <1>5 DEF states, levels
<1> HIDE DEF from, to, l
<1>7. States!Move(held, from, to, l)
  BY <1>1, <1>2, <1>6, Moved
<1> QED BY <1>1, <1>7 DEF from, to, l

LEMMA PutsImplement ==
  ASSUME Sound, Sound', Book \/ Wake \/ Keep \/ Demote \/ Block
  PROVE  \E s \in Slot : \/ States!Launch(s) \/ States!Wake(s) \/ States!Keep(s)
                         \/ States!Demote(s) \/ States!Block(s)
<1>1. UNCHANGED stopLaunching /\ level \in Level /\ 0 \in Level
  <2>1. UNCHANGED clockVars
    BY DEF Book, Wake, Keep, Demote, Block, requeue
  <2>2. level \in Level
    BY DEF Sound, TypeOK
  <2> QED BY <2>1, <2>2 DEF clockVars, Level
<1>2. 0 \in Queues /\ Blocked \in Queues /\ Blocked # 0 /\ \A q \in Level : q \in Queues /\ q # Blocked
  BY DEF Queues, Level, Blocked
<1>3. pc = "settle" => held \in Slot /\ states[held] = "running" /\ levels[held] = level
  <2>1. StateByPlace
    BY PlaceGivesState DEF Sound
  <2>2. pc = "settle" => held \in Slot /\ bitVector[held] = 1
    BY NoneIsNoSlot DEF Sound, TypeOK, OnePlace, Processing
  <2> QED BY <2>1, <2>2 DEF StateByPlace, handState, handLevel, Processing, states, levels
<1> USE DEF Put, Hands, Processing, launchVars, clockVars
<1>4. CASE Book
  <2>1. Put(0) /\ pc = "book"
    BY <1>2, <1>4 DEF Book
  <2>2. held \in Slot /\ States!Move(held, "free", "ready", 0)
    BY <1>2, <2>1, PutMoves
  <2> QED BY <1>1, <2>2 DEF States!Launch
<1>5. CASE Wake
  <2>1. Put(0) /\ pc = "wake"
    BY <1>2, <1>5 DEF Wake
  <2>2. held \in Slot /\ States!Move(held, "blocked", "ready", 0)
    BY <1>2, <2>1, PutMoves DEF handState
  <2> QED BY <1>1, <2>2 DEF States!Wake
<1>6. CASE Keep
  <2>1. Put(level) /\ pc = "settle"
    BY <1>1, <1>2, <1>6 DEF Keep, requeue, nextLevel
  <2>2. held \in Slot /\ States!Move(held, "running", "ready", level)
    BY <1>1, <1>2, <2>1, PutMoves DEF handState
  <2> QED BY <1>1, <1>3, <2>1, <2>2 DEF States!Keep, levels
<1>7. CASE Demote
  <2>1. level + 1 \in Level /\ level < 2
    BY <1>1, <1>7 DEF Demote, Level
  <2>2. Put(level + 1) /\ pc = "settle"
    BY <1>2, <1>7, <2>1 DEF Demote, requeue, nextLevel
  <2>3. held \in Slot /\ States!Move(held, "running", "ready", level + 1)
    BY <1>2, <2>1, <2>2, PutMoves DEF handState
  <2> QED BY <1>1, <1>3, <2>1, <2>2, <2>3 DEF States!Demote, levels
<1>8. CASE Block
  <2>1. Put(Blocked) /\ pc = "settle"
    BY <1>2, <1>8 DEF Block, nextLevel
  <2>2. held \in Slot /\ States!Move(held, "running", "blocked", 0)
    BY <1>2, <2>1, PutMoves DEF handState
  <2> QED BY <1>1, <2>2 DEF States!Block
<1> QED BY <1>4, <1>5, <1>6, <1>7, <1>8

LEMMA CompleteImplements ==
  ASSUME Sound, Sound', Complete PROVE \E s \in Slot : States!Complete(s)
<1>1. /\ UNCHANGED <<queue, stopLaunching>>
      /\ pc = "settle" /\ pc' # "done" /\ held \in Slot /\ held' = None /\ bitVector[held] = 1
      /\ bitVector' = [bitVector EXCEPT ![held] = 0] /\ bitVector \in [Slot -> {0, 1}]
  BY NoneIsNoSlot DEF Complete, clockVars, nextLevel, Sound, TypeOK, OnePlace, Processing
<1>2. Touches(held)
  BY <1>1, NoneIsNoSlot DEF Touches, holds
<1>3. StateByPlace /\ StateByPlace'
  BY PlaceGivesState, PTL
<1>4. states[held] = "running"
  BY <1>1, <1>3 DEF StateByPlace, handState, Processing, states
<1>5. states'[held] = "free" /\ levels'[held] = 0
  <2>1. \A s \in Slot : s = held => stateOf(s)' = "free" /\ levelOf(s)' = 0
    BY <1>1, <1>3 DEF StateByPlace
  <2> QED BY <1>1, <2>1 DEF states, levels
<1>6. States!Move(held, "running", "free", 0)
  BY <1>1, <1>2, <1>4, <1>5, Moved
<1> QED BY <1>1, <1>6 DEF States!Complete

\* The alarm loses what OSS has in its hand, unless that is not booked yet.
LEMMA AlarmImplements ==
  ASSUME Sound, Sound', Alarm
  PROVE  States!Strike \/ \E s \in Slot : States!Lose(s)
<1>1. /\ UNCHANGED <<queue, bitVector, interrupted>> /\ ~stopLaunching /\ stopLaunching'
      /\ pc # "done" /\ pc' # "done" /\ held' = None
      /\ held \in Slot => bitVector[held] = IF pc = "book" THEN 0 ELSE 1
  BY SignalAssumption, NoneIsNoSlot
  DEF Alarm, launchVars, Sound, TypeOK, OnePlace, Point, Processing
<1>2. \A q, s : holds(q, s)' <=> holds(q, s)
  BY <1>1 DEF holds
<1>3. Touches(held)
  BY <1>1, <1>2, NoneIsNoSlot DEF Touches
<1>4. StateByPlace /\ StateByPlace'
  BY PlaceGivesState, PTL
<1>5. CASE held \notin Slot \/ pc = "book"
  <2>1. \A s \in Slot : s = held => SameState(s)
    BY <1>1, <1>4, <1>5 DEF StateByPlace, SameState
  <2>2. \A s \in Slot : SameState(s)
    BY <1>3, <2>1, OthersStay
  <2> QED BY <1>1, <2>2 DEF States!Strike, SameState
<1>6. CASE held \in Slot /\ pc # "book"
  <2>1. states[held] \in {"ready", "running", "blocked"}
    BY <1>1, <1>4, <1>6 DEF StateByPlace, handState, states
  <2>2. ~queued(held)
    BY <1>6 DEF queued, Sound, OnePlace
  <2>3. \A s \in Slot : s = held => ~queued(s)'
    BY <1>2, <2>2 DEF queued
  <2>4. \A s \in Slot : s = held => stateOf(s)' = "lost" /\ levelOf(s)' = 0
    BY <1>1, <1>4, <1>6, <2>3, NoneIsNoSlot DEF StateByPlace
  <2>5. states'[held] = "lost" /\ levels'[held] = 0
    BY <1>6, <2>4 DEF states, levels
  <2>6. States!Move(held, states[held], "lost", 0)
    BY <1>1, <1>3, <1>6, <2>5, Moved
  <2> QED BY <1>1, <1>6, <2>1, <2>6 DEF States!Lose
<1> QED BY <1>5, <1>6

\* The end takes every process out of the queues and of OSS's hand.
LEMMA ClearEnds ==
  ASSUME Sound, Sound', Clear, pc # "done", NEW how, how = "killed" <=> interrupted',
         how \in {"finished", "killed"},
         how = "finished" => \A s \in Slot : states[s] \in {"free", "lost"}
  PROVE  States!End(how)
<1>1. /\ \A q \in Queues : queue'[q] = << >>
      /\ held' = None /\ pc' = "done" /\ UNCHANGED <<bitVector, stopLaunching>>
      /\ \A s \in Slot : bitVector[s] \in {0, 1}
  BY DEF Clear, Sound, TypeOK
<1>2. \A q \in Queues : \A s : ~holds(q, s)'
  BY <1>1 DEF holds
<1>3. StateByPlace /\ StateByPlace'
  BY PlaceGivesState, PTL
<1>4. \A s \in Slot : states[s] = "free" <=> bitVector[s] = 0
  <2>1. ASSUME NEW s \in Slot, bitVector[s] = 1 PROVE stateOf(s) # "free"
    BY <1>3, <2>1 DEF StateByPlace, handState, queued, Queues
  <2> QED BY <1>1, <1>3, <2>1 DEF StateByPlace, states
<1>5. \A s \in Slot : stateOf(s)' = (IF states[s] = "free" THEN "free" ELSE "lost")
                     /\ levelOf(s)' = 0
  BY <1>1, <1>2, <1>3, <1>4, NoneIsNoSlot DEF StateByPlace, queued
<1>6. /\ states' = [s \in Slot |-> IF states[s] = "free" THEN "free" ELSE "lost"]
      /\ levels' = [s \in Slot |-> 0]
  BY <1>5 DEF states, levels
<1> QED BY <1>1, <1>6 DEF States!End, states, levels

LEMMA EndImplements ==
  ASSUME Sound, Sound', Uninterrupted, Finish \/ Interrupt
  PROVE  States!End("finished") \/ States!End("killed")
<1>1. CASE Finish
  <2>1. /\ Clear /\ pc = "sched" /\ held = None /\ ~interrupted' /\ allEmpty
        /\ queue \in [Queues -> Seq(Slot)] /\ \A s \in Slot : bitVector[s] \in {0, 1}
    BY <1>1 DEF Finish, cleanUp, Clear, launchVars, clockVars, Uninterrupted, Sound, TypeOK,
                Processing, Queues
  <2>2. \A s \in Slot, q \in Queues : ~holds(q, s)
    BY <2>1 DEF allEmpty, isEmpty, holds
  <2>3. StateByPlace
    BY PlaceGivesState
  <2>4. \A s \in Slot : states[s] \in {"free", "lost"}
    BY <2>1, <2>2, <2>3, NoneIsNoSlot DEF StateByPlace, queued, states
  <2> QED BY <2>1, <2>4, ClearEnds
<1>2. CASE Interrupt
  <2>1. Clear /\ pc # "done" /\ interrupted'
    BY <1>2, SignalAssumption
    DEF Interrupt, cleanUp, Clear, launchVars, Sound, TypeOK, Queues, Point
  <2> QED BY <2>1, ClearEnds
<1> QED BY <1>1, <1>2

-----------------------------------------------------------------------------
(* Refinement *)

LEMMA InitImplements == Init => States!Init
<1> SUFFICES ASSUME Init PROVE States!Init
  OBVIOUS
<1>1. Inv
  BY InitInv
<1>2. StateByPlace
  BY <1>1, PlaceGivesState DEF Inv, Sound
<1>3. \A s \in Slot : stateOf(s) = "free" /\ levelOf(s) = 0
  BY <1>2 DEF StateByPlace, Init
<1>4. ~stopLaunching /\ stopLaunching \in BOOLEAN /\ pc = "top"
  BY DEF Init
<1> QED BY <1>3, <1>4 DEF States!Init

LEMMA StepImplements ==
  Inv /\ Inv' /\ Uninterrupted /\ [Next]_vars => [States!Next]_States!vars
<1> SUFFICES ASSUME Inv, Inv', Uninterrupted, [Next]_vars
             PROVE  States!Next \/ UNCHANGED States!vars
  OBVIOUS
<1>1. Sound /\ Sound'
  BY DEF Inv, Sound
<1>2. CASE StartScheduling \/ NoLaunch \/ NoWake \/ Skip \/ Send \/ Receive \/ Reset
           \/ (\E p \in Pid : UserStep(p)) \/ Ended \/ UNCHANGED vars
  BY <1>1, <1>2, StutterSteps
<1>3. CASE Fork
  BY <1>1, <1>3, ForkStutters
<1>4. CASE Admit \/ TakeBlocked \/ Admitted
  BY <1>1, <1>4, AdmitsStutter
<1>5. CASE Dispatch
  BY <1>1, <1>5, DispatchRuns DEF States!Next
<1>6. CASE Book \/ Wake \/ Keep \/ Demote \/ Block
  BY <1>1, <1>6, PutsImplement DEF States!Next
<1>7. CASE Complete
  BY <1>1, <1>7, CompleteImplements DEF States!Next
<1>8. CASE Alarm
  BY <1>1, <1>8, AlarmImplements DEF States!Next
<1>9. CASE Finish \/ Interrupt
  BY <1>1, <1>9, EndImplements DEF States!Next
<1> QED
  BY <1>2, <1>3, <1>4, <1>5, <1>6, <1>7, <1>8, <1>9 DEF Next, OssStep

LEMMA StaysUninterrupted == Inv /\ Uninterrupted /\ [Next]_vars => Uninterrupted'
<1> SUFFICES ASSUME Inv, Uninterrupted, [Next]_vars PROVE Uninterrupted'
  OBVIOUS
<1>1. CASE Interrupt
  BY <1>1 DEF Interrupt, cleanUp, Uninterrupted
<1>2. CASE ~Interrupt
  <2>1. UNCHANGED interrupted
    BY <1>2
    DEF Next, OssStep, UserStep, vars, Fork, Book, StartScheduling, NoLaunch, Finish, Admit,
        Admitted, TakeBlocked, Wake, NoWake, Skip, Dispatch, Send, Receive, Complete, Block,
        Keep, Demote, requeue, Reset, Alarm, Connect, TakeQuantum, Work, QueueGone, Ended,
        clockVars
  <2>2. TypeOK /\ OnePlace
    BY DEF Inv
  <2>3. pc = "done" => pc' = "done"
    BY <2>2, SignalAssumption, PlaceSteps
    DEF Rest, Fork, Complete, Alarm, Clear, Take, Put, Hands, Processing, Point
  <2> QED BY <2>1, <2>3 DEF Uninterrupted
<1> QED BY <1>1, <1>2

\* Every slot OSS moves between its queues, its hand and its table moves as
\* ProcessStates says: no process is lost, doubled or put on a level it has not
\* earned, but for the one that realTime may lose.
THEOREM ImplementsStates == Spec => ImplementsProcessStates
<1>1. Init => Uninterrupted
  BY DEF Init, Uninterrupted
<1>2. Spec => [](Inv /\ Uninterrupted)
  BY <1>1, AlwaysInv, InitInv, InvKept, StaysUninterrupted, PTL DEF Spec
<1> QED
  BY <1>2, InitImplements, StepImplements, PTL DEF Spec, ImplementsProcessStates, States!Spec
=============================================================================
