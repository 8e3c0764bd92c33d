# A verification of the operating-system simulators

This repository holds six course projects in C. Five of them are systems of
concurrent processes: subset sums computed by a chain of children (project 2), a virtual
clock guarded by a semaphore (3), a multi-level feedback scheduler (4), a resource manager
(5) and a paging simulator (6). The modules here specify these five and check them with
TLC on small instances; with TLAPS they prove the invariants that the passing runs check,
and the refinements but for their liveness, for instances of every size. Source lines are those of `src/`; P5:366 is line 366 of project5/ossim.c and U5:229
line 229 of project5/user.c.

## Inventory

| component | state | operations | interaction | status |
|---|---|---|---|---|
| circular queue (4, 5, 6) | array, front, rear, size | createQueue, enqueue (drops when full), dequeue and front (-1 when empty) | called by OSS | modelled, refinement proved |
| project 6, memory | `Pcb[].pageTable`, `frameTable`, `q_frame`, `bitVector` | initPCB, noPageFaultWork, pageFaultWork, terminatingWork | called by OSS's loop | modelled, invariants proved |
| project 6, processes | OSS's loop, the message queue, each user's loop, alarm, SIGINT | launch, receive, handle, wait, reply; ask, answer, quit | messages, fork/wait, signals | partly modelled, invariants and both refinements proved |
| project 5, resource manager | shared descriptor (vector, three matrices, five flags per slot), semaphore, queue of suspended slots, PCB slots | a user's claim, first draw, visits; OSS's scans, resourceAllocation, isSafe, wake-up, alarm, SIGINT | shared memory under one semaphore, messages, signals | partly modelled, invariants and refinement proved |
| project 4, scheduler and processes | queues 0, 1, 2 and blocked, `looped` flags, PCB table | scheduler, dispatcher, queueCalculations, resetQueueLooper, alarm, SIGINT; a process's quantum, four tasks, answer | shared PCB table, one message to a process and one back, signals | partly modelled, invariants and refinement proved |
| project 3, clock | clock, one message slot, semaphore, list of children | the master's tick, wait(), relaunch, clean-ups; a child's two looks at the clock, critical section, message | shared memory, semaphore with SEM_UNDO, fork/wait, kill | modelled, invariants proved |
| project 2, subset sums | a line per child, two timers | is_subset_sum, subset_sum, print_subset; fork and wait; the timers | fork/wait, longjmp, kill | partly modelled, proved |
| project 1, listing | none | depth-first walk over directories, printing `lstat` fields | file system | not modelled: input and output only |

What is hard, and what makes each one correct:

* **Memory.** The page table of a slot, the frame table and the replacement queue
  describe the same fact three times, and slots and frames are reused. They must
  agree, and a termination must empty its own frames only.
* **Paging processes.** OSS is single threaded but a slot is booked some time after its
  process exists; messages queue up; `wait()` reaps any child; the five-second alarm
  `longjmp`s from wherever OSS is; SIGINT removes the queue under waiting users.
  Each request must get its own answer, each termination must find its child, and the
  system must end.
* **Resource manager.** A user's first allocation and its test of `terminating` are
  outside the semaphore; a grant may fail half way; the suspended queue holds slots
  several times and after their process has gone; wake-up depends on counting; an
  interrupt kills the pids it finds in the table. Units must be conserved, slots must not be
  shared, and nobody should sleep forever.
* **Scheduler.** The flags of a PCB, the four queues, the loop flags and the slot OSS has in its hand
  must fit together, across an alarm that `longjmp`s from any point and a reply queue that
  does not say whose answer is expected. No process may be lost or run twice, and each must be
  scheduled again.
* **Clock.** The master calls `wait()` inside its critical section; a full message slot must
  mean that somebody can be waited for. Children read the clock in two halves without
  the semaphore; the carry loses time; anybody may be killed while holding the semaphore.
* **Subset sums.** After a hit the search goes on with a shorter tuple and a wrong sum, and
  reads past the end of its list; what is printed must be right all the same. The timer
  of the program may strike between `fork` and the assignment of its result.

The hazards, each at its line, with the properties that would notice, are in
`PROJECT.json`.

## Modules

```
BoundedFifo <--implements-- RingQueue
    ^   ^
    |   | q_0, q_1, q_2, q_Blocked
    |  Scheduler --implements--> ProcessStates
    | q_frame
FrameTable  <--implements-- PagingSystem --implements--> UserSessions
ResourceLedger <--implements-- ResourceManager
VirtualClock
SubsetSum

RecursionLemmas <--extends-- PagingSystem_proofs, ResourceManager_proofs, SubsetSum_proofs
```

The theorems about a module `M` are in `M_proofs`, which extends it. `RecursionLemmas` holds what
three of them share: induction over numbers and finite sets, that functions defined by recursion exist, and
the sums of the library. `MC*` modules only give values to constants. A definition whose comment begins "A slip
for the mutation runs" is not part of any specification: it is a plausible error in the
operation it stands beside, and a mutation run puts it in that operation's place to see
that a property notices.

### RingQueue, BoundedFifo

`RingQueue` is `struct Queue` (P6:590-632, the same text in projects 4 and
5): `array`, `front`, `rear`, `size`, one action per function. A cell that was never
written may hold any item, as `malloc` leaves it. `BoundedFifo` is a
sequence of bounded length which drops what does not fit. `contents` reads the
ring from `front` and is the refinement mapping.

### FrameTable

| state | code |
|---|---|
| `bitVector[slot]` | the pid that owns a slot, 0 if none |
| `pageTable[slot][page]` | `Pcb[slot].pageTable[page].frameNumber`, -1 if not mapped |
| `frameTable[frame]` | occupied, pid and page reference of a frame |
| `qFrame` | `q_frame`, as the sequence that `RingQueue` implements |
| `replaced` | a history variable: has `pageFaultWork` ever replaced a frame? |

`Launch` is initPCB with the choice of the slot; `Hit` is noPageFaultWork; `Place`, `Replace`
and `Skip` are the three ways through pageFaultWork; `Terminate` is terminatingWork. On
its own the module lets any process that owns a slot send any message; `PagingSystem`
says which messages are really sent. Dirty and valid bits, time stamps, limits and
statistics are left out: no branch the properties can see depends on them.

### PagingSystem, UserSessions

OSS's loop is cut where another process or a signal can observe it: `top`, `book`
(childLauncher has forked, the slot is not booked), `recv`, `handle`, `reap` (in
terminatingWork's `wait()`), `reply`, `final`, `done`. A user is unborn, boot (not
attached to the queue), ready, waiting, exiting, zombie, reaped, or stranded (it has
created a queue of its own after OSS removed the real one). `toOss` and `toUser[p]` are
what the message type selects from the one System V queue. Whether a launch is due
is a choice, as the clock is left out. `AlarmAt` names the points at which the alarm may
strike: the runs use those where it does no harm (see "Where code and comments
disagree" for the others). `OssInterrupt` and `UserInterrupt` allow SIGINT. `UserSessions` is the
promise: at most `Limit` users compute, a user asks for one page at a time, every request
is answered, in order. The refinement of FrameTable (`ImplementsFrameTable`) allows one step that is no
operation of FrameTable: OSS's `cleanUp`, which empties the queue of frames at the end.

### ResourceManager, ResourceLedger

| state | code |
|---|---|
| `avail`, `req`, `alloc` | allocation_vector, request_matrix, allocation_matrix |
| `request`, `allocate`, `suspended`, `terminating` | the flags of each slot |
| `locked` | OSS is inside the critical section |
| `pc`, `index` | where OSS is and `i` of its scans |
| `q`, `bitVector`, `pidOf` | the suspended queue, the slots in use, `shmPcb[].pid` |
| `user`, `slotOf`, `item`, `loaded`, `held`, `mail` | each user's place in user.c and its locals; messages sent to it |

need_matrix is recomputed before each use and is an operator. `release` is left out: its
only assignment of 1 (P5:457) is under `alloc + need > request`, where `need` was just set
to `request - alloc`. A user's visit to the descriptor is one step, since everybody who looks
at what it changes holds the semaphore; what it does outside it is separate: the
draw of its first resources (`Draw`, `Load`, `Store`) and the test of its
terminating flag (`Check`). OSS's stay in the critical section is one step per slot and
scan, because the alarm can leave it. Times are compared as text, wrongly from
ten seconds on, so each test of a time may come out either way. `Interrupt` is the first
branch of main's `setjmp`: who is in the table is killed, a pid of 0 makes `kill` strike OSS's own
process group (state `dead`: nothing is cleaned up), and a process that had not yet written
its pid is `stranded`: the clock it waits for stands still.

A launch is three steps: `Fork` (childLauncher, P5:255), after which OSS sleeps while the child writes its pid
(`Boot`, P5:712) and may go on into user.c; `Mark` (`bitVector[...] = 1`, P5:256); `Count` (P5:270-271). A signal can
end it after either of the first two: an alarm leaves a child without a slot of its own or without a count, and an
interrupt, which looks for marked slots, misses it. `forked` counts the forks and is no variable of the code.

The code leaves two races open, and the model takes every outcome of them. Two histories, which no guard
reads, record that one has happened, so that a property can say what holds until then:

* `overlapped`: a user ran its start-up (U5:115-156), which does not wait for the semaphore, while another one did or
  while OSS was in the critical section. Units may be lost or made (U5:148).
* `overtaken`: the slots whose `terminating` flag OSS cleared after a process had set it and given back the semaphore,
  and before that process looked at the flag (U5:229). The process goes on, in a slot that is now free.

`undisturbed` says that neither has happened. `WithinClaims` and `ImplementsLedger` speak of the behaviours until
then; `CountMatches`, `OwnSlots` and `OnlyStartingEscape` say what each race, and each broken launch, can do and
that it can do no more. `currentLaunched--` (P5:794) has no floor and can be reached any number of times by an
overtaken process; `countedDown` stops at a value so low that the launches still allowed cannot bring it back to 0,
below which no guard tells values apart.

`AlarmAt` and `InterruptAt` name the points at which the alarm and SIGINT (or SIGTSTP) strike. An interrupted or
finished OSS kills processes and removes what the others work on: those it misses are `stranded` or `left`
and are not followed further; `Ended` is the state in which only such processes remain.

`ResourceLedger` is what the manager promises of resources that are not sharable: only free
units are given out, and a slot gives back all it has or nothing. That no unit is lost or made
follows from it. A starting user writes its row
before it lowers what is available; the refinement mapping counts the row from the second write on. `ImplementsLedger` excepts
the steps after a race, and the two in which OSS kills processes: one killed between those writes has units on
its row that it never took.

### Scheduler, ProcessStates

| state | code |
|---|---|
| `pc` | where OSS is: `top` of main's loop, `book` (forked, not booked), `sched`, `admit`, `wake` (scheduler's first two parts), `run`, `send`, `await`, `settle` (dispatcher, queueCalculations and what follows them), `reset` |
| `held` | `pctLocation` or `toRequeue`: the slot OSS has in its hand and in no queue |
| `level`, `queue`, `looped` | the level scheduler has got to; q_0, q_1, q_2, q_Blocked; queue0Looped to queue2Looped |
| `bitVector`, `currentLaunched`, `totalLaunched`, `stopLaunching`, `scheduling` | main's variables of these names; has the clock reached `startScheduling`? |
| `shmPCB` | pid, task, ready, suspend, blocked, queueLooper, completed of each slot |
| `queueUp`, `toOss`, `toUser` | the message queue, answers and quanta under way |
| `user` | what each process does |

The four queues use `BoundedFifo!Enqueued`, the operator that RingQueue implements.
Times are choices: which launches are due, whether the front of the blocked queue is due (381),
and whether the waiting times exceed their thresholds (`Keep` or `Demote`, 511-595). Tasks 1
and 3 of a process differ only in how much of the quantum is used and are one. Two readings of memory
that the code does not define are kept: `front()` of an empty queue is -1, and
`shmPCB[-1].queueLooper` is the constant `StrayLooper` (474); resetQueueLooper clears the
flags of the slots in `array[0 .. size - 1]`, which need not be those in the queue, so `Reset`
chooses them. The alarm `longjmp`s into main from any point and forgets `held`; `Book` and `Complete` are one step
each, so an alarm that strikes inside one, between the counters of a launch (229-230, 235-236, with an `fprintf` at
233) or between the decrement and the bit of a completed process, is not modelled. A failing `fork`
`longjmp`s to the branch that SIGINT takes.

`ProcessStates` knows no queue and no message: each slot is free, ready on a level,
running, blocked or lost, one at most is running, a process goes down one level at a time and
starts over on level 0 when it wakes, at most one is lost, and the run ends by itself only when
nobody is ready, running or blocked.

### VirtualClock

| state | code |
|---|---|
| `seconds`, `nanoseconds` | the clock in shared memory |
| `message` | the one slot: `shmPtr->message`, 0 when empty |
| `holder`, `up` | whose semop is to be undone; do the segment and the semaphore exist? |
| `pc`, `pids`, `totalChildren` | the master: `fork`, `push`, `loop`, `check`, `wait`, `tick`, `carry`, `clear`, `cede`, `done`, `dead`; its list |
| `child`, `saw`, `target` | a child: boot, looking (seconds read, nanoseconds not), before, critical, leaving, zombie, failed, reaped, killed, stranded; what it read; the time it waits for |

The tick is three steps (nanoseconds, seconds, nanoseconds again, P3:262-268), since a child's first look
at the clock (U3:58-63) is outside the semaphore. What is inside a child's critical section is
one step. `Second`, `Step` and `Delay` stand for 10^9, the master's increment and what a child
waits, in larger units. `Signal` is any of the three signals the master handles, `ForkFails` the one
exit without a clean-up, `Fail` a child that cannot start or is killed from outside. The
master removes shared memory and semaphore in a row, which is one step.

### SubsetSum

`is_subset_sum` and `subset_sum` are recursive functions with the branches of the code, one on the
numbers looked at and the sum that is left, the other on the arguments of a call that change (`Call`): the
tuple, what is taken for its sum, and the number of elements considered. `take` is the call in the loop, `exclude`
the one after a hit, with the wrong sum and the read past the list (`at`: the `Garbage` zeros, then something
else) kept. `Solutions` is the reference: what can be picked from the list, in its order, and has the sum. The
chain of children is `Fork`, `Store` (the assignment of fork's result), `Wait`; the child's search is `Start`,
`Find`, `Generate`, `Deny`, `Exit`; its timer is `Late` and the program's `TimeOut`.

## Runs

| run | instance | shows |
|---|---|---|
| ring | 3 cells, 3 items | refinement of the bounded FIFO |
| frames | 2 slots, 3 frames, 2 pages, 3 pids | agreement of the tables until the first replacement; ownership |
| paging_core | 2 slots, 1 frame, 2 pages, 3 launches, alarm | the protocol's invariants; every request is answered and OSS ends; refinement of FrameTable and of UserSessions |
| paging_signals | 1 page, SIGINT to OSS and users at any point | the exchange stays in step, attached users end |
| sched_core | 2 slots, 3 launches, alarm and SIGINT at every point | refinement of ProcessStates; flags fit queues; one quantum out at a time |
| sched_live | 3 slots, 3 launches, no signals | OSS is answered; level 0 and the blocked are served |
| clock | 2 children at a time, 4 in all, signals, failures, failing forks | the slot stands for one leaver; the wait is bounded; the list is right; the master ends |
| subset | lists of up to 4 of the numbers 0 to 4, sums 1 to 7, 2 children | answers and printing are right; ascending lists print nothing twice; who survives the timer |
| resource | 2 slots, 2 resources of 1 unit, 3 launches, verbose; alarm before and within a launch, SIGINT within a launch and in the scan of requests | slots, counts and who survives an interrupt, whatever the races and broken launches do; until a race, claims and refinement of ResourceLedger; requests are decided |
| resource_dead | 3 slots, 1 unit, 3 launches | **violation** |
| resource_banker | 2 slots, 2 resources of 1 unit, 2 launches, not verbose | **violation** |
| sched_freeze | 1 slot, 1 launch, no signals | **violation** |

What each property says is in the comment above it. Each property of a passing run
has a mutation run in `PROJECT.json` that breaks it.

**Bounds.** Slots are reused as soon as launches outnumber slots, and the systems treat
all slots alike except for "the first free one", so two slots and three launches show
a slot with an earlier, a present and a concurrent owner. Three frames with two slots of
two pages let frames run out, be replaced, and the queue overflow with stale entries; in
paging_core, where the processes matter, one frame makes nearly every access a replacement.
`MinRequests` stands for 100: it is the number after which quitting is possible, and counts
beyond it are not kept apart. `HeldLimit` stands for 5. Two processes that may each claim
all of a resource make every request fail or succeed depending on the other; with two
resources a grant can fail at the second after taking the first. `resource_dead` needs three
slots: two in the queue and a third that terminates. `mail` counts to two, where two means
two or more and receiving one may leave two. In `sched_core` two slots let one process be on a
level while another is in OSS's hand, blocked, or unaccounted for after an alarm, and the third
launch reuses a slot; `sched_live` has three, so that all three levels can hold a process that has been through them and
each reset of P4:608-637 happens.

The state constraint `FewRaces` of `resource` drops what comes after many misfortunes at once: a behaviour with a third
process has no race and no alarm, and none has both races. The theorems about the same properties have no such limit. Three branches are
not reached with two slots, one resource unit and `-v`: the division by zero of a user (U5:139, after a
lost update made a count negative); the queue's first slot going back to its end (P5:317, reached in `resource_dead`); and
a grant that is not verbose (P5:480, in `resource_banker`). `resource_dead` and `resource_banker` look at undisturbed
behaviours only, because what they show needs no race.

In `clock` a second of 5 units with a step of 3 loses time at each carry and
lets a child look between the halves of one; four children with two at a time make two
replacements; two seconds is the bound in the code (P3:229). The lists of `subset` allow duplicates, zeros (which end the list) and
several solutions of different lengths; a list that prints a solution twice is longer than that, and what
holds for longer lists is proved.

**Deadlock** is checked in every passing run: a system ends in a state in which OSS
has ended and nobody can go on (`Ended`); project 5's OSS goes on looping even where
its users are blocked for good.

**Fairness.** `WF` on the step of OSS, the master and each process: they are operating-system processes
and are scheduled. Beyond that:

* project 6, `SF` on a user's `Quit`: before each request a
  user draws a number, and would have to draw it wrong forever otherwise;
* project 4, `SF` on `TakeBlocked`: every round of main's loop advances the clock, so the time
  at which the front of the blocked queue is due passes;
* project 3, `SF` on `Enter` and `EnterChild`: the kernel serves the waiters of a System V
  semaphore in turn. Without it the children could pass the semaphore among themselves forever.

No fairness is assumed of signals, failures, launches being due, or what a process of project 4 makes of its
quantum. Project 5 has no liveness property: a suspended user may wait for a message nobody sends (P5:358, P5:762), so
nothing that must eventually happen to a user holds of the code.

## Where code and comments disagree

Three runs contradict a sentence of the repository; `PROJECT.json` quotes them.

* `resource_dead`: the wake-all clears the terminating flag of a slot whose process has gone (P5:366).
* `resource_banker`: isSafe starts from `resource_vector` (P5:529) where the comment says "currently available" (527). It
  calls a circular wait safe; `SafetyTestIsIdle` proves that it never calls anything unsafe.
* `sched_freeze`: the loop flags are reset only while queue 0 is not empty (P4:608), so a process that has
  been through queue 1 or 2 may wait forever, and OSS with it.

Others shape the models and need no run of their own:

* P6:552 sets the entry of a replaced page to the frame number rather than -1, so a page that is no longer in memory
  hits. This is why the properties of FrameTable are about the time until the first replacement.
* P6:180 and 674: the alarm between `msgrcv` and `msgsnd` loses a request, and the user, then
  OSS, waits forever; out of `wait()` it skips `currentLaunched--`; between fork and booking it leaves a child in a
  slot that counts as free, whose requests OSS handles for nobody. The instances leave these points
  (`handle`, `reply`, `reap` and `book`) out of `AlarmAt`. A handler is one step: an alarm in the middle of one, or between
  the counters of a booking, is not modelled.
* U5:148: updates of allocation_vector at start-up are lost or made twice, and OSS's own updates with them
  (`overlapped`).
* U5:229: a user tests its terminating flag after giving back the semaphore. OSS may have cleared it, counted the
  process down and given its slot away; the process goes on in that slot and may be counted down again (`overtaken`).
* P5:255-271: an alarm that strikes while OSS sleeps in childLauncher (724), or before 270, leaves a child that no
  counter counts and that is counted down when it terminates. The count is then below the number of processes:
  OSS ends while one runs, or, once below 0, never (`CountMatches` says by how much it can be off). An
  interrupt in that sleep kills the marked slots only and misses the child (`OnlyStartingEscape`).
* P5:480 records a grant in verbose mode only; P5:336 wakes a process and gives it nothing;
  P5:762: a suspended slot may be queued twice, and a full queue drops one; P5:228: the alarm
  inside the critical section leaves it locked and OSS waits for itself, so the run's alarm strikes outside it only; P5:127:
  `kill` of a pid that is still 0.
* P4:216: the alarm loses the process OSS has in its hand, and during `await` leaves OSS one answer behind for the
  rest of the run. `OneQuantumOut` and `ImplementsProcessStates` say that it is never more than that. It is
  enough to stop OSS: with three slots it can dispatch a process that has ended, take another's answer for its own, dispatch
  a second one that has ended, and wait forever. `AwaitIsAnswered` is therefore about runs without the alarm.
* P3:266 drops the overflow of the nanoseconds; `WaitIsBounded` and `MasterFinishes` say what still holds.
* P2:405 takes the wrong number off the sum after a hit, and the search goes on with it. For positive sums only
  solutions are printed all the same (`AnswersAreRight`), but a later number may make the sum right again and a
  solution be printed twice: from 8, 14, 1, 7, 6 with the sum 8 and a zero behind the list 1 + 7 is printed
  twice. `PrintedOnce` says that this cannot happen in a list that ascends.

## What is proved

Every theorem is about all values of the constants that satisfy the modules' assumptions: positive numbers of
slots, frames and cells; pages and pids are naturals, pids not 0; each resource has at least one unit; the steps of the clock and
what children wait for are finite sets of positive times, the latter at most a second; the lists of project 2 hold
any integers, and the sums asked for are positive. The theorems about project 6 have hypotheses besides, which the runs
share: `AlarmAt` leaves out points of OSS's loop, and for `KeepsSessions` nobody is interrupted. Each theorem names
those it needs. The theorems about projects 2 to 5 have none.

**Queue** (`RingQueue_proofs`). `TypeAndShape`: indices are in range, `rear` is `front + size - 1` around the ring.
`RingRefinesFifo`. The invariant is inductive by itself. `%` is not something the
solver reasons well about, so `WrapCases` replaces it once by a case distinction and `wrap` stays hidden.

**Memory** (`FrameTable_proofs`). `TypeCorrect` matters for indices: the page of an
occupied frame is a page, so the update on replacement stays inside a page table. `MappedPages` and `HeldPages`
(page tables and frame table agree until the first replacement) and `FreeSlots`: none is inductive alone. Emptying
the frames a page table names preserves the other processes' mappings only because mapped frames name
their process, and that a frame names the right one depends on no two slots having the same. `Agreement` is
all of them. `TerminationFreesOwnFrames` is the action property that follows. `QueueCovers` is inductive
with the type invariant: a frame is queued when it is filled, and only a full queue (which ends the claim) drops one.

**Paging processes** (`PagingSystem_proofs`). `OneTurn`, `SlotOfSender`, `CountsMatch`, `ReapFinds` and
`LeavesNothing`, where the alarm spares the points at which it loses a request or a count. The invariant links what each user
does with the one message that may be under way for it, the slot that has its pid (none between fork and
booking), and the pid OSS has in its hand; the counters are cardinalities of sets of users.
`ImplementsTheFrameTable`, where the alarm spares the window between fork and booking, maps every step to a step of FrameTable, to `cleanUp` or a stutter: a message
OSS handles comes from a process that owns the slot it names, which is what FrameTable assumes of its callers.
`KeepsSessions` does the same for UserSessions, without interrupts: its open requests are a recursive function of the messages
(`requesters`), and what a step does to either end of them follows from `CollectsAgree`.

**Resource manager** (`ResourceManager_proofs`). No theorem has a hypothesis: signals strike wherever `AlarmAt` and
`InterruptAt` say, and what the races disturb is in the properties. `TypeCorrect` needs `Launching`: while OSS is within
a launch the last process forked is the one it launches, and ids above `forked` are unborn. `CountsMatch`, `SlotsAreOwn` and
`OnlyStartersEscape` follow from `Accounted`: who lives in a slot has it marked, unless it is the process
being launched, or one whose launch an alarm broke off (`unbooked`), or one that was overtaken; the count is at most the number of marked
slots, and behind it by at most the forks that were not counted. `ClaimsKept` adds `Units`,
which is claimed of undisturbed states only: one user at a time is between reading and writing the free units, what it has
read is what is there, rows of free slots are blank. `RacesStay` is why that suffices: the histories never
shrink, so a state that is undisturbed was reached by undisturbed states alone. `ImplementsTheLedger`: from the same invariant, every step
moves units the way the ledger allows. `SafetyTestIsIdle`: isSafe never finds a state unsafe, because what it
starts from covers every claim; this needs that rows are not negative and claims not above the supply, and holds through every race.
isSafe is a recursive function over sums that are recursive functions; the theorem follows it through all its rounds.

**Scheduler** (`Scheduler_proofs`). `TypeCorrect`, `FlagsFit`, `QuantumOut` and `ImplementsStates`, with alarm and SIGINT
at every point. `OnePlace` says that a slot is in one queue, once, or in OSS's hand, or nowhere; more conjuncts bind
a pid to one slot and count quanta and answers under way. For the refinement `StateByPlace` reads
the state of a slot off its place, so each action is checked against the one slot it moves. What is proved of `ImplementsProcessStates` is
the whole property, as `ProcessStates` states no fairness.

**Clock** (`VirtualClock_proofs`). `SlotHasOneLeaver`: a full message slot stands for exactly one child that is
exiting or was killed. `ClockInvariant` adds the facts it needs: the critical sections exclude each other, also across
SEM_UNDO (`Guarded`); no child waits for time 0, which in the slot would read as empty (`TargetsAhead`);
and nobody leaves while the master forks (`NobodyLeft`), during the first forks because the clock still
stands at 0, later because the master holds the semaphore. `WaitsAreShort` bounds what a torn read of the clock costs by the largest step
and delay. `ListIsComplete`: the master's list is the children forked and not collected, but for the one a signal kept it from listing.

**Subset sums** (`SubsetSum_proofs`). `RightAnswers`: for lists of any length and positive sums `is_subset_sum` says whether there is a
solution, and `generateSubsets` prints all of them and nothing else. What is printed is right since the tuple of
every call is picked from the elements considered (`IsPicked`) and is added up again; every solution is
printed since the calls on the way to it (`callOf`) have not reached the sum. `NoneTwice`: in an ascending
list nothing is printed after a hit, because what is left is greater than what was taken off; so the loops of
different calls print tuples that differ where they branch. `TimerKills`: `pid` is a round behind exactly
until `fork` has returned.

The library's induction theorems take a predicate as a parameter, which the provers here
cannot instantiate. `RecursionLemmas` states induction for sets instead, and derives from it that a recursive function has a value
(`Recursion`), by which `CHOOSE` in its definition can be resolved, and what `SumFunctionOnSet` computes.

**Model-checked only**: all liveness, as fairness is out of the prover's reach (`MasterFinishes`,
the answers and wake-ups of projects 4 to 6); the promise of
`ImplementsSessions` that requests are answered, the rest of which is `KeepsSessions`; and the violations.

## Not modelled

* Project 1: it prints what `lstat` returns and keeps no state.
* Log lines, statistics and formats; the clocks of projects 4, 5 and 6, whose comparisons may come out either way
  (in 4 and 5 they are made on text, where "9.9" comes after "10.0").
* Failing `msgget`, `shmget` and `semget` at start-up, failing `fork` in projects 5 and 6, command-line options; a message queue of
  limited capacity; shared memory left over from an earlier run.
* Project 5: SIGINT to a user, which may die holding the semaphore; what processes that OSS missed do after it has ended.
* Project 4: a child that fills in its PCB after the 500 microseconds the launcher waits (P4:806); an alarm between the
  counters of `Book` or of `Complete`.
* Project 2: a child that fails (242-253: the parent closes its files and goes on using them); a sum of 0, for
  which the tuple would be written before its start.
* Project 3: the text of the log and the name of the file; a read of one clock word torn in itself.

## Plan

1. **FrameTable, after a replacement**: what still holds of stale entries, as an invariant of the run first.
2. **Project 4**: a PCB that is filled in late (P4:806), as one more step between fork and booking.
