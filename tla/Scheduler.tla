------------------------------ MODULE Scheduler ------------------------------
(***************************************************************************)
(* Project 4: OSS (ossim.c), a scheduler with three round-robin levels and *)
(* a queue of blocked processes, the processes it launches                 *)
(* (user_process.c), the process control table they share, and the message *)
(* queue through which OSS gives a process its quantum and is told how the *)
(* quantum went.                                                           *)
(*                                                                         *)
(* pc says where OSS is between two steps that a process, or a signal, can *)
(* observe.  realTime, the handler of the alarm, longjmps into main's loop *)
(* from wherever OSS is; AlarmAt names the points at which it strikes.     *)
(* Process ids are the ordinals of the forks.  Times, and the averages of  *)
(* waiting times, only decide tests that are choices here.                 *)
(***************************************************************************)
EXTENDS Integers, Sequences, FiniteSetsExt

CONSTANTS Slots,         \* numPCB
          MaxLaunch,     \* processes launched in all: 100
          StrayLooper,   \* is shmPCB[-1].queueLooper, a word nobody writes, 1?
          AlarmAt,       \* where in OSS's loop the alarm may strike
          InterruptAt    \* where SIGINT may

Point == {"top", "book", "sched", "admit", "wake", "run", "send", "await", "settle",
          "reset"}

ASSUME SlotsAssumption  == Slots \in Nat \ {0}
ASSUME LaunchAssumption == MaxLaunch \in Nat \ {0}
ASSUME StrayAssumption  == StrayLooper \in BOOLEAN
ASSUME SignalAssumption == AlarmAt \subseteq Point /\ InterruptAt \subseteq Point

Slot    == 0 .. Slots - 1
Pid     == 1 .. MaxLaunch
Level   == 0 .. 2      \* q_0, q_1, q_2
Blocked == 3           \* q_Blocked
None    == -1          \* no slot

\* What a task makes of a quantum.  Tasks 1 and 3, which differ in how much of the
\* quantum is used, are one.
Task == {"finish", "run", "block"}

VARIABLES
  \* OSS
  pc,               \* where it is
  held,             \* pctLocation of a launch, toRequeue of the scheduler, or None
  level,            \* the level scheduler has got to
  queue,            \* q_0, q_1, q_2 and q_Blocked
  looped,           \* queue0Looped, queue1Looped, queue2Looped
  bitVector,        \* the slots in use
  currentLaunched, totalLaunched, stopLaunching,
  scheduling,       \* has the clock reached one second?
  interrupted,      \* has SIGINT ended OSS?
  \* shared by OSS and the processes
  shmPCB,           \* the process control table
  queueUp,          \* does the message queue exist?
  toOss,            \* the answers under way, by their sender
  toUser,           \* how many quanta are under way to each process
  \* the processes
  user              \* what each does

launchVars == <<bitVector, currentLaunched, totalLaunched>>
loopVars   == <<held, level, queue, looped>>
clockVars  == <<stopLaunching, scheduling, interrupted>>
mailVars   == <<queueUp, toOss, toUser>>

vars == <<pc, launchVars, loopVars, clockVars, shmPCB, mailVars, user>>

UserState == {"unborn", "boot", "waiting", "running", "gone", "stranded"}

Fifo == INSTANCE BoundedFifo WITH Capacity <- Slots, Item <- Slot, returned <- None

-----------------------------------------------------------------------------

\* createQueue four times, and the shared memory as the kernel clears it.
Init ==
  /\ pc = "top" /\ held = None /\ level = 0
  /\ queue = [q \in Level \union {Blocked} |-> << >>]
  /\ looped = [q \in Level |-> FALSE]
  /\ bitVector = [s \in Slot |-> 0]
  /\ currentLaunched = 0 /\ totalLaunched = 0
  /\ stopLaunching = FALSE /\ scheduling = FALSE /\ interrupted = FALSE
  /\ shmPCB = [s \in Slot |-> [pid |-> 0, task |-> "finish", ready |-> FALSE,
                 suspend |-> FALSE, blocked |-> FALSE, looper |-> FALSE,
                 completed |-> FALSE]]
  /\ queueUp = TRUE /\ toOss = << >> /\ toUser = [p \in Pid |-> 0]
  /\ user = [p \in Pid |-> "unborn"]

enqueue(qs, q, s) == [qs EXCEPT ![q] = Fifo!Enqueued(Slots, @, s)]
dequeue(qs, q)    == [qs EXCEPT ![q] = Tail(@)]
isEmpty(q)        == queue[q] = << >>
allEmpty          == \A q \in DOMAIN queue : isEmpty(q)

-----------------------------------------------------------------------------
(* main's loop *)

available == {s \in Slot : bitVector[s] = 0}
nextPid   == Cardinality({p \in Pid : user[p] # "unborn"}) + 1

initPCB(p) ==
  [pid |-> p, task |-> "finish", ready |-> FALSE, suspend |-> TRUE, blocked |-> FALSE,
   looper |-> FALSE, completed |-> FALSE]

\* childLauncher: the child fills in its PCB while OSS sleeps.
Fork ==
  /\ pc = "top"
  /\ totalLaunched < MaxLaunch /\ currentLaunched < Slots /\ ~stopLaunching
  /\ available # {}
  /\ held' = Min(available)
  /\ shmPCB' = [shmPCB EXCEPT ![held'] = initPCB(nextPid)]
  /\ user' = [user EXCEPT ![nextPid] = "boot"]
  /\ pc' = "book"
  /\ UNCHANGED <<launchVars, level, queue, looped, clockVars, mailVars>>

\* Back in main the slot is marked and queued.
Book ==
  /\ pc = "book"
  /\ bitVector' = [bitVector EXCEPT ![held] = 1]
  /\ queue' = enqueue(queue, 0, held)
  /\ totalLaunched' = totalLaunched + 1
  /\ currentLaunched' = currentLaunched + 1
  /\ held' = None
  /\ pc' = IF scheduling THEN "sched" ELSE "top"
  /\ UNCHANGED <<level, looped, clockVars, shmPCB, mailVars, user>>

\* The clock reaches startScheduling; by then a first launch has been due.
StartScheduling ==
  /\ pc = "top"
  /\ ~scheduling
  /\ totalLaunched > 0 \/ stopLaunching
  /\ scheduling' = TRUE
  /\ UNCHANGED <<pc, launchVars, loopVars, stopLaunching, interrupted, shmPCB,
                 mailVars, user>>

\* No launch is due, or none is possible: on to the scheduler.
NoLaunch ==
  /\ pc = "top"
  /\ scheduling
  /\ pc' = "sched"
  /\ UNCHANGED <<launchVars, loopVars, clockVars, shmPCB, mailVars, user>>

\* The message queue is destroyed with what is in it, and the queued processes
\* are killed.
cleanUp(killed) ==
  /\ queueUp' = FALSE /\ toOss' = << >> /\ toUser' = [p \in Pid |-> 0]
  /\ queue' = [q \in DOMAIN queue |-> << >>]
  /\ user' = [p \in Pid |-> IF p \in killed THEN "gone" ELSE user[p]]
  /\ held' = None /\ level' = 0
  /\ pc' = "done"

\* Every queue is empty: the loop is left.
Finish ==
  /\ pc = "sched"
  /\ allEmpty
  /\ cleanUp({})
  /\ UNCHANGED <<launchVars, looped, clockVars, shmPCB>>

-----------------------------------------------------------------------------
(* scheduler: its first two parts *)

suspendedFirst == ~isEmpty(0) /\ shmPCB[Head(queue[0])].suspend

\* A process launched a while ago comes to the front of q_0.
Admit ==
  /\ pc = "sched"
  /\ suspendedFirst
  /\ held' = Head(queue[0])
  /\ queue' = dequeue(queue, 0)
  /\ pc' = "admit"
  /\ UNCHANGED <<launchVars, level, looped, clockVars, shmPCB, mailVars, user>>

\* It gets a task other than 0 and goes to the end of q_0, and scheduler returns.
Admitted ==
  /\ pc = "admit"
  /\ \E t \in Task \ {"finish"} :
       shmPCB' = [shmPCB EXCEPT ![held].task = t, ![held].suspend = FALSE,
                                ![held].ready = TRUE]
  /\ queue' = enqueue(queue, 0, held)
  /\ held' = None
  /\ pc' = "top"
  /\ UNCHANGED <<launchVars, level, looped, clockVars, mailVars, user>>

\* A slip for the mutation runs: the blocked are looked at only besides ready ones.
TakeBlockedBesides ==
  /\ pc = "sched"
  /\ ~suspendedFirst
  /\ ~isEmpty(0) /\ ~isEmpty(Blocked)
  /\ held' = Head(queue[Blocked])
  /\ queue' = dequeue(queue, Blocked)
  /\ pc' = "wake"
  /\ UNCHANGED <<launchVars, level, looped, clockVars, shmPCB, mailVars, user>>

\* The time to unblock the front of q_Blocked has come.
TakeBlocked ==
  /\ pc = "sched"
  /\ ~suspendedFirst
  /\ ~isEmpty(Blocked)
  /\ held' = Head(queue[Blocked])
  /\ queue' = dequeue(queue, Blocked)
  /\ pc' = "wake"
  /\ UNCHANGED <<launchVars, level, looped, clockVars, shmPCB, mailVars, user>>

\* A slip for the mutation runs: the process stays marked as blocked.
WakeMarked ==
  /\ pc = "wake"
  /\ \E t \in Task :
       shmPCB' = [shmPCB EXCEPT ![held].task = t, ![held].suspend = FALSE,
                                ![held].ready = TRUE]
  /\ queue' = enqueue(queue, 0, held)
  /\ held' = None
  /\ pc' = "run"
  /\ UNCHANGED <<launchVars, level, looped, clockVars, mailVars, user>>

\* It may get task 0 only if it has used the processor long enough.
Wake ==
  /\ pc = "wake"
  /\ \E t \in Task :
       shmPCB' = [shmPCB EXCEPT ![held].task = t, ![held].blocked = FALSE,
                                ![held].suspend = FALSE, ![held].ready = TRUE]
  /\ queue' = enqueue(queue, 0, held)
  /\ held' = None
  /\ pc' = "run"
  /\ UNCHANGED <<launchVars, level, looped, clockVars, mailVars, user>>

\* The blocked queue is empty, or its front not due.
NoWake ==
  /\ pc = "sched"
  /\ ~suspendedFirst
  /\ ~allEmpty
  /\ pc' = "run"
  /\ UNCHANGED <<launchVars, loopVars, clockVars, shmPCB, mailVars, user>>

-----------------------------------------------------------------------------
(* scheduler: the levels, one after the other *)

\* The front of the level is ready and the level has not been gone round.
runnable ==
  /\ ~isEmpty(level)
  /\ ~looped[level]
  /\ LET front == shmPCB[Head(queue[level])]
     IN  front.ready /\ (level = 0 => ~front.suspend)

\* At the end of a level that had a process: looped if the process now in front
\* has been through it.  front of an empty queue is -1.
mark(qs, pcbs) ==
  LET looper == IF qs[level] = << >> THEN StrayLooper ELSE pcbs[Head(qs[level])].looper
  IN  looped' = [looped EXCEPT ![level] = @ \/ looper]

nextLevel ==
  /\ pc' = IF level = 2 THEN "reset" ELSE "run"
  /\ level' = IF level = 2 THEN 0 ELSE level + 1

Skip ==
  /\ pc = "run"
  /\ ~runnable
  /\ IF isEmpty(level) THEN UNCHANGED looped ELSE mark(queue, shmPCB)
  /\ nextLevel
  /\ UNCHANGED <<launchVars, held, queue, clockVars, shmPCB, mailVars, user>>

\* dispatcher up to msgsnd.
Dispatch ==
  /\ pc = "run"
  /\ runnable
  /\ held' = Head(queue[level])
  /\ queue' = dequeue(queue, level)
  /\ pc' = "send"
  /\ UNCHANGED <<launchVars, level, looped, clockVars, shmPCB, mailVars, user>>

\* The quantum goes to the process.
Send ==
  /\ pc = "send"
  /\ toUser' = [toUser EXCEPT ![shmPCB[held].pid] = @ + 1]
  /\ pc' = "await"
  /\ UNCHANGED <<launchVars, loopVars, clockVars, shmPCB, queueUp, toOss, user>>

\* A slip for the mutation runs: an answer is taken if there is one (IPC_NOWAIT).
ReceiveIfAny ==
  /\ pc = "await"
  /\ toOss' = IF toOss = << >> THEN toOss ELSE Tail(toOss)
  /\ pc' = "settle"
  /\ UNCHANGED <<launchVars, loopVars, clockVars, shmPCB, queueUp, toUser, user>>

\* queueCalculations: the next answer, whoever sent it.
Receive ==
  /\ pc = "await"
  /\ toOss # << >>
  /\ toOss' = Tail(toOss)
  /\ pc' = "settle"
  /\ UNCHANGED <<launchVars, loopVars, clockVars, shmPCB, queueUp, toUser, user>>

\* A slip for the mutation runs: the slot stays in use.
CompleteKeepsSlot ==
  /\ pc = "settle"
  /\ shmPCB[held].completed
  /\ currentLaunched' = currentLaunched - 1
  /\ held' = None
  /\ mark(queue, shmPCB) /\ nextLevel
  /\ UNCHANGED <<bitVector, totalLaunched, queue, clockVars, shmPCB, mailVars, user>>

Complete ==
  /\ pc = "settle"
  /\ shmPCB[held].completed
  /\ currentLaunched' = currentLaunched - 1
  /\ bitVector' = [bitVector EXCEPT ![held] = 0]
  /\ held' = None
  /\ mark(queue, shmPCB) /\ nextLevel
  /\ UNCHANGED <<totalLaunched, queue, clockVars, shmPCB, mailVars, user>>

Block ==
  /\ pc = "settle"
  /\ ~shmPCB[held].completed /\ shmPCB[held].blocked
  /\ queue' = enqueue(queue, Blocked, held)
  /\ held' = None
  /\ mark(queue', shmPCB) /\ nextLevel
  /\ UNCHANGED <<launchVars, clockVars, shmPCB, mailVars, user>>

\* The process goes to the end of level q with a new task; on its old level it
\* counts as having been through it.
requeue(q, looper) ==
  /\ pc = "settle"
  /\ ~shmPCB[held].completed /\ ~shmPCB[held].blocked
  /\ \E t \in Task : shmPCB' = [shmPCB EXCEPT ![held].task = t, ![held].looper = looper]
  /\ queue' = enqueue(queue, q, held)
  /\ held' = None
  /\ mark(queue', shmPCB') /\ nextLevel
  /\ UNCHANGED <<launchVars, clockVars, mailVars, user>>

\* A slip for the mutation runs: every process goes back to level 0.
KeepOnZero == requeue(0, TRUE)

Keep == requeue(level, TRUE)

\* It, and the level on the average, has waited for the threshold.
Demote == level < 2 /\ requeue(level + 1, FALSE)

\* A slip for the mutation runs: the empty levels are waited for too.
roundOfAll == Level

\* The levels that must have been gone round before they start over.
round == IF isEmpty(1) THEN {0} ELSE IF isEmpty(2) THEN {0, 1} ELSE Level

\* resetQueueLooper goes through array[0 .. size - 1] of each ring.  These cells may
\* lie outside the queue; they hold slots that are or have been in it.
Reset ==
  /\ pc = "reset"
  /\ IF ~isEmpty(0) /\ \A q \in round : looped[q]
     THEN /\ looped' = [q \in Level |-> looped[q] /\ q \notin round]
          /\ \E cells \in SUBSET Slot :
               /\ Cardinality(cells)
                    \in 1 .. MapThenSumSet(LAMBDA q : Len(queue[q]), round)
               /\ shmPCB' = [s \in Slot |-> IF s \in cells
                                            THEN [shmPCB[s] EXCEPT !.looper = FALSE]
                                            ELSE shmPCB[s]]
     ELSE UNCHANGED <<looped, shmPCB>>
  /\ pc' = "top"
  /\ UNCHANGED <<launchVars, held, level, queue, clockVars, mailVars, user>>

OssStep ==
  \/ Fork \/ Book \/ StartScheduling \/ NoLaunch \/ Finish
  \/ Admit \/ Admitted \/ TakeBlocked \/ Wake \/ NoWake
  \/ Skip \/ Dispatch \/ Send \/ Receive \/ Complete \/ Block \/ Keep \/ Demote \/ Reset

-----------------------------------------------------------------------------
(* Signals *)

\* realTime: back into the loop; what was taken from a queue is in none now.
Alarm ==
  /\ pc \in AlarmAt
  /\ ~stopLaunching
  /\ stopLaunching' = TRUE
  /\ held' = None /\ level' = 0
  /\ pc' = IF scheduling THEN "sched" ELSE "top"
  /\ UNCHANGED <<launchVars, queue, looped, scheduling, interrupted, shmPCB,
                 mailVars, user>>

\* killHandler: the processes in the queues are killed.  A fork that fails ends
\* the run in the same way.
Interrupt ==
  /\ pc \in InterruptAt
  /\ cleanUp({shmPCB[s].pid : s \in {t \in Slot :
                \E q \in DOMAIN queue, i \in 1 .. Slots :
                  i \in DOMAIN queue[q] /\ queue[q][i] = t}})
  /\ interrupted' = TRUE
  /\ UNCHANGED <<launchVars, looped, stopLaunching, scheduling, shmPCB>>

-----------------------------------------------------------------------------
(* A process *)

slotOf(p) == CHOOSE s \in Slot : shmPCB[s].pid = p

\* The table and the message queue are attached, and the process says that it is
\* ready.  When OSS has removed them shmget and msgget make new ones.
Connect(p) ==
  /\ user[p] = "boot"
  /\ IF queueUp
     THEN /\ user' = [user EXCEPT ![p] = "waiting"]
          /\ shmPCB' = [shmPCB EXCEPT ![slotOf(p)].ready = TRUE]
     ELSE user' = [user EXCEPT ![p] = "stranded"] /\ UNCHANGED shmPCB
  /\ UNCHANGED <<pc, launchVars, loopVars, clockVars, mailVars>>

TakeQuantum(p) ==
  /\ user[p] = "waiting"
  /\ toUser[p] > 0
  /\ toUser' = [toUser EXCEPT ![p] = @ - 1]
  /\ user' = [user EXCEPT ![p] = "running"]
  /\ UNCHANGED <<pc, launchVars, loopVars, clockVars, shmPCB, queueUp, toOss>>

\* A slip for the mutation runs: a process that finishes sends no answer.
WorkSilent(p) ==
  /\ user[p] = "running"
  /\ LET s    == slotOf(p)
         task == shmPCB[s].task
     IN  /\ shmPCB' = [shmPCB EXCEPT ![s].completed = (task = "finish"),
                                     ![s].blocked = @ \/ task = "block"]
         /\ user' = [user EXCEPT ![p] = IF task = "finish" \/ ~queueUp
                                        THEN "gone" ELSE "waiting"]
         /\ toOss' = IF queueUp /\ task # "finish" THEN Append(toOss, p) ELSE toOss
  /\ UNCHANGED <<pc, launchVars, loopVars, clockVars, queueUp, toUser>>

\* caseZeroWork to caseThreeWork, and the answer.  Without a queue msgsnd fails and
\* the process exits.
Work(p) ==
  /\ user[p] = "running"
  /\ LET s    == slotOf(p)
         task == shmPCB[s].task
     IN  /\ shmPCB' = [shmPCB EXCEPT ![s].completed = (task = "finish"),
                                     ![s].blocked = @ \/ task = "block"]
         /\ user' = [user EXCEPT ![p] = IF task = "finish" \/ ~queueUp
                                        THEN "gone" ELSE "waiting"]
  /\ toOss' = IF queueUp THEN Append(toOss, p) ELSE toOss
  /\ UNCHANGED <<pc, launchVars, loopVars, clockVars, queueUp, toUser>>

\* msgrcv fails when the queue is gone.
QueueGone(p) ==
  /\ user[p] = "waiting"
  /\ ~queueUp
  /\ user' = [user EXCEPT ![p] = "gone"]
  /\ UNCHANGED <<pc, launchVars, loopVars, clockVars, shmPCB, mailVars>>

UserStep(p) == Connect(p) \/ TakeQuantum(p) \/ Work(p) \/ QueueGone(p)

-----------------------------------------------------------------------------

Ended ==
  /\ pc = "done"
  /\ \A p \in Pid : user[p] \in {"unborn", "gone", "stranded"}
  /\ UNCHANGED vars

Next == OssStep \/ Alarm \/ Interrupt \/ (\E p \in Pid : UserStep(p)) \/ Ended

Spec == Init /\ [][Next]_vars

\* Each process is run by the kernel again and again, and the clock passes the
\* time at which the front of q_Blocked is due.
FairSpec ==
  /\ Spec
  /\ WF_vars(OssStep) /\ SF_vars(TakeBlocked)
  /\ \A p \in Pid : WF_vars(UserStep(p))

-----------------------------------------------------------------------------
(* Properties *)

Processing == {"send", "await", "settle"}

TypeOK ==
  /\ pc \in Point \union {"done"}
  /\ held \in Slot \union {None}
  /\ (held # None) <=> (pc \in Processing \union {"book", "admit", "wake"})
  /\ level \in Level
  /\ queue \in [Level \union {Blocked} -> Seq(Slot)]
  /\ looped \in [Level -> BOOLEAN]
  /\ bitVector \in [Slot -> {0, 1}]
  /\ currentLaunched = Cardinality({s \in Slot : bitVector[s] = 1})
  /\ totalLaunched \in 0 .. MaxLaunch
  /\ stopLaunching \in BOOLEAN /\ scheduling \in BOOLEAN /\ interrupted \in BOOLEAN
  /\ shmPCB \in [Slot -> [pid : Pid \union {0}, task : Task, ready : BOOLEAN,
                          suspend : BOOLEAN, blocked : BOOLEAN, looper : BOOLEAN,
                          completed : BOOLEAN]]
  /\ queueUp \in BOOLEAN /\ toOss \in Seq(Pid) /\ toUser \in [Pid -> 0 .. 2]
  /\ user \in [Pid -> UserState]

holds(q, s) == \E i \in 1 .. Len(queue[q]) : queue[q][i] = s

\* The flags of a PCB fit the place of its slot (389, 432): a process in the
\* blocked queue is blocked, one that OSS has not admitted waits on level 0, and,
\* as long as OSS has taken each answer from the process it was waiting for, a
\* process on a level is neither blocked nor completed.
FlagsFitPlace ==
  /\ \A s \in Slot :
       /\ holds(Blocked, s) => shmPCB[s].blocked
       /\ holds(1, s) \/ holds(2, s) => ~shmPCB[s].suspend
       /\ holds(Blocked, s) => ~shmPCB[s].suspend
  /\ ~stopLaunching =>
       \A s \in Slot, q \in Level :
         holds(q, s) => ~shmPCB[s].blocked /\ ~shmPCB[s].completed

\* The quanta given out and not accounted for: under way to a process, being used,
\* or answered.
given       == UNION {{p} \X (1 .. toUser[p]) : p \in Pid}
working     == {p \in Pid : user[p] = "running"}
outstanding == Cardinality(given) + Cardinality(working) + Len(toOss)

\* The processor is one process's (dispatcher, queueCalculations): a quantum is out
\* only while OSS waits for its answer, and it is with the process OSS dispatched.
\* An alarm during the wait leaves OSS one answer behind for good, never more.
OneQuantumOut ==
  /\ pc # "done" =>
       outstanding <= (IF pc = "await" THEN 1 ELSE 0) + (IF stopLaunching THEN 1 ELSE 0)
  /\ pc = "await" =>
       /\ outstanding >= 1
       /\ ~stopLaunching =>
            LET p == shmPCB[held].pid
            IN  toUser[p] = 1 \/ user[p] = "running" \/ toOss = <<p>>

-----------------------------------------------------------------------------
(* Refinement of ProcessStates *)

stateOf(s) ==
  CASE bitVector[s] = 0                           -> "free"
    [] bitVector[s] = 1 /\ s = held               ->
         IF pc \in Processing THEN "running" ELSE IF pc = "wake" THEN "blocked" ELSE "ready"
    [] bitVector[s] = 1 /\ s # held /\ holds(Blocked, s)  -> "blocked"
    [] bitVector[s] = 1 /\ s # held /\ \E q \in Level : holds(q, s) -> "ready"
    [] OTHER                                      -> "lost"

levelOf(s) ==
  IF stateOf(s) = "running" THEN level
  ELSE IF \E q \in Level : holds(q, s) THEN CHOOSE q \in Level : holds(q, s) ELSE 0

States == INSTANCE ProcessStates
  WITH Bottom  <- 2,
       state   <- [s \in Slot |-> stateOf(s)],
       level   <- [s \in Slot |-> levelOf(s)],
       alarmed <- stopLaunching,
       ended   <- IF pc # "done" THEN "no" ELSE IF interrupted THEN "killed" ELSE "finished"

\* Queues, hand and flags together implement the states of ProcessStates: no slot is
\* lost, doubled or moved to a level it has not earned, except for the one slot
\* that the alarm (realTime, 976) may lose.
ImplementsProcessStates == States!Spec

-----------------------------------------------------------------------------
(* Liveness *)

outOfQueues(s) == (s = held /\ pc \in Processing) \/ stateOf(s) = "lost" \/ pc = "done"

\* Until an alarm strikes OSS does not wait in msgrcv (690) forever: the process it
\* dispatched is there and answers.  After an alarm in that wait OSS takes the answers
\* of others: with three processes it may dispatch two that have ended, one after the
\* other, of which it sees one, and wait for the second one's answer for good.
AwaitIsAnswered == (pc = "await") ~> (pc # "await" \/ stopLaunching)

\* Until an alarm strikes a process on level 0 gets its quantum whatever the other
\* levels do: the reset (608) works as long as q_0 is not empty.
LevelZeroIsServed == \A s \in Slot : holds(0, s) ~> (outOfQueues(s) \/ stopLaunching)

\* Until an alarm strikes every blocked process wakes up, although only the front of
\* the blocked queue is tested (381).
BlockedWake == \A s \in Slot : holds(Blocked, s) ~> (~holds(Blocked, s) \/ stopLaunching)

\* The README of project 4: the processes launched before the end "will be allowed
\* to finish".  A process on a lower level must get its next quantum for that.
LowerLevelsAreServed ==
  \A s \in Slot : (holds(1, s) \/ holds(2, s)) ~> outOfQueues(s)
=============================================================================
