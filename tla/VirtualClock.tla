---------------------------- MODULE VirtualClock ----------------------------
(***************************************************************************)
(* Project 3: a master (ossim.c) that advances a clock in shared memory,   *)
(* and children (user.c) that wait until the clock has passed a time of    *)
(* their own, leave that time in the one message slot, and exit.  A System *)
(* V semaphore guards the clock and the slot; a child reads the clock for  *)
(* the first time without it.  The master waits for a child that left a    *)
(* message inside its critical section and launches another.               *)
(*                                                                         *)
(* pc is where the master is, and child where each child is, between two   *)
(* steps that the other side, or a signal, can observe.  Process ids are   *)
(* the ordinals of the forks.                                              *)
(***************************************************************************)
EXTENDS Integers, FiniteSets

CONSTANTS Second,         \* the units of the clock in a second: 1000000000 ns
          Step,           \* by how many the master advances it
          Delay,          \* how many a child waits, at most a second
          InitChildren,   \* children that run at a time: -s, 5
          MaxChildren,    \* children launched in all: 100
          MayFail,        \* may a child fail to start, or be killed by others?
          SignalAt        \* where SIGALRM, SIGINT or SIGTSTP may find the master

Point == {"fork", "push", "loop", "check", "wait", "tick", "carry", "clear", "cede"}

ASSUME ClockAssumption  == Second \in Nat \ {0} /\ Step \subseteq Nat \ {0}
                           /\ Step # {} /\ IsFiniteSet(Step)
                           /\ Delay \subseteq 1 .. Second /\ Delay # {}
ASSUME ChildAssumption  == InitChildren \in Nat \ {0} /\ MaxChildren \in Nat
                           /\ InitChildren <= MaxChildren
ASSUME FaultAssumption  == MayFail \in BOOLEAN /\ SignalAt \subseteq Point

Pid    == 1 .. MaxChildren
Master == 0
Nobody == -1

VARIABLES
  \* shared memory and the semaphore
  seconds, nanoseconds,
  message,         \* the time a child has left, or 0
  holder,          \* whose semop the semaphore is waiting to see undone, or Nobody
  up,              \* do the segment and the semaphore exist?
  \* the master
  pc,
  pids,            \* the linked list of the children it would kill
  totalChildren,
  \* the children
  child,           \* what each does
  saw,             \* clockSeconds, the first half of its first look at the clock
  target           \* seconds and nanoseconds: the time it waits for

clockVars  == <<seconds, nanoseconds>>
masterVars == <<pc, pids, totalChildren>>
childVars  == <<child, saw, target>>

vars == <<clockVars, message, holder, up, masterVars, childVars>>

\* leaving: the message is left, exit is next.  A zombie has exited with status 0,
\* a failed child with another.
ChildState == {"unborn", "boot", "looking", "before", "critical", "leaving", "zombie",
               "failed", "reaped", "killed", "stranded"}

Running == {"boot", "looking", "before", "critical", "leaving", "stranded"}

\* formatTime
formatTime(s, n) == s * Second + n

-----------------------------------------------------------------------------

Init ==
  /\ seconds = 0 /\ nanoseconds = 0 /\ message = 0
  /\ holder = Nobody /\ up = TRUE
  /\ pc = "fork" /\ pids = {} /\ totalChildren = 0
  /\ child = [p \in Pid |-> "unborn"]
  /\ saw = [p \in Pid |-> 0]
  /\ target = [p \in Pid |-> 0]

-----------------------------------------------------------------------------
(* The master *)

forked == {p \in Pid : child[p] # "unborn"}

\* childLauncher
Fork ==
  /\ pc = "fork"
  /\ child' = [child EXCEPT ![Cardinality(forked) + 1] = "boot"]
  /\ pc' = "push"
  /\ UNCHANGED <<clockVars, message, holder, up, pids, totalChildren, saw, target>>

\* fork fails: the master exits at once and cleans nothing up.  The kernel undoes its
\* semop (SEM_UNDO).
ForkFails ==
  /\ MayFail
  /\ pc = "fork"
  /\ pc' = "dead"
  /\ holder' = IF holder = Master THEN Nobody ELSE holder
  /\ UNCHANGED <<clockVars, message, up, pids, totalChildren, childVars>>

\* The new child is listed.  When it replaces one, the message slot is emptied.
Push ==
  /\ pc = "push"
  /\ pids' = pids \union {Cardinality(forked)}
  /\ totalChildren' = totalChildren + 1
  /\ IF totalChildren < InitChildren
     THEN /\ pc' = IF totalChildren' < InitChildren THEN "fork" ELSE "loop"
          /\ UNCHANGED message
     ELSE pc' = "tick" /\ message' = 0
  /\ UNCHANGED <<clockVars, holder, up, childVars>>

\* The list is killed, and the segment and the semaphore are removed.
cleanUp ==
  /\ child' = [p \in Pid |-> IF p \in pids /\ child[p] \in Running THEN "killed"
                             ELSE child[p]]
  /\ pids' = {}
  /\ up' = FALSE
  /\ holder' = Nobody
  /\ pc' = "done"

goesOn == formatTime(seconds, nanoseconds) < 2 * Second /\ totalChildren < MaxChildren

Enter ==
  /\ pc = "loop"
  /\ goesOn
  /\ holder = Nobody
  /\ holder' = Master
  /\ pc' = "check"
  /\ UNCHANGED <<clockVars, message, up, pids, totalChildren, childVars>>

Finish ==
  /\ pc = "loop"
  /\ ~goesOn
  /\ cleanUp
  /\ UNCHANGED <<clockVars, message, totalChildren, saw, target>>

Check ==
  /\ pc = "check"
  /\ pc' = IF message # 0 THEN "wait" ELSE "tick"
  /\ UNCHANGED <<clockVars, message, holder, up, pids, totalChildren, childVars>>

\* A slip for the mutation runs: the collected child stays on the list, and would be killed again.
ReapKeepsListed ==
  /\ pc = "wait"
  /\ \E p \in Pid : child[p] = "zombie" /\ child' = [child EXCEPT ![p] = "reaped"]
  /\ pc' = "fork"
  /\ UNCHANGED <<clockVars, message, holder, up, pids, totalChildren, saw, target>>

\* wait() returns a child that exited with status 0: it is taken off the list.
Reap ==
  /\ pc = "wait"
  /\ \E p \in Pid :
       /\ child[p] = "zombie"
       /\ child' = [child EXCEPT ![p] = "reaped"]
       /\ pids' = pids \ {p}
  /\ pc' = "fork"
  /\ UNCHANGED <<clockVars, message, holder, up, totalChildren, saw, target>>

\* It returns one that did not: the master cleans up and ends.
ReapFailed ==
  /\ pc = "wait"
  /\ \E p \in Pid : child[p] = "failed"
  /\ cleanUp
  /\ UNCHANGED <<clockVars, message, totalChildren, saw, target>>

\* What exceeds the second is dropped, not carried over.
Tick ==
  /\ pc = "tick"
  /\ \E d \in Step : nanoseconds' = nanoseconds + d
  /\ pc' = IF nanoseconds' >= Second THEN "carry" ELSE "cede"
  /\ UNCHANGED <<seconds, message, holder, up, pids, totalChildren, childVars>>

\* A slip for the mutation runs: the nanoseconds start again and the second is not counted.
CarryLost == pc = "carry" /\ pc' = "clear"
             /\ UNCHANGED <<clockVars, message, holder, up, pids, totalChildren, childVars>>

Carry ==
  /\ pc = "carry"
  /\ seconds' = seconds + 1
  /\ pc' = "clear"
  /\ UNCHANGED <<nanoseconds, message, holder, up, pids, totalChildren, childVars>>

Clear ==
  /\ pc = "clear"
  /\ nanoseconds' = 0
  /\ pc' = "cede"
  /\ UNCHANGED <<seconds, message, holder, up, pids, totalChildren, childVars>>

Cede ==
  /\ pc = "cede"
  /\ holder' = Nobody
  /\ pc' = "loop"
  /\ UNCHANGED <<clockVars, message, up, pids, totalChildren, childVars>>

\* realTimeKiller and killHandler longjmp to the same clean-up from anywhere.
Signal ==
  /\ pc \in SignalAt
  /\ cleanUp
  /\ UNCHANGED <<clockVars, message, totalChildren, saw, target>>

MasterStep == Fork \/ Push \/ Enter \/ Finish \/ Check \/ Reap \/ ReapFailed \/ Tick
              \/ Carry \/ Clear \/ Cede

-----------------------------------------------------------------------------
(* A child *)

\* The segment and the semaphore are attached, and the seconds are read.  When they
\* are gone shmget and semget make new ones, and the new semaphore is never raised.
LookAtSeconds(p) ==
  /\ child[p] = "boot"
  /\ child' = [child EXCEPT ![p] = IF up THEN "looking" ELSE "stranded"]
  /\ saw' = [saw EXCEPT ![p] = IF up THEN seconds ELSE 0]
  /\ UNCHANGED <<clockVars, message, holder, up, masterVars, target>>

\* A slip for the mutation runs: the second is carried and not taken off.
addNanoKept(s, n, d) == formatTime(s + IF n + d >= Second THEN 1 ELSE 0, n + d)

\* addNano
addNano(s, n, d) ==
  IF n + d >= Second THEN formatTime(s + 1, n + d - Second) ELSE formatTime(s, n + d)

LookAtNano(p) ==
  /\ child[p] = "looking"
  /\ \E d \in Delay : target' = [target EXCEPT ![p] = addNano(saw[p], nanoseconds, d)]
  /\ saw' = [saw EXCEPT ![p] = 0]
  /\ child' = [child EXCEPT ![p] = "before"]
  /\ UNCHANGED <<clockVars, message, holder, up, masterVars>>

EnterChild(p) ==
  /\ child[p] = "before"
  /\ up /\ holder = Nobody
  /\ holder' = p
  /\ child' = [child EXCEPT ![p] = "critical"]
  /\ UNCHANGED <<clockVars, message, up, masterVars, saw, target>>

\* A slip for the mutation runs: the slot is not looked at.
CedeChildOver(p) ==
  /\ child[p] = "critical"
  /\ LET leaves == formatTime(seconds, nanoseconds) > target[p]
     IN  /\ message' = IF leaves THEN target[p] ELSE message
         /\ child' = [child EXCEPT ![p] = IF leaves THEN "leaving" ELSE "before"]
  /\ holder' = IF up THEN Nobody ELSE holder
  /\ UNCHANGED <<clockVars, up, masterVars, saw, target>>

\* The time has come and the slot is free: the message is left and the semaphore
\* given back; or the semaphore is given back for another round.
CedeChild(p) ==
  /\ child[p] = "critical"
  /\ LET leaves == formatTime(seconds, nanoseconds) > target[p] /\ message = 0
     IN  /\ message' = IF leaves THEN target[p] ELSE message
         /\ child' = [child EXCEPT ![p] = IF leaves THEN "leaving" ELSE "before"]
  /\ holder' = IF up THEN Nobody ELSE holder
  /\ UNCHANGED <<clockVars, up, masterVars, saw, target>>

\* It exits: its message is left, or semop fails because the semaphore is gone.
Exit(p) ==
  /\ \/ child[p] = "leaving"
     \/ child[p] = "before" /\ ~up
  /\ child' = [child EXCEPT ![p] = "zombie"]
  /\ UNCHANGED <<clockVars, message, holder, up, masterVars, saw, target>>

\* A child that cannot start, or that something other than the master kills.  The
\* kernel undoes its semop (SEM_UNDO).
Fail(p) ==
  /\ MayFail
  /\ child[p] \in Running
  /\ child' = [child EXCEPT ![p] = "failed"]
  /\ holder' = IF holder = p THEN Nobody ELSE holder
  /\ UNCHANGED <<clockVars, message, up, masterVars, saw, target>>

ChildStep(p) ==
  LookAtSeconds(p) \/ LookAtNano(p) \/ EnterChild(p) \/ CedeChild(p) \/ Exit(p)

-----------------------------------------------------------------------------

Ended ==
  /\ pc \in {"done", "dead"}
  /\ \A p \in Pid : child[p] \notin Running \ {"stranded"}
  /\ UNCHANGED vars

Next == MasterStep \/ ForkFails \/ Signal \/ (\E p \in Pid : ChildStep(p) \/ Fail(p)) \/ Ended

Spec == Init /\ [][Next]_vars

\* The kernel hands a semaphore to its waiters in turn.
FairSpec ==
  /\ Spec
  /\ WF_vars(MasterStep) /\ SF_vars(Enter)
  /\ \A p \in Pid : WF_vars(ChildStep(p)) /\ SF_vars(EnterChild(p))

-----------------------------------------------------------------------------
(* Properties *)

Now == formatTime(seconds, nanoseconds)

\* The longest step and the longest wait.
Slack(S) == CHOOSE d \in S : \A e \in S : e <= d

TypeOK ==
  /\ seconds \in 0 .. 2 /\ nanoseconds \in 0 .. Second - 1 + Slack(Step)
  /\ message \in 0 .. 5 * Second
  /\ holder \in Pid \union {Master, Nobody}
  /\ up \in BOOLEAN
  /\ pc \in Point \union {"done", "dead"}
  /\ pids \subseteq forked /\ totalChildren \in 0 .. MaxChildren
  /\ child \in [Pid -> ChildState]
  /\ saw \in [Pid -> 0 .. 2] /\ target \in [Pid -> 0 .. 5 * Second]

\* The semaphore keeps the others out, and a full slot stands for exactly one child
\* that has left it and is exiting (or was killed doing so).  The master's wait()
\* inside the critical section rests on it: nobody else can exit while it waits.
LeaverInSlot ==
  LET leavers == {p \in Pid : child[p] \in {"leaving", "zombie"}}
  IN  up /\ pc \notin {"fork", "push", "dead"} =>
        /\ \A p, q \in leavers : p = q
        /\ \A p \in leavers : message = target[p]
        /\ message # 0 => \E p \in Pid : /\ child[p] \in {"leaving", "zombie", "failed"}
                                        /\ target[p] = message

\* The read outside the semaphore may see the seconds already raised and the
\* nanoseconds not yet cleared: a child then waits for a time that is too late, by a
\* second and a step at most.
WaitIsBounded ==
  \A p \in Pid : child[p] \in {"before", "critical"} =>
                  target[p] <= Now + Second + Slack(Step) + Slack(Delay)

\* The master's list holds each child that it has forked and not collected, the one
\* being forked excepted; after the clean-up at most that one child is left.
ListedOrCollected ==
  /\ up /\ pc # "push" => pids = {p \in forked : child[p] # "reaped"}
  /\ pc = "done" => Cardinality({p \in Pid : child[p] \in Running}) <= 1

\* The master always comes to its end: its wait() inside the critical section cannot
\* wait for a child that waits for the semaphore.
MasterFinishes == <>(pc \in {"done", "dead"})
=============================================================================
