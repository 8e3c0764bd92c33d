-------------------------- MODULE ResourceManager --------------------------
(***************************************************************************)
(* The resource manager of project5: OSS (ossim.c) and the user processes  *)
(* (user.c) share a descriptor of resources under one semaphore.  A user   *)
(* claims resources when it starts, takes part of them for itself, and     *)
(* then visits the descriptor again and again to ask for the rest or to    *)
(* say that it terminates.  OSS scans the slots for terminations and for   *)
(* requests, suspends a request it cannot meet, and wakes suspended users  *)
(* with messages.                                                          *)
(*                                                                         *)
(* A visit of a user is one step: only OSS and the users inside the        *)
(* semaphore see what it does.  OSS's stay in the critical section is many *)
(* steps, because an alarm can leave it, and because a user reads its      *)
(* terminating flag outside.  The times a user waits for are compared as   *)
(* text, which goes wrong from ten seconds on, so every test of a time may *)
(* come out either way.                                                    *)
(*                                                                         *)
(* A launch is three steps, because OSS sleeps while the child starts and  *)
(* a signal can end the launch there.  Two histories, which no step looks  *)
(* at, record the races the code leaves open: overtaken and overlapped.    *)
(* need_matrix is the difference of the other two matrices and is not      *)
(* kept; release is left out, because the sum of need and allocation never *)
(* exceeds the request that it is computed from.                           *)
(***************************************************************************)
EXTENDS Integers, Sequences, FiniteSetsExt

CONSTANTS Slots,            \* numPCB
          NumResources,     \* numResources
          Total,            \* resource_vector
          Sharable,         \* the resources with sharable_resources[i] = 1
          MaxClaim,         \* what a process may claim of a resource: 10
          MaxLaunch,        \* processes launched in all: 100
          HeldLimit,        \* grants after which a process terminates: 5
          Verbose,          \* option -v
          AlarmAt,          \* where in OSS's loop the alarm may strike
          InterruptAt       \* where SIGINT or SIGTSTP may strike OSS

Slot     == 0 .. Slots - 1
Resource == 0 .. NumResources - 1
Pid      == 1 .. MaxLaunch
Point    == {"top", "book", "count", "lock", "terms", "requests", "wake", "unlock",
             "final"}

ASSUME CountAssumption ==
  Slots \in Nat \ {0} /\ NumResources \in Nat \ {0} /\ MaxLaunch \in Nat \ {0}
ASSUME ClaimAssumption ==
  Total \in [Resource -> Nat \ {0}] /\ Sharable \subseteq Resource /\ MaxClaim \in Nat
ASSUME RunAssumption ==
  /\ HeldLimit \in Nat \ {0}
  /\ AlarmAt \subseteq Point /\ InterruptAt \subseteq Point
  /\ Verbose \in BOOLEAN

VARIABLES
  \* the descriptor
  avail,            \* allocation_vector
  req, alloc,       \* request_matrix and allocation_matrix
  request, allocate, suspended, terminating,
  locked,           \* is OSS between sem_wait and sem_post?
  \* OSS
  pc, index,        \* where it is, and i in the scans
  q,                \* the suspended slots
  bitVector,
  pidOf,            \* shmPcb[slot].pid, written by the child
  forked,           \* the processes forked: their ids are 1 .. forked
  currentLaunched, totalLaunched, stopLaunching,
  alarmed,          \* has the alarm struck?
  \* the users
  user,             \* what each process does
  slotOf,           \* argv[1]
  item,             \* i in the loop in which a user takes its first resources
  loaded,           \* the value of allocation_vector[i] it has read
  held,             \* grants it has seen
  mail,             \* messages sent to it, where 2 stands for two or more
  \* histories
  overtaken,        \* the slots whose terminating flag OSS cleared before the
                    \* process that had set it looked at it
  overlapped        \* has a process started while another one started, or while
                    \* OSS was in the critical section?

flagVars   == <<request, allocate, suspended, terminating>>
matrixVars == <<avail, req, alloc>>
countVars  == <<forked, currentLaunched, totalLaunched>>
alarmVars  == <<stopLaunching, alarmed>>
startVars  == <<item, loaded>>
userVars   == <<user, slotOf, startVars, held, mail>>
ossVars    == <<locked, pc, index, q, bitVector, countVars, alarmVars>>
raceVars   == <<overtaken, overlapped>>

vars == <<matrixVars, flagVars, ossVars, pidOf, userVars, raceVars>>

Nothing == [r \in Resource |-> 0]

need(s) == [r \in Resource |-> req[s][r] - alloc[s][r]]

Init ==
  /\ avail = Total
  /\ req = [s \in Slot |-> Nothing] /\ alloc = [s \in Slot |-> Nothing]
  /\ request = [s \in Slot |-> FALSE] /\ allocate = [s \in Slot |-> FALSE]
  /\ suspended = [s \in Slot |-> FALSE] /\ terminating = [s \in Slot |-> FALSE]
  /\ locked = FALSE
  /\ pc = "top" /\ index = 0
  /\ q = << >>
  /\ bitVector = [s \in Slot |-> FALSE]
  /\ pidOf = [s \in Slot |-> 0]
  /\ forked = 0 /\ currentLaunched = 0 /\ totalLaunched = 0
  /\ stopLaunching = FALSE /\ alarmed = FALSE
  /\ user = [p \in Pid |-> "unborn"]
  /\ slotOf = [p \in Pid |-> 0]
  /\ item = [p \in Pid |-> 0] /\ loaded = [p \in Pid |-> 0]
  /\ held = [p \in Pid |-> 0]
  /\ mail = [p \in Pid |-> 0]
  /\ overtaken = {} /\ overlapped = FALSE

-----------------------------------------------------------------------------
(* A user starts *)

claiming == {p \in Pid : user[p] \in {"draw", "load", "store"}}

\* initPCB, in the child.
Boot(p) ==
  /\ user[p] = "boot"
  /\ pidOf' = [pidOf EXCEPT ![slotOf[p]] = p]
  /\ user' = [user EXCEPT ![p] = "claim"]
  /\ UNCHANGED <<matrixVars, flagVars, ossVars, slotOf, startVars, held, mail,
                 raceVars>>

\* The process claims up to MaxClaim units of each resource.  It does not wait for
\* the semaphore: others may use the descriptor at the same time.
Claim(p) ==
  /\ user[p] = "claim"
  /\ \E c \in [Resource -> 0 .. MaxClaim] :
       /\ \A r \in Resource : c[r] <= Total[r]
       /\ req' = [req EXCEPT ![slotOf[p]] = c]
  /\ user' = [user EXCEPT ![p] = "draw"]
  /\ item' = [item EXCEPT ![p] = 0]
  /\ overlapped' = (overlapped \/ locked \/ claiming # {})
  /\ UNCHANGED <<avail, alloc, flagVars, ossVars, pidOf, slotOf, loaded, held, mail,
                 overtaken>>

\* On to the next resource, or into the loop.
advance(p) ==
  IF item[p] = NumResources - 1
  THEN user' = [user EXCEPT ![p] = "loop"] /\ item' = [item EXCEPT ![p] = 0]
  ELSE user' = [user EXCEPT ![p] = "draw"] /\ item' = [item EXCEPT ![p] = @ + 1]

\* The values of rand() % (bound + 1), which fails for a bound of -1.
draws(bound) == IF bound >= 0 THEN 0 .. bound ELSE 0 .. (-bound) - 2

\* The process draws how much of resource item[p] it starts with.  The amount of
\* a sharable resource is all it claims, and is not taken from anybody.
Draw(p) ==
  LET s == slotOf[p]
      r == item[p]
      bound == IF req[s][r] > avail[r] THEN avail[r] ELSE req[s][r]
  IN  /\ user[p] = "draw"
      /\ \/ /\ req[s][r] = 0 \/ r \in Sharable
            /\ alloc' = [alloc EXCEPT ![s][r] = IF req[s][r] = 0 THEN @ ELSE req[s][r]]
            /\ advance(p)
         \/ /\ req[s][r] # 0 /\ r \notin Sharable
            /\ \E n \in draws(bound) : alloc' = [alloc EXCEPT ![s][r] = n]
            /\ user' = [user EXCEPT ![p] = "load"]
            /\ UNCHANGED item
         \/ /\ req[s][r] # 0 /\ r \notin Sharable /\ bound = -1
            /\ user' = [user EXCEPT ![p] = "gone"]          \* SIGFPE
            /\ UNCHANGED <<alloc, item>>
  /\ UNCHANGED <<avail, req, flagVars, ossVars, pidOf, slotOf, loaded, held, mail,
                 raceVars>>

\* allocation_vector[i] -= allocation_matrix[pctLocation][i], without the semaphore.
Load(p) ==
  /\ user[p] = "load"
  /\ loaded' = [loaded EXCEPT ![p] = avail[item[p]]]
  /\ user' = [user EXCEPT ![p] = "store"]
  /\ UNCHANGED <<matrixVars, flagVars, ossVars, pidOf, slotOf, item, held, mail,
                 raceVars>>

\* loaded[p] is not read after this.
Store(p) ==
  /\ user[p] = "store"
  /\ avail' = [avail EXCEPT ![item[p]] = loaded[p] - alloc[slotOf[p]][item[p]]]
  /\ loaded' = [loaded EXCEPT ![p] = 0]
  /\ advance(p)
  /\ UNCHANGED <<req, alloc, flagVars, ossVars, pidOf, slotOf, held, mail, raceVars>>

Start(p) == Boot(p) \/ Claim(p) \/ Draw(p) \/ Load(p) \/ Store(p)

-----------------------------------------------------------------------------
(* A user visits the descriptor *)

\* sem_wait to sem_post: the visit ends with a look at the terminating flag.
visit(p) ==
  /\ user[p] = "loop"
  /\ ~locked
  /\ user' = [user EXCEPT ![p] = "check"]
  /\ UNCHANGED <<matrixVars, suspended, ossVars, pidOf, slotOf, startVars, mail,
                 raceVars>>

\* It is not yet time to check, or the process is a second old and draws not to
\* terminate.
Pass(p) == visit(p) /\ UNCHANGED <<request, allocate, terminating, held>>

\* The process is a second old and draws that it terminates.
GiveUp(p) ==
  /\ visit(p)
  /\ terminating' = [terminating EXCEPT ![slotOf[p]] = TRUE]
  /\ UNCHANGED <<request, allocate, held>>

\* It sees that it was granted its resources, and terminates after a few times.
Hold(p) ==
  /\ visit(p)
  /\ allocate[slotOf[p]]
  /\ request' = [request EXCEPT ![slotOf[p]] = FALSE]
  /\ held' = [held EXCEPT ![p] = Min({@ + 1, HeldLimit})]
  /\ terminating' = [terminating EXCEPT ![slotOf[p]] = @ \/ held[p] + 1 >= HeldLimit]
  /\ UNCHANGED allocate

\* It has no request, or OSS suspended it: it requests, again.
Request(p) ==
  /\ visit(p)
  /\ ~allocate[slotOf[p]] /\ ~request[slotOf[p]]
  /\ request' = [request EXCEPT ![slotOf[p]] = TRUE]
  /\ UNCHANGED <<allocate, terminating, held>>

\* Its request is open and OSS suspended an earlier one: it waits for a message.
Suspend(p) ==
  /\ user[p] = "loop" /\ ~locked
  /\ ~allocate[slotOf[p]] /\ request[slotOf[p]] /\ suspended[slotOf[p]]
  /\ user' = [user EXCEPT ![p] = "blocked"]
  /\ UNCHANGED <<matrixVars, flagVars, ossVars, pidOf, slotOf, startVars, held, mail,
                 raceVars>>

\* Its request is still open: it takes it back.
Withdraw(p) ==
  /\ visit(p)
  /\ ~allocate[slotOf[p]] /\ request[slotOf[p]] /\ ~suspended[slotOf[p]]
  /\ request' = [request EXCEPT ![slotOf[p]] = FALSE]
  /\ UNCHANGED <<allocate, terminating, held>>

Visit(p) == Pass(p) \/ GiveUp(p) \/ Hold(p) \/ Request(p) \/ Suspend(p) \/ Withdraw(p)

\* msgrcv returns: the visit starts over.
Awake(p) ==
  /\ user[p] = "blocked"
  /\ mail[p] > 0
  /\ \E m \in {mail[p] - 1} \cup ({mail[p]} \cap {2}) : mail' = [mail EXCEPT ![p] = m]
  /\ user' = [user EXCEPT ![p] = "loop"]
  /\ UNCHANGED <<matrixVars, flagVars, ossVars, pidOf, slotOf, startVars, held,
                 raceVars>>

\* The terminating flag is read after the semaphore was given back.  A process that
\* leaves takes its own variables with it, and reads no more messages.
Check(p) ==
  /\ user[p] = "check"
  /\ \/ /\ terminating[slotOf[p]]
        /\ user' = [user EXCEPT ![p] = "gone"]
        /\ held' = [held EXCEPT ![p] = 0] /\ mail' = [mail EXCEPT ![p] = 0]
     \/ /\ ~terminating[slotOf[p]]
        /\ user' = [user EXCEPT ![p] = "loop"]
        /\ UNCHANGED <<held, mail>>
  /\ UNCHANGED <<matrixVars, flagVars, ossVars, pidOf, slotOf, startVars, raceVars>>

UserStep(p) == Start(p) \/ Visit(p) \/ Awake(p) \/ Check(p)

-----------------------------------------------------------------------------
(* The queue, and what OSS does to a slot *)

\* A slip for the mutation runs: the queue is not tested for being full.
enqueueUnbounded(s, slot) == Append(s, slot)

enqueue(s, slot) == IF Len(s) < Slots THEN Append(s, slot) ELSE s

\* A message to the process of each of these slots; 2 means two or more.
posted(slots) ==
  [p \in Pid |->
     IF user[p] = "gone" THEN mail[p]
     ELSE Min({mail[p] + Cardinality({i \in 1 .. Len(slots) : pidOf[slots[i]] = p}), 2})]

\* currentLaunched--, which has no floor.  A count that not even every launch still
\* allowed would bring back to 0 stays where it is, as good as any lower one.
countedDown == Max({currentLaunched - 1, totalLaunched - MaxLaunch - 1})

\* Slips for the mutation runs: the allocation is not cleared; the terminating
\* flag is not.
ResetKeepsAllocation(s) ==
  /\ bitVector' = [bitVector EXCEPT ![s] = FALSE]
  /\ currentLaunched' = countedDown
  /\ terminating' = [terminating EXCEPT ![s] = FALSE]
  /\ request' = [request EXCEPT ![s] = FALSE]
  /\ avail' = [r \in Resource |-> IF r \in Sharable THEN avail[r] ELSE avail[r] + alloc[s][r]]
  /\ req' = [req EXCEPT ![s] = Nothing] /\ UNCHANGED alloc

ResetKeepsTerminating(s) ==
  /\ bitVector' = [bitVector EXCEPT ![s] = FALSE]
  /\ currentLaunched' = countedDown
  /\ UNCHANGED terminating
  /\ request' = [request EXCEPT ![s] = FALSE]
  /\ avail' = [r \in Resource |-> IF r \in Sharable THEN avail[r] ELSE avail[r] + alloc[s][r]]
  /\ req' = [req EXCEPT ![s] = Nothing] /\ alloc' = [alloc EXCEPT ![s] = Nothing]

\* Slot s is given up, and its units that cannot be shared are free again.  The
\* allocate and suspended flags, cleared as well, are in Terminate.
resetDescription(s) ==
  /\ bitVector' = [bitVector EXCEPT ![s] = FALSE]
  /\ currentLaunched' = countedDown
  /\ terminating' = [terminating EXCEPT ![s] = FALSE]
  /\ request' = [request EXCEPT ![s] = FALSE]
  /\ avail' = [r \in Resource |-> IF r \in Sharable THEN avail[r] ELSE avail[r] + alloc[s][r]]
  /\ req' = [req EXCEPT ![s] = Nothing] /\ alloc' = [alloc EXCEPT ![s] = Nothing]

-----------------------------------------------------------------------------
(* isSafe *)

\* isSafe, with work starting from the given units: the slots marked as finished
\* after n looks, one slot after the other, again and again.  After Slots rounds
\* another round finds nothing.
safeFrom(start) ==
  LET work(done) == [r \in Resource |->
                       start[r] + MapThenSumSet(LAMBDA s : alloc[s][r], done)]
      finish[n \in 0 .. Slots * Slots] ==
        IF n = 0 THEN {}
        ELSE LET done == finish[n - 1]
                 s == (n - 1) % Slots
             IN  IF \A r \in Resource : need(s)[r] <= work(done)[r]
                 THEN done \cup {s} ELSE done
  IN  finish[Slots * Slots] = Slot

\* The code starts from resource_vector, all the units there are.
isSafe == safeFrom(Total)

-----------------------------------------------------------------------------
(* OSS *)

noMoreLaunching == stopLaunching \/ totalLaunched >= MaxLaunch

freeSlots == {s \in Slot : ~bitVector[s]}

\* A process is forked for the first free slot, pctLocation, and OSS sleeps while the
\* child starts.
Fork ==
  /\ pc = "top"
  /\ ~noMoreLaunching /\ currentLaunched < Slots /\ freeSlots # {}
  /\ user' = [user EXCEPT ![forked + 1] = "boot"]
  /\ slotOf' = [slotOf EXCEPT ![forked + 1] = Min(freeSlots)]
  /\ forked' = forked + 1
  /\ pc' = "book"
  /\ UNCHANGED <<matrixVars, flagVars, locked, index, q, bitVector, currentLaunched,
                 totalLaunched, alarmVars, pidOf, startVars, held, mail, raceVars>>

\* A slip for the mutation runs: the slot is not marked as taken.
MarkNot ==
  /\ pc = "book"
  /\ pc' = "count"
  /\ UNCHANGED <<matrixVars, flagVars, locked, index, q, bitVector, countVars, alarmVars,
                 pidOf, userVars, raceVars>>

\* pctLocation is the slot of the process forked last.
Mark ==
  /\ pc = "book"
  /\ bitVector' = [bitVector EXCEPT ![slotOf[forked]] = TRUE]
  /\ pc' = "count"
  /\ UNCHANGED <<matrixVars, flagVars, locked, index, q, countVars, alarmVars, pidOf,
                 userVars, raceVars>>

\* An alarm between the two increments ends all launching, and totalLaunched is
\* read for nothing else.
Count ==
  /\ pc = "count"
  /\ currentLaunched' = currentLaunched + 1 /\ totalLaunched' = totalLaunched + 1
  /\ pc' = "lock"
  /\ UNCHANGED <<matrixVars, flagVars, locked, index, q, bitVector, forked, alarmVars,
                 pidOf, userVars, raceVars>>

\* No launch is due, or none is possible.
NoLaunch ==
  /\ pc = "top"
  /\ ~(noMoreLaunching /\ currentLaunched = 0)
  /\ pc' = "lock"
  /\ UNCHANGED <<matrixVars, flagVars, locked, index, q, bitVector, countVars, alarmVars,
                 pidOf, userVars, raceVars>>

\* Termination criteria.
Break ==
  /\ pc = "top"
  /\ noMoreLaunching /\ currentLaunched = 0
  /\ pc' = "final"
  /\ UNCHANGED <<matrixVars, flagVars, locked, index, q, bitVector, countVars, alarmVars,
                 pidOf, userVars, raceVars>>

\* sem_wait.
Lock ==
  /\ pc = "lock"
  /\ ~locked
  /\ locked' = TRUE
  /\ pc' = "terms" /\ index' = 0
  /\ overlapped' = (overlapped \/ claiming # {})
  /\ UNCHANGED <<matrixVars, flagVars, q, bitVector, countVars, alarmVars, pidOf, userVars,
                 overtaken>>

\* The scan goes on with the next slot, or the one called after starts.
scan(after) ==
  IF index = Slots - 1 THEN pc' = after /\ index' = 0
  ELSE index' = index + 1 /\ UNCHANGED pc

NoTermination ==
  /\ pc = "terms"
  /\ ~terminating[index]
  /\ scan("requests")
  /\ UNCHANGED <<matrixVars, flagVars, locked, q, bitVector, countVars, alarmVars, pidOf,
                 userVars, raceVars>>

\* The process of slot index terminates.  The first suspended slot is told to
\* run if what it still needs is available now, and the scan ends; else it goes
\* to the end of the queue.  The units are not given to it.
Terminate ==
  /\ pc = "terms"
  /\ terminating[index]
  /\ resetDescription(index)
  /\ overtaken' = IF \E p \in Pid : user[p] = "check" /\ slotOf[p] = index
                  THEN overtaken \cup {index} ELSE overtaken
  /\ LET s == Head(q)
         needed == [r \in Resource |-> req'[s][r] - alloc'[s][r]]
     IN  \/ /\ q = << >>
            /\ allocate' = [allocate EXCEPT ![index] = FALSE]
            /\ suspended' = [suspended EXCEPT ![index] = FALSE]
            /\ scan("requests")
            /\ UNCHANGED <<q, mail>>
         \/ /\ q # << >>
            /\ \E r \in Resource : avail'[r] - needed[r] < 0
            /\ q' = enqueue(Tail(q), s)
            /\ allocate' = [allocate EXCEPT ![index] = FALSE]
            /\ suspended' = [suspended EXCEPT ![index] = FALSE]
            /\ scan("requests")
            /\ UNCHANGED mail
         \/ /\ q # << >>
            /\ \A r \in Resource : avail'[r] - needed[r] >= 0
            /\ q' = Tail(q)
            /\ mail' = posted(<<s>>)
            /\ allocate' = [allocate EXCEPT ![index] = FALSE, ![s] = TRUE]
            /\ suspended' = [suspended EXCEPT ![index] = FALSE, ![s] = FALSE]
            /\ pc' = "requests" /\ index' = 0
  /\ UNCHANGED <<locked, forked, totalLaunched, alarmVars, pidOf, user, slotOf, startVars,
                 held, overlapped>>

NoRequest ==
  /\ pc = "requests"
  /\ ~request[index]
  /\ scan("wake")
  /\ UNCHANGED <<matrixVars, flagVars, locked, q, bitVector, countVars, alarmVars, pidOf,
                 userVars, raceVars>>

\* A slip for the mutation runs: the resources are given out untested.
takenUntested(s) == Resource

\* resourceAllocation gives out, in order, every resource before the first one
\* of which too little is available; what it gave out before that one is kept.
taken(s) == {r \in Resource : \A o \in 0 .. r : need(s)[o] <= avail[o]}

\* A slip for the mutation runs: a suspended request stays open.
SuspendKeepsRequest(s) ==
  /\ suspended' = [suspended EXCEPT ![s] = TRUE]
  /\ q' = enqueue(q, s)
  /\ UNCHANGED <<request, allocate>>

\* The request is not met: its process is suspended.
suspend(s) ==
  /\ suspended' = [suspended EXCEPT ![s] = TRUE]
  /\ request' = [request EXCEPT ![s] = FALSE]
  /\ q' = enqueue(q, s)
  /\ UNCHANGED allocate

\* The request is met.  Only in verbose mode is this recorded.
grant(s) ==
  /\ IF Verbose
     THEN /\ request' = [request EXCEPT ![s] = FALSE]
          /\ allocate' = [allocate EXCEPT ![s] = TRUE]
     ELSE UNCHANGED <<request, allocate>>
  /\ UNCHANGED <<suspended, q>>

\* isSafe is asked once the resources were given out.
ResourceAllocation ==
  /\ pc = "requests"
  /\ request[index]
  /\ LET n == [r \in Resource |-> IF r \in taken(index) THEN need(index)[r] ELSE 0]
     IN  /\ alloc' = [alloc EXCEPT ![index] = [r \in Resource |-> @[r] + n[r]]]
         /\ avail' = [r \in Resource |-> avail[r] - n[r]]
  /\ UNCHANGED req
  /\ IF taken(index) = Resource /\ isSafe' THEN grant(index) ELSE suspend(index)
  /\ scan("wake")
  /\ UNCHANGED <<terminating, locked, bitVector, countVars, alarmVars, pidOf, userVars,
                 raceVars>>

queued == {q[i] : i \in 1 .. Len(q)}

\* The queue is as long as the number of processes: all of them are woken, to
\* request again.  A process that is queued more than once gets as many messages.
WakeAll ==
  /\ pc = "wake"
  /\ q # << >> /\ Len(q) = currentLaunched
  /\ request'     = [s \in Slot |-> s \in queued \/ request[s]]
  /\ allocate'    = [s \in Slot |-> s \notin queued /\ allocate[s]]
  /\ terminating' = [s \in Slot |-> s \notin queued /\ terminating[s]]
  /\ suspended'   = [s \in Slot |-> s \notin queued /\ suspended[s]]
  /\ mail' = posted(q)
  /\ q' = << >>
  /\ pc' = "unlock"
  /\ UNCHANGED <<matrixVars, locked, index, bitVector, countVars, alarmVars, pidOf, user,
                 slotOf, startVars, held, raceVars>>

WakeNone ==
  /\ pc = "wake"
  /\ q = << >> \/ Len(q) # currentLaunched
  /\ pc' = "unlock"
  /\ UNCHANGED <<matrixVars, flagVars, locked, index, q, bitVector, countVars, alarmVars,
                 pidOf, userVars, raceVars>>

\* sem_post.
Unlock ==
  /\ pc = "unlock"
  /\ locked' = FALSE
  /\ pc' = "top"
  /\ UNCHANGED <<matrixVars, flagVars, index, q, bitVector, countVars, alarmVars, pidOf,
                 userVars, raceVars>>

\* wait(): a child has ended, or there never was one.
aChildEnded == forked = 0 \/ \E p \in Pid : user[p] = "gone"

ended == {p \in Pid : user[p] \in {"unborn", "gone"}}

\* After the loop: OSS waits for one child, kills the processes in the queue and
\* removes everything.  What the others then do is not followed.
Finish ==
  /\ pc = "final"
  /\ aChildEnded
  /\ user' = [p \in Pid |-> IF p \in ended THEN user[p]
                            ELSE IF \E s \in queued : pidOf[s] = p THEN "gone" ELSE "left"]
  /\ q' = << >>
  /\ pc' = "done"
  /\ UNCHANGED <<matrixVars, flagVars, locked, index, bitVector, countVars, alarmVars,
                 pidOf, slotOf, startVars, held, mail, raceVars>>

\* realTime longjmps to the top of the loop; the semaphore stays as it is.
Alarm ==
  /\ pc \in AlarmAt
  /\ ~alarmed
  /\ alarmed' = TRUE /\ stopLaunching' = TRUE
  /\ pc' = "top" /\ index' = 0
  /\ UNCHANGED <<matrixVars, flagVars, locked, q, bitVector, countVars, pidOf, userVars,
                 raceVars>>

\* OSS sends SIGKILL to these process ids.  kill(0) strikes its own process group,
\* OSS included; a process that has ended is struck in vain.  A process that is not
\* struck is stranded: OSS is about to remove what it works on, and what it then does
\* is not followed.
strike(struck) ==
  /\ user' = [p \in Pid |-> IF p \in ended THEN user[p]
                            ELSE IF p \in struck \/ 0 \in struck THEN "gone" ELSE "stranded"]
  /\ pc' = IF 0 \in struck THEN "dead" ELSE "collect"
  /\ q' = << >>

\* A slip for the mutation runs: as at the regular end, the queue alone is killed.
InterruptQueued ==
  /\ pc \in InterruptAt
  /\ strike({pidOf[s] : s \in queued})
  /\ UNCHANGED <<matrixVars, flagVars, locked, index, bitVector, countVars, alarmVars, pidOf,
                 slotOf, startVars, held, mail, raceVars>>

\* killHandler: the processes of the slots in use, and of those in the queue.
Interrupt ==
  /\ pc \in InterruptAt
  /\ strike({pidOf[s] : s \in {t \in Slot : bitVector[t]} \cup queued})
  /\ UNCHANGED <<matrixVars, flagVars, locked, index, bitVector, countVars, alarmVars, pidOf,
                 slotOf, startVars, held, mail, raceVars>>

\* Then one child is waited for, and everything is removed.
Collect ==
  /\ pc = "collect"
  /\ aChildEnded
  /\ pc' = "done"
  /\ UNCHANGED <<matrixVars, flagVars, locked, index, q, bitVector, countVars, alarmVars,
                 pidOf, userVars, raceVars>>

OssStep == Fork \/ Mark \/ Count \/ NoLaunch \/ Break \/ Lock \/ NoTermination \/ Terminate
           \/ NoRequest \/ ResourceAllocation \/ WakeAll \/ WakeNone \/ Unlock \/ Finish
           \/ Collect

-----------------------------------------------------------------------------

\* OSS has ended, or waits for a child although none of them has, and no process is
\* followed any more.
Ended ==
  /\ pc \in {"done", "dead"} \/ (pc = "collect" /\ ~aChildEnded)
  /\ \A p \in Pid : user[p] \in {"unborn", "gone", "left", "stranded"}
  /\ UNCHANGED vars

Next == OssStep \/ Alarm \/ Interrupt \/ (\E p \in Pid : UserStep(p)) \/ Ended

Spec == Init /\ [][Next]_vars

-----------------------------------------------------------------------------
(* Properties *)

living == {p \in Pid : user[p] \notin {"unborn", "gone"}}

\* The units p has written into its row and not yet taken from what is available.
inTransit(s, r) == \E p \in Pid : /\ user[p] \in {"load", "store"}
                                  /\ slotOf[p] = s /\ item[p] = r

used == {s \in Slot : bitVector[s]}

\* Neither race has happened.
undisturbed == ~overlapped /\ overtaken = {}

TypeOK ==
  /\ avail \in [Resource -> Int]
  /\ req \in [Slot -> [Resource -> Nat]] /\ alloc \in [Slot -> [Resource -> Nat]]
  /\ request \in [Slot -> BOOLEAN] /\ allocate \in [Slot -> BOOLEAN]
  /\ suspended \in [Slot -> BOOLEAN] /\ terminating \in [Slot -> BOOLEAN]
  /\ locked \in BOOLEAN
  /\ pc \in Point \cup {"collect", "done", "dead"} /\ index \in Slot
  /\ q \in Seq(Slot) /\ Len(q) <= Slots
  /\ bitVector \in [Slot -> BOOLEAN] /\ pidOf \in [Slot -> Pid \cup {0}]
  /\ forked \in 0 .. MaxLaunch /\ totalLaunched \in 0 .. MaxLaunch
  /\ currentLaunched \in -(MaxLaunch + 1) .. Slots
  /\ stopLaunching \in BOOLEAN /\ alarmed \in BOOLEAN
  /\ user \in [Pid -> {"unborn", "boot", "claim", "draw", "load", "store", "loop",
                       "check", "blocked", "gone", "left", "stranded"}]
  /\ slotOf \in [Pid -> Slot] /\ item \in [Pid -> Resource] /\ loaded \in [Pid -> Int]
  /\ held \in [Pid -> 0 .. HeldLimit] /\ mail \in [Pid -> 0 .. 2]
  /\ overtaken \subseteq Slot /\ overlapped \in BOOLEAN

\* While starts have not overlapped and no process was overtaken, no process holds
\* more than it claimed, and nothing is given out that is not there: the need that
\* OSS compares is never negative.
WithinClaims ==
  undisturbed =>
    /\ \A s \in Slot, r \in Resource : alloc[s][r] <= req[s][r]
    /\ \A r \in Resource : 0 <= avail[r]

\* currentLaunched, which ends the loop and wakes the queue, never exceeds the slots
\* in use, although terminations are scanned for and woken processes are not; it
\* falls behind them only by a launch that is not complete, or that a signal broke
\* off, and by processes that were overtaken.
CountMatches ==
  /\ currentLaunched <= Cardinality(used)
  /\ overtaken = {} => Cardinality(used) - currentLaunched <= forked - totalLaunched

\* A slot is not given to a process while another one still uses it, unless one of
\* its processes was overtaken, in which case it goes on in a slot that is free.
OwnSlots == \A p, o \in living : slotOf[p] = slotOf[o] => p = o \/ slotOf[p] \in overtaken

\* An interrupted OSS kills every process, whatever was lost or overwritten in the
\* descriptor, but for three: one whose slot still names the process before it,
\* because it has not filled in its PCB; the last one forked, when its slot is not
\* yet marked; and one that was overtaken.
OnlyStartingEscape ==
  \A p \in Pid : user[p] = "stranded" =>
    LET s == slotOf[p]
    IN  pidOf[s] # p \/ (p = forked /\ ~bitVector[s]) \/ s \in overtaken

\* After the scan of the requests none is open in verbose mode: each has been
\* granted or suspended.
RequestsDecided == Verbose /\ pc = "wake" => \A s \in Slot : ~request[s]

-----------------------------------------------------------------------------
(* What comments in the code say, and what it does *)

\* "If a process is trying to terminate, de-allocate all resources": a slot in use
\* has a process, or one whose termination OSS will see.
SlotIsLive ==
  \A s \in Slot : bitVector[s] => terminating[s] \/ \E p \in living : slotOf[p] = s

\* "Initializing work to the resources currently available": a state that the test
\* after an allocation finds safe is safe with the units that are available.
TestsWhatIsAvailable ==
  [][ResourceAllocation /\ undisturbed => (isSafe' => safeFrom(avail)')]_vars

-----------------------------------------------------------------------------
(* Refinement *)

Counted == Resource \ Sharable

Ledger == INSTANCE ResourceLedger
          WITH Resource <- Counted, Supply <- Total,
               free <- [r \in Counted |-> avail[r]],
               owned <- [s \in Slot |-> [r \in Counted |->
                           IF inTransit(s, r) THEN 0 ELSE alloc[s][r]]]

ledgerVars == Ledger!vars

\* While starts have not overlapped and no process was overtaken, every step of OSS
\* and of the users is one of the ledger or leaves it alone, up to the steps in
\* which OSS kills processes: one that dies half-way through taking a resource has
\* it on its row and has not taken it from what is available.
ImplementsLedger ==
  /\ Ledger!Init
  /\ [][Ledger!Next \/ overlapped' \/ overtaken' # {} \/ Interrupt \/ Finish]_ledgerVars
=============================================================================
