---------------------------- MODULE PagingSystem ----------------------------
(***************************************************************************)
(* The processes of project6: OSS (ossim.c), the user processes it forks   *)
(* (user.c), the System V message queue between them, the five second      *)
(* SIGALRM that stops OSS from launching, and SIGINT.  OSS's effect on     *)
(* the frame table and the page tables is FrameTable's.                    *)
(*                                                                         *)
(* pc says where OSS is between two steps that another process, or a       *)
(* signal, can observe.  The alarm handler longjmps to the top of the loop *)
(* from wherever OSS is; AlarmAt names the points at which it strikes.  A  *)
(* message is in the mailbox that its mesq_type selects: toOss for OSS's   *)
(* process id, toUser[p] for p.  Process ids are the ordinals of the forks.*)
(* The clock is left out: a launch that is due now or later is a choice.   *)
(***************************************************************************)
EXTENDS Integers, Sequences, FiniteSetsExt

CONSTANTS Slots,          \* MAX_PROCESSES
          Memory,         \* MEMORY
          Page,           \* the page numbers
          MaxLaunch,      \* processes launched in all: 100
          MinRequests,    \* requests a user makes before it may terminate: 100
          AlarmAt,        \* where in OSS's loop the alarm may strike
          OssInterrupt,   \* may OSS receive SIGINT?
          UserInterrupt   \* may a user receive SIGINT?

Point == {"top", "book", "recv", "handle", "reap", "reply", "final"}

ASSUME MemoryAssumption  ==
  Slots \in Nat \ {0} /\ Memory \in Nat \ {0} /\ Page \subseteq Nat /\ Page # {}
ASSUME LaunchAssumption  == MaxLaunch \in Nat \ {0}
ASSUME RequestAssumption == MinRequests \in Nat \ {0}
ASSUME SignalAssumption  ==
  AlarmAt \subseteq Point /\ OssInterrupt \in BOOLEAN /\ UserInterrupt \in BOOLEAN

Pid == 1 .. MaxLaunch

VARIABLES
  \* the memory, see FrameTable
  bitVector, pageTable, frameTable, qFrame, replaced,
  \* OSS
  pc,               \* where it is
  message,          \* the message it received last
  pctLocation,      \* the slot of the launch in progress
  childpid,         \* the child of the launch in progress
  currentLaunched, totalLaunched, stopLaunching,
  alarmed,          \* has the alarm struck? (setitimer is called once)
  interrupted,      \* has SIGINT ended OSS?
  \* the message queue
  queueUp,          \* does it exist?
  toOss, toUser,
  \* the users
  user,             \* what each process does
  slotOf,           \* argv[1], the slot OSS told the process
  requests          \* numberOfRequests, no longer counted from MinRequests on

memoryVars == <<bitVector, pageTable, frameTable, qFrame, replaced>>
launchVars == <<pctLocation, childpid, currentLaunched, totalLaunched>>
signalVars == <<stopLaunching, alarmed, interrupted>>
queueVars  == <<queueUp, toOss, toUser>>
userVars   == <<user, slotOf, requests>>
ossVars    == <<pc, message, launchVars, signalVars>>

vars == <<memoryVars, ossVars, queueVars, userVars>>

Mem == INSTANCE FrameTable

Slot == Mem!Slot

Message == [pid : Pid, slot : Slot, terminate : BOOLEAN, page : Page]

UserState == {"unborn", "boot", "ready", "waiting", "exiting", "zombie", "reaped",
              "stranded"}

\* The processes the kernel still lists as children of OSS.
children == {p \in Pid : user[p] \notin {"unborn", "reaped"}}

-----------------------------------------------------------------------------

\* The fields of message, pctLocation and childpid are not read before they are set.
Init ==
  /\ Mem!Init
  /\ pc = "top"
  /\ message = [pid |-> 1, slot |-> 0, terminate |-> FALSE, page |-> Min(Page)]
  /\ pctLocation = 0 /\ childpid = 1
  /\ currentLaunched = 0 /\ totalLaunched = 0
  /\ stopLaunching = FALSE /\ alarmed = FALSE /\ interrupted = FALSE
  /\ queueUp = TRUE /\ toOss = << >> /\ toUser = [p \in Pid |-> << >>]
  /\ user = [p \in Pid |-> "unborn"]
  /\ slotOf = [p \in Pid |-> 0]
  /\ requests = [p \in Pid |-> 0]

-----------------------------------------------------------------------------
(* OSS *)

noMoreLaunching == stopLaunching \/ totalLaunched >= MaxLaunch

\* A slip for the mutation runs: the running processes are forgotten.
BreakEarly ==
  /\ pc = "top"
  /\ noMoreLaunching
  /\ pc' = "final"
  /\ UNCHANGED <<memoryVars, message, launchVars, signalVars, queueVars, userVars>>

\* Termination criteria: the loop is left.
Break ==
  /\ pc = "top"
  /\ noMoreLaunching /\ currentLaunched = 0
  /\ pc' = "final"
  /\ UNCHANGED <<memoryVars, message, launchVars, signalVars, queueVars, userVars>>

\* The child a fork creates: ids are given out in order.
nextPid == Cardinality({p \in Pid : user[p] # "unborn"}) + 1

\* childLauncher: the child exists, and its page table is clear, from here on;
\* the parent sleeps before the launch is recorded in Book.
Fork ==
  /\ pc = "top"
  /\ ~noMoreLaunching
  /\ Mem!freeSlots # {}
  /\ pctLocation' = Min(Mem!freeSlots)
  /\ childpid' = nextPid
  /\ user' = [user EXCEPT ![nextPid] = "boot"]
  /\ slotOf' = [slotOf EXCEPT ![nextPid] = pctLocation']
  /\ Mem!initPCB(pctLocation')
  /\ pc' = "book"
  /\ UNCHANGED <<bitVector, frameTable, qFrame, replaced, message, currentLaunched,
                 totalLaunched, signalVars, queueVars, requests>>

\* A slip for the mutation runs: the owner of the slot is not written down.
BookWithoutOwner ==
  /\ pc = "book"
  /\ currentLaunched' = currentLaunched + 1
  /\ totalLaunched' = totalLaunched + 1
  /\ pc' = "recv"
  /\ UNCHANGED <<memoryVars, message, pctLocation, childpid, signalVars, queueVars, userVars>>

Book ==
  /\ pc = "book"
  /\ bitVector' = [bitVector EXCEPT ![pctLocation] = childpid]
  /\ currentLaunched' = currentLaunched + 1
  /\ totalLaunched' = totalLaunched + 1
  /\ pc' = "recv"
  /\ UNCHANGED <<pageTable, frameTable, qFrame, replaced, message, pctLocation, childpid,
                 signalVars, queueVars, userVars>>

\* No launch is due, or none is possible: on to the messages.  With no child
\* running OSS advances the clock and starts over, which is no step here.
NoLaunch ==
  /\ pc = "top"
  /\ currentLaunched # 0
  /\ pc' = "recv"
  /\ UNCHANGED <<memoryVars, message, launchVars, signalVars, queueVars, userVars>>

\* A slip for the mutation runs: the newest message is taken first.
ReceiveNewest ==
  /\ pc = "recv"
  /\ toOss # << >>
  /\ message' = toOss[Len(toOss)]
  /\ toOss' = SubSeq(toOss, 1, Len(toOss) - 1)
  /\ pc' = "handle"
  /\ UNCHANGED <<memoryVars, launchVars, signalVars, queueUp, toUser, userVars>>

Receive ==
  /\ pc = "recv"
  /\ toOss # << >>
  /\ message' = Head(toOss)
  /\ toOss' = Tail(toOss)
  /\ pc' = "handle"
  /\ UNCHANGED <<memoryVars, launchVars, signalVars, queueUp, toUser, userVars>>

\* Slips for the mutation runs: the memory of the process launched last is used;
\* no answer is sent when the fault could not be served.
HandleRequestOfLast ==
  /\ pc = "handle" /\ ~message.terminate
  /\ Mem!Access(pctLocation, message.pid, message.page)
  /\ pc' = "reply"
  /\ UNCHANGED <<message, launchVars, signalVars, queueVars, userVars>>

HandleRequestOrDrop ==
  /\ pc = "handle" /\ ~message.terminate
  /\ Mem!Access(message.slot, message.pid, message.page)
  /\ pc' = IF Mem!freeFrames = {} /\ qFrame = << >> THEN "top" ELSE "reply"
  /\ UNCHANGED <<message, launchVars, signalVars, queueVars, userVars>>

\* A request: the page is mapped, or pageFaultWork is called.
HandleRequest ==
  /\ pc = "handle"
  /\ ~message.terminate
  /\ Mem!Access(message.slot, message.pid, message.page)
  /\ pc' = "reply"
  /\ UNCHANGED <<message, launchVars, signalVars, queueVars, userVars>>

Reply ==
  /\ pc = "reply"
  /\ toUser' = [toUser EXCEPT ![message.pid] = Append(@, message)]
  /\ pc' = "top"
  /\ UNCHANGED <<memoryVars, message, launchVars, signalVars, queueUp, toOss, userVars>>

\* A slip for the mutation runs: the slot of the process launched last is given
\* up.
HandleTerminationOfLast ==
  /\ pc = "handle" /\ message.terminate
  /\ Mem!Terminate(pctLocation)
  /\ pc' = "reap"
  /\ UNCHANGED <<message, launchVars, signalVars, queueVars, userVars>>

\* terminatingWork up to its wait().
HandleTermination ==
  /\ pc = "handle"
  /\ message.terminate
  /\ Mem!Terminate(message.slot)
  /\ pc' = "reap"
  /\ UNCHANGED <<message, launchVars, signalVars, queueVars, userVars>>

\* wait(NULL): any child that has exited; it returns at once without children.
wait ==
  \/ children = {} /\ UNCHANGED user
  \/ \E p \in Pid : user[p] = "zombie" /\ user' = [user EXCEPT ![p] = "reaped"]

\* A slip for the mutation runs: the child is not counted out.
ReapUncounted ==
  /\ pc = "reap"
  /\ wait
  /\ pc' = "top"
  /\ UNCHANGED <<memoryVars, message, launchVars, signalVars, queueVars, slotOf, requests>>

Reap ==
  /\ pc = "reap"
  /\ wait
  /\ currentLaunched' = currentLaunched - 1
  /\ pc' = "top"
  /\ UNCHANGED <<memoryVars, message, pctLocation, childpid, totalLaunched, signalVars,
                 queueVars, slotOf, requests>>

\* A slip for the mutation runs: the queue is not destroyed.
cleanUpKeepsQueue ==
  qFrame' = << >> /\ UNCHANGED <<bitVector, pageTable, frameTable, replaced, queueVars>>

\* cleanUp and detachMemory: the queue of frames is emptied, and the message
\* queue is destroyed with what is in it.
cleanUp ==
  /\ qFrame' = << >>
  /\ queueUp' = FALSE /\ toOss' = << >> /\ toUser' = [p \in Pid |-> << >>]
  /\ UNCHANGED <<bitVector, pageTable, frameTable, replaced>>

\* After the loop: one last wait(), and the memory and the queue are removed.
Finish ==
  /\ pc = "final"
  /\ wait
  /\ cleanUp
  /\ pc' = "done"
  /\ UNCHANGED <<message, launchVars, signalVars, slotOf, requests>>

OssStep == Break \/ Fork \/ Book \/ NoLaunch \/ Receive \/ HandleRequest \/ Reply
           \/ HandleTermination \/ Reap \/ Finish

-----------------------------------------------------------------------------
(* Signals *)

\* realTime longjmps to the top of the loop, where launching is stopped.
Alarm ==
  /\ pc \in AlarmAt
  /\ ~alarmed
  /\ pc' = "top"
  /\ stopLaunching' = TRUE /\ alarmed' = TRUE
  /\ UNCHANGED <<memoryVars, message, launchVars, interrupted, queueVars, userVars>>

\* killHandler in OSS.
InterruptOss ==
  /\ OssInterrupt
  /\ pc # "done"
  /\ cleanUp
  /\ pc' = "done"
  /\ interrupted' = TRUE
  /\ UNCHANGED <<message, launchVars, stopLaunching, alarmed, userVars>>

\* killHandler in a user: it exits and sends no message.
InterruptUser(p) ==
  /\ UserInterrupt
  /\ user[p] \in {"boot", "ready", "waiting", "stranded"}
  /\ user' = [user EXCEPT ![p] = "zombie"]
  /\ UNCHANGED <<memoryVars, ossVars, queueVars, slotOf, requests>>

-----------------------------------------------------------------------------
(* A user *)

\* The clock and the queue are attached.  msgget creates the queue when OSS has
\* destroyed it: the process then waits on a queue nobody reads.
Connect(p) ==
  /\ user[p] = "boot"
  /\ user' = [user EXCEPT ![p] = IF queueUp THEN "ready" ELSE "stranded"]
  /\ UNCHANGED <<memoryVars, ossVars, queueVars, slotOf, requests>>

\* A message to OSS.  On a queue that is gone msgsnd fails, which the test for a
\* result of 1 does not notice.
send(p, terminate, pg) ==
  toOss' = IF queueUp
           THEN Append(toOss, [pid |-> p, slot |-> slotOf[p],
                               terminate |-> terminate, page |-> pg])
           ELSE toOss

Ask(p) ==
  /\ user[p] = "ready"
  /\ \E pg \in Page : send(p, FALSE, pg)
  /\ user' = [user EXCEPT ![p] = "waiting"]
  /\ UNCHANGED <<memoryVars, ossVars, queueUp, toUser, slotOf, requests>>

\* msgrcv returns the answer.
Answered(p) ==
  /\ user[p] = "waiting"
  /\ toUser[p] # << >>
  /\ toUser' = [toUser EXCEPT ![p] = Tail(@)]
  /\ requests' = [requests EXCEPT ![p] = Min({@ + 1, MinRequests})]
  /\ user' = [user EXCEPT ![p] = "ready"]
  /\ UNCHANGED <<memoryVars, ossVars, queueUp, toOss, slotOf>>

\* msgrcv fails because the queue is gone: the user exits.
QueueGone(p) ==
  /\ user[p] = "waiting"
  /\ ~queueUp
  /\ user' = [user EXCEPT ![p] = "zombie"]
  /\ UNCHANGED <<memoryVars, ossVars, queueVars, slotOf, requests>>

\* A slip for the mutation runs: the user does not leave its loop.
QuitWithoutBreak(p) ==
  /\ user[p] = "ready"
  /\ requests[p] >= MinRequests
  /\ send(p, TRUE, Min(Page))
  /\ user' = [user EXCEPT ![p] = "waiting"]
  /\ UNCHANGED <<memoryVars, ossVars, queueUp, toUser, slotOf, requests>>

\* After enough requests a user may say that it terminates, and leave the loop.
\* OSS does not read the page of this message.
Quit(p) ==
  /\ user[p] = "ready"
  /\ requests[p] >= MinRequests
  /\ send(p, TRUE, Min(Page))
  /\ user' = [user EXCEPT ![p] = "exiting"]
  /\ UNCHANGED <<memoryVars, ossVars, queueUp, toUser, slotOf, requests>>

Exit(p) ==
  /\ user[p] = "exiting"
  /\ user' = [user EXCEPT ![p] = "zombie"]
  /\ UNCHANGED <<memoryVars, ossVars, queueVars, slotOf, requests>>

UserStep(p) == Connect(p) \/ Ask(p) \/ Answered(p) \/ QueueGone(p) \/ Quit(p) \/ Exit(p)

-----------------------------------------------------------------------------

\* OSS has ended and no user can go on.
Ended ==
  /\ pc = "done"
  /\ \A p \in Pid : user[p] \in {"unborn", "zombie", "reaped", "stranded"}
  /\ UNCHANGED vars

Next ==
  \/ OssStep
  \/ Alarm
  \/ InterruptOss
  \/ \E p \in Pid : UserStep(p) \/ InterruptUser(p)
  \/ Ended

\* Every process is scheduled again and again, and a user that draws a random
\* number before each request draws one that makes it quit sooner or later.
\* Nothing is assumed of the signals.
Fairness ==
  /\ WF_vars(OssStep)
  /\ \A p \in Pid : WF_vars(UserStep(p)) /\ SF_vars(Quit(p))

Spec     == Init /\ [][Next]_vars
FairSpec == Spec /\ Fairness

-----------------------------------------------------------------------------
(* Properties *)

\* What there is of p's request: in OSS's mailbox, in OSS's hands, or its answer
\* in p's mailbox.
requestsIn(p) == Cardinality({i \in DOMAIN toOss : toOss[i].pid = p /\ ~toOss[i].terminate})
inHand(p)     == pc \in {"handle", "reply"} /\ message.pid = p /\ ~message.terminate
turns(p)      == requestsIn(p) + (IF inHand(p) THEN 1 ELSE 0) + Len(toUser[p])

\* A user that waits has exactly one request or answer on its way, and one that
\* computes has none, while the queue exists: the user and OSS never wait for
\* each other and no answer is ever mistaken for the next one.
OneTurnEach ==
  queueUp => \A p \in Pid :
    /\ turns(p) <= 1
    /\ user[p] = "waiting" => turns(p) = 1
    /\ user[p] \in {"boot", "ready"} => turns(p) = 0

\* The slot named in the message OSS handles is the slot of its sender, although
\* the slot is booked after the sender was forked, and slots are reused.
SlotIsSenders == pc = "handle" => bitVector[message.slot] = message.pid

\* currentLaunched, on which the end of the loop depends, counts the slots in
\* use until OSS is interrupted; only between terminatingWork's two halves does it lag behind.
CountMatches ==
  LET used == Cardinality({s \in Slot : bitVector[s] # 0})
  IN  interrupted \/ currentLaunched = IF pc = "reap" THEN used + 1 ELSE used

\* The wait() of terminatingWork has a child to wait for that does not itself
\* wait for OSS.
ReapFindsChild == pc = "reap" => \E p \in Pid : user[p] \in {"exiting", "zombie"}

\* When OSS ends of its own accord every user has been launched and reaped,
\* unless the alarm stopped the launching, and no message is left; every frame
\* is free again if none was ever replaced.
CleanExit ==
  pc \in {"final", "done"} /\ ~interrupted =>
    /\ stopLaunching \/ totalLaunched = MaxLaunch
    /\ children = {}
    /\ toOss = << >> /\ \A p \in Pid : toUser[p] = << >>
    /\ ~replaced => \A f \in Mem!Frame : ~frameTable[f].occupied

\* Every request is answered, or its sender is told that the queue is gone.
RequestsAnswered == \A p \in Pid : user[p] = "waiting" ~> user[p] # "waiting"

\* OSS ends.
OssFinishes == <>(pc = "done")

\* A user that is connected when the queue is destroyed ends as well.
ConnectedUsersExit ==
  \A p \in Pid : pc = "done" /\ user[p] \in {"ready", "waiting", "exiting"}
                   ~> user[p] = "zombie"

-----------------------------------------------------------------------------
(* Refinement *)

\* OSS treats the memory as FrameTable says: requests and terminations only for
\* the slot of a process that owns it.  A launch happens when the child is forked
\* with its page table cleared, before OSS writes it into the bit vector.  At the
\* end cleanUp empties the queue of frames, which is no operation of FrameTable.
Table == INSTANCE FrameTable
         WITH bitVector <- IF pc = "book"
                           THEN [bitVector EXCEPT ![pctLocation] = childpid]
                           ELSE bitVector

tableVars == Table!vars

ImplementsFrameTable == Table!Init /\ [][Table!Next \/ cleanUp]_tableVars

\* Seen from outside the system runs sessions: a user asks when it sends, is
\* answered when OSS replies, and leaves when it says that it terminates.
sessionPhase(p) ==
  CASE user[p] = "unborn" -> "absent"
    [] user[p] = "waiting" /\ toUser[p] = << >> -> "asking"
    [] user[p] = "waiting" /\ toUser[p] # << >> -> "computing"
    [] user[p] \in {"boot", "ready"} -> "computing"
    [] OTHER -> "left"

\* The senders of the requests among messages, in order.
requesters(messages) ==
  LET among[n \in 0 .. Len(messages)] ==
        IF n = 0 THEN << >>
        ELSE IF messages[n].terminate THEN among[n - 1]
        ELSE Append(among[n - 1], messages[n].pid)
  IN  among[Len(messages)]

\* The message in OSS's hands comes before those in its mailbox.
pendingUsers ==
  requesters((IF pc \in {"handle", "reply"} THEN <<message>> ELSE << >>) \o toOss)

Sessions == INSTANCE UserSessions
            WITH Process <- Pid, Limit <- Slots,
                 phase <- [p \in Pid |-> sessionPhase(p)], pending <- pendingUsers

ImplementsSessions == Sessions!Spec

=============================================================================
