------------------------ MODULE PagingSystem_proofs ------------------------
(***************************************************************************)
(* Theorems about PagingSystem for any number of slots, frames, pages and  *)
(* processes, with interrupts at any time, and with the alarm anywhere but *)
(* at the points a theorem excludes.  The invariants follow the life of a  *)
(* message: Traffic says where the one message of a user can be, Bookings  *)
(* that its sender owns the slot it names, and Counts that OSS's counter,  *)
(* its bit vector and the kernel's list of children agree.  From them      *)
(* follow the refinements of FrameTable and of the steps of UserSessions.  *)
(***************************************************************************)
EXTENDS PagingSystem, RecursionLemmas, SequenceTheorems

LEMMA LeastMember ==
  ASSUME NEW S, S \subseteq Nat, S # {}
  PROVE  Min(S) \in S /\ \A y \in S : Min(S) =< y
<1> DEFINE below == OpToRel(<, Nat)
<1>1. IsWellFoundedOn(below, Nat)
  BY NatLessThanWellFounded
<1>2. \A x, y \in Nat : y < x => <<y, x>> \in below
  BY DEF OpToRel
<1> HIDE DEF below
<1>3. PICK x \in S : \A y \in S : ~(<<y, x>> \in below)
  BY <1>1, WFMin
<1>4. ASSUME NEW y \in S PROVE x =< y
  <2>1. x \in Nat /\ y \in Nat
    OBVIOUS
  <2>2. ~(y < x)
    BY <1>2, <1>3, <2>1
  <2> QED BY <2>1, <2>2
<1>5. \E z \in S : \A y \in S : z =< y
  BY <1>4
<1> QED BY <1>5, Zenon DEF Min

LEMMA SlotNumbers == Slot = 0 .. Slots - 1 /\ 0 \in Slot /\ Slot \subseteq Nat
  BY MemoryAssumption DEF Slot, Mem!Slot

LEMMA FirstFreeSlot ==
  ASSUME Mem!freeSlots # {}
  PROVE  Min(Mem!freeSlots) \in Slot /\ bitVector[Min(Mem!freeSlots)] = 0
<1>1. Mem!freeSlots \subseteq Nat
  BY SlotNumbers DEF Mem!freeSlots, Slot
<1> QED BY <1>1, LeastMember DEF Mem!freeSlots, Slot

LEMMA FirstPage == Min(Page) \in Page
  BY MemoryAssumption, LeastMember

LEMMA PidIsFinite == IsFiniteSet(Pid) /\ Pid \subseteq Nat \ {0} /\ 1 \in Pid
  BY LaunchAssumption, FS_Interval DEF Pid

-----------------------------------------------------------------------------
(* Types, and the order of the births *)

born     == {p \in Pid : user[p] # "unborn"}
launched == Cardinality(born)

\* The children are numbered in the order of the forks, and a fork is counted when
\* it is booked.
Births ==
  /\ born = 1 .. launched
  /\ pc = "done" \/ stopLaunching \/ totalLaunched + (IF pc = "book" THEN 1 ELSE 0) = launched
  /\ pc = "book" => user[childpid] # "unborn"

Types ==
  /\ bitVector \in [Slot -> Pid \cup {0}]
  /\ pc \in Point \cup {"done"}
  /\ message \in Message
  /\ pctLocation \in Slot /\ childpid \in Pid
  /\ currentLaunched \in Int /\ totalLaunched \in Nat
  /\ stopLaunching \in BOOLEAN /\ alarmed \in BOOLEAN /\ interrupted \in BOOLEAN
  /\ queueUp \in BOOLEAN
  /\ toOss \in Seq(Message) /\ toUser \in [Pid -> Seq(Message)]
  /\ user \in [Pid -> UserState] /\ slotOf \in [Pid -> Slot]
  /\ requests \in [Pid -> 0 .. MinRequests]

LEMMA LaunchedIsNat == launched \in Nat /\ launched =< MaxLaunch
<1>1. born \subseteq Pid /\ IsFiniteSet(Pid) /\ Cardinality(Pid) = MaxLaunch
  BY LaunchAssumption, FS_Interval DEF born, Pid
<1> QED BY <1>1, FS_Subset, FS_CardinalityType DEF launched

LEMMA NextChild ==
  ASSUME Types, Births, Fork
  PROVE  nextPid \in Pid /\ user[nextPid] = "unborn" /\ nextPid = launched + 1
<1>1. nextPid = launched + 1
  BY DEF nextPid, launched, born
<1>2. totalLaunched = launched /\ totalLaunched < MaxLaunch /\ launched \in Nat
  BY LaunchedIsNat, LaunchAssumption DEF Births, Fork, noMoreLaunching, Types
<1>3. nextPid \in Pid
  BY <1>1, <1>2, LaunchAssumption DEF Pid
<1>4. nextPid \notin born
  BY <1>1, <1>2 DEF Births
<1> QED BY <1>1, <1>3, <1>4 DEF born

\* What a step does to the state of the users.
UserMove(p, from, to) == user[p] \in from /\ user' = [user EXCEPT ![p] = to]

LEMMA UserSteps ==
  ASSUME [Next]_vars, ~Fork
  PROVE  \/ UNCHANGED user
         \/ \E p \in Pid :
              \/ UserMove(p, {"boot"}, "ready") \/ UserMove(p, {"boot"}, "stranded")
              \/ UserMove(p, {"ready"}, "waiting") \/ UserMove(p, {"waiting"}, "ready")
              \/ UserMove(p, {"ready"}, "exiting") \/ UserMove(p, {"zombie"}, "reaped")
              \/ UserMove(p, {"exiting", "boot", "ready", "waiting", "stranded"}, "zombie")
<1>1. CASE OssStep \/ Alarm \/ InterruptOss \/ Ended \/ UNCHANGED vars
  BY <1>1 DEF OssStep, Break, Book, NoLaunch, Receive, HandleRequest, Reply, HandleTermination,
              Reap, Finish, wait, Alarm, InterruptOss, Ended, vars, userVars, UserMove
<1>2. CASE \E p \in Pid : UserStep(p) \/ InterruptUser(p)
  BY <1>2 DEF UserStep, InterruptUser, Connect, Ask, Answered, QueueGone, Quit, Exit, UserMove
<1> QED BY <1>1, <1>2 DEF Next

LEMMA BornSteps ==
  ASSUME Types, [Next]_vars, ~Fork
  PROVE  born' = born
<1>1. user \in [Pid -> UserState]
  BY DEF Types
<1>2. \A p \in Pid : user'[p] = "unborn" <=> user[p] = "unborn"
  BY <1>1, UserSteps DEF UserMove
<1> QED BY <1>2 DEF born

LEMMA BirthsKept == Types /\ Births /\ [Next]_vars => Births'
<1> SUFFICES ASSUME Types, Births, [Next]_vars PROVE Births'
  OBVIOUS
<1>1. CASE Fork
  <2>1. /\ nextPid \in Pid /\ nextPid = launched + 1 /\ launched \in Nat
        /\ user' = [user EXCEPT ![nextPid] = "boot"] /\ user \in [Pid -> UserState]
    BY <1>1, NextChild, LaunchedIsNat DEF Fork, Types
  <2>2. born' = born \cup {launched + 1}
    BY <2>1 DEF born
  <2>3. born' = 1 .. launched + 1
    BY <2>1, <2>2 DEF Births
  <2>4. launched' = launched + 1
    BY <2>1, <2>3, FS_Interval DEF launched
  <2>5. /\ pc' = "book" /\ UNCHANGED <<totalLaunched, stopLaunching>> /\ childpid' = nextPid
        /\ pc = "top" /\ ~stopLaunching /\ totalLaunched \in Nat
    BY <1>1 DEF Fork, signalVars, noMoreLaunching, Types
  <2>6. user'[childpid'] = "boot"
    BY <2>1, <2>5
  <2> QED BY <2>1, <2>3, <2>4, <2>5, <2>6 DEF Births
<1>2. CASE ~Fork
  <2>1. born' = born /\ launched' = launched
    BY <1>2, BornSteps DEF launched
  <2>2. CASE Book
    BY <2>1, <2>2, LaunchedIsNat DEF Book, signalVars, Births, Types
  <2>3. CASE ~Book
    <3>1. \/ UNCHANGED <<pc, totalLaunched, stopLaunching>>
          \/ pc \notin {"book", "done"} /\ pc' # "book" /\ UNCHANGED <<totalLaunched, stopLaunching>>
          \/ pc' = "top" /\ stopLaunching'
          \/ pc' = "done"
      BY <1>2, <2>3 DEF Next, OssStep, Break, NoLaunch, Receive, HandleRequest, Reply,
                        HandleTermination, Reap, Finish, Alarm, InterruptOss, Ended, UserStep,
                        InterruptUser, Connect, Ask, Answered, QueueGone, Quit, Exit, vars,
                        ossVars, launchVars, signalVars
    <3>2. pc' # "book" \/ UNCHANGED <<pc, childpid>>
      BY <1>2, <2>3 DEF Next, OssStep, Break, NoLaunch, Receive, HandleRequest, Reply,
                        HandleTermination, Reap, Finish, Alarm, InterruptOss, Ended, UserStep,
                        InterruptUser, Connect, Ask, Answered, QueueGone, Quit, Exit, vars,
                        ossVars, launchVars, signalVars
    <3>3. pc' = "book" => user'[childpid'] # "unborn"
      <4>1. ASSUME pc' = "book" PROVE childpid' = childpid /\ childpid \in born' /\ childpid \in Pid
        BY <2>1, <3>2, <4>1 DEF Births, Types, born
      <4> QED BY <4>1 DEF born
    <3> QED BY <2>1, <3>1, <3>3 DEF Births
  <2> QED BY <2>2, <2>3
<1> QED BY <1>1, <1>2

LEMMA MessageType ==
  ASSUME Types, NEW p \in Pid, NEW b \in BOOLEAN, NEW pg \in Page
  PROVE  [pid |-> p, slot |-> slotOf[p], terminate |-> b, page |-> pg] \in Message
  BY DEF Types, Message

LEMMA UserTypes == ASSUME Types, Births, [Next]_vars PROVE user' \in [Pid -> UserState]
<1>1. user \in [Pid -> UserState]
  BY DEF Types
<1>2. CASE Fork
  BY <1>1, <1>2, NextChild DEF Fork, UserState
<1>3. CASE ~Fork
  BY <1>1, <1>3, UserSteps DEF UserMove, UserState
<1> QED BY <1>2, <1>3

LEMMA TypesKept == Types /\ Births /\ [Next]_vars => Types'
<1> SUFFICES ASSUME Types, Births, [Next]_vars PROVE Types'
  OBVIOUS
<1>1. user' \in [Pid -> UserState]
  BY UserTypes
<1>2. CASE Fork
  BY <1>1, <1>2, FirstFreeSlot, NextChild
  DEF Fork, Types, signalVars, queueVars, Point
<1>3. CASE Book
  BY <1>1, <1>3 DEF Book, Types, signalVars, queueVars, userVars, Point
<1>4. CASE Break \/ NoLaunch \/ Reap \/ Alarm \/ Ended \/ UNCHANGED vars
  <2>1. /\ UNCHANGED <<bitVector, message, pctLocation, childpid, totalLaunched, interrupted>>
        /\ UNCHANGED <<queueUp, toOss, toUser, slotOf, requests>>
        /\ currentLaunched' \in {currentLaunched, currentLaunched - 1}
        /\ stopLaunching' \in {stopLaunching, TRUE} /\ alarmed' \in {alarmed, TRUE}
        /\ pc' \in {pc, "top", "recv", "final"}
    BY <1>4 DEF Break, NoLaunch, Reap, Alarm, Ended, vars, memoryVars, ossVars, launchVars,
                signalVars, queueVars, userVars
  <2>2. currentLaunched' \in Int
    BY <2>1 DEF Types
  <2>3. stopLaunching' \in BOOLEAN /\ alarmed' \in BOOLEAN
    BY <2>1 DEF Types
  <2>4. pc' \in Point \cup {"done"}
    BY <2>1 DEF Types, Point
  <2> QED BY <1>1, <2>1, <2>2, <2>3, <2>4 DEF Types
<1>5. CASE Receive
  <2>1. message' \in Message /\ toOss' \in Seq(Message)
    BY <1>5 DEF Receive, Types
  <2> QED BY <1>1, <1>5, <2>1 DEF Receive, memoryVars, launchVars, signalVars, userVars, Types,
                                  Point
<1>6. CASE HandleRequest
  <2>1. UNCHANGED bitVector
    BY <1>6 DEF HandleRequest, Mem!Access, Mem!Hit, Mem!Place, Mem!Replace, Mem!Skip, Mem!vars
  <2> QED BY <1>1, <1>6, <2>1 DEF HandleRequest, launchVars, signalVars, queueVars, userVars,
                                  Types, Point
<1>7. CASE HandleTermination
  <2>1. bitVector' = [bitVector EXCEPT ![message.slot] = 0]
    BY <1>7 DEF HandleTermination, Mem!Terminate
  <2> QED BY <1>1, <1>7, <2>1 DEF HandleTermination, launchVars, signalVars, queueVars, userVars,
                                  Types, Point
<1>8. CASE Reply
  <2>1. toUser' \in [Pid -> Seq(Message)]
    <3>1. message.pid \in Pid /\ message \in Message /\ toUser \in [Pid -> Seq(Message)]
      BY DEF Types, Message
    <3>2. toUser' = [toUser EXCEPT ![message.pid] = Append(@, message)]
      BY <1>8 DEF Reply
    <3> HIDE DEF Message
    <3>3. Append(toUser[message.pid], message) \in Seq(Message)
      BY <3>1
    <3> QED BY <3>1, <3>2, <3>3
  <2> QED BY <1>1, <1>8, <2>1 DEF Reply, memoryVars, launchVars, signalVars, userVars, Types, Point
<1>9. CASE Finish \/ InterruptOss
  <2>1. /\ UNCHANGED <<bitVector, message, launchVars, stopLaunching, alarmed, slotOf, requests>>
        /\ pc' = "done" /\ interrupted' \in {interrupted, TRUE}
        /\ queueUp' = FALSE /\ toOss' = << >> /\ toUser' = [p \in Pid |-> << >>]
    BY <1>9 DEF Finish, InterruptOss, cleanUp, signalVars, userVars
  <2>2. toOss' \in Seq(Message) /\ toUser' \in [Pid -> Seq(Message)]
    BY <2>1
  <2> QED BY <1>1, <2>1, <2>2 DEF Types, launchVars
<1>10. CASE \E p \in Pid : UserStep(p) \/ InterruptUser(p)
  <2>1. PICK p \in Pid : UserStep(p) \/ InterruptUser(p)
    BY <1>10
  <2>2. CASE Connect(p) \/ QueueGone(p) \/ Exit(p) \/ InterruptUser(p)
    BY <1>1, <2>2 DEF Connect, QueueGone, Exit, InterruptUser, memoryVars, ossVars, launchVars,
                      signalVars, queueVars, Types
  <2>3. CASE Ask(p) \/ Quit(p)
    <3>1. toOss' \in Seq(Message)
      <4>1. toOss \in Seq(Message)
        BY DEF Types
      <4>2. PICK b \in BOOLEAN, pg \in Page : send(p, b, pg)
        BY <2>3, FirstPage DEF Ask, Quit
      <4> QED BY <4>1, <4>2, MessageType DEF send
    <3> QED BY <1>1, <2>3, <3>1 DEF Ask, Quit, memoryVars, ossVars, launchVars, signalVars, Types
  <2>4. CASE Answered(p)
    <3>1. toUser' \in [Pid -> Seq(Message)]
      BY <2>4 DEF Answered, Types
    <3>2. requests' \in [Pid -> 0 .. MinRequests]
      <4>1. requests \in [Pid -> 0 .. MinRequests] /\ MinRequests \in Nat
        BY RequestAssumption DEF Types
      <4>2. Min({requests[p] + 1, MinRequests}) \in {requests[p] + 1, MinRequests}
        BY <4>1, LeastMember
      <4>3. Min({requests[p] + 1, MinRequests}) =< MinRequests
        BY <4>1, LeastMember
      <4>4. Min({requests[p] + 1, MinRequests}) \in 0 .. MinRequests
        BY <4>1, <4>2, <4>3
      <4> QED BY <2>4, <4>1, <4>4 DEF Answered
    <3> QED BY <1>1, <2>4, <3>1, <3>2 DEF Answered, memoryVars, ossVars, launchVars, signalVars,
                                          Types
  <2> QED BY <2>1, <2>2, <2>3, <2>4 DEF UserStep
<1> QED BY <1>2, <1>3, <1>4, <1>5, <1>6, <1>7, <1>8, <1>9, <1>10 DEF Next, OssStep

-----------------------------------------------------------------------------
(* Where the one message of a user is *)

Over   == pc = "done"
InHand == pc \in {"handle", "reply"}

\* What the sender of a request, and of a termination, can be doing.
Asked == {"waiting", "zombie", "reaped"}
Gone  == {"exiting", "zombie", "reaped"}

SentBy(m) ==
  m.slot = slotOf[m.pid] /\ user[m.pid] \in (IF m.terminate THEN Gone ELSE Asked)

QueueIsUp ==
  /\ queueUp <=> ~Over
  /\ Over => toOss = << >> /\ \A p \in Pid : toUser[p] = << >>
  /\ \A p \in Pid : user[p] = "stranded" => Over

Sent ==
  /\ \A i \in 1 .. Len(toOss) : SentBy(toOss[i])
  /\ InHand => SentBy(message)
  /\ pc = "reply" => ~message.terminate

OneMessage ==
  /\ \A i, j \in 1 .. Len(toOss) : toOss[i].pid = toOss[j].pid => i = j
  /\ InHand => \A i \in 1 .. Len(toOss) : toOss[i].pid # message.pid

OneAnswer ==
  \A p \in Pid : toUser[p] # << >> =>
    /\ Len(toUser[p]) = 1 /\ user[p] \in Asked
    /\ \A i \in 1 .. Len(toOss) : toOss[i].pid # p
    /\ InHand => message.pid # p

Traffic == QueueIsUp /\ Sent /\ OneMessage /\ OneAnswer

LEMMA TrafficTypes ==
  ASSUME Types
  PROVE  /\ user \in [Pid -> UserState] /\ slotOf \in [Pid -> Slot]
         /\ toOss \in Seq(Message) /\ toUser \in [Pid -> Seq(Message)]
         /\ message \in Message /\ message.pid \in Pid
         /\ \A i \in 1 .. Len(toOss) : toOss[i] \in Message /\ toOss[i].pid \in Pid
         /\ Len(toOss) \in Nat
<1>1. \A m \in Message : m.pid \in Pid
  BY DEF Message
<1>2. toOss \in Seq(Message) /\ message \in Message
  BY DEF Types
<1>3. \A i \in 1 .. Len(toOss) : toOss[i] \in Message
  BY <1>2
<1> QED BY <1>1, <1>2, <1>3 DEF Types

\* A step that moves no message, and no user back from what its message needs.
LEMMA QuietKeepsTraffic ==
  ASSUME Types, Traffic, UNCHANGED <<toOss, toUser, message, queueUp>>,
         Over' <=> Over, InHand' => InHand,
         pc' = "reply" => pc = "reply" \/ ~message.terminate,
         \A p \in Pid : /\ user[p] \in Asked => user'[p] \in Asked /\ slotOf'[p] = slotOf[p]
                        /\ user[p] \in Gone => user'[p] \in Gone /\ slotOf'[p] = slotOf[p]
                        /\ user'[p] = "stranded" => user[p] = "stranded" \/ Over
  PROVE  Traffic'
<1>1. /\ message.pid \in Pid
      /\ \A i \in 1 .. Len(toOss) : toOss[i].pid \in Pid
  BY TrafficTypes
<1>2. QueueIsUp'
  BY DEF Traffic, QueueIsUp
<1>3. Sent'
  BY <1>1 DEF Traffic, Sent, SentBy
<1>4. OneMessage'
  BY DEF Traffic, OneMessage
<1>5. OneAnswer'
  BY DEF Traffic, OneAnswer
<1> QED BY <1>2, <1>3, <1>4, <1>5 DEF Traffic

LEMMA ReceiveKeepsTraffic == ASSUME Types, Traffic, Receive PROVE Traffic'
<1>1. /\ pc = "recv" /\ pc' = "handle" /\ toOss # << >>
      /\ message' = Head(toOss) /\ toOss' = Tail(toOss)
      /\ UNCHANGED <<queueUp, toUser, user, slotOf>>
  BY DEF Receive, userVars
<1>2. /\ \A i \in 1 .. Len(toOss) : toOss[i].pid \in Pid
      /\ Len(toOss) \in Nat /\ toOss \in Seq(Message)
  BY TrafficTypes
<1>3. /\ Len(toOss') = Len(toOss) - 1 /\ Len(toOss) >= 1
      /\ message' = toOss[1]
      /\ \A i \in 1 .. Len(toOss') : toOss'[i] = toOss[i + 1] /\ i + 1 \in 1 .. Len(toOss)
  BY <1>1, <1>2
<1>4. QueueIsUp'
  BY <1>1 DEF Traffic, QueueIsUp, Over
<1>5. Sent'
  BY <1>1, <1>2, <1>3 DEF Traffic, Sent, SentBy
<1>6. OneMessage'
  BY <1>1, <1>2, <1>3 DEF Traffic, OneMessage
<1>7. OneAnswer'
  BY <1>1, <1>2, <1>3 DEF Traffic, OneAnswer
<1> QED BY <1>4, <1>5, <1>6, <1>7 DEF Traffic

LEMMA ReplyKeepsTraffic == ASSUME Types, Traffic, Reply PROVE Traffic'
<1>1. /\ pc = "reply" /\ pc' = "top"
      /\ toUser' = [toUser EXCEPT ![message.pid] = Append(@, message)]
      /\ UNCHANGED <<message, queueUp, toOss, user, slotOf>>
  BY DEF Reply, userVars
<1>2. /\ toUser \in [Pid -> Seq(Message)] /\ message.pid \in Pid /\ message \in Message
  BY TrafficTypes
<1>3. toUser[message.pid] = << >>
  BY <1>1, <1>2 DEF Traffic, OneAnswer, InHand
<1>4. \A p \in Pid : toUser'[p] = IF p = message.pid THEN <<message>> ELSE toUser[p]
  BY <1>1, <1>2, <1>3
<1>5. QueueIsUp'
  BY <1>1 DEF Traffic, QueueIsUp, Over
<1>6. Sent'
  BY <1>1 DEF Traffic, Sent, SentBy, InHand
<1>7. OneMessage'
  BY <1>1 DEF Traffic, OneMessage, InHand
<1>8. OneAnswer'
  <2>1. user[message.pid] \in Asked
    BY <1>1 DEF Traffic, Sent, SentBy, InHand
  <2>2. ASSUME NEW p \in Pid, toUser'[p] # << >>
        PROVE  /\ Len(toUser'[p]) = 1 /\ user[p] \in Asked
               /\ \A i \in 1 .. Len(toOss) : toOss[i].pid # p
    <3>1. CASE p = message.pid
      <4>1. toUser'[p] = <<message>> /\ Len(<<message>>) = 1
        BY <1>4, <3>1
      <4>2. \A i \in 1 .. Len(toOss) : toOss[i].pid # p
        BY <1>1, <3>1 DEF Traffic, OneMessage, InHand
      <4> QED BY <2>1, <3>1, <4>1, <4>2
    <3>2. CASE p # message.pid
      BY <1>4, <2>2, <3>2 DEF Traffic, OneAnswer
    <3> QED BY <3>1, <3>2
  <2> QED BY <1>1, <2>2 DEF OneAnswer, InHand
<1> QED BY <1>5, <1>6, <1>7, <1>8 DEF Traffic

LEMMA SendKeepsTraffic ==
  ASSUME Types, Traffic, NEW p \in Pid, Ask(p) \/ Quit(p)
  PROVE  Traffic'
<1>1. PICK b \in BOOLEAN, pg \in Page :
        /\ send(p, b, pg)
        /\ user' = [user EXCEPT ![p] = IF b THEN "exiting" ELSE "waiting"]
  BY FirstPage DEF Ask, Quit
<1>2. user[p] = "ready" /\ UNCHANGED <<pc, message, queueUp, toUser, slotOf>>
  BY DEF Ask, Quit, ossVars
<1>3. /\ user \in [Pid -> UserState]
      /\ \A i \in 1 .. Len(toOss) : toOss[i].pid \in Pid
      /\ Len(toOss) \in Nat /\ toOss \in Seq(Message) /\ message.pid \in Pid
  BY TrafficTypes
<1>4. /\ \A i \in 1 .. Len(toOss) : toOss[i].pid # p
      /\ InHand => message.pid # p
      /\ toUser[p] = << >>
  BY <1>2 DEF Traffic, Sent, SentBy, OneAnswer, Asked, Gone
<1>5. CASE Over
  <2>1. UNCHANGED toOss /\ user'[p] # "stranded"
    BY <1>1, <1>3, <1>5 DEF send, Traffic, QueueIsUp
  <2>2. QueueIsUp'
    BY <1>2, <1>5, <2>1 DEF Traffic, QueueIsUp, Over
  <2>3. Len(toOss) = 0 /\ ~InHand /\ ~InHand' /\ pc' # "reply"
    BY <1>2, <1>5 DEF Traffic, QueueIsUp, Over, InHand
  <2> QED BY <1>2, <1>5, <2>1, <2>2, <2>3 DEF Traffic, Sent, OneMessage, OneAnswer, QueueIsUp, Over
<1>6. CASE ~Over
  <2> DEFINE m == [pid |-> p, slot |-> slotOf[p], terminate |-> b, page |-> pg]
  <2>1. toOss' = Append(toOss, m)
    BY <1>1, <1>6 DEF send, Traffic, QueueIsUp
  <2>2. m.pid = p /\ m.slot = slotOf[p] /\ m.terminate = b /\ m \in Message
    BY MessageType
  <2> HIDE DEF m
  <2>3. /\ Len(toOss') = Len(toOss) + 1
        /\ \A i \in 1 .. Len(toOss') :
             \/ i \in 1 .. Len(toOss) /\ toOss'[i] = toOss[i]
             \/ i = Len(toOss) + 1 /\ toOss'[i] = m
    BY <1>3, <2>1, <2>2
  <2>4. QueueIsUp'
    BY <1>1, <1>2, <1>3, <1>6 DEF Traffic, QueueIsUp, Over
  <2>5. \A o \in Pid : /\ user[o] \in Asked => o # p /\ user'[o] = user[o]
                       /\ user[o] \in Gone => o # p /\ user'[o] = user[o]
    BY <1>1, <1>2, <1>3 DEF Asked, Gone
  <2>6. Sent'
    <3>1. ASSUME NEW i \in 1 .. Len(toOss')
          PROVE  /\ toOss'[i].slot = slotOf[toOss'[i].pid]
                 /\ user'[toOss'[i].pid] \in (IF toOss'[i].terminate THEN Gone ELSE Asked)
      <4>1. CASE i \in 1 .. Len(toOss) /\ toOss'[i] = toOss[i]
        BY <1>3, <2>5, <4>1 DEF Traffic, Sent, SentBy
      <4>2. CASE toOss'[i] = m
        BY <1>1, <1>3, <2>2, <4>2 DEF Asked, Gone
      <4> QED BY <2>3, <4>1, <4>2
    <3>2. InHand => /\ message.slot = slotOf[message.pid]
                    /\ user'[message.pid] \in (IF message.terminate THEN Gone ELSE Asked)
      BY <1>3, <2>5 DEF Traffic, Sent, SentBy
    <3> QED BY <1>2, <3>1, <3>2 DEF Traffic, Sent, SentBy, InHand
  <2>7. OneMessage'
    BY <1>2, <1>4, <2>2, <2>3 DEF Traffic, OneMessage, InHand
  <2>8. OneAnswer'
    BY <1>2, <1>4, <2>2, <2>3, <2>5 DEF Traffic, OneAnswer, InHand
  <2> QED BY <2>4, <2>6, <2>7, <2>8 DEF Traffic
<1> QED BY <1>5, <1>6

LEMMA TailOfOne ==
  ASSUME NEW S, NEW s \in Seq(S), s # << >>, Len(s) = 1
  PROVE  Tail(s) = << >>
<1>1. Tail(s) \in Seq(S) /\ Len(Tail(s)) = 0
  OBVIOUS
<1> QED BY <1>1, EmptySeq

LEMMA AppendIsNonEmpty ==
  ASSUME NEW S, NEW s \in Seq(S), NEW e \in S
  PROVE  Append(s, e) # << >>
<1>1. Len(Append(s, e)) = Len(s) + 1 /\ Len(s) \in Nat
  OBVIOUS
<1> QED BY <1>1, EmptySeq

LEMMA AnswerKeepsTraffic == ASSUME Types, Traffic, NEW p \in Pid, Answered(p) PROVE Traffic'
<1>1. /\ user[p] = "waiting" /\ toUser[p] # << >>
      /\ toUser' = [toUser EXCEPT ![p] = Tail(@)] /\ user' = [user EXCEPT ![p] = "ready"]
      /\ UNCHANGED <<pc, message, queueUp, toOss, slotOf>>
  BY DEF Answered, ossVars
<1>2. /\ user \in [Pid -> UserState] /\ toUser \in [Pid -> Seq(Message)]
      /\ \A i \in 1 .. Len(toOss) : toOss[i].pid \in Pid
      /\ message.pid \in Pid
  BY TrafficTypes
<1>3. /\ \A i \in 1 .. Len(toOss) : toOss[i].pid # p
      /\ InHand => message.pid # p
      /\ Len(toUser[p]) = 1
  BY <1>1 DEF Traffic, OneAnswer
<1>4. \A o \in Pid : toUser'[o] = IF o = p THEN << >> ELSE toUser[o]
  <2>1. Tail(toUser[p]) = << >>
    <3>1. toUser[p] \in Seq(Message) /\ toUser[p] # << >>
      BY <1>1, <1>2
    <3> QED BY <1>3, <3>1, TailOfOne
  <2> QED BY <1>1, <1>2, <2>1
<1>5. \A o \in Pid \ {p} : user'[o] = user[o]
  BY <1>1, <1>2
<1>6. QueueIsUp'
  BY <1>1, <1>2, <1>4 DEF Traffic, QueueIsUp, Over
<1>7. Sent'
  BY <1>1, <1>2, <1>3, <1>5 DEF Traffic, Sent, SentBy, InHand
<1>8. OneMessage'
  BY <1>1 DEF Traffic, OneMessage, InHand
<1>9. OneAnswer'
  BY <1>1, <1>4, <1>5 DEF Traffic, OneAnswer, InHand
<1> QED BY <1>6, <1>7, <1>8, <1>9 DEF Traffic

LEMMA CleanUpKeepsTraffic ==
  ASSUME Types, Traffic, Finish \/ InterruptOss
  PROVE  Traffic'
<1>1. pc' = "done" /\ queueUp' = FALSE /\ toOss' = << >> /\ toUser' = [p \in Pid |-> << >>]
  BY DEF Finish, InterruptOss, cleanUp
<1>2. QueueIsUp'
  BY <1>1 DEF QueueIsUp, Over
<1> QED BY <1>1, <1>2 DEF Traffic, Sent, OneMessage, OneAnswer, InHand

LEMMA TrafficKept == Types /\ Births /\ Traffic /\ [Next]_vars => Traffic'
<1> SUFFICES ASSUME Types, Births, Traffic, [Next]_vars PROVE Traffic'
  OBVIOUS
<1>1. user \in [Pid -> UserState] /\ slotOf \in [Pid -> Slot]
  BY DEF Types
<1>2. CASE Fork
  <2>1. /\ nextPid \in Pid /\ user[nextPid] = "unborn"
        /\ user' = [user EXCEPT ![nextPid] = "boot"]
        /\ \A p \in Pid \ {nextPid} : slotOf'[p] = slotOf[p]
        /\ pc = "top" /\ pc' = "book" /\ UNCHANGED <<message, queueVars>>
    BY <1>1, <1>2, NextChild DEF Fork
  <2>2. \A p \in Pid : /\ user[p] \in Asked => user'[p] \in Asked /\ slotOf'[p] = slotOf[p]
                       /\ user[p] \in Gone => user'[p] \in Gone /\ slotOf'[p] = slotOf[p]
                       /\ user'[p] = "stranded" => user[p] = "stranded"
    BY <1>1, <2>1 DEF Asked, Gone
  <2> QED BY <2>1, <2>2, QuietKeepsTraffic DEF queueVars, Over, InHand
<1>3. CASE Book \/ Break \/ NoLaunch \/ HandleRequest \/ HandleTermination \/ Reap \/ Alarm
           \/ Ended \/ UNCHANGED vars
  <2>1. /\ UNCHANGED <<toOss, toUser, message, queueUp, slotOf>>
        /\ Over' <=> Over
        /\ InHand' => InHand
        /\ pc' = "reply" => pc = "reply" \/ ~message.terminate
        /\ UNCHANGED user \/ \E p \in Pid : UserMove(p, {"zombie"}, "reaped")
    BY <1>3, SignalAssumption
    DEF Book, Break, NoLaunch, HandleRequest, HandleTermination, Reap, wait, UserMove,
        Alarm, Ended, vars, ossVars, queueVars, userVars, Over, InHand, Point
  <2>2. \A p \in Pid : /\ user[p] \in Asked => user'[p] \in Asked
                       /\ user[p] \in Gone => user'[p] \in Gone
                       /\ user'[p] = "stranded" => user[p] = "stranded"
    BY <1>1, <2>1 DEF Asked, Gone, UserMove
  <2> QED BY <2>1, <2>2, QuietKeepsTraffic
<1>4. CASE \E p \in Pid : Connect(p) \/ QueueGone(p) \/ Exit(p) \/ InterruptUser(p)
  <2>1. PICK p \in Pid : Connect(p) \/ QueueGone(p) \/ Exit(p) \/ InterruptUser(p)
    BY <1>4
  <2>2. UNCHANGED <<toOss, toUser, message, queueUp, slotOf, pc>>
    BY <2>1 DEF Connect, QueueGone, Exit, InterruptUser, ossVars, queueVars
  <2>3. \/ UserMove(p, {"boot"}, "ready")
        \/ UserMove(p, {"boot"}, "stranded") /\ ~queueUp
        \/ UserMove(p, {"exiting", "boot", "ready", "waiting", "stranded"}, "zombie")
    BY <2>1 DEF Connect, QueueGone, Exit, InterruptUser, UserMove
  <2>4. \A o \in Pid : /\ user[o] \in Asked => user'[o] \in Asked
                       /\ user[o] \in Gone => user'[o] \in Gone
                       /\ user'[o] = "stranded" => user[o] = "stranded" \/ Over
    BY <1>1, <2>3 DEF Asked, Gone, UserMove, Traffic, QueueIsUp
  <2> QED BY <2>2, <2>4, QuietKeepsTraffic DEF Over, InHand
<1>5. CASE Receive
  BY <1>5, ReceiveKeepsTraffic
<1>6. CASE Reply
  BY <1>6, ReplyKeepsTraffic
<1>7. CASE \E p \in Pid : Ask(p) \/ Quit(p)
  BY <1>7, SendKeepsTraffic
<1>8. CASE \E p \in Pid : Answered(p)
  BY <1>8, AnswerKeepsTraffic
<1>9. CASE Finish \/ InterruptOss
  BY <1>9, CleanUpKeepsTraffic
<1> QED BY <1>2, <1>3, <1>4, <1>5, <1>6, <1>7, <1>8, <1>9 DEF Next, OssStep, UserStep

LEMMA InitTraffic == Init => Types /\ Births /\ Traffic
<1> SUFFICES ASSUME Init PROVE Types /\ Births /\ Traffic
  OBVIOUS
<1>1. message \in Message
  BY FirstPage, PidIsFinite, SlotNumbers DEF Init, Message
<1>2. 0 \in 0 .. MinRequests
  BY RequestAssumption
<1>3. Types
  <2>1. bitVector \in [Slot -> Pid \cup {0}] /\ slotOf \in [Pid -> Slot]
    BY SlotNumbers DEF Init, Mem!Init, Slot
  <2>2. toOss \in Seq(Message) /\ toUser \in [Pid -> Seq(Message)]
    BY DEF Init
  <2>3. user \in [Pid -> UserState] /\ requests \in [Pid -> 0 .. MinRequests]
    BY <1>2 DEF Init, UserState
  <2>4. /\ pc \in Point /\ pctLocation \in Slot /\ childpid \in Pid
        /\ currentLaunched \in Int /\ totalLaunched \in Nat
    BY PidIsFinite, SlotNumbers DEF Init, Point
  <2>5. /\ stopLaunching \in BOOLEAN /\ alarmed \in BOOLEAN /\ interrupted \in BOOLEAN
        /\ queueUp \in BOOLEAN
    BY DEF Init
  <2> QED BY <1>1, <2>1, <2>2, <2>3, <2>4, <2>5 DEF Types
<1>4. launched = 0 /\ born = {}
  <2>1. born = {}
    BY DEF Init, born
  <2> QED BY <2>1, FS_EmptySet DEF launched
<1>5. Births
  BY <1>4 DEF Init, Births
<1>6. Traffic
  BY DEF Init, Traffic, QueueIsUp, Sent, OneMessage, OneAnswer, Over, InHand
<1> QED BY <1>3, <1>5, <1>6

LEMMA AlwaysTraffic == Spec => [](Types /\ Births /\ Traffic)
  BY InitTraffic, TypesKept, BirthsKept, TrafficKept, PTL DEF Spec

-----------------------------------------------------------------------------
(* A user that waits is answered: its request is somewhere *)

Awaited(p) ==
  \/ \E i \in 1 .. Len(toOss) : toOss[i].pid = p
  \/ InHand /\ message.pid = p
  \/ toUser[p] # << >>

Answerable == ~Over => \A p \in Pid : user[p] = "waiting" => Awaited(p)

\* A step that loses no message.
LEMMA QuietKeepsAnswerable ==
  ASSUME Types, Traffic, Answerable, Over' <=> Over, UNCHANGED <<toOss, toUser, message>>,
         InHand => InHand' \/ message.terminate,
         \A p \in Pid : user'[p] = "waiting" => user[p] = "waiting"
  PROVE  Answerable'
<1>1. ASSUME NEW p \in Pid, ~Over, user[p] = "waiting" PROVE Awaited(p)'
  <2>1. InHand /\ message.pid = p => ~message.terminate
    BY <1>1 DEF Traffic, Sent, SentBy, Gone
  <2>2. Awaited(p)
    BY <1>1 DEF Answerable
  <2> QED BY <2>1, <2>2 DEF Awaited
<1> QED BY <1>1 DEF Answerable

LEMMA AnswerableKept ==
  /\ AlarmAt \cap {"handle", "reply"} = {}
  /\ Types /\ Births /\ Traffic /\ Answerable /\ [Next]_vars
  => Answerable'
<1> SUFFICES ASSUME AlarmAt \cap {"handle", "reply"} = {},
                    Types, Births, Traffic, Answerable, [Next]_vars
             PROVE  Answerable'
  OBVIOUS
<1>1. /\ user \in [Pid -> UserState] /\ toOss \in Seq(Message) /\ Len(toOss) \in Nat
      /\ toUser \in [Pid -> Seq(Message)] /\ message.pid \in Pid /\ message \in Message
  BY TrafficTypes
<1>2. CASE Fork
  BY <1>1, <1>2, NextChild, QuietKeepsAnswerable DEF Fork, queueVars, Over, InHand
<1>3. CASE Book \/ Break \/ NoLaunch \/ HandleRequest \/ HandleTermination \/ Reap \/ Alarm
           \/ Ended \/ UNCHANGED vars
  <2>1. /\ UNCHANGED <<toOss, toUser, message>>
        /\ Over' <=> Over
        /\ InHand => InHand' \/ message.terminate
        /\ UNCHANGED user \/ \E p \in Pid : UserMove(p, {"zombie"}, "reaped")
    BY <1>3, SignalAssumption
    DEF Book, Break, NoLaunch, HandleRequest, HandleTermination, Reap, wait, UserMove,
        Alarm, Ended, vars, ossVars, queueVars, userVars, Over, InHand, Point
  <2>2. \A p \in Pid : user'[p] = "waiting" => user[p] = "waiting"
    BY <1>1, <2>1 DEF UserMove
  <2> QED BY <2>1, <2>2, QuietKeepsAnswerable
<1>4. CASE \E p \in Pid : Connect(p) \/ QueueGone(p) \/ Exit(p) \/ InterruptUser(p) \/ Answered(p)
  <2>1. PICK p \in Pid : Connect(p) \/ QueueGone(p) \/ Exit(p) \/ InterruptUser(p) \/ Answered(p)
    BY <1>4
  <2>2. /\ UNCHANGED <<toOss, message, pc>>
        /\ \A o \in Pid \ {p} : toUser'[o] = toUser[o]
    BY <1>1, <2>1 DEF Connect, QueueGone, Exit, InterruptUser, Answered, ossVars, queueVars
  <2>3. \/ UserMove(p, {"boot"}, "ready") \/ UserMove(p, {"boot"}, "stranded")
        \/ UserMove(p, {"exiting", "boot", "ready", "waiting", "stranded"}, "zombie")
        \/ UserMove(p, {"waiting"}, "ready")
    BY <2>1 DEF Connect, QueueGone, Exit, InterruptUser, UserMove, Answered
  <2>4. user'[p] # "waiting" /\ \A o \in Pid \ {p} : user'[o] = user[o]
    BY <1>1, <2>3 DEF UserMove
  <2> QED BY <2>2, <2>4 DEF Answerable, Awaited, Over, InHand
<1>5. CASE Receive
  <2>1. /\ pc = "recv" /\ pc' = "handle" /\ message' = Head(toOss) /\ toOss' = Tail(toOss)
        /\ toOss # << >> /\ UNCHANGED <<toUser, user>>
    BY <1>5 DEF Receive, userVars
  <2>2. /\ Len(toOss') = Len(toOss) - 1 /\ message' = toOss[1]
        /\ \A i \in 1 .. Len(toOss) :
             i = 1 \/ (i - 1 \in 1 .. Len(toOss') /\ toOss'[i - 1] = toOss[i])
    BY <1>1, <2>1
  <2> QED BY <2>1, <2>2 DEF Answerable, Awaited, Over, InHand
<1>6. CASE Reply
  <2>1. /\ pc = "reply" /\ pc' = "top" /\ UNCHANGED <<message, toOss, user>>
        /\ toUser' = [toUser EXCEPT ![message.pid] = Append(@, message)]
    BY <1>6 DEF Reply, userVars
  <2>2. \A p \in Pid : toUser'[p] = IF p = message.pid THEN Append(toUser[p], message) ELSE toUser[p]
    BY <1>1, <2>1
  <2>3. Append(toUser[message.pid], message) # << >>
    <3>1. toUser[message.pid] \in Seq(Message)
      BY <1>1
    <3> QED BY <1>1, <3>1, AppendIsNonEmpty
  <2> QED BY <1>1, <2>1, <2>2, <2>3 DEF Answerable, Awaited, Over, InHand
<1>7. CASE \E p \in Pid : Ask(p) \/ Quit(p)
  <2>1. PICK p \in Pid : Ask(p) \/ Quit(p)
    BY <1>7
  <2>2. PICK b \in BOOLEAN, pg \in Page :
          /\ send(p, b, pg)
          /\ user' = [user EXCEPT ![p] = IF b THEN "exiting" ELSE "waiting"]
    BY <2>1, FirstPage DEF Ask, Quit
  <2>3. user[p] = "ready" /\ UNCHANGED <<pc, message, queueUp, toUser>>
    BY <2>1 DEF Ask, Quit, ossVars
  <2>4. CASE Over
    BY <2>3, <2>4 DEF Over, Answerable
  <2>5. CASE ~Over
    <3> DEFINE m == [pid |-> p, slot |-> slotOf[p], terminate |-> b, page |-> pg]
    <3>1. toOss' = Append(toOss, m)
      BY <2>2, <2>5 DEF send, Traffic, QueueIsUp
    <3>2. m.pid = p /\ m \in Message
      BY MessageType
    <3> HIDE DEF m
    <3>3. /\ Len(toOss') = Len(toOss) + 1 /\ toOss'[Len(toOss) + 1] = m
          /\ \A i \in 1 .. Len(toOss) : i \in 1 .. Len(toOss') /\ toOss'[i] = toOss[i]
      BY <1>1, <3>1, <3>2
    <3>4. Len(toOss) + 1 \in 1 .. Len(toOss')
      BY <1>1, <3>3
    <3>5. \A o \in Pid : user'[o] = "waiting" => o = p \/ user[o] = "waiting"
      BY <1>1, <2>2
    <3> QED BY <2>3, <2>5, <3>2, <3>3, <3>4, <3>5 DEF Answerable, Awaited, Over, InHand
  <2> QED BY <2>4, <2>5
<1>8. CASE Finish \/ InterruptOss
  BY <1>8 DEF Finish, InterruptOss, Answerable, Over
<1> QED BY <1>2, <1>3, <1>4, <1>5, <1>6, <1>7, <1>8 DEF Next, OssStep, UserStep

LEMMA RequestsCounted ==
  ASSUME Types, Traffic, NEW p \in Pid
  PROVE  \/ /\ requestsIn(p) = 1
            /\ \E i \in 1 .. Len(toOss) : toOss[i].pid = p /\ ~toOss[i].terminate
         \/ /\ requestsIn(p) = 0
            /\ \A i \in 1 .. Len(toOss) : toOss[i].pid = p => toOss[i].terminate
<1> DEFINE R == {i \in DOMAIN toOss : toOss[i].pid = p /\ ~toOss[i].terminate}
<1>1. DOMAIN toOss = 1 .. Len(toOss)
  BY TrafficTypes
<1>2. CASE R = {}
  BY <1>1, <1>2, FS_EmptySet DEF requestsIn
<1>3. CASE R # {}
  <2>1. PICK i \in R : TRUE
    BY <1>3
  <2>2. R = {i}
    BY <1>1, <2>1 DEF Traffic, OneMessage
  <2>3. Cardinality(R) = 1
    BY <2>2, FS_Singleton
  <2> QED BY <1>1, <2>1, <2>3 DEF requestsIn
<1> QED BY <1>2, <1>3

LEMMA TrafficTakesTurns == ASSUME Types, Traffic, Answerable PROVE OneTurnEach
<1> SUFFICES ASSUME queueUp, NEW p \in Pid
             PROVE  /\ turns(p) <= 1
                    /\ user[p] = "waiting" => turns(p) = 1
                    /\ user[p] \in {"boot", "ready"} => turns(p) = 0
  BY DEF OneTurnEach
<1>1. ~Over
  BY DEF Traffic, QueueIsUp
<1>2. toUser[p] \in Seq(Message)
  BY TrafficTypes
<1>3. Len(toUser[p]) = IF toUser[p] = << >> THEN 0 ELSE 1
  BY <1>2, EmptySeq DEF Traffic, OneAnswer
<1>4. turns(p) = requestsIn(p) + (IF inHand(p) THEN 1 ELSE 0) + Len(toUser[p])
  BY DEF turns
<1>5. CASE \E i \in 1 .. Len(toOss) : toOss[i].pid = p /\ ~toOss[i].terminate
  <2>1. requestsIn(p) = 1
    BY <1>5, RequestsCounted
  <2>2. ~inHand(p) /\ toUser[p] = << >> /\ user[p] \in Asked
    BY <1>5 DEF Traffic, OneMessage, OneAnswer, Sent, SentBy, inHand, InHand
  <2> QED BY <1>3, <1>4, <2>1, <2>2 DEF Asked
<1>6. CASE inHand(p)
  <2>1. requestsIn(p) = 0
    BY <1>6, RequestsCounted DEF Traffic, OneMessage, inHand, InHand
  <2>2. toUser[p] = << >> /\ user[p] \in Asked
    BY <1>6 DEF Traffic, OneAnswer, Sent, SentBy, inHand, InHand
  <2> QED BY <1>3, <1>4, <1>6, <2>1, <2>2 DEF Asked
<1>7. CASE /\ ~inHand(p)
           /\ \A i \in 1 .. Len(toOss) : toOss[i].pid = p => toOss[i].terminate
  <2>1. requestsIn(p) = 0
    BY <1>7, RequestsCounted
  <2>2. turns(p) = IF toUser[p] = << >> THEN 0 ELSE 1
    BY <1>3, <1>4, <1>7, <2>1
  <2>3. ASSUME user[p] = "waiting" PROVE toUser[p] # << >>
    <3>1. Awaited(p)
      BY <1>1, <2>3 DEF Answerable
    <3>2. ~(\E i \in 1 .. Len(toOss) : toOss[i].pid = p)
      BY <1>7, <2>3 DEF Traffic, Sent, SentBy, Gone
    <3>3. ~(InHand /\ message.pid = p)
      BY <1>7, <2>3 DEF Traffic, Sent, SentBy, Gone, inHand, InHand
    <3> QED BY <3>1, <3>2, <3>3 DEF Awaited
  <2>4. user[p] \in {"boot", "ready"} => toUser[p] = << >>
    BY DEF Traffic, OneAnswer, Asked
  <2> QED BY <2>2, <2>3, <2>4
<1> QED BY <1>5, <1>6, <1>7

\* However the requests of the users, their answers, the alarm and the interrupts
\* interleave, a user that waits has exactly one message on its way and one that
\* computes has none: no answer can be taken for the next one, and none that is
\* waited for is missing.  The alarm must not strike between OSS's msgrcv and msgsnd: it
\* would lose the message in hand.
THEOREM OneTurn ==
  ASSUME AlarmAt \cap {"handle", "reply"} = {}
  PROVE  Spec => []OneTurnEach
<1>1. Init => Answerable
  BY DEF Init, Answerable
<1>2. Types /\ Births /\ Traffic /\ Answerable /\ [Next]_vars => Answerable'
  BY AnswerableKept
<1>3. Types /\ Births /\ Traffic /\ Answerable => OneTurnEach
  BY TrafficTakesTurns
<1> QED BY <1>1, <1>2, <1>3, AlwaysTraffic, PTL DEF Spec

-----------------------------------------------------------------------------
(* Who sends a message owns the slot it names *)

Running == {"boot", "ready", "waiting"}

Booked(p) == bitVector[slotOf[p]] = p \/ (pc = "book" /\ childpid = p)

OwnBooking ==
  \A s \in Slot : bitVector[s] # 0 => slotOf[bitVector[s]] = s /\ user[bitVector[s]] # "unborn"

PendingBooking ==
  pc = "book" => /\ bitVector[pctLocation] = 0 /\ slotOf[childpid] = pctLocation
                 /\ \A s \in Slot : bitVector[s] # childpid

SendersBooked ==
  /\ \A i \in 1 .. Len(toOss) : Booked(toOss[i].pid)
  /\ InHand => Booked(message.pid)
  /\ \A p \in Pid : toUser[p] # << >> => Booked(p)

RunningBooked == ~Over => \A p \in Pid : user[p] \in Running => Booked(p)

Bookings == OwnBooking /\ PendingBooking /\ SendersBooked /\ RunningBooked

LEMMA BookingTypes ==
  ASSUME Types
  PROVE  /\ bitVector \in [Slot -> Pid \cup {0}] /\ user \in [Pid -> UserState]
         /\ slotOf \in [Pid -> Slot] /\ message.pid \in Pid /\ 0 \notin Pid
         /\ childpid \in Pid /\ pctLocation \in Slot
         /\ \A i \in 1 .. Len(toOss) : toOss[i].pid \in Pid
  BY TrafficTypes, PidIsFinite DEF Types

\* A step that leaves the slots as they are, and moves no message.
LEMMA QuietKeepsBookings ==
  ASSUME Types, Bookings, UNCHANGED <<bitVector, slotOf, toOss, toUser, message>>,
         pc' = "book" => pc = "book" /\ UNCHANGED pctLocation,
         pc = "book" => pc' = "book" /\ UNCHANGED childpid,
         InHand' => InHand, Over => Over',
         \A p \in Pid : /\ user'[p] \in Running => user[p] \in Running
                        /\ user[p] # "unborn" => user'[p] # "unborn"
  PROVE  Bookings'
<1>1. \A p \in Pid : Booked(p) => Booked(p)'
  BY DEF Booked
<1>2. OwnBooking'
  BY BookingTypes DEF Bookings, OwnBooking
<1>3. PendingBooking'
  BY DEF Bookings, PendingBooking
<1>4. SendersBooked'
  BY <1>1, BookingTypes DEF Bookings, SendersBooked
<1>5. RunningBooked'
  BY <1>1 DEF Bookings, RunningBooked
<1> QED BY <1>2, <1>3, <1>4, <1>5 DEF Bookings

LEMMA ForkKeepsBookings == ASSUME Types, Births, Traffic, Bookings, Fork PROVE Bookings'
<1> DEFINE c == nextPid
           s == Min(Mem!freeSlots)
<1>1. /\ c \in Pid /\ user[c] = "unborn" /\ s \in Slot /\ bitVector[s] = 0
      /\ pc = "top" /\ pc' = "book" /\ pctLocation' = s /\ childpid' = c
      /\ user' = [user EXCEPT ![c] = "boot"] /\ slotOf' = [slotOf EXCEPT ![c] = s]
      /\ UNCHANGED <<bitVector, message, toOss, toUser>>
  BY NextChild, FirstFreeSlot DEF Fork, queueVars
<1> HIDE DEF c, s
<1>2. \A t \in Slot : bitVector[t] # c
  BY <1>1, BookingTypes DEF Bookings, OwnBooking
<1>3. \A p \in Pid : Booked(p) => Booked(p)'
  BY <1>1, <1>2, BookingTypes DEF Booked
<1>4. OwnBooking'
  BY <1>1, <1>2, BookingTypes DEF Bookings, OwnBooking
<1>5. PendingBooking'
  BY <1>1, <1>2, BookingTypes DEF PendingBooking
<1>6. SendersBooked'
  BY <1>1, <1>3, BookingTypes DEF Bookings, SendersBooked, InHand
<1>7. RunningBooked'
  <2>1. ASSUME NEW p \in Pid, user'[p] \in Running PROVE Booked(p)'
    <3>1. CASE p = c
      BY <1>1, <3>1 DEF Booked
    <3>2. CASE p # c
      BY <1>1, <1>3, <2>1, <3>2, BookingTypes DEF Bookings, RunningBooked, Over
    <3> QED BY <3>1, <3>2
  <2> QED BY <2>1 DEF RunningBooked
<1> QED BY <1>4, <1>5, <1>6, <1>7 DEF Bookings

LEMMA BookKeepsBookings == ASSUME Types, Births, Bookings, Book PROVE Bookings'
<1>1. /\ pc = "book" /\ pc' = "recv" /\ bitVector' = [bitVector EXCEPT ![pctLocation] = childpid]
      /\ UNCHANGED <<user, slotOf, message, toOss, toUser>>
  BY DEF Book, queueVars, userVars
<1>2. bitVector[pctLocation] = 0 /\ slotOf[childpid] = pctLocation
  BY <1>1 DEF Bookings, PendingBooking
<1>3. \A p \in Pid : Booked(p) => Booked(p)'
  BY <1>1, <1>2, BookingTypes DEF Booked
<1>4. OwnBooking'
  BY <1>1, <1>2, BookingTypes DEF Bookings, OwnBooking, Births
<1>5. SendersBooked'
  BY <1>1, <1>3, BookingTypes DEF Bookings, SendersBooked, InHand
<1>6. RunningBooked'
  BY <1>1, <1>3 DEF Bookings, RunningBooked, Over
<1> QED BY <1>1, <1>4, <1>5, <1>6 DEF Bookings, PendingBooking

LEMMA TerminationKeepsBookings ==
  ASSUME Types, Traffic, Bookings, HandleTermination
  PROVE  Bookings'
<1>1. /\ pc = "handle" /\ pc' = "reap" /\ message.terminate
      /\ bitVector' = [bitVector EXCEPT ![message.slot] = 0]
      /\ UNCHANGED <<user, slotOf, message, toOss, toUser>>
  BY DEF HandleTermination, Mem!Terminate, queueVars, userVars
<1>2. /\ message.slot = slotOf[message.pid] /\ bitVector[message.slot] = message.pid
      /\ user[message.pid] \in Gone
  BY <1>1 DEF Traffic, Sent, SentBy, InHand, Bookings, SendersBooked, Booked
<1>3. \A p \in Pid : Booked(p) /\ p # message.pid => Booked(p)'
  BY <1>1, <1>2, BookingTypes DEF Booked
<1>4. OwnBooking'
  BY <1>1, <1>2, BookingTypes DEF Bookings, OwnBooking
<1>5. SendersBooked'
  BY <1>1, <1>3, BookingTypes DEF Bookings, SendersBooked, InHand, Traffic, OneMessage, OneAnswer
<1>6. RunningBooked'
  BY <1>1, <1>2, <1>3 DEF Bookings, RunningBooked, Over, Running, Gone
<1> QED BY <1>1, <1>4, <1>5, <1>6 DEF Bookings, PendingBooking

\* A step that moves messages: each one there is after it was there before, or its
\* sender computes.
LEMMA MovingKeepsBookings ==
  ASSUME Types, Bookings, UNCHANGED <<bitVector, slotOf>>, pc # "book", pc' # "book",
         Over' <=> Over,
         \A p \in Pid : user[p] # "unborn" => user'[p] # "unborn",
         \A p \in Pid : user'[p] \in Running => user[p] \in Running,
         \A i \in 1 .. Len(toOss') : toOss'[i].pid \in Pid /\ Booked(toOss'[i].pid),
         InHand' => message'.pid \in Pid /\ Booked(message'.pid),
         \A p \in Pid : toUser'[p] # << >> => Booked(p)
  PROVE  Bookings'
<1>1. \A p \in Pid : Booked(p) => Booked(p)'
  BY DEF Booked
<1>2. OwnBooking'
  BY BookingTypes DEF Bookings, OwnBooking
<1>3. SendersBooked'
  BY <1>1 DEF SendersBooked
<1>4. RunningBooked'
  BY <1>1 DEF Bookings, RunningBooked
<1> QED BY <1>2, <1>3, <1>4 DEF Bookings, PendingBooking

LEMMA SendKeepsBookings ==
  ASSUME Types, Traffic, Bookings, NEW p \in Pid, Ask(p) \/ Quit(p)
  PROVE  Bookings'
<1>1. PICK b \in BOOLEAN, pg \in Page :
        /\ send(p, b, pg)
        /\ user' = [user EXCEPT ![p] = IF b THEN "exiting" ELSE "waiting"]
  BY FirstPage DEF Ask, Quit
<1>2. /\ user[p] = "ready"
      /\ UNCHANGED <<pc, message, childpid, pctLocation, bitVector, queueUp, toUser, slotOf>>
  BY DEF Ask, Quit, ossVars, launchVars, memoryVars
<1>3. /\ user \in [Pid -> UserState] /\ toOss \in Seq(Message) /\ Len(toOss) \in Nat
  BY TrafficTypes
<1>4. \A o \in Pid : Booked(o)' <=> Booked(o)
  BY <1>2 DEF Booked
<1>5. \A i \in 1 .. Len(toOss') :
        (toOss'[i].pid = p /\ ~Over) \/ (i \in 1 .. Len(toOss) /\ toOss'[i] = toOss[i])
  <2>1. CASE Over
    BY <1>1, <2>1 DEF send, Traffic, QueueIsUp
  <2>2. CASE ~Over
    <3> DEFINE m == [pid |-> p, slot |-> slotOf[p], terminate |-> b, page |-> pg]
    <3>1. toOss' = Append(toOss, m)
      BY <1>1, <2>2 DEF send, Traffic, QueueIsUp
    <3>2. m.pid = p /\ m \in Message
      BY MessageType
    <3> HIDE DEF m
    <3> QED BY <1>3, <2>2, <3>1, <3>2
  <2> QED BY <2>1, <2>2
<1>6. ~Over => Booked(p)
  BY <1>2 DEF Bookings, RunningBooked, Running
<1>7. SendersBooked'
  BY <1>2, <1>4, <1>5, <1>6, BookingTypes DEF Bookings, SendersBooked, InHand
<1>8. RunningBooked'
  BY <1>1, <1>2, <1>3, <1>4 DEF Bookings, RunningBooked, Over, Running
<1>9. OwnBooking'
  <2>1. \A o \in Pid : user[o] # "unborn" => user'[o] # "unborn"
    BY <1>1, <1>3
  <2> QED BY <1>2, <2>1, BookingTypes DEF Bookings, OwnBooking
<1>10. PendingBooking'
  BY <1>2 DEF Bookings, PendingBooking
<1> QED BY <1>7, <1>8, <1>9, <1>10 DEF Bookings

LEMMA AnswerKeepsBookings ==
  ASSUME Types, Traffic, Bookings, NEW p \in Pid, Answered(p)
  PROVE  Bookings'
<1>1. /\ user[p] = "waiting" /\ toUser[p] # << >>
      /\ user' = [user EXCEPT ![p] = "ready"]
      /\ \A o \in Pid \ {p} : toUser'[o] = toUser[o]
      /\ UNCHANGED <<pc, message, childpid, pctLocation, bitVector, toOss, slotOf>>
  BY TrafficTypes DEF Answered, ossVars, launchVars, memoryVars
<1>2. \A o \in Pid : Booked(o)' <=> Booked(o)
  BY <1>1 DEF Booked
<1>3. \A o \in Pid : /\ user[o] # "unborn" => user'[o] # "unborn"
                     /\ user'[o] \in Running => user[o] \in Running
  BY <1>1, BookingTypes DEF Running
<1>4. OwnBooking' /\ PendingBooking'
  BY <1>1, <1>3, BookingTypes DEF Bookings, OwnBooking, PendingBooking
<1>5. SendersBooked' /\ RunningBooked'
  BY <1>1, <1>2, <1>3, BookingTypes DEF Bookings, SendersBooked, RunningBooked, InHand, Over
<1> QED BY <1>4, <1>5 DEF Bookings

LEMMA BookingsKept ==
  /\ "book" \notin AlarmAt
  /\ Types /\ Births /\ Traffic /\ Bookings /\ [Next]_vars
  => Bookings'
<1> SUFFICES ASSUME "book" \notin AlarmAt, Types, Births, Traffic, Bookings, [Next]_vars
             PROVE  Bookings'
  OBVIOUS
<1>1. /\ user \in [Pid -> UserState] /\ toOss \in Seq(Message) /\ Len(toOss) \in Nat
      /\ toUser \in [Pid -> Seq(Message)] /\ message.pid \in Pid
      /\ \A i \in 1 .. Len(toOss) : toOss[i].pid \in Pid
  BY TrafficTypes
<1>2. CASE Fork
  BY <1>2, ForkKeepsBookings
<1>3. CASE Book
  BY <1>3, BookKeepsBookings
<1>4. CASE HandleTermination
  BY <1>4, TerminationKeepsBookings
<1>5. CASE Break \/ NoLaunch \/ HandleRequest \/ Reap \/ Alarm \/ Ended \/ UNCHANGED vars
  <2>1. UNCHANGED bitVector
    BY <1>5 DEF Break, NoLaunch, HandleRequest, Reap, Alarm, Ended, vars, memoryVars, Mem!Access,
                Mem!Hit, Mem!Place, Mem!Replace, Mem!Skip, Mem!vars
  <2>2. /\ UNCHANGED <<slotOf, toOss, toUser, message, childpid, pctLocation>>
        /\ InHand' => InHand
        /\ Over => Over'
        /\ pc' = "book" => pc = "book"
        /\ pc = "book" => pc' = "book"
        /\ UNCHANGED user \/ \E p \in Pid : UserMove(p, {"zombie"}, "reaped")
    BY <1>5, SignalAssumption
    DEF Break, NoLaunch, HandleRequest, Reap, wait, UserMove, Alarm, Ended, vars, ossVars,
        launchVars, queueVars, userVars, Over, InHand, Point
  <2>3. \A p \in Pid : /\ user'[p] \in Running => user[p] \in Running
                       /\ user[p] # "unborn" => user'[p] # "unborn"
    BY <1>1, <2>2 DEF Running, UserMove
  <2> QED BY <2>1, <2>2, <2>3, QuietKeepsBookings
<1>6. CASE \E p \in Pid : Connect(p) \/ QueueGone(p) \/ Exit(p) \/ InterruptUser(p)
  <2>1. PICK p \in Pid : Connect(p) \/ QueueGone(p) \/ Exit(p) \/ InterruptUser(p)
    BY <1>6
  <2>2. UNCHANGED <<bitVector, slotOf, toOss, toUser, message, pc, childpid, pctLocation>>
    BY <2>1 DEF Connect, QueueGone, Exit, InterruptUser, memoryVars, ossVars, launchVars, queueVars
  <2>3. \/ UserMove(p, {"boot"}, "ready")
        \/ UserMove(p, {"boot"}, "stranded")
        \/ UserMove(p, {"exiting", "boot", "ready", "waiting", "stranded"}, "zombie")
    BY <2>1 DEF Connect, QueueGone, Exit, InterruptUser, UserMove
  <2>4. \A o \in Pid : /\ user'[o] \in Running => user[o] \in Running
                       /\ user[o] # "unborn" => user'[o] # "unborn"
    BY <1>1, <2>3 DEF Running, UserMove
  <2> QED BY <2>2, <2>4, QuietKeepsBookings DEF Over, InHand
<1>7. CASE Receive
  <2>1. /\ pc = "recv" /\ pc' = "handle" /\ message' = Head(toOss) /\ toOss' = Tail(toOss)
        /\ toOss # << >> /\ UNCHANGED <<toUser, user, slotOf, bitVector>>
    BY <1>7 DEF Receive, userVars, memoryVars
  <2>2. /\ message' = toOss[1] /\ 1 \in 1 .. Len(toOss)
        /\ \A i \in 1 .. Len(toOss') : i + 1 \in 1 .. Len(toOss) /\ toOss'[i] = toOss[i + 1]
    BY <1>1, <2>1
  <2>3. \A i \in 1 .. Len(toOss') : toOss'[i].pid \in Pid /\ Booked(toOss'[i].pid)
    BY <1>1, <2>2 DEF Bookings, SendersBooked
  <2>4. message'.pid \in Pid /\ Booked(message'.pid)
    BY <1>1, <2>2 DEF Bookings, SendersBooked
  <2> QED BY <2>1, <2>3, <2>4, MovingKeepsBookings DEF Bookings, SendersBooked, Over
<1>8. CASE Reply
  <2>1. /\ pc = "reply" /\ pc' = "top" /\ UNCHANGED <<message, toOss, user, slotOf, bitVector>>
        /\ toUser' = [toUser EXCEPT ![message.pid] = Append(@, message)]
    BY <1>8 DEF Reply, userVars, memoryVars
  <2>2. \A p \in Pid : toUser'[p] # << >> => Booked(p)
    BY <1>1, <2>1 DEF Bookings, SendersBooked, InHand
  <2> QED BY <1>1, <2>1, <2>2, MovingKeepsBookings DEF Bookings, SendersBooked, Over, InHand
<1>9. CASE \E p \in Pid : Ask(p) \/ Quit(p)
  BY <1>9, SendKeepsBookings
<1>10. CASE \E p \in Pid : Answered(p)
  BY <1>10, AnswerKeepsBookings
<1>11. CASE Finish \/ InterruptOss
  <2>1. /\ pc' = "done" /\ toOss' = << >> /\ toUser' = [p \in Pid |-> << >>]
        /\ UNCHANGED <<bitVector, slotOf>>
    BY <1>11 DEF Finish, InterruptOss, cleanUp, userVars
  <2>2. UNCHANGED user \/ \E p \in Pid : UserMove(p, {"zombie"}, "reaped")
    BY <1>11 DEF Finish, InterruptOss, wait, userVars, UserMove
  <2>3. \A o \in Pid : user[o] # "unborn" => user'[o] # "unborn"
    BY <1>1, <2>2 DEF UserMove
  <2> QED BY <2>1, <2>3, BookingTypes DEF Bookings, OwnBooking, PendingBooking, SendersBooked,
                                          RunningBooked, Over, InHand
<1> QED BY <1>2, <1>3, <1>4, <1>5, <1>6, <1>7, <1>8, <1>9, <1>10, <1>11 DEF Next, OssStep, UserStep

LEMMA InitBookings == Init => Bookings
  BY DEF Init, Mem!Init, Bookings, OwnBooking, PendingBooking, SendersBooked, RunningBooked, InHand,
         Running, Slot

LEMMA AlwaysBooked == ASSUME "book" \notin AlarmAt PROVE Spec => []Bookings
<1>1. Types /\ Births /\ Traffic /\ Bookings /\ [Next]_vars => Bookings'
  BY BookingsKept
<1> QED BY <1>1, InitBookings, AlwaysTraffic, PTL DEF Spec

\* OSS indexes page tables, bit vector and frames with the slot a message names.
\* It is the slot of the message's sender whenever a message is handled, although a
\* child may send before OSS has booked its slot, and although slots are given up
\* and booked again while messages wait: unless the alarm strikes between fork and
\* booking.
THEOREM SlotOfSender == ASSUME "book" \notin AlarmAt PROVE Spec => []SlotIsSenders
<1>1. Traffic /\ Bookings => SlotIsSenders
  BY DEF Traffic, Sent, SentBy, InHand, Bookings, SendersBooked, Booked, SlotIsSenders
<1> QED BY <1>1, AlwaysTraffic, AlwaysBooked, PTL

-----------------------------------------------------------------------------
(* OSS's count, its bit vector and the kernel's list of its children *)

used == {s \in Slot : bitVector[s] # 0}

\* A child more than there are slots in use is one that is about to be booked, or
\* about to be waited for.
Counts ==
  ~interrupted =>
    /\ currentLaunched = Cardinality(used) + (IF pc = "reap" THEN 1 ELSE 0)
    /\ Cardinality(children) = Cardinality(used) + (IF pc \in {"book", "reap"} THEN 1 ELSE 0)

Closing ==
  /\ interrupted => Over
  /\ pc \in {"final", "done"} /\ ~interrupted =>
       (stopLaunching \/ totalLaunched = MaxLaunch) /\ used = {}

LEMMA SetsAreFinite ==
  /\ IsFiniteSet(used) /\ IsFiniteSet(children) /\ IsFiniteSet(born)
  /\ Cardinality(used) \in Nat /\ Cardinality(children) \in Nat
<1>1. IsFiniteSet(Slot)
  BY SlotNumbers, MemoryAssumption, FS_Interval
<1>2. used \subseteq Slot /\ children \subseteq Pid /\ born \subseteq Pid
  BY DEF used, children, born
<1> QED BY <1>1, <1>2, PidIsFinite, FS_Subset, FS_CardinalityType

\* No step but a fork or a wait changes the list of children.
LEMMA ChildrenSteps ==
  ASSUME Types, [Next]_vars, ~Fork, ~(Reap \/ Finish)
  PROVE  children' = children
<1>1. user \in [Pid -> UserState]
  BY DEF Types
<1>2. CASE OssStep \/ Alarm \/ InterruptOss \/ Ended \/ UNCHANGED vars
  <2>1. UNCHANGED user
    BY <1>2 DEF OssStep, Break, Book, NoLaunch, Receive, HandleRequest, Reply, HandleTermination,
                Alarm, InterruptOss, Ended, vars, userVars
  <2> QED BY <2>1 DEF children
<1>3. CASE \E p \in Pid : UserStep(p) \/ InterruptUser(p)
  <2>1. \E p \in Pid : \E x \in UserState \ {"unborn", "reaped"} :
          UserMove(p, UserState \ {"unborn", "reaped"}, x)
    BY <1>3 DEF UserStep, InterruptUser, Connect, Ask, Answered, QueueGone, Quit, Exit, UserMove,
                UserState
  <2>2. \A p \in Pid : user'[p] \in {"unborn", "reaped"} <=> user[p] \in {"unborn", "reaped"}
    BY <1>1, <2>1 DEF UserMove
  <2> QED BY <2>2 DEF children
<1> QED BY <1>2, <1>3 DEF Next

\* A running child has a slot of its own, so that a child more than there are slots
\* in use has stopped running.
LEMMA SomeChildStopped ==
  ASSUME Types, Traffic, Bookings, Counts, Closing, pc = "reap"
  PROVE  \E p \in Pid : user[p] \in {"exiting", "zombie"}
<1> SUFFICES ASSUME \A p \in Pid : user[p] \notin {"exiting", "zombie"} PROVE FALSE
  OBVIOUS
<1>1. ~Over /\ ~interrupted
  BY DEF Over, Closing
<1>2. \A p \in children : p \in Pid /\ user[p] \in Running
  BY <1>1 DEF children, Types, UserState, Running, Traffic, QueueIsUp
<1>3. \A p \in children : bitVector[slotOf[p]] = p /\ slotOf[p] \in Slot /\ p # 0
  BY <1>1, <1>2, BookingTypes DEF Bookings, RunningBooked, Booked
<1> DEFINE f == [p \in children |-> slotOf[p]]
<1>4. f \in [children -> used]
  BY <1>3 DEF used
<1>5. Cardinality(used) < Cardinality(children)
  BY <1>1, SetsAreFinite DEF Counts
<1>6. \E p, o \in children : p # o /\ f[p] = f[o]
  <2> HIDE DEF f
  <2> QED BY <1>4, <1>5, SetsAreFinite, FS_PigeonHole
<1> QED BY <1>3, <1>6

LEMMA ForkKeepsCounts ==
  ASSUME Types, Births, Bookings, Counts, Fork
  PROVE  Counts'
<1>1. /\ nextPid \in Pid /\ user[nextPid] = "unborn" /\ user' = [user EXCEPT ![nextPid] = "boot"]
      /\ pc = "top" /\ pc' = "book" /\ UNCHANGED <<bitVector, currentLaunched, interrupted>>
  BY NextChild DEF Fork, signalVars
<1>2. children' = children \cup {nextPid} /\ nextPid \notin children
  BY <1>1, BookingTypes DEF children
<1>3. Cardinality(children') = Cardinality(children) + 1
  BY <1>2, SetsAreFinite, FS_AddElement
<1>4. used' = used
  BY <1>1 DEF used
<1> QED BY <1>1, <1>3, <1>4, SetsAreFinite DEF Counts

LEMMA BookKeepsCounts ==
  ASSUME Types, Bookings, Counts, Book, [Next]_vars
  PROVE  Counts'
<1>1. /\ pc = "book" /\ pc' = "recv" /\ bitVector' = [bitVector EXCEPT ![pctLocation] = childpid]
      /\ currentLaunched' = currentLaunched + 1 /\ UNCHANGED <<user, interrupted>>
  BY DEF Book, userVars, signalVars
<1>2. used' = used \cup {pctLocation} /\ pctLocation \notin used
  BY <1>1, BookingTypes DEF used, Bookings, PendingBooking
<1>3. Cardinality(used') = Cardinality(used) + 1
  BY <1>2, SetsAreFinite, FS_AddElement
<1>4. children' = children
  BY <1>1 DEF children
<1> QED BY <1>1, <1>3, <1>4, SetsAreFinite DEF Counts, Types

LEMMA TerminationKeepsCounts ==
  ASSUME Types, Traffic, Bookings, Counts, HandleTermination
  PROVE  Counts'
<1>1. /\ pc = "handle" /\ pc' = "reap" /\ bitVector' = [bitVector EXCEPT ![message.slot] = 0]
      /\ UNCHANGED <<user, currentLaunched, interrupted>>
  BY DEF HandleTermination, Mem!Terminate, launchVars, userVars, signalVars
<1>2. message.slot \in Slot /\ bitVector[message.slot] = message.pid
  BY <1>1, BookingTypes DEF Traffic, Sent, SentBy, InHand, Bookings, SendersBooked, Booked
<1>3. used' = used \ {message.slot} /\ message.slot \in used
  BY <1>1, <1>2, BookingTypes DEF used
<1>4. Cardinality(used') = Cardinality(used) - 1
  BY <1>3, SetsAreFinite, FS_RemoveElement
<1>5. children' = children
  BY <1>1 DEF children
<1> QED BY <1>1, <1>4, <1>5, SetsAreFinite DEF Counts

LEMMA ReapKeepsCounts ==
  ASSUME Types, Counts, Closing, Reap
  PROVE  Counts'
<1>1. /\ pc = "reap" /\ pc' = "top" /\ wait /\ currentLaunched' = currentLaunched - 1
      /\ UNCHANGED <<bitVector, interrupted>> /\ ~interrupted
  BY DEF Reap, memoryVars, signalVars, Closing, Over
<1>2. used' = used
  BY <1>1 DEF used
<1>3. children # {}
  BY <1>1, SetsAreFinite, FS_EmptySet DEF Counts
<1>4. PICK p \in Pid : user[p] = "zombie" /\ user' = [user EXCEPT ![p] = "reaped"]
  BY <1>1, <1>3 DEF wait
<1>5. children' = children \ {p} /\ p \in children
  BY <1>4, BookingTypes DEF children
<1>6. Cardinality(children') = Cardinality(children) - 1
  BY <1>5, SetsAreFinite, FS_RemoveElement
<1> QED BY <1>1, <1>2, <1>6, SetsAreFinite DEF Counts

\* When OSS has left its loop no process is its child any more.
LEMMA NoChildLeft ==
  ASSUME Types, Counts, Closing, pc \in {"final", "done"}, ~interrupted
  PROVE  children = {} /\ used = {}
<1>1. used = {}
  BY DEF Closing
<1>2. Cardinality(children) = 0
  BY <1>1, FS_EmptySet DEF Counts
<1> QED BY <1>1, <1>2, SetsAreFinite, FS_EmptySet

LEMMA FinishKeepsUsers ==
  ASSUME Types, Counts, Closing, Finish
  PROVE  UNCHANGED <<user, bitVector, currentLaunched, interrupted, stopLaunching, totalLaunched>>
<1>1. pc = "final" /\ wait /\ UNCHANGED <<bitVector, launchVars, signalVars>>
  BY DEF Finish, cleanUp
<1>2. CASE interrupted
  BY <1>1, <1>2 DEF Closing, Over
<1>3. CASE ~interrupted
  <2>1. children = {}
    BY <1>1, <1>3, NoChildLeft
  <2>2. UNCHANGED user
    BY <1>1, <2>1 DEF wait, children
  <2> QED BY <1>1, <2>2 DEF launchVars, signalVars
<1> QED BY <1>2, <1>3

LEMMA CountsKept ==
  /\ AlarmAt \cap {"book", "reap"} = {}
  /\ Types /\ Births /\ Traffic /\ Bookings /\ Counts /\ Closing /\ [Next]_vars
  => Counts' /\ Closing'
<1> SUFFICES ASSUME AlarmAt \cap {"book", "reap"} = {},
                    Types, Births, Traffic, Bookings, Counts, Closing, [Next]_vars
             PROVE  Counts' /\ Closing'
  OBVIOUS
<1>1. CASE Fork
  BY <1>1, ForkKeepsCounts DEF Fork, signalVars, Closing, Over
<1>2. CASE Book
  BY <1>2, BookKeepsCounts DEF Book, signalVars, Closing, Over
<1>3. CASE HandleTermination
  BY <1>3, TerminationKeepsCounts DEF HandleTermination, signalVars, Closing, Over
<1>4. CASE Reap
  BY <1>4, ReapKeepsCounts DEF Reap, signalVars, Closing, Over
<1>5. CASE Finish
  <2>1. UNCHANGED <<user, bitVector, currentLaunched, interrupted, stopLaunching, totalLaunched>>
    BY <1>5, FinishKeepsUsers
  <2>2. pc = "final" /\ pc' = "done" /\ UNCHANGED <<used, children>>
    BY <1>5, <2>1 DEF Finish, used, children
  <2> QED BY <2>1, <2>2 DEF Counts, Closing, Over
<1>6. CASE InterruptOss
  BY <1>6 DEF InterruptOss, Counts, Closing, Over
<1>7. CASE Break
  <2>1. /\ pc = "top" /\ pc' = "final" /\ noMoreLaunching /\ currentLaunched = 0
        /\ UNCHANGED <<user, bitVector, currentLaunched, interrupted, stopLaunching, totalLaunched>>
    BY <1>7 DEF Break, memoryVars, launchVars, signalVars, userVars
  <2>2. UNCHANGED <<used, children>>
    BY <2>1 DEF used, children
  <2>3. ~interrupted
    BY <2>1 DEF Closing, Over
  <2>4. used = {}
    BY <2>1, <2>3, SetsAreFinite, FS_EmptySet DEF Counts
  <2>5. stopLaunching \/ totalLaunched = MaxLaunch
    BY <2>1, LaunchedIsNat, LaunchAssumption DEF noMoreLaunching, Births, Types
  <2> QED BY <2>1, <2>2, <2>3, <2>4, <2>5 DEF Counts, Closing, Over
<1>8. CASE \/ NoLaunch \/ HandleRequest \/ Receive \/ Reply \/ Alarm \/ Ended \/ UNCHANGED vars
           \/ \E p \in Pid : UserStep(p) \/ InterruptUser(p)
  <2>1. children' = children
    BY <1>8, ChildrenSteps DEF NoLaunch, HandleRequest, Receive, Reply, Alarm, Ended, UserStep,
                               InterruptUser, Connect, Ask, Answered, QueueGone, Quit, Exit, Fork,
                               Reap, Finish, ossVars, vars
  <2>2. UNCHANGED bitVector
    BY <1>8 DEF NoLaunch, HandleRequest, Receive, Reply, Alarm, Ended, UserStep, InterruptUser,
                Connect, Ask, Answered, QueueGone, Quit, Exit, Mem!Access, Mem!Hit, Mem!Place,
                Mem!Replace, Mem!Skip, Mem!vars, vars, memoryVars
  <2>3. UNCHANGED <<currentLaunched, totalLaunched, interrupted>>
    BY <1>8 DEF NoLaunch, HandleRequest, Receive, Reply, Alarm, Ended, UserStep, InterruptUser,
                Connect, Ask, Answered, QueueGone, Quit, Exit, vars, ossVars, launchVars, signalVars
  <2>4. \/ UNCHANGED <<pc, stopLaunching>>
        \/ /\ pc \notin {"book", "reap", "done"} /\ pc' \notin {"book", "reap", "final", "done"}
    BY <1>8, SignalAssumption
    DEF NoLaunch, HandleRequest, Receive, Reply, Alarm, Ended, UserStep, InterruptUser, Point,
        Connect, Ask, Answered, QueueGone, Quit, Exit, vars, ossVars, launchVars, signalVars
  <2>5. used' = used
    BY <2>2 DEF used
  <2> QED BY <2>1, <2>3, <2>4, <2>5 DEF Counts, Closing, Over
<1> QED BY <1>1, <1>2, <1>3, <1>4, <1>5, <1>6, <1>7, <1>8 DEF Next, OssStep

LEMMA InitCounts == Init => Counts /\ Closing
<1> SUFFICES ASSUME Init PROVE Counts /\ Closing
  OBVIOUS
<1>1. used = {} /\ children = {}
  BY DEF Init, Mem!Init, used, children, Slot
<1> QED BY <1>1, FS_EmptySet DEF Init, Counts, Closing

LEMMA AlwaysCounted ==
  ASSUME AlarmAt \cap {"book", "reap"} = {} PROVE Spec => [](Bookings /\ Counts /\ Closing)
<1>1. "book" \notin AlarmAt
  OBVIOUS
<1>2. Types /\ Births /\ Traffic /\ Bookings /\ Counts /\ Closing /\ [Next]_vars
      => Counts' /\ Closing'
  BY CountsKept
<1>3. Spec => []Bookings
  BY <1>1, AlwaysBooked
<1> QED BY <1>2, <1>3, InitCounts, AlwaysTraffic, PTL DEF Spec

\* currentLaunched, by which OSS decides whether to go on, is the number of slots in
\* use, although a fork, its booking, a termination and the wait for it are steps
\* apart, and any child may exit or be interrupted in between.  The alarm must not
\* strike between the two halves of a launch or of a termination.
THEOREM CountsMatch ==
  ASSUME AlarmAt \cap {"book", "reap"} = {} PROVE Spec => []CountMatches
<1>1. Counts /\ Types => CountMatches
  BY SetsAreFinite DEF Counts, CountMatches, used, Types
<1> QED BY <1>1, AlwaysCounted, AlwaysTraffic, PTL

\* The wait() of a termination never waits for a child that waits for OSS: a child
\* has exited or is about to, be it another one than the one that terminated.
THEOREM ReapFinds ==
  ASSUME AlarmAt \cap {"book", "reap"} = {} PROVE Spec => []ReapFindsChild
<1>1. Types /\ Traffic /\ Bookings /\ Counts /\ Closing => ReapFindsChild
  BY SomeChildStopped DEF ReapFindsChild
<1> QED BY <1>1, AlwaysCounted, AlwaysTraffic, PTL

-----------------------------------------------------------------------------
(* OSS's part of the memory is FrameTable *)

booked == IF pc = "book" THEN [bitVector EXCEPT ![pctLocation] = childpid] ELSE bitVector

\* What is proved about FrameTable, for the memory of this system.
Tables == INSTANCE FrameTable_proofs WITH bitVector <- booked

LEMMA TableSlots == Table!Slot = Slot /\ Mem!Slot = Slot /\ Tables!Slot = Slot
  BY DEF Table!Slot, Tables!Slot, Slot, Mem!Slot

LEMMA ForkLaunches ==
  ASSUME Types, Births, Bookings, Fork
  PROVE  \E s \in Slot, p \in Pid : (\A t \in Slot : booked[t] # p) /\ Table!Launch(s, p)
<1> DEFINE c == nextPid
           s == Min(Mem!freeSlots)
<1>1. /\ c \in Pid /\ user[c] = "unborn" /\ s \in Slot
      /\ pc = "top" /\ pc' = "book" /\ pctLocation' = s /\ childpid' = c
      /\ pageTable' = [pageTable EXCEPT ![s] = Mem!NoPages]
      /\ UNCHANGED <<bitVector, frameTable, qFrame, replaced>> /\ Mem!freeSlots # {}
  BY NextChild, FirstFreeSlot DEF Fork, Mem!initPCB
<1>2. booked = bitVector /\ booked' = [bitVector EXCEPT ![pctLocation'] = childpid']
  BY <1>1 DEF booked
<1>3. \A t \in Slot : booked[t] # c
  <2> HIDE DEF c
  <2> QED BY <1>1, <1>2, BookingTypes DEF Bookings, OwnBooking
<1>4. Table!freeSlots = Mem!freeSlots
  BY <1>1 DEF Table!freeSlots, Mem!freeSlots, Table!Slot, Mem!Slot
<1>5. s = Table!Min(Table!freeSlots)
  BY <1>4 DEF Table!Min, Min
<1>6. Table!initPCB(s)
  BY <1>1 DEF Table!initPCB, Table!NoPages, Mem!NoPages
<1> HIDE DEF c, s
<1>7. Table!Launch(s, c)
  BY <1>1, <1>2, <1>4, <1>5, <1>6 DEF Table!Launch, booked
<1> QED BY <1>1, <1>3, <1>7

LEMMA RequestAccesses ==
  ASSUME Types, Traffic, Bookings, HandleRequest
  PROVE  \E s \in Slot, pg \in Page : booked[s] # 0 /\ Table!Access(s, booked[s], pg)
<1>1. /\ pc = "handle" /\ pc' = "reply" /\ Mem!Access(message.slot, message.pid, message.page)
  BY DEF HandleRequest
<1>2. booked = bitVector /\ booked' = bitVector'
  BY <1>1 DEF booked
<1>3. /\ message.slot \in Slot /\ bitVector[message.slot] = message.pid /\ message.pid # 0
  BY <1>1, BookingTypes DEF Traffic, Sent, SentBy, InHand, Bookings, SendersBooked, Booked
<1>4. message.page \in Page
  BY DEF Types, Message
<1>5. Table!Access(message.slot, message.pid, message.page)
  <2> DEFINE s == message.slot
             p == message.pid
             pg == message.page
  <2>1. /\ Table!freeFrames = Mem!freeFrames
        /\ Table!Min(Table!freeFrames) = Mem!Min(Mem!freeFrames)
        /\ Table!Holds(p, pg) = Mem!Holds(p, pg)
    BY DEF Mem!freeFrames, Table!freeFrames, Mem!Frame, Table!Frame, Mem!Min, Table!Min, Mem!Holds,
           Table!Holds
  <2>2. \A f : Table!Queue!Enqueued(Memory, qFrame, f) = Mem!Queue!Enqueued(Memory, qFrame, f)
    BY DEF Table!Queue!Enqueued, Mem!Queue!Enqueued
  <2>3. \A f : Table!victimSlot(f) = Mem!victimSlot(f)
    <3> DEFINE owningT(f) == {t \in Table!Slot : booked[t] = frameTable[f].pid}
               owningM(f) == {t \in Mem!Slot : bitVector[t] = frameTable[f].pid}
    <3>1. \A f : owningT(f) = owningM(f)
      BY <1>2, TableSlots
    <3>2. \A f : Table!victimSlot(f) = IF owningT(f) = {} THEN 0 ELSE Table!Min(owningT(f))
      BY DEF Table!victimSlot, booked
    <3>3. \A f : Mem!victimSlot(f) = IF owningM(f) = {} THEN 0 ELSE Mem!Min(owningM(f))
      BY DEF Mem!victimSlot
    <3>4. \A S : Table!Min(S) = Mem!Min(S)
      BY DEF Table!Min, Mem!Min
    <3> HIDE DEF owningT, owningM
    <3> QED BY <3>1, <3>2, <3>3, <3>4
  <2> SUFFICES Table!Access(s, p, pg)
    OBVIOUS
  <2> HIDE DEF s, p, pg
  <2>4. CASE Mem!Hit(s, pg)
    BY <1>2, <2>4 DEF Mem!Hit, Table!Access, Table!Hit, Mem!vars, Table!vars, booked
  <2>5. CASE Mem!Place(s, p, pg)
    BY <1>2, <2>1, <2>2, <2>5 DEF Mem!Place, Table!Access, Table!Place, booked
  <2>6. CASE Mem!Replace(s, p, pg)
    BY <1>2, <2>1, <2>3, <2>6 DEF Mem!Replace, Table!Access, Table!Replace, booked
  <2>7. CASE Mem!Skip(s, pg)
    BY <1>2, <2>1, <2>7 DEF Mem!Skip, Table!Access, Table!Skip, Mem!vars, Table!vars, booked
  <2>8. Mem!Access(s, p, pg)
    BY <1>1 DEF s, p, pg
  <2> QED BY <2>4, <2>5, <2>6, <2>7, <2>8 DEF Mem!Access, s, p, pg
<1> QED BY <1>2, <1>3, <1>4, <1>5

LEMMA TerminationTerminates ==
  ASSUME Types, Traffic, Bookings, HandleTermination
  PROVE  \E s \in Slot : booked[s] # 0 /\ Table!Terminate(s)
<1>1. pc = "handle" /\ pc' = "reap" /\ Mem!Terminate(message.slot)
  BY DEF HandleTermination
<1>2. booked = bitVector /\ booked' = bitVector'
  BY <1>1 DEF booked
<1>3. message.slot \in Slot /\ bitVector[message.slot] = message.pid /\ message.pid # 0
  BY <1>1, BookingTypes DEF Traffic, Sent, SentBy, InHand, Bookings, SendersBooked, Booked
<1>4. Table!Terminate(message.slot)
  BY <1>1, <1>2 DEF booked, Mem!Terminate, Mem!Frame, Mem!Empty, Mem!NoPages,
                    Table!Terminate, Table!Frame, Table!Empty, Table!NoPages
<1> QED BY <1>2, <1>3, <1>4

LEMMA StepsTable ==
  ASSUME "book" \notin AlarmAt, Types, Births, Traffic, Bookings, [Next]_vars,
         ~(Finish \/ InterruptOss)
  PROVE  [Table!Next]_tableVars
<1>1. CASE Fork
  BY <1>1, ForkLaunches, TableSlots DEF Table!Next, booked
<1>2. CASE HandleRequest
  BY <1>2, RequestAccesses, TableSlots DEF Table!Next, booked
<1>3. CASE HandleTermination
  BY <1>3, TerminationTerminates, TableSlots DEF Table!Next, booked
<1>4. CASE Book
  <2>1. booked' = booked /\ UNCHANGED <<pageTable, frameTable, qFrame, replaced>>
    BY <1>4 DEF Book, booked
  <2> QED BY <2>1 DEF tableVars, Table!vars, booked
<1>5. CASE \/ Break \/ NoLaunch \/ Receive \/ Reply \/ Reap \/ Alarm \/ Ended \/ UNCHANGED vars
           \/ \E p \in Pid : UserStep(p) \/ InterruptUser(p)
  <2>1. UNCHANGED memoryVars
    BY <1>5 DEF Break, NoLaunch, Receive, Reply, Reap, Alarm, Ended, UserStep, InterruptUser,
                Connect, Ask, Answered, QueueGone, Quit, Exit, vars
  <2>2. /\ UNCHANGED <<childpid, pctLocation>>
        /\ pc' = "book" <=> pc = "book"
    BY <1>5 DEF Break, NoLaunch, Receive, Reply, Reap, Alarm, Ended, UserStep, InterruptUser,
                Connect, Ask, Answered, QueueGone, Quit, Exit, vars, ossVars, launchVars
  <2>3. booked' = booked /\ UNCHANGED <<pageTable, frameTable, qFrame, replaced>>
    BY <2>1, <2>2 DEF booked, memoryVars
  <2> QED BY <2>3 DEF tableVars, Table!vars, booked
<1> QED BY <1>1, <1>2, <1>3, <1>4, <1>5 DEF Next, OssStep

LEMMA InitTable == Init => Table!Init
  BY DEF Init, Mem!Init, Table!Init, Mem!Slot, Table!Slot, Mem!NoPages, Table!NoPages,
         Mem!Frame, Table!Frame, Mem!Empty, Table!Empty

\* OSS treats its memory as FrameTable says, with any number of users that send at
\* any time: every access and every termination is for the slot of a process that
\* owns it, and a process is launched into a slot that is free and under an id that
\* no slot has.  The one other step is cleanUp at the end.  The alarm must not strike
\* between fork and booking: its child would send for a slot that is never booked.
\* Elsewhere it may lose a request, but strikes between the handlers, not in one.
THEOREM ImplementsTheFrameTable ==
  ASSUME "book" \notin AlarmAt PROVE Spec => ImplementsFrameTable
<1>1. Types /\ Births /\ Traffic /\ Bookings /\ [Next]_vars => [Table!Next \/ cleanUp]_tableVars
  <2>1. Finish \/ InterruptOss => cleanUp
    BY DEF Finish, InterruptOss
  <2> QED BY <2>1, StepsTable
<1>2. Spec => []Bookings
  BY AlwaysBooked
<1>3. Spec => Table!Init /\ [][Table!Next \/ cleanUp]_tableVars
  BY <1>1, <1>2, InitTable, AlwaysTraffic, PTL DEF Spec
<1> QED BY <1>3 DEF ImplementsFrameTable

LEMMA TablesAssumptions ==
  Tables!SlotsAssumption /\ Tables!MemoryAssumption /\ Tables!PageAssumption /\ Tables!PidAssumption
  BY MemoryAssumption, PidIsFinite DEF Tables!SlotsAssumption, Tables!MemoryAssumption,
     Tables!PageAssumption, Tables!PidAssumption

LEMMA SameTable ==
  /\ Table!Init => Tables!Init
  /\ [Table!Next]_tableVars => [Tables!Next]_(Tables!vars)
<1>1. Table!Init => Tables!Init
  BY DEF Table!Init, Tables!Init, Table!Slot, Tables!Slot, Table!NoPages, Tables!NoPages,
         Table!Frame, Tables!Frame, Table!Empty, Tables!Empty, booked
<1>2. Table!Next => Tables!Next
  BY DEF Table!Next, Table!Launch, Table!freeSlots, Table!initPCB, Table!Access, Table!Hit,
         Table!Place, Table!Replace, Table!Skip, Table!vars, Table!freeFrames, Table!Frame,
         Table!Holds, Table!Queue!Enqueued, Table!victimSlot, Table!Slot, Table!Min,
         Table!Terminate, Table!Empty, Table!NoPages,
         Tables!Next, Tables!Launch, Tables!freeSlots, Tables!initPCB, Tables!Access, Tables!Hit,
         Tables!Place, Tables!Replace, Tables!Skip, Tables!vars, Tables!freeFrames, Tables!Frame,
         Tables!Holds, Tables!Queue!Enqueued, Tables!victimSlot, Tables!Slot, Tables!Min,
         Tables!Terminate, Tables!Empty, Tables!NoPages, booked
<1>3. tableVars = Tables!vars
  BY DEF tableVars, Table!vars, Tables!vars, booked
<1>4. tableVars' = Tables!vars'
  BY DEF tableVars, Table!vars, Tables!vars, booked
<1> QED BY <1>1, <1>2, <1>3, <1>4

\* Until OSS is interrupted its memory is as FrameTable_proofs shows it to be.
TablesAgree == ~interrupted => Tables!TypeOK /\ Tables!Agreement

LEMMA InitAgrees == Init => TablesAgree
  BY InitTable, SameTable, TablesAssumptions, Tables!InitTypes, Tables!InitAgrees DEF TablesAgree

LEMMA TablesKept ==
  /\ "book" \notin AlarmAt
  /\ Types /\ Births /\ Traffic /\ Bookings /\ TablesAgree /\ [Next]_vars
  => TablesAgree'
<1> SUFFICES ASSUME "book" \notin AlarmAt, Types, Births, Traffic, Bookings, TablesAgree,
                    [Next]_vars, ~interrupted'
             PROVE  Tables!TypeOK' /\ Tables!Agreement'
  BY DEF TablesAgree
<1>1. ~interrupted
  BY DEF Next, OssStep, Break, Fork, Book, NoLaunch, Receive, HandleRequest, Reply,
         HandleTermination, Reap, Finish, Alarm, InterruptOss, Ended, UserStep, InterruptUser,
         Connect, Ask, Answered, QueueGone, Quit, Exit, vars, ossVars, signalVars
<1>2. Tables!TypeOK /\ Tables!Agreement
  BY <1>1 DEF TablesAgree
<1>3. CASE ~(Finish \/ InterruptOss)
  <2>1. [Tables!Next]_(Tables!vars)
    BY <1>3, StepsTable, SameTable
  <2> QED BY <1>2, <2>1, TablesAssumptions, Tables!TypesKept, Tables!NextPreserves
<1>4. CASE Finish
  <2>1. /\ booked' = booked /\ pageTable' = pageTable /\ frameTable' = frameTable
        /\ replaced' = replaced /\ qFrame' = << >>
    BY <1>4 DEF Finish, cleanUp, booked
  <2>2. qFrame' \in Seq(Tables!Frame) /\ Len(qFrame') <= Memory
    BY <2>1, MemoryAssumption
  <2>3. Tables!TypeOK'
    BY <1>2, <2>1, <2>2 DEF Tables!TypeOK
  <2>4. Tables!SlotsAreExclusive'
    BY <1>2, <2>1 DEF Tables!Agreement, Tables!SlotsAreExclusive
  <2>5. Tables!MappedPagesAreHeld'
    BY <1>2, <2>1 DEF Tables!Agreement, Tables!MappedPagesAreHeld
  <2>6. Tables!HeldPagesAreMapped'
    BY <1>2, <2>1 DEF Tables!Agreement, Tables!HeldPagesAreMapped
  <2>7. Tables!FreeSlotsMapNothing'
    BY <1>2, <2>1 DEF Tables!Agreement, Tables!FreeSlotsMapNothing
  <2> QED BY <2>3, <2>4, <2>5, <2>6, <2>7 DEF Tables!Agreement
<1>5. CASE InterruptOss
  BY <1>5 DEF InterruptOss
<1> QED BY <1>3, <1>4, <1>5

LEMMA NoFrameLeft ==
  ASSUME TablesAgree, ~interrupted, used = {}, pc # "book", ~replaced, NEW f \in Mem!Frame
  PROVE  ~frameTable[f].occupied
<1> SUFFICES ASSUME frameTable[f].occupied PROVE FALSE
  OBVIOUS
<1>1. f \in Tables!Frame
  BY DEF Tables!Frame, Mem!Frame
<1>2. PICK s \in Tables!Slot : booked[s] = frameTable[f].pid
  BY <1>1 DEF TablesAgree, Tables!Agreement, Tables!HeldPagesAreMapped, booked
<1>3. frameTable[f].pid # 0
  BY <1>1, TablesAssumptions, Tables!OccupiedFrame DEF TablesAgree
<1> QED BY <1>2, <1>3, TableSlots DEF used, booked

LEMMA EndsClean ==
  ASSUME Types, Traffic, Bookings, Counts, Closing, TablesAgree PROVE CleanExit
<1> SUFFICES ASSUME pc \in {"final", "done"}, ~interrupted
             PROVE  /\ stopLaunching \/ totalLaunched = MaxLaunch
                    /\ children = {}
                    /\ toOss = << >> /\ \A p \in Pid : toUser[p] = << >>
                    /\ ~replaced => \A f \in Mem!Frame : ~frameTable[f].occupied
  BY DEF CleanExit
<1>1. children = {} /\ used = {}
  BY NoChildLeft
<1>2. \A p \in Pid : ~Booked(p)
  BY <1>1, BookingTypes DEF Booked, used
<1>3. \A p \in Pid : toUser[p] = << >>
  BY <1>2 DEF Bookings, SendersBooked
<1>4. toOss = << >>
  <2>1. toOss \in Seq(Message) /\ \A i \in 1 .. Len(toOss) : FALSE
    BY <1>2, TrafficTypes DEF Bookings, SendersBooked
  <2>2. ~(Len(toOss) \in Nat \ {0})
    BY <2>1
  <2> QED BY <2>1, <2>2, EmptySeq
<1> QED BY <1>1, <1>3, <1>4, NoFrameLeft DEF Closing

\* When OSS leaves its loop of its own accord it leaves nothing behind: every user
\* it was to launch has been launched and reaped, no message is under way, and every
\* frame is free unless one was ever replaced.
THEOREM LeavesNothing ==
  ASSUME AlarmAt \cap {"book", "reap"} = {} PROVE Spec => []CleanExit
<1>1. Types /\ Births /\ Traffic /\ Bookings /\ TablesAgree /\ [Next]_vars => TablesAgree'
  BY TablesKept
<1>2. Types /\ Traffic /\ Bookings /\ Counts /\ Closing /\ TablesAgree => CleanExit
  BY EndsClean
<1> QED BY <1>1, <1>2, InitAgrees, AlwaysCounted, AlwaysTraffic, PTL DEF Spec

-----------------------------------------------------------------------------
(* Whose requests are open *)

\* What requesters computes, message by message.
Collects(f, ms) ==
  \A n \in 0 .. Len(ms) :
    f[n] = IF n = 0 THEN << >>
           ELSE IF ms[n].terminate THEN f[n - 1] ELSE Append(f[n - 1], ms[n].pid)

LEMMA PidsOfMessages ==
  ASSUME NEW ms \in Seq(Message)
  PROVE  Len(ms) \in Nat /\ \A i \in 1 .. Len(ms) : ms[i].pid \in Pid
<1>1. \A m \in Message : m.pid \in Pid
  BY DEF Message
<1>2. Len(ms) \in Nat /\ \A i \in 1 .. Len(ms) : ms[i] \in Message
  OBVIOUS
<1> QED BY <1>1, <1>2

LEMMA RequestersCollect ==
  ASSUME NEW ms \in Seq(Message)
  PROVE  \E f : Collects(f, ms) /\ requesters(ms) = f[Len(ms)]
<1> DEFINE V == Seq(Pid)
           goes(m, s) == IF m + 1 \in 1 .. Len(ms) /\ ~ms[m + 1].terminate
                         THEN Append(s, ms[m + 1].pid) ELSE s
           h == [m \in Nat |-> [s \in V |-> goes(m, s)]]
<1>1. Len(ms) \in Nat /\ \A i \in 1 .. Len(ms) : ms[i].pid \in Pid
  BY PidsOfMessages
<1>2. ASSUME NEW m \in Nat, NEW s \in V PROVE goes(m, s) \in V
  BY <1>1
<1>3. h \in Steps(V)
  <2> HIDE DEF V, goes
  <2> QED BY <1>2 DEF Steps
<1>4. PICK k : k = h
  OBVIOUS
<1>5. k \in Steps(V) /\ \A m \in Nat, s \in V : k[m][s] = goes(m, s)
  BY <1>3, <1>4
<1>6. << >> \in V
  OBVIOUS
<1> HIDE DEF h, V
<1>7. Iterates(V, << >>, k, Len(ms))
  BY <1>1, <1>5, <1>6, Recursion
<1>8. PICK g \in [0 .. Len(ms) -> V] :
        \A m \in 0 .. Len(ms) : g[m] = IF m = 0 THEN << >> ELSE k[m - 1][g[m - 1]]
  BY <1>7 DEF Iterates
<1> DEFINE next(f, n) == IF n = 0 THEN << >>
                         ELSE IF ms[n].terminate THEN f[n - 1] ELSE Append(f[n - 1], ms[n].pid)
<1>9. ASSUME NEW n \in 0 .. Len(ms) PROVE g[n] = next(g, n)
  <2>1. CASE n = 0
    BY <1>8, <2>1
  <2>2. CASE n # 0
    <3>1. n - 1 \in Nat /\ n - 1 \in 0 .. Len(ms) /\ (n - 1) + 1 = n /\ n \in 1 .. Len(ms)
      BY <1>1, <2>2
    <3>2. g[n] = k[n - 1][g[n - 1]] /\ g[n - 1] \in V
      BY <1>8, <2>2, <3>1
    <3>3. g[n] = goes(n - 1, g[n - 1])
      BY <1>5, <3>1, <3>2
    <3> QED BY <2>2, <3>1, <3>3
  <2> QED BY <2>1, <2>2
<1>10. g = [n \in 0 .. Len(ms) |-> next(g, n)]
  BY <1>8, <1>9
<1> DEFINE all == CHOOSE f : f = [n \in 0 .. Len(ms) |-> next(f, n)]
<1>11. all = [n \in 0 .. Len(ms) |-> next(all, n)]
  <2> HIDE DEF next
  <2> QED BY <1>10
<1>12. requesters(ms) = all[Len(ms)]
  BY DEF requesters
<1> HIDE DEF all
<1>13. Collects(all, ms)
  BY <1>11 DEF Collects
<1> QED BY <1>12, <1>13

\* Messages that contain ms after the first d have the same requests from there on.
Contains(longer, ms, d) ==
  Len(ms) + d <= Len(longer) /\ \A i \in 1 .. Len(ms) : longer[i + d] = ms[i]

Continues(g, f, n, d) == f[n] \in Seq(Pid) /\ g[n + d] = g[d] \o f[n]

LEMMA CollectsAgree ==
  ASSUME NEW ms \in Seq(Message), NEW longer \in Seq(Message), NEW d \in Nat,
         Contains(longer, ms, d),
         NEW f, Collects(f, ms), NEW g, Collects(g, longer), g[d] \in Seq(Pid)
  PROVE  Continues(g, f, Len(ms), d)
<1> DEFINE P == {n \in Nat : n <= Len(ms) => Continues(g, f, n, d)}
<1>1. Len(ms) \in Nat /\ Len(longer) \in Nat /\ \A i \in 1 .. Len(ms) : ms[i].pid \in Pid
  BY PidsOfMessages
<1>2. Continues(g, f, 0, d)
  <2>1. f[0] = << >> /\ 0 + d = d
    BY <1>1 DEF Collects
  <2>2. g[d] \o << >> = g[d] /\ << >> \in Seq(Pid)
    BY ConcatEmptySeq
  <2> QED BY <2>1, <2>2 DEF Continues
<1>3. ASSUME NEW n \in Nat, n + 1 <= Len(ms), Continues(g, f, n, d) PROVE Continues(g, f, n + 1, d)
  <2>1. f[n] \in Seq(Pid) /\ g[n + d] = g[d] \o f[n]
    BY <1>3 DEF Continues
  <2>2. /\ n + 1 \in 1 .. Len(ms) /\ n + 1 + d \in 0 .. Len(longer) /\ n + 1 + d # 0
        /\ (n + 1) - 1 = n /\ (n + 1 + d) - 1 = n + d
    BY <1>1, <1>3 DEF Contains
  <2>3. longer[n + 1 + d] = ms[n + 1] /\ ms[n + 1].pid \in Pid
    BY <1>1, <2>2 DEF Contains
  <2>4. f[n + 1] = IF ms[n + 1].terminate THEN f[n] ELSE Append(f[n], ms[n + 1].pid)
    BY <2>2 DEF Collects
  <2>5. g[n + 1 + d] = IF ms[n + 1].terminate THEN g[n + d]
                       ELSE Append(g[n + d], ms[n + 1].pid)
    BY <2>2, <2>3 DEF Collects
  <2>6. CASE ms[n + 1].terminate
    BY <2>1, <2>4, <2>5, <2>6 DEF Continues
  <2>7. CASE ~ms[n + 1].terminate
    <3>1. PICK p \in Pid : p = ms[n + 1].pid
      BY <2>3
    <3>2. Append(g[d] \o f[n], p) = g[d] \o Append(f[n], p)
      <4>1. Append(f[n], p) = f[n] \o <<p>> /\ g[d] \o f[n] \in Seq(Pid) /\ <<p>> \in Seq(Pid)
        BY <2>1, AppendIsConcat, ConcatProperties
      <4>2. Append(g[d] \o f[n], p) = (g[d] \o f[n]) \o <<p>>
        BY <4>1, AppendIsConcat
      <4>3. PICK a \in Seq(Pid), b \in Seq(Pid), c \in Seq(Pid) : a = g[d] /\ b = f[n] /\ c = <<p>>
        BY <2>1, <4>1
      <4>4. (a \o b) \o c = a \o (b \o c)
        BY ConcatAssociative
      <4> QED BY <4>1, <4>2, <4>3, <4>4
    <3>3. Append(f[n], p) \in Seq(Pid)
      BY <2>1, AppendProperties
    <3> QED BY <2>1, <2>4, <2>5, <2>7, <3>1, <3>2, <3>3 DEF Continues
  <2> QED BY <2>6, <2>7
<1>4. 0 \in P
  BY <1>2
<1>5. ASSUME NEW n \in P PROVE n + 1 \in P
  BY <1>1, <1>3
<1>6. P \in SUBSET Nat
  OBVIOUS
<1> HIDE DEF P
<1>7. P = Nat
  BY <1>4, <1>5, <1>6, EveryNumber
<1>8. Len(ms) \in P
  BY <1>1, <1>7
<1> QED BY <1>1, <1>8 DEF P

\* What one message more, at either end, means for the open requests.
LEMMA NobodyRequests == requesters(<< >>) = << >>
<1>1. << >> \in Seq(Message) /\ Len(<< >>) = 0
  OBVIOUS
<1>2. PICK f : Collects(f, << >>) /\ requesters(<< >>) = f[Len(<< >>)]
  BY <1>1, RequestersCollect
<1>3. f[0] = << >>
  BY <1>1, <1>2 DEF Collects
<1> QED BY <1>1, <1>2, <1>3

LEMMA RequestersType == ASSUME NEW ms \in Seq(Message) PROVE requesters(ms) \in Seq(Pid)
<1>1. PICK f : Collects(f, ms) /\ requesters(ms) = f[Len(ms)]
  BY RequestersCollect
<1>2. Len(ms) \in Nat
  OBVIOUS
<1>3. f[0] = << >>
  BY <1>1, <1>2 DEF Collects
<1>4. 0 \in Nat /\ Contains(ms, ms, 0) /\ f[0] \in Seq(Pid)
  BY <1>2, <1>3 DEF Contains
<1>5. Continues(f, f, Len(ms), 0)
  BY <1>1, <1>4, CollectsAgree
<1> QED BY <1>1, <1>5 DEF Continues

LEMMA LastRequest ==
  ASSUME NEW ms \in Seq(Message), NEW m \in Message
  PROVE  requesters(Append(ms, m)) =
           IF m.terminate THEN requesters(ms) ELSE Append(requesters(ms), m.pid)
<1>1. PICK longer : longer = Append(ms, m)
  OBVIOUS
<1>2. /\ longer \in Seq(Message) /\ Len(longer) = Len(ms) + 1 /\ longer[Len(ms) + 1] = m
      /\ \A i \in 1 .. Len(ms) : longer[i] = ms[i]
  BY <1>1, AppendProperties
<1>3. PICK f : Collects(f, ms) /\ requesters(ms) = f[Len(ms)]
  BY RequestersCollect
<1>4. PICK g : Collects(g, longer) /\ requesters(longer) = g[Len(longer)]
  BY <1>2, RequestersCollect
<1>5. Len(ms) \in Nat
  OBVIOUS
<1>6. g[0] = << >>
  BY <1>2, <1>4, <1>5 DEF Collects
<1>7. 0 \in Nat /\ Contains(longer, ms, 0) /\ g[0] \in Seq(Pid)
  BY <1>2, <1>5, <1>6 DEF Contains
<1>8. Continues(g, f, Len(ms), 0)
  BY <1>2, <1>3, <1>4, <1>7, CollectsAgree
<1>9. f[Len(ms)] \in Seq(Pid) /\ g[Len(ms) + 0] = << >> \o f[Len(ms)]
  BY <1>5, <1>6, <1>8 DEF Continues
<1>10. g[Len(ms)] = f[Len(ms)]
  BY <1>5, <1>9, ConcatEmptySeq
<1>11. /\ Len(ms) + 1 \in 0 .. Len(longer) /\ Len(ms) + 1 # 0 /\ (Len(ms) + 1) - 1 = Len(ms)
  BY <1>2, <1>5
<1>12. g[Len(ms) + 1] = IF m.terminate THEN g[Len(ms)] ELSE Append(g[Len(ms)], m.pid)
  BY <1>2, <1>4, <1>11 DEF Collects
<1> QED BY <1>1, <1>2, <1>3, <1>4, <1>10, <1>12

LEMMA FirstRequest ==
  ASSUME NEW ms \in Seq(Message), NEW m \in Message
  PROVE  requesters(<<m>> \o ms) =
           IF m.terminate THEN requesters(ms) ELSE <<m.pid>> \o requesters(ms)
<1>1. PICK longer : longer = <<m>> \o ms
  OBVIOUS
<1>2. Len(ms) \in Nat /\ <<m>> \in Seq(Message) /\ Len(<<m>>) = 1 /\ m.pid \in Pid
  BY DEF Message
<1>3. /\ longer \in Seq(Message) /\ Len(longer) = Len(ms) + 1 /\ longer[1] = m
      /\ \A i \in 1 .. Len(ms) : longer[i + 1] = ms[i]
  <2>1. /\ longer \in Seq(Message) /\ Len(longer) = 1 + Len(ms)
        /\ \A i \in 1 .. 1 + Len(ms) : longer[i] = IF i <= 1 THEN <<m>>[i] ELSE ms[i - 1]
    BY <1>1, <1>2, ConcatProperties
  <2> QED BY <1>2, <2>1
<1>4. PICK f : Collects(f, ms) /\ requesters(ms) = f[Len(ms)]
  BY RequestersCollect
<1>5. PICK g : Collects(g, longer) /\ requesters(longer) = g[Len(longer)]
  BY <1>3, RequestersCollect
<1>6. g[0] = << >>
  BY <1>2, <1>3, <1>5 DEF Collects
<1>7. g[1] = IF m.terminate THEN << >> ELSE <<m.pid>>
  <2>1. 1 \in 0 .. Len(longer) /\ 1 # 0 /\ 1 - 1 = 0
    BY <1>2, <1>3
  <2>2. g[1] = IF m.terminate THEN g[0] ELSE Append(g[0], m.pid)
    BY <1>3, <1>5, <2>1 DEF Collects
  <2> QED BY <1>6, <2>2
<1>8. g[1] \in Seq(Pid)
  BY <1>2, <1>7
<1>9. Continues(g, f, Len(ms), 1)
  <2>1. 1 \in Nat /\ Contains(longer, ms, 1)
    BY <1>2, <1>3 DEF Contains
  <2> QED BY <1>3, <1>4, <1>5, <1>8, <2>1, CollectsAgree
<1>10. f[Len(ms)] \in Seq(Pid) /\ g[Len(ms) + 1] = g[1] \o f[Len(ms)]
  BY <1>2, <1>9 DEF Continues
<1> QED BY <1>1, <1>3, <1>4, <1>5, <1>7, <1>10, ConcatEmptySeq

-----------------------------------------------------------------------------
(* Seen from outside the system runs sessions *)

\* Who has a request under way waits, as long as nothing interrupts it.
SendersWait ==
  /\ ~interrupted
  /\ \A i \in 1 .. Len(toOss) : ~toOss[i].terminate => user[toOss[i].pid] = "waiting"
  /\ InHand /\ ~message.terminate => user[message.pid] = "waiting"
  /\ \A p \in Pid : toUser[p] # << >> => user[p] = "waiting"

Uninterrupted == OssInterrupt = FALSE /\ UserInterrupt = FALSE

\* At the end nobody is left who could send, or wait.
LEMMA OverForAll ==
  ASSUME Types, Counts, Closing, SendersWait, NEW p \in Pid, user[p] \notin {"unborn", "reaped"}
  PROVE  pc \notin {"final", "done"}
  BY NoChildLeft DEF SendersWait, children

\* A step that moves no message, and stirs no user that waits.
LEMMA QuietKeepsWaiting ==
  ASSUME Types, SendersWait, UNCHANGED <<toOss, toUser, message, interrupted>>, InHand' => InHand,
         \A p \in Pid : user[p] = "waiting" => user'[p] = "waiting"
  PROVE  SendersWait'
<1>1. message.pid \in Pid /\ \A i \in 1 .. Len(toOss) : toOss[i].pid \in Pid
  BY TrafficTypes
<1> QED BY <1>1 DEF SendersWait

LEMMA SendKeepsWaiting ==
  ASSUME Types, Traffic, Counts, Closing, SendersWait, NEW p \in Pid, Ask(p) \/ Quit(p)
  PROVE  SendersWait'
<1>1. user[p] = "ready" /\ UNCHANGED <<pc, message, queueUp, toUser, interrupted>>
  BY DEF Ask, Quit, ossVars, signalVars
<1>2. queueUp
  BY <1>1, OverForAll DEF Traffic, QueueIsUp, Over
<1>3. PICK m \in Message :
        /\ toOss' = Append(toOss, m) /\ m.pid = p
        /\ user' = [user EXCEPT ![p] = IF m.terminate THEN "exiting" ELSE "waiting"]
  <2>1. PICK b \in BOOLEAN, pg \in Page :
          /\ send(p, b, pg)
          /\ user' = [user EXCEPT ![p] = IF b THEN "exiting" ELSE "waiting"]
    BY FirstPage DEF Ask, Quit
  <2> DEFINE m == [pid |-> p, slot |-> slotOf[p], terminate |-> b, page |-> pg]
  <2>2. toOss' = Append(toOss, m)
    BY <1>2, <2>1 DEF send
  <2>3. m.pid = p /\ m.terminate = b /\ m \in Message
    BY MessageType
  <2> HIDE DEF m
  <2> QED BY <2>1, <2>2, <2>3
<1>4. /\ user \in [Pid -> UserState] /\ message.pid \in Pid
      /\ \A i \in 1 .. Len(toOss) : toOss[i].pid \in Pid
      /\ toOss \in Seq(Message) /\ Len(toOss) \in Nat
  BY TrafficTypes
<1>5. \A o \in Pid : user[o] = "waiting" => user'[o] = "waiting"
  BY <1>1, <1>3, <1>4
<1>6. \A i \in 1 .. Len(toOss') :
        (i \in 1 .. Len(toOss) /\ toOss'[i] = toOss[i]) \/ toOss'[i] = m
  BY <1>3, <1>4
<1>7. ~m.terminate => user'[m.pid] = "waiting"
  BY <1>3, <1>4
<1>8. ASSUME NEW i \in 1 .. Len(toOss'), ~toOss'[i].terminate
      PROVE  user'[toOss'[i].pid] = "waiting"
  BY <1>4, <1>5, <1>6, <1>7, <1>8 DEF SendersWait
<1> QED BY <1>1, <1>4, <1>5, <1>8 DEF SendersWait, InHand

LEMMA WaitingKept ==
  ASSUME Uninterrupted, Types, Births, Traffic, Counts, Closing, SendersWait, [Next]_vars
  PROVE  SendersWait'
<1>1. /\ user \in [Pid -> UserState] /\ message.pid \in Pid /\ Len(toOss) \in Nat
      /\ \A i \in 1 .. Len(toOss) : toOss[i].pid \in Pid
      /\ toOss \in Seq(Message) /\ toUser \in [Pid -> Seq(Message)]
  BY TrafficTypes
<1>2. CASE Fork
  <2>1. nextPid \in Pid /\ user[nextPid] = "unborn" /\ user' = [user EXCEPT ![nextPid] = "boot"]
    BY <1>2, NextChild DEF Fork
  <2>2. UNCHANGED <<toOss, toUser, message, interrupted>> /\ (InHand' => InHand)
    BY <1>2 DEF Fork, queueVars, signalVars, InHand
  <2>3. \A p \in Pid : user[p] = "waiting" => user'[p] = "waiting"
    BY <1>1, <2>1
  <2> QED BY <2>2, <2>3, QuietKeepsWaiting
<1>3. CASE \/ Book \/ Break \/ NoLaunch \/ HandleRequest \/ HandleTermination \/ Reap \/ Alarm
           \/ Ended \/ UNCHANGED vars
  <2>1. /\ UNCHANGED <<toOss, toUser, message, interrupted>> /\ (InHand' => InHand)
        /\ UNCHANGED user \/ \E p \in Pid : UserMove(p, {"zombie"}, "reaped")
    BY <1>3, SignalAssumption
    DEF Book, Break, NoLaunch, HandleRequest, HandleTermination, Reap, wait, UserMove,
        Alarm, Ended, vars, ossVars, queueVars, userVars, signalVars, InHand, Point
  <2>2. \A p \in Pid : user[p] = "waiting" => user'[p] = "waiting"
    BY <1>1, <2>1 DEF UserMove
  <2> QED BY <2>1, <2>2, QuietKeepsWaiting
<1>4. CASE \E p \in Pid : Connect(p) \/ Exit(p)
  <2>1. UNCHANGED <<toOss, toUser, message, pc, interrupted>>
    BY <1>4 DEF Connect, Exit, ossVars, queueVars, signalVars
  <2>2. \E p \in Pid : \E x \in UserState : UserMove(p, {"boot", "exiting"}, x)
    BY <1>4 DEF Connect, Exit, UserMove, UserState
  <2>3. \A p \in Pid : user[p] = "waiting" => user'[p] = "waiting"
    BY <1>1, <2>2 DEF UserMove
  <2> QED BY <2>1, <2>3, QuietKeepsWaiting DEF InHand
<1>5. ASSUME NEW p \in Pid, QueueGone(p) PROVE FALSE
  <2>1. user[p] = "waiting" /\ ~queueUp
    BY <1>5 DEF QueueGone
  <2>2. ~Over
    BY <2>1, OverForAll DEF Over
  <2> QED BY <2>1, <2>2 DEF Traffic, QueueIsUp
<1>6. CASE Receive
  <2>1. /\ UNCHANGED <<user, toUser, interrupted>> /\ pc' = "handle" /\ toOss # << >>
        /\ message' = Head(toOss) /\ toOss' = Tail(toOss)
    BY <1>6 DEF Receive, userVars, signalVars
  <2>2. /\ message' = toOss[1] /\ 1 \in 1 .. Len(toOss)
        /\ \A i \in 1 .. Len(toOss') : toOss'[i] = toOss[i + 1] /\ i + 1 \in 1 .. Len(toOss)
    BY <1>1, <2>1
  <2> QED BY <2>1, <2>2 DEF SendersWait
<1>7. CASE Reply
  <2>1. /\ pc = "reply" /\ pc' = "top" /\ UNCHANGED <<user, toOss, message, interrupted>>
        /\ toUser' = [toUser EXCEPT ![message.pid] = Append(@, message)]
    BY <1>7 DEF Reply, userVars, signalVars
  <2>2. user[message.pid] = "waiting"
    BY <2>1 DEF Traffic, Sent, SendersWait, InHand
  <2>3. \A p \in Pid : p = message.pid \/ toUser'[p] = toUser[p]
    BY <1>1, <2>1
  <2> QED BY <1>1, <2>1, <2>2, <2>3 DEF SendersWait, InHand
<1>8. CASE \E p \in Pid : Ask(p) \/ Quit(p)
  BY <1>8, SendKeepsWaiting
<1>9. CASE \E p \in Pid : Answered(p)
  <2>1. PICK p \in Pid : Answered(p)
    BY <1>9
  <2>2. /\ user[p] = "waiting" /\ toUser[p] # << >> /\ user' = [user EXCEPT ![p] = "ready"]
        /\ toUser' = [toUser EXCEPT ![p] = Tail(@)]
        /\ UNCHANGED <<pc, message, toOss, interrupted>>
    BY <2>1 DEF Answered, ossVars, signalVars
  <2>3. /\ \A i \in 1 .. Len(toOss) : toOss[i].pid # p
        /\ InHand => message.pid # p
        /\ Len(toUser[p]) = 1
    BY <2>2 DEF Traffic, OneAnswer
  <2>4. Tail(toUser[p]) = << >>
    <3>1. toUser[p] \in Seq(Message)
      BY <1>1
    <3> QED BY <2>2, <2>3, <3>1, TailOfOne
  <2>5. \A o \in Pid : IF o = p THEN toUser'[o] = << >>
                       ELSE toUser'[o] = toUser[o] /\ user'[o] = user[o]
    BY <1>1, <2>2, <2>4
  <2> QED BY <1>1, <2>2, <2>3, <2>5 DEF SendersWait, InHand
<1>10. CASE Finish
  <2>1. pc' = "done" /\ toOss' = << >> /\ toUser' = [p \in Pid |-> << >>] /\ ~interrupted'
    BY <1>10 DEF Finish, cleanUp, signalVars, SendersWait
  <2> QED BY <2>1 DEF SendersWait, InHand
<1>11. ~InterruptOss /\ \A p \in Pid : ~InterruptUser(p)
  BY DEF InterruptOss, InterruptUser, Uninterrupted
<1> QED BY <1>2, <1>3, <1>4, <1>5, <1>6, <1>7, <1>8, <1>9, <1>10, <1>11
        DEF Next, OssStep, UserStep

\* The open requests: the one in OSS's hands, and those in its mailbox.
PendingShape ==
  pendingUsers = IF InHand /\ ~message.terminate THEN <<message.pid>> \o requesters(toOss)
                 ELSE requesters(toOss)

LEMMA PendingNow == Types => PendingShape
<1> SUFFICES ASSUME Types PROVE PendingShape
  OBVIOUS
<1>1. message \in Message /\ toOss \in Seq(Message)
  BY DEF Types
<1>2. << >> \o toOss = toOss
  BY <1>1, ConcatEmptySeq
<1>3. requesters(<<message>> \o toOss) =
        IF message.terminate THEN requesters(toOss) ELSE <<message.pid>> \o requesters(toOss)
  BY <1>1, FirstRequest
<1> QED BY <1>2, <1>3 DEF PendingShape, pendingUsers, InHand

LEMMA PendingNext == Types' => PendingShape'
  BY PendingNow, PTL

\* A step that is none of the sessions.
LEMMA QuietKeepsSessions ==
  ASSUME UNCHANGED pendingUsers, \A p \in Pid : sessionPhase(p)' = sessionPhase(p)
  PROVE  UNCHANGED Sessions!vars
  BY DEF Sessions!vars

LEMMA InitSessions == Init => Sessions!Init
<1> SUFFICES ASSUME Init PROVE Sessions!Init
  OBVIOUS
<1>1. pendingUsers = << >>
  BY InitTraffic, PendingNow, NobodyRequests DEF Init, PendingShape, InHand
<1>2. \A p \in Pid : sessionPhase(p) = "absent"
  BY DEF Init, sessionPhase
<1> QED BY <1>1, <1>2 DEF Sessions!Init

\* A free slot means that fewer users than the limit are active: each has a slot.
LEMMA SessionsCount == ASSUME NEW S PROVE Sessions!Cardinality(S) = Cardinality(S)
  BY DEF Cardinality, Sessions!Cardinality

LEMMA ForkStartsSession ==
  ASSUME Types, Births, Traffic, Counts, Closing, SendersWait, Types', Fork
  PROVE  \E p \in Pid : Sessions!Start(p)
<1>1. PICK p \in Pid : user[p] = "unborn" /\ user' = [user EXCEPT ![p] = "boot"]
  BY NextChild DEF Fork
<1>2. pc = "top" /\ pc' = "book" /\ UNCHANGED <<toOss, toUser, message>> /\ Mem!freeSlots # {}
  BY DEF Fork, queueVars
<1>3. pendingUsers' = pendingUsers
  BY <1>2, PendingNow, PendingNext DEF PendingShape, InHand
<1>4. sessionPhase(p) = "absent" /\ sessionPhase(p)' = "computing"
  BY <1>1 DEF sessionPhase, Types
<1>5. \A o \in Pid \ {p} : sessionPhase(o)' = sessionPhase(o)
  BY <1>1, <1>2 DEF sessionPhase, Types
<1>6. Cardinality(Sessions!active) < Slots
  <2>1. Sessions!active \subseteq children
    BY DEF Sessions!active, sessionPhase, children
  <2>2. Cardinality(Sessions!active) <= Cardinality(children)
    BY <2>1, SetsAreFinite, FS_Subset
  <2>3. Cardinality(children) = Cardinality(used)
    BY <1>2, SetsAreFinite DEF Counts, SendersWait
  <2>4. PICK free \in Slot : bitVector[free] = 0
    BY <1>2 DEF Mem!freeSlots, Slot
  <2>5. IsFiniteSet(Slot) /\ Cardinality(Slot) = Slots
    BY SlotNumbers, MemoryAssumption, FS_Interval
  <2>6. used \subseteq Slot /\ free \notin used
    BY <2>4 DEF used
  <2>7. Cardinality(used) < Cardinality(Slot)
    <3>1. used # Slot
      BY <2>4, <2>6
    <3> QED BY <2>5, <2>6, <3>1, SetsAreFinite, FS_Subset, FS_CardinalityType
  <2>8. IsFiniteSet(Sessions!active)
    BY <2>1, SetsAreFinite, FS_Subset
  <2>9. Cardinality(Sessions!active) \in Nat
    BY <2>8, FS_CardinalityType
  <2> QED BY <2>2, <2>3, <2>5, <2>7, <2>9, SetsAreFinite, MemoryAssumption
<1> QED BY <1>1, <1>3, <1>4, <1>5, <1>6, SessionsCount DEF Sessions!Start

\* The answer goes to whoever has waited longest.
LEMMA ReplyAnswers ==
  ASSUME Types, Traffic, SendersWait, Types', Reply
  PROVE  Sessions!Answer
<1>1. /\ pc = "reply" /\ pc' = "top" /\ UNCHANGED <<user, toOss, message>>
      /\ toUser' = [toUser EXCEPT ![message.pid] = Append(@, message)]
  BY DEF Reply, userVars
<1>2. /\ toUser \in [Pid -> Seq(Message)] /\ message.pid \in Pid /\ message \in Message
      /\ toOss \in Seq(Message) /\ user \in [Pid -> UserState]
  BY TrafficTypes
<1>3. ~message.terminate /\ InHand /\ ~InHand'
  BY <1>1 DEF Traffic, Sent, InHand
<1>4. user[message.pid] = "waiting" /\ toUser[message.pid] = << >>
  BY <1>2, <1>3 DEF SendersWait, Traffic, OneAnswer
<1>5. pendingUsers = <<message.pid>> \o requesters(toOss) /\ pendingUsers' = requesters(toOss)
  BY <1>1, <1>3, PendingNow, PendingNext DEF PendingShape
<1>6. PICK p \in Pid : p = message.pid
  BY <1>2
<1>7. pendingUsers # << >> /\ Head(pendingUsers) = p /\ Tail(pendingUsers) = pendingUsers'
  <2>1. PICK rest \in Seq(Pid) : rest = requesters(toOss)
    BY <1>2, RequestersType
  <2>2. <<p>> \o rest # << >> /\ Head(<<p>> \o rest) = p /\ Tail(<<p>> \o rest) = rest
    OBVIOUS
  <2> QED BY <1>5, <1>6, <2>1, <2>2
<1>8. toUser'[message.pid] # << >>
  <2>1. toUser'[message.pid] = Append(toUser[message.pid], message)
    BY <1>1, <1>2
  <2> QED BY <1>2, <1>4, <2>1, AppendIsNonEmpty
<1>9. sessionPhase(p)' = "computing"
  BY <1>1, <1>4, <1>6, <1>8 DEF sessionPhase
<1>10. \A o \in Pid \ {p} : sessionPhase(o)' = sessionPhase(o)
  BY <1>1, <1>2, <1>6 DEF sessionPhase
<1> QED BY <1>7, <1>9, <1>10 DEF Sessions!Answer

\* What a user sends is put behind the requests of the others.
LEMMA SendIsSession ==
  ASSUME Types, Traffic, Counts, Closing, SendersWait, Types', NEW p \in Pid, Ask(p) \/ Quit(p)
  PROVE  Sessions!Ask(p) \/ Sessions!Leave(p)
<1>1. user[p] = "ready" /\ UNCHANGED <<pc, message, queueUp, toUser>>
  BY DEF Ask, Quit, ossVars
<1>2. queueUp
  BY <1>1, OverForAll DEF Traffic, QueueIsUp, Over
<1>3. PICK b \in BOOLEAN, pg \in Page :
        /\ send(p, b, pg)
        /\ user' = [user EXCEPT ![p] = IF b THEN "exiting" ELSE "waiting"]
  BY FirstPage DEF Ask, Quit
<1> DEFINE m == [pid |-> p, slot |-> slotOf[p], terminate |-> b, page |-> pg]
<1>4. toOss' = Append(toOss, m)
  BY <1>2, <1>3 DEF send
<1>5. m.pid = p /\ m.terminate = b /\ m \in Message
  BY MessageType
<1> HIDE DEF m
<1>6. /\ user \in [Pid -> UserState] /\ message.pid \in Pid /\ toOss \in Seq(Message)
      /\ toUser[p] = << >>
  BY <1>1, TrafficTypes DEF SendersWait
<1>7. requesters(toOss') = IF b THEN requesters(toOss) ELSE Append(requesters(toOss), p)
  BY <1>4, <1>5, <1>6, LastRequest
<1>8. pendingUsers' = IF b THEN pendingUsers ELSE Append(pendingUsers, p)
  <2>1. PICK own \in Seq(Pid) :
          own = IF InHand /\ ~message.terminate THEN <<message.pid>> ELSE << >>
    <3>1. <<message.pid>> \in Seq(Pid) /\ << >> \in Seq(Pid)
      BY <1>6
    <3> QED BY <3>1
  <2>2. requesters(toOss) \in Seq(Pid) /\ requesters(toOss') \in Seq(Pid)
    BY <1>6, RequestersType DEF Types
  <2>3. pendingUsers = own \o requesters(toOss)
    BY <2>1, <2>2, PendingNow, ConcatEmptySeq DEF PendingShape
  <2>4. pendingUsers' = own \o requesters(toOss')
    BY <1>1, <2>1, <2>2, PendingNext, ConcatEmptySeq DEF PendingShape, InHand
  <2>5. own \o Append(requesters(toOss), p) = Append(own \o requesters(toOss), p)
    <3>1. PICK rest \in Seq(Pid) : rest = requesters(toOss)
      BY <2>2
    <3>2. own \o Append(rest, p) = Append(own \o rest, p)
      <4>1. <<p>> \in Seq(Pid) /\ own \o rest \in Seq(Pid)
        BY ConcatProperties
      <4>2. Append(rest, p) = rest \o <<p>> /\ Append(own \o rest, p) = (own \o rest) \o <<p>>
        BY <4>1, AppendIsConcat
      <4>3. PICK last \in Seq(Pid) : last = <<p>>
        BY <4>1
      <4>4. (own \o rest) \o last = own \o (rest \o last)
        BY ConcatAssociative
      <4> QED BY <4>2, <4>3, <4>4
    <3> QED BY <3>1, <3>2
  <2> QED BY <1>7, <2>3, <2>4, <2>5
<1>9. sessionPhase(p) = "computing" /\ sessionPhase(p)' = IF b THEN "left" ELSE "asking"
  BY <1>1, <1>3, <1>6 DEF sessionPhase
<1>10. \A o \in Pid \ {p} : sessionPhase(o)' = sessionPhase(o)
  BY <1>1, <1>3, <1>6 DEF sessionPhase
<1> QED BY <1>8, <1>9, <1>10 DEF Sessions!Ask, Sessions!Leave

\* The steps that a session does not see.
LEMMA QuietStep ==
  ASSUME Uninterrupted, AlarmAt \cap {"handle", "reply"} = {}, Types, Traffic, Counts, Closing,
         SendersWait, Types', [Next]_vars, ~Fork, ~Reply, ~Finish,
         \A p \in Pid : ~(Ask(p) \/ Quit(p))
  PROVE  UNCHANGED Sessions!vars
<1>1. /\ user \in [Pid -> UserState] /\ toUser \in [Pid -> Seq(Message)]
      /\ message \in Message /\ toOss \in Seq(Message)
  BY DEF Types
<1>2. CASE Receive
  <2>1. /\ UNCHANGED <<user, toUser>> /\ toOss # << >> /\ pc = "recv" /\ pc' = "handle"
        /\ message' = Head(toOss) /\ toOss' = Tail(toOss)
    BY <1>2 DEF Receive, userVars
  <2>2. pendingUsers = requesters(toOss)
    BY <2>1, PendingNow DEF PendingShape, InHand
  <2>3. PICK m \in Message, rest \in Seq(Message) : m = message' /\ rest = toOss'
    BY DEF Types
  <2>4. toOss = <<m>> \o rest
    BY <1>1, <2>1, <2>3
  <2>5. requesters(toOss) =
          IF m.terminate THEN requesters(rest) ELSE <<m.pid>> \o requesters(rest)
    BY <2>4, FirstRequest
  <2>6. pendingUsers' = pendingUsers
    BY <2>1, <2>2, <2>3, <2>5, PendingNext DEF PendingShape, InHand
  <2>7. \A p \in Pid : sessionPhase(p)' = sessionPhase(p)
    BY <2>1 DEF sessionPhase
  <2> QED BY <2>6, <2>7, QuietKeepsSessions
<1>3. CASE \/ Book \/ Break \/ NoLaunch \/ HandleRequest \/ HandleTermination \/ Reap \/ Alarm
           \/ Ended \/ UNCHANGED vars
  <2>1. /\ UNCHANGED <<toOss, toUser, message>>
        /\ (InHand' <=> InHand) \/ (InHand /\ message.terminate /\ ~InHand')
        /\ UNCHANGED user \/ \E p \in Pid : UserMove(p, {"zombie"}, "reaped")
    BY <1>3, SignalAssumption
    DEF Book, Break, NoLaunch, HandleRequest, HandleTermination, Reap, wait, UserMove,
        Alarm, Ended, vars, ossVars, queueVars, userVars, InHand, Point
  <2>2. pendingUsers' = pendingUsers
    BY <2>1, PendingNow, PendingNext DEF PendingShape
  <2>3. \A p \in Pid : sessionPhase(p)' = sessionPhase(p)
    BY <1>1, <2>1 DEF sessionPhase, UserMove
  <2> QED BY <2>2, <2>3, QuietKeepsSessions
<1>4. ASSUME NEW p \in Pid, Connect(p) \/ Exit(p) \/ Answered(p) PROVE UNCHANGED Sessions!vars
  <2>1. UNCHANGED <<toOss, message, pc>>
    BY <1>4 DEF Connect, Exit, Answered, ossVars, queueVars
  <2>2. pendingUsers' = pendingUsers
    BY <2>1, PendingNow, PendingNext DEF PendingShape, InHand
  <2>3. CASE Connect(p)
    <3>1. queueUp
      BY <2>3, OverForAll DEF Connect, Traffic, QueueIsUp, Over
    <3>2. UserMove(p, {"boot"}, "ready") /\ UNCHANGED toUser
      BY <2>3, <3>1 DEF Connect, UserMove, queueVars
    <3> QED BY <1>1, <2>2, <3>2, QuietKeepsSessions DEF sessionPhase, UserMove
  <2>4. CASE Exit(p)
    <3>1. UserMove(p, {"exiting"}, "zombie") /\ UNCHANGED toUser
      BY <2>4 DEF Exit, UserMove, queueVars
    <3> QED BY <1>1, <2>2, <3>1, QuietKeepsSessions DEF sessionPhase, UserMove
  <2>5. CASE Answered(p)
    <3>1. /\ user[p] = "waiting" /\ toUser[p] # << >> /\ user' = [user EXCEPT ![p] = "ready"]
          /\ toUser' = [toUser EXCEPT ![p] = Tail(@)]
      BY <2>5 DEF Answered
    <3>2. \A o \in Pid \ {p} : toUser'[o] = toUser[o] /\ user'[o] = user[o]
      BY <1>1, <3>1
    <3>3. user'[p] = "ready"
      BY <1>1, <3>1
    <3>4. \A o \in Pid : sessionPhase(o)' = sessionPhase(o)
      BY <3>1, <3>2, <3>3 DEF sessionPhase
    <3> QED BY <2>2, <3>4, QuietKeepsSessions
  <2> QED BY <1>4, <2>3, <2>4, <2>5
<1>5. ASSUME NEW p \in Pid, QueueGone(p) PROVE FALSE
  <2>1. user[p] = "waiting" /\ ~queueUp
    BY <1>5 DEF QueueGone
  <2>2. ~Over
    BY <2>1, OverForAll DEF Over
  <2> QED BY <2>1, <2>2 DEF Traffic, QueueIsUp
<1>6. ~InterruptOss /\ \A p \in Pid : ~InterruptUser(p)
  BY DEF InterruptOss, InterruptUser, Uninterrupted
<1> QED BY <1>2, <1>3, <1>4, <1>5, <1>6 DEF Next, OssStep, UserStep

\* When OSS removes the queue nobody is left who could miss it.
LEMMA FinishIsQuiet ==
  ASSUME Types, Traffic, Bookings, Counts, Closing, TablesAgree, SendersWait, Types', Finish
  PROVE  UNCHANGED Sessions!vars
<1>1. pc = "final" /\ ~interrupted
  BY DEF Finish, SendersWait
<1>2. toOss = << >> /\ \A p \in Pid : toUser[p] = << >>
  BY <1>1, EndsClean DEF CleanExit
<1>3. UNCHANGED user
  BY FinishKeepsUsers
<1>4. pc' = "done" /\ toOss' = << >> /\ toUser' = [p \in Pid |-> << >>]
  BY DEF Finish, cleanUp
<1>5. pendingUsers' = pendingUsers
  BY <1>1, <1>2, <1>4, PendingNow, PendingNext DEF PendingShape, InHand
<1>6. \A p \in Pid : sessionPhase(p)' = sessionPhase(p)
  BY <1>2, <1>3, <1>4 DEF sessionPhase
<1> QED BY <1>5, <1>6, QuietKeepsSessions

LEMMA StepsSessions ==
  ASSUME Uninterrupted, AlarmAt \cap {"handle", "reply"} = {}, Types, Births, Traffic, Bookings,
         Counts, Closing, TablesAgree, SendersWait, [Next]_vars
  PROVE  [Sessions!Next]_(Sessions!vars)
<1>1. Types'
  BY TypesKept
<1>2. CASE Fork
  BY <1>1, <1>2, ForkStartsSession DEF Sessions!Next
<1>3. CASE Reply
  BY <1>1, <1>3, ReplyAnswers DEF Sessions!Next
<1>4. CASE \E p \in Pid : Ask(p) \/ Quit(p)
  BY <1>1, <1>4, SendIsSession DEF Sessions!Next
<1>5. CASE Finish
  BY <1>1, <1>5, FinishIsQuiet
<1> QED BY <1>1, <1>2, <1>3, <1>4, <1>5, QuietStep

\* What a user sees of the system is a session: at most as many users as there are
\* slots compute or wait, each is started once, a request is answered once and to
\* its sender, in the order in which the requests were made, and a user leaves only
\* while none of its requests is open.  That every request is answered is left to
\* the runs.  An interrupt ends sessions in any state, and the alarm must not strike
\* where it loses a request or a count.
THEOREM KeepsSessions ==
  ASSUME OssInterrupt = FALSE, UserInterrupt = FALSE,
         AlarmAt \cap {"book", "handle", "reap", "reply"} = {}
  PROVE  Spec => Sessions!Init /\ [][Sessions!Next]_(Sessions!vars)
<1>1. /\ Uninterrupted /\ "book" \notin AlarmAt
      /\ AlarmAt \cap {"handle", "reply"} = {} /\ AlarmAt \cap {"book", "reap"} = {}
  BY DEF Uninterrupted
<1>2. Init => SendersWait
  BY DEF Init, SendersWait, InHand
<1>3. Types /\ Births /\ Traffic /\ Counts /\ Closing /\ SendersWait /\ [Next]_vars => SendersWait'
  BY <1>1, WaitingKept
<1>4. Types /\ Births /\ Traffic /\ Bookings /\ TablesAgree /\ [Next]_vars => TablesAgree'
  BY <1>1, TablesKept
<1>5. /\ Types /\ Births /\ Traffic /\ Bookings /\ Counts /\ Closing /\ TablesAgree /\ SendersWait
      /\ [Next]_vars
      => [Sessions!Next]_(Sessions!vars)
  BY <1>1, StepsSessions
<1>6. Spec => [](Bookings /\ Counts /\ Closing)
  BY <1>1, AlwaysCounted
<1> QED BY <1>2, <1>3, <1>4, <1>5, <1>6, InitSessions, InitAgrees, AlwaysTraffic, PTL DEF Spec
=============================================================================
