----------------------- MODULE ResourceManager_proofs -----------------------
(***************************************************************************)
(* Theorems about ResourceManager for any number of slots, resources,      *)
(* units and launches, with the alarm and an interrupt at any point of     *)
(* OSS's loop.  Nothing is assumed of the order in which users start or    *)
(* leave: what the races in the code disturb is in the statements, by the  *)
(* histories overtaken and overlapped.                                     *)
(***************************************************************************)
EXTENDS ResourceManager, RecursionLemmas

-----------------------------------------------------------------------------
(* Which steps change what *)

LEMMA MatrixSteps ==
  ASSUME [Next]_vars
  PROVE  \/ UNCHANGED matrixVars \/ Terminate \/ ResourceAllocation
         \/ \E p \in Pid : Claim(p) \/ Draw(p) \/ Store(p)
<1>1. ASSUME NEW p \in Pid, UserStep(p)
      PROVE  UNCHANGED matrixVars \/ Claim(p) \/ Draw(p) \/ Store(p)
  BY <1>1 DEF UserStep, Start, Visit, Boot, Load, Pass, GiveUp, Hold, Request, Suspend, Withdraw,
              visit, Awake, Check
<1> QED
  BY <1>1
  DEF Next, OssStep, Fork, Mark, Count, NoLaunch, Break, Lock, NoTermination, NoRequest, WakeAll, WakeNone,
      Unlock, Finish, Collect, Alarm, Interrupt, Ended, vars

LEMMA FlagSteps ==
  ASSUME [Next]_vars
  PROVE  \/ UNCHANGED flagVars \/ Terminate \/ ResourceAllocation \/ WakeAll
         \/ \E p \in Pid : GiveUp(p) \/ Hold(p) \/ Request(p) \/ Withdraw(p)
<1>1. ASSUME NEW p \in Pid, UserStep(p)
      PROVE  UNCHANGED flagVars \/ GiveUp(p) \/ Hold(p) \/ Request(p) \/ Withdraw(p)
  BY <1>1 DEF UserStep, Start, Visit, Boot, Claim, Draw, Load, Store, Pass, Suspend,
              visit, Awake, Check, flagVars
<1> QED
  BY <1>1
  DEF Next, OssStep, Fork, Mark, Count, NoLaunch, Break, Lock, NoTermination, NoRequest, WakeNone,
      Unlock, Finish, Collect, Alarm, Interrupt, Ended, vars

LEMMA OssSteps ==
  ASSUME [Next]_vars
  PROVE  \/ UNCHANGED ossVars \/ Fork \/ Mark \/ Count \/ NoLaunch \/ Break \/ Lock \/ NoTermination
         \/ Terminate \/ NoRequest \/ ResourceAllocation \/ WakeAll \/ WakeNone \/ Unlock
         \/ Finish \/ Collect \/ Alarm \/ Interrupt
<1>1. ASSUME NEW p \in Pid, UserStep(p) PROVE UNCHANGED ossVars
  BY <1>1 DEF UserStep, Start, Visit, Boot, Claim, Draw, Load, Store, Pass, GiveUp, Hold,
              Request, Suspend, Withdraw, visit, Awake, Check
<1> QED
  BY <1>1 DEF Next, OssStep, Ended, vars

LEMMA UserSteps ==
  ASSUME [Next]_vars
  PROVE  \/ UNCHANGED userVars \/ Fork \/ Terminate \/ WakeAll \/ Finish \/ Interrupt
         \/ \E p \in Pid : UserStep(p)
  BY DEF Next, OssStep, Mark, Count, NoLaunch, Break, Lock, NoTermination, NoRequest,
         ResourceAllocation, WakeNone, Unlock, Collect, Alarm, Ended, vars

LEMMA BootSteps ==
  ASSUME [Next]_vars
  PROVE  UNCHANGED pidOf \/ \E p \in Pid : Boot(p)
<1>1. ASSUME NEW p \in Pid, UserStep(p) PROVE UNCHANGED pidOf \/ Boot(p)
  BY <1>1 DEF UserStep, Start, Visit, Claim, Draw, Load, Store, Pass, GiveUp, Hold,
              Request, Suspend, Withdraw, visit, Awake, Check
<1> QED
  BY <1>1
  DEF Next, OssStep, Fork, Mark, Count, NoLaunch, Break, Lock, NoTermination, Terminate, NoRequest,
      ResourceAllocation, WakeAll, WakeNone, Unlock, Finish, Collect, Alarm, Interrupt, Ended, vars

LEMMA RaceSteps ==
  ASSUME [Next]_vars
  PROVE  \/ UNCHANGED raceVars
         \/ UNCHANGED overlapped /\ Terminate
         \/ UNCHANGED overtaken /\ (Lock \/ \E p \in Pid : Claim(p))
<1>1. ASSUME NEW p \in Pid, UserStep(p)
      PROVE  UNCHANGED raceVars \/ (UNCHANGED overtaken /\ Claim(p))
  BY <1>1 DEF UserStep, Start, Visit, Boot, Claim, Draw, Load, Store, Pass, GiveUp, Hold,
              Request, Suspend, Withdraw, visit, Awake, Check
<1> QED
  BY <1>1
  DEF Next, OssStep, Fork, Mark, Count, NoLaunch, Break, Lock, NoTermination, Terminate,
      NoRequest, ResourceAllocation, WakeAll, WakeNone, Unlock, Finish, Collect, Alarm,
      Interrupt, Ended, vars

-----------------------------------------------------------------------------
(* Types *)

LEMMA IndexInRange ==
  ASSUME TypeOK, index # Slots - 1 PROVE index + 1 \in Slot
  BY CountAssumption DEF TypeOK, Slot

LEMMA SlotZero == 0 \in Slot /\ 0 \in Resource
  BY CountAssumption DEF Slot, Resource

LEMMA MinOfTwo ==
  ASSUME NEW a \in Int, NEW b \in Int PROVE Min({a, b}) = IF a <= b THEN a ELSE b
<1> DEFINE m == IF a <= b THEN a ELSE b
<1>1. m \in {a, b} /\ \A y \in {a, b} : m <= y
  OBVIOUS
<1>2. \A x \in {a, b} : (\A y \in {a, b} : x <= y) => x = m
  OBVIOUS
<1> HIDE DEF m
<1>3. Min({a, b}) = CHOOSE x \in {a, b} : \A y \in {a, b} : x <= y
  BY DEF Min
<1>4. Min({a, b}) = m
  BY <1>1, <1>2, <1>3
<1> QED BY <1>4 DEF m

LEMMA MaxOfTwo ==
  ASSUME NEW a \in Int, NEW b \in Int PROVE Max({a, b}) = IF a >= b THEN a ELSE b
<1> DEFINE m == IF a >= b THEN a ELSE b
<1>1. m \in {a, b} /\ \A y \in {a, b} : m >= y
  OBVIOUS
<1>2. \A x \in {a, b} : (\A y \in {a, b} : x >= y) => x = m
  OBVIOUS
<1> HIDE DEF m
<1>3. Max({a, b}) = CHOOSE x \in {a, b} : \A y \in {a, b} : x >= y
  BY DEF Max
<1>4. Max({a, b}) = m
  BY <1>1, <1>2, <1>3
<1> QED BY <1>4 DEF m

LEMMA MinIsMember ==
  ASSUME NEW S, S \subseteq Nat, S # {}
  PROVE  Min(S) \in S
<1> DEFINE below == OpToRel(<, Nat)
<1>1. IsWellFoundedOn(below, Nat)
  BY NatLessThanWellFounded
<1>2. \A x, y \in Nat : y < x => <<y, x>> \in below
  BY DEF OpToRel
<1> HIDE DEF below
<1>3. PICK x \in S : \A y \in S : ~(<<y, x>> \in below)
  BY <1>1, WFMin
<1>4. ASSUME NEW y \in S PROVE x =< y
  <2>1. x \in Nat /\ y \in Nat
    OBVIOUS
  <2>2. ~(y < x)
    BY <1>2, <1>3, <2>1
  <2> QED BY <2>1, <2>2
<1>5. \E z \in S : \A y \in S : z =< y
  BY <1>4
<1> QED BY <1>5, Zenon DEF Min

lowest(s, r) == IF req[s][r] > avail[r] THEN avail[r] ELSE req[s][r]

\* The four ways a draw can go.
LEMMA DrawCases ==
  ASSUME TypeOK, NEW p \in Pid, Draw(p), NEW s, s = slotOf[p], NEW r, r = item[p]
  PROVE  /\ s \in Slot /\ r \in Resource /\ UNCHANGED <<avail, req>>
         /\ \E n \in Nat :
              /\ alloc' = [alloc EXCEPT ![s][r] = n]
              /\ \/ req[s][r] = 0 /\ n = alloc[s][r] /\ advance(p)
                 \/ req[s][r] # 0 /\ r \in Sharable /\ n = req[s][r] /\ advance(p)
                 \/ /\ req[s][r] # 0 /\ r \notin Sharable /\ n \in draws(lowest(s, r))
                    /\ user' = [user EXCEPT ![p] = "load"] /\ UNCHANGED item
                 \/ /\ lowest(s, r) = -1 /\ n = alloc[s][r]
                    /\ user' = [user EXCEPT ![p] = "gone"] /\ UNCHANGED item
<1>1. /\ s \in Slot /\ r \in Resource
      /\ req[s][r] \in Nat /\ alloc[s][r] \in Nat /\ avail[r] \in Int
      /\ alloc \in [Slot -> [Resource -> Nat]]
  BY DEF TypeOK
<1>2. UNCHANGED <<avail, req>>
  BY DEF Draw
<1>3. alloc = [alloc EXCEPT ![s][r] = alloc[s][r]]
  BY <1>1
<1>4. \/ /\ req[s][r] = 0 \/ r \in Sharable
         /\ alloc' = [alloc EXCEPT ![s][r] = IF req[s][r] = 0 THEN alloc[s][r] ELSE req[s][r]]
         /\ advance(p)
      \/ /\ req[s][r] # 0 /\ r \notin Sharable
         /\ \E n \in draws(lowest(s, r)) : alloc' = [alloc EXCEPT ![s][r] = n]
         /\ user' = [user EXCEPT ![p] = "load"]
         /\ UNCHANGED item
      \/ /\ req[s][r] # 0 /\ r \notin Sharable /\ lowest(s, r) = -1
         /\ user' = [user EXCEPT ![p] = "gone"]
         /\ UNCHANGED <<alloc, item>>
  BY Zenon DEF Draw, lowest
<1>5. draws(lowest(s, r)) \subseteq Nat
  BY <1>1 DEF draws, lowest
<1> HIDE DEF lowest, draws, advance
<1> DEFINE How(n) ==
      \/ req[s][r] = 0 /\ n = alloc[s][r] /\ advance(p)
      \/ req[s][r] # 0 /\ r \in Sharable /\ n = req[s][r] /\ advance(p)
      \/ /\ req[s][r] # 0 /\ r \notin Sharable /\ n \in draws(lowest(s, r))
         /\ user' = [user EXCEPT ![p] = "load"] /\ UNCHANGED item
      \/ /\ lowest(s, r) = -1 /\ n = alloc[s][r]
         /\ user' = [user EXCEPT ![p] = "gone"] /\ UNCHANGED item
<1>6. \E n \in Nat : alloc' = [alloc EXCEPT ![s][r] = n] /\ How(n)
  <2>1. CASE /\ req[s][r] = 0 \/ r \in Sharable
             /\ alloc' = [alloc EXCEPT ![s][r] = IF req[s][r] = 0 THEN alloc[s][r] ELSE req[s][r]]
             /\ advance(p)
    <3> DEFINE n == IF req[s][r] = 0 THEN alloc[s][r] ELSE req[s][r]
    <3>1. n \in Nat /\ How(n)
      BY <1>1, <2>1
    <3>2. alloc' = [alloc EXCEPT ![s][r] = n]
      BY <2>1
    <3> HIDE DEF n, How
    <3> QED BY <3>1, <3>2
  <2>2. CASE /\ req[s][r] # 0 /\ r \notin Sharable
             /\ \E n \in draws(lowest(s, r)) : alloc' = [alloc EXCEPT ![s][r] = n]
             /\ user' = [user EXCEPT ![p] = "load"]
             /\ UNCHANGED item
    <3>1. PICK n \in draws(lowest(s, r)) : alloc' = [alloc EXCEPT ![s][r] = n]
      BY <2>2
    <3>2. n \in Nat /\ How(n)
      BY <1>5, <2>2
    <3> HIDE DEF How
    <3> QED BY <3>1, <3>2
  <2>3. CASE /\ req[s][r] # 0 /\ r \notin Sharable /\ lowest(s, r) = -1
             /\ user' = [user EXCEPT ![p] = "gone"]
             /\ UNCHANGED <<alloc, item>>
    <3>1. How(alloc[s][r]) /\ alloc' = [alloc EXCEPT ![s][r] = alloc[s][r]]
      BY <1>3, <2>3
    <3> HIDE DEF How
    <3> QED BY <1>1, <3>1
  <2> HIDE DEF How
  <2> QED BY <1>4, <2>1, <2>2, <2>3
<1> QED BY <1>1, <1>2, <1>6

LEMMA MatrixTypes ==
  ASSUME TypeOK, [Next]_vars
  PROVE  /\ avail' \in [Resource -> Int]
         /\ req' \in [Slot -> [Resource -> Nat]] /\ alloc' \in [Slot -> [Resource -> Nat]]
<1>1. /\ avail \in [Resource -> Int] /\ index \in Slot
      /\ req \in [Slot -> [Resource -> Nat]] /\ alloc \in [Slot -> [Resource -> Nat]]
      /\ slotOf \in [Pid -> Slot] /\ item \in [Pid -> Resource] /\ loaded \in [Pid -> Int]
  BY DEF TypeOK
<1>2. CASE UNCHANGED matrixVars
  BY <1>1, <1>2 DEF matrixVars
<1>3. CASE Terminate
  <2>1. /\ avail' = [r \in Resource |-> IF r \in Sharable THEN avail[r] ELSE avail[r] + alloc[index][r]]
        /\ req' = [req EXCEPT ![index] = Nothing] /\ alloc' = [alloc EXCEPT ![index] = Nothing]
    BY <1>3 DEF Terminate, resetDescription
  <2> QED BY <1>1, <2>1 DEF Nothing
<1>4. CASE ResourceAllocation
  <2> DEFINE n == [r \in Resource |-> IF r \in taken(index) THEN need(index)[r] ELSE 0]
  <2>1. /\ alloc' = [alloc EXCEPT ![index] = [r \in Resource |-> alloc[index][r] + n[r]]]
        /\ avail' = [r \in Resource |-> avail[r] - n[r]] /\ UNCHANGED req
    BY <1>4 DEF ResourceAllocation
  <2>2. n \in [Resource -> Int] /\ \A r \in Resource : alloc[index][r] + n[r] \in Nat
    BY <1>1 DEF need
  <2> HIDE DEF n
  <2> QED BY <1>1, <2>1, <2>2
<1>5. ASSUME NEW p \in Pid, Claim(p)
      PROVE  /\ UNCHANGED <<avail, alloc>>
             /\ req' \in [Slot -> [Resource -> Nat]]
  BY <1>1, <1>5, ClaimAssumption DEF Claim
<1>6. ASSUME NEW p \in Pid, Draw(p)
      PROVE  UNCHANGED <<avail, req>> /\ alloc' \in [Slot -> [Resource -> Nat]]
  <2>1. PICK s \in Slot, r \in Resource, n \in Nat : alloc' = [alloc EXCEPT ![s][r] = n]
    BY <1>6, DrawCases
  <2>2. UNCHANGED <<avail, req>>
    BY <1>6 DEF Draw
  <2> QED BY <1>1, <2>1, <2>2
<1>7. ASSUME NEW p \in Pid, Store(p)
      PROVE  UNCHANGED <<req, alloc>> /\ avail' \in [Resource -> Int]
  BY <1>1, <1>7 DEF Store
<1> QED BY <1>1, <1>2, <1>3, <1>4, <1>5, <1>6, <1>7, MatrixSteps

LEMMA FlagTypes ==
  ASSUME TypeOK, [Next]_vars
  PROVE  /\ request' \in [Slot -> BOOLEAN] /\ allocate' \in [Slot -> BOOLEAN]
         /\ suspended' \in [Slot -> BOOLEAN] /\ terminating' \in [Slot -> BOOLEAN]
<1>1. /\ request \in [Slot -> BOOLEAN] /\ allocate \in [Slot -> BOOLEAN]
      /\ suspended \in [Slot -> BOOLEAN] /\ terminating \in [Slot -> BOOLEAN]
  BY DEF TypeOK
<1>2. CASE UNCHANGED flagVars
  BY <1>1, <1>2 DEF flagVars
<1>3. CASE Terminate
  <2>1. terminating' = [terminating EXCEPT ![index] = FALSE] /\ request' = [request EXCEPT ![index] = FALSE]
    BY <1>3 DEF Terminate, resetDescription
  <2>2. \E s : /\ \/ allocate' = [allocate EXCEPT ![index] = FALSE]
                  \/ allocate' = [allocate EXCEPT ![index] = FALSE, ![s] = TRUE]
               /\ \/ suspended' = [suspended EXCEPT ![index] = FALSE]
                  \/ suspended' = [suspended EXCEPT ![index] = FALSE, ![s] = FALSE]
    BY <1>3, Zenon DEF Terminate
  <2> QED BY <1>1, <2>1, <2>2
<1>4. CASE ResourceAllocation
  <2>1. /\ UNCHANGED <<request, suspended>> \/ request' = [request EXCEPT ![index] = FALSE]
        /\ UNCHANGED suspended \/ suspended' = [suspended EXCEPT ![index] = TRUE]
        /\ UNCHANGED allocate \/ allocate' = [allocate EXCEPT ![index] = TRUE]
        /\ UNCHANGED terminating
    BY <1>4, Zenon DEF ResourceAllocation, grant, suspend
  <2> QED BY <1>1, <2>1
<1>5. CASE WakeAll
  BY <1>1, <1>5 DEF WakeAll
<1>6. ASSUME NEW p \in Pid, GiveUp(p) \/ Hold(p) \/ Request(p) \/ Withdraw(p)
      PROVE  /\ \/ UNCHANGED request \/ \E b \in BOOLEAN : request' = [request EXCEPT ![slotOf[p]] = b]
             /\ UNCHANGED <<allocate, suspended>>
             /\ UNCHANGED terminating
                \/ \E b \in BOOLEAN : terminating' = [terminating EXCEPT ![slotOf[p]] = b]
  <2>1. CASE GiveUp(p) \/ Request(p) \/ Withdraw(p)
    BY <2>1 DEF GiveUp, Request, Withdraw, visit
  <2>2. CASE Hold(p)
    <3> DEFINE b == terminating[slotOf[p]] \/ held[p] + 1 >= HeldLimit
    <3>1. /\ terminating' = [terminating EXCEPT ![slotOf[p]] = b]
          /\ request' = [request EXCEPT ![slotOf[p]] = FALSE] /\ UNCHANGED <<allocate, suspended>>
      BY <2>2, Zenon DEF Hold, visit
    <3>2. b \in BOOLEAN
      OBVIOUS
    <3> HIDE DEF b
    <3> QED BY <3>1, <3>2
  <2> QED BY <1>6, <2>1, <2>2
<1> QED BY <1>1, <1>2, <1>3, <1>4, <1>5, <1>6, FlagSteps

Pc == Point \cup {"collect", "done", "dead"}

LEMMA ScanTypes ==
  ASSUME TypeOK, NEW after \in Pc, scan(after) PROVE pc' \in Pc /\ index' \in Slot
  BY IndexInRange, SlotZero DEF TypeOK, scan, Pc

LEMMA LoopTypes ==
  ASSUME TypeOK, [Next]_vars PROVE locked' \in BOOLEAN /\ pc' \in Pc /\ index' \in Slot
<1>1. locked \in BOOLEAN /\ pc \in Pc /\ index \in Slot
  BY DEF TypeOK, Pc
<1>2. CASE UNCHANGED <<locked, pc, index>>
  BY <1>1, <1>2
<1>3. CASE \/ Fork \/ Mark \/ Count \/ NoLaunch \/ Break \/ WakeAll \/ WakeNone \/ Unlock
           \/ Finish \/ Collect
  BY <1>1, <1>3
  DEF Fork, Mark, Count, NoLaunch, Break, WakeAll, WakeNone, Unlock, Finish, Collect, Pc, Point
<1>4. CASE Lock \/ Alarm \/ Interrupt
  BY <1>1, <1>4, SlotZero DEF Lock, Alarm, Interrupt, strike, Pc, Point
<1>5. ASSUME NoTermination \/ Terminate \/ NoRequest \/ ResourceAllocation
      PROVE  /\ UNCHANGED locked
             /\ scan("requests") \/ scan("wake") \/ (pc' = "requests" /\ index' = 0)
  BY <1>5 DEF NoTermination, Terminate, NoRequest, ResourceAllocation
<1>6. "requests" \in Pc /\ "wake" \in Pc
  BY DEF Pc, Point
<1> QED
  BY <1>1, <1>2, <1>3, <1>4, <1>5, <1>6, OssSteps, ScanTypes, SlotZero DEF ossVars

LEMMA QueueTypes ==
  ASSUME TypeOK, [Next]_vars PROVE q' \in Seq(Slot) /\ Len(q') <= Slots
<1>1. q \in Seq(Slot) /\ Len(q) <= Slots /\ index \in Slot /\ Slots \in Nat
  BY CountAssumption DEF TypeOK
<1>2. \A t \in Seq(Slot), s \in Slot : Len(t) <= Slots =>
        enqueue(t, s) \in Seq(Slot) /\ Len(enqueue(t, s)) <= Slots
  BY <1>1 DEF enqueue
<1>3. q # << >> => Head(q) \in Slot /\ Tail(q) \in Seq(Slot) /\ Len(Tail(q)) <= Slots
  BY <1>1
<1>4. CASE UNCHANGED q
  BY <1>1, <1>4
<1>5. CASE Terminate
  <2>1. UNCHANGED q \/ (q # << >> /\ (q' = Tail(q) \/ q' = enqueue(Tail(q), Head(q))))
    BY <1>5 DEF Terminate
  <2> QED BY <1>1, <1>2, <1>3, <2>1
<1>6. CASE ResourceAllocation
  <2>1. UNCHANGED q \/ q' = enqueue(q, index)
    BY <1>6 DEF ResourceAllocation, grant, suspend
  <2> QED BY <1>1, <1>2, <2>1
<1>7. CASE WakeAll \/ Finish \/ Interrupt
  <2>1. q' = << >>
    BY <1>7 DEF WakeAll, Finish, Interrupt, strike
  <2> QED BY <1>1, <2>1
<1> QED
  BY <1>4, <1>5, <1>6, <1>7, OssSteps
  DEF ossVars, Fork, Mark, Count, NoLaunch, Break, Lock, NoTermination, NoRequest, WakeNone,
      Unlock, Collect, Alarm

\* getAvailableLocation finds a slot that is not in use.
LEMMA FreeSlotIsFree ==
  ASSUME Fork PROVE Min(freeSlots) \in Slot /\ ~bitVector[Min(freeSlots)]
<1>1. freeSlots # {} /\ freeSlots \subseteq Nat
  BY DEF Fork, freeSlots, Slot
<1>2. Min(freeSlots) \in freeSlots
  BY <1>1, MinIsMember
<1> QED BY <1>2 DEF freeSlots

UserState == {"unborn", "boot", "claim", "draw", "load", "store", "loop", "check", "blocked",
              "gone", "left", "stranded"}

\* A launch that is under way is counted after it was forked, in a slot there is
\* room for; only an alarm leaves one uncounted, and then there is no other.
Launching ==
  /\ pc \in {"book", "count"} => forked = totalLaunched + 1 /\ currentLaunched < Slots
  /\ pc \in Point \ {"book", "count"} /\ ~stopLaunching => forked = totalLaunched
  /\ totalLaunched <= forked /\ forked <= totalLaunched + 1
  /\ \A p \in Pid : p > forked => user[p] = "unborn"

LEMMA BookTyping ==
  ASSUME TypeOK
  PROVE  /\ Slots \in Nat \ {0} /\ MaxLaunch \in Nat \ {0} /\ Pid \subseteq Nat
         /\ bitVector \in [Slot -> BOOLEAN] /\ slotOf \in [Pid -> Slot]
         /\ terminating \in [Slot -> BOOLEAN]
         /\ user \in [Pid -> UserState] /\ index \in Slot
         /\ currentLaunched \in -(MaxLaunch + 1) .. Slots
         /\ forked \in 0 .. MaxLaunch /\ totalLaunched \in 0 .. MaxLaunch
         /\ stopLaunching \in BOOLEAN /\ alarmed \in BOOLEAN
  BY CountAssumption DEF TypeOK, UserState, Pid

\* What there is when a process is forked.
LEMMA ForkShape ==
  ASSUME TypeOK, Launching, Fork
  PROVE  /\ forked = totalLaunched /\ forked' = forked + 1 /\ forked' \in Pid
         /\ Min(freeSlots) \in Slot /\ ~bitVector[Min(freeSlots)]
         /\ user[forked'] = "unborn" /\ user' = [user EXCEPT ![forked'] = "boot"]
         /\ slotOf' = [slotOf EXCEPT ![forked'] = Min(freeSlots)]
         /\ currentLaunched < Slots /\ pc = "top" /\ pc' = "book"
<1>1. pc = "top" /\ ~stopLaunching /\ totalLaunched < MaxLaunch /\ forked' = forked + 1
  BY BookTyping DEF Fork, noMoreLaunching
<1>2. forked = totalLaunched
  BY <1>1 DEF Launching, Point
<1>3. forked' \in Pid /\ forked' > forked
  BY <1>1, <1>2, BookTyping DEF Pid
<1>4. user[forked'] = "unborn"
  BY <1>3 DEF Launching
<1> QED BY <1>1, <1>2, <1>3, <1>4, FreeSlotIsFree DEF Fork

LEMMA CountedDown ==
  ASSUME TypeOK
  PROVE  /\ countedDown \in -(MaxLaunch + 1) .. Slots /\ countedDown >= currentLaunched - 1
         /\ countedDown <= currentLaunched - 1 \/ countedDown < 0
<1> DEFINE a == currentLaunched - 1
           b == totalLaunched - MaxLaunch - 1
<1>1. a \in Int /\ b \in Int /\ a >= -MaxLaunch - 2 /\ a < Slots /\ b < 0 /\ b >= -MaxLaunch - 1
  BY BookTyping
<1>2. countedDown = Max({a, b})
  BY DEF countedDown
<1> HIDE DEF a, b
<1>3. countedDown = IF a >= b THEN a ELSE b
  BY <1>1, <1>2, MaxOfTwo
<1>4. countedDown \in -(MaxLaunch + 1) .. Slots /\ countedDown >= a /\ (countedDown <= a \/ countedDown < 0)
  BY <1>1, <1>3, BookTyping
<1> QED BY <1>4 DEF a

LEMMA BookTypes ==
  ASSUME TypeOK, Launching, [Next]_vars
  PROVE  /\ bitVector' \in [Slot -> BOOLEAN] /\ forked' \in 0 .. MaxLaunch
         /\ currentLaunched' \in -(MaxLaunch + 1) .. Slots /\ totalLaunched' \in 0 .. MaxLaunch
         /\ stopLaunching' \in BOOLEAN /\ alarmed' \in BOOLEAN
<1>1. CASE UNCHANGED <<bitVector, countVars, alarmVars>>
  BY <1>1, BookTyping DEF countVars, alarmVars
<1>2. CASE Fork
  <2>1. UNCHANGED <<bitVector, currentLaunched, totalLaunched, stopLaunching, alarmed>>
    BY <1>2 DEF Fork, alarmVars
  <2> QED BY <1>2, <2>1, BookTyping, ForkShape DEF Pid
<1>3. CASE Mark
  BY <1>3, BookTyping DEF Mark, countVars, alarmVars
<1>4. CASE Count
  <2>1. forked = totalLaunched + 1 /\ currentLaunched < Slots
    BY <1>4 DEF Count, Launching
  <2>2. /\ currentLaunched' = currentLaunched + 1 /\ totalLaunched' = totalLaunched + 1
        /\ UNCHANGED <<bitVector, forked, stopLaunching, alarmed>>
    BY <1>4 DEF Count, alarmVars
  <2> QED BY <2>1, <2>2, BookTyping
<1>5. CASE Terminate
  <2>1. /\ bitVector' = [bitVector EXCEPT ![index] = FALSE] /\ currentLaunched' = countedDown
        /\ UNCHANGED <<forked, totalLaunched, stopLaunching, alarmed>>
    BY <1>5 DEF Terminate, resetDescription, alarmVars
  <2> HIDE DEF countedDown
  <2> QED BY <2>1, BookTyping, CountedDown
<1>6. CASE Alarm
  BY <1>6, BookTyping DEF Alarm, countVars
<1> QED
  BY <1>1, <1>2, <1>3, <1>4, <1>5, <1>6, OssSteps
  DEF ossVars, NoLaunch, Break, Lock, NoTermination, NoRequest, ResourceAllocation, WakeAll,
      WakeNone, Unlock, Finish, Collect, Interrupt

LEMMA CappedMail == ASSUME NEW n \in Nat PROVE Min({n, 2}) \in 0 .. 2
  BY MinOfTwo

LEMMA AdvanceTypes ==
  ASSUME TypeOK, NEW p \in Pid, advance(p)
  PROVE  user' \in [Pid -> UserState] /\ item' \in [Pid -> Resource]
<1>1. user \in [Pid -> UserState] /\ item \in [Pid -> Resource]
  BY DEF TypeOK, UserState
<1>2. item[p] # NumResources - 1 => item[p] + 1 \in Resource
  BY <1>1, CountAssumption DEF Resource
<1> QED BY <1>1, <1>2, SlotZero DEF advance, UserState

LEMMA PostedTypes ==
  ASSUME TypeOK, NEW slots \in Seq(Slot) PROVE posted(slots) \in [Pid -> 0 .. 2]
<1> DEFINE n(p) == Cardinality({i \in 1 .. Len(slots) : pidOf[slots[i]] = p})
<1>1. \A p \in Pid : n(p) \in Nat
  <2>1. IsFiniteSet(1 .. Len(slots))
    BY FS_Interval
  <2> QED BY <2>1, FS_Subset, FS_CardinalityType
<1>2. posted(slots) = [p \in Pid |-> IF user[p] = "gone" THEN mail[p] ELSE Min({mail[p] + n(p), 2})]
  BY DEF posted
<1> HIDE DEF n
<1>3. \A p \in Pid : mail[p] + n(p) \in Nat /\ mail[p] \in 0 .. 2
  BY <1>1 DEF TypeOK
<1> QED BY <1>2, <1>3, CappedMail

\* Where OSS kills processes the others are left to themselves.
LEMMA KillTypes ==
  ASSUME TypeOK, Finish \/ Interrupt
  PROVE  /\ user' \in [Pid -> UserState]
         /\ UNCHANGED <<slotOf, item, loaded, held, mail, forked, totalLaunched, currentLaunched,
                        stopLaunching, bitVector, terminating, pidOf, overtaken>>
         /\ \A p \in Pid : \/ user'[p] = user[p] /\ user[p] \in {"unborn", "gone"}
                           \/ /\ user[p] \notin {"unborn", "gone"}
                              /\ user'[p] \in {"gone", "left", "stranded"}
         /\ pc' \notin Point /\ pc \in Point
<1> DEFINE Killed(B, x) ==
      user' = [p \in Pid |-> IF p \in ended THEN user[p] ELSE IF p \in B THEN "gone" ELSE x]
<1>1. \E B : Killed(B, "left") \/ Killed(B, "stranded")
  <2>1. CASE Finish
    <3> DEFINE B == {p \in Pid : \E s \in queued : pidOf[s] = p}
    <3>1. Killed(B, "left")
      BY <2>1 DEF Finish
    <3> HIDE DEF B, Killed
    <3> QED BY <3>1
  <2>2. CASE Interrupt
    <3>1. PICK struck : strike(struck)
      BY <2>2, Zenon DEF Interrupt
    <3> DEFINE B == {p \in Pid : p \in struck \/ 0 \in struck}
    <3>2. Killed(B, "stranded")
      BY <3>1 DEF strike
    <3> HIDE DEF B, Killed
    <3> QED BY <3>2
  <2> QED BY <2>1, <2>2
<1>2. /\ UNCHANGED <<slotOf, item, loaded, held, mail, forked, totalLaunched, currentLaunched,
                     stopLaunching, bitVector, terminating, pidOf, overtaken>>
      /\ pc' \in {"done", "dead", "collect"} /\ pc \in Point
  BY RunAssumption
  DEF Finish, Interrupt, strike, startVars, countVars, alarmVars, flagVars, raceVars, Point
<1>3. user \in [Pid -> UserState]
  BY BookTyping
<1>4. /\ user' \in [Pid -> UserState]
      /\ \A p \in Pid : \/ user'[p] = user[p] /\ user[p] \in {"unborn", "gone"}
                        \/ /\ user[p] \notin {"unborn", "gone"}
                           /\ user'[p] \in {"gone", "left", "stranded"}
  BY <1>1, <1>3 DEF ended, UserState
<1> QED BY <1>2, <1>4 DEF Point

LEMMA UserTypes ==
  ASSUME TypeOK, Launching, [Next]_vars
  PROVE  /\ user' \in [Pid -> UserState] /\ slotOf' \in [Pid -> Slot]
         /\ item' \in [Pid -> Resource] /\ loaded' \in [Pid -> Int]
         /\ held' \in [Pid -> 0 .. HeldLimit] /\ mail' \in [Pid -> 0 .. 2]
<1>1. /\ user \in [Pid -> UserState] /\ slotOf \in [Pid -> Slot]
      /\ item \in [Pid -> Resource] /\ loaded \in [Pid -> Int]
      /\ held \in [Pid -> 0 .. HeldLimit] /\ mail \in [Pid -> 0 .. 2]
      /\ HeldLimit \in Nat \ {0} /\ q \in Seq(Slot)
  BY RunAssumption DEF TypeOK, UserState
<1>2. CASE UNCHANGED userVars
  BY <1>1, <1>2 DEF userVars, startVars
<1>3. CASE Fork
  BY <1>1, <1>3, ForkShape DEF Fork, startVars, UserState
<1>4. CASE Terminate
  <2>1. UNCHANGED mail \/ (q # << >> /\ mail' = posted(<<Head(q)>>))
    BY <1>4, Zenon DEF Terminate
  <2>2. q # << >> => <<Head(q)>> \in Seq(Slot)
    BY <1>1
  <2> QED BY <1>1, <1>4, <2>1, <2>2, PostedTypes DEF Terminate, startVars
<1>5. CASE WakeAll
  BY <1>1, <1>5, PostedTypes DEF WakeAll, startVars
<1>6. CASE Finish \/ Interrupt
  BY <1>1, <1>6, KillTypes
<1>7. ASSUME NEW p \in Pid, Boot(p) \/ Claim(p) \/ Load(p) \/ Pass(p) \/ GiveUp(p) \/ Request(p)
                            \/ Suspend(p) \/ Withdraw(p)
      PROVE  /\ \E x \in UserState : user' = [user EXCEPT ![p] = x]
             /\ UNCHANGED <<slotOf, held, mail>>
             /\ UNCHANGED item \/ item' = [item EXCEPT ![p] = 0]
             /\ UNCHANGED loaded \/ loaded' = [loaded EXCEPT ![p] = avail[item[p]]]
  BY <1>7 DEF Boot, Claim, Load, Pass, GiveUp, Request, Suspend, Withdraw, visit, startVars,
              UserState
<1>8. ASSUME NEW p \in Pid, Draw(p)
      PROVE  /\ user' \in [Pid -> UserState] /\ item' \in [Pid -> Resource]
             /\ UNCHANGED <<slotOf, loaded, held, mail>>
  <2>1. UNCHANGED <<slotOf, loaded, held, mail>>
    BY <1>8 DEF Draw
  <2>2. advance(p) \/ (UNCHANGED item /\ \E x \in {"load", "gone"} : user' = [user EXCEPT ![p] = x])
    BY <1>8, DrawCases
  <2> QED BY <1>1, <2>1, <2>2, AdvanceTypes DEF UserState
<1>9. ASSUME NEW p \in Pid, Store(p)
      PROVE  /\ user' \in [Pid -> UserState] /\ item' \in [Pid -> Resource]
             /\ UNCHANGED <<slotOf, held, mail>> /\ loaded' = [loaded EXCEPT ![p] = 0]
  BY <1>9, AdvanceTypes DEF Store
<1>10. ASSUME NEW p \in Pid, Hold(p)
       PROVE  /\ UNCHANGED <<slotOf, item, loaded, mail>>
              /\ user' = [user EXCEPT ![p] = "check"] /\ held' \in [Pid -> 0 .. HeldLimit]
  <2>1. Min({held[p] + 1, HeldLimit}) \in 0 .. HeldLimit
    <3>1. held[p] + 1 \in Nat /\ HeldLimit \in Nat
      BY <1>1
    <3> QED BY <3>1, MinOfTwo
  <2> QED BY <1>1, <1>10, <2>1 DEF Hold, visit, startVars
<1>11. ASSUME NEW p \in Pid, Awake(p) \/ Check(p)
       PROVE  /\ UNCHANGED <<slotOf, item, loaded>>
              /\ user' = [user EXCEPT ![p] = "loop"] \/ user' = [user EXCEPT ![p] = "gone"]
              /\ held' \in [Pid -> 0 .. HeldLimit] /\ mail' \in [Pid -> 0 .. 2]
  <2>1. \/ UNCHANGED <<held, mail>>
        \/ held' = [held EXCEPT ![p] = 0] /\ mail' = [mail EXCEPT ![p] = 0]
        \/ /\ UNCHANGED held /\ mail[p] > 0
           /\ \E m \in {mail[p] - 1} \cup ({mail[p]} \cap {2}) : mail' = [mail EXCEPT ![p] = m]
    BY <1>11 DEF Awake, Check
  <2>2. held' \in [Pid -> 0 .. HeldLimit] /\ mail' \in [Pid -> 0 .. 2]
    <3>1. 0 \in 0 .. HeldLimit
      BY <1>1
    <3>2. \A m \in {mail[p] - 1} \cup ({mail[p]} \cap {2}) : mail[p] > 0 => m \in 0 .. 2
      BY <1>1
    <3>3. \A m \in 0 .. 2 : [mail EXCEPT ![p] = m] \in [Pid -> 0 .. 2]
      BY <1>1
    <3>4. mail' \in [Pid -> 0 .. 2]
      BY <1>1, <2>1, <3>2, <3>3
    <3> QED BY <1>1, <2>1, <3>1, <3>4
  <2> QED BY <1>11, <2>2 DEF Awake, Check, startVars
<1>12. ASSUME NEW p \in Pid, UserStep(p)
       PROVE  /\ user' \in [Pid -> UserState] /\ slotOf' \in [Pid -> Slot]
              /\ item' \in [Pid -> Resource] /\ loaded' \in [Pid -> Int]
              /\ held' \in [Pid -> 0 .. HeldLimit] /\ mail' \in [Pid -> 0 .. 2]
  <2>1. CASE Boot(p) \/ Claim(p) \/ Load(p) \/ Pass(p) \/ GiveUp(p) \/ Request(p)
             \/ Suspend(p) \/ Withdraw(p)
    <3>1. avail[item[p]] \in Int
      BY <1>1 DEF TypeOK
    <3> QED BY <1>1, <1>7, <2>1, <3>1, SlotZero
  <2>2. CASE Draw(p) \/ Store(p)
    BY <1>1, <1>8, <1>9, <2>2
  <2>3. CASE Hold(p) \/ Awake(p) \/ Check(p)
    BY <1>1, <1>10, <1>11, <2>3 DEF UserState
  <2> QED BY <1>12, <2>1, <2>2, <2>3 DEF UserStep, Start, Visit
<1> QED
  BY <1>2, <1>3, <1>4, <1>5, <1>6, <1>12, UserSteps

LEMMA RaceTypes ==
  ASSUME TypeOK, [Next]_vars PROVE overtaken' \subseteq Slot /\ overlapped' \in BOOLEAN
<1>1. overtaken \subseteq Slot /\ overlapped \in BOOLEAN /\ locked \in BOOLEAN /\ index \in Slot
  BY DEF TypeOK
<1>2. CASE UNCHANGED raceVars
  BY <1>1, <1>2 DEF raceVars
<1>3. Terminate => overtaken' \in {overtaken, overtaken \cup {index}}
  BY DEF Terminate
<1>4. (Lock \/ \E p \in Pid : Claim(p)) => overlapped' \in BOOLEAN
  BY DEF Lock, Claim
<1> QED BY <1>1, <1>2, <1>3, <1>4, RaceSteps

\* What a user's step leaves to OSS, whatever it is.
LEMMA UserFrame ==
  ASSUME TypeOK, NEW p \in Pid, UserStep(p)
  PROVE  /\ UNCHANGED <<bitVector, forked, currentLaunched, totalLaunched, stopLaunching, slotOf,
                        pc, index, locked, overtaken>>
         /\ user[p] \notin {"unborn", "gone", "left", "stranded"}
         /\ \E x \in UserState \ {"unborn", "left", "stranded"} : user' = [user EXCEPT ![p] = x]
<1>1. UNCHANGED <<ossVars, slotOf, overtaken>>
  BY DEF UserStep, Start, Visit, Boot, Claim, Draw, Load, Store, Pass, GiveUp, Hold, Request,
         Suspend, Withdraw, visit, Awake, Check, raceVars
<1>2. CASE Draw(p) \/ Store(p)
  <2>1. user[p] \in {"draw", "store"}
    BY <1>2 DEF Draw, Store
  <2>2. \E x \in {"draw", "load", "loop", "gone"} : user' = [user EXCEPT ![p] = x]
    BY <1>2 DEF Draw, Store, advance
  <2> QED BY <1>1, <2>1, <2>2 DEF ossVars, countVars, alarmVars, UserState
<1>3. CASE ~(Draw(p) \/ Store(p))
  <2>1. /\ user[p] \in {"boot", "claim", "load", "loop", "blocked", "check"}
        /\ \E x \in {"claim", "draw", "store", "loop", "check", "blocked", "gone"} :
             user' = [user EXCEPT ![p] = x]
    BY <1>3 DEF UserStep, Start, Visit, Boot, Claim, Load, Pass, GiveUp, Hold, Request,
                Suspend, Withdraw, visit, Awake, Check
  <2> QED BY <1>1, <2>1 DEF ossVars, countVars, alarmVars, UserState
<1> QED BY <1>2, <1>3

LEMMA LaunchingKept ==
  ASSUME TypeOK, Launching, [Next]_vars PROVE Launching'
<1> USE BookTyping DEF Launching
<1>1. CASE \E p \in Pid : UserStep(p)
  <2>1. PICK p \in Pid : UserStep(p)
    BY <1>1
  <2>2. /\ UNCHANGED <<forked, currentLaunched, totalLaunched, stopLaunching, pc>>
        /\ user[p] # "unborn" /\ \E x : user' = [user EXCEPT ![p] = x]
    BY <2>1, UserFrame
  <2> QED BY <2>2
<1>2. CASE Fork
  <2>1. UNCHANGED <<currentLaunched, totalLaunched>>
    BY <1>2 DEF Fork
  <2> QED BY <1>2, <2>1, ForkShape DEF Point
<1>3. CASE Mark
  BY <1>3 DEF Mark, countVars, alarmVars, userVars
<1>4. CASE Count
  BY <1>4 DEF Count, alarmVars, userVars, Point
<1>5. CASE Alarm
  BY <1>5 DEF Alarm, countVars, userVars, Point
<1>6. CASE NoLaunch \/ Break \/ Lock \/ NoTermination \/ Terminate \/ NoRequest
           \/ ResourceAllocation \/ WakeAll \/ WakeNone \/ Unlock \/ Collect
  <2>1. UNCHANGED <<forked, totalLaunched, stopLaunching, user>>
    BY <1>6 DEF NoLaunch, Break, Lock, NoTermination, Terminate, NoRequest, ResourceAllocation,
                WakeAll, WakeNone, Unlock, Collect, countVars, alarmVars, userVars
  <2>2. pc' \notin {"book", "count"} /\ (pc' \in Point => pc \in Point \ {"book", "count"})
    BY <1>6 DEF NoLaunch, Break, Lock, NoTermination, Terminate, NoRequest, ResourceAllocation,
                WakeAll, WakeNone, Unlock, Collect, scan, Point
  <2> QED BY <2>1, <2>2
<1>7. CASE Finish \/ Interrupt
  <2>1. pc' \notin Point /\ pc' \notin {"book", "count"}
    BY <1>7, KillTypes DEF Point
  <2>2. /\ UNCHANGED <<forked, totalLaunched>>
        /\ \A p \in Pid : user[p] = "unborn" => user'[p] = "unborn"
    BY <1>7, KillTypes
  <2> QED BY <2>1, <2>2
<1>8. CASE Ended \/ UNCHANGED vars
  BY <1>8 DEF Ended, vars, ossVars, countVars, alarmVars, userVars
<1> QED
  BY <1>1, <1>2, <1>3, <1>4, <1>5, <1>6, <1>7, <1>8 DEF Next, OssStep

LEMMA TypesKept == TypeOK /\ Launching /\ [Next]_vars => TypeOK' /\ Launching'
<1> SUFFICES ASSUME TypeOK, Launching, [Next]_vars PROVE TypeOK' /\ Launching'
  OBVIOUS
<1>1. pidOf' \in [Slot -> Pid \cup {0}]
  <2>1. pidOf \in [Slot -> Pid \cup {0}]
    BY DEF TypeOK
  <2> QED BY <2>1, BootSteps DEF Boot
<1> QED
  BY <1>1, MatrixTypes, FlagTypes, LoopTypes, QueueTypes, BookTypes, UserTypes, RaceTypes,
     LaunchingKept
  DEF TypeOK, Pc, UserState

LEMMA InitTypes == Init => TypeOK /\ Launching
<1> SUFFICES ASSUME Init PROVE TypeOK /\ Launching
  OBVIOUS
<1>1. Nothing \in [Resource -> Nat] /\ Nothing \in [Resource -> Int]
  BY DEF Nothing
<1>2. /\ avail \in [Resource -> Int]
      /\ req \in [Slot -> [Resource -> Nat]] /\ alloc \in [Slot -> [Resource -> Nat]]
  BY <1>1, ClaimAssumption DEF Init
<1>3. q \in Seq(Slot) /\ Len(q) <= Slots
  BY CountAssumption DEF Init
<1>4. /\ user \in [Pid -> UserState] /\ slotOf \in [Pid -> Slot]
      /\ item \in [Pid -> Resource] /\ loaded \in [Pid -> Int]
      /\ held \in [Pid -> 0 .. HeldLimit] /\ mail \in [Pid -> 0 .. 2]
  BY SlotZero, RunAssumption DEF Init, UserState
<1>5. /\ currentLaunched \in -(MaxLaunch + 1) .. Slots /\ totalLaunched \in 0 .. MaxLaunch
      /\ forked \in 0 .. MaxLaunch
  BY CountAssumption DEF Init
<1>6. Launching
  BY DEF Init, Launching
<1> QED
  BY <1>2, <1>3, <1>4, <1>5, <1>6, SlotZero DEF Init, TypeOK, UserState, Point

\* Every slot, resource, process and count that OSS and the users compute is one
\* the descriptor has, whatever order they come in and wherever OSS is struck.
THEOREM TypeCorrect == Spec => []TypeOK
<1>1. TypeOK /\ Launching /\ [Next]_vars => (TypeOK /\ Launching)'
  BY TypesKept
<1> QED BY <1>1, InitTypes, PTL DEF Spec

-----------------------------------------------------------------------------
(* The scan of the requests *)

Scanning == {"terms", "requests", "wake", "unlock"}

\* OSS scans with the semaphore in its hands, and leaves no request undecided
\* behind it.
DecidedSoFar ==
  /\ pc \in Scanning => locked
  /\ Verbose => /\ pc = "requests" => \A s \in Slot : s < index => ~request[s]
                /\ pc = "wake" => \A s \in Slot : ~request[s]

LEMMA ScanDecides ==
  ASSUME TypeOK, pc = "requests", scan("wake"),
         \A s \in Slot : s <= index => ~request'[s]
  PROVE  /\ pc' \in {"requests", "wake"}
         /\ pc' = "requests" => \A s \in Slot : s < index' => ~request'[s]
         /\ pc' = "wake" => \A s \in Slot : ~request'[s]
  BY CountAssumption DEF TypeOK, scan, Slot

LEMMA DecidedKept == TypeOK /\ DecidedSoFar /\ [Next]_vars => DecidedSoFar'
<1> SUFFICES ASSUME TypeOK, DecidedSoFar, [Next]_vars PROVE DecidedSoFar'
  OBVIOUS
<1>1. index \in Slot /\ request \in [Slot -> BOOLEAN] /\ Slot \subseteq Int
  BY DEF TypeOK, Slot
<1>2. CASE \E p \in Pid : UserStep(p)
  <2>1. PICK p \in Pid : UserStep(p)
    BY <1>2
  <2>2. UNCHANGED <<locked, pc, index>> /\ (locked => UNCHANGED request)
    BY <2>1 DEF UserStep, Start, Visit, Boot, Claim, Draw, Load, Store, Pass, GiveUp, Hold,
                Request, Suspend, Withdraw, visit, Awake, Check, ossVars, flagVars
  <2> QED BY <2>2 DEF DecidedSoFar, Scanning
<1>3. CASE \/ Fork \/ Mark \/ Count \/ NoLaunch \/ Break \/ Unlock \/ Finish \/ Collect
           \/ Alarm \/ Interrupt
  BY <1>3 DEF Fork, Mark, Count, NoLaunch, Break, Unlock, Finish, Collect, Alarm, Interrupt,
              strike, DecidedSoFar, Scanning
<1>4. CASE Lock
  BY <1>4 DEF Lock, DecidedSoFar, Scanning
<1>5. CASE NoTermination \/ Terminate
  <2>1. /\ UNCHANGED locked /\ locked /\ pc' \in {"terms", "requests"}
        /\ pc' = "requests" => index' = 0
    BY <1>5 DEF NoTermination, Terminate, scan, DecidedSoFar, Scanning
  <2> QED BY <2>1 DEF DecidedSoFar, Scanning, Slot
<1>6. CASE NoRequest
  <2>1. UNCHANGED <<locked, request>> /\ ~request[index] /\ pc = "requests" /\ scan("wake")
    BY <1>6 DEF NoRequest, flagVars
  <2>2. Verbose => \A s \in Slot : s <= index => ~request'[s]
    BY <1>1, <2>1 DEF DecidedSoFar
  <2>3. pc' \in {"requests", "wake"}
    BY <2>1 DEF scan
  <2> QED BY <2>1, <2>2, <2>3, ScanDecides DEF DecidedSoFar, Scanning
<1>7. CASE ResourceAllocation
  <2>1. UNCHANGED locked /\ pc = "requests" /\ scan("wake")
    BY <1>7 DEF ResourceAllocation
  <2>2. Verbose => request' = [request EXCEPT ![index] = FALSE]
    BY <1>7 DEF ResourceAllocation, grant, suspend
  <2>3. Verbose => \A s \in Slot : s <= index => ~request'[s]
    BY <1>1, <2>1, <2>2 DEF DecidedSoFar
  <2>4. pc' \in {"requests", "wake"}
    BY <2>1 DEF scan
  <2> QED BY <2>1, <2>3, <2>4, ScanDecides DEF DecidedSoFar, Scanning
<1>8. CASE WakeAll \/ WakeNone
  BY <1>8 DEF WakeAll, WakeNone, DecidedSoFar, Scanning
<1>9. CASE Ended \/ UNCHANGED vars
  BY <1>9 DEF Ended, vars, ossVars, flagVars, DecidedSoFar
<1> QED
  BY <1>2, <1>3, <1>4, <1>5, <1>6, <1>7, <1>8, <1>9 DEF Next, OssStep

\* With -v, OSS comes out of the scan of the requests with every one granted or
\* suspended; no user can have added one, because OSS has the semaphore.
THEOREM Decided == Spec => []RequestsDecided
<1>1. Init => DecidedSoFar
  BY DEF Init, DecidedSoFar, Scanning
<1>2. DecidedSoFar => RequestsDecided
  BY DEF DecidedSoFar, RequestsDecided
<1> QED BY <1>1, <1>2, InitTypes, TypesKept, DecidedKept, PTL DEF Spec

-----------------------------------------------------------------------------
(* The slots and their processes *)

\* The slot of a process that was forked and not counted.
unbooked(s) == forked > totalLaunched /\ s = slotOf[forked]

LastIsMarked ==
  /\ pc = "book"  => ~bitVector[slotOf[forked]]
  /\ pc = "count" => bitVector[slotOf[forked]]

\* A process is in a slot in use, or is the last one forked, which has none yet; the
\* slots of which a process was overtaken are left out of all this.
LivingInUse ==
  \A p \in living : slotOf[p] \notin overtaken =>
    bitVector[slotOf[p]] \/ (p = forked /\ forked > totalLaunched)

LeavingInUse == \A s \in Slot \ overtaken : terminating[s] => bitVector[s] \/ unbooked(s)

LeavingCheck ==
  \A p \in living : slotOf[p] \notin overtaken /\ terminating[slotOf[p]] =>
    user[p] \in {"check", "left", "stranded"}

NoneStranded == pc \in Point => \A p \in Pid : user[p] \notin {"left", "stranded"}

gap == Cardinality(used) - currentLaunched

NeverAhead == gap >= IF pc = "count" THEN 1 ELSE 0

\* A slot that is not in use and will all the same be counted down for a process.
loose(s) == ~bitVector[s] /\ (terminating[s] \/ \E p \in living : slotOf[p] = s)

NotBehind ==
  overtaken = {} =>
    /\ gap <= forked - totalLaunched
    /\ pc = "book" \/ (\E s \in Slot : loose(s)) => gap <= 0

\* What the slots, the processes and the counts know of each other.
Accounted ==
  /\ LastIsMarked /\ OwnSlots /\ LivingInUse /\ LeavingInUse /\ LeavingCheck
  /\ NoneStranded /\ NeverAhead /\ NotBehind

Booked == TypeOK /\ Launching /\ Accounted

LEMMA UsedIsFinite == IsFiniteSet(used) /\ Cardinality(used) \in Nat
<1>1. IsFiniteSet(Slot)
  BY CountAssumption, FS_Interval DEF Slot
<1>2. used \subseteq Slot
  BY DEF used
<1> QED BY <1>1, <1>2, FS_Subset, FS_CardinalityType

LEMMA BookedTyping ==
  ASSUME Booked
  PROVE  /\ TypeOK /\ Launching
         /\ Slots \in Nat \ {0} /\ MaxLaunch \in Nat \ {0} /\ Pid \subseteq Nat
         /\ bitVector \in [Slot -> BOOLEAN] /\ slotOf \in [Pid -> Slot]
         /\ terminating \in [Slot -> BOOLEAN]
         /\ user \in [Pid -> UserState] /\ index \in Slot /\ living \subseteq Pid
         /\ overtaken \subseteq Slot
         /\ currentLaunched \in Int /\ forked \in Nat /\ totalLaunched \in Nat
         /\ gap \in Int
<1>1. TypeOK
  BY DEF Booked
<1> QED BY <1>1, BookTyping, UsedIsFinite DEF Booked, TypeOK, living, gap

\* The last process that was forked is one, while its launch is under way.
LEMMA LastIsProcess ==
  ASSUME Booked, forked > totalLaunched PROVE forked \in Pid /\ slotOf[forked] \in Slot
<1>1. forked \in 0 .. MaxLaunch /\ totalLaunched \in 0 .. MaxLaunch /\ slotOf \in [Pid -> Slot]
  BY BookTyping DEF Booked
<1>2. forked \in Pid
  BY <1>1 DEF Pid
<1> QED BY <1>1, <1>2

\* How a step of a user looks to OSS: the user asks to terminate, or it goes on,
\* and is gone if it sees that it asked to.
LEMMA UserStepShape ==
  ASSUME TypeOK, NEW p \in Pid, UserStep(p)
  PROVE  \E x \in UserState \ {"unborn", "left", "stranded"} :
           /\ user' = [user EXCEPT ![p] = x]
           /\ \/ /\ UNCHANGED terminating
                 /\ user[p] = "check" /\ terminating[slotOf[p]] => x = "gone"
              \/ /\ user[p] = "loop" /\ x = "check"
                 /\ \E b \in BOOLEAN : terminating' = [terminating EXCEPT ![slotOf[p]] = b]
<1> USE DEF flagVars, UserState
<1>1. CASE Boot(p) \/ Claim(p) \/ Load(p) \/ Suspend(p) \/ Awake(p)
  BY <1>1 DEF Boot, Claim, Load, Suspend, Awake
<1>2. CASE Draw(p) \/ Store(p)
  <2>1. UNCHANGED terminating /\ user[p] \in {"draw", "store"}
    BY <1>2 DEF Draw, Store
  <2>2. \E x \in {"draw", "load", "loop", "gone"} : user' = [user EXCEPT ![p] = x]
    BY <1>2 DEF Draw, Store, advance
  <2> QED BY <2>1, <2>2
<1>3. CASE Pass(p) \/ Request(p) \/ Withdraw(p)
  BY <1>3 DEF Pass, Request, Withdraw, visit
<1>4. CASE GiveUp(p)
  BY <1>4 DEF GiveUp, visit
<1>5. CASE Hold(p)
  <2> DEFINE b == terminating[slotOf[p]] \/ held[p] + 1 >= HeldLimit
  <2>1. /\ user[p] = "loop" /\ user' = [user EXCEPT ![p] = "check"]
        /\ terminating' = [terminating EXCEPT ![slotOf[p]] = b]
    BY <1>5, Zenon DEF Hold, visit
  <2>2. b \in BOOLEAN
    OBVIOUS
  <2> HIDE DEF b
  <2> QED BY <2>1, <2>2
<1>6. CASE Check(p)
  BY <1>6 DEF Check
<1> QED BY <1>1, <1>2, <1>3, <1>4, <1>5, <1>6 DEF UserStep, Start, Visit

LEMMA UserKeepsAccounts ==
  ASSUME Booked, NEW p \in Pid, UserStep(p) PROVE Accounted'
<1>1. PICK x \in UserState \ {"unborn", "left", "stranded"} :
        /\ user' = [user EXCEPT ![p] = x]
        /\ \/ /\ UNCHANGED terminating
              /\ user[p] = "check" /\ terminating[slotOf[p]] => x = "gone"
           \/ /\ user[p] = "loop" /\ x = "check"
              /\ \E b \in BOOLEAN : terminating' = [terminating EXCEPT ![slotOf[p]] = b]
  BY BookedTyping, UserStepShape
<1>2. /\ UNCHANGED <<bitVector, forked, currentLaunched, totalLaunched, slotOf, pc, overtaken>>
      /\ p \in living /\ user[p] \notin {"left", "stranded"}
  BY BookedTyping, UserFrame DEF living
<1>3. /\ user \in [Pid -> UserState] /\ slotOf \in [Pid -> Slot]
      /\ terminating \in [Slot -> BOOLEAN] /\ living \subseteq Pid
  BY BookedTyping
<1>4. living' \subseteq living /\ \A o \in Pid \ {p} : user'[o] = user[o]
  BY <1>1, <1>2, <1>3 DEF living
<1>5. LastIsMarked' /\ OwnSlots' /\ LivingInUse' /\ NeverAhead'
  BY <1>2, <1>4
  DEF Booked, Accounted, LastIsMarked, OwnSlots, LivingInUse, NeverAhead, gap, used
<1>6. NoneStranded'
  BY <1>1, <1>2, <1>3 DEF Booked, Accounted, NoneStranded
<1>7. \A s \in Slot : terminating'[s] => terminating[s] \/ s = slotOf[p]
  BY <1>1, <1>3
<1>8. LeavingInUse'
  <2>1. slotOf[p] \notin overtaken => bitVector[slotOf[p]] \/ unbooked(slotOf[p])
    BY <1>2 DEF Booked, Accounted, LivingInUse, unbooked
  <2> QED BY <1>2, <1>7, <2>1 DEF Booked, Accounted, LeavingInUse, unbooked
<1>9. LeavingCheck'
  <2> SUFFICES ASSUME NEW o \in living', slotOf[o] \notin overtaken, terminating'[slotOf[o]]
               PROVE  user'[o] \in {"check", "left", "stranded"}
    BY <1>2 DEF LeavingCheck
  <2>1. CASE o = p
    <3>1. x # "gone"
      BY <1>1, <1>3, <2>1 DEF living
    <3>2. x = "check"
      BY <1>1, <1>2, <2>1, <3>1 DEF Booked, Accounted, LeavingCheck
    <3> QED BY <1>1, <1>3, <2>1, <3>2
  <2>2. CASE o # p
    <3>1. o \in living /\ user'[o] = user[o] /\ slotOf[o] # slotOf[p] /\ slotOf[o] \in Slot
      BY <1>2, <1>3, <1>4, <2>2 DEF Booked, Accounted, OwnSlots
    <3>2. terminating[slotOf[o]]
      BY <1>7, <3>1
    <3> QED BY <3>1, <3>2 DEF Booked, Accounted, LeavingCheck
  <2> QED BY <2>1, <2>2
<1>10. NotBehind'
  <2>1. ASSUME NEW s \in Slot, loose(s)' PROVE loose(s)
    BY <1>2, <1>4, <1>7, <2>1 DEF loose
  <2>2. gap' = gap
    BY <1>2 DEF gap, used
  <2> QED BY <1>2, <2>1, <2>2 DEF Booked, Accounted, NotBehind
<1> QED BY <1>5, <1>6, <1>8, <1>9, <1>10 DEF Accounted

LEMMA ForkKeepsAccounts == ASSUME Booked, Fork PROVE Accounted'
<1> DEFINE s == Min(freeSlots)
           p == forked'
<1>1. /\ forked = totalLaunched /\ p = forked + 1 /\ p \in Pid
      /\ s \in Slot /\ ~bitVector[s] /\ user[p] = "unborn"
      /\ user' = [user EXCEPT ![p] = "boot"] /\ slotOf' = [slotOf EXCEPT ![p] = s]
      /\ pc = "top" /\ pc' = "book"
  BY BookedTyping, ForkShape
<1>2. UNCHANGED <<bitVector, currentLaunched, totalLaunched, terminating, overtaken>>
  BY DEF Fork, flagVars, raceVars
<1> HIDE DEF s
<1>3. PICK n \in Pid : n = p
  BY <1>1
<1>4. /\ user \in [Pid -> UserState] /\ slotOf \in [Pid -> Slot] /\ forked \in Nat
      /\ living \subseteq Pid /\ gap \in Int /\ totalLaunched \in Nat
  BY BookedTyping
<1>5. /\ living' = living \cup {n} /\ n \notin living /\ slotOf'[n] = s /\ user'[n] = "boot"
      /\ \A o \in Pid \ {n} : slotOf'[o] = slotOf[o] /\ user'[o] = user[o]
  BY <1>1, <1>3, <1>4 DEF living
<1>6. \A o \in living : slotOf[o] \notin overtaken => bitVector[slotOf[o]]
  BY <1>1, <1>4 DEF Booked, Accounted, LivingInUse
<1>7. \A t \in Slot \ overtaken : terminating[t] => bitVector[t]
  BY <1>1, <1>4 DEF Booked, Accounted, LeavingInUse, unbooked
<1>8. LastIsMarked'
  BY <1>1, <1>2, <1>3, <1>5 DEF LastIsMarked
<1>9. OwnSlots'
  BY <1>1, <1>2, <1>5, <1>6 DEF Booked, Accounted, OwnSlots
<1>10. LivingInUse'
  BY <1>1, <1>2, <1>3, <1>4, <1>5, <1>6 DEF LivingInUse
<1>11. LeavingInUse'
  BY <1>2, <1>7 DEF LeavingInUse
<1>12. LeavingCheck'
  BY <1>1, <1>2, <1>4, <1>5, <1>7 DEF Booked, Accounted, LeavingCheck
<1>13. NoneStranded'
  BY <1>1, <1>5 DEF Booked, Accounted, NoneStranded, Point
<1>14. NeverAhead' /\ NotBehind'
  <2>1. gap' = gap
    BY <1>2 DEF gap, used
  <2>2. gap >= 0 /\ (overtaken = {} => gap <= 0)
    BY <1>1, <1>4 DEF Booked, Accounted, NeverAhead, NotBehind
  <2> QED BY <1>1, <1>2, <1>4, <2>1, <2>2 DEF NeverAhead, NotBehind
<1> QED
  BY <1>8, <1>9, <1>10, <1>11, <1>12, <1>13, <1>14 DEF Accounted

LEMMA MarkKeepsAccounts == ASSUME Booked, Mark PROVE Accounted'
<1> DEFINE s == slotOf[forked]
<1>1. /\ pc = "book" /\ pc' = "count" /\ bitVector' = [bitVector EXCEPT ![s] = TRUE]
      /\ UNCHANGED <<forked, currentLaunched, totalLaunched, user, slotOf, terminating, overtaken>>
  BY DEF Mark, countVars, flagVars, userVars, raceVars
<1>2. /\ forked = totalLaunched + 1 /\ totalLaunched \in Nat /\ bitVector \in [Slot -> BOOLEAN]
      /\ gap \in Int /\ slotOf \in [Pid -> Slot] /\ living \subseteq Pid
  BY <1>1, BookedTyping DEF Launching
<1>3. s \in Slot /\ ~bitVector[s]
  BY <1>1, <1>2, LastIsProcess DEF Booked, Accounted, LastIsMarked
<1>4. living' = living
  BY <1>1 DEF living
<1>5. LastIsMarked'
  BY <1>1, <1>2, <1>3 DEF LastIsMarked
<1>6. OwnSlots' /\ LeavingCheck' /\ NoneStranded'
  BY <1>1, <1>4 DEF Booked, Accounted, OwnSlots, LeavingCheck, NoneStranded, Point
<1>7. LivingInUse'
  BY <1>1, <1>2, <1>3, <1>4 DEF Booked, Accounted, LivingInUse
<1>8. LeavingInUse'
  BY <1>1, <1>2, <1>3 DEF Booked, Accounted, LeavingInUse, unbooked
<1>9. gap' = gap + 1
  <2>1. used' = used \cup {s} /\ s \notin used
    BY <1>1, <1>2, <1>3 DEF used
  <2>2. Cardinality(used') = Cardinality(used) + 1
    BY <2>1, UsedIsFinite, FS_AddElement
  <2> QED BY <1>1, <2>2, UsedIsFinite, BookedTyping DEF gap
<1>10. NeverAhead'
  BY <1>1, <1>2, <1>9 DEF Booked, Accounted, NeverAhead
<1>11. NotBehind'
  <2>1. ASSUME NEW t \in Slot, loose(t)', overtaken = {} PROVE FALSE
    <3>1. t # s /\ ~bitVector[t] /\ (terminating[t] \/ \E p \in living : slotOf[p] = t)
      BY <1>1, <1>2, <1>4, <2>1 DEF loose
    <3>2. ~terminating[t]
      BY <2>1, <3>1 DEF Booked, Accounted, LeavingInUse, unbooked
    <3> QED BY <2>1, <3>1, <3>2 DEF Booked, Accounted, LivingInUse
  <2>2. overtaken = {} => gap <= 0
    BY <1>1 DEF Booked, Accounted, NotBehind
  <2> QED BY <1>1, <1>2, <1>9, <2>1, <2>2 DEF NotBehind
<1> QED BY <1>5, <1>6, <1>7, <1>8, <1>10, <1>11 DEF Accounted

LEMMA CountKeepsAccounts == ASSUME Booked, Count PROVE Accounted'
<1>1. /\ pc = "count" /\ pc' = "lock"
      /\ currentLaunched' = currentLaunched + 1 /\ totalLaunched' = totalLaunched + 1
      /\ UNCHANGED <<forked, bitVector, user, slotOf, terminating, overtaken>>
  BY DEF Count, flagVars, userVars, raceVars
<1>2. /\ forked = totalLaunched + 1 /\ totalLaunched \in Nat /\ gap \in Int
      /\ currentLaunched \in Int
  BY <1>1, BookedTyping DEF Launching
<1>3. bitVector[slotOf[forked]] /\ living' = living
  BY <1>1 DEF Booked, Accounted, LastIsMarked, living
<1>4. gap' = gap - 1
  BY <1>1, <1>2, UsedIsFinite DEF gap, used
<1>5. LastIsMarked' /\ OwnSlots' /\ LeavingCheck' /\ NoneStranded'
  BY <1>1, <1>3 DEF Booked, Accounted, LastIsMarked, OwnSlots, LeavingCheck, NoneStranded, Point
<1>6. LivingInUse'
  BY <1>1, <1>3 DEF Booked, Accounted, LivingInUse
<1>7. LeavingInUse'
  BY <1>1, <1>3 DEF Booked, Accounted, LeavingInUse, unbooked
<1>8. NeverAhead'
  BY <1>1, <1>2, <1>4 DEF Booked, Accounted, NeverAhead
<1>9. NotBehind'
  <2>1. \A s \in Slot : loose(s)' <=> loose(s)
    BY <1>1, <1>3 DEF loose
  <2> QED BY <1>1, <1>2, <1>4, <2>1 DEF Booked, Accounted, NotBehind
<1> QED BY <1>5, <1>6, <1>7, <1>8, <1>9 DEF Accounted

LEMMA TerminateKeepsAccounts == ASSUME Booked, Terminate PROVE Accounted'
<1>1. /\ pc = "terms" /\ terminating[index] /\ pc' \in {"terms", "requests"}
      /\ bitVector' = [bitVector EXCEPT ![index] = FALSE]
      /\ terminating' = [terminating EXCEPT ![index] = FALSE]
      /\ currentLaunched' = countedDown
      /\ UNCHANGED <<user, slotOf, forked, totalLaunched>>
  BY DEF Terminate, resetDescription, scan
<1>2. /\ overtaken \subseteq overtaken' /\ overtaken' \subseteq overtaken \cup {index}
      /\ index \in overtaken' \/ ~\E p \in Pid : user[p] = "check" /\ slotOf[p] = index
  BY DEF Terminate
<1>3. /\ index \in Slot /\ bitVector \in [Slot -> BOOLEAN] /\ terminating \in [Slot -> BOOLEAN]
      /\ slotOf \in [Pid -> Slot] /\ living \subseteq Pid /\ gap \in Int
      /\ currentLaunched \in Int /\ forked \in Nat /\ totalLaunched \in Nat
      /\ overtaken \subseteq Slot
  BY BookedTyping
<1>4. living' = living
  BY <1>1 DEF living
<1>5. index \notin overtaken' => \A p \in living : slotOf[p] # index
  <2> SUFFICES ASSUME index \notin overtaken', NEW p \in living, slotOf[p] = index PROVE FALSE
    OBVIOUS
  <2>1. user[p] \in {"check", "left", "stranded"}
    BY <1>1, <1>2 DEF Booked, Accounted, LeavingCheck
  <2>2. user[p] \notin {"left", "stranded"}
    BY <1>1, <1>3 DEF Booked, Accounted, NoneStranded, Point
  <2> QED BY <1>2, <1>3, <2>1, <2>2
<1>6. LastIsMarked' /\ NoneStranded'
  BY <1>1 DEF Booked, Accounted, LastIsMarked, NoneStranded, Point
<1>7. OwnSlots'
  BY <1>1, <1>2, <1>4 DEF Booked, Accounted, OwnSlots
<1>8. LivingInUse'
  BY <1>1, <1>2, <1>3, <1>4, <1>5 DEF Booked, Accounted, LivingInUse
<1>9. LeavingInUse'
  BY <1>1, <1>2, <1>3 DEF Booked, Accounted, LeavingInUse, unbooked
<1>10. LeavingCheck'
  BY <1>1, <1>2, <1>3, <1>4, <1>5 DEF Booked, Accounted, LeavingCheck
<1>11. /\ countedDown \in Int /\ countedDown >= currentLaunched - 1
       /\ countedDown <= currentLaunched - 1 \/ countedDown < 0
  BY BookedTyping, CountedDown
<1> HIDE DEF countedDown
<1>12. Cardinality(used') = IF bitVector[index] THEN Cardinality(used) - 1 ELSE Cardinality(used)
  <2>1. used' = used \ {index}
    BY <1>1, <1>3 DEF used
  <2>2. CASE bitVector[index]
    <3>1. index \in used
      BY <1>3, <2>2 DEF used
    <3> QED BY <2>1, <2>2, <3>1, UsedIsFinite, FS_RemoveElement
  <2>3. CASE ~bitVector[index]
    BY <2>1, <2>3 DEF used
  <2> QED BY <2>2, <2>3
<1>13. Cardinality(used) \in Nat /\ gap = Cardinality(used) - currentLaunched
       /\ gap' = Cardinality(used') - countedDown
  BY <1>1, UsedIsFinite DEF gap
<1>14. NeverAhead'
  <2>1. gap >= 0
    BY <1>1 DEF Booked, Accounted, NeverAhead
  <2>2. Cardinality(used') >= 0
    <3>1. bitVector[index] => Cardinality(used) # 0
      BY <1>3, UsedIsFinite, FS_EmptySet DEF used
    <3> QED BY <1>12, <1>13, <3>1
  <2>3. gap' >= 0
    BY <1>3, <1>11, <1>12, <1>13, <2>1, <2>2
  <2> QED BY <1>1, <2>3 DEF NeverAhead
<1>15. NotBehind'
  <2> SUFFICES ASSUME overtaken' = {}
               PROVE  /\ gap' <= forked - totalLaunched
                      /\ (\E s \in Slot : loose(s)') => gap' <= 0
    BY <1>1 DEF NotBehind
  <2>1. overtaken = {} /\ index \notin overtaken'
    BY <1>2
  <2>2. \A s \in Slot : loose(s)' => loose(s) /\ s # index
    BY <1>1, <1>3, <1>4, <1>5, <2>1 DEF loose
  <2>3. gap <= forked - totalLaunched /\ ((\E s \in Slot : loose(s)) => gap <= 0)
    BY <2>1 DEF Booked, Accounted, NotBehind
  <2>4. CASE bitVector[index]
    <3>1. gap' <= gap
      BY <1>3, <1>11, <1>12, <1>13, <2>4
    <3>2. gap' \in Int
      BY <1>3, <1>11, <1>12, <1>13
    <3> QED BY <1>3, <2>2, <2>3, <3>1, <3>2
  <2>5. CASE ~bitVector[index]
    <3>1. loose(index) /\ unbooked(index)
      BY <1>1, <1>3, <2>1, <2>5 DEF Booked, Accounted, LeavingInUse, loose
    <3>2. gap' <= 1
      BY <1>3, <1>11, <1>12, <1>13, <2>3, <2>5, <3>1
    <3>3. \A s \in Slot : ~loose(s)'
      <4> SUFFICES ASSUME NEW s \in Slot, loose(s), s # index PROVE FALSE
        BY <2>2
      <4>1. ~terminating[s]
        BY <2>1, <3>1 DEF Booked, Accounted, LeavingInUse, loose, unbooked
      <4>2. PICK p \in living : slotOf[p] = s
        BY <4>1 DEF loose
      <4> QED BY <2>1, <3>1, <4>2 DEF Booked, Accounted, LivingInUse, loose, unbooked
    <3>4. forked - totalLaunched >= 1
      BY <1>3, <3>1 DEF unbooked
    <3>5. gap' \in Int
      BY <1>3, <1>11, <1>12, <1>13
    <3> QED BY <1>3, <3>2, <3>3, <3>4, <3>5
  <2> QED BY <2>4, <2>5
<1> QED BY <1>6, <1>7, <1>8, <1>9, <1>10, <1>14, <1>15 DEF Accounted

\* Steps of OSS after which no more processes live, or want to terminate.
LEMMA ThinningKeepsAccounts ==
  ASSUME Booked,
         UNCHANGED <<bitVector, forked, currentLaunched, totalLaunched, slotOf, overtaken>>,
         \A p \in Pid : \/ user'[p] = user[p]
                        \/ user[p] # "unborn" /\ user'[p] = "gone"
                        \/ p \in living /\ user'[p] \in {"left", "stranded"} /\ pc' \notin Point,
         \A s \in Slot : terminating'[s] => terminating[s],
         pc' \in {"book", "count"} => pc' = pc,
         pc' \in Point => pc \in Point
  PROVE  Accounted'
<1>1. /\ living' \subseteq living /\ living \subseteq Pid
      /\ \A p \in living' : user'[p] = user[p] \/ user'[p] \in {"left", "stranded"}
      /\ \A p \in living' : slotOf[p] \in Slot
  BY BookedTyping DEF living
<1>2. LastIsMarked'
  BY DEF Booked, Accounted, LastIsMarked
<1>3. OwnSlots' /\ LivingInUse' /\ LeavingInUse'
  BY <1>1 DEF Booked, Accounted, OwnSlots, LivingInUse, LeavingInUse, unbooked
<1>4. LeavingCheck'
  BY <1>1 DEF Booked, Accounted, LeavingCheck
<1>5. NoneStranded'
  BY DEF Booked, Accounted, NoneStranded
<1>6. NeverAhead' /\ NotBehind'
  <2>1. gap' = gap /\ gap \in Int
    BY BookedTyping DEF gap, used
  <2>2. \A s \in Slot : loose(s)' => loose(s)
    BY <1>1 DEF loose
  <2>3. NeverAhead'
    BY <2>1 DEF Booked, Accounted, NeverAhead
  <2> QED BY <2>1, <2>2, <2>3 DEF Booked, Accounted, NotBehind
<1> QED BY <1>2, <1>3, <1>4, <1>5, <1>6 DEF Accounted

LEMMA AccountsKept == ASSUME Booked, [Next]_vars PROVE Accounted'
<1>1. CASE \E p \in Pid : UserStep(p)
  BY <1>1, UserKeepsAccounts
<1>2. CASE Fork \/ Mark \/ Count \/ Terminate
  BY <1>2, ForkKeepsAccounts, MarkKeepsAccounts, CountKeepsAccounts, TerminateKeepsAccounts
<1>3. CASE NoLaunch \/ Break \/ Lock \/ NoTermination \/ NoRequest \/ WakeNone \/ Unlock
           \/ Collect \/ Alarm
  <2>1. UNCHANGED <<bitVector, forked, currentLaunched, totalLaunched, slotOf, user, terminating,
                    overtaken>>
    BY <1>3 DEF NoLaunch, Break, Lock, NoTermination, NoRequest, WakeNone, Unlock, Collect,
                Alarm, countVars, userVars, flagVars, raceVars
  <2>2. pc' \notin {"book", "count"} /\ (pc' \in Point => pc \in Point)
    BY <1>3, RunAssumption
    DEF NoLaunch, Break, Lock, NoTermination, NoRequest, WakeNone, Unlock, Collect, Alarm, scan,
        Point
  <2> QED BY <2>1, <2>2, ThinningKeepsAccounts
<1>4. CASE ResourceAllocation \/ WakeAll
  <2>1. /\ UNCHANGED <<bitVector, forked, currentLaunched, totalLaunched, slotOf, user, overtaken>>
        /\ pc \in {"requests", "wake"} /\ pc' \notin {"book", "count"}
    BY <1>4 DEF ResourceAllocation, WakeAll, countVars, userVars, raceVars, scan
  <2>2. \A s \in Slot : terminating'[s] => terminating[s]
    BY <1>4 DEF ResourceAllocation, WakeAll
  <2> QED BY <2>1, <2>2, ThinningKeepsAccounts DEF Point
<1>5. CASE Finish \/ Interrupt
  <2>1. /\ UNCHANGED <<bitVector, forked, currentLaunched, totalLaunched, slotOf, terminating,
                       overtaken>>
        /\ \A p \in Pid : \/ user'[p] = user[p] /\ user[p] \in {"unborn", "gone"}
                          \/ /\ user[p] \notin {"unborn", "gone"}
                             /\ user'[p] \in {"gone", "left", "stranded"}
        /\ pc' \notin Point
    BY <1>5, BookedTyping, KillTypes
  <2>2. pc' \notin {"book", "count"}
    BY <2>1 DEF Point
  <2> QED BY <2>1, <2>2, ThinningKeepsAccounts DEF living
<1>6. CASE Ended \/ UNCHANGED vars
  <2>1. UNCHANGED <<bitVector, forked, currentLaunched, totalLaunched, slotOf, user, terminating,
                    overtaken, pc>>
    BY <1>6 DEF Ended, vars, ossVars, countVars, userVars, flagVars, raceVars
  <2> QED BY <2>1, ThinningKeepsAccounts
<1> QED
  BY <1>1, <1>2, <1>3, <1>4, <1>5, <1>6 DEF Next, OssStep

LEMMA InitAccounts == Init => Booked
<1> SUFFICES ASSUME Init PROVE Booked
  OBVIOUS
<1>1. /\ living = {} /\ used = {} /\ currentLaunched = 0 /\ forked = 0 /\ totalLaunched = 0
      /\ pc = "top" /\ (\A s \in Slot : ~terminating[s]) /\ \A p \in Pid : user[p] = "unborn"
  BY DEF Init, living, used
<1>2. gap = 0
  BY <1>1, FS_EmptySet DEF gap
<1>3. LastIsMarked /\ NeverAhead /\ NotBehind
  BY <1>1, <1>2 DEF LastIsMarked, NeverAhead, NotBehind
<1>4. OwnSlots /\ LivingInUse /\ LeavingInUse /\ LeavingCheck /\ NoneStranded
  BY <1>1 DEF OwnSlots, LivingInUse, LeavingInUse, LeavingCheck, NoneStranded
<1> QED BY <1>3, <1>4, InitTypes DEF Booked, Accounted

LEMMA BookedKept == Booked /\ [Next]_vars => Booked'
  BY TypesKept, AccountsKept DEF Booked

LEMMA AlwaysBooked == Spec => []Booked
  BY InitAccounts, BookedKept, PTL DEF Spec

\* currentLaunched, which the loop ends on and the suspended are woken by, is never
\* ahead of the slots in use: neither a process overtaken in its exit, nor one whose
\* launch an alarm broke off, makes OSS count one that is not there.  Unless
\* processes were overtaken it is behind by at most the launch that is not complete.
THEOREM CountsMatch == Spec => []CountMatches
<1>1. Booked => CountMatches
  <2> SUFFICES ASSUME Booked PROVE CountMatches
    OBVIOUS
  <2>1. gap = Cardinality(used) - currentLaunched /\ Cardinality(used) \in Nat
        /\ currentLaunched \in Int /\ gap >= 0
    BY BookedTyping, UsedIsFinite DEF gap, Booked, Accounted, NeverAhead
  <2>2. overtaken = {} => gap <= forked - totalLaunched
    BY DEF Booked, Accounted, NotBehind
  <2> QED BY <2>1, <2>2 DEF CountMatches, gap
<1> QED BY <1>1, AlwaysBooked, PTL

\* getAvailableLocation never gives a slot to two processes that run at the same
\* time, wherever an alarm breaks a launch off, unless the slot is one that OSS
\* gave up before its process had seen that it may leave.
THEOREM SlotsAreOwn == Spec => []OwnSlots
<1>1. Booked => OwnSlots
  BY DEF Booked, Accounted
<1> QED BY <1>1, AlwaysBooked, PTL

LEMMA EscapeKept ==
  Booked /\ OnlyStartingEscape /\ [Next]_vars => OnlyStartingEscape'
<1> SUFFICES ASSUME Booked, OnlyStartingEscape, [Next]_vars
             PROVE  OnlyStartingEscape'
  OBVIOUS
<1>1. /\ user \in [Pid -> UserState] /\ slotOf \in [Pid -> Slot]
      /\ pidOf \in [Slot -> Pid \cup {0}] /\ living \subseteq Pid
  BY BookedTyping DEF TypeOK
<1>2. CASE Interrupt
  <2> DEFINE struck == {pidOf[s] : s \in {t \in Slot : bitVector[t]} \cup queued}
  <2>1. UNCHANGED <<pidOf, slotOf, bitVector, forked, overtaken>>
    BY <1>2 DEF Interrupt, countVars, raceVars
  <2>2. strike(struck)
    BY <1>2 DEF Interrupt
  <2>3. \A s \in Slot : bitVector[s] => pidOf[s] \in struck
    OBVIOUS
  <2> HIDE DEF struck
  <2>4. \A p \in Pid : user'[p] = "stranded" => p \in living /\ p \notin struck
    BY <1>1, <2>2, Zenon DEF strike, living, ended
  <2>5. \A p \in living : \/ slotOf[p] \in overtaken \/ pidOf[slotOf[p]] \in struck
                          \/ p = forked /\ ~bitVector[slotOf[p]]
    BY <1>1, <2>3 DEF Booked, Accounted, LivingInUse
  <2> QED BY <2>1, <2>4, <2>5 DEF OnlyStartingEscape
<1>3. CASE pc \in Point /\ ~Interrupt
  <2>1. \A p \in Pid : user[p] # "stranded"
    BY <1>3 DEF Booked, Accounted, NoneStranded
  <2>2. \A p \in Pid : user'[p] # "stranded"
    <3>1. CASE UNCHANGED userVars \/ Terminate \/ WakeAll
      BY <2>1, <3>1 DEF userVars, Terminate, WakeAll
    <3>2. CASE Fork
      BY <1>1, <2>1, <3>2 DEF Fork
    <3>3. CASE Finish
      BY <1>1, <2>1, <3>3 DEF Finish
    <3>4. ASSUME NEW p \in Pid, UserStep(p) PROVE \A o \in Pid : user'[o] # "stranded"
      BY <1>1, <2>1, <3>4, UserFrame, BookedTyping
    <3> QED BY <1>3, <3>1, <3>2, <3>3, <3>4, UserSteps
  <2> QED BY <2>2 DEF OnlyStartingEscape
<1>4. CASE pc \notin Point
  <2>1. ASSUME NEW p \in Pid, UserStep(p) PROVE OnlyStartingEscape'
    <3>1. /\ UNCHANGED <<bitVector, forked, slotOf, overtaken>>
          /\ \E x \in UserState \ {"stranded"} : user' = [user EXCEPT ![p] = x]
      BY <2>1, UserFrame, BookedTyping
    <3>2. \A o \in Pid : user'[o] = "stranded" => user[o] = "stranded" /\ o # p
      BY <1>1, <3>1
    <3>3. pidOf' = pidOf \/ pidOf' = [pidOf EXCEPT ![slotOf[p]] = p]
      BY <2>1 DEF UserStep, Start, Visit, Boot, Claim, Draw, Load, Store, Pass, GiveUp, Hold,
                  Request, Suspend, Withdraw, visit, Awake, Check
    <3> QED BY <1>1, <3>1, <3>2, <3>3 DEF OnlyStartingEscape
  <2>2. CASE ~\E p \in Pid : UserStep(p)
    <3>1. UNCHANGED <<pidOf, slotOf, user, bitVector, forked, overtaken>>
      BY <1>4, <2>2, RunAssumption
      DEF Next, OssStep, Fork, Mark, Count, NoLaunch, Break, Lock, NoTermination, Terminate,
          NoRequest, ResourceAllocation, WakeAll, WakeNone, Unlock, Finish, Collect, Alarm,
          Interrupt, Ended, vars, ossVars, countVars, userVars, raceVars, Point
    <3> QED BY <3>1 DEF OnlyStartingEscape
  <2> QED BY <2>1, <2>2
<1> QED BY <1>2, <1>3, <1>4

\* killHandler, wherever it strikes, leaves no process behind that had filled in its
\* PCB, whatever was lost in the descriptor, but for one in a slot OSS has not
\* marked yet and one it overtook: the others are in the slots it goes through.
THEOREM OnlyStartersEscape == Spec => []OnlyStartingEscape
<1>1. Init => OnlyStartingEscape
  BY DEF Init, OnlyStartingEscape
<1> QED BY <1>1, AlwaysBooked, EscapeKept, PTL DEF Spec

-----------------------------------------------------------------------------
(* The units of the resources *)

Starting == {"boot", "claim", "draw", "load", "store"}

Blank(s) == req[s] = Nothing /\ alloc[s] = Nothing

\* Users claim and take their first units one at a time, and not while OSS scans.
OneClaims ==
  /\ \A p, o \in claiming : p = o
  /\ locked => claiming = {}

\* A slot that is not in use owns nothing, unless the process whose launch is not
\* complete is in it; nor does one whose process has not claimed yet.
BlankRows ==
  /\ \A s \in Slot : ~bitVector[s] /\ ~unbooked(s) => Blank(s)
  /\ \A p \in Pid : user[p] \in {"boot", "claim"} => Blank(slotOf[p])

\* The resources a user has still to come to are not in its row.
Undrawn ==
  \A p \in claiming, r \in Resource :
    r > item[p] \/ (r = item[p] /\ user[p] = "draw") => alloc[slotOf[p]][r] = 0

\* The units a user is about to take are there, and it has read the right count.
InTransitIsThere ==
  \A p \in Pid : user[p] \in {"load", "store"} =>
    /\ item[p] \notin Sharable
    /\ alloc[slotOf[p]][item[p]] <= avail[item[p]]
    /\ user[p] = "store" => loaded[p] = avail[item[p]]

Within ==
  /\ \A s \in Slot, r \in Resource : alloc[s][r] <= req[s][r]
  /\ \A r \in Resource : 0 <= avail[r]

Units == OneClaims /\ BlankRows /\ Undrawn /\ InTransitIsThere /\ Within

Sound == Booked /\ DecidedSoFar /\ (undisturbed => Units)

Calm == Sound /\ undisturbed

LEMMA CalmTyping ==
  ASSUME Calm
  PROVE  /\ TypeOK /\ Booked
         /\ avail \in [Resource -> Int] /\ Resource \subseteq Int
         /\ req \in [Slot -> [Resource -> Nat]] /\ alloc \in [Slot -> [Resource -> Nat]]
         /\ user \in [Pid -> UserState] /\ slotOf \in [Pid -> Slot]
         /\ item \in [Pid -> Resource] /\ loaded \in [Pid -> Int]
         /\ bitVector \in [Slot -> BOOLEAN] /\ index \in Slot
         /\ OneClaims /\ BlankRows /\ Undrawn /\ InTransitIsThere /\ Within
  BY DEF Calm, Sound, Units, Booked, TypeOK, UserState, Resource

\* As nobody was overtaken, every process has a slot of its own, which is in use
\* or is that of the launch that is not complete.
LEMMA CalmSlots ==
  ASSUME Calm
  PROVE  /\ \A p \in living : bitVector[slotOf[p]] \/ unbooked(slotOf[p])
         /\ \A p, o \in living : slotOf[p] = slotOf[o] => p = o
  BY DEF Calm, Sound, undisturbed, Booked, Accounted, LivingInUse, OwnSlots, unbooked

\* Steps that leave the matrices alone and let no user get further in its start.
LEMMA QuietKeepsUnits ==
  ASSUME Calm, UNCHANGED <<avail, req, alloc, slotOf, item, loaded>>,
         \A s \in Slot : ~bitVector'[s] /\ ~unbooked(s)' => ~bitVector[s] /\ ~unbooked(s),
         \A p \in Pid : \/ user'[p] = user[p] \/ user'[p] \notin Starting
                        \/ user[p] = "boot" /\ user'[p] = "claim",
         locked' => locked \/ claiming = {}
  PROVE  Units'
<1>1. claiming' \subseteq claiming /\ \A p \in claiming' : user'[p] = user[p]
  BY DEF claiming, Starting
<1>2. OneClaims'
  BY <1>1, CalmTyping DEF OneClaims
<1>3. BlankRows'
  BY CalmTyping DEF BlankRows, Blank, Starting
<1>4. Undrawn'
  BY <1>1, CalmTyping DEF Undrawn
<1>5. InTransitIsThere'
  BY CalmTyping DEF InTransitIsThere, Starting
<1>6. Within'
  BY CalmTyping DEF Within
<1> QED BY <1>2, <1>3, <1>4, <1>5, <1>6 DEF Units

LEMMA ForkKeepsUnits == ASSUME Calm, Fork PROVE Units'
<1> DEFINE s == Min(freeSlots)
<1>1. /\ forked = totalLaunched /\ forked' \in Pid /\ s \in Slot /\ ~bitVector[s]
      /\ user' = [user EXCEPT ![forked'] = "boot"] /\ slotOf' = [slotOf EXCEPT ![forked'] = s]
      /\ user[forked'] = "unborn"
  BY CalmTyping, BookedTyping, ForkShape
<1>2. UNCHANGED <<avail, req, alloc, bitVector, item, loaded, locked, totalLaunched>>
  BY DEF Fork, matrixVars, startVars
<1> HIDE DEF s
<1>3. PICK p \in Pid : p = forked'
  BY <1>1
<1>4. /\ user'[p] = "boot" /\ slotOf'[p] = s
      /\ \A o \in Pid \ {p} : user'[o] = user[o] /\ slotOf'[o] = slotOf[o]
  BY <1>1, <1>3, CalmTyping
<1>5. claiming' = claiming /\ p \notin claiming
  BY <1>1, <1>3, <1>4 DEF claiming
<1>6. \A t \in Slot : ~bitVector[t] => Blank(t)
  <2>1. totalLaunched \in Nat
    BY CalmTyping, BookedTyping
  <2> QED BY <1>1, <2>1, CalmTyping DEF BlankRows, unbooked
<1>7. OneClaims'
  BY <1>2, <1>5, CalmTyping DEF OneClaims
<1>8. BlankRows'
  BY <1>1, <1>2, <1>4, <1>6, CalmTyping DEF BlankRows, Blank
<1>9. Undrawn'
  BY <1>2, <1>4, <1>5, CalmTyping DEF Undrawn, claiming
<1>10. InTransitIsThere'
  BY <1>2, <1>4, CalmTyping DEF InTransitIsThere
<1>11. Within'
  BY <1>2, CalmTyping DEF Within
<1> QED BY <1>7, <1>8, <1>9, <1>10, <1>11 DEF Units

LEMMA LoadKeepsUnits == ASSUME Calm, NEW p \in Pid, Load(p) PROVE Units'
<1>1. /\ user[p] = "load" /\ user' = [user EXCEPT ![p] = "store"]
      /\ loaded' = [loaded EXCEPT ![p] = avail[item[p]]]
      /\ UNCHANGED <<avail, req, alloc, item, slotOf, bitVector, locked, forked, totalLaunched>>
  BY DEF Load, matrixVars, ossVars, countVars
<1>2. claiming' = claiming /\ \A o \in Pid \ {p} : user'[o] = user[o] /\ loaded'[o] = loaded[o]
  BY <1>1, CalmTyping DEF claiming
<1>3. user'[p] = "store" /\ loaded'[p] = avail[item[p]]
  BY <1>1, CalmTyping
<1>4. OneClaims' /\ Within'
  BY <1>1, <1>2, CalmTyping DEF OneClaims, Within
<1>5. BlankRows'
  BY <1>1, <1>2, <1>3, CalmTyping DEF BlankRows, Blank, unbooked
<1>6. Undrawn'
  BY <1>1, <1>2, <1>3, CalmTyping DEF Undrawn
<1>7. InTransitIsThere'
  BY <1>1, <1>2, <1>3, CalmTyping DEF InTransitIsThere
<1> QED BY <1>4, <1>5, <1>6, <1>7 DEF Units

LEMMA ClaimKeepsUnits ==
  ASSUME Calm, undisturbed', NEW p \in Pid, Claim(p) PROVE Units'
<1> DEFINE s == slotOf[p]
<1>1. PICK c \in [Resource -> 0 .. MaxClaim] : req' = [req EXCEPT ![s] = c]
  BY DEF Claim
<1>2. /\ user[p] = "claim" /\ ~locked /\ claiming = {}
      /\ user' = [user EXCEPT ![p] = "draw"] /\ item' = [item EXCEPT ![p] = 0]
      /\ UNCHANGED <<avail, alloc, slotOf, bitVector, locked, forked, totalLaunched>>
  BY DEF Claim, ossVars, countVars, undisturbed
<1>3. Resource \subseteq Nat /\ s \in Slot
  BY CalmTyping DEF Resource
<1>4. /\ alloc[s] = Nothing /\ p \in living /\ (bitVector[s] \/ unbooked(s))
      /\ \A o \in living \ {p} : slotOf[o] # s
  BY <1>2, CalmTyping, CalmSlots DEF BlankRows, Blank, living
<1> HIDE DEF s
<1>5. claiming' = {p} /\ user'[p] = "draw" /\ item'[p] = 0
      /\ \A o \in Pid \ {p} : user'[o] = user[o] /\ user[o] \notin {"draw", "load", "store"}
  BY <1>2, CalmTyping DEF claiming
<1>6. OneClaims'
  BY <1>2, <1>5 DEF OneClaims
<1>7. BlankRows'
  <2>1. \A t \in Slot : t # s /\ Blank(t) => Blank(t)'
    BY <1>1, <1>2, CalmTyping DEF Blank
  <2>2. ASSUME NEW o \in Pid, user'[o] \in {"boot", "claim"} PROVE Blank(slotOf[o])'
    <3>1. o # p /\ user'[o] = user[o] /\ slotOf[o] \in Slot
      BY <1>5, <2>2, CalmTyping
    <3>2. slotOf[o] # s /\ Blank(slotOf[o])
      BY <1>4, <2>2, <3>1, CalmTyping DEF living, BlankRows
    <3> QED BY <1>2, <2>1, <3>1, <3>2 DEF Blank
  <2>3. ASSUME NEW t \in Slot, ~bitVector'[t], ~unbooked(t)' PROVE Blank(t)'
    <3>1. t # s /\ Blank(t)
      BY <1>2, <1>4, <2>3, CalmTyping DEF unbooked, BlankRows
    <3> QED BY <2>1, <3>1
  <2> QED BY <1>2, <2>2, <2>3 DEF BlankRows, Blank
<1>8. Undrawn'
  BY <1>2, <1>4, <1>5 DEF Undrawn, Nothing, s
<1>9. InTransitIsThere'
  BY <1>5 DEF InTransitIsThere
<1>10. Within'
  <2>1. \A r \in Resource : alloc[s][r] = 0 /\ 0 <= c[r]
    BY <1>4, CalmTyping, ClaimAssumption DEF Nothing
  <2>2. \A t \in Slot, r \in Resource : alloc[t][r] <= req'[t][r]
    BY <1>1, <2>1, CalmTyping DEF Within
  <2> QED BY <1>2, <2>2, CalmTyping DEF Within
<1> QED BY <1>6, <1>7, <1>8, <1>9, <1>10 DEF Units

LEMMA AdvanceShape ==
  ASSUME TypeOK, NEW p \in Pid, advance(p)
  PROVE  /\ user'[p] \in {"loop", "draw"} /\ \A o \in Pid \ {p} : user'[o] = user[o]
         /\ user'[p] = "draw" => item'[p] = item[p] + 1
         /\ \A o \in Pid \ {p} : item'[o] = item[o]
  BY DEF advance, TypeOK

\* What a user writes into its own row disturbs no blank one.
LEMMA OwnRowKeepsBlank ==
  ASSUME Calm, NEW p \in Pid, user[p] \in {"draw", "load", "store"},
         user'[p] \notin {"boot", "claim"}, \A o \in Pid \ {p} : user'[o] = user[o],
         UNCHANGED <<req, slotOf, bitVector, forked, totalLaunched>>,
         \A s \in Slot \ {slotOf[p]} : alloc'[s] = alloc[s]
  PROVE  BlankRows'
<1>1. /\ p \in living /\ (bitVector[slotOf[p]] \/ unbooked(slotOf[p]))
      /\ \A o \in living \ {p} : slotOf[o] # slotOf[p]
  BY CalmSlots DEF living
<1>2. ASSUME NEW t \in Slot, ~bitVector'[t], ~unbooked(t)' PROVE Blank(t)'
  <2>1. t # slotOf[p] /\ Blank(t)
    BY <1>1, <1>2, CalmTyping DEF unbooked, BlankRows
  <2> QED BY <2>1 DEF Blank
<1>3. ASSUME NEW o \in Pid, user'[o] \in {"boot", "claim"} PROVE Blank(slotOf[o])'
  <2>1. o # p /\ user[o] \in {"boot", "claim"}
    BY <1>3
  <2>2. slotOf[o] # slotOf[p] /\ slotOf[o] \in Slot /\ Blank(slotOf[o])
    BY <1>1, <2>1, CalmTyping DEF living, BlankRows
  <2> QED BY <2>2 DEF Blank
<1> QED BY <1>2, <1>3 DEF BlankRows, Blank

LEMMA StoreKeepsUnits == ASSUME Calm, NEW p \in Pid, Store(p) PROVE Units'
<1>1. /\ user[p] = "store" /\ advance(p)
      /\ avail' = [avail EXCEPT ![item[p]] = loaded[p] - alloc[slotOf[p]][item[p]]]
      /\ UNCHANGED <<req, alloc, slotOf, bitVector, locked, forked, totalLaunched>>
  BY DEF Store, ossVars, countVars
<1>2. /\ user'[p] \in {"loop", "draw"} /\ \A o \in Pid \ {p} : user'[o] = user[o]
      /\ user'[p] = "draw" => item'[p] = item[p] + 1
      /\ \A o \in Pid \ {p} : item'[o] = item[o]
  BY <1>1, AdvanceShape, CalmTyping
<1>3. claiming = {p} /\ ~locked /\ claiming' \subseteq {p}
  BY <1>1, <1>2, CalmTyping DEF OneClaims, claiming
<1>4. OneClaims'
  BY <1>1, <1>3 DEF OneClaims
<1>5. BlankRows'
  BY <1>1, <1>2, OwnRowKeepsBlank
<1>6. Undrawn'
  <2>1. \A r \in Resource : r > item[p] => alloc[slotOf[p]][r] = 0
    BY <1>3, CalmTyping DEF Undrawn
  <2>2. ASSUME NEW r \in Resource, p \in claiming',
               r > item'[p] \/ (r = item'[p] /\ user'[p] = "draw")
        PROVE  alloc[slotOf[p]][r] = 0
    <3>1. item[p] \in Int /\ r \in Int
      BY CalmTyping
    <3>2. item'[p] = item[p] + 1
      BY <1>2, <2>2 DEF claiming
    <3>3. r > item[p]
      BY <2>2, <3>1, <3>2
    <3> QED BY <2>1, <3>3
  <2> QED BY <1>1, <1>3, <2>2 DEF Undrawn
<1>7. InTransitIsThere'
  BY <1>2, <1>3 DEF InTransitIsThere, claiming
<1>8. Within'
  <2>1. loaded[p] = avail[item[p]] /\ alloc[slotOf[p]][item[p]] <= avail[item[p]]
    BY <1>1, CalmTyping DEF InTransitIsThere
  <2>2. \A r \in Resource : 0 <= avail'[r]
    BY <1>1, <2>1, CalmTyping DEF Within
  <2> QED BY <1>1, <2>2, CalmTyping DEF Within
<1> QED BY <1>4, <1>5, <1>6, <1>7, <1>8 DEF Units

LEMMA DrawKeepsUnits == ASSUME Calm, NEW p \in Pid, Draw(p) PROVE Units'
<1> DEFINE s == slotOf[p]
           r == item[p]
<1>1. /\ user[p] = "draw" /\ s \in Slot /\ r \in Resource
      /\ UNCHANGED <<avail, req, slotOf, bitVector, locked, loaded, forked, totalLaunched>>
  BY CalmTyping DEF Draw, ossVars, countVars
<1>2. PICK n \in Nat :
        /\ alloc' = [alloc EXCEPT ![s][r] = n]
        /\ \/ req[s][r] = 0 /\ n = alloc[s][r] /\ advance(p)
           \/ req[s][r] # 0 /\ r \in Sharable /\ n = req[s][r] /\ advance(p)
           \/ /\ req[s][r] # 0 /\ r \notin Sharable /\ n \in draws(lowest(s, r))
              /\ user' = [user EXCEPT ![p] = "load"] /\ UNCHANGED item
           \/ /\ lowest(s, r) = -1 /\ n = alloc[s][r]
              /\ user' = [user EXCEPT ![p] = "gone"] /\ UNCHANGED item
  BY DrawCases, CalmTyping
<1>3. /\ \A t \in Slot, o \in Resource : alloc[t][o] <= req[t][o]
      /\ \A o \in Resource : 0 <= avail[o]
  BY CalmTyping DEF Within
<1> HIDE DEF s, r
<1>4. lowest(s, r) >= 0 /\ lowest(s, r) <= req[s][r] /\ lowest(s, r) <= avail[r]
  BY <1>1, <1>3, CalmTyping DEF lowest
<1>5. n <= req[s][r]
      /\ \/ advance(p)
         \/ /\ r \notin Sharable /\ n <= avail[r]
            /\ user' = [user EXCEPT ![p] = "load"] /\ UNCHANGED item
  <2>1. lowest(s, r) \in Int /\ req[s][r] \in Nat /\ avail[r] \in Int
    BY <1>1, CalmTyping DEF lowest
  <2> HIDE DEF lowest, advance
  <2>2. draws(lowest(s, r)) = 0 .. lowest(s, r)
    BY <1>4, <2>1 DEF draws
  <2> HIDE DEF draws
  <2> QED BY <1>1, <1>2, <1>3, <1>4, <2>1, <2>2
<1>6. /\ \A t \in Slot, o \in Resource :
           alloc'[t][o] = IF t = s /\ o = r THEN n ELSE alloc[t][o]
      /\ \A t \in Slot \ {s} : alloc'[t] = alloc[t]
  BY <1>1, <1>2, CalmTyping
<1>7. /\ user'[p] \in {"loop", "draw", "load"} /\ \A o \in Pid \ {p} : user'[o] = user[o]
      /\ user'[p] = "draw" => item'[p] = r + 1
      /\ user'[p] = "load" => item'[p] = r /\ r \notin Sharable /\ n <= avail[r]
  <2>1. CASE advance(p)
    BY <2>1, AdvanceShape, CalmTyping DEF r
  <2>2. CASE /\ r \notin Sharable /\ n <= avail[r]
             /\ user' = [user EXCEPT ![p] = "load"] /\ UNCHANGED item
    BY <2>2, CalmTyping DEF r
  <2> QED BY <1>5, <2>1, <2>2
<1>8. claiming = {p} /\ ~locked /\ claiming' \subseteq {p}
  BY <1>1, <1>7, CalmTyping DEF OneClaims, claiming
<1>9. OneClaims'
  BY <1>1, <1>8 DEF OneClaims
<1>10. BlankRows'
  BY <1>1, <1>6, <1>7, OwnRowKeepsBlank DEF s
<1>11. Undrawn'
  <2>1. \A o \in Resource : o > r => alloc[s][o] = 0
    BY <1>8, CalmTyping DEF Undrawn, s, r
  <2>2. ASSUME NEW o \in Resource, p \in claiming',
               o > item'[p] \/ (o = item'[p] /\ user'[p] = "draw")
        PROVE  alloc'[s][o] = 0
    <3>1. o > r
      BY <1>1, <1>7, <2>2, CalmTyping DEF claiming
    <3>2. o # r
      BY <1>1, <3>1, CalmTyping
    <3> QED BY <1>1, <1>6, <2>1, <3>1, <3>2
  <2> QED BY <1>1, <1>8, <2>2 DEF Undrawn, s
<1>12. InTransitIsThere'
  <2>1. \A o \in Pid : user'[o] \in {"load", "store"} => o = p
    BY <1>8 DEF claiming
  <2> QED BY <1>1, <1>6, <1>7, <2>1 DEF InTransitIsThere, s
<1>13. Within'
  BY <1>1, <1>3, <1>5, <1>6 DEF Within
<1> QED BY <1>9, <1>10, <1>11, <1>12, <1>13 DEF Units

LEMMA ScanIsLocked == ASSUME Calm, pc \in Scanning PROVE locked /\ claiming = {}
  BY CalmTyping DEF Calm, Sound, DecidedSoFar, OneClaims

LEMMA TerminateKeepsUnits == ASSUME Calm, Terminate PROVE Units'
<1>1. /\ avail' = [r \in Resource |-> IF r \in Sharable THEN avail[r] ELSE avail[r] + alloc[index][r]]
      /\ req' = [req EXCEPT ![index] = Nothing] /\ alloc' = [alloc EXCEPT ![index] = Nothing]
      /\ bitVector' = [bitVector EXCEPT ![index] = FALSE] /\ pc = "terms"
      /\ UNCHANGED <<user, slotOf, item, loaded, locked, forked, totalLaunched>>
  BY DEF Terminate, resetDescription, startVars
<1>2. claiming = {} /\ claiming' = {}
  BY <1>1, ScanIsLocked DEF claiming, Scanning
<1>3. OneClaims' /\ Undrawn'
  BY <1>2 DEF OneClaims, Undrawn
<1>4. InTransitIsThere'
  BY <1>2 DEF InTransitIsThere, claiming
<1>5. \A t \in Slot : t = index \/ (req[t] = Nothing /\ alloc[t] = Nothing) => Blank(t)'
  BY <1>1, CalmTyping DEF Blank
<1>6. BlankRows'
  <2>1. ASSUME NEW t \in Slot, ~bitVector'[t], ~unbooked(t)' PROVE Blank(t)'
    <3>1. t = index \/ (~bitVector[t] /\ ~unbooked(t))
      BY <1>1, <2>1, CalmTyping DEF unbooked
    <3> QED BY <1>5, <3>1, CalmTyping DEF BlankRows, Blank
  <2>2. ASSUME NEW p \in Pid, user'[p] \in {"boot", "claim"} PROVE Blank(slotOf[p])'
    <3>1. slotOf[p] \in Slot /\ req[slotOf[p]] = Nothing /\ alloc[slotOf[p]] = Nothing
      BY <1>1, <2>2, CalmTyping DEF BlankRows, Blank
    <3> QED BY <1>1, <1>5, <3>1 DEF Blank
  <2> QED BY <2>1, <2>2 DEF BlankRows, Blank
<1>7. Within'
  <2>1. \A o \in Resource : 0 <= avail'[o]
    BY <1>1, CalmTyping DEF Within
  <2>2. \A t \in Slot, o \in Resource : alloc'[t][o] <= req'[t][o]
    BY <1>1, CalmTyping DEF Nothing, Within
  <2> QED BY <2>1, <2>2 DEF Within
<1> QED BY <1>3, <1>4, <1>6, <1>7 DEF Units

\* resourceAllocation gives out no more than is claimed, and than is there.
LEMMA AllocationShape ==
  ASSUME Calm, ResourceAllocation
  PROVE  \E n \in [Resource -> Nat] :
           /\ alloc' = [alloc EXCEPT ![index] = [r \in Resource |-> alloc[index][r] + n[r]]]
           /\ avail' = [r \in Resource |-> avail[r] - n[r]]
           /\ \A r \in Resource : n[r] <= avail[r] /\ alloc[index][r] + n[r] <= req[index][r]
<1> DEFINE n == [r \in Resource |-> IF r \in taken(index) THEN need(index)[r] ELSE 0]
<1>1. /\ \A t \in Slot, o \in Resource : alloc[t][o] <= req[t][o]
      /\ \A o \in Resource : 0 <= avail[o]
  BY CalmTyping DEF Within
<1>2. \A r \in Resource :
        need(index)[r] = req[index][r] - alloc[index][r] /\ need(index)[r] \in Nat
  BY <1>1, CalmTyping DEF need
<1>3. \A r \in Resource : r \in taken(index) => need(index)[r] <= avail[r]
  <2>1. \A r \in Resource : r \in 0 .. r
    BY DEF Resource
  <2> QED BY <2>1 DEF taken
<1>4. n \in [Resource -> Nat]
  BY <1>2
<1>5. \A r \in Resource : n[r] <= avail[r] /\ alloc[index][r] + n[r] <= req[index][r]
  BY <1>1, <1>2, <1>3, CalmTyping
<1>6. /\ alloc' = [alloc EXCEPT ![index] = [r \in Resource |-> alloc[index][r] + n[r]]]
      /\ avail' = [r \in Resource |-> avail[r] - n[r]]
  BY DEF ResourceAllocation
<1> HIDE DEF n
<1> QED BY <1>4, <1>5, <1>6

LEMMA AllocationKeepsUnits == ASSUME Calm, ResourceAllocation PROVE Units'
<1>1. PICK n \in [Resource -> Nat] :
        /\ alloc' = [alloc EXCEPT ![index] = [r \in Resource |-> alloc[index][r] + n[r]]]
        /\ avail' = [r \in Resource |-> avail[r] - n[r]]
        /\ \A r \in Resource : n[r] <= avail[r] /\ alloc[index][r] + n[r] <= req[index][r]
  BY AllocationShape
<1>2. /\ UNCHANGED <<req, bitVector, user, slotOf, item, loaded, locked, forked, totalLaunched>>
      /\ pc = "requests"
  BY DEF ResourceAllocation, userVars, startVars, countVars
<1>3. claiming = {} /\ claiming' = {}
  BY <1>2, ScanIsLocked DEF claiming, Scanning
<1>4. OneClaims' /\ Undrawn'
  BY <1>3 DEF OneClaims, Undrawn
<1>5. InTransitIsThere'
  BY <1>3 DEF InTransitIsThere, claiming
<1>6. \A t \in Slot : req[t] = Nothing /\ alloc[t] = Nothing => alloc'[t] = Nothing
  <2>1. ASSUME req[index] = Nothing, alloc[index] = Nothing PROVE alloc'[index] = Nothing
    <3>1. \A r \in Resource : alloc[index][r] + n[r] = 0
      BY <1>1, <2>1, CalmTyping DEF Nothing
    <3> QED BY <1>1, <3>1, CalmTyping DEF Nothing
  <2> QED BY <1>1, <2>1, CalmTyping
<1>7. BlankRows'
  <2>1. \A t \in Slot : ~bitVector[t] /\ ~unbooked(t) => req[t] = Nothing /\ alloc[t] = Nothing
    BY CalmTyping DEF BlankRows, Blank
  <2>2. \A p \in Pid : user[p] \in {"boot", "claim"} =>
          slotOf[p] \in Slot /\ req[slotOf[p]] = Nothing /\ alloc[slotOf[p]] = Nothing
    BY CalmTyping DEF BlankRows, Blank
  <2> QED BY <1>2, <1>6, <2>1, <2>2 DEF BlankRows, Blank, unbooked
<1>8. Within'
  <2>1. \A o \in Resource : 0 <= avail'[o]
    BY <1>1, CalmTyping
  <2>2. \A t \in Slot, o \in Resource : alloc'[t][o] <= req'[t][o]
    BY <1>1, <1>2, CalmTyping DEF Within
  <2> QED BY <2>1, <2>2 DEF Within
<1> QED BY <1>4, <1>5, <1>7, <1>8 DEF Units

LEMMA UnitsKept == ASSUME Calm, undisturbed', [Next]_vars PROVE Units'
<1> USE DEF Starting
<1>1. CASE Fork \/ Terminate \/ ResourceAllocation
  BY <1>1, ForkKeepsUnits, TerminateKeepsUnits, AllocationKeepsUnits
<1>2. ASSUME NEW p \in Pid, Claim(p) \/ Draw(p) \/ Load(p) \/ Store(p) PROVE Units'
  BY <1>2, ClaimKeepsUnits, DrawKeepsUnits, LoadKeepsUnits, StoreKeepsUnits
<1>3. ASSUME NEW p \in Pid, Boot(p) \/ Visit(p) \/ Awake(p) \/ Check(p) PROVE Units'
  <2>1. UNCHANGED <<avail, req, alloc, bitVector, slotOf, item, loaded, locked, forked, totalLaunched>>
    BY <1>3 DEF Boot, Visit, Pass, GiveUp, Hold, Request, Suspend, Withdraw, visit, Awake, Check,
                matrixVars, ossVars, startVars, countVars
  <2>2. \/ user[p] = "boot" /\ user' = [user EXCEPT ![p] = "claim"]
        \/ \E x \in {"loop", "check", "blocked", "gone"} : user' = [user EXCEPT ![p] = x]
    BY <1>3 DEF Boot, Visit, Pass, GiveUp, Hold, Request, Suspend, Withdraw, visit, Awake, Check
  <2>3. \A o \in Pid : \/ user'[o] = user[o] \/ user'[o] \notin Starting
                       \/ user[o] = "boot" /\ user'[o] = "claim"
    BY <2>2, CalmTyping
  <2> QED BY <2>1, <2>3, QuietKeepsUnits DEF unbooked
<1>4. CASE NoLaunch \/ Break \/ Lock \/ NoTermination \/ NoRequest \/ WakeAll \/ WakeNone
           \/ Unlock \/ Collect \/ Alarm \/ Ended \/ UNCHANGED vars
  <2>1. UNCHANGED <<avail, req, alloc, bitVector, slotOf, item, loaded, user, forked, totalLaunched>>
    BY <1>4
    DEF NoLaunch, Break, Lock, NoTermination, NoRequest, WakeAll, WakeNone, Unlock, Collect,
        Alarm, Ended, vars, matrixVars, ossVars, userVars, startVars, countVars
  <2>2. locked' => locked \/ Lock
    BY <1>4
    DEF NoLaunch, Break, NoTermination, NoRequest, WakeAll, WakeNone, Unlock, Collect, Alarm,
        Ended, vars, ossVars
  <2>3. Lock => claiming = {}
    BY DEF Lock, undisturbed
  <2> QED BY <2>1, <2>2, <2>3, QuietKeepsUnits DEF unbooked
<1>5. CASE Mark \/ Count
  <2>1. /\ UNCHANGED <<avail, req, alloc, slotOf, item, loaded, user, forked, locked>>
        /\ \A s \in Slot : bitVector[s] => bitVector'[s]
        /\ \/ UNCHANGED totalLaunched
           \/ pc = "count" /\ UNCHANGED bitVector
    BY <1>5, CalmTyping DEF Mark, Count, matrixVars, userVars, startVars, countVars
  <2>2. pc = "count" => bitVector[slotOf[forked]]
    BY CalmTyping DEF Booked, Accounted, LastIsMarked
  <2>3. \A s \in Slot : ~bitVector'[s] /\ ~unbooked(s)' => ~bitVector[s] /\ ~unbooked(s)
    BY <2>1, <2>2 DEF unbooked
  <2> QED BY <2>1, <2>3, QuietKeepsUnits
<1>6. CASE Finish \/ Interrupt
  <2>1. UNCHANGED <<avail, req, alloc, bitVector, slotOf, item, loaded, locked, forked, totalLaunched>>
    BY <1>6 DEF Finish, Interrupt, matrixVars, startVars, countVars
  <2>2. \A p \in Pid : user'[p] = user[p] \/ user'[p] \in {"gone", "left", "stranded"}
    BY <1>6, CalmTyping, KillTypes
  <2> QED BY <2>1, <2>2, QuietKeepsUnits DEF unbooked
<1> QED
  BY <1>1, <1>2, <1>3, <1>4, <1>5, <1>6 DEF Next, OssStep, UserStep, Start

LEMMA InitUnits == Init => Units
<1> SUFFICES ASSUME Init PROVE Units
  OBVIOUS
<1>1. claiming = {} /\ \A p \in Pid : user[p] = "unborn"
  BY DEF Init, claiming
<1>2. Within
  BY ClaimAssumption DEF Init, Within, Nothing
<1> QED
  BY <1>1, <1>2 DEF Init, Units, OneClaims, BlankRows, Blank, Undrawn, InTransitIsThere

\* Once a race has happened it is not forgotten.
LEMMA RacesStay == ASSUME [Next]_vars, undisturbed' PROVE undisturbed
<1>1. Terminate => (overtaken' = {} => overtaken = {})
  BY DEF Terminate
<1>2. (Lock \/ \E p \in Pid : Claim(p)) => (~overlapped' => ~overlapped)
  BY DEF Lock, Claim
<1> QED BY <1>1, <1>2, RaceSteps DEF undisturbed, raceVars

LEMMA SoundKept == Sound /\ [Next]_vars => Sound'
<1> SUFFICES ASSUME Sound, [Next]_vars PROVE Sound'
  OBVIOUS
<1>1. Booked' /\ DecidedSoFar'
  BY BookedKept, DecidedKept DEF Sound, Booked
<1>2. undisturbed' => Units'
  BY RacesStay, UnitsKept DEF Calm
<1> QED BY <1>1, <1>2 DEF Sound

LEMMA InitSound == Init => Sound
<1>1. Init => DecidedSoFar
  BY DEF Init, DecidedSoFar, Scanning
<1> QED BY <1>1, InitAccounts, InitUnits DEF Sound

LEMMA AlwaysSound == Spec => []Sound
  BY InitSound, SoundKept, PTL DEF Spec

\* resourceAllocation, the users' own first allocation and resetDescription keep
\* every row within its claim, and no count of free units goes below zero, until two
\* users start at once, one starts while OSS is in the critical section, or one is
\* overtaken: nothing else disturbs the matrices, signals and broken-off launches
\* included.
THEOREM ClaimsKept == Spec => []WithinClaims
<1>1. Sound => WithinClaims
  BY DEF Sound, Units, Within, WithinClaims
<1> QED BY <1>1, AlwaysSound, PTL

-----------------------------------------------------------------------------
(* Refinement of ResourceLedger *)

freeUnits  == [r \in Counted |-> avail[r]]
ownedUnits == [s \in Slot |-> [r \in Counted |-> IF inTransit(s, r) THEN 0 ELSE alloc[s][r]]]

Transit == {"load", "store"}

\* Steps after which the same units are free, owned and in transit.
LEMMA LedgerStutters ==
  ASSUME Calm, UNCHANGED <<avail, alloc>>,
         \A p \in Pid : user'[p] \in Transit <=> user[p] \in Transit,
         \A p \in Pid : user[p] \in Transit => slotOf'[p] = slotOf[p] /\ item'[p] = item[p]
  PROVE  UNCHANGED Ledger!vars
<1>1. \A s, r : inTransit(s, r)' <=> inTransit(s, r)
  BY DEF inTransit, Transit
<1>2. freeUnits' = freeUnits /\ ownedUnits' = ownedUnits
  BY <1>1 DEF freeUnits, ownedUnits
<1> QED BY <1>2 DEF Ledger!vars, freeUnits, ownedUnits

LEMMA UnitsAt ==
  /\ \A r \in Counted : freeUnits[r] = avail[r]
  /\ \A s \in Slot, r \in Counted :
       ownedUnits[s][r] = IF inTransit(s, r) THEN 0 ELSE alloc[s][r]
  BY DEF freeUnits, ownedUnits

\* How much more slot s owns is what is less free.
LEMMA TakeByUnits ==
  ASSUME NEW s \in Slot,
         \A t \in Slot \ {s} : ownedUnits'[t] = ownedUnits[t],
         \A r \in Counted : /\ ownedUnits'[s][r] >= ownedUnits[s][r]
                            /\ ownedUnits'[s][r] - ownedUnits[s][r] <= freeUnits[r]
                            /\ freeUnits'[r] = freeUnits[r] - (ownedUnits'[s][r] - ownedUnits[s][r])
  PROVE  Ledger!Take(s)
<1>1. /\ ownedUnits = [t \in Slot |-> ownedUnits[t]]
      /\ ownedUnits' = [t \in Slot |-> ownedUnits'[t]]
      /\ freeUnits' = [r \in Counted |-> freeUnits'[r]]
  BY DEF ownedUnits, freeUnits
<1> HIDE DEF ownedUnits, freeUnits
<1>2. ownedUnits' = [ownedUnits EXCEPT ![s] = ownedUnits'[s]]
  BY <1>1
<1>3. freeUnits' = [r \in Counted |-> freeUnits[r] - (ownedUnits'[s][r] - ownedUnits[s][r])]
  BY <1>1
<1> USE DEF ownedUnits, freeUnits
<1> QED BY <1>2, <1>3 DEF Ledger!Take

LEMMA DrawStutters == ASSUME Calm, NEW p \in Pid, Draw(p) PROVE UNCHANGED Ledger!vars
<1> DEFINE s == slotOf[p]
           r == item[p]
<1>1. /\ avail \in [Resource -> Int] /\ alloc \in [Slot -> [Resource -> Nat]]
      /\ req \in [Slot -> [Resource -> Nat]]
      /\ slotOf \in [Pid -> Slot] /\ item \in [Pid -> Resource]
      /\ user \in [Pid -> UserState]
  BY CalmTyping
<1>2. user[p] = "draw" /\ s \in Slot /\ r \in Resource /\ UNCHANGED <<avail, slotOf>>
  BY <1>1 DEF Draw
<1>3. PICK n \in Nat :
        /\ alloc' = [alloc EXCEPT ![s][r] = n]
        /\ \/ req[s][r] = 0 /\ n = alloc[s][r] /\ advance(p)
           \/ req[s][r] # 0 /\ r \in Sharable /\ n = req[s][r] /\ advance(p)
           \/ /\ req[s][r] # 0 /\ r \notin Sharable /\ n \in draws(lowest(s, r))
              /\ user' = [user EXCEPT ![p] = "load"] /\ UNCHANGED item
           \/ /\ lowest(s, r) = -1 /\ n = alloc[s][r]
              /\ user' = [user EXCEPT ![p] = "gone"] /\ UNCHANGED item
  BY DrawCases, CalmTyping
<1>4. claiming = {p} /\ \A o \in Pid : user[o] \notin Transit
  BY <1>2, CalmTyping DEF OneClaims, claiming, Transit
<1>5. alloc[s][r] = 0
  BY <1>2, <1>4, CalmTyping DEF Undrawn
<1> HIDE DEF s, r
<1>6. \A t \in Slot, o \in Resource :
        alloc'[t][o] = IF t = s /\ o = r THEN n ELSE alloc[t][o]
  BY <1>1, <1>2, <1>3
<1>7. \A t, o : ~inTransit(t, o)
  BY <1>4 DEF inTransit, Transit
<1>8. \/ n = alloc[s][r] \/ r \in Sharable
      \/ user' = [user EXCEPT ![p] = "load"] /\ UNCHANGED item
  BY <1>3
<1>9. /\ \A o \in Pid \ {p} : user'[o] = user[o]
      /\ user'[p] \in {"loop", "draw", "gone", "load"}
  <2>1. advance(p) \/ user' = [user EXCEPT ![p] = "load"] \/ user' = [user EXCEPT ![p] = "gone"]
    BY <1>3
  <2> QED BY <1>1, <2>1, AdvanceShape, CalmTyping
<1>10. \A t, o : inTransit(t, o)' => user'[p] = "load" /\ t = s /\ o = item'[p]
  BY <1>2, <1>4, <1>9 DEF inTransit, Transit, s
<1>11. user'[p] = "load" => UNCHANGED item /\ inTransit(s, r)'
  <2>1. ASSUME user'[p] = "load" PROVE UNCHANGED item
    BY <1>1, <1>3, <2>1, AdvanceShape, CalmTyping
  <2> QED BY <1>2, <2>1 DEF inTransit, s, r
<1>12. ownedUnits' = ownedUnits
  <2>1. ASSUME NEW t \in Slot, NEW o \in Counted
        PROVE  (IF inTransit(t, o) THEN 0 ELSE alloc[t][o])' = IF inTransit(t, o) THEN 0 ELSE alloc[t][o]
    <3>1. o \in Resource /\ o \notin Sharable
      BY DEF Counted
    <3>2. CASE user'[p] = "load"
      <4>1. inTransit(t, o)' <=> t = s /\ o = r
        BY <1>10, <1>11, <3>2 DEF r
      <4> QED BY <1>5, <1>6, <1>7, <3>1, <4>1
    <3>3. CASE user'[p] # "load"
      <4>1. ~inTransit(t, o)'
        BY <1>10, <3>3
      <4>2. n = alloc[s][r] \/ r \in Sharable
        BY <1>1, <1>8, <3>3
      <4> QED BY <1>6, <1>7, <3>1, <4>1, <4>2
    <3> QED BY <3>2, <3>3
  <2> QED BY <2>1 DEF ownedUnits
<1>13. freeUnits' = freeUnits
  BY <1>2 DEF freeUnits
<1> QED BY <1>12, <1>13 DEF Ledger!vars, freeUnits, ownedUnits

\* The units a user has drawn become its own when it stores the count.
LEMMA StoreTakes == ASSUME Calm, NEW p \in Pid, Store(p) PROVE \E t \in Slot : Ledger!Take(t)
<1> DEFINE s == slotOf[p]
           r == item[p]
<1>1. /\ avail \in [Resource -> Int] /\ alloc \in [Slot -> [Resource -> Nat]]
      /\ slotOf \in [Pid -> Slot] /\ item \in [Pid -> Resource]
  BY CalmTyping
<1>2. /\ user[p] = "store" /\ s \in Slot /\ r \in Resource /\ advance(p)
      /\ avail' = [avail EXCEPT ![r] = loaded[p] - alloc[s][r]]
      /\ UNCHANGED <<alloc, slotOf>>
  BY <1>1 DEF Store
<1>3. r \notin Sharable /\ alloc[s][r] <= avail[r] /\ loaded[p] = avail[r] /\ 0 <= alloc[s][r]
  BY <1>1, <1>2, CalmTyping DEF InTransitIsThere
<1>4. claiming = {p}
  BY <1>2, CalmTyping DEF OneClaims, claiming
<1>5. \A t, o : inTransit(t, o) <=> t = s /\ o = r
  BY <1>2, <1>4 DEF inTransit, claiming
<1>6. \A t, o : ~inTransit(t, o)'
  <2>1. \A o \in Pid : user'[o] \notin Transit
    BY <1>2, <1>4, AdvanceShape, CalmTyping DEF claiming, Transit
  <2> QED BY <2>1 DEF inTransit, Transit
<1> HIDE DEF s, r
<1>7. \A t \in Slot, o \in Counted :
        /\ ownedUnits[t][o] = IF t = s /\ o = r THEN 0 ELSE alloc[t][o]
        /\ ownedUnits'[t][o] = alloc[t][o]
  BY <1>2, <1>5, <1>6 DEF ownedUnits
<1>8. \A t \in Slot \ {s} : ownedUnits'[t] = ownedUnits[t]
  <2>1. \A t \in Slot \ {s} : \A o \in Counted :
          (IF inTransit(t, o) THEN 0 ELSE alloc[t][o])' = IF inTransit(t, o) THEN 0 ELSE alloc[t][o]
    BY <1>2, <1>5, <1>6
  <2> QED BY <2>1 DEF ownedUnits
<1>9. \A o \in Counted : freeUnits[o] = avail[o] /\ freeUnits'[o] = avail'[o]
  BY DEF freeUnits
<1>10. \A o \in Counted :
         /\ avail[o] \in Int /\ 0 <= avail[o] /\ alloc[s][o] \in Int
         /\ avail'[o] = IF o = r THEN avail[o] - alloc[s][o] ELSE avail[o]
  BY <1>1, <1>2, <1>3, CalmTyping DEF Counted, Within
<1>11. \A o \in Counted :
         /\ ownedUnits'[s][o] >= ownedUnits[s][o]
         /\ ownedUnits'[s][o] - ownedUnits[s][o] <= freeUnits[o]
         /\ freeUnits'[o] = freeUnits[o] - (ownedUnits'[s][o] - ownedUnits[s][o])
  BY <1>2, <1>3, <1>7, <1>9, <1>10
<1>12. PICK t \in Slot : t = s
  BY <1>2
<1> QED BY <1>8, <1>11, <1>12, TakeByUnits

\* While OSS has the semaphore no units are in transit.
LEMMA LockedLedger ==
  ASSUME Calm, locked, UNCHANGED user
  PROVE  /\ \A t \in Slot, r \in Counted :
              ownedUnits[t][r] = alloc[t][r] /\ ownedUnits'[t][r] = alloc'[t][r]
         /\ \A t \in Slot : alloc'[t] = alloc[t] => ownedUnits'[t] = ownedUnits[t]
<1>1. \A t, o : ~inTransit(t, o) /\ ~inTransit(t, o)'
  BY CalmTyping DEF OneClaims, claiming, inTransit
<1> QED BY <1>1 DEF ownedUnits

LEMMA TerminateGivesBack ==
  ASSUME Calm, Terminate PROVE \E t \in Slot : Ledger!GiveBack(t)
<1>1. /\ avail' = [r \in Resource |-> IF r \in Sharable THEN avail[r] ELSE avail[r] + alloc[index][r]]
      /\ alloc' = [alloc EXCEPT ![index] = Nothing] /\ UNCHANGED user /\ locked
  BY ScanIsLocked DEF Terminate, resetDescription, Scanning
<1>2. alloc \in [Slot -> [Resource -> Nat]] /\ index \in Slot /\ \A r \in Counted : r \in Resource
  BY CalmTyping DEF Counted
<1>3. \A t \in Slot \ {index} : ownedUnits'[t] = ownedUnits[t]
  BY <1>1, <1>2, LockedLedger
<1>4. ownedUnits'[index] = Ledger!Nothing
  <2>1. \A r \in Counted : ownedUnits'[index][r] = 0
    BY <1>1, <1>2, LockedLedger DEF Nothing
  <2>2. ownedUnits'[index] = [r \in Counted |-> ownedUnits'[index][r]]
    BY <1>2 DEF ownedUnits
  <2> HIDE DEF ownedUnits
  <2> QED BY <2>1, <2>2 DEF Ledger!Nothing
<1>5. freeUnits' = [r \in Counted |-> freeUnits[r] + ownedUnits[index][r]]
  <2>1. \A r \in Counted : ownedUnits[index][r] = alloc[index][r]
    BY <1>1, <1>2, LockedLedger
  <2>2. \A r \in Counted : avail'[r] = avail[r] + alloc[index][r]
    BY <1>1, <1>2 DEF Counted
  <2> QED BY <2>1, <2>2 DEF freeUnits
<1>6. ownedUnits' = [ownedUnits EXCEPT ![index] = Ledger!Nothing]
  <2>1. ownedUnits = [t \in Slot |-> ownedUnits[t]] /\ ownedUnits' = [t \in Slot |-> ownedUnits'[t]]
    BY DEF ownedUnits
  <2> HIDE DEF ownedUnits, Ledger!Nothing
  <2> QED BY <1>2, <1>3, <1>4, <2>1
<1>7. PICK t \in Slot : t = index
  BY <1>2
<1> QED BY <1>5, <1>6, <1>7 DEF Ledger!GiveBack, freeUnits, ownedUnits

LEMMA AllocationTakes == ASSUME Calm, ResourceAllocation PROVE \E t \in Slot : Ledger!Take(t)
<1>1. PICK n \in [Resource -> Nat] :
        /\ alloc' = [alloc EXCEPT ![index] = [r \in Resource |-> alloc[index][r] + n[r]]]
        /\ avail' = [r \in Resource |-> avail[r] - n[r]]
        /\ \A r \in Resource : n[r] <= avail[r] /\ alloc[index][r] + n[r] <= req[index][r]
  BY AllocationShape
<1>2. UNCHANGED user /\ locked
  BY ScanIsLocked DEF ResourceAllocation, userVars, Scanning
<1>3. /\ avail \in [Resource -> Int] /\ alloc \in [Slot -> [Resource -> Nat]] /\ index \in Slot
      /\ \A r \in Counted : r \in Resource
  BY CalmTyping DEF Counted
<1>4. \A t \in Slot \ {index} : ownedUnits'[t] = ownedUnits[t]
  BY <1>1, <1>2, <1>3, LockedLedger
<1>5. \A r \in Counted : /\ ownedUnits[index][r] = alloc[index][r]
                         /\ ownedUnits'[index][r] = alloc[index][r] + n[r]
                         /\ freeUnits[r] = avail[r] /\ freeUnits'[r] = avail[r] - n[r]
                         /\ n[r] \in Nat /\ n[r] <= avail[r]
                         /\ alloc[index][r] \in Int /\ avail[r] \in Int
  <2>1. \A r \in Counted : freeUnits[r] = avail[r] /\ freeUnits'[r] = avail'[r]
    BY DEF freeUnits
  <2>2. \A r \in Counted : /\ ownedUnits[index][r] = alloc[index][r]
                           /\ ownedUnits'[index][r] = alloc'[index][r]
    BY <1>2, <1>3, LockedLedger
  <2> HIDE DEF freeUnits, ownedUnits
  <2>3. \A r \in Resource : /\ alloc'[index][r] = alloc[index][r] + n[r]
                            /\ avail'[r] = avail[r] - n[r]
                            /\ n[r] \in Nat /\ n[r] <= avail[r]
                            /\ alloc[index][r] \in Int /\ avail[r] \in Int
    BY <1>1, <1>3
  <2> QED BY <1>3, <2>1, <2>2, <2>3
<1>6. \A r \in Counted :
        /\ ownedUnits'[index][r] >= ownedUnits[index][r]
        /\ ownedUnits'[index][r] - ownedUnits[index][r] <= freeUnits[r]
        /\ freeUnits'[r] = freeUnits[r] - (ownedUnits'[index][r] - ownedUnits[index][r])
  BY <1>5
<1>7. PICK t \in Slot : t = index
  BY <1>3
<1> QED BY <1>4, <1>6, <1>7, TakeByUnits

LEMMA OssLedger ==
  ASSUME Calm,
         \/ Fork \/ Mark \/ Count \/ NoLaunch \/ Break \/ Lock \/ NoTermination \/ NoRequest
         \/ WakeAll \/ WakeNone \/ Unlock \/ Collect \/ Alarm \/ Ended \/ UNCHANGED vars
  PROVE  UNCHANGED Ledger!vars
<1>1. CASE Mark \/ Count \/ NoLaunch \/ Break \/ Lock \/ NoTermination \/ NoRequest
           \/ WakeAll \/ WakeNone \/ Unlock \/ Collect \/ Alarm \/ Ended \/ UNCHANGED vars
  <2>1. UNCHANGED <<avail, alloc, user, slotOf, item>>
    BY <1>1 DEF Mark, Count, NoLaunch, Break, Lock, NoTermination, NoRequest, WakeAll, WakeNone,
                Unlock, Collect, Alarm, Ended, vars, matrixVars, userVars, startVars
  <2> QED BY <2>1, LedgerStutters
<1>2. CASE Fork
  <2>1. UNCHANGED <<avail, alloc, item>>
    BY <1>2 DEF Fork, matrixVars, startVars
  <2>2. PICK p \in Pid, s \in Slot :
          /\ user[p] = "unborn" /\ user' = [user EXCEPT ![p] = "boot"]
          /\ slotOf' = [slotOf EXCEPT ![p] = s]
    BY <1>2, CalmTyping, BookedTyping, ForkShape
  <2>3. \A o \in Pid : user'[o] \in Transit <=> user[o] \in Transit
    BY <2>2, CalmTyping DEF Transit
  <2>4. \A o \in Pid : user[o] \in Transit => slotOf'[o] = slotOf[o] /\ item'[o] = item[o]
    BY <2>1, <2>2, CalmTyping DEF Transit
  <2> QED BY <2>1, <2>3, <2>4, LedgerStutters
<1> QED BY <1>1, <1>2

LEMMA UserLedger ==
  ASSUME Calm, NEW p \in Pid, UserStep(p)
  PROVE  (\E t \in Slot : Ledger!Take(t)) \/ UNCHANGED Ledger!vars
<1>1. user \in [Pid -> UserState] /\ item \in [Pid -> Resource]
  BY CalmTyping
<1>2. CASE Draw(p)
  BY <1>2, DrawStutters
<1>3. CASE Store(p)
  BY <1>3, StoreTakes
<1>4. CASE Claim(p)
  <2>1. /\ user[p] = "claim" /\ user' = [user EXCEPT ![p] = "draw"]
        /\ item' = [item EXCEPT ![p] = 0] /\ UNCHANGED <<avail, alloc, slotOf>>
    BY <1>4 DEF Claim
  <2>2. \A o \in Pid : user'[o] \in Transit <=> user[o] \in Transit
    BY <1>1, <2>1 DEF Transit
  <2>3. \A o \in Pid : user[o] \in Transit => slotOf'[o] = slotOf[o] /\ item'[o] = item[o]
    BY <1>1, <2>1 DEF Transit
  <2> QED BY <2>1, <2>2, <2>3, LedgerStutters
<1>5. CASE Boot(p) \/ Load(p) \/ Visit(p) \/ Awake(p) \/ Check(p)
  <2>1. /\ UNCHANGED <<avail, alloc, slotOf, item>>
        /\ \E x : user' = [user EXCEPT ![p] = x] /\ (x \in Transit <=> user[p] \in Transit)
    BY <1>5 DEF Boot, Load, Visit, Pass, GiveUp, Hold, Request, Suspend, Withdraw, visit, Awake,
                Check, Transit, matrixVars, startVars
  <2>2. \A o \in Pid : user'[o] \in Transit <=> user[o] \in Transit
    BY <1>1, <2>1
  <2> QED BY <2>1, <2>2, LedgerStutters
<1> QED BY <1>2, <1>3, <1>4, <1>5 DEF UserStep, Start

LEMMA StepsLedger ==
  Sound /\ [Next]_vars =>
    [Ledger!Next \/ overlapped' \/ overtaken' # {} \/ Interrupt \/ Finish]_ledgerVars
<1> SUFFICES ASSUME Sound, [Next]_vars, undisturbed', ~Interrupt, ~Finish
             PROVE  Ledger!Next \/ UNCHANGED Ledger!vars
  BY DEF undisturbed, ledgerVars
<1>1. Calm
  BY RacesStay DEF Calm
<1>2. CASE \E p \in Pid : UserStep(p)
  BY <1>1, <1>2, UserLedger DEF Ledger!Next
<1>3. CASE Terminate
  BY <1>1, <1>3, TerminateGivesBack DEF Ledger!Next
<1>4. CASE ResourceAllocation
  BY <1>1, <1>4, AllocationTakes DEF Ledger!Next
<1>5. CASE \/ Fork \/ Mark \/ Count \/ NoLaunch \/ Break \/ Lock \/ NoTermination \/ NoRequest
           \/ WakeAll \/ WakeNone \/ Unlock \/ Collect \/ Alarm \/ Ended \/ UNCHANGED vars
  BY <1>1, <1>5, OssLedger
<1> QED
  BY <1>2, <1>3, <1>4, <1>5 DEF Next, OssStep

LEMMA InitLedger == Init => Ledger!Init
<1> SUFFICES ASSUME Init PROVE Ledger!Init
  OBVIOUS
<1>1. \A s, r : ~inTransit(s, r)
  BY DEF Init, inTransit
<1>2. freeUnits = [r \in Counted |-> Total[r]]
  BY DEF Init, freeUnits
<1>3. ownedUnits = [s \in Slot |-> [r \in Counted |-> 0]]
  <2>1. \A s \in Slot, r \in Counted : alloc[s][r] = 0
    BY DEF Init, Nothing, Counted
  <2> QED BY <1>1, <2>1 DEF ownedUnits
<1> QED BY <1>2, <1>3 DEF Ledger!Init, Ledger!Nothing, freeUnits, ownedUnits

\* What OSS and the users do to the descriptor is, of the resources that cannot be
\* shared, a ledger: units leave the free pool only as far as they are there, they
\* reach a slot in the same step, and a slot gives back all it has.  A user's first
\* resources, which it draws, loads and stores in three steps, count as taken when
\* it stores.  For every number of slots, processes and units, with signals at any
\* point of OSS's loop, and up to the first of the races.
THEOREM ImplementsTheLedger == Spec => ImplementsLedger
<1>1. Spec => Ledger!Init /\ [][Ledger!Next \/ overlapped' \/ overtaken' # {} \/ Interrupt \/ Finish]_ledgerVars
  BY AlwaysSound, InitLedger, StepsLedger, PTL DEF Spec
<1> QED BY <1>1 DEF ImplementsLedger

-----------------------------------------------------------------------------
(* isSafe.  It is a recursive function, and what it adds up is another one: *)
(* that such functions exist is shown in RecursionLemmas, and what they     *)
(* compute is then found by induction.                                      *)

\* work once the slots of done are finished.
sumOf(done) == [r \in Resource |-> Total[r] + MapThenSumSet(LAMBDA s : alloc[s][r], done)]

\* finish[n] as isSafe computes it.
looks(g, n) == IF n = 0 THEN {}
               ELSE LET done == g[n - 1]
                        s == (n - 1) % Slots
                    IN  IF \A r \in Resource : need(s)[r] <= sumOf(done)[r]
                        THEN done \cup {s} ELSE done

LEMMA FinishExists ==
  \E g : g = [n \in 0 .. Slots * Slots |-> looks(g, n)]
<1> DEFINE V == SUBSET Slot
           add(m, d) == IF \A r \in Resource : need(m % Slots)[r] <= sumOf(d)[r]
                        THEN d \cup {m % Slots} ELSE d
           h == [m \in Nat |-> [d \in V |-> add(m, d)]]
           N == Slots * Slots
<1>1. ASSUME NEW m \in Nat PROVE m % Slots \in Slot
  BY CountAssumption DEF Slot
<1>2. ASSUME NEW m \in Nat, NEW d \in V PROVE add(m, d) \in V
  BY <1>1
<1> HIDE DEF add
<1>3. h \in Steps(V)
  BY <1>2 DEF Steps
<1>4. N \in Nat /\ {} \in V
  BY CountAssumption
<1> HIDE DEF N
<1>5. PICK g \in [0 .. N -> V] :
        \A n \in 0 .. N : g[n] = IF n = 0 THEN {} ELSE h[n - 1][g[n - 1]]
  <2> HIDE DEF h, V
  <2>1. PICK k \in Steps(V) : k = h
    BY <1>3
  <2>2. Iterates(V, {}, k, N)
    BY <1>4, Recursion
  <2> QED BY <2>1, <2>2 DEF Iterates
<1>6. ASSUME NEW n \in 0 .. N PROVE g[n] = looks(g, n)
  <2>1. CASE n = 0
    BY <1>5, <2>1 DEF looks
  <2>2. CASE n # 0
    <3>1. n - 1 \in 0 .. N /\ n - 1 \in Nat /\ g[n - 1] \in V
      BY <1>4, <2>2
    <3>2. g[n] = add(n - 1, g[n - 1])
      BY <1>5, <2>2, <3>1
    <3> QED BY <2>2, <3>2 DEF looks, add
  <2> QED BY <2>1, <2>2
<1>7. g = [n \in 0 .. N |-> looks(g, n)]
  BY <1>6
<1> QED BY <1>7 DEF N

\* isSafe looks at what the looks settle on.
LEMMA SafeIsLast ==
  ASSUME NEW g, g = [n \in 0 .. Slots * Slots |-> looks(g, n)]
  PROVE  \E f : f = [n \in 0 .. Slots * Slots |-> looks(f, n)] /\ isSafe = (f[Slots * Slots] = Slot)
<1> DEFINE finish == CHOOSE f : f = [n \in 0 .. Slots * Slots |-> looks(f, n)]
<1>1. finish = [n \in 0 .. Slots * Slots |-> looks(finish, n)]
  OBVIOUS
<1>2. isSafe = (finish[Slots * Slots] = Slot)
  BY DEF isSafe, safeFrom, looks, sumOf
<1> QED BY <1>1, <1>2

-----------------------------------------------------------------------------

\* The units of resource r in the slots of D.
units(r, D) == MapThenSumSet(LAMBDA s : alloc[s][r], D)

\* One round of adding up the units of resource r in the slots of T.
summed(r, g, T) ==
  IF T = {} THEN 0 ELSE LET s == CHOOSE s \in T : TRUE IN alloc[s][r] + g[T \ {s}]

\* MapThenSumSet is what the rounds settle on.
LEMMA UnitsAreLast ==
  ASSUME NEW r \in Resource, NEW D, NEW g, g = [T \in SUBSET D |-> summed(r, g, T)]
  PROVE  \E f : /\ f = [T \in SUBSET D |-> summed(r, f, T)]
                /\ units(r, D) = f[D]
<1> DEFINE f == CHOOSE f : f = [T \in SUBSET D |-> summed(r, f, T)]
<1>1. f = [T \in SUBSET D |-> summed(r, f, T)]
  OBVIOUS
<1>2. units(r, D) = f[D]
  BY DEF units, MapThenSumSet, MapThenFoldSet, summed
<1> QED BY <1>1, <1>2

\* Units are not negative, so neither is their sum.
LEMMA SumIsNat ==
  ASSUME NEW a \in [Slot -> [Resource -> Nat]], NEW r \in Resource,
         NEW D \in SUBSET Slot, IsFiniteSet(D), alloc = a
  PROVE  units(r, D) \in Nat
<1> DEFINE e == [s \in Slot |-> a[s][r]]
<1>1. \A s \in D : e[s] = a[s][r] /\ e[s] \in Nat
  OBVIOUS
<1>2. IntegersOn(e, D) /\ \A s \in D : e[s] >= 0
  BY <1>1 DEF IntegersOn
<1> HIDE DEF e
<1>3. ASSUME NEW g, NEW T \in SUBSET D PROVE adds(e, g, T) = summed(r, g, T)
  BY <1>1 DEF adds, summed
<1>4. \A g : Settled(e, D, g) <=> g = [T \in SUBSET D |-> summed(r, g, T)]
  BY <1>3 DEF Settled
<1>5. PICK f : Settled(e, D, f) /\ units(r, D) = f[D]
  <2>1. PICK g : Settled(e, D, g)
    BY <1>2, SumExists
  <2>2. g = [T \in SUBSET D |-> summed(r, g, T)]
    BY <1>4, <2>1
  <2>3. PICK h : h = [T \in SUBSET D |-> summed(r, h, T)] /\ units(r, D) = h[D]
    BY <2>2, UnitsAreLast
  <2> QED BY <1>4, <2>3
<1>6. f[D] = SumFunctionOnSet(e, D) /\ f[D] \in Int
  <2>1. D \in SUBSET D
    OBVIOUS
  <2> QED BY <1>2, <1>5, <2>1, SumIsSettled
<1>7. SumFunctionOnSet(e, D) >= 0
  BY <1>2, SumNotNegative
<1> QED BY <1>5, <1>6, <1>7

-----------------------------------------------------------------------------

\* No process claims more of a resource than there is of it.
ClaimsFit == \A s \in Slot, r \in Resource : req[s][r] <= Total[r]

LEMMA ClaimsFitKept == TypeOK /\ ClaimsFit /\ [Next]_vars => ClaimsFit'
<1> SUFFICES ASSUME TypeOK, ClaimsFit, [Next]_vars PROVE ClaimsFit'
  OBVIOUS
<1>1. req \in [Slot -> [Resource -> Nat]] /\ slotOf \in [Pid -> Slot] /\ index \in Slot
  BY DEF TypeOK
<1>2. \A r \in Resource : Total[r] \in Nat /\ 0 <= Total[r]
  BY ClaimAssumption
<1>3. CASE UNCHANGED req
  BY <1>3 DEF ClaimsFit
<1>4. CASE Terminate
  <2>1. req' = [req EXCEPT ![index] = Nothing]
    BY <1>4 DEF Terminate, resetDescription
  <2> QED BY <1>1, <1>2, <2>1 DEF ClaimsFit, Nothing
<1>5. ASSUME NEW p \in Pid, Claim(p) PROVE ClaimsFit'
  BY <1>1, <1>5 DEF Claim, ClaimsFit
<1>6. CASE ResourceAllocation \/ \E p \in Pid : Draw(p) \/ Store(p)
  BY <1>3, <1>6 DEF ResourceAllocation, Draw, Store
<1>7. UNCHANGED matrixVars => UNCHANGED req
  BY DEF matrixVars
<1> QED BY <1>3, <1>4, <1>5, <1>6, <1>7, MatrixSteps

\* A number below the divisor is its own remainder.
LEMMA NoQuotient ==
  ASSUME NEW b \in Nat \ {0}, NEW a \in 0 .. b - 1, NEW quot \in Int, NEW rest \in 0 .. b - 1,
         a = b * quot + rest
  PROVE  rest = a
<1>1. PICK m \in Int : m = b * quot
  OBVIOUS
<1>2. a = m + rest
  BY <1>1
<1>3. m < b /\ m > -b
  BY <1>2
<1>4. quot >= 1 => m >= b
  BY <1>1
<1>5. quot <= -1 => m <= -b
  BY <1>1
<1>6. quot = 0
  BY <1>3, <1>4, <1>5
<1> QED BY <1>1, <1>2, <1>6

LEMMA RemainderOfSmaller == ASSUME NEW b \in Nat \ {0}, NEW a \in 0 .. b - 1 PROVE a % b = a
<1> DEFINE quot == a \div b
           rest == a % b
<1>1. quot \in Int /\ rest \in 0 .. b - 1 /\ a = b * quot + rest
  OBVIOUS
<1>2. rest = a
  <2> HIDE DEF quot, rest
  <2> QED BY <1>1, NoQuotient
<1> QED BY <1>2

\* isSafe starts from all the units there are, so every need is met at once, and
\* one round marks every slot.
LEMMA SafeWhenClaimsFit ==
  ASSUME TypeOK, ClaimsFit PROVE isSafe
<1>1. PICK a \in [Slot -> [Resource -> Nat]] : alloc = a
  BY DEF TypeOK
<1>2. ASSUME NEW D \in SUBSET Slot, NEW s \in Slot, NEW r \in Resource
      PROVE  need(s)[r] <= sumOf(D)[r]
  <2>1. IsFiniteSet(D)
    <3>1. 0 \in Int /\ Slots - 1 \in Int
      BY CountAssumption
    <3>2. IsFiniteSet(Slot)
      BY <3>1, FS_Interval DEF Slot
    <3> QED BY <3>2, FS_Subset
  <2>2. units(r, D) \in Nat
    BY <1>1, <2>1, SumIsNat
  <2>3. sumOf(D)[r] = Total[r] + units(r, D)
    BY DEF sumOf, units
  <2>4. /\ need(s)[r] = req[s][r] - alloc[s][r] /\ req[s][r] <= Total[r] /\ alloc[s][r] \in Nat
        /\ req[s][r] \in Nat /\ Total[r] \in Nat
    BY <1>1, ClaimAssumption DEF need, ClaimsFit, TypeOK
  <2> QED BY <2>2, <2>3, <2>4
<1> DEFINE N == Slots * Slots
<1>3. N \in Nat /\ Slots \in Nat \ {0} /\ Slots <= N
  BY CountAssumption
<1>4. PICK f : f = [n \in 0 .. N |-> looks(f, n)] /\ isSafe = (f[N] = Slot)
  BY FinishExists, SafeIsLast
<1> HIDE DEF N
<1>5. ASSUME NEW n \in Nat, n < N, f[n] \in SUBSET Slot
      PROVE  f[n + 1] = f[n] \cup {n % Slots} /\ n % Slots \in Slot
  <2>1. n + 1 \in 0 .. N /\ n + 1 # 0 /\ (n + 1) - 1 = n
    BY <1>3, <1>5
  <2>2. n % Slots \in Slot
    BY <1>3 DEF Slot
  <2>3. f[n + 1] = looks(f, n + 1)
    BY <1>4, <2>1
  <2> QED BY <1>2, <1>5, <2>1, <2>2, <2>3 DEF looks
<1> DEFINE P == {n \in Nat : n <= N => /\ f[n] \in SUBSET Slot
                                       /\ \A s \in Slot : s < n => s \in f[n]}
<1>6. 0 \in P
  <2>1. f[0] = {}
    BY <1>3, <1>4 DEF looks
  <2>2. \A s \in Slot : ~(s < 0)
    BY DEF Slot
  <2> QED BY <2>1, <2>2
<1>7. ASSUME NEW n \in P PROVE n + 1 \in P
  <2> SUFFICES ASSUME n + 1 <= N
               PROVE  f[n + 1] \in SUBSET Slot /\ \A s \in Slot : s < n + 1 => s \in f[n + 1]
    OBVIOUS
  <2>1. n \in Nat /\ n < N /\ f[n] \in SUBSET Slot /\ \A s \in Slot : s < n => s \in f[n]
    BY <1>3
  <2>2. f[n + 1] = f[n] \cup {n % Slots} /\ n % Slots \in Slot
    BY <1>5, <2>1
  <2>3. ASSUME NEW s \in Slot, s < n + 1 PROVE s \in f[n + 1]
    <3>1. s < n \/ s = n
      BY <2>1, <2>3 DEF Slot
    <3>2. s = n => n % Slots = s
      BY <1>3, RemainderOfSmaller DEF Slot
    <3> QED BY <2>1, <2>2, <3>1, <3>2
  <2> QED BY <2>1, <2>2, <2>3
<1> HIDE DEF P
<1>8. N \in P
  <2>1. P \in SUBSET Nat
    BY DEF P
  <2>2. P = Nat
    BY <1>6, <1>7, <2>1, EveryNumber
  <2> QED BY <1>3, <2>2
<1>9. f[N] \in SUBSET Slot /\ \A s \in Slot : s < N => s \in f[N]
  BY <1>3, <1>8 DEF P
<1>10. \A s \in Slot : s < N
  BY <1>3 DEF Slot
<1> QED BY <1>4, <1>9, <1>10

\* isSafe, which starts from resource_vector (529), never finds a state unsafe, for any
\* number of slots and resources: whatever the races and the signals leave in the
\* matrices, OSS avoids no deadlock, and a request is only ever suspended because too
\* little is available.
THEOREM SafetyTestIsIdle == Spec => []isSafe
<1>1. Init => ClaimsFit
  BY ClaimAssumption DEF Init, ClaimsFit, Nothing
<1>2. Booked => TypeOK
  BY DEF Booked
<1>3. TypeOK /\ ClaimsFit => isSafe
  BY SafeWhenClaimsFit
<1>4. TypeOK /\ ClaimsFit /\ [Next]_vars => ClaimsFit'
  BY ClaimsFitKept
<1> QED BY <1>1, <1>2, <1>3, <1>4, AlwaysBooked, PTL DEF Spec
=============================================================================
