------------------------- MODULE VirtualClock_proofs -------------------------
(***************************************************************************)
(* Theorems about VirtualClock for any number of children, any unit of     *)
(* time and any points at which signals strike.  That a full message slot  *)
(* stands for one leaving child is not inductive: it needs mutual          *)
(* exclusion, that a child never waits for time 0 (which would look like   *)
(* an empty slot), and that nobody leaves while the master forks.          *)
(***************************************************************************)
EXTENDS VirtualClock, FiniteSetTheorems, WellFoundedInduction, TLAPS

Inside == {"check", "wait", "tick", "carry", "clear", "cede"}

Leaves(p) == child[p] \in {"leaving", "zombie"}

Types ==
  /\ child \in [Pid -> ChildState]
  /\ saw \in [Pid -> Nat] /\ target \in [Pid -> Nat]
  /\ seconds \in Nat /\ nanoseconds \in Nat /\ message \in Nat
  /\ totalChildren \in Nat
  /\ pc \in Point \union {"done", "dead"}
  /\ up = (pc # "done")

\* While the semaphore exists, a child in its critical section holds it, and so does
\* the master in its own, from which it forks a replacement.
Guarded ==
  /\ up => \A p \in Pid : child[p] = "critical" => holder = p
  /\ pc \in Inside => holder = Master
  /\ pc \in {"fork", "push"} /\ totalChildren >= InitChildren => holder = Master

\* The clock has not moved while the first children are forked.
Early ==
  /\ pc \notin {"fork", "push", "done", "dead"} => totalChildren >= InitChildren
  /\ pc \in {"fork", "push"} /\ totalChildren < InitChildren =>
       seconds = 0 /\ nanoseconds = 0 /\ message = 0

\* No child waits for time 0.
TargetsAhead ==
  \A p \in Pid : child[p] \in {"before", "critical", "leaving"} => target[p] > 0

\* A child that left has left the time in the slot; none has when the master forks.
NobodyLeft == pc \in {"fork", "push"} => \A p \in Pid : ~Leaves(p)

OneLeaver ==
  up /\ pc \notin {"fork", "push", "dead"} =>
    /\ \A p, q \in Pid : Leaves(p) /\ Leaves(q) => p = q
    /\ \A p \in Pid : Leaves(p) => message = target[p] /\ message # 0
    /\ message # 0 => \E p \in Pid : (Leaves(p) \/ child[p] = "failed") /\ target[p] = message

ClockInvariant == Types /\ Guarded /\ Early /\ TargetsAhead /\ NobodyLeft /\ OneLeaver

-----------------------------------------------------------------------------

LEMMA UpdateType ==
  ASSUME NEW A, NEW B, NEW h \in [A -> B], NEW a, NEW b \in B
  PROVE  [h EXCEPT ![a] = b] \in [A -> B]
  OBVIOUS

\* A child waits at least one unit from whatever time it read.
LEMMA AddNanoIsLater ==
  ASSUME NEW s \in Nat, NEW n \in Nat, NEW d \in Delay
  PROVE  addNano(s, n, d) \in Nat /\ addNano(s, n, d) > 0
<1>1. Second \in Nat /\ d \in Nat /\ d > 0
  BY ClockAssumption
<1>2. PICK m \in Nat : m = s * Second
  BY <1>1
<1>3. (s + 1) * Second = m + Second
  BY <1>1, <1>2
<1>4. CASE n + d >= Second
  BY <1>1, <1>2, <1>3, <1>4 DEF addNano, formatTime
<1>5. CASE ~(n + d >= Second)
  BY <1>1, <1>2, <1>5 DEF addNano, formatTime
<1> QED BY <1>4, <1>5

LEMMA StartOfTime == formatTime(0, 0) = 0
  BY ClockAssumption DEF formatTime

LEMMA InvariantInit == Init => ClockInvariant
<1> SUFFICES ASSUME Init PROVE ClockInvariant
  OBVIOUS
<1>1. Types
  BY DEF Init, Types, ChildState, Point
<1>2. Guarded /\ Early /\ TargetsAhead /\ NobodyLeft /\ OneLeaver
  BY ChildAssumption DEF Init, Guarded, Early, TargetsAhead, NobodyLeft, OneLeaver, Inside, Leaves
<1> QED BY <1>1, <1>2 DEF ClockInvariant

\* The clean-up, however it is reached, leaves nothing that the invariant speaks of.
LEMMA CleanUpKeeps ==
  ASSUME ClockInvariant, cleanUp,
         UNCHANGED <<clockVars, message, totalChildren, saw, target>>
  PROVE  ClockInvariant'
<1>1. child' \in [Pid -> ChildState]
  BY DEF ClockInvariant, Types, cleanUp, ChildState
<1>2. Types'
  BY <1>1 DEF ClockInvariant, Types, cleanUp, clockVars
<1>3. TargetsAhead'
  BY DEF ClockInvariant, Types, TargetsAhead, cleanUp
<1>4. Guarded' /\ Early' /\ NobodyLeft' /\ OneLeaver'
  BY DEF cleanUp, Guarded, Early, NobodyLeft, OneLeaver, Inside
<1> QED BY <1>2, <1>3, <1>4 DEF ClockInvariant

\* Forking resets at most one child.
LEMMA ForkKeeps == ASSUME ClockInvariant, Fork PROVE ClockInvariant'
<1> DEFINE i == Cardinality(forked) + 1
<1>1. child' = [child EXCEPT ![i] = "boot"] /\ pc = "fork" /\ pc' = "push"
      /\ UNCHANGED <<clockVars, message, holder, up, pids, totalChildren, saw, target>>
  BY DEF Fork
<1> HIDE DEF i
<1>2. child' \in [Pid -> ChildState]
  BY <1>1, UpdateType DEF ClockInvariant, Types, ChildState
<1>3. \A p \in Pid : child'[p] = child[p] \/ child'[p] = "boot"
  BY <1>1 DEF ClockInvariant, Types
<1>4. Types'
  BY <1>1, <1>2 DEF ClockInvariant, Types, clockVars, Point
<1>5. Guarded' /\ Early'
  BY <1>1, <1>3 DEF ClockInvariant, Guarded, Early, clockVars, Inside
<1>6. TargetsAhead' /\ NobodyLeft' /\ OneLeaver'
  BY <1>1, <1>3 DEF ClockInvariant, TargetsAhead, NobodyLeft, OneLeaver, Leaves
<1> QED BY <1>4, <1>5, <1>6 DEF ClockInvariant

LEMMA PushKeeps == ASSUME ClockInvariant, Push PROVE ClockInvariant'
<1>1. totalChildren \in Nat /\ totalChildren' = totalChildren + 1 /\ InitChildren \in Nat
  BY ChildAssumption DEF ClockInvariant, Types, Push
<1>2. CASE totalChildren < InitChildren
  <2>1. message' = 0 /\ pc' = IF totalChildren' < InitChildren THEN "fork" ELSE "loop"
    BY <1>2 DEF ClockInvariant, Early, Push
  <2>2. Types'
    BY <1>1, <2>1 DEF ClockInvariant, Types, Push, clockVars, childVars, Point
  <2>3. Guarded' /\ Early'
    BY <1>1, <1>2, <2>1 DEF ClockInvariant, Guarded, Early, Push, clockVars, childVars, Inside
  <2>4. TargetsAhead' /\ NobodyLeft' /\ OneLeaver'
    BY <2>1 DEF ClockInvariant, TargetsAhead, NobodyLeft, OneLeaver, Leaves, Push, childVars
  <2> QED BY <2>2, <2>3, <2>4 DEF ClockInvariant
<1>3. CASE ~(totalChildren < InitChildren)
  <2>1. message' = 0 /\ pc' = "tick"
    BY <1>3 DEF Push
  <2>2. Types'
    BY <1>1, <2>1 DEF ClockInvariant, Types, Push, clockVars, childVars, Point
  <2>3. Guarded' /\ Early'
    BY <1>1, <1>3, <2>1 DEF ClockInvariant, Guarded, Early, Push, clockVars, childVars, Inside
  <2>4. TargetsAhead' /\ NobodyLeft' /\ OneLeaver'
    BY <2>1 DEF ClockInvariant, TargetsAhead, NobodyLeft, OneLeaver, Leaves, Push, childVars
  <2> QED BY <2>2, <2>3, <2>4 DEF ClockInvariant
<1> QED BY <1>2, <1>3

\* The child that is collected is the one that left, so nobody has left afterwards.
LEMMA ReapKeeps == ASSUME ClockInvariant, Reap PROVE ClockInvariant'
<1>1. PICK r \in Pid : child[r] = "zombie" /\ child' = [child EXCEPT ![r] = "reaped"]
  BY DEF Reap
<1>2. pc = "wait" /\ pc' = "fork"
      /\ UNCHANGED <<clockVars, message, holder, up, totalChildren, saw, target>>
  BY DEF Reap
<1>3. up
  BY <1>2 DEF ClockInvariant, Types
<1>4. \A p \in Pid : child'[p] = IF p = r THEN "reaped" ELSE child[p]
  BY <1>1 DEF ClockInvariant, Types
<1>5. Types'
  <2>1. child' \in [Pid -> ChildState]
    BY <1>1, UpdateType DEF ClockInvariant, Types, ChildState
  <2> QED BY <1>2, <1>3, <2>1 DEF ClockInvariant, Types, clockVars, Point
<1>6. Guarded' /\ Early'
  <2>1. totalChildren >= InitChildren /\ ~(totalChildren < InitChildren)
    BY <1>2, ChildAssumption DEF ClockInvariant, Types, Early
  <2> QED BY <1>2, <1>4, <2>1 DEF ClockInvariant, Guarded, Early, Inside, clockVars
<1>7. NobodyLeft'
  BY <1>1, <1>2, <1>3, <1>4 DEF ClockInvariant, OneLeaver, NobodyLeft, Leaves
<1>8. TargetsAhead' /\ OneLeaver'
  BY <1>2, <1>4 DEF ClockInvariant, TargetsAhead, OneLeaver
<1> QED BY <1>5, <1>6, <1>7, <1>8 DEF ClockInvariant

\* The other steps of the master change no child.
LEMMA MasterKeeps ==
  ASSUME ClockInvariant,
         ForkFails \/ Enter \/ Check \/ Tick \/ Carry \/ Clear \/ Cede
  PROVE  ClockInvariant'
<1>1. UNCHANGED <<message, up, totalChildren, child, saw, target>>
  BY DEF ForkFails, Enter, Check, Tick, Carry, Clear, Cede, childVars
<1>2. seconds' \in Nat /\ nanoseconds' \in Nat
  BY ClockAssumption DEF ClockInvariant, Types, ForkFails, Enter, Check, Tick, Carry, Clear, Cede,
                         clockVars
<1>3. pc' \in Point \union {"done", "dead"} /\ pc' # "done" /\ pc # "done"
  BY DEF ForkFails, Enter, Check, Tick, Carry, Clear, Cede, Point
<1>4. Types'
  BY <1>1, <1>2, <1>3 DEF ClockInvariant, Types
<1>5. Guarded'
  <2>1. CASE Enter
    <3>1. \A p \in Pid : p # Nobody
      BY ChildAssumption DEF Pid, Nobody
    <3> QED BY <1>1, <2>1, <3>1 DEF ClockInvariant, Guarded, Inside, Enter
  <2>2. CASE ForkFails \/ Cede
    <3>1. \A p \in Pid : p # Master
      BY ChildAssumption DEF Pid, Master
    <3>2. \A p \in Pid : up /\ child[p] = "critical" => holder = p /\ holder # Master
      BY <3>1 DEF ClockInvariant, Guarded
    <3>3. pc' \in {"dead", "loop"} /\ (holder # Master => pc # "cede")
      BY <2>2 DEF ClockInvariant, Guarded, Inside, ForkFails, Cede
    <3> QED BY <1>1, <2>2, <3>2, <3>3 DEF Guarded, Inside, ForkFails, Cede
  <2>3. CASE Check \/ Tick \/ Carry \/ Clear
    BY <1>1, <2>3 DEF ClockInvariant, Guarded, Inside, Check, Tick, Carry, Clear
  <2> QED BY <2>1, <2>2, <2>3
<1>6. Early'
  BY <1>1 DEF ClockInvariant, Early, ForkFails, Enter, Check, Tick, Carry, Clear, Cede
<1>7. TargetsAhead' /\ NobodyLeft'
  BY <1>1 DEF ClockInvariant, TargetsAhead, NobodyLeft, Leaves,
              ForkFails, Enter, Check, Tick, Carry, Clear, Cede
<1>8. OneLeaver'
  BY <1>1 DEF ClockInvariant, OneLeaver, Leaves, ForkFails, Enter, Check, Tick, Carry, Clear, Cede
<1> QED BY <1>4, <1>5, <1>6, <1>7, <1>8 DEF ClockInvariant

\* A child that looks at the clock, waits for the semaphore or takes it neither leaves
\* nor touches the slot.
LEMMA LookKeeps ==
  ASSUME ClockInvariant, NEW p \in Pid, LookAtSeconds(p) \/ LookAtNano(p) \/ EnterChild(p)
  PROVE  ClockInvariant'
<1>1. UNCHANGED <<clockVars, message, up, pc, pids, totalChildren>>
  BY DEF LookAtSeconds, LookAtNano, EnterChild, masterVars
<1>2. PICK s \in {"looking", "stranded", "before", "critical"} : child' = [child EXCEPT ![p] = s]
  BY DEF LookAtSeconds, LookAtNano, EnterChild
<1>3. child' \in [Pid -> ChildState]
  BY <1>2, UpdateType DEF ClockInvariant, Types, ChildState
<1>4. \A q \in Pid : child'[q] = IF q = p THEN s ELSE child[q]
  BY <1>2 DEF ClockInvariant, Types
<1>5. child[p] \notin {"leaving", "zombie", "failed"}
  BY DEF LookAtSeconds, LookAtNano, EnterChild
<1>6. /\ saw' \in [Pid -> Nat] /\ target' \in [Pid -> Nat]
      /\ \A q \in Pid : q # p => target'[q] = target[q]
      /\ s \in {"before", "critical"} => target'[p] > 0
  <2>1. CASE LookAtSeconds(p)
    <3>1. saw' \in [Pid -> Nat]
      BY <2>1, UpdateType DEF ClockInvariant, Types, LookAtSeconds
    <3>2. child'[p] \in {"looking", "stranded"}
      BY <2>1 DEF ClockInvariant, Types, LookAtSeconds
    <3> QED BY <1>4, <2>1, <3>1, <3>2 DEF ClockInvariant, Types, LookAtSeconds
  <2>2. CASE LookAtNano(p)
    <3>1. PICK d \in Delay : target' = [target EXCEPT ![p] = addNano(saw[p], nanoseconds, d)]
      BY <2>2 DEF LookAtNano
    <3>2. addNano(saw[p], nanoseconds, d) \in Nat /\ addNano(saw[p], nanoseconds, d) > 0
      BY AddNanoIsLater DEF ClockInvariant, Types
    <3>3. saw' \in [Pid -> Nat]
      BY <2>2, UpdateType DEF ClockInvariant, Types, LookAtNano
    <3>4. target' \in [Pid -> Nat]
      BY <3>1, <3>2, UpdateType DEF ClockInvariant, Types
    <3>5. target'[p] > 0 /\ \A q \in Pid : q # p => target'[q] = target[q]
      BY <3>1, <3>2 DEF ClockInvariant, Types
    <3> QED BY <3>3, <3>4, <3>5
  <2>3. CASE EnterChild(p)
    BY <2>3 DEF ClockInvariant, Types, TargetsAhead, EnterChild
  <2> QED BY <2>1, <2>2, <2>3
<1>7. Types'
  BY <1>1, <1>3, <1>6 DEF ClockInvariant, Types, clockVars
<1>8. Guarded'
  <2>1. CASE EnterChild(p)
    <3>1. holder = Nobody /\ holder' = p
      BY <2>1 DEF EnterChild
    <3>2. Nobody # Master /\ \A q \in Pid : q # Nobody
      BY ChildAssumption DEF Nobody, Master, Pid
    <3> QED BY <1>1, <1>4, <3>1, <3>2 DEF ClockInvariant, Guarded
  <2>2. CASE LookAtSeconds(p) \/ LookAtNano(p)
    <3>1. holder' = holder /\ child'[p] # "critical"
      BY <2>2 DEF ClockInvariant, Types, LookAtSeconds, LookAtNano
    <3> QED BY <1>1, <1>4, <3>1 DEF ClockInvariant, Guarded
  <2> QED BY <2>1, <2>2
<1>9. Early'
  BY <1>1 DEF ClockInvariant, Early, clockVars
<1>10. TargetsAhead' /\ NobodyLeft'
  BY <1>1, <1>4, <1>6 DEF ClockInvariant, TargetsAhead, NobodyLeft, Leaves
<1>11. OneLeaver'
  <2>1. \A q \in Pid : Leaves(q)' = Leaves(q)
    BY <1>4, <1>5 DEF Leaves
  <2>2. \A q \in Pid : child[q] = "failed" => child'[q] = "failed" /\ q # p
    BY <1>4, <1>5
  <2>3. \A q \in Pid : Leaves(q) => q # p
    BY <1>5 DEF Leaves
  <2> QED BY <1>1, <1>6, <2>1, <2>2, <2>3 DEF ClockInvariant, OneLeaver
<1> QED BY <1>7, <1>8, <1>9, <1>10, <1>11 DEF ClockInvariant


\* While the master forks, either it holds the semaphore or no time has passed, so a
\* child in its critical section cannot leave.
LEMMA NobodyLeavesNow ==
  ASSUME ClockInvariant, NEW p \in Pid, child[p] = "critical", pc \in {"fork", "push"}
  PROVE  ~(formatTime(seconds, nanoseconds) > target[p])
<1>1. up /\ p # Master
  <2>1. up
    BY DEF ClockInvariant, Types
  <2>2. p # Master
    BY ChildAssumption DEF Pid, Master
  <2> QED BY <2>1, <2>2
<1>2. ~(totalChildren >= InitChildren)
  BY <1>1 DEF ClockInvariant, Guarded
<1>3. totalChildren < InitChildren
  BY <1>2, ChildAssumption DEF ClockInvariant, Types
<1>4. formatTime(seconds, nanoseconds) = 0
  BY <1>3, StartOfTime DEF ClockInvariant, Early
<1> QED BY <1>4 DEF ClockInvariant, TargetsAhead, Types

LEMMA CedeChildKeeps ==
  ASSUME ClockInvariant, NEW p \in Pid, CedeChild(p) PROVE ClockInvariant'
<1> DEFINE leaves == formatTime(seconds, nanoseconds) > target[p] /\ message = 0
<1>1. /\ child[p] = "critical"
      /\ message' = IF leaves THEN target[p] ELSE message
      /\ child' = [child EXCEPT ![p] = IF leaves THEN "leaving" ELSE "before"]
      /\ holder' = IF up THEN Nobody ELSE holder
      /\ UNCHANGED <<clockVars, up, pc, pids, totalChildren, saw, target>>
  BY DEF CedeChild, masterVars
<1>2. target[p] \in Nat /\ target[p] > 0
  BY <1>1 DEF ClockInvariant, Types, TargetsAhead
<1>3. pc \in {"fork", "push"} => ~leaves
  BY <1>1, NobodyLeavesNow
<1>4. up => /\ holder = p /\ pc \notin Inside
            /\ pc \in {"fork", "push"} => ~(totalChildren >= InitChildren)
            /\ \A q \in Pid : q # p => child[q] # "critical"
  <2>1. p # Master
    BY ChildAssumption DEF Pid, Master
  <2> QED BY <1>1, <2>1 DEF ClockInvariant, Guarded
<1> HIDE DEF leaves
<1>5. \A q \in Pid : child'[q] = IF q = p THEN IF leaves THEN "leaving" ELSE "before" ELSE child[q]
  BY <1>1 DEF ClockInvariant, Types
<1>6. Types'
  <2>1. child' \in [Pid -> ChildState]
    BY <1>1, UpdateType DEF ClockInvariant, Types, ChildState
  <2> QED BY <1>1, <1>2, <2>1 DEF ClockInvariant, Types, clockVars
<1>7. Guarded'
  BY <1>1, <1>4, <1>5 DEF ClockInvariant, Types, Guarded, Inside
<1>8. Early' /\ NobodyLeft'
  BY <1>1, <1>3, <1>5 DEF ClockInvariant, Early, NobodyLeft, Leaves, clockVars
<1>9. TargetsAhead'
  BY <1>1, <1>2, <1>5 DEF ClockInvariant, TargetsAhead
<1>10. OneLeaver'
  <2>1. CASE leaves
    <3>1. message = 0 /\ message' = target[p]
      BY <1>1, <2>1 DEF leaves
    <3>2. Leaves(p)'
      BY <1>5, <2>1 DEF Leaves
    <3>3. SUFFICES ASSUME up, pc \notin {"fork", "push", "dead"}
                   PROVE  \A q \in Pid : Leaves(q)' => q = p
      BY <1>1, <1>2, <3>1, <3>2 DEF OneLeaver
    <3>4. \A q \in Pid : ~Leaves(q)
      BY <3>1, <3>3 DEF ClockInvariant, OneLeaver
    <3> QED BY <1>5, <3>4 DEF Leaves
  <2>2. CASE ~leaves
    <3>1. \A q \in Pid : Leaves(q)' = Leaves(q) /\ (child'[q] = "failed") = (child[q] = "failed")
      BY <1>1, <1>5, <2>2 DEF Leaves
    <3> QED BY <1>1, <2>2, <3>1 DEF ClockInvariant, OneLeaver
  <2> QED BY <2>1, <2>2
<1> QED BY <1>6, <1>7, <1>8, <1>9, <1>10 DEF ClockInvariant

LEMMA ExitKeeps == ASSUME ClockInvariant, NEW p \in Pid, Exit(p) PROVE ClockInvariant'
<1>1. /\ child[p] = "leaving" \/ (child[p] = "before" /\ ~up)
      /\ child' = [child EXCEPT ![p] = "zombie"]
      /\ UNCHANGED <<clockVars, message, holder, up, pc, pids, totalChildren, saw, target>>
  BY DEF Exit, masterVars
<1>2. \A q \in Pid : child'[q] = IF q = p THEN "zombie" ELSE child[q]
  BY <1>1 DEF ClockInvariant, Types
<1>3. Types'
  <2>1. child' \in [Pid -> ChildState]
    BY <1>1, UpdateType DEF ClockInvariant, Types, ChildState
  <2> QED BY <1>1, <2>1 DEF ClockInvariant, Types, clockVars
<1>4. Guarded' /\ Early' /\ TargetsAhead'
  BY <1>1, <1>2 DEF ClockInvariant, Guarded, Early, TargetsAhead, clockVars
<1>5. up => \A q \in Pid : Leaves(q)' = Leaves(q) /\ (child'[q] = "failed") = (child[q] = "failed")
  BY <1>1, <1>2 DEF Leaves
<1>6. NobodyLeft'
  BY <1>1, <1>5 DEF ClockInvariant, Types, NobodyLeft
<1>7. OneLeaver'
  BY <1>1, <1>5 DEF ClockInvariant, OneLeaver
<1> QED BY <1>3, <1>4, <1>6, <1>7 DEF ClockInvariant

LEMMA FailKeeps == ASSUME ClockInvariant, NEW p \in Pid, Fail(p) PROVE ClockInvariant'
<1>1. /\ child[p] \in Running
      /\ child' = [child EXCEPT ![p] = "failed"]
      /\ holder' = IF holder = p THEN Nobody ELSE holder
      /\ UNCHANGED <<clockVars, message, up, pc, pids, totalChildren, saw, target>>
  BY DEF Fail, masterVars
<1>2. \A q \in Pid : child'[q] = IF q = p THEN "failed" ELSE child[q]
  BY <1>1 DEF ClockInvariant, Types
<1>3. Types'
  <2>1. child' \in [Pid -> ChildState]
    BY <1>1, UpdateType DEF ClockInvariant, Types, ChildState
  <2> QED BY <1>1, <2>1 DEF ClockInvariant, Types, clockVars
<1>4. Guarded'
  <2>1. p # Master
    BY ChildAssumption DEF Pid, Master
  <2> QED BY <1>1, <1>2, <2>1 DEF ClockInvariant, Guarded
<1>5. Early' /\ TargetsAhead' /\ NobodyLeft'
  BY <1>1, <1>2 DEF ClockInvariant, Early, TargetsAhead, NobodyLeft, Leaves, clockVars
<1>6. OneLeaver'
  <2>1. \A q \in Pid : Leaves(q)' => Leaves(q)
    BY <1>2 DEF Leaves
  <2>2. \A q \in Pid : Leaves(q) \/ child[q] = "failed" => Leaves(q)' \/ child'[q] = "failed"
    BY <1>2 DEF Leaves
  <2> QED BY <1>1, <2>1, <2>2 DEF ClockInvariant, OneLeaver
<1> QED BY <1>3, <1>4, <1>5, <1>6 DEF ClockInvariant

LEMMA InvariantStep == ClockInvariant /\ [Next]_vars => ClockInvariant'
<1> SUFFICES ASSUME ClockInvariant, [Next]_vars PROVE ClockInvariant'
  OBVIOUS
<1>1. CASE MasterStep
  <2>1. CASE Finish \/ ReapFailed
    BY <2>1, CleanUpKeeps DEF Finish, ReapFailed
  <2> QED BY <1>1, <2>1, ForkKeeps, PushKeeps, ReapKeeps, MasterKeeps DEF MasterStep
<1>2. CASE ForkFails
  BY <1>2, MasterKeeps
<1>3. CASE Signal
  BY <1>3, CleanUpKeeps DEF Signal
<1>4. ASSUME NEW p \in Pid, ChildStep(p) \/ Fail(p) PROVE ClockInvariant'
  BY <1>4, LookKeeps, CedeChildKeeps, ExitKeeps, FailKeeps DEF ChildStep
<1>5. CASE Ended \/ UNCHANGED vars
  <2>1. UNCHANGED <<seconds, nanoseconds, message, holder, up, pc, totalChildren, child, saw, target>>
    BY <1>5 DEF Ended, vars, clockVars, masterVars, childVars
  <2>2. Types' /\ Guarded' /\ Early'
    BY <2>1 DEF ClockInvariant, Types, Guarded, Early
  <2>3. TargetsAhead' /\ NobodyLeft' /\ OneLeaver'
    BY <2>1 DEF ClockInvariant, TargetsAhead, NobodyLeft, OneLeaver, Leaves
  <2> QED BY <2>2, <2>3 DEF ClockInvariant
<1> QED BY <1>1, <1>2, <1>3, <1>4, <1>5 DEF Next

\* The invariant holds, so no child is in its critical section together with the
\* master or with another.
THEOREM ClockInvariantHolds == Spec => []ClockInvariant
BY InvariantInit, InvariantStep, PTL DEF Spec

\* A full message slot stands for exactly one child that is exiting or was killed.
THEOREM SlotHasOneLeaver == Spec => []LeaverInSlot
<1>1. ClockInvariant => LeaverInSlot
  BY DEF ClockInvariant, OneLeaver, Leaves, LeaverInSlot
<1> QED BY <1>1, ClockInvariantHolds, PTL

-----------------------------------------------------------------------------

\* A finite set of numbers has a greatest, so Slack is one of its members.
LEMMA GreatestMember ==
  ASSUME NEW S \in SUBSET Nat, S # {}, IsFiniteSet(S)
  PROVE  Slack(S) \in S /\ \A e \in S : e <= Slack(S)
<1> DEFINE Has(U) == \E d \in U : \A e \in U : e <= d
           Sizes == {n \in Nat : \E U \in SUBSET S : U # {} /\ Cardinality(U) = n /\ ~Has(U)}
           below == OpToRel(<, Nat)
<1>1. IsWellFoundedOn(below, Nat)
  BY NatLessThanWellFounded
<1>2. \A x, y \in Nat : y < x => <<y, x>> \in below
  BY DEF OpToRel
<1> HIDE DEF below
<1>3. Sizes = {}
  <2>1. SUFFICES ASSUME Sizes # {} PROVE FALSE
    OBVIOUS
  <2>2. PICK n \in Sizes : \A m \in Sizes : ~(<<m, n>> \in below)
    BY <1>1, <2>1, WFMin
  <2>3. PICK U \in SUBSET S : U # {} /\ Cardinality(U) = n /\ ~Has(U)
    BY <2>2
  <2>4. PICK u \in U : TRUE
    BY <2>3
  <2>5. IsFiniteSet(U)
    BY FS_Subset
  <2>6. Cardinality(U \ {u}) = n - 1 /\ IsFiniteSet(U \ {u})
    BY <2>3, <2>5, FS_RemoveElement
  <2>7. n \in Nat /\ Cardinality(U \ {u}) \in Nat /\ u \in Nat
    BY <2>6, FS_CardinalityType
  <2>8. CASE U \ {u} = {}
    <3>1. \A e \in U : e = u
      BY <2>8
    <3> QED BY <2>3, <2>7, <3>1
  <2>9. CASE U \ {u} # {} /\ ~Has(U \ {u})
    <3>1. n - 1 \in Sizes
      BY <2>6, <2>7, <2>9
    <3>2. ~(<<n - 1, n>> \in below)
      BY <2>2, <3>1
    <3> QED BY <1>2, <2>6, <2>7, <3>2
  <2>10. CASE Has(U \ {u})
    <3>1. PICK d \in U \ {u} : \A e \in U \ {u} : e <= d
      BY <2>10
    <3>2. d \in Nat
      OBVIOUS
    <3>3. CASE u <= d
      <4>1. \A e \in U : e <= d
        BY <3>1, <3>3
      <4> QED BY <2>3, <4>1
    <3>4. CASE ~(u <= d)
      <4>1. \A e \in U : e \in Nat /\ e <= u
        BY <2>7, <3>1, <3>2, <3>4
      <4> QED BY <2>3, <4>1
    <3> QED BY <3>3, <3>4
  <2> QED BY <2>8, <2>9, <2>10
<1>4. Cardinality(S) \in Nat
  BY FS_CardinalityType
<1>5. \E d \in S : \A e \in S : e <= d
  BY <1>3, <1>4
<1> QED BY <1>5 DEF Slack

LEMMA LongestStep == Slack(Step) \in Nat \ {0} /\ \A d \in Step : d <= Slack(Step)
  BY GreatestMember, ClockAssumption

LEMMA LongestDelay == Slack(Delay) \in Nat /\ \A d \in Delay : d <= Slack(Delay)
<1>1. Delay \in SUBSET Nat /\ Delay # {} /\ Second \in Nat /\ \A d \in Delay : d <= Second
  BY ClockAssumption
<1>2. IsFiniteSet(Delay)
  BY <1>1, FS_BoundedSetOfNaturals
<1> QED BY <1>1, <1>2, GreatestMember

\* What a child has seen of the clock is behind it, the nanoseconds are less than a
\* second but while the master carries, and the second is never taken back, so a time
\* to wait for stays within the bound once it is.
Waits ==
  /\ \A p \in Pid : saw[p] <= seconds
  /\ nanoseconds < Second + Slack(Step)
  /\ pc \notin {"carry", "clear", "done"} => nanoseconds < Second
  /\ \A p \in Pid : child[p] \in {"before", "critical"} =>
        target[p] <= seconds * Second + (Second + Slack(Step) + Slack(Delay))

LEMMA SecondsGrow ==
  ASSUME NEW a \in Nat, NEW b \in Nat, a <= b
  PROVE  a * Second \in Nat /\ b * Second \in Nat /\ a * Second <= b * Second
<1>1. PICK k \in Nat : b = a + k
  <2>1. b - a \in Nat /\ b = a + (b - a)
    OBVIOUS
  <2> QED BY <2>1
<1>2. Second \in Nat
  BY ClockAssumption
<1>3. (a + k) * Second = a * Second + k * Second
  BY <1>2
<1>4. a * Second \in Nat /\ k * Second \in Nat
  BY <1>2
<1> QED BY <1>1, <1>3, <1>4

LEMMA WaitsInit == Init => Waits
<1> SUFFICES ASSUME Init PROVE Waits
  OBVIOUS
<1> QED BY LongestStep, ClockAssumption DEF Init, Waits

\* The time a child computes from the seconds it saw and the nanoseconds it sees.
LEMMA AddNanoIsBounded ==
  ASSUME Types, Waits, NEW p \in Pid, NEW d \in Delay
  PROVE  addNano(saw[p], nanoseconds, d)
           <= seconds * Second + (Second + Slack(Step) + Slack(Delay))
<1>1. /\ Second \in Nat /\ saw[p] \in Nat /\ seconds \in Nat /\ nanoseconds \in Nat
      /\ d \in Nat /\ saw[p] <= seconds /\ nanoseconds < Second + Slack(Step)
  BY ClockAssumption DEF Types, Waits
<1>2. saw[p] * Second \in Nat /\ seconds * Second \in Nat /\ saw[p] * Second <= seconds * Second
  BY <1>1, SecondsGrow
<1>3. addNano(saw[p], nanoseconds, d) = saw[p] * Second + nanoseconds + d
  <2>1. (saw[p] + 1) * Second = saw[p] * Second + Second
    BY <1>1
  <2>2. CASE nanoseconds + d >= Second
    BY <1>1, <1>2, <2>1, <2>2 DEF addNano, formatTime
  <2>3. CASE ~(nanoseconds + d >= Second)
    BY <1>1, <1>2, <2>3 DEF addNano, formatTime
  <2> QED BY <2>2, <2>3
<1>4. Slack(Step) \in Nat /\ Slack(Delay) \in Nat /\ d <= Slack(Delay)
  BY LongestStep, LongestDelay
<1> QED BY <1>1, <1>2, <1>3, <1>4

\* Steps that leave every child's time alone.
LEMMA ClockKeepsWaits ==
  ASSUME Types, Waits, seconds' \in Nat, seconds <= seconds',
         UNCHANGED <<child, target>>, \A p \in Pid : saw'[p] \in {saw[p], 0, seconds}
  PROVE  /\ \A p \in Pid : saw'[p] <= seconds'
         /\ \A p \in Pid : child'[p] \in {"before", "critical"} =>
              target'[p] <= seconds' * Second + (Second + Slack(Step) + Slack(Delay))
<1>1. seconds \in Nat /\ \A p \in Pid : saw[p] \in Nat /\ saw[p] <= seconds
  BY DEF Types, Waits
<1>2. \A p \in Pid : saw'[p] <= seconds'
  BY <1>1
<1>3. ASSUME NEW p \in Pid, child'[p] \in {"before", "critical"}
      PROVE  target'[p] <= seconds' * Second + (Second + Slack(Step) + Slack(Delay))
  <2>1. /\ seconds * Second \in Nat /\ seconds' * Second \in Nat
        /\ seconds * Second <= seconds' * Second
    BY <1>1, SecondsGrow
  <2> DEFINE slack == Second + Slack(Step) + Slack(Delay)
  <2>2. target[p] <= seconds * Second + slack /\ target[p] \in Nat
    BY <1>3 DEF Waits, Types
  <2>3. slack \in Nat /\ target'[p] = target[p]
    BY ClockAssumption, LongestStep, LongestDelay
  <2> QED BY <2>1, <2>2, <2>3
<1> QED BY <1>2, <1>3

\* The master carries before the nanoseconds are a second and a step, and the
\* nanoseconds are less than a second when it gives the semaphore back.
LEMMA WaitsKept == Types /\ Waits /\ [Next]_vars => Waits'
<1> SUFFICES ASSUME Types, Waits, [Next]_vars PROVE Waits'
  OBVIOUS
<1>1. seconds \in Nat /\ nanoseconds \in Nat /\ Second \in Nat \ {0} /\ Slack(Step) \in Nat
  BY LongestStep, ClockAssumption DEF Types
<1>2. CASE Tick
  <2>1. PICK d \in Step : nanoseconds' = nanoseconds + d
    BY <1>2 DEF Tick
  <2>2. d \in Nat /\ d <= Slack(Step)
    BY ClockAssumption, LongestStep
  <2>3. /\ pc = "tick" /\ pc' = IF nanoseconds' >= Second THEN "carry" ELSE "cede"
        /\ UNCHANGED <<seconds, child, saw, target>>
    BY <1>2 DEF Tick, childVars
  <2>4. nanoseconds < Second /\ nanoseconds' \in Nat
    BY <1>1, <2>1, <2>2, <2>3 DEF Waits
  <2>5. nanoseconds' < Second + Slack(Step) /\ (pc' \notin {"carry"} => nanoseconds' < Second)
    BY <1>1, <2>1, <2>2, <2>3, <2>4
  <2> QED BY <2>3, <2>5 DEF Waits
<1>3. CASE Carry \/ Clear
  <2>1. /\ seconds' \in Nat /\ seconds <= seconds'
        /\ UNCHANGED <<child, saw, target>>
        /\ pc' \in {"clear", "cede"} /\ (nanoseconds' = 0 \/ nanoseconds' = nanoseconds)
        /\ pc' = "cede" => nanoseconds' = 0
    BY <1>1, <1>3 DEF Carry, Clear, childVars
  <2>2. /\ nanoseconds' < Second + Slack(Step)
        /\ pc' \notin {"carry", "clear", "done"} => nanoseconds' < Second
    BY <1>1, <2>1 DEF Waits
  <2>3. \A p \in Pid : saw'[p] \in {saw[p], 0, seconds}
    BY <2>1
  <2> QED BY <2>1, <2>2, <2>3, ClockKeepsWaits DEF Waits
<1>4. CASE Finish \/ ReapFailed \/ Signal
  <2>1. /\ UNCHANGED <<seconds, nanoseconds, saw, target>> /\ pc' = "done"
        /\ \A p \in Pid : child'[p] \in {child[p], "killed"}
    BY <1>4 DEF Finish, ReapFailed, Signal, cleanUp, clockVars
  <2> QED BY <2>1 DEF Waits
<1>5. CASE Fork \/ Push \/ Reap
  <2>1. /\ UNCHANGED <<seconds, nanoseconds, saw, target>>
        /\ \A p \in Pid : child'[p] = child[p] \/ child'[p] \in {"boot", "reaped"}
    BY <1>5 DEF Types, Fork, Push, Reap, clockVars, childVars
  <2>2. pc' \notin {"carry", "clear", "done"} => pc \notin {"carry", "clear", "done"}
    BY <1>5 DEF Fork, Push, Reap
  <2> QED BY <2>1, <2>2 DEF Waits
<1>6. CASE ForkFails \/ Enter \/ Check \/ Cede
  <2>1. /\ UNCHANGED <<seconds, nanoseconds, saw, target, child>>
        /\ pc \notin {"carry", "clear", "done"}
    BY <1>6 DEF ForkFails, Enter, Check, Cede, clockVars, childVars
  <2> QED BY <2>1 DEF Waits
<1>7. ASSUME NEW p \in Pid, LookAtNano(p) PROVE Waits'
  <2>1. PICK d \in Delay : target' = [target EXCEPT ![p] = addNano(saw[p], nanoseconds, d)]
    BY <1>7 DEF LookAtNano
  <2>2. /\ UNCHANGED <<seconds, nanoseconds, pc>>
        /\ \A q \in Pid : q # p => child'[q] = child[q]
        /\ \A q \in Pid : saw'[q] \in {saw[q], 0}
    BY <1>7 DEF LookAtNano, Types, clockVars, masterVars
  <2> DEFINE bound == seconds * Second + (Second + Slack(Step) + Slack(Delay))
             t == addNano(saw[p], nanoseconds, d)
  <2>3. t <= bound
    BY AddNanoIsBounded
  <2>4. \A q \in Pid : target'[q] = IF q = p THEN t ELSE target[q]
    BY <2>1 DEF Types
  <2> HIDE DEF t
  <2>5. \A q \in Pid : child'[q] \in {"before", "critical"} => target'[q] <= bound
    BY <2>2, <2>3, <2>4 DEF Waits
  <2>6. bound' = bound
    BY <2>2
  <2>7. \A q \in Pid : saw'[q] <= seconds'
    BY <1>1, <2>2 DEF Waits
  <2> QED BY <2>2, <2>5, <2>6, <2>7 DEF Waits
<1>8. ASSUME NEW p \in Pid,
             LookAtSeconds(p) \/ EnterChild(p) \/ CedeChild(p) \/ Exit(p) \/ Fail(p)
      PROVE  Waits'
  <2>1. UNCHANGED <<seconds, nanoseconds, pc, target>>
    BY <1>8 DEF LookAtSeconds, EnterChild, CedeChild, Exit, Fail, clockVars, masterVars
  <2>2. \A q \in Pid : saw'[q] \in {saw[q], 0, seconds}
    BY <1>8 DEF LookAtSeconds, EnterChild, CedeChild, Exit, Fail, Types
  <2>3. \A q \in Pid : child'[q] \in {"before", "critical"} => child[q] \in {"before", "critical"}
    <3>1. CASE LookAtSeconds(p)
      BY <3>1 DEF LookAtSeconds, Types
    <3>2. CASE EnterChild(p)
      BY <3>2 DEF EnterChild, Types
    <3>3. CASE CedeChild(p)
      BY <3>3 DEF CedeChild, Types
    <3>4. CASE Exit(p) \/ Fail(p)
      BY <3>4 DEF Exit, Fail, Types
    <3> QED BY <1>8, <3>1, <3>2, <3>3, <3>4
  <2>4. \A q \in Pid : saw'[q] <= seconds'
    BY <1>1, <2>1, <2>2 DEF Waits
  <2> QED BY <2>1, <2>3, <2>4 DEF Waits
<1>9. CASE Ended \/ UNCHANGED vars
  <2>1. UNCHANGED <<seconds, nanoseconds, pc, child, saw, target>>
    BY <1>9 DEF Ended, vars, clockVars, masterVars, childVars
  <2> QED BY <2>1 DEF Waits
<1> QED BY <1>2, <1>3, <1>4, <1>5, <1>6, <1>7, <1>8, <1>9 DEF Next, MasterStep, ChildStep

\* A child that reads the seconds and the nanoseconds apart, and without the
\* semaphore, still waits for a time that is at most a second, a step and its own
\* delay away, however the master's carry falls between the two reads.
THEOREM WaitsAreShort == Spec => []WaitIsBounded
<1>1. Types /\ Waits => WaitIsBounded
  <2> SUFFICES ASSUME Types, Waits, NEW p \in Pid, child[p] \in {"before", "critical"}
               PROVE  target[p] <= Now + Second + Slack(Step) + Slack(Delay)
    BY DEF WaitIsBounded
  <2>1. target[p] <= seconds * Second + (Second + Slack(Step) + Slack(Delay))
    BY DEF Waits
  <2>2. /\ Second \in Nat /\ Slack(Step) \in Nat /\ Slack(Delay) \in Nat
        /\ seconds \in Nat /\ nanoseconds \in Nat /\ target[p] \in Nat
    BY LongestStep, LongestDelay, ClockAssumption DEF Types
  <2>3. seconds * Second \in Nat
    BY <2>2
  <2> QED BY <2>1, <2>2, <2>3 DEF Now, formatTime
<1>2. ClockInvariant => Types
  BY DEF ClockInvariant
<1> QED BY <1>1, <1>2, WaitsInit, WaitsKept, ClockInvariantHolds, PTL DEF Spec

-----------------------------------------------------------------------------

\* The children that have been forked, with the one that is not yet on the list.
launched == IF pc = "push" THEN totalChildren + 1 ELSE totalChildren

\* They are numbered in the order of the forks, and there is a number left for the
\* next one wherever the master may still fork.
Numbered ==
  pc # "done" =>
    /\ launched <= MaxChildren
    /\ \A p \in Pid : child[p] # "unborn" <=> p <= launched
    /\ pc \in {"check", "wait", "fork"} => totalChildren < MaxChildren

Listed ==
  /\ pids \subseteq Pid
  /\ up => \A p \in Pid : p \in pids <=> /\ child[p] \notin {"unborn", "reaped"}
                                         /\ pc = "push" => p # launched
  /\ pc = "push" => child[launched] # "reaped"
  /\ pc = "done" => \A p, q \in Pid : child[p] \in Running /\ child[q] \in Running => p = q

LEMMA ListedInit == Init => Numbered /\ Listed
  BY ChildAssumption DEF Init, Numbered, Listed, launched, Pid

\* childLauncher gives the next number, and the master lists that very child.
LEMMA NextNumber ==
  ASSUME Types, Numbered, pc # "done"
  PROVE  Cardinality(forked) = launched
<1>1. launched \in Nat /\ launched <= MaxChildren /\ MaxChildren \in Nat
  BY ChildAssumption DEF Types, Numbered, launched
<1>2. forked = 1 .. launched
  BY <1>1 DEF Numbered, forked, Pid
<1>3. Cardinality(1 .. launched) = IF 1 > launched THEN 0 ELSE launched - 1 + 1
  BY <1>1, FS_Interval
<1> QED BY <1>1, <1>2, <1>3

LEMMA ForkLists ==
  ASSUME Types, Numbered, Listed, Fork PROVE Numbered' /\ Listed'
<1>1. /\ pc = "fork" /\ pc' = "push" /\ UNCHANGED <<up, pids, totalChildren>>
      /\ child' = [child EXCEPT ![Cardinality(forked) + 1] = "boot"]
  BY DEF Fork
<1>2. Cardinality(forked) = totalChildren
  BY <1>1, NextNumber DEF launched
<1>3. /\ totalChildren \in Nat /\ totalChildren < MaxChildren /\ MaxChildren \in Nat
      /\ totalChildren + 1 \in Pid
  BY <1>1, ChildAssumption DEF Types, Numbered, Pid
<1>4. \A p \in Pid : child'[p] = IF p = totalChildren + 1 THEN "boot" ELSE child[p]
  BY <1>1, <1>2 DEF Types
<1>5. launched' = totalChildren + 1 /\ launched = totalChildren
  BY <1>1 DEF launched
<1>6. \A p \in Pid : (child[p] # "unborn" <=> p <= totalChildren) /\ p \in Nat
  BY <1>1, <1>5 DEF Numbered, Pid
<1>7. Numbered'
  BY <1>1, <1>3, <1>4, <1>5, <1>6 DEF Numbered
<1>8. Listed'
  BY <1>1, <1>3, <1>4, <1>5, <1>6 DEF Listed, Types
<1> QED BY <1>7, <1>8

LEMMA PushLists ==
  ASSUME Types, Numbered, Listed, Push PROVE Numbered' /\ Listed'
<1>1. /\ pc = "push" /\ UNCHANGED <<up, child>>
      /\ totalChildren' = totalChildren + 1 /\ totalChildren \in Nat
      /\ pc' \in {"fork", "loop", "tick"}
      /\ pc' = "fork" => totalChildren' < InitChildren
      /\ pids' = pids \union {Cardinality(forked)}
  BY DEF Push, Types, childVars
<1>2. launched = totalChildren + 1 /\ launched' = launched
  BY <1>1 DEF launched
<1>3. Cardinality(forked) = launched /\ launched <= MaxChildren
  BY <1>1, NextNumber DEF Numbered
<1>4. launched \in Pid
  BY <1>1, <1>2, <1>3, ChildAssumption DEF Pid
<1>5. child[launched] \notin {"unborn", "reaped"}
  <2>1. child[launched] # "unborn"
    BY <1>1, <1>2, <1>4 DEF Numbered, Pid
  <2> QED BY <2>1, <1>1 DEF Listed
<1>6. Numbered'
  BY <1>1, <1>2, <1>3, ChildAssumption DEF Numbered
<1>7. Listed'
  BY <1>1, <1>2, <1>3, <1>4, <1>5 DEF Listed
<1> QED BY <1>6, <1>7

\* Whoever has left is listed, so it is the one that is collected; the clean-up kills
\* the list and can only miss the child that is being listed.
LEMMA ReapLists ==
  ASSUME Types, Numbered, Listed, Reap PROVE Numbered' /\ Listed'
<1>1. pc = "wait" /\ pc' = "fork" /\ UNCHANGED <<up, totalChildren>>
  BY DEF Reap
<1>2. PICK r \in Pid : /\ child[r] = "zombie" /\ child' = [child EXCEPT ![r] = "reaped"]
                       /\ pids' = pids \ {r}
  BY DEF Reap
<1>3. \A p \in Pid : child'[p] = IF p = r THEN "reaped" ELSE child[p]
  BY <1>2 DEF Types
<1>4. launched' = launched
  BY <1>1 DEF launched
<1>5. Numbered'
  BY <1>1, <1>2, <1>3, <1>4 DEF Numbered
<1>6. Listed'
  BY <1>1, <1>2, <1>3, <1>4 DEF Listed
<1> QED BY <1>5, <1>6

LEMMA CleanUpLists ==
  ASSUME Types, Numbered, Listed, cleanUp, pc # "done"
  PROVE  Numbered' /\ Listed'
<1>1. pc' = "done" /\ pids' = {} /\ up' = FALSE /\ up
  BY DEF cleanUp, Types
<1>2. \A p \in Pid : child'[p] \in Running => child[p] \in Running /\ p \notin pids
  BY DEF cleanUp, Running
<1>3. \A p \in Pid : child[p] \in Running /\ p \notin pids => pc = "push" /\ p = launched
  BY <1>1 DEF Listed, Running
<1> QED BY <1>1, <1>2, <1>3 DEF Numbered, Listed

LEMMA ChildLists ==
  ASSUME Types, Numbered, Listed, NEW p \in Pid, ChildStep(p) \/ Fail(p)
  PROVE  Numbered' /\ Listed'
<1>1. UNCHANGED <<pc, pids, totalChildren, up>>
  BY DEF ChildStep, LookAtSeconds, LookAtNano, EnterChild, CedeChild, Exit, Fail, masterVars
<1>2. child[p] \in Running
  BY DEF ChildStep, LookAtSeconds, LookAtNano, EnterChild, CedeChild, Exit, Fail, Running
<1>3. PICK s \in ChildState \ {"unborn", "reaped"} : child' = [child EXCEPT ![p] = s]
  <2>1. CASE LookAtSeconds(p) \/ LookAtNano(p) \/ EnterChild(p)
    BY <2>1 DEF LookAtSeconds, LookAtNano, EnterChild, ChildState
  <2>2. CASE CedeChild(p)
    BY <2>2 DEF CedeChild, ChildState
  <2>3. CASE Exit(p) \/ Fail(p)
    BY <2>3 DEF Exit, Fail, ChildState
  <2> QED BY <2>1, <2>2, <2>3 DEF ChildStep
<1>4. \A q \in Pid : child'[q] = IF q = p THEN s ELSE child[q]
  BY <1>3 DEF Types
<1>5. launched' = launched
  BY <1>1 DEF launched
<1>6. child[p] \notin {"unborn", "reaped"}
  BY <1>2 DEF Running
<1>7. Numbered'
  BY <1>1, <1>4, <1>5, <1>6 DEF Numbered
<1>8. Listed'
  <2>1. \A q \in Pid : child'[q] \in {"unborn", "reaped"} => child'[q] = child[q]
    BY <1>3, <1>4
  <2>2. \A q \in Pid : child[q] \in {"unborn", "reaped"} => child'[q] = child[q]
    BY <1>4, <1>6
  <2>3. \A q \in Pid : child'[q] \in Running => child[q] \in Running
    BY <1>2, <1>4
  <2>4. pc = "push" => child'[launched] # "reaped"
    <3>1. CASE pc = "push" /\ launched \in Pid
      BY <2>1, <3>1 DEF Listed
    <3>2. CASE pc = "push" /\ launched \notin Pid
      BY <1>3, <3>2 DEF Listed, Types
    <3> QED BY <3>1, <3>2
  <2> QED BY <1>1, <1>5, <2>1, <2>2, <2>3, <2>4 DEF Listed
<1> QED BY <1>7, <1>8

LEMMA ListedKept == Types /\ Numbered /\ Listed /\ [Next]_vars => Numbered' /\ Listed'
<1> SUFFICES ASSUME Types, Numbered, Listed, [Next]_vars PROVE Numbered' /\ Listed'
  OBVIOUS
<1>1. CASE Finish \/ ReapFailed \/ Signal
  <2>1. cleanUp /\ pc # "done"
    <3>1. "done" \notin SignalAt
      BY FaultAssumption DEF Point
    <3> QED BY <1>1, <3>1 DEF Finish, ReapFailed, Signal
  <2> QED BY <2>1, CleanUpLists
<1>2. CASE Enter \/ Check \/ Tick \/ Carry \/ Clear \/ Cede \/ ForkFails
  <2>1. /\ UNCHANGED <<up, pids, totalChildren, child>>
        /\ pc \notin {"push", "done"} /\ pc' \notin {"push", "done", "fork"}
        /\ pc' \in {"check", "wait"} => pc = "check" \/ totalChildren < MaxChildren
    BY <1>2 DEF Enter, Check, Tick, Carry, Clear, Cede, ForkFails, goesOn, childVars
  <2>2. launched' = launched
    BY <2>1 DEF launched
  <2> QED BY <2>1, <2>2 DEF Numbered, Listed
<1>3. CASE Ended \/ UNCHANGED vars
  <2>1. UNCHANGED <<up, pids, totalChildren, child, pc>>
    BY <1>3 DEF Ended, vars, masterVars, childVars
  <2>2. launched' = launched
    BY <2>1 DEF launched
  <2> QED BY <2>1, <2>2 DEF Numbered, Listed
<1> QED BY <1>1, <1>2, <1>3, ForkLists, PushLists, ReapLists, ChildLists DEF Next, MasterStep

\* The master's list holds exactly the children it has forked and not collected, so
\* its clean-up kills them all, but for one that a signal kept it from listing.
THEOREM ListIsComplete == Spec => []ListedOrCollected
<1>1. Types /\ Numbered /\ Listed => ListedOrCollected
  <2> SUFFICES ASSUME Types, Numbered, Listed PROVE ListedOrCollected
    OBVIOUS
  <2>1. up /\ pc # "push" => pids = {p \in forked : child[p] # "reaped"}
    BY DEF Listed, forked
  <2>2. ASSUME pc = "done" PROVE Cardinality({p \in Pid : child[p] \in Running}) <= 1
    <3> DEFINE R == {p \in Pid : child[p] \in Running}
    <3>1. \A p, q \in R : p = q
      BY <2>2 DEF Listed
    <3> HIDE DEF R
    <3>2. R = {} \/ \E p : R = {p}
      BY <3>1
    <3>3. Cardinality(R) \in {0, 1}
      BY <3>2, FS_EmptySet, FS_Singleton
    <3> QED BY <3>3 DEF R
  <2> QED BY <2>1, <2>2 DEF ListedOrCollected
<1>2. ClockInvariant => Types
  BY DEF ClockInvariant
<1>3. Types /\ Numbered /\ Listed /\ [Next]_vars => Numbered' /\ Listed'
  BY ListedKept
<1> QED BY <1>1, <1>2, <1>3, ListedInit, ClockInvariantHolds, PTL DEF Spec
=============================================================================
