-------------------------- MODULE FrameTable_proofs --------------------------
(***************************************************************************)
(* Theorems about FrameTable for any number of slots, frames, pages and    *)
(* processes.  MappedPagesAreHeld and HeldPagesAreMapped need each other,  *)
(* the fact that no two slots belong to one process, and the fact that     *)
(* free slots map nothing; together with the types these are inductive.    *)
(***************************************************************************)
EXTENDS FrameTable, TLAPS, WellFoundedInduction

\* A set of natural numbers that is not empty has a least element, so the
\* searches of getAvailableLocation and pageFaultWork return a member of the
\* set they search.
LEMMA MinIsMember ==
  ASSUME NEW S, S \subseteq Nat, S # {}
  PROVE  Min(S) \in S
<1> DEFINE below == OpToRel(<, Nat)
<1>1. IsWellFoundedOn(below, Nat)
  BY NatLessThanWellFounded
<1>2. \A x, y \in Nat : y < x => <<y, x>> \in below
  BY DEF OpToRel
<1> HIDE DEF below
<1>3. PICK x \in S : \A y \in S : ~(<<y, x>> \in below)
  BY <1>1, WFMin
<1>4. ASSUME NEW y \in S PROVE x =< y
  <2>1. x \in Nat /\ y \in Nat
    OBVIOUS
  <2>2. ~(y < x)
    BY <1>2, <1>3, <2>1
  <2> QED BY <2>1, <2>2
<1>5. \E z \in S : \A y \in S : z =< y
  BY <1>4
<1> QED BY <1>5, Zenon DEF Min

LEMMA UpdateType ==
  ASSUME NEW A, NEW B, NEW h \in [A -> B], NEW a, NEW b \in B
  PROVE  [h EXCEPT ![a] = b] \in [A -> B]
  OBVIOUS

LEMMA VictimIsSlot ==
  ASSUME NEW f PROVE victimSlot(f) \in Slot
<1> DEFINE owning == {s \in Slot : bitVector[s] = frameTable[f].pid}
<1>1. 0 \in Slot
  BY SlotsAssumption DEF Slot
<1>2. owning # {} => Min(owning) \in Slot
  <2>1. owning \subseteq Nat
    BY SlotsAssumption DEF Slot
  <2> QED BY <2>1, MinIsMember
<1> QED BY <1>1, <1>2 DEF victimSlot

\* A victim slot other than 0 belongs to a process when the frame is occupied.
LEMMA VictimIsOwned ==
  ASSUME NEW f, frameTable[f].pid # 0, victimSlot(f) # 0
  PROVE  bitVector[victimSlot(f)] # 0
<1> DEFINE owning == {s \in Slot : bitVector[s] = frameTable[f].pid}
<1>1. owning \subseteq Nat
  BY SlotsAssumption DEF Slot
<1>2. owning # {} /\ victimSlot(f) = Min(owning)
  BY DEF victimSlot
<1>3. Min(owning) \in owning
  BY <1>1, <1>2, MinIsMember
<1> QED BY <1>2, <1>3

-----------------------------------------------------------------------------

SlotsAreExclusive ==
  \A s, t \in Slot : bitVector[s] = bitVector[t] /\ bitVector[s] # 0 => s = t

LEMMA NoPagesType == NoPages \in [Page -> Frame \cup {-1}]
  BY DEF NoPages

LEMMA FreeFrameIsFrame ==
  ASSUME freeFrames # {}
  PROVE  Min(freeFrames) \in Frame /\ ~frameTable[Min(freeFrames)].occupied
<1>1. freeFrames \subseteq Nat
  BY MemoryAssumption DEF freeFrames, Frame
<1>2. Min(freeFrames) \in freeFrames
  BY <1>1, MinIsMember
<1> QED BY <1>2 DEF freeFrames

LEMMA InitTypes == Init => TypeOK
  BY NoPagesType, MemoryAssumption DEF Init, TypeOK, Frame

LEMMA TypesKept == TypeOK /\ [Next]_vars => TypeOK'
<1> SUFFICES ASSUME TypeOK, [Next]_vars PROVE TypeOK'
  OBVIOUS
<1> USE DEF TypeOK
<1>1. CASE UNCHANGED vars
  BY <1>1 DEF vars
<1>2. ASSUME NEW s \in Slot, NEW p \in Pid, Launch(s, p) PROVE TypeOK'
  BY <1>2, NoPagesType DEF Launch, initPCB
<1>3. ASSUME NEW s \in Slot, NEW pg \in Page, bitVector[s] # 0,
             Access(s, bitVector[s], pg)
      PROVE  TypeOK'
  <2> DEFINE p == bitVector[s]
  <2>1. p \in Pid
    BY <1>3
  <2>2. CASE Hit(s, pg) \/ Skip(s, pg)
    BY <2>2 DEF Hit, Skip, vars
  <2>3. CASE Place(s, p, pg)
    <3>1. Min(freeFrames) \in Frame
      BY <2>3, FreeFrameIsFrame DEF Place
    <3>2. qFrame' \in Seq(Frame) /\ Len(qFrame') <= Memory
      BY <2>3, <3>1, MemoryAssumption DEF Place, Queue!Enqueued
    <3>3. Holds(p, pg) \in {Holds(q, g) : q \in Pid, g \in Page}
      BY <2>1
    <3>4. frameTable' \in [Frame -> {Empty} \cup {Holds(q, g) : q \in Pid, g \in Page}]
      BY <2>3, <3>1, <3>3 DEF Place
    <3>5. pageTable' \in [Slot -> [Page -> Frame \cup {-1}]]
      BY <2>3, <3>1 DEF Place
    <3> QED BY <2>3, <3>2, <3>4, <3>5 DEF Place
  <2>4. CASE Replace(s, p, pg)
    <3> DEFINE f == Head(qFrame)
    <3>1. f \in Frame
      BY <2>4 DEF Replace
    <3>2. qFrame' \in Seq(Frame) /\ Len(qFrame') <= Memory
      BY <2>4, MemoryAssumption DEF Replace
    <3>3. victimSlot(f) \in Slot
      BY VictimIsSlot
    <3>4. pageTable' \in [Slot -> [Page -> Frame \cup {-1}]]
      <4> DEFINE g == frameTable[f].page
                 v == victimSlot(f)
      <4>1. [pageTable[v] EXCEPT ![g] = f] \in [Page -> Frame \cup {-1}]
        <5>1. pageTable[v] \in [Page -> Frame \cup {-1}] /\ f \in Frame \cup {-1}
          BY <3>1, <3>3
        <5> HIDE DEF f, g, v
        <5> QED BY <5>1, UpdateType
      <4>2. pageTable' = [pageTable EXCEPT ![v] = [pageTable[v] EXCEPT ![g] = f]]
        BY <2>4, Zenon DEF Replace
      <4> QED BY <3>3, <4>1, <4>2
    <3>5. Holds(p, pg) \in {Holds(q, g) : q \in Pid, g \in Page}
      BY <2>1
    <3>6. frameTable' \in [Frame -> {Empty} \cup {Holds(q, g) : q \in Pid, g \in Page}]
      BY <2>4, <3>1, <3>5 DEF Replace
    <3> QED BY <2>4, <3>2, <3>4, <3>6 DEF Replace
  <2> QED BY <1>3, <2>2, <2>3, <2>4 DEF Access
<1>4. ASSUME NEW s \in Slot, Terminate(s) PROVE TypeOK'
  BY <1>4, NoPagesType DEF Terminate
<1> QED BY <1>1, <1>2, <1>3, <1>4 DEF Next

\* Every index the operations compute stays inside its array, and an occupied
\* frame always names a process and a page, for any instance.
THEOREM TypeCorrect == Spec => []TypeOK
  BY InitTypes, TypesKept, PTL DEF Spec

-----------------------------------------------------------------------------
(* The page tables and the frame table until the first replacement *)

Agreement ==
  SlotsAreExclusive /\ MappedPagesAreHeld /\ HeldPagesAreMapped /\ FreeSlotsMapNothing

\* An occupied frame names a process and a page, and Holds forgets neither.
LEMMA OccupiedFrame ==
  ASSUME TypeOK, NEW f \in Frame, frameTable[f].occupied
  PROVE  /\ frameTable[f].pid \in Pid /\ frameTable[f].pid # 0
         /\ frameTable[f].page \in Page
<1>1. frameTable[f] \in {Empty} \cup {Holds(p, pg) : p \in Pid, pg \in Page}
  BY DEF TypeOK
<1>2. frameTable[f] # Empty
  BY DEF Empty
<1>3. PICK p \in Pid, pg \in Page : frameTable[f] = Holds(p, pg)
  BY <1>1, <1>2
<1> QED BY <1>3, PidAssumption DEF Holds

LEMMA HoldsFields ==
  ASSUME NEW p, NEW pg
  PROVE  Holds(p, pg).occupied /\ Holds(p, pg).pid = p /\ Holds(p, pg).page = pg
  BY DEF Holds

LEMMA HoldsInjective ==
  ASSUME NEW p, NEW a, NEW q, NEW b, Holds(p, a) = Holds(q, b)
  PROVE  p = q
<1>1. Holds(p, a).pid = Holds(q, b).pid
  OBVIOUS
<1> QED BY <1>1, HoldsFields

LEMMA LaunchPreserves ==
  ASSUME TypeOK, Agreement, NEW s \in Slot, NEW p \in Pid,
         \A t \in Slot : bitVector[t] # p, Launch(s, p)
  PROVE  Agreement'
<1>1. bitVector[s] = 0
  <2>1. freeSlots \subseteq Nat /\ freeSlots # {} /\ s = Min(freeSlots)
    BY SlotsAssumption DEF Launch, freeSlots, Slot
  <2>2. s \in freeSlots
    BY <2>1, MinIsMember
  <2> QED BY <2>2 DEF freeSlots
<1>2. /\ \A t \in Slot : bitVector'[t] = IF t = s THEN p ELSE bitVector[t]
      /\ \A t \in Slot : pageTable'[t] = IF t = s THEN NoPages ELSE pageTable[t]
      /\ frameTable' = frameTable /\ replaced' = replaced
  BY DEF Launch, initPCB, TypeOK
<1>3. p # 0
  BY PidAssumption
<1>4. SlotsAreExclusive'
  BY <1>2 DEF Agreement, SlotsAreExclusive
<1>5. MappedPagesAreHeld'
  <2>1. \A pg \in Page : NoPages[pg] = -1
    BY DEF NoPages
  <2> QED BY <1>2, <2>1 DEF Agreement, MappedPagesAreHeld
<1>6. HeldPagesAreMapped'
  <2> SUFFICES ASSUME ~replaced, NEW f \in Frame, frameTable[f].occupied
               PROVE  \E t \in Slot : /\ bitVector'[t] = frameTable[f].pid
                                      /\ frameTable[f].page \in Page
                                      /\ pageTable'[t][frameTable[f].page] = f
    BY <1>2 DEF HeldPagesAreMapped
  <2>1. PICK t \in Slot : /\ bitVector[t] = frameTable[f].pid
                          /\ frameTable[f].page \in Page
                          /\ pageTable[t][frameTable[f].page] = f
    BY DEF Agreement, HeldPagesAreMapped
  <2>2. t # s
    BY <1>1, <2>1, OccupiedFrame
  <2> QED BY <1>2, <2>1, <2>2
<1>7. FreeSlotsMapNothing'
  BY <1>2, <1>3 DEF Agreement, FreeSlotsMapNothing
<1> QED BY <1>4, <1>5, <1>6, <1>7 DEF Agreement

LEMMA PlacePreserves ==
  ASSUME TypeOK, Agreement, NEW s \in Slot, NEW pg \in Page, bitVector[s] # 0,
         Place(s, bitVector[s], pg)
  PROVE  Agreement'
<1> DEFINE f == Min(freeFrames)
<1>1. f \in Frame /\ ~frameTable[f].occupied
  BY FreeFrameIsFrame DEF Place
<1>2. pageTable[s][pg] = -1 /\ bitVector' = bitVector /\ replaced' = replaced
  BY DEF Place
<1>3. \A t \in Slot, g \in Page :
        pageTable'[t][g] = IF t = s /\ g = pg THEN f ELSE pageTable[t][g]
  BY DEF Place, TypeOK
<1>4. \A h \in Frame :
        frameTable'[h] = IF h = f THEN Holds(bitVector[s], pg) ELSE frameTable[h]
  BY DEF Place, TypeOK
<1>5. f # -1
  BY <1>1, MemoryAssumption DEF Frame
<1> HIDE DEF f
<1>6. SlotsAreExclusive'
  BY <1>2 DEF Agreement, SlotsAreExclusive
<1>7. MappedPagesAreHeld'
  <2> SUFFICES ASSUME ~replaced, NEW t \in Slot, NEW g \in Page, pageTable'[t][g] # -1
               PROVE  /\ bitVector[t] # 0
                      /\ frameTable'[pageTable'[t][g]] = Holds(bitVector[t], g)
    BY <1>2 DEF MappedPagesAreHeld
  <2>1. CASE t = s /\ g = pg
    BY <1>1, <1>3, <1>4, <2>1
  <2>2. CASE ~(t = s /\ g = pg)
    <3>1. pageTable'[t][g] = pageTable[t][g] /\ pageTable[t][g] \in Frame
      BY <1>3, <2>2 DEF TypeOK
    <3>2. bitVector[t] # 0 /\ frameTable[pageTable[t][g]] = Holds(bitVector[t], g)
      BY <3>1 DEF Agreement, MappedPagesAreHeld
    <3>3. pageTable[t][g] # f
      BY <1>1, <3>2, HoldsFields
    <3> QED BY <1>4, <3>1, <3>2, <3>3
  <2> QED BY <2>1, <2>2
<1>8. HeldPagesAreMapped'
  <2> SUFFICES ASSUME ~replaced, NEW h \in Frame, frameTable'[h].occupied
               PROVE  \E t \in Slot : /\ bitVector[t] = frameTable'[h].pid
                                      /\ frameTable'[h].page \in Page
                                      /\ pageTable'[t][frameTable'[h].page] = h
    BY <1>2 DEF HeldPagesAreMapped
  <2>1. CASE h = f
    BY <1>3, <1>4, <2>1, HoldsFields
  <2>2. CASE h # f
    <3>1. frameTable'[h] = frameTable[h]
      BY <1>4, <2>2
    <3>2. PICK t \in Slot : /\ bitVector[t] = frameTable[h].pid
                            /\ frameTable[h].page \in Page
                            /\ pageTable[t][frameTable[h].page] = h
      BY <3>1 DEF Agreement, HeldPagesAreMapped
    <3>3. h # -1
      BY MemoryAssumption DEF Frame
    <3>4. pageTable'[t][frameTable[h].page] = h
      BY <1>2, <1>3, <3>2, <3>3
    <3> QED BY <3>1, <3>2, <3>4
  <2> QED BY <2>1, <2>2
<1>9. FreeSlotsMapNothing'
  <2>1. \A t \in Slot : t # s => pageTable'[t] = pageTable[t]
    BY DEF Place, TypeOK
  <2> QED BY <1>2, <2>1 DEF Agreement, FreeSlotsMapNothing
<1> QED BY <1>6, <1>7, <1>8, <1>9 DEF Agreement

LEMMA ReplacePreserves ==
  ASSUME TypeOK, Agreement, NEW s \in Slot, NEW p \in Pid, NEW pg \in Page,
         Replace(s, p, pg)
  PROVE  Agreement'
<1> DEFINE f == Head(qFrame)
           v == victimSlot(f)
<1>1. f \in Frame
  BY DEF Replace, TypeOK
<1>2. frameTable[f].occupied
  BY <1>1 DEF Replace, freeFrames
<1>3. v # 0 => bitVector[v] # 0
  BY <1>1, <1>2, OccupiedFrame, VictimIsOwned
<1>4. replaced' /\ bitVector' = bitVector
  BY DEF Replace
<1>5. \A t \in Slot : t # v => pageTable'[t] = pageTable[t]
  BY DEF Replace, TypeOK
<1>6. SlotsAreExclusive' /\ MappedPagesAreHeld' /\ HeldPagesAreMapped'
  BY <1>4 DEF Agreement, SlotsAreExclusive, MappedPagesAreHeld, HeldPagesAreMapped
<1> HIDE DEF v
<1>7. FreeSlotsMapNothing'
  BY <1>3, <1>4, <1>5 DEF Agreement, FreeSlotsMapNothing
<1> QED BY <1>6, <1>7 DEF Agreement

LEMMA TerminatePreserves ==
  ASSUME TypeOK, Agreement, NEW s \in Slot, bitVector[s] # 0, Terminate(s)
  PROVE  Agreement'
<1>1. /\ \A t \in Slot : bitVector'[t] = IF t = s THEN 0 ELSE bitVector[t]
      /\ \A t \in Slot : pageTable'[t] = IF t = s THEN NoPages ELSE pageTable[t]
      /\ \A h \in Frame : frameTable'[h] = IF \E g \in Page : pageTable[s][g] = h
                                           THEN Empty ELSE frameTable[h]
      /\ replaced' = replaced
  BY DEF Terminate, TypeOK
<1>2. \A g \in Page : NoPages[g] = -1
  BY DEF NoPages
<1>3. ~Empty.occupied
  BY DEF Empty
<1>4. SlotsAreExclusive'
  BY <1>1 DEF Agreement, SlotsAreExclusive
<1>5. MappedPagesAreHeld'
  <2> SUFFICES ASSUME ~replaced, NEW t \in Slot, NEW g \in Page, pageTable'[t][g] # -1
               PROVE  /\ bitVector'[t] # 0
                      /\ frameTable'[pageTable'[t][g]] = Holds(bitVector'[t], g)
    BY <1>1 DEF MappedPagesAreHeld
  <2>1. t # s /\ pageTable'[t] = pageTable[t] /\ bitVector'[t] = bitVector[t]
    BY <1>1, <1>2
  <2>2. pageTable[t][g] \in Frame
    BY <2>1 DEF TypeOK
  <2>3. bitVector[t] # 0 /\ frameTable[pageTable[t][g]] = Holds(bitVector[t], g)
    BY <2>1 DEF Agreement, MappedPagesAreHeld
  <2>4. ASSUME NEW k \in Page, pageTable[s][k] = pageTable[t][g] PROVE FALSE
    <3>1. frameTable[pageTable[t][g]] = Holds(bitVector[s], k)
      BY <2>1, <2>4 DEF Agreement, MappedPagesAreHeld
    <3>2. bitVector[s] = bitVector[t]
      BY <2>3, <3>1, HoldsInjective
    <3> QED BY <2>1, <3>2 DEF Agreement, SlotsAreExclusive
  <2> QED BY <1>1, <2>1, <2>2, <2>3, <2>4
<1>6. HeldPagesAreMapped'
  <2> SUFFICES ASSUME ~replaced, NEW h \in Frame, frameTable'[h].occupied
               PROVE  \E t \in Slot : /\ bitVector'[t] = frameTable'[h].pid
                                      /\ frameTable'[h].page \in Page
                                      /\ pageTable'[t][frameTable'[h].page] = h
    BY <1>1 DEF HeldPagesAreMapped
  <2>1. frameTable'[h] = frameTable[h] /\ ~(\E g \in Page : pageTable[s][g] = h)
    BY <1>1, <1>3
  <2>2. PICK t \in Slot : /\ bitVector[t] = frameTable[h].pid
                          /\ frameTable[h].page \in Page
                          /\ pageTable[t][frameTable[h].page] = h
    BY <2>1 DEF Agreement, HeldPagesAreMapped
  <2>3. t # s
    BY <2>1, <2>2
  <2> QED BY <1>1, <2>1, <2>2, <2>3
<1>7. FreeSlotsMapNothing'
  BY <1>1 DEF Agreement, FreeSlotsMapNothing
<1> QED BY <1>4, <1>5, <1>6, <1>7 DEF Agreement

LEMMA NextPreserves == TypeOK /\ Agreement /\ [Next]_vars => Agreement'
<1> SUFFICES ASSUME TypeOK, Agreement, [Next]_vars PROVE Agreement'
  OBVIOUS
<1>1. ASSUME UNCHANGED vars PROVE Agreement'
  BY <1>1 DEF vars, Agreement, SlotsAreExclusive, MappedPagesAreHeld,
              HeldPagesAreMapped, FreeSlotsMapNothing
<1>2. ASSUME NEW s \in Slot, NEW p \in Pid, \A t \in Slot : bitVector[t] # p,
             Launch(s, p)
      PROVE  Agreement'
  BY <1>2, LaunchPreserves
<1>3. ASSUME NEW s \in Slot, NEW pg \in Page, bitVector[s] # 0,
             Access(s, bitVector[s], pg)
      PROVE  Agreement'
  <2>1. bitVector[s] \in Pid
    BY <1>3 DEF TypeOK
  <2>2. CASE Hit(s, pg) \/ Skip(s, pg)
    BY <1>1, <2>2 DEF Hit, Skip
  <2>3. CASE Place(s, bitVector[s], pg)
    BY <1>3, <2>3, PlacePreserves
  <2>4. CASE Replace(s, bitVector[s], pg)
    BY <2>1, <2>4, ReplacePreserves
  <2> QED BY <1>3, <2>2, <2>3, <2>4 DEF Access
<1>4. ASSUME NEW s \in Slot, bitVector[s] # 0, Terminate(s) PROVE Agreement'
  BY <1>4, TerminatePreserves
<1> QED BY <1>1, <1>2, <1>3, <1>4 DEF Next

LEMMA InitAgrees == Init => Agreement
<1>1. \A pg \in Page : NoPages[pg] = -1
  BY DEF NoPages
<1>2. ~Empty.occupied
  BY DEF Empty
<1> QED BY <1>1, <1>2 DEF Init, Agreement, SlotsAreExclusive, MappedPagesAreHeld,
                          HeldPagesAreMapped, FreeSlotsMapNothing

LEMMA AlwaysAgree == Spec => []Agreement
  BY InitAgrees, NextPreserves, TypeCorrect, PTL DEF Spec

\* Until the first replacement a page that a page table maps is in the frame it is
\* mapped to, so the hit test of ossim.c may look at the page table alone, however
\* many processes come and go in the same slots.
THEOREM MappedPages == Spec => []MappedPagesAreHeld
<1>1. Agreement => MappedPagesAreHeld
  BY DEF Agreement
<1> QED BY <1>1, AlwaysAgree, PTL

\* Until the first replacement an occupied frame is mapped by the process it
\* names, so terminatingWork, which goes by the page table, finds every frame of
\* the process that leaves.
THEOREM HeldPages == Spec => []HeldPagesAreMapped
<1>1. Agreement => HeldPagesAreMapped
  BY DEF Agreement
<1> QED BY <1>1, AlwaysAgree, PTL

\* A replacement whose process is gone, which pageFaultWork charges to slot 0, is
\* the only way in which a free slot can come by a mapped page.
THEOREM FreeSlots == Spec => []FreeSlotsMapNothing
<1>1. Agreement => FreeSlotsMapNothing
  BY DEF Agreement
<1> QED BY <1>1, AlwaysAgree, PTL

\* Until the first replacement no termination empties a frame of another
\* process, for any instance.
THEOREM TerminationFreesOwnFrames == Spec => OnlyOwnFramesAreFreed
<1> DEFINE Own ==
      \A f \in Frame :
        frameTable[f].occupied /\ ~frameTable'[f].occupied /\ ~replaced =>
          \A s \in Slot : bitVector'[s] # frameTable[f].pid
<1>1. TypeOK /\ Agreement /\ [Next]_vars => Own
  <2> SUFFICES ASSUME TypeOK, Agreement, [Next]_vars, NEW f \in Frame,
                      frameTable[f].occupied, ~frameTable'[f].occupied, ~replaced,
                      NEW t \in Slot
               PROVE  bitVector'[t] # frameTable[f].pid
    OBVIOUS
  <2>1. ASSUME UNCHANGED frameTable PROVE FALSE
    BY <2>1
  <2>2. ASSUME NEW s \in Slot, NEW p \in Pid, Launch(s, p) PROVE FALSE
    BY <2>1, <2>2 DEF Launch
  <2>3. ASSUME NEW s \in Slot, NEW pg \in Page, Access(s, bitVector[s], pg) PROVE FALSE
    <3>1. CASE Hit(s, pg) \/ Skip(s, pg)
      BY <2>1, <3>1 DEF Hit, Skip, vars
    <3>2. CASE Place(s, bitVector[s], pg)
      BY <3>2, HoldsFields DEF Place, TypeOK
    <3>3. CASE Replace(s, bitVector[s], pg)
      BY <3>3, HoldsFields DEF Replace, TypeOK
    <3> QED BY <2>3, <3>1, <3>2, <3>3 DEF Access
  <2>4. ASSUME NEW s \in Slot, bitVector[s] # 0, Terminate(s)
        PROVE  bitVector'[t] # frameTable[f].pid
    <3>1. PICK g \in Page : pageTable[s][g] = f
      BY <2>4 DEF Terminate
    <3>2. f # -1
      BY MemoryAssumption DEF Frame
    <3>3. frameTable[f].pid = bitVector[s]
      BY <3>1, <3>2, HoldsFields DEF Agreement, MappedPagesAreHeld
    <3>4. bitVector'[t] = IF t = s THEN 0 ELSE bitVector[t]
      BY <2>4 DEF Terminate, TypeOK
    <3> QED BY <2>4, <3>3, <3>4 DEF Agreement, SlotsAreExclusive
  <2> QED BY <2>1, <2>2, <2>3, <2>4 DEF Next, vars
<1>2. TypeOK /\ Agreement /\ [Next]_vars => [Own]_vars
  BY <1>1
<1> QED
  BY <1>2, InitAgrees, NextPreserves, TypeCorrect, PTL DEF Spec, OnlyOwnFramesAreFreed

\* As long as the queue has never been full, every occupied frame is in it, so
\* the replacement that will one day be needed can find every frame.
THEOREM QueueCovers == Spec => []OccupiedFramesAreQueued
<1>1. Init => OccupiedFramesAreQueued
  <2>1. ~Empty.occupied
    BY DEF Empty
  <2> QED BY <2>1 DEF Init, OccupiedFramesAreQueued
<1>2. TypeOK /\ OccupiedFramesAreQueued /\ [Next]_vars => OccupiedFramesAreQueued'
  <2> SUFFICES ASSUME TypeOK, OccupiedFramesAreQueued, [Next]_vars
               PROVE  OccupiedFramesAreQueued'
    OBVIOUS
  <2>1. ASSUME UNCHANGED <<frameTable, qFrame, replaced>> PROVE OccupiedFramesAreQueued'
    BY <2>1 DEF OccupiedFramesAreQueued
  <2>2. ASSUME NEW s \in Slot, NEW p \in Pid, Launch(s, p)
        PROVE  OccupiedFramesAreQueued'
    BY <2>1, <2>2 DEF Launch
  <2>3. ASSUME NEW s \in Slot, NEW pg \in Page, NEW p \in Pid, Access(s, p, pg)
        PROVE  OccupiedFramesAreQueued'
    <3>1. CASE Hit(s, pg) \/ Skip(s, pg)
      BY <2>1, <3>1 DEF Hit, Skip, vars
    <3>2. CASE Place(s, p, pg)
      <4> DEFINE f == Min(freeFrames)
      <4>1. f \in Frame
        BY <3>2, FreeFrameIsFrame DEF Place
      <4>2. \A h \in Frame : h # f => frameTable'[h] = frameTable[h]
        BY <3>2, <4>1 DEF Place, TypeOK
      <4>3. CASE Len(qFrame) = Memory
        BY <3>2, <4>3 DEF Place, Queue!Enqueued, OccupiedFramesAreQueued
      <4>4. CASE Len(qFrame) # Memory
        <5>1. qFrame' = Append(qFrame, f) /\ replaced' = replaced
          BY <3>2, <4>4 DEF Place, Queue!Enqueued
        <5> HIDE DEF f
        <5>2. /\ Len(qFrame') = Len(qFrame) + 1 /\ qFrame'[Len(qFrame) + 1] = f
              /\ \A i \in 1 .. Len(qFrame) : qFrame'[i] = qFrame[i]
              /\ Len(qFrame) \in Nat /\ Len(qFrame) < Memory
          BY <4>1, <4>4, <5>1, MemoryAssumption DEF TypeOK
        <5> QED BY <4>2, <5>1, <5>2 DEF OccupiedFramesAreQueued
      <4> QED BY <4>3, <4>4
    <3>3. CASE Replace(s, p, pg)
      BY <3>3 DEF Replace, OccupiedFramesAreQueued
    <3> QED BY <2>3, <3>1, <3>2, <3>3 DEF Access
  <2>4. ASSUME NEW s \in Slot, Terminate(s) PROVE OccupiedFramesAreQueued'
    <3>1. ~Empty.occupied
      BY DEF Empty
    <3>2. /\ \A h \in Frame : frameTable'[h].occupied => frameTable[h].occupied
          /\ qFrame' = qFrame /\ replaced' = replaced
      BY <2>4, <3>1 DEF Terminate, TypeOK
    <3> QED BY <3>2 DEF OccupiedFramesAreQueued
  <2>5. \A s \in Slot : bitVector[s] # 0 => bitVector[s] \in Pid
    BY DEF TypeOK
  <2> QED BY <2>1, <2>2, <2>3, <2>4, <2>5 DEF Next, vars
<1> QED BY <1>1, <1>2, TypeCorrect, PTL DEF Spec
=============================================================================
