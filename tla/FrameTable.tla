----------------------------- MODULE FrameTable -----------------------------
(***************************************************************************)
(* The memory of project6: the frame table, one page table for each slot   *)
(* of the process control table (Pcb), the bit vector that says which      *)
(* process owns a slot, and the queue of frames in the order in which they *)
(* were filled.  The operations are the ones OSS performs when it launches *)
(* a process and when it handles a message: a page that is mapped (Hit), a *)
(* page fault (Place, Replace or Skip) and a termination.  PagingSystem    *)
(* composes them with the processes that send the messages; here a message *)
(* is any message a process that owns a slot can send.                     *)
(*                                                                         *)
(* The reference and dirty bits are left out: the code only ever uses them *)
(* to decide how far the simulated clock advances.                         *)
(***************************************************************************)
EXTENDS Integers, Sequences, FiniteSetsExt

CONSTANTS Slots,        \* MAX_PROCESSES
          Memory,       \* MEMORY, the number of frames and the queue's capacity
          Page,         \* the page numbers below PTABLE_SIZE
          Pid           \* process ids

ASSUME SlotsAssumption  == Slots \in Nat \ {0}
ASSUME MemoryAssumption == Memory \in Nat \ {0}
ASSUME PageAssumption   == Page \subseteq Nat
ASSUME PidAssumption    == Pid \subseteq Nat \ {0}

VARIABLES bitVector,    \* the process in each slot, 0 when the slot is free
          pageTable,    \* Pcb[slot].pageTable: the frame of a page, or -1
          frameTable,   \* the contents of each frame
          qFrame,       \* q_frame, the frames in the order they were filled
          replaced      \* has a frame ever been replaced? (not in the code)

vars == <<bitVector, pageTable, frameTable, qFrame, replaced>>

Slot    == 0 .. Slots - 1
Frame   == 0 .. Memory - 1
NoPages == [pg \in Page |-> -1]
Empty   == [occupied |-> FALSE, pid |-> 0, page |-> -1]

Holds(p, pg) == [occupied |-> TRUE, pid |-> p, page |-> pg]

Queue == INSTANCE BoundedFifo
         WITH Capacity <- Memory, Item <- Frame, queue <- qFrame, returned <- -1

-----------------------------------------------------------------------------

Init ==
  /\ bitVector = [s \in Slot |-> 0]
  /\ pageTable = [s \in Slot |-> NoPages]
  /\ frameTable = [f \in Frame |-> Empty]
  /\ qFrame = << >>
  /\ replaced = FALSE

\* The slots getAvailableLocation searches; it returns the least of them.
freeSlots == {s \in Slot : bitVector[s] = 0}

\* The page table of a slot that is about to be used is cleared.
initPCB(s) == pageTable' = [pageTable EXCEPT ![s] = NoPages]

\* A process is launched in the first free slot.
Launch(s, p) ==
  /\ freeSlots # {}
  /\ s = Min(freeSlots)
  /\ initPCB(s)
  /\ bitVector' = [bitVector EXCEPT ![s] = p]
  /\ UNCHANGED <<frameTable, qFrame, replaced>>

\* The page is mapped: nothing but bits and the clock change.
Hit(s, pg) == pageTable[s][pg] # -1 /\ UNCHANGED vars

-----------------------------------------------------------------------------
(* pageFaultWork *)

freeFrames == {f \in Frame : ~frameTable[f].occupied}

\* Slips for the mutation runs: the page table or the queue is not updated.
PlaceUnmapped(s, p, pg) ==
  /\ pageTable[s][pg] = -1 /\ freeFrames # {}
  /\ LET f == Min(freeFrames)
     IN  /\ frameTable' = [frameTable EXCEPT ![f] = Holds(p, pg)]
         /\ qFrame' = Queue!Enqueued(Memory, qFrame, f)
  /\ UNCHANGED <<bitVector, pageTable, replaced>>

PlaceUnqueued(s, p, pg) ==
  /\ pageTable[s][pg] = -1 /\ freeFrames # {}
  /\ LET f == Min(freeFrames)
     IN  /\ frameTable' = [frameTable EXCEPT ![f] = Holds(p, pg)]
         /\ pageTable' = [pageTable EXCEPT ![s][pg] = f]
  /\ UNCHANGED <<bitVector, qFrame, replaced>>

\* The first frame that is not occupied takes the page.
Place(s, p, pg) ==
  /\ pageTable[s][pg] = -1
  /\ freeFrames # {}
  /\ LET f == Min(freeFrames)
     IN  /\ frameTable' = [frameTable EXCEPT ![f] = Holds(p, pg)]
         /\ qFrame' = Queue!Enqueued(Memory, qFrame, f)
         /\ pageTable' = [pageTable EXCEPT ![s][pg] = f]
  /\ UNCHANGED <<bitVector, replaced>>

\* A slip for the mutation runs: the search leaves its last slot behind.
VictimIsLastSlot(f) ==
  LET owning == {s \in Slot : bitVector[s] = frameTable[f].pid}
  IN  IF owning = {} THEN Slots - 1 ELSE Min(owning)

\* The slot whose page table is updated when frame f is replaced: the first one
\* owned by the process in the frame, slot 0 when there is none.
victimSlot(f) ==
  LET owning == {s \in Slot : bitVector[s] = frameTable[f].pid}
  IN  IF owning = {} THEN 0 ELSE Min(owning)

\* No frame is free: the frame at the head of the queue is replaced.  It is not
\* queued again, the page it held stays mapped to it, and the page it holds now
\* is not mapped.
Replace(s, p, pg) ==
  /\ pageTable[s][pg] = -1
  /\ freeFrames = {}
  /\ qFrame # << >>
  /\ LET f == Head(qFrame)
     IN  /\ pageTable' = [pageTable EXCEPT ![victimSlot(f)][frameTable[f].page] = f]
         /\ frameTable' = [frameTable EXCEPT ![f] = Holds(p, pg)]
  /\ qFrame' = Tail(qFrame)
  /\ replaced' = TRUE
  /\ UNCHANGED bitVector

\* No frame is free and the queue is empty: the fault changes nothing.
Skip(s, pg) ==
  /\ pageTable[s][pg] = -1
  /\ freeFrames = {}
  /\ qFrame = << >>
  /\ UNCHANGED vars

Access(s, p, pg) == Hit(s, pg) \/ Place(s, p, pg) \/ Replace(s, p, pg) \/ Skip(s, pg)

-----------------------------------------------------------------------------

\* Slips the code could contain in terminatingWork, for the mutation runs: the
\* page table not reset, the page number in the frame not reset, frames found by
\* their page number alone.
TerminateKeepsPages(s) ==
  /\ bitVector' = [bitVector EXCEPT ![s] = 0]
  /\ frameTable' = [f \in Frame |-> IF \E pg \in Page : pageTable[s][pg] = f
                                    THEN Empty ELSE frameTable[f]]
  /\ UNCHANGED <<pageTable, qFrame, replaced>>

TerminateKeepsReference(s) ==
  /\ bitVector' = [bitVector EXCEPT ![s] = 0]
  /\ frameTable' = [f \in Frame |->
                      IF \E pg \in Page : pageTable[s][pg] = f
                      THEN [frameTable[f] EXCEPT !.occupied = FALSE] ELSE frameTable[f]]
  /\ pageTable' = [pageTable EXCEPT ![s] = NoPages]
  /\ UNCHANGED <<qFrame, replaced>>

TerminateByPageNumber(s) ==
  /\ bitVector' = [bitVector EXCEPT ![s] = 0]
  /\ frameTable' = [f \in Frame |->
                      IF frameTable[f].page \in {pg \in Page : pageTable[s][pg] # -1}
                      THEN Empty ELSE frameTable[f]]
  /\ pageTable' = [pageTable EXCEPT ![s] = NoPages]
  /\ UNCHANGED <<qFrame, replaced>>

\* terminatingWork: the slot is given up and every frame that its page table
\* names is emptied.  The queue keeps its entries.
Terminate(s) ==
  /\ bitVector' = [bitVector EXCEPT ![s] = 0]
  /\ frameTable' = [f \in Frame |-> IF \E pg \in Page : pageTable[s][pg] = f
                                    THEN Empty ELSE frameTable[f]]
  /\ pageTable' = [pageTable EXCEPT ![s] = NoPages]
  /\ UNCHANGED <<qFrame, replaced>>

\* A process id is not given to two processes at once.
Next ==
  \/ \E s \in Slot, p \in Pid :
       (\A t \in Slot : bitVector[t] # p) /\ Launch(s, p)
  \/ \E s \in Slot, pg \in Page : bitVector[s] # 0 /\ Access(s, bitVector[s], pg)
  \/ \E s \in Slot : bitVector[s] # 0 /\ Terminate(s)

Spec == Init /\ [][Next]_vars

-----------------------------------------------------------------------------
(* Properties *)

\* An occupied frame names a process and one of its pages, so that the update of
\* a replaced frame's page table has a page to update; an empty one names none.
TypeOK ==
  /\ bitVector \in [Slot -> Pid \cup {0}]
  /\ pageTable \in [Slot -> [Page -> Frame \cup {-1}]]
  /\ frameTable \in [Frame -> {Empty} \cup {Holds(p, pg) : p \in Pid, pg \in Page}]
  /\ qFrame \in Seq(Frame)
  /\ Len(qFrame) <= Memory
  /\ replaced \in BOOLEAN

\* Until a frame is replaced the page tables and the frame table say the same
\* thing: a mapped page is in the frame it is mapped to, and an occupied frame
\* is mapped by the process it names.  The hit test, which looks at the page
\* table only, is right as long as this holds.
MappedPagesAreHeld ==
  ~replaced =>
    \A s \in Slot, pg \in Page :
      pageTable[s][pg] # -1 =>
        /\ bitVector[s] # 0
        /\ frameTable[pageTable[s][pg]] = Holds(bitVector[s], pg)

HeldPagesAreMapped ==
  ~replaced =>
    \A f \in Frame :
      frameTable[f].occupied =>
        \E s \in Slot : /\ bitVector[s] = frameTable[f].pid
                        /\ frameTable[f].page \in Page
                        /\ pageTable[s][frameTable[f].page] = f

\* A frame that must be found by the replacement is in the queue, as long as
\* the queue never filled up with the entries terminated processes left in it.
OccupiedFramesAreQueued ==
  ~replaced /\ Len(qFrame) < Memory =>
    \A f \in Frame : frameTable[f].occupied => \E i \in 1 .. Len(qFrame) : qFrame[i] = f

\* A page table left over in a free slot belongs to slot 0, the slot a
\* replacement falls back on when the frame's process is gone.
FreeSlotsMapNothing ==
  \A s \in Slot : bitVector[s] = 0 /\ pageTable[s] # NoPages => s = 0 /\ replaced

\* Until a frame is replaced, a frame is emptied only when the process it names
\* gives up its slot: no termination frees a frame of another process.
OnlyOwnFramesAreFreed ==
  [][\A f \in Frame :
       frameTable[f].occupied /\ ~frameTable'[f].occupied /\ ~replaced =>
         \A s \in Slot : bitVector'[s] # frameTable[f].pid]_vars
=============================================================================
