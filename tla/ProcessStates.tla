--------------------------- MODULE ProcessStates ---------------------------
(***************************************************************************)
(* What the scheduler of project 4 promises for each slot of its process   *)
(* control table, without queues, messages or flags: one process has the   *)
(* processor at a time; a process that comes off it is done, is blocked,   *)
(* stays on its level or goes down one; a process that wakes up starts     *)
(* over on level 0; the run ends by itself only when nobody is waiting.    *)
(* The alarm loses one process at the most.                                *)
(***************************************************************************)
EXTENDS Naturals

CONSTANTS Slot, Bottom   \* the lowest of the levels 0 .. Bottom

VARIABLES state,         \* what the process in each slot does
          level,         \* the level it waits or runs on, 0 when it does neither
          alarmed,       \* has the alarm struck?
          ended          \* "no", "finished" or "killed"

vars == <<state, level, alarmed, ended>>

Idle == \A s \in Slot : state[s] # "running"

-----------------------------------------------------------------------------

Init ==
  /\ state = [s \in Slot |-> "free"]
  /\ level = [s \in Slot |-> 0]
  /\ alarmed = FALSE
  /\ ended = "no"

Move(s, from, to, lv) ==
  /\ ended = "no"
  /\ state[s] = from
  /\ state' = [state EXCEPT ![s] = to]
  /\ level' = [level EXCEPT ![s] = lv]
  /\ UNCHANGED ended

Launch(s)   == Move(s, "free", "ready", 0) /\ UNCHANGED alarmed
Run(s)      == Idle /\ Move(s, "ready", "running", level[s]) /\ UNCHANGED alarmed
Keep(s)     == Move(s, "running", "ready", level[s]) /\ UNCHANGED alarmed
Demote(s)   == level[s] < Bottom /\ Move(s, "running", "ready", level[s] + 1)
               /\ UNCHANGED alarmed
Complete(s) == Move(s, "running", "free", 0) /\ UNCHANGED alarmed
Block(s)    == Move(s, "running", "blocked", 0) /\ UNCHANGED alarmed
Wake(s)     == Move(s, "blocked", "ready", 0) /\ UNCHANGED alarmed

Lose(s) ==
  /\ ~alarmed /\ alarmed' = TRUE
  /\ \E from \in {"ready", "running", "blocked"} : Move(s, from, "lost", 0)

\* The alarm strikes while OSS has no process in hand.
Strike == ~alarmed /\ alarmed' = TRUE /\ UNCHANGED <<state, level, ended>>

End(how) ==
  /\ ended = "no"
  /\ ended' = how
  /\ how = "finished" => \A s \in Slot : state[s] \in {"free", "lost"}
  /\ state' = [s \in Slot |-> IF state[s] = "free" THEN "free" ELSE "lost"]
  /\ level' = [s \in Slot |-> 0]
  /\ UNCHANGED alarmed

Next ==
  \/ \E s \in Slot : \/ Launch(s) \/ Run(s) \/ Keep(s) \/ Demote(s)
                     \/ Complete(s) \/ Block(s) \/ Wake(s) \/ Lose(s)
  \/ Strike
  \/ End("finished") \/ End("killed")

Spec == Init /\ [][Next]_vars
=============================================================================
