--------------------------- MODULE ResourceLedger ---------------------------
(***************************************************************************)
(* What the resource manager of project5 promises of the resources that    *)
(* cannot be shared: units move between a free pool and the slots, only    *)
(* units that are free are given out, and a slot gives up all its units at *)
(* once or none.  Nothing is ever taken from a slot otherwise.             *)
(***************************************************************************)
EXTENDS Integers

CONSTANTS Slot, Resource,
          Supply            \* the units of each resource: resource_vector

VARIABLES free, owned

vars == <<free, owned>>

Nothing == [r \in Resource |-> 0]

Init == free = [r \in Resource |-> Supply[r]] /\ owned = [s \in Slot |-> Nothing]

\* Slot s gets units of any resources, as many as are free at most.
Take(s) ==
  /\ owned' = [owned EXCEPT ![s] = owned'[s]]
  /\ \A r \in Resource :
       /\ owned'[s][r] >= owned[s][r]
       /\ owned'[s][r] - owned[s][r] <= free[r]
  /\ free' = [r \in Resource |-> free[r] - (owned'[s][r] - owned[s][r])]

\* Slot s gives everything back.
GiveBack(s) ==
  /\ owned' = [owned EXCEPT ![s] = Nothing]
  /\ free' = [r \in Resource |-> free[r] + owned[s][r]]

Next == \E s \in Slot : Take(s) \/ GiveBack(s)

Spec == Init /\ [][Next]_vars
=============================================================================
