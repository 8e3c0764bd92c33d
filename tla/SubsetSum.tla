----------------------------- MODULE SubsetSum ------------------------------
(***************************************************************************)
(* Project 2, fork_subtask.c: a parent forks one child after the other.    *)
(* Each takes a line of the input, a sum and a list of numbers, looks for  *)
(* at most a second whether some of the numbers have the sum, and prints   *)
(* all that have.  The parent's own timer ends the whole program.          *)
(*                                                                         *)
(* The two searches are written as in the code and compared with what they *)
(* should find.  At most one child is alive at a time, so its state needs  *)
(* no index; what it wrote is forgotten when the parent has collected it.  *)
(***************************************************************************)
EXTENDS Integers, SequencesExt, FiniteSetsExt

CONSTANTS Number,        \* what a line may hold after its sum
          MaxLength,     \* how many of them at most: what fits in 80 characters
          Target,        \* the sums asked for
          Garbage,       \* how many zeros may follow the list in memory
          num_children   \* the first line of the input

ASSUME LineAssumption  == Number \subseteq Int /\ MaxLength \in Nat
                          /\ Target \subseteq Nat \ {0} /\ Garbage \subseteq Nat
ASSUME CountAssumption == num_children \in Nat

VARIABLES
  pc, x, pid,      \* the parent: where it is, its loop index, the child it would kill
  child,           \* what the child of this round does
  line,            \* its line
  verdicts,        \* what it has answered: "found", "none", "late"
  printed          \* the lists it has printed

childVars == <<line, verdicts, printed>>
vars      == <<pc, x, pid, child, childVars>>

Line    == [sum : Target, numbs : BoundedSeq(Number, MaxLength), zeros : Garbage]
NoLine  == [sum |-> 1, numbs |-> <<>>, zeros |-> 0]
Running == {"boot", "searching", "printing", "denied"}

-----------------------------------------------------------------------------
(* The searches *)

\* The list ends before the first number that is not positive.
work_array(numbs) ==
  LET stops == {i \in DOMAIN numbs : numbs[i] <= 0}
  IN  IF stops = {} THEN numbs ELSE SubSeq(numbs, 1, Min(stops) - 1)

\* Whether some of the first n numbers have the sum.
is_subset_sum(set, n, sum) ==
  LET has[k \in 0 .. n] ==
        [rest \in 0 .. sum |->
           \/ rest = 0
           \/ k # 0 /\ \/ has[k - 1][rest]
                       \/ set[k] <= rest /\ has[k - 1][rest - set[k]]]
  IN  has[n][sum]

\* A slip for the mutation runs: whatever the search calls a hit is printed.
print_subsetAny(A, target) == <<A>>

\* The tuple is summed up again before it is printed.
print_subset(A, target) == IF SumFunction(A) = target THEN <<A>> ELSE <<>>

\* s[i], the first at 0.  Past the end of the list the memory holds some zeros.
at(s, i, zeros) == IF i < Len(s) THEN s[i + 1] ELSE IF i < Len(s) + zeros THEN 0 ELSE 1

\* The arguments of subset_sum that change: the tuple, what is taken for its sum, and
\* the number of elements considered.
Call  == [t : Seq(Int), sum : Int, ite : Nat]
First == [t |-> <<>>, sum |-> 0, ite |-> 0]

take(c, s, i) == [t |-> Append(c.t, s[i]), sum |-> c.sum + s[i], ite |-> i]

\* A slip for the mutation runs: the tuple is not made shorter.
excludeNone(c, s, zeros) == [c EXCEPT !.sum = c.sum - at(s, c.ite, zeros), !.ite = c.ite + 1]

\* After a hit the last element is dropped from the tuple, but the next one, s[ite], is
\* taken off its sum.
exclude(c, s, zeros) ==
  [t |-> SubSeq(c.t, 1, Len(c.t) - 1), sum |-> c.sum - at(s, c.ite, zeros), ite |-> c.ite + 1]

\* All the tuples printed.
subset_sum(s, zeros, target) ==
  LET search[c \in Call] ==
        IF c.sum = target
        THEN print_subset(c.t, target) \o search[exclude(c, s, zeros)]
        ELSE FlattenSeq([k \in 1 .. Len(s) - c.ite |-> search[take(c, s, c.ite + k)]])
  IN  search[First]

generateSubsets(l) == subset_sum(work_array(l.numbs), l.zeros, l.sum)

-----------------------------------------------------------------------------

Init ==
  /\ pc = "fork" /\ x = 0 /\ pid = 0
  /\ child = "none"
  /\ line = NoLine /\ verdicts = {} /\ printed = <<>>

(* The parent *)

Fork ==
  /\ pc = "fork" /\ x < num_children
  /\ line' \in Line
  /\ child' = "boot"
  /\ pc' = "store"
  /\ UNCHANGED <<x, pid, verdicts, printed>>

\* fork has returned: from now on the parent knows which child to kill.
Store ==
  /\ pc = "store"
  /\ pid' = x + 1
  /\ pc' = "wait"
  /\ UNCHANGED <<x, child, childVars>>

Wait ==
  /\ pc = "wait" /\ child = "exited"
  /\ x' = x + 1
  /\ pc' = "fork"
  /\ child' = "none" /\ line' = NoLine /\ verdicts' = {} /\ printed' = <<>>
  /\ UNCHANGED pid

Report ==
  /\ pc = "fork" /\ x = num_children
  /\ pc' = "ended"
  /\ UNCHANGED <<x, pid, child, childVars>>

\* A slip for the mutation runs: the group is never killed.
KillsLast == child' = IF child \in Running /\ pid = x + 1 THEN "killed" ELSE child

\* kill(pid, SIGKILL): 0 stands for the whole process group.
Kills == child' = IF child \in Running /\ pid \in {0, x + 1} THEN "killed" ELSE child

\* The timer of the program: kill_handler longjmps to the clean-up.
TimeOut ==
  /\ pc # "ended"
  /\ Kills
  /\ pc' = "ended"
  /\ UNCHANGED <<x, pid, childVars>>

-----------------------------------------------------------------------------
(* The child *)

\* It installs its own handler and starts its timer of a second.
Start ==
  /\ child = "boot"
  /\ child' = "searching"
  /\ UNCHANGED <<pc, x, pid, childVars>>

exists == LET s == work_array(line.numbs) IN is_subset_sum(s, Len(s), line.sum)

\* Found: the timer is stopped.
Find ==
  /\ child = "searching" /\ exists
  /\ child' = "printing"
  /\ UNCHANGED <<pc, x, pid, childVars>>

Generate ==
  /\ child = "printing"
  /\ verdicts' = verdicts \union {"found"}
  /\ printed' = generateSubsets(line)
  /\ child' = "exited"
  /\ UNCHANGED <<pc, x, pid, line>>

\* Not found: the answer is written, and the timer goes on.
Deny ==
  /\ child = "searching" /\ ~exists
  /\ verdicts' = verdicts \union {"none"}
  /\ child' = "denied"
  /\ UNCHANGED <<pc, x, pid, line, printed>>

Exit ==
  /\ child = "denied"
  /\ child' = "exited"
  /\ UNCHANGED <<pc, x, pid, childVars>>

\* searched_too_long_kill_handler
Late ==
  /\ child \in {"searching", "denied"}
  /\ verdicts' = verdicts \union {"late"}
  /\ child' = "exited"
  /\ UNCHANGED <<pc, x, pid, line, printed>>

Ended == pc = "ended" /\ child \notin Running /\ UNCHANGED vars

ParentStep == Fork \/ Store \/ Wait \/ Report
ChildStep  == Start \/ Find \/ Generate \/ Deny \/ Exit

Next == ParentStep \/ TimeOut \/ ChildStep \/ Late \/ Ended

Spec == Init /\ [][Next]_vars

-----------------------------------------------------------------------------
(* Properties *)

Ascending(s) == \A i, j \in DOMAIN s : i < j => s[i] < s[j]

\* What can be picked from the list, in its order.
Sublists(s) ==
  {[k \in DOMAIN pick |-> s[pick[k]]] : pick \in {p \in BoundedSeq(DOMAIN s, Len(s)) : Ascending(p)}}

\* The sublists that have the sum: what the searches should find.
Solutions(l) == {t \in Sublists(work_array(l.numbs)) : SumFunction(t) = l.sum}

\* A child that found something has printed every solution and nothing else, whatever
\* the search read past the end of its list; one that denied it had none to find; one
\* that ran out of time has not found any.
AnswersAreRight ==
  /\ "found" \in verdicts => Solutions(line) # {} /\ ToSet(printed) = Solutions(line)
  /\ "none" \in verdicts => Solutions(line) = {}
  /\ "late" \in verdicts => printed = <<>>

\* The search that goes on after a hit with a wrong sum prints nothing twice if the
\* numbers of the line ascend: the sum never gets right again.  In another order it
\* may, though no number occurs twice: 8, 14, 1, 7, 6 have the sum 8 as 1 + 7, printed twice.
PrintedOnce ==
  Ascending(work_array(line.numbs)) => IsInjective(printed)

\* When the program has ended, only a child whose fork had not returned may be left,
\* and not the first one: that one is killed with the group.
OnlyUnstoredSurvives ==
  pc = "ended" /\ child \in Running => pid = x /\ x > 0
=============================================================================
