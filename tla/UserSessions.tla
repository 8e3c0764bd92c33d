---------------------------- MODULE UserSessions ----------------------------
(***************************************************************************)
(* What the paging simulator of project6 promises, without frames,         *)
(* messages or signals: at most Limit user processes compute at a time,    *)
(* each is started once, asks for pages one at a time, gets exactly one    *)
(* answer to each request, in the order in which the requests were made,   *)
(* and leaves only while no request of it is open.                         *)
(***************************************************************************)
EXTENDS Naturals, Sequences, FiniteSets

CONSTANTS Process, Limit

VARIABLES phase,        \* what each process does
          pending       \* the processes whose request is open, in order

vars == <<phase, pending>>

active == {p \in Process : phase[p] \in {"computing", "asking"}}

-----------------------------------------------------------------------------

Init == phase = [p \in Process |-> "absent"] /\ pending = << >>

Start(p) ==
  /\ phase[p] = "absent"
  /\ Cardinality(active) < Limit
  /\ phase' = [phase EXCEPT ![p] = "computing"]
  /\ UNCHANGED pending

Ask(p) ==
  /\ phase[p] = "computing"
  /\ phase' = [phase EXCEPT ![p] = "asking"]
  /\ pending' = Append(pending, p)

Answer ==
  /\ pending # << >>
  /\ phase' = [phase EXCEPT ![Head(pending)] = "computing"]
  /\ pending' = Tail(pending)

Leave(p) ==
  /\ phase[p] = "computing"
  /\ phase' = [phase EXCEPT ![p] = "left"]
  /\ UNCHANGED pending

Next == Answer \/ \E p \in Process : Start(p) \/ Ask(p) \/ Leave(p)

\* Every open request is answered.
Spec == Init /\ [][Next]_vars /\ WF_vars(Answer)
=============================================================================
