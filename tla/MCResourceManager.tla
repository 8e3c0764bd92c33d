---- MODULE MCResourceManager ----
(* Instances of ResourceManager: one or two resources of which two processes  *)
(* claim more than there is, and the places where signals strike.             *)
EXTENDS ResourceManager

OneUnit == [r \in Resource |-> 1]
None    == {}

WhileLaunching  == {"top", "book", "count"}
MidLaunchOrScan == {"book", "requests"}

(* A third process is forked only as long as no race has happened and no alarm *)
(* has struck, and a behaviour has starts that overlap or a process that is    *)
(* overtaken, not both.                                                        *)
FewRaces ==
  \/ undisturbed /\ ~stopLaunching
  \/ forked <= 2 /\ (overtaken = {} \/ ~overlapped)
====
