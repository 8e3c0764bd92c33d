---- MODULE MCScheduler ----
(* Instances of Scheduler: where signals arrive. *)
EXTENDS Scheduler

Nowhere  == {}
Anywhere == Point
====
