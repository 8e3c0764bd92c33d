---- MODULE MCRingQueue ----
(* A ring of three cells, so that front and rear wrap at different times.  *)
EXTENDS RingQueue

MCItem == 0 .. 2
====
