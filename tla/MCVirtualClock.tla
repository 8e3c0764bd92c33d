--------------------------- MODULE MCVirtualClock ---------------------------
(***************************************************************************)
(* Instances of VirtualClock: where a signal may strike the master.        *)
(***************************************************************************)
EXTENDS VirtualClock

Anywhere == Point
=============================================================================
