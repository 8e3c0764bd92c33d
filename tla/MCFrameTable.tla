---- MODULE MCFrameTable ----
(* Two slots, three frames and two pages for three process ids: processes   *)
(* compete for frames, slots are reused and the queue fills up.             *)
EXTENDS FrameTable

MCPage == 0 .. 1
MCPid  == 1 .. 3
====
