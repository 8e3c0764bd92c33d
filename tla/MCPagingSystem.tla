---- MODULE MCPagingSystem ----
(* Instances of PagingSystem: the points at which an alarm does no harm. *)
EXTENDS PagingSystem

OnePage  == {0}
TwoPages == 0 .. 1

SafePoints  == {"top", "recv", "final"}
====
