----------------------------- MODULE MCServer -----------------------------
(* A small instance of Server for TLC: two replicas' overrides and one      *)
(* group's target; set_overrides writes the overrides one by one, clear     *)
(* deletes both at once, promote checks before it writes, and set_nothing  *)
(* is set_overrides for an empty scope, which only commits.                *)
EXTENDS Server, TLC

CONSTANTS t1, t2, o1, o2, d

SomeRoutes ==
  ("promote"       :> [checked |-> TRUE,  writes |-> <<{d}>>]) @@
  ("set_overrides" :> [checked |-> FALSE, writes |-> <<{o1}, {o2}>>]) @@
  ("set_nothing"   :> [checked |-> FALSE, writes |-> <<>>]) @@
  ("clear"         :> [checked |-> FALSE, writes |-> <<{o1, o2}>>])
=============================================================================
