-------------------------- MODULE MCVllmScheduler --------------------------
(* A small instance of VllmScheduler for TLC. *)
EXTENDS VllmScheduler

Launched == [k \in WarmKeys |-> IF k = "max_num_seqs" THEN 3 ELSE 2]
=============================================================================
