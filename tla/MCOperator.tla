----------------------------- MODULE MCOperator -----------------------------
(* A small instance of Operator for TLC: one object, one group of two      *)
(* replicas, the operator and one command line.  Its spec is direct, a     *)
(* canary on r1 (with only r1 reported, that is all replicas), or a canary *)
(* on all replicas, which is never accepted.                               *)
EXTENDS Operator, TLC

CONSTANTS g1, r1, r2, f1, k8s, cli, cap

OneGroup == [r \in {r1, r2} |-> g1]
Direct == [group |-> g1, fields |-> f1, canary |-> {}]
Staged == [group |-> g1, fields |-> f1, canary |-> {{r1}}]
Whole  == [group |-> g1, fields |-> f1, canary |-> {{r1, r2}}]
Written == {Direct, Staged, Whole}
=============================================================================
