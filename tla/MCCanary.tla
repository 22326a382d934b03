------------------------------ MODULE MCCanary ------------------------------
(* Small instances of Canary for TLC. *)
EXTENDS Canary, TLC

CONSTANTS g1, g2, r1, r2, f1, c1, c2

OneGroup == [r \in {r1, r2} |-> g1]

\* Controllers are interchangeable, and so are the replicas of one group.
Symmetric    == Permutations(Controllers)
SymmetricOne == Permutations(Controllers) \cup Permutations(Replicas)
=============================================================================
