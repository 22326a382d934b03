------------------------------ MODULE MCFleet ------------------------------
(* A small instance of Fleet for TLC: two replicas of group g1, of which  *)
(* r1 runs a daemon and is inside or outside a canary's scope; two         *)
(* versions the engine takes whole, and one of another group that it takes *)
(* in part and that a canary of g1 can still be started with.              *)
EXTENDS Fleet, TLC

CONSTANTS g1, g2, r1, r2, c1

OneGroup == [r \in {r1, r2} |-> g1]
K == {"a", "b"}
KlassOf == [k \in K |-> "hot"]
PassManifest == {"a"} \X (0 .. 2) \cup {<<"b", 1>>}
PassEngine == {"a"} \X (0 .. 2)
Stored == [x \in 0 .. 2 |-> x]
AtBoot == [k \in K |-> 0]
Row1(g, f) == [replica_group |-> g, parent_id |-> None, fields |-> f]

f1 == "a" :> 1
f2 == "a" :> 2
f3 == ("a" :> 2) @@ ("b" :> 1)       \* b is above the ceiling
Three == <<Row1(g1, f1), Row1(g1, f2), Row1(g2, f3)>>
AllFields == {f1, f2, f3}
=============================================================================
