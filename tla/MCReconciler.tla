---------------------------- MODULE MCReconciler ----------------------------
(* A small instance of Reconciler for TLC: one group, knobs a and b hot, m *)
(* warm.  Value 3 is above the engine's ceiling but passes the manifest;   *)
(* value 4 is stored by the engine as 1 (log_level in another case); value *)
(* 5 fails the manifest's validator.                                       *)
EXTENDS Reconciler, TLC

CONSTANTS g, r1

OneReplica == [r \in {r1} |-> g]

K == {"a", "b", "m"}
X == {0, 1, 3, 4, 5}

KlassOf == ("a" :> "hot") @@ ("b" :> "hot") @@ ("m" :> "warm")
PassManifest == ({"a"} \X {0, 1, 4}) \cup ({"b"} \X {1, 3})
PassEngine == {<<"a", 0>>, <<"a", 1>>, <<"a", 4>>, <<"b", 1>>}
Stored == [x \in X |-> IF x = 4 THEN 1 ELSE x]
AtBoot == [k \in K |-> 0]
Row(f) == [replica_group |-> g, parent_id |-> None, fields |-> f]

f1 == "a" :> 1                       \* taken as it is
f2 == ("a" :> 0) @@ ("b" :> 3)       \* half of it is above the ceiling
f3 == "a" :> 4                       \* taken, but shown in another form
f4 == "b" :> 5                       \* fails the manifest
f5 == ("b" :> 1) @@ ("m" :> 1)       \* taken, and a reinit is due
Mixed == <<Row(f1), Row(f2), Row(f3), Row(f4), Row(f5)>>
MixedFields == {f1, f2, f3, f4, f5}
=============================================================================
