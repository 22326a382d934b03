---------------------------- MODULE MCSupervisor ----------------------------
(* Small instances of Supervisor for TLC: one group and one replica; knob  *)
(* a is hot, m is warm, t is cold, s is cold and has no launch flag, u is  *)
(* deferred.  Value 2 passes the manifest but is above the ceiling.     *)
EXTENDS Supervisor, TLC

CONSTANTS g, r1

OneReplica == [r \in {r1} |-> g]
K == {"a", "m", "t", "s", "u"}
X == 0 .. 2
KlassOf == ("a" :> "hot") @@ ("m" :> "warm") @@ ("t" :> "cold") @@ ("s" :> "cold")
           @@ ("u" :> "deferred")
PassManifest == {"a"} \X X
PassEngine == {"a"} \X (0 .. 1)
Stored == [x \in X |-> x]
AtBoot == [k \in K |-> 0]
Row(f) == [replica_group |-> g, parent_id |-> None, fields |-> f]

\* Hot only; a value above the ceiling next to a warm field; hot and warm;
\* cold only; a field without a flag; a field the manifest rejects.
f1 == ("a" :> 1)
f2 == ("a" :> 2) @@ ("m" :> 1)
f3 == ("a" :> 1) @@ ("m" :> 1)
f4 == ("t" :> 1)
f5 == ("s" :> 1)
f6 == ("u" :> 1)
Mixed == <<Row(f1), Row(f2), Row(f3), Row(f4), Row(f5), Row(f6)>>
MixedFields == {f1, f2, f3, f4, f5, f6}
=============================================================================
