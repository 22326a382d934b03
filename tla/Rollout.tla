------------------------------ MODULE Rollout ------------------------------
(***************************************************************************)
(* What the store and the canary orchestrator promise an operator, without *)
(* tables, commands or crashes.  A version belongs to one group.  A group  *)
(* points at one of its versions.  A canary is opened on a candidate,      *)
(* holds a part of one group at most once, lets go of all of it, and only  *)
(* then is closed; it may be closed as promoted only when its candidate    *)
(* did become the target of the candidate's group.                         *)
(*                                                                         *)
(* Canary implements this module: Canary!ImplementsRollout.                *)
(***************************************************************************)
EXTENDS Naturals, Sequences

CONSTANTS Groups, Replicas, GroupOf

VARIABLES
  versions,   \* version -> the group it was proposed for
  target,     \* group -> the version it points at
  reached,    \* group -> every version it has pointed at
  canaries,   \* canary -> its candidate and its status
  started,    \* the canaries that have had their one chance to take hold
  held        \* replica -> the version and the canary it is held on

vars == <<versions, target, reached, canaries, started, held>>

Free == [version_id |-> 0, canary_id |-> 0]

\* A proper part of one group: a canary always leaves replicas to compare with.
Part(S) ==
  \E g \in Groups :
    LET members == {r \in Replicas : GroupOf[r] = g} IN S \subseteq members /\ S # members

Init ==
  /\ versions = <<>>
  /\ target = [g \in Groups |-> 0]
  /\ reached = [g \in Groups |-> {}]
  /\ canaries = <<>>
  /\ started = {}
  /\ held = [r \in Replicas |-> Free]

Publish(g) ==
  /\ versions' = Append(versions, g)
  /\ UNCHANGED <<target, reached, canaries, started, held>>

Point(v) ==
  LET g == versions[v] IN
  /\ target' = [target EXCEPT ![g] = v]
  /\ reached' = [reached EXCEPT ![g] = @ \cup {v}]
  /\ UNCHANGED <<versions, canaries, started, held>>

\* Nobody asks whether there is such a version, so it may be the next one.
Open(v) ==
  /\ canaries' = Append(canaries, [candidate |-> v, status |-> "observing"])
  /\ UNCHANGED <<versions, target, reached, started, held>>

\* S is empty for a canary whose start failed.
Hold(i, S) ==
  /\ i \notin started
  /\ Part(S)
  /\ started' = started \cup {i}
  /\ held' = [r \in Replicas |->
       IF r \in S THEN [version_id |-> canaries[i].candidate, canary_id |-> i]
                  ELSE held[r]]
  /\ UNCHANGED <<versions, target, reached, canaries>>

Release(i) ==
  /\ i \in started
  /\ held' = [r \in Replicas |-> IF held[r].canary_id = i THEN Free ELSE held[r]]
  /\ UNCHANGED <<versions, target, reached, canaries, started>>

Close(i, status) ==
  LET v == canaries[i].candidate IN
  /\ i \in started
  /\ \A r \in Replicas : held[r].canary_id # i
  /\ status = "promoted" => v \in DOMAIN versions /\ v \in reached[versions[v]]
  /\ canaries' = [canaries EXCEPT ![i].status = status]
  /\ UNCHANGED <<versions, target, reached, started, held>>

Next ==
  \/ \E g \in Groups : Publish(g)
  \/ \E v \in DOMAIN versions : Point(v)
  \/ \E v \in 1 .. Len(versions) + 1 : Open(v)
  \/ \E i \in DOMAIN canaries :
       \/ \E S \in SUBSET Replicas : Hold(i, S)
       \/ Release(i)
       \/ \E status \in {"promoted", "reverted"} : Close(i, status)

Spec == Init /\ [][Next]_vars
=============================================================================
