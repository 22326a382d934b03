------------------------------- MODULE Store -------------------------------
(***************************************************************************)
(* The configuration store of trimtab/store.py: five tables, one variable  *)
(* each, and one operator per method that writes.  Every method ends in a  *)
(* commit, so a write is one step.  A method that first reads and then     *)
(* writes (propose, open_canary) takes what it read as a parameter: the    *)
(* modules that call it read in an earlier step, because another process   *)
(* on the same database may commit in between.                             *)
(*                                                                         *)
(* A row id is a position in the table (autoincrement / serial), so None   *)
(* is 0.  Wall-clock columns, created_by, reason, gates, window_s and the  *)
(* text of a decision or of a status detail are left out.                  *)
(***************************************************************************)
EXTENDS Naturals, Sequences

CONSTANTS
  Groups,     \* replica groups
  Replicas,   \* replica ids, each served by one daemon or supervisor
  GroupOf,    \* the --group each replica's daemon is started with
  Fields      \* the field dictionaries a version may carry

ASSUME GroupOfAssumption == GroupOf \in [Replicas -> Groups]

VARIABLES
  config_version,     \* append-only history of versions
  desired_state,      \* group -> desired version id
  replica_override,   \* replica -> version id and canary id of its override
  canary,             \* canary rows
  replica_status      \* replica -> last heartbeat of its daemon

storeVars ==
  <<config_version, desired_state, replica_override, canary, replica_status>>

None == 0
NoOverride == [version_id |-> None, canary_id |-> None]

VersionIds == 1 .. Len(config_version)
CanaryIds  == 1 .. Len(canary)

VersionRow  == [replica_group : Groups, parent_id : Nat, fields : Fields]
OverrideRow == [version_id : Nat, canary_id : Nat]
CanaryRow   == [replica_group : Groups, candidate_version_id : Nat,
                baseline_version_id : Nat, scope : SUBSET Replicas,
                status : {"observing", "promoted", "reverted"}]
StatusRow   == [applied_version_id : Nat,
                state : {"absent", "healthy", "applying", "failed",
                         "needs_reinit", "reinit"}]

StoreTypeOK ==
  /\ config_version \in Seq(VersionRow)
  /\ desired_state \in [Groups -> Nat]
  /\ replica_override \in [Replicas -> OverrideRow]
  /\ canary \in Seq(CanaryRow)
  /\ replica_status \in [Replicas -> StatusRow]

StoreInit ==
  /\ config_version = <<>>
  /\ desired_state = [g \in Groups |-> None]
  /\ replica_override = [r \in Replicas |-> NoOverride]
  /\ canary = <<>>
  /\ replica_status = [r \in Replicas |-> [applied_version_id |-> None, state |-> "absent"]]

-----------------------------------------------------------------------------
(* Reads. *)

desired(g) == desired_state[g]

\* A replica's target: a canary override wins over the group's version.
desired_for(r) ==
  IF replica_override[r].version_id # None
  THEN replica_override[r].version_id
  ELSE desired(GroupOf[r])

InGroup(v, g) == v \in VersionIds /\ config_version[v].replica_group = g

-----------------------------------------------------------------------------
(* Writes. *)

propose(g, fields, parent) ==
  /\ config_version' = Append(config_version,
       [replica_group |-> g, parent_id |-> parent, fields |-> fields])
  /\ UNCHANGED <<desired_state, replica_override, canary, replica_status>>

\* The guard is the KeyError of a version that is not on record and the
\* ValueError of one that belongs to another group.
promote(g, v) ==
  /\ InGroup(v, g)
  /\ desired_state' = [desired_state EXCEPT ![g] = v]
  /\ UNCHANGED <<config_version, replica_override, canary, replica_status>>

rollback(g, v) == promote(g, v)

open_canary(g, v, scope, base) ==
  /\ canary' = Append(canary,
       [replica_group |-> g, candidate_version_id |-> v,
        baseline_version_id |-> base, scope |-> scope, status |-> "observing"])
  /\ UNCHANGED <<config_version, desired_state, replica_override, replica_status>>

\* Mutant: the whole group of the scope is overridden.
set_overrides_group(scope, v, i) ==
  /\ replica_override' = [r \in Replicas |->
       IF \E q \in scope : GroupOf[q] = GroupOf[r]
       THEN [version_id |-> v, canary_id |-> i] ELSE replica_override[r]]
  /\ UNCHANGED <<config_version, desired_state, canary, replica_status>>

set_overrides(scope, v, i) ==
  /\ replica_override' = [r \in Replicas |->
       IF r \in scope THEN [version_id |-> v, canary_id |-> i]
                      ELSE replica_override[r]]
  /\ UNCHANGED <<config_version, desired_state, canary, replica_status>>

clear_overrides(i) ==
  /\ replica_override' = [r \in Replicas |->
       IF replica_override[r].canary_id = i THEN NoOverride
                                            ELSE replica_override[r]]
  /\ UNCHANGED <<config_version, desired_state, canary, replica_status>>

close_canary(i, st) ==
  /\ canary' = [canary EXCEPT ![i].status = st]
  /\ UNCHANGED <<config_version, desired_state, replica_override, replica_status>>

record_status(r, applied, st) ==
  /\ replica_status' = [replica_status EXCEPT ![r] =
       [applied_version_id |-> applied, state |-> st]]
  /\ UNCHANGED <<config_version, desired_state, replica_override, canary>>
=============================================================================
