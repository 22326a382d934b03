------------------------------ MODULE Operator ------------------------------
(***************************************************************************)
(* The Kubernetes operator (trimtab/operator.py): one of the controllers   *)
(* of Canary, driven by the spec of InferenceConfig objects, which users   *)
(* edit, and by the status it has patched into them.  Its store calls are  *)
(* those of Canary, so every action here conjoins one of them with the     *)
(* operator's own program counter; the other controllers are the command   *)
(* line, restricted to what concerns versions and canaries that exist.     *)
(*                                                                         *)
(* A tick lists all objects and then reconciles one after the other.  What *)
(* it does not catch (a store or API server out of reach, the failure of   *)
(* the patch that reports a failure) ends the process, and the Deployment  *)
(* starts it again.  The replicas part of a status is left out.            *)
(***************************************************************************)
EXTENDS Canary

CONSTANTS
  Objects,     \* InferenceConfig objects
  Specs,       \* the specs users write; canary is {} or {scope}
  K8sOp,       \* the controller that is the operator
  MaxEdits,    \* bound on edits of a spec
  MaxFaults    \* bound on crashes and refused patches

ASSUME OperatorAssumption ==
  /\ K8sOp \in Controllers
  /\ Specs \subseteq [group : Groups, fields : Fields,
                       canary : {{}} \cup {{S} : S \in SUBSET Replicas}]
  /\ MaxEdits \in Nat /\ MaxFaults \in Nat

VARIABLES
  spec,       \* object -> its spec
  status,     \* object -> its status
  op,         \* the operator process and its local values
  reported,   \* replicas with a status row, which is all the operator knows of
  spent,      \* history: object -> the hash last proposed, unless a failure followed
  edits,      \* number of edits so far
  faults      \* number of crashes and refused patches so far

opVars == <<vars, spec, status, op, reported, spent, edits, faults>>

-----------------------------------------------------------------------------
\* spec_hash: the fields and the canary, not the group.
spec_hash(s) == [fields |-> s.fields, canary |-> s.canary]

Hash   == [fields : Fields, canary : SUBSET SUBSET Replicas]
Status == [appliedHash : SUBSET Hash, versionId : Nat, canaryId : Nat, desiredVersionId : Nat,
           phase : {"none", "canary", "promoted", "reverted", "error"}]
NoStatus == [appliedHash |-> {}, versionId |-> None, canaryId |-> None,
             desiredVersionId |-> None, phase |-> "none"]

\* seen is the list of the tick; new_status is the status being built for at.
Pcs  == {"next", "apply", "proposing", "promote", "start", "starting", "follow", "desired",
         "patch", "failed"}
Busy == [pc : Pcs, todo : SUBSET Objects, at : Objects, new_status : Status,
         seen : [Objects -> [spec : Specs, status : Status]]]
OpIdle == [pc |-> "idle"]

OpTypeOK ==
  /\ TypeOK
  /\ spec \in [Objects -> Specs]
  /\ status \in [Objects -> Status]
  /\ op \in {OpIdle} \cup Busy
  /\ reported \in SUBSET Replicas
  /\ spent \in [Objects -> SUBSET Hash]
  /\ edits \in 0 .. MaxEdits
  /\ faults \in 0 .. MaxFaults

OpInit ==
  /\ Init
  /\ spec \in [Objects -> Specs]
  /\ status = [o \in Objects |-> NoStatus]
  /\ op = OpIdle
  /\ reported = {}
  /\ spent = [o \in Objects |-> {}]
  /\ edits = 0
  /\ faults = 0

-----------------------------------------------------------------------------
(* Operator.tick and reconcile_one. *)

OpAt(pc) == op.pc = pc
OpGoto(pc) == op' = [op EXCEPT !.pc = pc]
obj == op.at
s == op.seen[obj].spec
h == spec_hash(s)
scope == CHOOSE S \in s.canary : TRUE
replicas == {r \in reported : GroupOf[r] = s.group}
Outside == <<spec, reported, edits>>

\* After the last object the tick is over.
Done == op' = IF op.todo = {} THEN OpIdle ELSE [op EXCEPT !.pc = "next"]

List ==
  /\ OpAt("idle")
  /\ \E o \in Objects :
       op' = [pc |-> "next", todo |-> Objects, at |-> o, new_status |-> NoStatus,
              seen |-> [p \in Objects |-> [spec |-> spec[p], status |-> status[p]]]]
  /\ UNCHANGED <<vars, status, spent, faults, Outside>>

\* Mutant: an object in phase error is left alone.
PickUnlessError(o) ==
  LET st == op.seen[o].status IN
  /\ OpAt("next")
  /\ o \in op.todo
  /\ op' = [op EXCEPT !.at = o, !.todo = @ \ {o}, !.new_status = st,
       !.pc = IF st.phase # "error" /\ st.appliedHash # {spec_hash(op.seen[o].spec)}
              THEN "apply" ELSE "follow"]
  /\ UNCHANGED <<vars, status, spent, faults, Outside>>

Pick(o) ==
  LET st == op.seen[o].status IN
  /\ OpAt("next")
  /\ o \in op.todo
  /\ op' = [op EXCEPT !.at = o, !.todo = @ \ {o}, !.new_status = st,
       !.pc = IF st.appliedHash # {spec_hash(op.seen[o].spec)} THEN "apply" ELSE "follow"]
  /\ UNCHANGED <<vars, status, spent, faults, Outside>>

ApplyRead ==
  /\ OpAt("apply")
  /\ ProposeRead(K8sOp, s.group)
  /\ OpGoto("proposing")
  /\ UNCHANGED <<status, spent, faults, Outside>>

ApplyInsert ==
  /\ OpAt("proposing")
  /\ ProposeInsert(K8sOp, s.fields)
  /\ op' = [op EXCEPT !.pc = IF s.canary = {} THEN "promote" ELSE "start",
                      !.new_status.appliedHash = {h},
                      !.new_status.versionId = Len(config_version')]
  /\ spent' = [spent EXCEPT ![obj] = {h}]
  /\ UNCHANGED <<status, faults, Outside>>

ApplyPromote ==
  /\ OpAt("promote")
  /\ Promote(K8sOp, s.group, op.new_status.versionId)
  /\ op' = [op EXCEPT !.pc = "follow", !.new_status.phase = "promoted"]
  /\ UNCHANGED <<status, spent, faults, Outside>>

\* The replicas are those with a status row; Canary.start checks the scope
\* against them.
ApplyStart ==
  /\ OpAt("start")
  /\ scope \subseteq replicas /\ scope # replicas
  /\ StartRead(K8sOp, s.group, op.new_status.versionId, scope)
  /\ OpGoto("starting")
  /\ UNCHANGED <<status, spent, faults, Outside>>

\* The version has been proposed by then, and its hash will not be recorded.
StartRefused ==
  /\ OpAt("start")
  /\ ~(scope \subseteq replicas /\ scope # replicas)
  /\ OpGoto("failed")
  /\ spent' = [spent EXCEPT ![obj] = {}]
  /\ UNCHANGED <<vars, status, faults, Outside>>

ApplyOpen ==
  /\ OpAt("starting")
  /\ StartOpen(K8sOp)
  /\ UNCHANGED <<op, status, spent, faults, Outside>>

ApplyOverride ==
  /\ OpAt("starting")
  /\ StartOverride(K8sOp)
  /\ op' = [op EXCEPT !.pc = "follow", !.new_status.phase = "canary",
                      !.new_status.canaryId = job[K8sOp].canary]
  /\ UNCHANGED <<status, spent, faults, Outside>>

Following == op.new_status.phase = "canary" /\ op.new_status.canaryId # None

\* Mutant: any decision is taken for a promotion.
FollowHopeful ==
  /\ OpAt("follow")
  /\ op' = [op EXCEPT !.pc = "desired",
       !.new_status.phase = IF Following /\ canary[op.new_status.canaryId].status # "observing"
                            THEN "promoted" ELSE @]
  /\ UNCHANGED <<vars, status, spent, faults, Outside>>

\* Only a phase of canary is followed to its decision.
Follow ==
  /\ OpAt("follow")
  /\ op' = [op EXCEPT !.pc = "desired",
       !.new_status.phase = IF Following /\ canary[op.new_status.canaryId].status # "observing"
                            THEN canary[op.new_status.canaryId].status ELSE @]
  /\ UNCHANGED <<vars, status, spent, faults, Outside>>

ReadTarget ==
  /\ OpAt("desired")
  /\ op' = [op EXCEPT !.pc = "patch", !.new_status.desiredVersionId = desired(s.group)]
  /\ UNCHANGED <<vars, status, spent, faults, Outside>>

\* Mutant: the hash is not among what is patched.
PatchWithoutHash ==
  /\ OpAt("patch")
  /\ status' = [status EXCEPT ![obj] = [op.new_status EXCEPT !.appliedHash = status[obj].appliedHash]]
  /\ Done
  /\ UNCHANGED <<vars, spent, faults, Outside>>

\* patch_status with all of new_status, unless nothing changed.
Patch ==
  /\ OpAt("patch")
  /\ status' = [status EXCEPT ![obj] = op.new_status]
  /\ Done
  /\ UNCHANGED <<vars, spent, faults, Outside>>

\* Mutant: the handler patches all that was prepared.
PatchErrorAll ==
  /\ OpAt("failed")
  /\ status' = [status EXCEPT ![obj] = [op.new_status EXCEPT !.phase = "error"]]
  /\ Done
  /\ UNCHANGED <<vars, spent, faults, Outside>>

\* The handler in tick patches the phase; the hash stays what it was.
PatchError ==
  /\ OpAt("failed")
  /\ status' = [status EXCEPT ![obj].phase = "error"]
  /\ Done
  /\ UNCHANGED <<vars, spent, faults, Outside>>

OpStep ==
  \/ List \/ (\E o \in Objects : Pick(o))
  \/ ApplyRead \/ ApplyInsert \/ ApplyPromote
  \/ ApplyStart \/ StartRefused \/ ApplyOpen \/ ApplyOverride
  \/ Follow \/ ReadTarget \/ Patch \/ PatchError

-----------------------------------------------------------------------------
(* Failures, users, daemons and the command line. *)

\* The API server refuses the patch (HTTPError).
PatchRefused ==
  /\ OpAt("patch")
  /\ op.new_status # op.seen[obj].status
  /\ faults < MaxFaults
  /\ faults' = faults + 1
  /\ OpGoto("failed")
  /\ spent' = [spent EXCEPT ![obj] = {}]
  /\ UNCHANGED <<vars, status, Outside>>

\* The process ends, in the middle of a store command or not, and restarts.
OpCrash ==
  /\ ~OpAt("idle")
  /\ faults < MaxFaults
  /\ faults' = faults + 1
  /\ op' = OpIdle
  /\ Crash(K8sOp) \/ (At(K8sOp, "idle") /\ UNCHANGED vars)
  /\ spent' = [spent EXCEPT ![obj] = {}]
  /\ UNCHANGED <<status, Outside>>

\* kubectl apply or patch.
Edit(o, new) ==
  /\ edits < MaxEdits
  /\ new # spec[o]
  /\ edits' = edits + 1
  /\ spec' = [spec EXCEPT ![o] = new]
  /\ UNCHANGED <<vars, status, op, reported, spent, faults>>

\* A daemon writes its first heartbeat.
Report(r) ==
  /\ r \notin reported
  /\ reported' = reported \cup {r}
  /\ UNCHANGED <<vars, spec, status, op, spent, edits, faults>>

CliStep(c) ==
  /\ \/ \E g \in Groups, v \in VersionIds : Promote(c, g, v)
     \/ \E g \in Groups, i \in CanaryIds : ObserveBegin(c, g, i)
     \/ \E passed \in BOOLEAN : DecideClear(c, passed)
     \/ DecidePromote(c)
     \/ DecidePromoteRefused(c)
     \/ Close(c)
     \/ \E i \in CanaryIds : AbortClear(c, i)
     \/ Crash(c)
  /\ UNCHANGED <<spec, status, op, reported, spent, edits, faults>>

OpNext ==
  \/ OpStep
  \/ PatchRefused
  \/ OpCrash
  \/ \E o \in Objects, new \in Specs : Edit(o, new)
  \/ \E r \in Replicas : Report(r)
  \/ \E c \in Controllers \ {K8sOp} : CliStep(c)

OpSpec == OpInit /\ [][OpNext]_opVars

\* run() ticks for ever, and the Deployment restarts it.
OpLiveSpec == OpSpec /\ WF_opVars(OpStep)

-----------------------------------------------------------------------------
(* Properties. *)

\* Applied means in force (reconcile_one): a hash in a status stands for a
\* version with exactly those fields that was the target of its group or, for
\* a spec with a canary, for a canary of that version and scope that took
\* hold, whatever was edited, refused or cut short in between.
HashBacked ==
  \A o \in Objects :
    LET st == status[o]
        v == st.versionId IN
    \A k \in st.appliedHash :
      /\ v \in VersionIds
      /\ config_version[v].fields = k.fields
      /\ k.canary = {} => v \in wasDesired[config_version[v].replica_group]
      /\ k.canary # {} => /\ st.canaryId \in known
                          /\ canary[st.canaryId].candidate_version_id = v
                          /\ {canary[st.canaryId].scope} = k.canary

\* A phase tells the truth (reconcile_one): promoted only for a version that
\* was a target, reverted only for a canary that was decided.
PhaseBacked ==
  \A o \in Objects :
    LET st == status[o] IN
    /\ st.phase = "promoted" =>
         st.versionId \in wasDesired[config_version[st.versionId].replica_group]
    /\ st.phase = "reverted" => canary[st.canaryId].status # "observing"

\* No edit is proposed twice (tick, the test "same spec, no new version"):
\* the operator proposes a hash again only after a crash, a refused patch or
\* a refused canary of that object.
ProposedOnce ==
  [][\A o \in Objects :
       OpAt("proposing") /\ obj = o /\ config_version' # config_version
         => spent[o] # {h}]_opVars

\* Every edit arrives (run): if a spec stays, and its canary is startable,
\* its hash ends up in the status for good; refused patches, crashes and
\* error phases on the way are retried.  The second line says that the bounds
\* on rows do not stop the operator.
EditsArrive ==
  \A o \in Objects, new \in Specs :
    /\ <>[](spec[o] = new)
    /\ <>[](/\ OpAt("apply") \/ OpAt("proposing") => Len(config_version) < MaxVersions
            /\ OpAt("start") \/ At(K8sOp, "base_read") => Len(canary) < MaxCanaries)
    /\ <>[](\A S \in new.canary : LET there == {r \in reported : GroupOf[r] = new.group} IN
                                  S \subseteq there /\ S # there)
    => <>[](status[o].appliedHash = {spec_hash(new)})

-----------------------------------------------------------------------------
(* What the code, its comments or its tests say and the model refutes.     *)

\* The operator "writes the store's view back into status" (module
\* docstring): when the canary of a status has been decided, the status comes
\* to say so, or to be about something else.
VerdictReported ==
  \A o \in Objects, i \in 1 .. MaxCanaries :
    (status[o].phase = "canary" /\ status[o].canaryId = i /\ i \in CanaryIds
       /\ canary[i].status # "observing")
      ~> (status[o].phase \in {"promoted", "reverted"} \/ status[o].canaryId # i)

-----------------------------------------------------------------------------
(* The inductive invariant of the safety proofs. *)

\* What a status says is so, and will stay so.
Backed(st) ==
  /\ st.canaryId \in known \cup {None}
  /\ \A k \in st.appliedHash :
       /\ st.versionId \in VersionIds
       /\ config_version[st.versionId].fields = k.fields
       /\ k.canary = {} =>
            st.versionId \in wasDesired[config_version[st.versionId].replica_group]
       /\ k.canary # {} => /\ st.canaryId \in known
                           /\ canary[st.canaryId].candidate_version_id = st.versionId
                           /\ {canary[st.canaryId].scope} = k.canary
  /\ st.phase = "promoted" =>
       /\ st.versionId \in VersionIds
       /\ st.versionId \in wasDesired[config_version[st.versionId].replica_group]
  /\ st.phase = "canary" => /\ st.canaryId \in known
                            /\ canary[st.canaryId].candidate_version_id = st.versionId
  /\ st.phase = "reverted" => st.canaryId \in known /\ canary[st.canaryId].status # "observing"

Applying == {"promote", "start", "starting"}
Carrying == {"apply", "proposing", "follow", "desired", "patch"}

\* The version was proposed with the fields of the spec, and not put in force.
Proposed ==
  /\ op.new_status.appliedHash = {h}
  /\ op.new_status.canaryId \in known \cup {None}
  /\ op.new_status.versionId \in VersionIds
  /\ config_version[op.new_status.versionId].fields = s.fields
  /\ OpAt("promote") <=> s.canary = {}

\* The canary being started is one of that version and that scope.
Starting ==
  /\ At(K8sOp, "base_read") => /\ job[K8sOp].version = op.new_status.versionId
                               /\ {job[K8sOp].scope} = s.canary
  /\ At(K8sOp, "opened") =>
       /\ canary[job[K8sOp].canary].candidate_version_id = op.new_status.versionId
       /\ {canary[job[K8sOp].canary].scope} = s.canary

StatusesBacked ==
  /\ \A o \in Objects : Backed(status[o])
  /\ ~OpAt("idle") => \A o \in Objects : Backed(op.seen[o].status)
  /\ op.pc \in Carrying => Backed(op.new_status)
  /\ op.pc \in Applying => Proposed
  /\ OpAt("starting") => Starting

\* What was last proposed for an object is in its status or on its way there,
\* and what the tick has listed of the objects still to come is up to date.
SpentKnown ==
  /\ \A o \in Objects :
       /\ ~OpAt("idle") /\ (o \in op.todo \/ (o = obj /\ ~OpAt("next"))) =>
            op.seen[o].status.appliedHash = status[o].appliedHash
       /\ spent[o] # {} =>
            spent[o] = IF op.pc \in Applying \cup {"follow", "desired", "patch"} /\ obj = o
                       THEN op.new_status.appliedHash ELSE status[o].appliedHash
  /\ ~OpAt("idle") /\ ~OpAt("next") => obj \notin op.todo
  /\ OpAt("apply") \/ OpAt("proposing") => op.seen[obj].status.appliedHash # {h}

OpInv == IInv /\ OpTypeOK /\ StatusesBacked /\ SpentKnown
=============================================================================
