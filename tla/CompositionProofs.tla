-------------------------- MODULE CompositionProofs --------------------------
(***************************************************************************)
(* Proofs about what runs on top of the store's commands.                  *)
(*                                                                         *)
(* First the operator: it drives the store only through the commands of    *)
(* Canary, and its statuses and its proposals are sound, for every set of  *)
(* objects, specs, groups, replicas and controllers, all bounds, and with  *)
(* any number of edits, refused patches and crashes.                       *)
(*                                                                         *)
(* Then commands and daemons together: a candidate stays within its scope, *)
(* and Canary and Reconciler keep their promises in each other's company,  *)
(* for every history of versions, manifest and engine.                     *)
(***************************************************************************)
EXTENDS Operator, Fleet, CanaryProofs

-----------------------------------------------------------------------------
(* What the operator's local state looks like. *)

LEMMA SpecShape ==
  ASSUME NEW x \in Specs
  PROVE  /\ x.group \in Groups
         /\ x.fields \in Fields
         /\ x.canary \in SUBSET SUBSET Replicas
         /\ x.canary # {} => \E S \in SUBSET Replicas : x.canary = {S}
         /\ spec_hash(x) \in Hash
<1>1. x \in [group : Groups, fields : Fields, canary : {{}} \cup {{S} : S \in SUBSET Replicas}]
  BY OperatorAssumption
<1>2. QED
  BY <1>1 DEF spec_hash, Hash

\* A busy operator is at an object of its list, with the spec that it saw.
LEMMA BusyShape ==
  ASSUME OpTypeOK, ~OpAt("idle")
  PROVE  /\ op \in Busy
         /\ op.pc \in Pcs
         /\ op.todo \in SUBSET Objects
         /\ obj \in Objects
         /\ s \in Specs
         /\ h \in Hash
         /\ op.new_status \in Status
         /\ \A o \in Objects : op.seen[o].spec \in Specs /\ op.seen[o].status \in Status
<1>1. op \in Busy
  BY DEF OpTypeOK, OpAt, OpIdle
<1>2. /\ op.pc \in Pcs /\ op.todo \in SUBSET Objects /\ op.at \in Objects
      /\ op.new_status \in Status
      /\ op.seen \in [Objects -> [spec : Specs, status : Status]]
  BY <1>1 DEF Busy
<1>3. \A o \in Objects : op.seen[o].spec \in Specs /\ op.seen[o].status \in Status
  BY <1>2
<1>4. QED
  BY <1>1, <1>2, <1>3, SpecShape DEF obj, s, h

\* An idle operator is at no other place.
LEMMA IdleShape ==
  ASSUME OpTypeOK
  PROVE  OpAt("idle") <=> op = OpIdle
BY DEF OpTypeOK, OpAt, OpIdle, Busy, Pcs

\* A step from one place to the next keeps the list and the object.
LEMMA Moved ==
  ASSUME OpTypeOK, ~OpAt("idle"), NEW pc \in Pcs, NEW ns \in Status,
         op' = [op EXCEPT !.pc = pc, !.new_status = ns]
  PROVE  /\ op' \in Busy
         /\ op'.pc = pc /\ op'.new_status = ns
         /\ op'.at = op.at /\ op'.todo = op.todo /\ op'.seen = op.seen
BY BusyShape DEF Busy

\* After an object the operator goes to the next one, or ends its tick.
LEMMA DoneShape ==
  ASSUME OpTypeOK, ~OpAt("idle"), Done
  PROVE  \/ op' = OpIdle
         \/ /\ op' \in Busy
            /\ op'.pc = "next" /\ op'.new_status = op.new_status
            /\ op'.at = op.at /\ op'.todo = op.todo /\ op'.seen = op.seen
BY BusyShape DEF Done, Busy, Pcs

-----------------------------------------------------------------------------
(* Every step is a command of Canary, or none. *)

Versioned == op.pc \in {"promote", "start"} => op.new_status.versionId \in VersionIds

LEMMA OpStepMaps ==
  ASSUME OpTypeOK, Versioned, OpStep
  PROVE  [Next]_vars
<1>1. K8sOp \in Controllers
  BY OperatorAssumption
<1>2. CASE ApplyRead
  <2>1. s.group \in Groups
    BY <1>2, BusyShape, SpecShape DEF ApplyRead, OpAt
  <2>2. ControllerStep(K8sOp)
    BY <1>2, <2>1 DEF ApplyRead, ControllerStep
  <2>3. QED
    BY <1>1, <2>2 DEF Next
<1>3. CASE ApplyInsert
  <2>1. s.fields \in Fields
    BY <1>3, BusyShape, SpecShape DEF ApplyInsert, OpAt
  <2>2. ControllerStep(K8sOp)
    BY <1>3, <2>1 DEF ApplyInsert, ControllerStep
  <2>3. QED
    BY <1>1, <2>2 DEF Next
<1>4. CASE ApplyPromote
  <2>1. s.group \in Groups /\ op.new_status.versionId \in VersionIds
    BY <1>4, BusyShape, SpecShape DEF ApplyPromote, OpAt, Versioned
  <2>2. ControllerStep(K8sOp)
    BY <1>4, <2>1 DEF ApplyPromote, ControllerStep
  <2>3. QED
    BY <1>1, <2>2 DEF Next
<1>5. CASE ApplyStart
  <2>1. s.group \in Groups /\ op.new_status.versionId \in VersionIds
    BY <1>5, BusyShape, SpecShape DEF ApplyStart, OpAt, Versioned
  <2>2. scope \in SUBSET Replicas
    BY <1>5 DEF ApplyStart, replicas, OpTypeOK
  <2>3. StartRead(K8sOp, s.group, op.new_status.versionId, scope)
    BY <1>5 DEF ApplyStart
  <2>4. ControllerStep(K8sOp)
    BY <2>1, <2>2, <2>3 DEF ControllerStep, NamedIds
  <2>5. QED
    BY <1>1, <2>4 DEF Next
<1>6. CASE ApplyOpen \/ ApplyOverride
  BY <1>1, <1>6 DEF ApplyOpen, ApplyOverride, ControllerStep, Next
<1>7. CASE \/ List \/ (\E o \in Objects : Pick(o)) \/ StartRefused
           \/ Follow \/ ReadTarget \/ Patch \/ PatchError
  BY <1>7 DEF List, Pick, StartRefused, Follow, ReadTarget, Patch, PatchError
<1>8. QED
  BY <1>2, <1>3, <1>4, <1>5, <1>6, <1>7 DEF OpStep

LEMMA AnyStepMaps ==
  ASSUME OpTypeOK, Versioned, [OpNext]_opVars
  PROVE  [Next]_vars
<1>1. K8sOp \in Controllers
  BY OperatorAssumption
<1>2. CASE OpStep
  BY <1>2, OpStepMaps
<1>3. CASE OpCrash
  BY <1>1, <1>3 DEF OpCrash, ControllerStep, Next
<1>4. CASE \E c \in Controllers \ {K8sOp} : CliStep(c)
  BY <1>4 DEF CliStep, ControllerStep, Next
<1>5. CASE \/ PatchRefused \/ UNCHANGED opVars
           \/ \E o \in Objects, new \in Specs : Edit(o, new)
           \/ \E r \in Replicas : Report(r)
  BY <1>5 DEF PatchRefused, Edit, Report, opVars
<1>6. QED
  BY <1>2, <1>3, <1>4, <1>5 DEF OpNext

-----------------------------------------------------------------------------
(* What a status says stays true. *)

\* A status that is backed stays backed, wherever it is kept.
Still(st) ==
  /\ st.canaryId \in known' \cup {None}
  /\ \A k \in st.appliedHash :
       /\ st.versionId \in VersionIds'
       /\ config_version'[st.versionId].fields = k.fields
       /\ k.canary = {} =>
            st.versionId \in wasDesired'[config_version'[st.versionId].replica_group]
       /\ k.canary # {} => /\ st.canaryId \in known'
                           /\ canary'[st.canaryId].candidate_version_id = st.versionId
                           /\ {canary'[st.canaryId].scope} = k.canary
  /\ st.phase = "promoted" =>
       /\ st.versionId \in VersionIds'
       /\ st.versionId \in wasDesired'[config_version'[st.versionId].replica_group]
  /\ st.phase = "canary" => /\ st.canaryId \in known'
                            /\ canary'[st.canaryId].candidate_version_id = st.versionId
  /\ st.phase = "reverted" => st.canaryId \in known' /\ canary'[st.canaryId].status # "observing"

LEMMA BackedStays ==
  ASSUME IInv, [Next]_vars, NEW st, Backed(st)
  PROVE  Still(st)
<1>1. RowsKept
  BY StoreKept
<1>2. known \subseteq CanaryIds
  BY DEF IInv, JobRefs
<1>3. \A v \in VersionIds : config_version[v].replica_group \in Groups
  BY RowTypes DEF IInv, VersionRow
<1>4. QED
  BY <1>1, <1>2, <1>3 DEF Backed, Still, RowsKept

\* The invariant after a step, from what the step leaves behind.
LEMMA BackedNext ==
  ASSUME \A o \in Objects : Still(status'[o]),
         op'.pc # "idle" => \A o \in Objects : Still(op'.seen[o].status),
         op'.pc \in Carrying => Still(op'.new_status),
         op'.pc \in Applying => Proposed',
         op'.pc = "starting" => Starting'
  PROVE  StatusesBacked'
BY DEF StatusesBacked, Backed, Still, OpAt, Carrying, Applying

LEMMA AllStill ==
  ASSUME OpInv, [Next]_vars
  PROVE  /\ \A o \in Objects : Still(status[o])
         /\ ~OpAt("idle") => \A o \in Objects : Still(op.seen[o].status)
         /\ op.pc \in Carrying => Still(op.new_status)
         /\ IInv' /\ TypeOK'
<1>1. IInv
  BY DEF OpInv
<1>2. IInv'
  BY <1>1, NextInv
<1>3. QED
  BY <1>1, <1>2, BackedStays DEF OpInv, StatusesBacked, IInv

LEMMA InvVersioned == OpInv => Versioned
BY DEF OpInv, StatusesBacked, Proposed, Versioned, Applying

-----------------------------------------------------------------------------
(* The invariant is inductive. *)

LEMMA OpInitInv == OpInit => OpInv
<1> SUFFICES ASSUME OpInit
             PROVE  OpInv
  OBVIOUS
<1>1. IInv
  BY InitInv DEF OpInit
<1>2. NoStatus \in Status
  BY DEF NoStatus, Status, None
<1>3. OpTypeOK
  BY <1>1, <1>2, OperatorAssumption DEF OpInit, OpTypeOK, IInv
<1>4. Backed(NoStatus)
  BY DEF NoStatus, Backed
<1>5. StatusesBacked
  BY <1>4 DEF OpInit, StatusesBacked, OpIdle, OpAt, Carrying, Applying
<1>6. SpentKnown
  BY DEF OpInit, SpentKnown, OpIdle, OpAt
<1>7. QED
  BY <1>1, <1>3, <1>5, <1>6 DEF OpInv

\* Users, daemons and the command line leave the operator where it is.
LEMMA OutsideInv ==
  ASSUME OpInv, [Next]_vars, UNCHANGED <<op, status, spent, faults>>,
         job'[K8sOp] = job[K8sOp],
         spec' \in [Objects -> Specs], reported' \in SUBSET Replicas, edits' \in 0 .. MaxEdits
  PROVE  OpInv'
<1>1. /\ \A o \in Objects : Still(status[o])
      /\ ~OpAt("idle") => \A o \in Objects : Still(op.seen[o].status)
      /\ op.pc \in Carrying => Still(op.new_status)
      /\ IInv' /\ TypeOK'
  BY AllStill
<1>2. OpTypeOK'
  BY <1>1 DEF OpInv, OpTypeOK
<1>3. RowsKept /\ IInv
  BY StoreKept DEF OpInv
<1>4. op.pc \in Applying => Proposed'
  BY <1>3 DEF OpInv, StatusesBacked, Proposed, RowsKept, h, s, obj, OpAt
<1>5. op.pc = "starting" => Starting'
  <2>1. At(K8sOp, "opened") => job[K8sOp].canary \in CanaryIds
    BY <1>3, OperatorAssumption DEF IInv, JobRefs
  <2>2. QED
    BY <1>3, <2>1 DEF OpInv, StatusesBacked, Starting, RowsKept, s, obj, At, OpAt
<1>6. StatusesBacked'
  BY <1>1, <1>4, <1>5, BackedNext DEF OpAt
<1>7. SpentKnown'
  BY DEF OpInv, SpentKnown, OpAt, h, s, obj
<1>8. QED
  BY <1>1, <1>2, <1>6, <1>7 DEF OpInv

LEMMA CliInv ==
  ASSUME OpInv, [Next]_vars,
         \/ \E o \in Objects, new \in Specs : Edit(o, new)
         \/ \E r \in Replicas : Report(r)
         \/ \E c \in Controllers \ {K8sOp} : CliStep(c)
         \/ UNCHANGED opVars
  PROVE  OpInv'
<1>1. CASE \E o \in Objects, new \in Specs : Edit(o, new)
  <2>1. spec' \in [Objects -> Specs] /\ edits' \in 0 .. MaxEdits /\ reported' \in SUBSET Replicas
    BY <1>1, OperatorAssumption DEF Edit, OpInv, OpTypeOK
  <2>2. UNCHANGED <<op, status, spent, faults, job>>
    BY <1>1 DEF Edit, vars
  <2>3. QED
    BY <2>1, <2>2, OutsideInv
<1>2. CASE \E r \in Replicas : Report(r)
  BY <1>2, OutsideInv DEF Report, vars, OpInv, OpTypeOK
<1>3. CASE \E c \in Controllers \ {K8sOp} : CliStep(c)
  <2>1. PICK c \in Controllers \ {K8sOp} : CliStep(c)
    BY <1>3
  <2>2. job'[K8sOp] = job[K8sOp]
    BY <2>1, OperatorAssumption
       DEF CliStep, Promote, ObserveBegin, DecideClear, DecidePromote, DecidePromoteRefused,
           Close, AbortClear, Crash, Goto, OpInv, IInv, TypeOK
  <2>3. QED
    BY <2>1, <2>2, OutsideInv DEF CliStep, OpInv, OpTypeOK
<1>4. CASE UNCHANGED opVars
  BY <1>4, OutsideInv DEF opVars, vars, OpInv, OpTypeOK
<1>5. QED
  BY <1>1, <1>2, <1>3, <1>4

-----------------------------------------------------------------------------
(* Steps from one place to the next, in the same object. *)

LEMMA MoveInv ==
  ASSUME OpInv, [Next]_vars, ~OpAt("idle"), NEW pc \in Pcs, NEW ns \in Status,
         op' = [op EXCEPT !.pc = pc, !.new_status = ns],
         UNCHANGED <<status, spec, reported, edits>>,
         spent' \in [Objects -> SUBSET Hash], faults' \in 0 .. MaxFaults,
         pc \in Carrying => Still(ns),
         pc \in Applying => Proposed',
         pc = "starting" => Starting'
  PROVE  IInv' /\ OpTypeOK' /\ StatusesBacked'
<1>1. OpTypeOK
  BY DEF OpInv
<1>2. /\ op' \in Busy
      /\ op'.pc = pc /\ op'.new_status = ns
      /\ op'.at = op.at /\ op'.todo = op.todo /\ op'.seen = op.seen
  BY <1>1, Moved
<1>3. /\ \A o \in Objects : Still(status[o]) /\ Still(op.seen[o].status)
      /\ IInv' /\ TypeOK'
  BY AllStill
<1>4. OpTypeOK'
  BY <1>1, <1>2, <1>3 DEF OpTypeOK
<1>5. StatusesBacked'
  BY <1>2, <1>3, BackedNext
<1>6. QED
  BY <1>3, <1>4, <1>5

\* What is spent stays known while the hash being carried stays the same.
LEMMA MoveSpent ==
  ASSUME OpInv, ~OpAt("idle"), ~OpAt("next"), NEW pc \in Pcs, NEW ns \in Status,
         pc \notin {"apply", "proposing", "next"},
         op' = [op EXCEPT !.pc = pc, !.new_status = ns],
         UNCHANGED status,
         \A o \in Objects \ {obj} : spent'[o] = spent[o],
         spent'[obj] # {} => spent'[obj] = ns.appliedHash /\ pc # "failed"
  PROVE  SpentKnown'
<1>1. OpTypeOK
  BY DEF OpInv
<1>2. /\ op'.pc = pc /\ op'.new_status = ns
      /\ op'.at = op.at /\ op'.todo = op.todo /\ op'.seen = op.seen
  BY <1>1, Moved
<1>3. pc \in Applying \cup {"follow", "desired", "patch", "failed"}
  BY DEF Pcs, Applying
<1>4. SpentKnown
  BY DEF OpInv
<1>5. QED
  BY <1>2, <1>3, <1>4 DEF SpentKnown, OpAt, obj, s, h

LEMMA FollowInv ==
  ASSUME OpInv, Follow
  PROVE  OpInv'
<1> DEFINE i == op.new_status.canaryId
           decided == Following /\ canary[i].status # "observing"
           ns == [op.new_status EXCEPT !.phase = IF decided THEN canary[i].status ELSE @]
<1>1. /\ OpAt("follow") /\ ~OpAt("idle") /\ ~OpAt("next")
      /\ op' = [op EXCEPT !.pc = "desired", !.new_status = ns]
      /\ UNCHANGED <<vars, status, spent, faults, spec, reported, edits>>
  BY DEF Follow, Outside, OpAt
<1>2. OpTypeOK /\ IInv /\ TypeOK /\ op.new_status \in Status /\ Backed(op.new_status)
  BY <1>1, BusyShape DEF OpInv, StatusesBacked, Carrying, OpAt, OpTypeOK
<1>3. decided => /\ i \in known /\ i \in CanaryIds
                 /\ canary[i].status \in {"promoted", "reverted"}
                 /\ canary[i].candidate_version_id = op.new_status.versionId
  BY <1>2, RowTypes DEF Following, Backed, IInv, JobRefs, CanaryRow
<1>4. ns \in Status
  BY <1>2, <1>3 DEF Status
<1>5. /\ ns.appliedHash = op.new_status.appliedHash /\ ns.versionId = op.new_status.versionId
      /\ ns.canaryId = i
      /\ ns.phase = IF decided THEN canary[i].status ELSE op.new_status.phase
  BY <1>2 DEF Status
<1>6. decided /\ canary[i].status = "promoted" =>
        /\ op.new_status.versionId \in VersionIds
        /\ op.new_status.versionId \in wasDesired[config_version[op.new_status.versionId].replica_group]
  BY <1>2, <1>3 DEF IInv, PromoteRecorded, WasPromoted
<1>7. Backed(ns)
  <2> HIDE DEF ns
  <2> QED
    BY <1>2, <1>3, <1>5, <1>6 DEF Backed
<1> HIDE DEF ns, decided
<1>8. [Next]_vars /\ Still(ns)
  BY <1>1, <1>2, <1>7, BackedStays
<1>9. "desired" \in Pcs /\ "desired" \notin Applying
  BY DEF Pcs, Applying
<1>10. IInv' /\ OpTypeOK' /\ StatusesBacked'
  BY <1>1, <1>2, <1>4, <1>8, <1>9, MoveInv DEF OpTypeOK
<1>11. SpentKnown'
  <2>1. obj \in Objects /\ (spent[obj] # {} => spent[obj] = op.new_status.appliedHash)
    BY <1>1, <1>2, BusyShape DEF OpInv, SpentKnown, OpAt
  <2>2. QED
    BY <1>1, <1>4, <1>5, <1>9, <2>1, MoveSpent
<1>12. QED
  BY <1>10, <1>11 DEF OpInv

LEMMA ReadTargetInv ==
  ASSUME OpInv, ReadTarget
  PROVE  OpInv'
<1> DEFINE ns == [op.new_status EXCEPT !.desiredVersionId = desired(s.group)]
<1>1. /\ OpAt("desired") /\ ~OpAt("idle") /\ ~OpAt("next")
      /\ op' = [op EXCEPT !.pc = "patch", !.new_status = ns]
      /\ UNCHANGED <<vars, status, spent, faults, spec, reported, edits>>
  BY DEF ReadTarget, Outside, OpAt
<1>2. OpTypeOK /\ IInv /\ TypeOK /\ op.new_status \in Status /\ Backed(op.new_status)
  BY <1>1, BusyShape DEF OpInv, StatusesBacked, Carrying, OpAt, OpTypeOK
<1>3. desired(s.group) \in Nat
  BY <1>1, <1>2, BusyShape, SpecShape DEF desired, TypeOK, StoreTypeOK
<1>4. ns \in Status
  BY <1>2, <1>3 DEF Status
<1>5. /\ ns.appliedHash = op.new_status.appliedHash /\ ns.versionId = op.new_status.versionId
      /\ ns.canaryId = op.new_status.canaryId /\ ns.phase = op.new_status.phase
  BY <1>2 DEF Status
<1> HIDE DEF ns
<1>6. Backed(ns)
  BY <1>2, <1>5 DEF Backed
<1>7. [Next]_vars /\ Still(ns)
  BY <1>1, <1>2, <1>6, BackedStays
<1>8. "patch" \in Pcs /\ "patch" \notin Applying
  BY DEF Pcs, Applying
<1>9. IInv' /\ OpTypeOK' /\ StatusesBacked'
  BY <1>1, <1>2, <1>4, <1>7, <1>8, MoveInv DEF OpTypeOK
<1>10. SpentKnown'
  <2>1. obj \in Objects /\ (spent[obj] # {} => spent[obj] = op.new_status.appliedHash)
    BY <1>1, <1>2, BusyShape DEF OpInv, SpentKnown, OpAt
  <2>2. QED
    BY <1>1, <1>4, <1>5, <1>8, <2>1, MoveSpent
<1>11. QED
  BY <1>9, <1>10 DEF OpInv

\* A refused canary or patch leaves the status to the handler in tick.
LEMMA FailedInv ==
  ASSUME OpInv, StartRefused \/ PatchRefused
  PROVE  OpInv'
<1>1. /\ ~OpAt("idle") /\ ~OpAt("next")
      /\ op' = [op EXCEPT !.pc = "failed"]
      /\ spent' = [spent EXCEPT ![obj] = {}]
      /\ UNCHANGED <<vars, status, spec, reported, edits>>
  BY DEF StartRefused, PatchRefused, Outside, OpAt, OpGoto
<1>2. OpTypeOK /\ op \in Busy /\ op.new_status \in Status /\ obj \in Objects
  BY <1>1, BusyShape DEF OpInv
<1>3. op' = [op EXCEPT !.pc = "failed", !.new_status = op.new_status]
  BY <1>1, <1>2 DEF Busy
<1>4. faults' \in 0 .. MaxFaults
  BY <1>2, OperatorAssumption DEF StartRefused, PatchRefused, OpTypeOK
<1>5. /\ spent' \in [Objects -> SUBSET Hash]
      /\ spent'[obj] = {} /\ \A o \in Objects \ {obj} : spent'[o] = spent[o]
  BY <1>1, <1>2 DEF OpTypeOK
<1>6. "failed" \in Pcs /\ "failed" \notin Applying \cup Carrying
  BY DEF Pcs, Applying, Carrying
<1>7. IInv' /\ OpTypeOK' /\ StatusesBacked'
  BY <1>1, <1>2, <1>3, <1>4, <1>5, <1>6, MoveInv
<1>8. SpentKnown'
  BY <1>1, <1>2, <1>3, <1>5, <1>6, MoveSpent
<1>9. QED
  BY <1>7, <1>8 DEF OpInv

-----------------------------------------------------------------------------
(* Steps from one object to the next, and a crash. *)

LEMMA ListInv ==
  ASSUME OpInv, List
  PROVE  OpInv'
<1>1. OpAt("idle") /\ UNCHANGED <<vars, status, spent, faults, spec, reported, edits>>
  BY DEF List, Outside
<1>2. PICK o \in Objects :
        op' = [pc |-> "next", todo |-> Objects, at |-> o, new_status |-> NoStatus,
               seen |-> [p \in Objects |-> [spec |-> spec[p], status |-> status[p]]]]
  BY DEF List
<1>3. OpTypeOK /\ IInv /\ op = OpIdle
  BY <1>1, IdleShape DEF OpInv
<1>4. NoStatus \in Status
  BY DEF NoStatus, Status, None
<1>5. op' \in Busy
  BY <1>2, <1>3, <1>4 DEF OpTypeOK, Busy, Pcs
<1>6. /\ [Next]_vars /\ \A p \in Objects : Still(status[p])
      /\ IInv' /\ TypeOK'
  BY <1>1, AllStill
<1>7. OpTypeOK'
  BY <1>1, <1>3, <1>5, <1>6 DEF OpTypeOK
<1>8. StatusesBacked'
  <2>1. \A p \in Objects : Still(op'.seen[p].status) /\ Still(status'[p])
    BY <1>1, <1>2, <1>6
  <2>2. op'.pc = "next"
    BY <1>2
  <2>3. QED
    BY <2>1, <2>2, BackedNext DEF Carrying, Applying
<1>9. SpentKnown'
  BY <1>1, <1>2, <1>3 DEF OpInv, SpentKnown, OpAt, OpIdle, obj, Applying
<1>10. QED
  BY <1>6, <1>7, <1>8, <1>9 DEF OpInv

LEMMA PickInv ==
  ASSUME OpInv, NEW o \in Objects, Pick(o)
  PROVE  OpInv'
<1> DEFINE st == op.seen[o].status
           pc == IF st.appliedHash # {spec_hash(op.seen[o].spec)} THEN "apply" ELSE "follow"
<1>1. /\ OpAt("next") /\ ~OpAt("idle") /\ o \in op.todo
      /\ op' = [op EXCEPT !.at = o, !.todo = @ \ {o}, !.new_status = st, !.pc = pc]
      /\ UNCHANGED <<vars, status, spent, faults, spec, reported, edits>>
  BY DEF Pick, Outside, OpAt
<1>2. OpTypeOK /\ IInv /\ op \in Busy /\ st \in Status /\ op.todo \in SUBSET Objects
  BY <1>1, BusyShape DEF OpInv
<1>3. /\ op' \in Busy
      /\ op'.pc = pc /\ op'.new_status = st /\ op'.at = o
      /\ op'.todo = op.todo \ {o} /\ op'.seen = op.seen
  BY <1>1, <1>2 DEF Busy, Pcs
<1>4. /\ [Next]_vars
      /\ \A p \in Objects : Still(status[p]) /\ Still(op.seen[p].status)
      /\ IInv' /\ TypeOK'
  BY <1>1, AllStill
<1>5. OpTypeOK'
  BY <1>1, <1>2, <1>3, <1>4 DEF OpTypeOK
<1>6. StatusesBacked'
  <2>1. \A p \in Objects : Still(op'.seen[p].status) /\ Still(status'[p])
    BY <1>1, <1>3, <1>4
  <2>2. Still(op'.new_status)
    BY <1>3, <1>4
  <2>3. op'.pc # "starting" /\ op'.pc \notin Applying
    BY <1>3 DEF Applying
  <2>4. QED
    BY <2>1, <2>2, <2>3, BackedNext
<1>7. SpentKnown'
  <2>1. /\ \A p \in Objects :
             /\ p \in op.todo => op.seen[p].status.appliedHash = status[p].appliedHash
             /\ spent[p] # {} => spent[p] = status[p].appliedHash
    BY <1>1 DEF OpInv, SpentKnown, OpAt, Applying
  <2>2. pc = "apply" => op.seen[o].status.appliedHash # {spec_hash(op.seen[o].spec)}
    OBVIOUS
  <2>3. pc \in {"apply", "follow"}
    OBVIOUS
  <2> HIDE DEF pc
  <2>4. \A p \in Objects :
          (p \in op'.todo \/ p = o) => op'.seen[p].status.appliedHash = status'[p].appliedHash
    BY <1>1, <1>3, <2>1
  <2>5. \A p \in Objects : spent'[p] # {} =>
          spent'[p] = IF op'.pc \in Applying \cup {"follow", "desired", "patch"} /\ o = p
                      THEN op'.new_status.appliedHash ELSE status'[p].appliedHash
    BY <1>1, <1>3, <2>1
  <2>6. QED
    BY <1>3, <2>2, <2>3, <2>4, <2>5 DEF SpentKnown, OpAt, obj, s, h
<1>8. QED
  BY <1>4, <1>5, <1>6, <1>7 DEF OpInv

\* The status of one object is patched; the others keep theirs.
LEMMA PatchInv ==
  ASSUME OpInv, Patch \/ PatchError
  PROVE  OpInv'
<1> DEFINE st == status'[obj]
<1>1. /\ ~OpAt("idle") /\ ~OpAt("next") /\ (OpAt("patch") \/ OpAt("failed"))
      /\ Done
      /\ UNCHANGED <<vars, spent, faults, spec, reported, edits>>
  BY DEF Patch, PatchError, Outside, OpAt
<1>2. /\ OpTypeOK /\ IInv /\ op \in Busy /\ op.new_status \in Status /\ obj \in Objects
      /\ status[obj] \in Status
  BY <1>1, BusyShape DEF OpInv, OpTypeOK
<1>3. /\ [Next]_vars
      /\ \A p \in Objects : Still(status[p]) /\ Still(op.seen[p].status)
      /\ OpAt("patch") => Still(op.new_status)
      /\ IInv' /\ TypeOK'
  BY <1>1, AllStill DEF Carrying, OpAt
<1>4. \/ op' = OpIdle
      \/ /\ op' \in Busy
         /\ op'.pc = "next" /\ op'.new_status = op.new_status
         /\ op'.at = op.at /\ op'.todo = op.todo /\ op'.seen = op.seen
  BY <1>1, <1>2, DoneShape
<1>5. /\ st \in Status /\ Still(st)
      /\ status' \in [Objects -> Status]
      /\ \A p \in Objects \ {obj} : status'[p] = status[p]
      /\ spent[obj] # {} => spent[obj] = st.appliedHash
  <2>1. CASE Patch
    <3>1. status' = [status EXCEPT ![obj] = op.new_status] /\ OpAt("patch")
      BY <2>1 DEF Patch
    <3>2. spent[obj] # {} => spent[obj] = op.new_status.appliedHash
      BY <1>2, <3>1 DEF OpInv, SpentKnown, OpAt
    <3>3. Still(op.new_status) /\ op.new_status \in Status
      BY <1>2, <1>3, <3>1
    <3>4. /\ status' \in [Objects -> Status] /\ st = op.new_status
          /\ \A p \in Objects \ {obj} : status'[p] = status[p]
      BY <1>2, <3>1, <3>3 DEF OpTypeOK
    <3>5. QED
      BY <3>2, <3>3, <3>4
  <2>2. CASE PatchError
    <3> DEFINE err == [status[obj] EXCEPT !.phase = "error"]
    <3>1. status' = [status EXCEPT ![obj] = err] /\ OpAt("failed")
      BY <2>2 DEF PatchError
    <3>2. /\ err \in Status
          /\ err.appliedHash = status[obj].appliedHash /\ err.versionId = status[obj].versionId
          /\ err.canaryId = status[obj].canaryId /\ err.phase = "error"
      BY <1>2 DEF Status
    <3> HIDE DEF err
    <3>3. Still(err)
      <4>1. Still(status[obj])
        BY <1>2, <1>3
      <4>2. QED
        BY <3>2, <4>1 DEF Still
    <3>4. spent[obj] # {} => spent[obj] = status[obj].appliedHash
      BY <1>2, <3>1 DEF OpInv, SpentKnown, OpAt, Applying
    <3>5. QED
      BY <1>2, <3>1, <3>2, <3>3, <3>4 DEF OpTypeOK
  <2>3. QED
    BY <2>1, <2>2
<1> HIDE DEF st
<1>6. OpTypeOK'
  BY <1>1, <1>2, <1>3, <1>4, <1>5 DEF OpTypeOK
<1>7. op'.pc \in {"idle", "next"}
  BY <1>4 DEF OpIdle
<1>8. StatusesBacked'
  <2>1. \A p \in Objects : Still(status'[p])
    BY <1>3, <1>5 DEF st
  <2>2. op'.pc # "idle" => \A p \in Objects : Still(op'.seen[p].status)
    BY <1>3, <1>4 DEF OpIdle
  <2>3. QED
    BY <1>7, <2>1, <2>2, BackedNext DEF Carrying, Applying
<1>9. SpentKnown'
  <2>1. \A p \in Objects : spent[p] # {} => spent[p] = status'[p].appliedHash
    BY <1>1, <1>5 DEF OpInv, SpentKnown, OpAt, st
  <2>2. op'.pc # "idle" => \A p \in op'.todo \cap Objects :
          op'.seen[p].status.appliedHash = status'[p].appliedHash
    BY <1>1, <1>4, <1>5 DEF OpInv, SpentKnown, OpAt, OpIdle
  <2>3. QED
    BY <1>1, <1>7, <2>1, <2>2 DEF SpentKnown, OpAt, Applying
<1>10. QED
  BY <1>3, <1>6, <1>8, <1>9 DEF OpInv

LEMMA CrashInv ==
  ASSUME OpInv, [Next]_vars, OpCrash
  PROVE  OpInv'
<1>1. /\ ~OpAt("idle") /\ op' = OpIdle /\ spent' = [spent EXCEPT ![obj] = {}]
      /\ UNCHANGED <<status, spec, reported, edits>>
  BY DEF OpCrash, Outside
<1>2. OpTypeOK /\ obj \in Objects
  BY <1>1, BusyShape DEF OpInv
<1>3. (\A p \in Objects : Still(status[p])) /\ IInv' /\ TypeOK'
  BY AllStill
<1>4. faults' \in 0 .. MaxFaults
  BY <1>2, OperatorAssumption DEF OpCrash, OpTypeOK
<1>5. OpTypeOK'
  BY <1>1, <1>2, <1>3, <1>4 DEF OpTypeOK
<1>6. op'.pc = "idle"
  BY <1>1 DEF OpIdle
<1>7. StatusesBacked'
  BY <1>1, <1>3, <1>6, BackedNext DEF Carrying, Applying
<1>8. SpentKnown'
  BY <1>1, <1>2, <1>6 DEF OpInv, OpTypeOK, SpentKnown, OpAt, Applying
<1>9. QED
  BY <1>3, <1>5, <1>7, <1>8 DEF OpInv

-----------------------------------------------------------------------------
(* The application of a spec: propose, then promote or start. *)

\* What each of these steps may assume: it is a step of Canary, the operator
\* is busy, and what it saw and prepared has its type.
LEMMA ApplyShape ==
  ASSUME OpInv, OpStep, op.pc \notin {"idle", "next"}
  PROVE  /\ [Next]_vars /\ RowsKept /\ IInv /\ TypeOK /\ OpTypeOK
         /\ K8sOp \in Controllers
         /\ op \in Busy /\ op.new_status \in Status /\ obj \in Objects
         /\ s \in Specs /\ s.group \in Groups /\ s.fields \in Fields /\ h \in Hash
         /\ h.fields = s.fields /\ h.canary = s.canary
         /\ ~OpAt("idle") /\ ~OpAt("next")
<1>1. OpTypeOK /\ IInv /\ TypeOK /\ ~OpAt("idle") /\ ~OpAt("next")
  BY DEF OpInv, IInv, OpAt
<1>2. [Next]_vars
  BY <1>1, InvVersioned, OpStepMaps
<1>3. h.fields = s.fields /\ h.canary = s.canary
  BY DEF h, spec_hash
<1>4. s \in Specs /\ op \in Busy /\ op.new_status \in Status /\ obj \in Objects /\ h \in Hash
  BY <1>1, BusyShape
<1>5. QED
  BY <1>1, <1>2, <1>3, <1>4, StoreKept, SpecShape, OperatorAssumption

LEMMA ApplyReadInv ==
  ASSUME OpInv, ApplyRead
  PROVE  OpInv'
<1>1. /\ OpAt("apply") /\ op' = [op EXCEPT !.pc = "proposing"]
      /\ UNCHANGED <<status, spent, faults, spec, reported, edits>>
  BY DEF ApplyRead, Outside, OpGoto
<1>2. [Next]_vars /\ OpTypeOK /\ op \in Busy /\ op.new_status \in Status /\ ~OpAt("idle")
  BY <1>1, ApplyShape DEF OpStep, OpAt
<1>3. op' = [op EXCEPT !.pc = "proposing", !.new_status = op.new_status]
  BY <1>1, <1>2 DEF Busy
<1>4. "proposing" \in Pcs /\ "proposing" \notin Applying
  BY DEF Pcs, Applying
<1>5. Still(op.new_status)
  BY <1>1, <1>2, AllStill DEF Carrying, OpAt
<1>6. IInv' /\ OpTypeOK' /\ StatusesBacked'
  BY <1>1, <1>2, <1>3, <1>4, <1>5, MoveInv DEF OpTypeOK
<1>7. SpentKnown'
  <2>1. op'.pc = "proposing" /\ op'.at = op.at /\ op'.todo = op.todo /\ op'.seen = op.seen
    BY <1>2, <1>3, <1>4, Moved
  <2>2. QED
    BY <1>1, <2>1 DEF OpInv, SpentKnown, OpAt, obj, s, h, Applying
<1>8. QED
  BY <1>6, <1>7 DEF OpInv

LEMMA ApplyInsertInv ==
  ASSUME OpInv, ApplyInsert
  PROVE  OpInv'
<1> DEFINE v == Len(config_version')
           ns == [op.new_status EXCEPT !.appliedHash = {h}, !.versionId = v]
           pc == IF s.canary = {} THEN "promote" ELSE "start"
<1>1. /\ OpAt("proposing")
      /\ op' = [op EXCEPT !.pc = pc, !.new_status = ns]
      /\ ProposeInsert(K8sOp, s.fields)
      /\ spent' = [spent EXCEPT ![obj] = {h}]
      /\ UNCHANGED <<status, faults, spec, reported, edits>>
  BY DEF ApplyInsert, Outside
<1>2. /\ [Next]_vars /\ RowsKept /\ IInv /\ TypeOK /\ OpTypeOK /\ K8sOp \in Controllers
      /\ op \in Busy /\ op.new_status \in Status /\ obj \in Objects
      /\ s.fields \in Fields /\ h \in Hash /\ ~OpAt("idle") /\ ~OpAt("next")
  BY <1>1, ApplyShape DEF OpStep, OpAt
<1>3. v \in VersionIds' /\ v \in Nat /\ config_version'[v].fields = s.fields
  <2> DEFINE row == [replica_group |-> job[K8sOp].group, parent_id |-> job[K8sOp].parent,
                     fields |-> s.fields]
  <2>1. config_version' = Append(config_version, row)
    BY <1>1 DEF ProposeInsert, propose
  <2>2. row \in VersionRow /\ row.fields = s.fields
    BY <1>1, <1>2, JobShape DEF ProposeInsert, VersionRow
  <2>3. config_version \in Seq(VersionRow)
    BY <1>2 DEF TypeOK, StoreTypeOK
  <2> HIDE DEF row
  <2>4. QED
    BY <2>1, <2>2, <2>3, AppendRow DEF VersionIds
<1> HIDE DEF v
<1>4. /\ ns \in Status
      /\ ns.appliedHash = {h} /\ ns.versionId = v /\ ns.canaryId = op.new_status.canaryId
  BY <1>2, <1>3 DEF Status
<1>5. pc \in Pcs /\ pc \in {"promote", "start"} /\ (pc = "promote" <=> s.canary = {})
  BY DEF Pcs
<1> HIDE DEF ns, pc
<1>6. op'.pc = pc /\ op'.new_status = ns /\ op'.at = op.at /\ op'.seen = op.seen
  BY <1>1, <1>2, <1>4, <1>5, Moved
<1>7. op.new_status.canaryId \in known' \cup {None}
  BY <1>1, <1>2 DEF OpInv, StatusesBacked, Backed, Carrying, OpAt, RowsKept
<1>8. s' = s /\ h' = h
  BY <1>6 DEF s, h, obj
<1>9. Proposed'
  BY <1>3, <1>4, <1>5, <1>6, <1>7, <1>8 DEF Proposed, OpAt
<1>10. spent' \in [Objects -> SUBSET Hash] /\ spent'[obj] = {h}
       /\ \A o \in Objects \ {obj} : spent'[o] = spent[o]
  BY <1>1, <1>2 DEF OpTypeOK
<1>11. IInv' /\ OpTypeOK' /\ StatusesBacked'
  BY <1>1, <1>2, <1>4, <1>5, <1>9, <1>10, MoveInv DEF OpTypeOK, Carrying
<1>12. SpentKnown'
  BY <1>1, <1>2, <1>4, <1>5, <1>10, MoveSpent
<1>13. QED
  BY <1>11, <1>12 DEF OpInv

LEMMA ApplyPromoteInv ==
  ASSUME OpInv, ApplyPromote
  PROVE  OpInv'
<1> DEFINE v == op.new_status.versionId
           ns == [op.new_status EXCEPT !.phase = "promoted"]
<1>1. /\ OpAt("promote")
      /\ op' = [op EXCEPT !.pc = "follow", !.new_status = ns]
      /\ Promote(K8sOp, s.group, v)
      /\ UNCHANGED <<status, spent, faults, spec, reported, edits>>
  BY DEF ApplyPromote, Outside
<1>2. /\ [Next]_vars /\ RowsKept /\ IInv /\ TypeOK /\ OpTypeOK
      /\ op.new_status \in Status /\ obj \in Objects /\ s.group \in Groups
      /\ h.fields = s.fields /\ h.canary = s.canary /\ ~OpAt("idle") /\ ~OpAt("next")
  BY <1>1, ApplyShape DEF OpStep, OpAt
<1>3. Proposed /\ s.canary = {}
  BY <1>1 DEF OpInv, StatusesBacked, Proposed, Applying, OpAt
<1>4. /\ ns \in Status
      /\ ns.appliedHash = {h} /\ ns.versionId = v /\ ns.canaryId = op.new_status.canaryId
      /\ ns.phase = "promoted"
  BY <1>2, <1>3 DEF Status, Proposed
<1>5. /\ v \in VersionIds' /\ config_version'[v].fields = s.fields
      /\ v \in wasDesired'[config_version'[v].replica_group]
  <2>1. v \in VersionIds /\ config_version[v].fields = s.fields
    BY <1>3 DEF Proposed
  <2>2. /\ config_version[v].replica_group = s.group
        /\ wasDesired' = [wasDesired EXCEPT ![s.group] = @ \cup {v}]
    BY <1>1 DEF Promote, promote, rollback, InGroup
  <2>3. QED
    BY <1>2, <2>1, <2>2 DEF RowsKept, TypeOK
<1>6. op.new_status.canaryId \in known' \cup {None}
  BY <1>2, <1>3 DEF Proposed, RowsKept
<1> HIDE DEF ns, v
<1>7. Still(ns)
  BY <1>2, <1>3, <1>4, <1>5, <1>6 DEF Still
<1>8. "follow" \in Pcs /\ "follow" \notin Applying
  BY DEF Pcs, Applying
<1>9. IInv' /\ OpTypeOK' /\ StatusesBacked'
  BY <1>1, <1>2, <1>4, <1>7, <1>8, MoveInv DEF OpTypeOK
<1>10. SpentKnown'
  <2>1. spent[obj] # {} => spent[obj] = {h}
    BY <1>1, <1>2, <1>3 DEF OpInv, SpentKnown, OpAt, Applying, Proposed
  <2>2. QED
    BY <1>1, <1>2, <1>4, <1>8, <2>1, MoveSpent
<1>11. QED
  BY <1>9, <1>10 DEF OpInv

LEMMA ApplyStartInv ==
  ASSUME OpInv, ApplyStart
  PROVE  OpInv'
<1>1. /\ OpAt("start")
      /\ op' = [op EXCEPT !.pc = "starting"]
      /\ StartRead(K8sOp, s.group, op.new_status.versionId, scope)
      /\ UNCHANGED <<status, spent, faults, spec, reported, edits>>
  BY DEF ApplyStart, Outside, OpGoto
<1>2. /\ [Next]_vars /\ RowsKept /\ IInv /\ TypeOK /\ OpTypeOK /\ K8sOp \in Controllers
      /\ op \in Busy /\ op.new_status \in Status /\ obj \in Objects /\ s \in Specs
      /\ ~OpAt("idle") /\ ~OpAt("next")
  BY <1>1, ApplyShape DEF OpStep, OpAt
<1>3. op' = [op EXCEPT !.pc = "starting", !.new_status = op.new_status]
  BY <1>1, <1>2 DEF Busy
<1>4. Proposed /\ s.canary # {}
  BY <1>1 DEF OpInv, StatusesBacked, Proposed, Applying, OpAt
<1>5. s.canary = {scope}
  <2>1. PICK S \in SUBSET Replicas : s.canary = {S}
    BY <1>2, <1>4, SpecShape
  <2>2. \A T \in s.canary : T = S
    BY <2>1
  <2>3. scope \in s.canary
    BY <2>1 DEF scope
  <2>4. QED
    BY <2>1, <2>2, <2>3
<1>6. "starting" \in Pcs /\ "starting" \in Applying /\ "starting" \notin Carrying
  BY DEF Pcs, Applying, Carrying
<1>7. op'.pc = "starting" /\ op'.new_status = op.new_status /\ op'.at = op.at /\ op'.seen = op.seen
  BY <1>2, <1>3, <1>6, Moved
<1>8. s' = s /\ h' = h
  BY <1>7 DEF s, h, obj
<1>9. Proposed'
  BY <1>2, <1>4, <1>7, <1>8 DEF Proposed, RowsKept, OpAt
<1>10. Starting'
  <2>1. /\ job'[K8sOp].pc = "base_read"
        /\ job'[K8sOp].version = op.new_status.versionId /\ job'[K8sOp].scope = scope
    BY <1>1, <1>2 DEF StartRead, Goto, TypeOK
  <2>2. QED
    BY <1>5, <1>7, <1>8, <2>1 DEF Starting, At
<1>11. IInv' /\ OpTypeOK' /\ StatusesBacked'
  BY <1>1, <1>2, <1>3, <1>6, <1>9, <1>10, MoveInv DEF OpTypeOK
<1>12. SpentKnown'
  <2>1. spent[obj] # {} => spent[obj] = op.new_status.appliedHash
    BY <1>1, <1>2 DEF OpInv, SpentKnown, OpAt, Applying
  <2>2. ~OpAt("idle") /\ ~OpAt("next") /\ op.new_status \in Status /\ UNCHANGED <<status, spent>>
    BY <1>1, <1>2
  <2>3. QED
    BY <1>3, <1>6, <2>1, <2>2, MoveSpent
<1>13. QED
  BY <1>11, <1>12 DEF OpInv

LEMMA ApplyOpenInv ==
  ASSUME OpInv, ApplyOpen
  PROVE  OpInv'
<1>1. /\ OpAt("starting") /\ StartOpen(K8sOp)
      /\ UNCHANGED <<op, status, spent, faults, spec, reported, edits>>
  BY DEF ApplyOpen, Outside
<1>2. /\ [Next]_vars /\ RowsKept /\ IInv /\ TypeOK /\ OpTypeOK /\ K8sOp \in Controllers
      /\ op \in Busy /\ op.new_status \in Status /\ ~OpAt("idle")
  BY <1>1, ApplyShape DEF OpStep, OpAt
<1>3. op' = [op EXCEPT !.pc = "starting", !.new_status = op.new_status]
  BY <1>1, <1>2 DEF Busy, OpAt
<1>4. Proposed /\ Starting
  BY <1>1 DEF OpInv, StatusesBacked, Applying, OpAt
<1>5. s' = s /\ h' = h
  BY <1>1 DEF s, h, obj
<1>6. Proposed'
  BY <1>1, <1>2, <1>4, <1>5 DEF Proposed, RowsKept, OpAt
<1>7. Starting'
  <2> DEFINE row == [replica_group |-> job[K8sOp].group,
                     candidate_version_id |-> job[K8sOp].version,
                     baseline_version_id |-> job[K8sOp].base, scope |-> job[K8sOp].scope,
                     status |-> "observing"]
  <2>1. /\ At(K8sOp, "base_read")
        /\ canary' = Append(canary, row)
        /\ job'[K8sOp] = Row("opened", Len(canary) + 1)
    BY <1>1, <1>2 DEF StartOpen, open_canary, Goto, TypeOK
  <2>2. /\ row \in CanaryRow
        /\ row.candidate_version_id = job[K8sOp].version /\ row.scope = job[K8sOp].scope
    BY <1>2, <2>1, JobShape DEF CanaryRow
  <2> HIDE DEF row
  <2>3. canary \in Seq(CanaryRow)
    BY <1>2 DEF TypeOK, StoreTypeOK
  <2>4. canary'[Len(canary) + 1] = row
    BY <2>1, <2>2, <2>3, AppendRow
  <2>5. job'[K8sOp].pc = "opened" /\ job'[K8sOp].canary = Len(canary) + 1
    BY <2>1 DEF Row
  <2>6. QED
    BY <1>1, <1>4, <1>5, <2>1, <2>2, <2>4, <2>5 DEF Starting, At
<1>8. "starting" \in Pcs /\ "starting" \notin Carrying
  BY DEF Pcs, Carrying
<1>9. IInv' /\ OpTypeOK' /\ StatusesBacked'
  BY <1>1, <1>2, <1>3, <1>6, <1>7, <1>8, MoveInv DEF OpTypeOK
<1>10. SpentKnown'
  BY <1>1 DEF OpInv, SpentKnown, OpAt, obj, s, h
<1>11. QED
  BY <1>9, <1>10 DEF OpInv

LEMMA ApplyOverrideInv ==
  ASSUME OpInv, ApplyOverride
  PROVE  OpInv'
<1> DEFINE i == job[K8sOp].canary
           ns == [op.new_status EXCEPT !.phase = "canary", !.canaryId = i]
<1>1. /\ OpAt("starting") /\ StartOverride(K8sOp)
      /\ op' = [op EXCEPT !.pc = "follow", !.new_status = ns]
      /\ UNCHANGED <<status, spent, faults, spec, reported, edits>>
  BY DEF ApplyOverride, Outside
<1>2. /\ [Next]_vars /\ RowsKept /\ IInv /\ TypeOK /\ OpTypeOK /\ K8sOp \in Controllers
      /\ op.new_status \in Status /\ obj \in Objects
      /\ h.fields = s.fields /\ h.canary = s.canary /\ ~OpAt("idle") /\ ~OpAt("next")
  BY <1>1, ApplyShape DEF OpStep, OpAt
<1>3. Proposed /\ Starting /\ s.canary # {}
  BY <1>1 DEF OpInv, StatusesBacked, Proposed, Applying, OpAt
<1>4. /\ At(K8sOp, "opened") /\ i \in CanaryIds /\ i \in Nat
      /\ i \in known' /\ canary' = canary
  BY <1>1, <1>2 DEF StartOverride, set_overrides, IInv, JobRefs, CanaryIds
<1>5. /\ canary[i].candidate_version_id = op.new_status.versionId
      /\ {canary[i].scope} = s.canary
  BY <1>3, <1>4 DEF Starting
<1>6. /\ ns \in Status
      /\ ns.appliedHash = {h} /\ ns.versionId = op.new_status.versionId
      /\ ns.canaryId = i /\ ns.phase = "canary"
  BY <1>2, <1>3, <1>4 DEF Status, Proposed
<1>7. /\ op.new_status.versionId \in VersionIds'
      /\ config_version'[op.new_status.versionId].fields = s.fields
  BY <1>2, <1>3 DEF Proposed, RowsKept
<1> HIDE DEF ns, i
<1>8. Still(ns)
  BY <1>2, <1>3, <1>4, <1>5, <1>6, <1>7 DEF Still
<1>9. "follow" \in Pcs /\ "follow" \notin Applying
  BY DEF Pcs, Applying
<1>10. IInv' /\ OpTypeOK' /\ StatusesBacked'
  BY <1>1, <1>2, <1>6, <1>8, <1>9, MoveInv DEF OpTypeOK
<1>11. SpentKnown'
  <2>1. spent[obj] # {} => spent[obj] = {h}
    BY <1>1, <1>2, <1>3 DEF OpInv, SpentKnown, OpAt, Applying, Proposed
  <2>2. QED
    BY <1>1, <1>2, <1>6, <1>9, <2>1, MoveSpent
<1>12. QED
  BY <1>10, <1>11 DEF OpInv

LEMMA OpNextInv == OpInv /\ [OpNext]_opVars => OpInv'
<1> SUFFICES ASSUME OpInv, [OpNext]_opVars
             PROVE  OpInv'
  OBVIOUS
<1>1. [Next]_vars
  BY InvVersioned, AnyStepMaps DEF OpInv
<1>2. CASE OpStep
  BY <1>2, ListInv, PickInv, ApplyReadInv, ApplyInsertInv, ApplyPromoteInv, ApplyStartInv,
     FailedInv, ApplyOpenInv, ApplyOverrideInv, FollowInv, ReadTargetInv, PatchInv DEF OpStep
<1>3. CASE PatchRefused
  BY <1>3, FailedInv
<1>4. CASE OpCrash
  BY <1>1, <1>4, CrashInv
<1>5. CASE \/ \E o \in Objects, new \in Specs : Edit(o, new)
           \/ \E r \in Replicas : Report(r)
           \/ \E c \in Controllers \ {K8sOp} : CliStep(c)
           \/ UNCHANGED opVars
  BY <1>1, <1>5, CliInv
<1>6. QED
  BY <1>2, <1>3, <1>4, <1>5 DEF OpNext

-----------------------------------------------------------------------------
(* The theorems. *)

\* The operator and the command line together keep the strengthened invariant.
THEOREM OpInductive == OpSpec => []OpInv
<1>1. QED
  BY OpInitInv, OpNextInv, PTL DEF OpSpec

\* Objects, statuses and the operator's local state keep their shape.
THEOREM OpTypeCorrect == OpSpec => []OpTypeOK
<1>1. OpInv => OpTypeOK
  BY DEF OpInv
<1>2. QED
  BY <1>1, OpInductive, PTL

\* Operator.reconcile_one, tick: the hash in a status stands for a version in
\* force or a canary that took hold, for any number of objects, edits,
\* refused patches and crashes.
THEOREM AppliedIsBacked == OpSpec => []HashBacked
<1>1. OpInv => HashBacked
  BY DEF OpInv, StatusesBacked, Backed, HashBacked
<1>2. QED
  BY <1>1, OpInductive, PTL

\* Operator.reconcile_one: a status says promoted or reverted only of what was.
THEOREM PhaseIsBacked == OpSpec => []PhaseBacked
<1>1. OpInv => PhaseBacked
  BY DEF OpInv, StatusesBacked, Backed, PhaseBacked
<1>2. QED
  BY <1>1, OpInductive, PTL

\* Operator.tick: a hash that was proposed and not lost is not proposed again.
THEOREM NothingProposedTwice == OpSpec => ProposedOnce
<1> DEFINE Once == \A o \in Objects :
             OpAt("proposing") /\ obj = o /\ config_version' # config_version => spent[o] # {h}
<1>1. OpInv => Once
  BY DEF OpInv, SpentKnown, OpAt, Applying
<1>2. OpInv /\ [OpNext]_opVars => [Once]_opVars
  BY <1>1
<1>3. QED
  BY <1>2, OpInductive, PTL DEF OpSpec, ProposedOnce

\* What the operator does to the store is a behavior of Canary.
LEMMA CommandsOfCanary == OpSpec => Spec
<1>1. OpInit => Init
  BY DEF OpInit
<1>2. OpInv /\ [OpNext]_opVars => [Next]_vars
  BY InvVersioned, AnyStepMaps DEF OpInv
<1>3. QED
  BY <1>1, <1>2, OpInductive, PTL DEF OpSpec, Spec

\* Operator.reconcile_one, _apply_spec: whatever users edit, whatever fails and
\* whatever the command line decides meanwhile, the operator's canaries hold a
\* proper part of a group once, and close as promoted only after the target
\* moved.
THEOREM OperatorKeepsRollout == OpSpec => ImplementsRollout
BY CommandsOfCanary, RolloutImplemented, PTL

-----------------------------------------------------------------------------
(* Fleet reads Reconciler under the name D; what is proved of Reconciler is *)
(* read under the name DP.  The two are the same formulas.                  *)

DP == INSTANCE ReconcilerProofs

LEMMA SameInit == DP!Init <=> D!Init
BY DEF D!Init, D!NoOverride, D!None, D!Started, DP!Init, DP!NoOverride, DP!None, DP!Started

LEMMA SameRecInv == (DP!RecInv <=> D!RecInv) /\ (DP!RecInv' <=> D!RecInv')
BY DEF D!RecInv, D!TypeOK, D!TargetsKnown, D!ReplicaInv, D!Backed, D!PushGuarded, D!AppliedIsLive,
       D!RowIsLive, D!StoreTypeOK, D!VersionRow, D!OverrideRow, D!CanaryRow, D!StatusRow, D!Daemon,
       D!Versions, D!None, D!At, D!Target, D!Applied, D!Pushing, D!Pushed, D!HealthyAt, D!Holds,
       D!FieldsOf, D!accepted, D!cold, D!bad, D!taken, D!Acceptable,
       DP!RecInv, DP!TypeOK, DP!TargetsKnown, DP!ReplicaInv, DP!Backed, DP!PushGuarded, DP!AppliedIsLive,
       DP!RowIsLive, DP!StoreTypeOK, DP!VersionRow, DP!OverrideRow, DP!CanaryRow, DP!StatusRow, DP!Daemon,
       DP!Versions, DP!None, DP!At, DP!Target, DP!Applied, DP!Pushing, DP!Pushed, DP!HealthyAt, DP!Holds,
       DP!FieldsOf, DP!accepted, DP!cold, DP!bad, DP!taken, DP!Acceptable

LEMMA SameReplicaInv ==
  ASSUME NEW q \in Replicas
  PROVE  (DP!ReplicaInv(q) <=> D!ReplicaInv(q)) /\ (DP!ReplicaInv(q)' <=> D!ReplicaInv(q)')
BY DEF D!ReplicaInv, D!Backed, D!PushGuarded, D!AppliedIsLive, D!RowIsLive,
       D!Versions, D!None, D!At, D!Target, D!Applied, D!Pushing, D!Pushed, D!HealthyAt, D!Holds,
       D!FieldsOf, D!accepted, D!cold, D!bad, D!taken, D!Acceptable,
       DP!ReplicaInv, DP!Backed, DP!PushGuarded, DP!AppliedIsLive, DP!RowIsLive,
       DP!Versions, DP!None, DP!At, DP!Target, DP!Applied, DP!Pushing, DP!Pushed, DP!HealthyAt, DP!Holds,
       DP!FieldsOf, DP!accepted, DP!cold, DP!bad, DP!taken, DP!Acceptable

LEMMA SameProcess ==
  ASSUME NEW r
  PROVE  (DP!Crash(r) <=> D!Crash(r)) /\ (DP!Restart(r) <=> D!Restart(r))
BY DEF D!Crash, D!Restart, D!At, D!Started, D!None, D!storeVars,
       DP!Crash, DP!Restart, DP!At, DP!Started, DP!None, DP!storeVars

LEMMA SameTick ==
  ASSUME NEW r
  PROVE  DP!Tick(r) <=> D!Tick(r)
BY DEF D!Tick, D!ReadOverride, D!ReadDesired, D!Heartbeat, D!ManifestRejects, D!Applying, D!SetHot,
       D!ReadKnobs, D!EngineRejected, D!MarkApplied, D!At, D!Step, D!Converged, D!record_status,
       D!VersionMissing, D!Versions, D!Started, DP!VersionMissing, DP!Versions, DP!Started,
       D!desired, D!Target, D!Applied, D!storeVars, D!None,
       D!FieldsOf, D!accepted, D!cold, D!bad, D!taken, D!after, D!confirmed,
       DP!Tick, DP!ReadOverride, DP!ReadDesired, DP!Heartbeat, DP!ManifestRejects, DP!Applying, DP!SetHot,
       DP!ReadKnobs, DP!EngineRejected, DP!MarkApplied, DP!At, DP!Step, DP!Converged, DP!record_status,
       DP!desired, DP!Target, DP!Applied, DP!storeVars, DP!None,
       DP!FieldsOf, DP!accepted, DP!cold, DP!bad, DP!taken, DP!after, DP!confirmed

\* The assumptions under which Reconciler's lemmas hold are those of Fleet.
LEMMA ReconcilerAssumptions ==
  /\ DP!GroupOfAssumption /\ DP!HistoryAssumption /\ DP!EngineAssumption /\ DP!NormAssumption
BY FleetAssumption, GroupOfAssumption
   DEF D!EngineAssumption, D!HistoryAssumption, D!NormAssumption, D!VersionRow,
       DP!EngineAssumption, DP!HistoryAssumption, DP!NormAssumption, DP!GroupOfAssumption, DP!VersionRow

-----------------------------------------------------------------------------
(* Steps of Reconciler seen from Fleet. *)

\* A daemon's step, or its death or restart, keeps its rows truthful.
LEMMA DaemonKeepsRecInv ==
  ASSUME D!RecInv, NEW r \in Replicas, D!Tick(r) \/ D!Crash(r) \/ D!Restart(r)
  PROVE  D!RecInv'
<1>1. DP!Next
  BY SameTick, SameProcess DEF DP!Next
<1>2. DP!RecInv'
  BY <1>1, SameRecInv, ReconcilerAssumptions, DP!NextInv
<1>3. QED
  BY <1>2, SameRecInv

\* A step of somebody else, as long as targets stay versions on record.
LEMMA OthersKeepRecInv ==
  ASSUME D!RecInv, D!TypeOK', D!TargetsKnown', UNCHANGED <<daemonVars, replica_status>>
  PROVE  D!RecInv'
<1>1. ASSUME NEW q \in Replicas
      PROVE  D!ReplicaInv(q)'
  <2>1. DP!ReplicaInv(q)
    BY SameReplicaInv DEF D!RecInv
  <2>2. DP!Same(q)
    BY DEF DP!Same, daemonVars
  <2>3. DP!ReplicaInv(q)'
    BY <2>1, <2>2, ReconcilerAssumptions, DP!SameInv
  <2>4. QED
    BY <2>3, SameReplicaInv
<1>2. QED
  BY <1>1 DEF D!RecInv

\* What a tick leaves alone.
LEMMA TickKeeps ==
  ASSUME NEW r \in Replicas, D!Tick(r) \/ D!Crash(r) \/ D!Restart(r), D!TypeOK
  PROVE  /\ UNCHANGED <<config_version, desired_state, replica_override, canary>>
         /\ \A q \in Replicas \ {r} : /\ daemon'[q] = daemon[q] /\ engine'[q] = engine[q]
                                      /\ replica_status'[q] = replica_status[q]
BY DEF D!Tick, D!ReadOverride, D!ReadDesired, D!Heartbeat, D!ManifestRejects, D!Applying, D!SetHot,
       D!ReadKnobs, D!EngineRejected, D!MarkApplied, D!Step, D!record_status, D!storeVars,
       D!VersionMissing, D!Crash, D!Restart, D!TypeOK, D!StoreTypeOK

-----------------------------------------------------------------------------
(* The initial state. *)

LEMMA HistoryShape ==
  /\ History \in Seq(VersionRow) /\ Len(History) \in Nat
  /\ \A v \in 1 .. Len(History) : /\ History[v] \in VersionRow
                                  /\ History[v].replica_group \in Groups
                                  /\ History[v].parent_id \in Nat
<1>1. History \in Seq(VersionRow) /\ Len(History) \in Nat
  BY FleetAssumption, LenProperties DEF D!HistoryAssumption, D!VersionRow, VersionRow
<1>2. \A v \in 1 .. Len(History) : History[v] \in VersionRow
  BY <1>1, ElementOfSeq
<1>3. QED
  BY <1>1, <1>2 DEF VersionRow

\* A parent in the history is an older version of the same group.
LEMMA ParentsOwn ==
  ASSUME NEW g \in Groups, NEW p \in Parents(g)
  PROVE  p \in Nat /\ p \in 1 .. Len(History) /\ History[p].replica_group = g
<1>1. PICK v \in D!Versions : /\ History[v].replica_group = g
                              /\ History[v].parent_id = p
                              /\ p # None
  BY DEF Parents
<1>2. v \in 1 .. Len(History)
  BY <1>1 DEF D!Versions
<1>3. p \in Nat /\ v \in Nat /\ Len(History) \in Nat
  BY <1>1, <1>2, HistoryShape
<1>4. p < v /\ History[p].replica_group = g
  BY <1>1, FleetAssumption
<1>5. QED
  BY <1>1, <1>2, <1>3, <1>4 DEF None

LEMMA FleetInitInv == FleetInit => FleetInv
<1> SUFFICES ASSUME FleetInit
             PROVE  FleetInv
  OBVIOUS
<1>1. /\ config_version = History
      /\ desired_state = [g \in Groups |-> None]
      /\ replica_override = [r \in Replicas |-> NoOverride]
      /\ canary = <<>>
      /\ replica_status = [r \in Replicas |-> [applied_version_id |-> None, state |-> "absent"]]
      /\ job = [c \in Controllers |-> Idle]
      /\ known = {}
      /\ wasDesired = [g \in Groups |-> Parents(g)]
  BY DEF FleetInit, D!Init, D!NoOverride, NoOverride, D!None, None
<1>2. History \in Seq(VersionRow)
  BY HistoryShape
<1>3. CanaryIds = {} /\ VersionIds = 1 .. Len(History) /\ Len(History) \in Nat
  BY <1>1, HistoryShape DEF CanaryIds, VersionIds
<1>4. \A c \in Controllers : job[c].pc = "idle"
  BY <1>1 DEF Idle
<1>5. TypeOK
  <2>1. StoreTypeOK
    <3>1. NoOverride \in OverrideRow /\ None \in Nat
      BY DEF NoOverride, OverrideRow, None
    <3>2. [applied_version_id |-> None, state |-> "absent"] \in StatusRow
      BY DEF StatusRow, None
    <3>3. <<>> \in Seq(CanaryRow)
      OBVIOUS
    <3>4. QED
      BY <1>1, <1>2, <3>1, <3>2, <3>3 DEF StoreTypeOK
  <2>2. Idle \in Job
    BY DEF Idle, Job, IdleJob
  <2>3. \A g \in Groups : Parents(g) \subseteq Nat
    <3> SUFFICES ASSUME NEW g \in Groups, NEW p \in Parents(g)
                 PROVE  p \in Nat
      OBVIOUS
    <3>1. QED
      BY ParentsOwn
  <2>4. QED
    BY <1>1, <2>1, <2>2, <2>3 DEF TypeOK
<1>6. DesiredKnown
  <2> SUFFICES ASSUME NEW g \in Groups
               PROVE  /\ \A v \in Parents(g) : v \in VersionIds /\ History[v].replica_group = g
                      /\ desired_state[g] = None
    BY <1>1 DEF DesiredKnown
  <2>1. QED
    BY <1>1, <1>3, ParentsOwn
<1>7. LineageKept
  <2>1. ASSUME NEW v \in VersionIds, config_version[v].parent_id # None
        PROVE  /\ config_version[v].parent_id < v
               /\ config_version[v].parent_id \in wasDesired[config_version[v].replica_group]
    <3>1. v \in D!Versions /\ History[v].parent_id < v
      BY <1>1, <1>3, <2>1, FleetAssumption DEF D!Versions
    <3>2. History[v].replica_group \in Groups
      BY <1>3, HistoryShape
    <3>3. QED
      BY <1>1, <2>1, <3>1, <3>2 DEF Parents
  <2>2. QED
    BY <1>4, <2>1 DEF LineageKept, Lineage, At
<1>8. IInv
  BY <1>1, <1>3, <1>4, <1>5, <1>6, <1>7
     DEF IInv, JobRefs, CandidatesNamed, OverridesOpen, ClearedFirst, PromoteRecorded,
         Deciding, At, NoOverride
<1>9. D!RecInv
  BY SameInit, SameRecInv, ReconcilerAssumptions, DP!InitInv DEF FleetInit
<1>10. OverridesHeld
  BY <1>1 DEF OverridesHeld, NoOverride
<1>11. BlastRadius
  BY <1>1, FleetAssumption DEF BlastRadius, Contained, FleetInit, D!Init, D!Started, D!None, None
<1>12. QED
  BY <1>1, <1>8, <1>9, <1>10, <1>11 DEF FleetInv

-----------------------------------------------------------------------------
(* What a replica may run only grows. *)

LEMMA MayRunGrows ==
  ASSUME IInv, RowsKept, NEW r \in Replicas
  PROVE  MayRun(r) \subseteq MayRun(r)'
<1>1. GroupOf[r] \in Groups
  BY GroupOfAssumption
<1>2. \A i \in known : i \in CanaryIds
  BY DEF IInv, JobRefs
<1>3. QED
  BY <1>1, <1>2 DEF RowsKept, MayRun

\* What a daemon and its engine are seen to hold stays contained when it stays,
\* is forgotten, or comes from what the replica may run.
LEMMA ContainedStays ==
  ASSUME NEW r \in Replicas, Contained(r), MayRun(r) \subseteq MayRun(r)',
         daemon'[r].target \in {daemon[r].target, None} \cup MayRun(r),
         daemon'[r].applied \in {daemon[r].applied, daemon[r].target, None},
         replica_status'[r].applied_version_id
           \in {replica_status[r].applied_version_id, daemon[r].applied, daemon[r].target},
         engine'[r] = engine[r]
  PROVE  Contained(r)'
BY DEF Contained

\* A daemon looks up its override and its group's version (desired_for).
LEMMA LookupContained ==
  ASSUME IInv, OverridesHeld, NEW r \in Replicas
  PROVE  /\ replica_override[r].version_id \in MayRun(r) \cup {None}
         /\ desired_state[GroupOf[r]] \in MayRun(r) \cup {None}
<1>1. GroupOf[r] \in Groups
  BY GroupOfAssumption
<1>2. desired_state[GroupOf[r]] \in MayRun(r) \cup {None}
  BY <1>1 DEF IInv, DesiredKnown, MayRun
<1>3. replica_override[r].version_id \in MayRun(r) \cup {None}
  BY DEF OverridesHeld, MayRun
<1>4. QED
  BY <1>2, <1>3

\* A push writes fields of the target and nothing else.
LEMMA PushContained ==
  ASSUME FleetInv, NEW r \in Up, D!SetHot(r), MayRun(r)' = MayRun(r)
  PROVE  Contained(r)'
<1> DEFINE v == daemon[r].target
           f == History[v].fields
<1>1. r \in Replicas /\ Contained(r)
  BY FleetAssumption DEF FleetInv, BlastRadius
<1>2. v \in D!Versions /\ v # None
  BY <1>1 DEF FleetInv, D!RecInv, D!ReplicaInv, D!PushGuarded, D!Pushing, D!SetHot, D!At,
              D!Versions, None
<1>3. v \in MayRun(r)
  BY <1>1, <1>2 DEF Contained
<1>4. /\ daemon'[r].target = v /\ daemon'[r].applied = daemon[r].applied
      /\ replica_status' = replica_status
      /\ engine'[r] = D!after(engine[r], f)
  BY <1>1 DEF FleetInv, D!RecInv, D!TypeOK, D!Daemon, D!SetHot, D!storeVars, D!Target, D!FieldsOf
<1>5. \A k \in Knobs : engine'[r][k] = IF k \in D!taken(f) THEN Norm[f[k]] ELSE engine[r][k]
  BY <1>4 DEF D!after
<1>6. \A k \in Knobs :
        \/ engine'[r][k] = Boot[k]
        \/ \E w \in MayRun(r) \cap D!Versions :
             k \in D!taken(History[w].fields) /\ engine'[r][k] = Norm[History[w].fields[k]]
  BY <1>1, <1>2, <1>3, <1>5 DEF Contained
<1>7. {daemon'[r].target, daemon'[r].applied, replica_status'[r].applied_version_id}
        \subseteq MayRun(r) \cup {None}
  BY <1>1, <1>4 DEF Contained
<1>8. QED
  BY <1>6, <1>7 DEF Contained

\* The other steps of a daemon move a version from where it looked it up to
\* where it remembers and reports it.
LEMMA DaemonContained ==
  ASSUME FleetInv, NEW r \in Up, D!Tick(r) \/ D!Crash(r) \/ D!Restart(r),
         MayRun(r)' = MayRun(r)
  PROVE  Contained(r)'
<1>1. r \in Replicas /\ Contained(r) /\ IInv /\ OverridesHeld /\ D!TypeOK
  BY FleetAssumption DEF FleetInv, BlastRadius, D!RecInv
<1>2. daemon[r] \in D!Daemon /\ daemon \in [Replicas -> D!Daemon]
      /\ replica_status \in [Replicas -> D!StatusRow]
  BY <1>1 DEF D!TypeOK, D!StoreTypeOK
<1>3. CASE D!ReadOverride(r)
  <2>1. /\ daemon'[r].target = replica_override[r].version_id
        /\ daemon'[r].applied = daemon[r].applied
        /\ replica_status' = replica_status /\ engine' = engine
    BY <1>1, <1>2, <1>3 DEF D!ReadOverride, D!Daemon, D!storeVars
  <2>2. QED
    BY <1>1, <2>1, LookupContained, ContainedStays
<1>4. CASE D!ReadDesired(r)
  <2>1. /\ daemon'[r].target = desired_state[GroupOf[r]]
        /\ daemon'[r].applied = daemon[r].applied
        /\ replica_status' = replica_status /\ engine' = engine
    BY <1>1, <1>2, <1>4 DEF D!ReadDesired, D!desired, D!Daemon, D!storeVars
  <2>2. QED
    BY <1>1, <2>1, LookupContained, ContainedStays
<1>5. CASE D!Heartbeat(r) \/ D!ManifestRejects(r) \/ D!Applying(r) \/ D!EngineRejected(r)
  <2>1. /\ daemon'[r].target = daemon[r].target /\ daemon'[r].applied = daemon[r].applied
        /\ replica_status'[r].applied_version_id = daemon[r].applied
        /\ engine' = engine
    BY <1>1, <1>2, <1>5 DEF D!Heartbeat, D!ManifestRejects, D!Applying, D!EngineRejected,
                            D!record_status, D!Step, D!Applied, D!Daemon
  <2>2. QED
    BY <1>1, <2>1, ContainedStays
<1>6. CASE D!SetHot(r)
  BY <1>6, PushContained
<1>7. CASE D!ReadKnobs(r)
  <2>1. /\ daemon'[r].target = daemon[r].target /\ daemon'[r].applied = daemon[r].applied
        /\ replica_status' = replica_status /\ engine' = engine
    BY <1>1, <1>2, <1>7 DEF D!ReadKnobs, D!Daemon, D!storeVars
  <2>2. QED
    BY <1>1, <2>1, ContainedStays
<1>8. CASE D!MarkApplied(r)
  <2>1. /\ daemon'[r].target = daemon[r].target /\ daemon'[r].applied = daemon[r].target
        /\ replica_status'[r].applied_version_id = daemon[r].target
        /\ engine' = engine
    BY <1>1, <1>2, <1>8 DEF D!MarkApplied, D!record_status, D!Daemon
  <2>2. QED
    BY <1>1, <2>1, ContainedStays
<1>9. CASE D!Crash(r) \/ D!Restart(r) \/ D!VersionMissing(r)
  <2>1. /\ daemon'[r].target = None /\ daemon'[r].applied = None
        /\ replica_status' = replica_status /\ engine' = engine
    BY <1>1, <1>2, <1>9 DEF D!Crash, D!Restart, D!VersionMissing, D!Started, D!None, None, D!storeVars
  <2>2. QED
    BY <1>1, <2>1, ContainedStays
<1>10. QED
  BY <1>3, <1>4, <1>5, <1>6, <1>7, <1>8, <1>9 DEF D!Tick

-----------------------------------------------------------------------------
(* Steps of a daemon. *)

LEMMA DaemonInv ==
  ASSUME FleetInv, NEW r \in Up, D!Tick(r) \/ D!Crash(r) \/ D!Restart(r),
         UNCHANGED <<job, known, wasDesired>>
  PROVE  FleetInv'
<1>1. r \in Replicas
  BY FleetAssumption
<1>2. D!RecInv'
  BY <1>1, DaemonKeepsRecInv DEF FleetInv
<1>3. /\ UNCHANGED <<config_version, desired_state, replica_override, canary>>
      /\ \A q \in Replicas \ {r} : /\ daemon'[q] = daemon[q] /\ engine'[q] = engine[q]
                                   /\ replica_status'[q] = replica_status[q]
  BY <1>1, TickKeeps DEF FleetInv, D!RecInv
<1>4. replica_status' \in [Replicas -> StatusRow]
  BY <1>2 DEF D!RecInv, D!TypeOK, D!StoreTypeOK, D!StatusRow, StatusRow
<1>5. IInv'
  BY <1>3, <1>4 DEF FleetInv, IInv, TypeOK, StoreTypeOK, JobRefs, CandidatesNamed, OverridesOpen,
     ClearedFirst, DesiredKnown, PromoteRecorded, WasPromoted, LineageKept, Lineage, At,
     VersionIds, NamedIds, CanaryIds
<1>6. OverridesHeld' /\ config_version' = History
  BY <1>3 DEF FleetInv, OverridesHeld
<1>7. \A q \in Up : MayRun(q)' = MayRun(q)
  BY <1>3 DEF MayRun
<1>8. ASSUME NEW q \in Up
      PROVE  Contained(q)'
  <2>1. CASE q = r
    BY <1>7, <2>1, DaemonContained
  <2>2. CASE q # r
    <3>1. q \in Replicas /\ Contained(q)
      BY FleetAssumption DEF FleetInv, BlastRadius
    <3>2. QED
      BY <1>3, <1>7, <2>2, <3>1, ContainedStays
  <2>3. QED
    BY <2>1, <2>2
<1>9. QED
  BY <1>2, <1>5, <1>6, <1>8 DEF FleetInv, BlastRadius

-----------------------------------------------------------------------------
(* Steps of a command. *)

\* The history is full, so that no command adds to it; and no command writes
\* a status row.
LEMMA CommandKeeps ==
  ASSUME IInv, config_version = History, NEW c \in Controllers, ControllerStep(c)
  PROVE  config_version' = config_version /\ replica_status' = replica_status
<1>1. ~(Len(config_version) < MaxVersions)
  BY FleetAssumption, HistoryShape
<1>2. \A f \in Fields : ~ProposeInsert(c, f)
  BY <1>1 DEF ProposeInsert
<1>3. QED
  BY <1>2 DEF ControllerStep, ProposeRead, Promote, StartRead, StartOpen, StartOverride,
     ObserveBegin, DecideClear, DecidePromote, DecidePromoteRefused, Close, AbortClear, Crash,
     storeVars, promote, rollback, open_canary, set_overrides, clear_overrides, close_canary

\* An override is set with the candidate and the scope of the canary's row.
LEMMA OverridesStayHeld ==
  ASSUME IInv, OverridesHeld, RowsKept, NEW c \in Controllers, ControllerStep(c)
  PROVE  OverridesHeld'
<1> SUFFICES ASSUME NEW r \in Replicas, replica_override'[r].version_id # None
             PROVE  LET i == replica_override'[r].canary_id IN
                    /\ i \in known'
                    /\ r \in canary'[i].scope
                    /\ replica_override'[r].version_id = canary'[i].candidate_version_id
  BY DEF OverridesHeld
<1>1. \A i \in known : i \in CanaryIds
  BY DEF IInv, JobRefs
<1>2. CASE replica_override'[r] = replica_override[r]
  BY <1>1, <1>2 DEF OverridesHeld, RowsKept
<1>3. CASE StartOverride(c) /\ replica_override'[r] # replica_override[r]
  <2>1. PICK i \in CanaryIds : i = job[c].canary
    BY <1>3 DEF StartOverride, IInv, JobRefs, At
  <2>2. /\ r \in canary[i].scope
        /\ replica_override'[r] = [version_id |-> canary[i].candidate_version_id, canary_id |-> i]
        /\ i \in known' /\ canary' = canary
    BY <1>3, <2>1 DEF StartOverride, set_overrides
  <2>3. QED
    BY <2>2
<1>4. replica_override' = replica_override \/ StartOverride(c)
      \/ \A q \in Replicas : replica_override'[q] \in {replica_override[q], NoOverride}
  BY DEF ControllerStep, ProposeRead, ProposeInsert, Promote, StartRead, StartOpen,
     ObserveBegin, DecideClear, DecidePromote, DecidePromoteRefused, Close, AbortClear, Crash,
     storeVars, promote, rollback, propose, open_canary, clear_overrides, close_canary
<1>5. QED
  BY <1>2, <1>3, <1>4 DEF NoOverride

LEMMA CommandInv ==
  ASSUME FleetInv, NEW c \in Controllers, Command(c)
  PROVE  FleetInv'
<1>1. /\ ControllerStep(c) /\ UNCHANGED daemonVars
      /\ IInv /\ config_version = History /\ D!RecInv /\ OverridesHeld /\ BlastRadius
  BY DEF Command, FleetInv
<1>2. config_version' = History /\ replica_status' = replica_status
  BY <1>1, CommandKeeps
<1>3. IInv' /\ RowsKept
  BY <1>1, NextInv, StoreKept DEF Next
<1>4. OverridesHeld'
  BY <1>1, <1>3, OverridesStayHeld
<1>5. D!TypeOK'
  <2>1. StoreTypeOK'
    BY <1>3 DEF IInv, TypeOK
  <2>2. D!StoreTypeOK'
    BY <2>1 DEF StoreTypeOK, VersionRow, OverrideRow, CanaryRow, StatusRow,
       D!StoreTypeOK, D!VersionRow, D!OverrideRow, D!CanaryRow, D!StatusRow
  <2>3. QED
    BY <1>1, <2>2 DEF D!RecInv, D!TypeOK, daemonVars
<1>6. D!TargetsKnown'
  <2>1. VersionIds' = D!Versions
    BY <1>2 DEF VersionIds, D!Versions
  <2>2. \A g \in Groups : desired_state'[g] \in D!Versions \cup {None}
    BY <1>3, <2>1 DEF IInv, DesiredKnown
  <2>3. QED
    BY <2>2 DEF D!TargetsKnown, D!None, None
<1>7. D!RecInv'
  BY <1>1, <1>2, <1>5, <1>6, OthersKeepRecInv
<1>8. ASSUME NEW r \in Up
      PROVE  Contained(r)'
  <2>1. r \in Replicas /\ Contained(r)
    BY <1>1, FleetAssumption DEF BlastRadius
  <2>2. MayRun(r) \subseteq MayRun(r)'
    BY <1>1, <1>3, <2>1, MayRunGrows
  <2>3. QED
    BY <1>1, <1>2, <2>1, <2>2, ContainedStays DEF daemonVars
<1>9. QED
  BY <1>2, <1>3, <1>4, <1>7, <1>8 DEF FleetInv, BlastRadius

LEMMA FleetNextInv == FleetInv /\ [FleetNext]_fleetVars => FleetInv'
<1> SUFFICES ASSUME FleetInv, [FleetNext]_fleetVars
             PROVE  FleetInv'
  OBVIOUS
<1>1. ASSUME NEW c \in Controllers, Command(c)
      PROVE  FleetInv'
  BY <1>1, CommandInv
<1>2. ASSUME NEW r \in Up, DaemonStep(r) \/ DaemonProcess(r)
      PROVE  FleetInv'
  BY <1>2, DaemonInv DEF DaemonStep, DaemonProcess
<1>3. CASE UNCHANGED fleetVars
  <2>1. UNCHANGED <<vars, daemonVars>> /\ UNCHANGED storeVars
    BY <1>3 DEF fleetVars, vars
  <2>2. IInv' /\ RowsKept
    BY <2>1, NextInv, StoreKept DEF FleetInv
  <2>3. D!TypeOK' /\ D!TargetsKnown'
    BY <2>1 DEF FleetInv, D!RecInv, D!TypeOK, D!StoreTypeOK, D!TargetsKnown, storeVars, daemonVars
  <2>4. D!RecInv'
    BY <2>1, <2>3, OthersKeepRecInv DEF FleetInv, storeVars
  <2>5. QED
    BY <2>1, <2>2, <2>4
       DEF FleetInv, OverridesHeld, BlastRadius, Contained, MayRun, vars, storeVars, daemonVars
<1>4. QED
  BY <1>1, <1>2, <1>3 DEF FleetNext

-----------------------------------------------------------------------------
(* Theorems about the control plane as a whole. *)

\* The commands of any number of controllers and the daemons of any number of
\* replicas keep the invariants of both, and what ties them together.
THEOREM FleetInductive == FleetSpec => []FleetInv
BY FleetInitInv, FleetNextInv, PTL DEF FleetSpec

\* Canary.start: whatever the order of overrides, promotes, aborts, ticks and
\* crashes, a candidate outside its scope is no daemon's target, is in no
\* status row and has set no live knob.
THEOREM BlastRadiusHolds == FleetSpec => []BlastRadius
<1>1. FleetInv => BlastRadius
  BY DEF FleetInv
<1>2. QED
  BY <1>1, FleetInductive, PTL

\* Reconciler.tick: with every command of every controller in between, the
\* rows name versions the engine took whole, and a healthy row tells what is
\* live.
THEOREM FleetRowsAreTrue == FleetSpec => [](D!StatusBacked /\ D!HealthyIsLive)
<1>1. FleetInv => D!StatusBacked /\ D!HealthyIsLive
  BY DEF FleetInv, D!RecInv, D!ReplicaInv, D!Backed, D!RowIsLive, D!StatusBacked, D!HealthyIsLive
<1>2. QED
  BY <1>1, FleetInductive, PTL

\* Canary and Store: with daemons that tick, die and report at any step, the
\* commands keep what they promise of versions, targets and overrides.
THEOREM FleetKeepsCanary ==
  FleetSpec => [](Lineage /\ DesiredOwnGroup /\ NoOrphanOverride /\ PromotedMeansDesired)
<1>1. FleetInv => Lineage /\ DesiredOwnGroup /\ NoOrphanOverride /\ PromotedMeansDesired
  BY DEF FleetInv, IInv, LineageKept, DesiredKnown, DesiredOwnGroup, OverridesOpen, JobRefs,
         NoOrphanOverride, PromoteRecorded, WasPromoted, PromotedMeansDesired
<1>2. QED
  BY <1>1, FleetInductive, PTL
=============================================================================
