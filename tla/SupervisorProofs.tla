-------------------------- MODULE SupervisorProofs --------------------------
(***************************************************************************)
(* Proofs that a supervised engine is what its row says, and that it is    *)
(* stopped only for a cold part it was not built with, for every set of    *)
(* replicas, history of versions, manifest and engine, with failures of    *)
(* the supervisor and the engine at any step.                              *)
(***************************************************************************)
EXTENDS Supervisor, TLAPS

-----------------------------------------------------------------------------
(* Versions, cold parts and the shape of the state. *)

LEMMA FieldsShape ==
  ASSUME NEW v \in Versions
  PROVE  /\ v # None /\ v \in Nat
         /\ DOMAIN FieldsOf(v) \subseteq Knobs
         /\ \A k \in DOMAIN FieldsOf(v) : FieldsOf(v)[k] \in Values
         /\ accepted(FieldsOf(v)) \subseteq DOMAIN FieldsOf(v)
         /\ taken(FieldsOf(v)) \subseteq accepted(FieldsOf(v))
         /\ cold(FieldsOf(v)) \subseteq DOMAIN FieldsOf(v)
         /\ cold(FieldsOf(v)) \cap accepted(FieldsOf(v)) = {}
<1>1. v \in Nat /\ v # None
  BY HistoryAssumption DEF Versions, None
<1>2. FieldsOf(v) \in Fields
  <2>1. History \in Seq(VersionRow) /\ v \in 1 .. Len(History)
    BY HistoryAssumption DEF Versions
  <2>2. History[v] \in VersionRow
    BY <2>1
  <2>3. QED
    BY <2>2 DEF FieldsOf, VersionRow
<1>3. QED
  BY <1>1, <1>2, HistoryAssumption DEF accepted, taken, cold

LEMMA ColdPartShape ==
  ASSUME NEW v \in Versions
  PROVE  ColdPart(FieldsOf(v)) \in ColdParts
<1>1. cold(FieldsOf(v)) \in SUBSET Knobs
  BY FieldsShape
<1>2. ColdPart(FieldsOf(v)) \in [cold(FieldsOf(v)) -> Values]
  BY FieldsShape DEF ColdPart
<1>3. QED
  BY <1>1, <1>2 DEF ColdParts

LEMMA NoColdShape == NoCold \in ColdParts
<1>1. NoCold \in [{} -> Values] /\ {} \in SUBSET Knobs
  BY DEF NoCold
<1>2. QED
  BY <1>1 DEF ColdParts

LEMMA StartedShape == Started \in Sup
BY NoColdShape DEF Started, Sup

LEMMA AfterShape ==
  ASSUME NEW v \in Versions, NEW now \in [Knobs -> Values]
  PROVE  /\ after(now, FieldsOf(v)) \in [Knobs -> Values]
         /\ \A k \in taken(FieldsOf(v)) : after(now, FieldsOf(v))[k] = Norm[FieldsOf(v)[k]]
<1>1. \A k \in taken(FieldsOf(v)) : k \in Knobs /\ FieldsOf(v)[k] \in Values
  BY FieldsShape
<1>2. \A k \in taken(FieldsOf(v)) : Norm[FieldsOf(v)[k]] \in Values
  BY <1>1, EngineAssumption
<1>3. QED
  BY <1>1, <1>2 DEF after

LEMMA ReplicaShape ==
  ASSUME TypeOK, NEW r \in Replicas
  PROVE  /\ sup[r] \in Sup
         /\ sup[r].target \in Versions \cup {None} /\ sup[r].target \in Nat
         /\ sup[r].applied \in Versions \cup {None} /\ Applied(r) \in Nat
         /\ sup[r].cold_applied \in ColdParts /\ Wanted(r) \in ColdParts
         /\ live[r] \in [Knobs -> Values] /\ torn[r] \in BOOLEAN
<1>1. sup[r] \in Sup /\ live[r] \in [Knobs -> Values] /\ torn[r] \in BOOLEAN
  BY DEF TypeOK
<1>2. /\ sup[r].target \in Versions \cup {None} /\ sup[r].applied \in Versions \cup {None}
      /\ sup[r].cold_applied \in ColdParts
  BY <1>1 DEF Sup
<1>3. Wanted(r) \in ColdParts
  BY <1>2, ColdPartShape DEF Wanted, Target
<1>4. QED
  BY <1>1, <1>2, <1>3, FieldsShape DEF Applied, None

-----------------------------------------------------------------------------
(* A step of one replica. *)

\* Everything the invariant says of replica q is the same after the step.
Same(q) ==
  /\ sup'[q] = sup[q] /\ proc'[q] = proc[q] /\ launched'[q] = launched[q]
  /\ live'[q] = live[q] /\ torn'[q] = torn[q] /\ replica_status'[q] = replica_status[q]

LEMMA SameInv ==
  ASSUME NEW q \in Replicas, ReplicaInv(q), Same(q)
  PROVE  ReplicaInv(q)'
<1>1. ColdKnown(q)'
  BY DEF ReplicaInv, Same, ColdKnown, alive, At, Differs, Wanted, Target
<1>2. HotKnown(q)'
  BY DEF ReplicaInv, Same, HotKnown, At, Target
<1>3. StillBuilt(q)'
  BY DEF ReplicaInv, Same, StillBuilt, Quiet, alive, Applied, Built
<1>4. QED
  BY <1>1, <1>2, <1>3 DEF ReplicaInv

LEMMA OneReplicaInv ==
  ASSUME SupInv, NEW r \in Replicas, TypeOK', ReplicaInv(r)',
         UNCHANGED <<desired_state, replica_override>>,
         \A q \in Replicas \ {r} : Same(q)
  PROVE  SupInv'
<1>1. TargetsKnown'
  BY DEF SupInv, TargetsKnown
<1>2. \A q \in Replicas : ReplicaInv(q)'
  BY SameInv DEF SupInv
<1>3. QED
  BY <1>1, <1>2 DEF SupInv

LEMMA Recorded ==
  ASSUME TypeOK, NEW r \in Replicas, NEW a \in Nat,
         NEW st \in {"absent", "healthy", "applying", "failed", "needs_reinit", "reinit"},
         record_status(r, a, st)
  PROVE  /\ StoreTypeOK'
         /\ UNCHANGED <<desired_state, replica_override>>
         /\ replica_status'[r] = [applied_version_id |-> a, state |-> st]
         /\ \A q \in Replicas \ {r} : replica_status'[q] = replica_status[q]
BY DEF TypeOK, StoreTypeOK, record_status, StatusRow

Pcs == {"idle", "no_override", "target", "warm", "check", "stop", "boot", "refused", "hot",
        "answered", "done"}

LEMMA Stepped ==
  ASSUME TypeOK, NEW r \in Replicas, NEW pc \in Pcs, Step(r, pc)
  PROVE  /\ sup' \in [Replicas -> Sup]
         /\ sup'[r].pc = pc /\ sup'[r].target = sup[r].target /\ sup'[r].ok = sup[r].ok
         /\ sup'[r].applied = sup[r].applied /\ sup'[r].cold_applied = sup[r].cold_applied
         /\ \A q \in Replicas \ {r} : sup'[q] = sup[q]
BY DEF TypeOK, Step, Sup, Pcs

\* A step that only moves on within the tick: it leaves the engine alone, and
\* it does not end the tick, or leaves the replica torn.
LEMMA PcInv ==
  ASSUME SupInv, NEW r \in Replicas, NEW pc \in Pcs, StoreTypeOK',
         UNCHANGED <<desired_state, replica_override, proc, launched, live>>,
         sup' \in [Replicas -> Sup],
         sup'[r].pc = pc, sup'[r].target = sup[r].target,
         sup'[r].applied = sup[r].applied, sup'[r].cold_applied = sup[r].cold_applied,
         \A q \in Replicas \ {r} : sup'[q] = sup[q] /\ torn'[q] = torn[q]
                                   /\ replica_status'[q] = replica_status[q],
         torn' \in [Replicas -> BOOLEAN],
         pc \in {"idle", "no_override", "target"} => torn'[r],
         pc = "stop" /\ alive(r) => Differs(r),
         pc \in {"warm", "check", "hot", "answered"} => sup[r].target \in Versions,
         pc \in {"hot", "answered", "done"} => ~Differs(r),
         (pc = "answered" /\ sup'[r].ok) \/ (pc = "done" /\ sup[r].target # None)
           => \A k \in accepted(Target(r)) : live[r][k] = Norm[Target(r)[k]],
         pc = "done" /\ sup[r].target = None => torn'[r]
  PROVE  SupInv'
<1>1. TypeOK /\ ReplicaInv(r)
  BY DEF SupInv
<1>2. TypeOK'
  BY <1>1 DEF TypeOK
<1>3. /\ alive(r)' = alive(r) /\ Differs(r)' = Differs(r) /\ Target(r)' = Target(r)
      /\ \A p : At(r, p)' <=> pc = p
  BY DEF alive, Differs, Wanted, Target, At
<1>4. ColdKnown(r)'
  BY <1>1, <1>3 DEF ReplicaInv, ColdKnown, Pcs
<1>5. HotKnown(r)'
  BY <1>3 DEF HotKnown
<1>6. StillBuilt(r)'
  BY DEF StillBuilt, Quiet
<1>7. QED
  BY <1>2, <1>4, <1>5, <1>6, OneReplicaInv DEF ReplicaInv, Same

-----------------------------------------------------------------------------
(* The initial state. *)

LEMMA InitInv ==
  ASSUME Init
  PROVE  SupInv
<1>1. Started \in Sup
  BY StartedShape
<1>2. TypeOK
  <2>1. StoreTypeOK
    <3>1. NoOverride \in OverrideRow
      BY DEF NoOverride, OverrideRow, None
    <3>2. [applied_version_id |-> None, state |-> "absent"] \in StatusRow
      BY DEF StatusRow, None
    <3>3. <<>> \in Seq(CanaryRow) /\ None \in Nat
      BY DEF None
    <3>4. QED
      BY <3>1, <3>2, <3>3, HistoryAssumption DEF Init, StoreTypeOK
  <2>2. QED
    BY <1>1, <2>1, NoColdShape, EngineAssumption DEF Init, TypeOK
<1>3. TargetsKnown
  BY DEF Init, TargetsKnown, NoOverride
<1>4. ASSUME NEW r \in Replicas
      PROVE  ReplicaInv(r)
  <2>1. sup[r].pc = "idle" /\ ~alive(r)
    BY DEF Init, Started, alive
  <2>2. QED
    BY <2>1 DEF ReplicaInv, ColdKnown, HotKnown, StillBuilt, At
<1>5. QED
  BY <1>2, <1>3, <1>4 DEF SupInv

-----------------------------------------------------------------------------
(* The steps that only move on. *)

LEMMA MovesInv ==
  ASSUME SupInv, NEW r \in Replicas,
         BootBare(r) \/ SameCold(r) \/ WarmDone(r) \/ NoHot(r)
  PROVE  SupInv'
<1>1. TypeOK /\ ReplicaInv(r) /\ sup[r].target \in Versions \cup {None} /\ StoreTypeOK
  BY ReplicaShape DEF SupInv, TypeOK
<1>2. PICK pc \in {"boot", "refused", "hot", "done"} :
        /\ Step(r, pc)
        /\ pc \in {"hot", "done"} => ~Differs(r) /\ sup[r].target \in Versions
        /\ pc = "done" => HotPart(Target(r)) = {}
        /\ UNCHANGED <<storeVars, engineVars>>
  <2>1. CASE BootBare(r)
    BY <2>1 DEF BootBare
  <2>2. CASE SameCold(r)
    BY <1>1, <2>2 DEF SameCold, Acts
  <2>3. CASE WarmDone(r)
    BY <1>1, <2>3 DEF WarmDone, ReplicaInv, ColdKnown, At
  <2>4. CASE NoHot(r)
    BY <1>1, <2>4 DEF NoHot, ReplicaInv, ColdKnown, At
  <2>5. QED
    BY <2>1, <2>2, <2>3, <2>4
<1>3. pc \in Pcs /\ UNCHANGED <<storeVars, proc, launched, live, torn>>
  BY <1>2 DEF Pcs, engineVars
<1>4. /\ sup' \in [Replicas -> Sup]
      /\ sup'[r].pc = pc /\ sup'[r].target = sup[r].target
      /\ sup'[r].applied = sup[r].applied /\ sup'[r].cold_applied = sup[r].cold_applied
      /\ \A q \in Replicas \ {r} : sup'[q] = sup[q]
  BY <1>1, <1>2, <1>3, Stepped
<1>5. pc = "done" => accepted(Target(r)) = {}
  BY <1>2, FieldsShape DEF Target, HotPart
<1>6. StoreTypeOK' /\ torn' \in [Replicas -> BOOLEAN]
  BY <1>1, <1>3 DEF StoreTypeOK, storeVars, TypeOK
<1>7. pc = "done" => sup[r].target # None
  BY <1>2, FieldsShape
<1>8. QED
  BY <1>2, <1>3, <1>4, <1>5, <1>6, <1>7, PcInv DEF storeVars

\* Rows written on the way repeat the applied version.
LEMMA RowMovesInv ==
  ASSUME SupInv, NEW r \in Replicas,
         \/ StartWarm(r) \/ WarmRefused(r) \/ StartRelaunch(r)
         \/ ManifestRejects(r) \/ EngineAnswer(r)
  PROVE  SupInv'
<1>1. /\ TypeOK /\ ReplicaInv(r) /\ sup[r].target \in Versions \cup {None}
      /\ StoreTypeOK /\ Applied(r) \in Nat
  BY ReplicaShape DEF SupInv, TypeOK
<1>2. CASE EngineAnswer(r) /\ sup[r].ok
  <2>1. /\ Step(r, "done") /\ At(r, "answered") /\ "done" \in Pcs
        /\ UNCHANGED <<storeVars, proc, launched, live, torn>>
    BY <1>2 DEF EngineAnswer, Pcs
  <2>2. /\ sup' \in [Replicas -> Sup]
        /\ sup'[r].pc = "done" /\ sup'[r].target = sup[r].target
        /\ sup'[r].applied = sup[r].applied /\ sup'[r].cold_applied = sup[r].cold_applied
        /\ \A q \in Replicas \ {r} : sup'[q] = sup[q]
    BY <1>1, <2>1, Stepped
  <2>3. /\ sup[r].target \in Versions /\ ~Differs(r)
        /\ \A k \in accepted(Target(r)) : live[r][k] = Norm[Target(r)[k]]
    BY <1>1, <1>2, <2>1 DEF ReplicaInv, ColdKnown, HotKnown, At
  <2>4. sup[r].target # None /\ StoreTypeOK' /\ torn' \in [Replicas -> BOOLEAN]
    BY <1>1, <2>1, <2>3, FieldsShape DEF StoreTypeOK, storeVars, TypeOK
  <2>5. QED
    BY <2>1, <2>2, <2>3, <2>4, PcInv DEF storeVars
<1>3. CASE ~(EngineAnswer(r) /\ sup[r].ok)
  <2>1. PICK pc \in {"warm", "check", "stop", "idle"}, st \in {"reinit", "failed"} :
          /\ Step(r, pc)
          /\ record_status(r, Applied(r), st)
          /\ pc \in {"warm", "check"} => sup[r].target \in Versions
          /\ pc = "stop" /\ alive(r) => Differs(r)
          /\ IF pc = "idle" THEN torn' = [torn EXCEPT ![r] = TRUE] ELSE torn' = torn
          /\ UNCHANGED <<proc, launched, live>>
    <3>1. CASE StartWarm(r)
      BY <1>1, <3>1 DEF StartWarm, Acts, engineVars
    <3>2. CASE WarmRefused(r)
      BY <1>1, <3>2 DEF WarmRefused, ReplicaInv, ColdKnown, At, engineVars
    <3>3. CASE StartRelaunch(r)
      BY <3>3 DEF StartRelaunch, engineVars
    <3>4. CASE ManifestRejects(r)
      BY <3>4 DEF ManifestRejects
    <3>5. CASE EngineAnswer(r)
      BY <1>3, <3>5 DEF EngineAnswer
    <3>6. QED
      BY <3>1, <3>2, <3>3, <3>4, <3>5
  <2>2. /\ StoreTypeOK' /\ UNCHANGED <<desired_state, replica_override>>
        /\ \A q \in Replicas \ {r} : replica_status'[q] = replica_status[q]
    BY <1>1, <2>1, Recorded
  <2>3. pc \in Pcs
    BY DEF Pcs
  <2>4. /\ sup' \in [Replicas -> Sup]
        /\ sup'[r].pc = pc /\ sup'[r].target = sup[r].target
        /\ sup'[r].applied = sup[r].applied /\ sup'[r].cold_applied = sup[r].cold_applied
        /\ \A q \in Replicas \ {r} : sup'[q] = sup[q]
    BY <1>1, <2>1, <2>3, Stepped
  <2>5. /\ torn' \in [Replicas -> BOOLEAN] /\ (pc = "idle" => torn'[r])
        /\ \A q \in Replicas \ {r} : torn'[q] = torn[q]
    BY <1>1, <2>1 DEF TypeOK
  <2>6. QED
    BY <2>1, <2>2, <2>3, <2>4, <2>5, PcInv
<1>4. QED
  BY <1>2, <1>3

\* A tick starts by reading its target, or ends with a heartbeat: what was
\* built is still there.
LEMMA ReadTargetInv ==
  ASSUME SupInv, NEW r \in Replicas, ReadOverride(r) \/ ReadDesired(r)
  PROVE  SupInv'
<1>1. PICK v \in Versions \cup {None}, pc \in {"target", "no_override"} :
        /\ sup' = [sup EXCEPT ![r].pc = pc, ![r].target = v]
        /\ Quiet(r)
        /\ UNCHANGED <<storeVars, engineVars>>
  <2>1. GroupOf[r] \in Groups
    BY GroupOfAssumption
  <2>2. CASE ReadOverride(r)
    BY <2>2 DEF ReadOverride, SupInv, TargetsKnown, At, Quiet
  <2>3. CASE ReadDesired(r)
    <3>1. sup' = [sup EXCEPT ![r].pc = "target", ![r].target = desired_state[GroupOf[r]]]
      BY <2>3 DEF ReadDesired, desired
    <3>2. QED
      BY <2>1, <2>3, <3>1 DEF ReadDesired, SupInv, TargetsKnown, At, Quiet
  <2>4. QED
    BY <2>2, <2>3
<1>2. /\ sup' \in [Replicas -> Sup]
      /\ sup'[r].pc = pc /\ sup'[r].applied = sup[r].applied
      /\ sup'[r].cold_applied = sup[r].cold_applied
      /\ \A q \in Replicas \ {r} : sup'[q] = sup[q]
  <2>1. sup[r] \in Sup /\ sup \in [Replicas -> Sup]
    BY DEF SupInv, TypeOK
  <2>2. PICK d : d = [sup[r] EXCEPT !.pc = pc, !.target = v]
    OBVIOUS
  <2>3. /\ d \in Sup /\ d.pc = pc
        /\ d.applied = sup[r].applied /\ d.cold_applied = sup[r].cold_applied
    BY <1>1, <2>1, <2>2 DEF Sup
  <2>4. sup' = [sup EXCEPT ![r] = d]
    BY <1>1, <2>1, <2>2
  <2>5. QED
    BY <2>1, <2>3, <2>4
<1>3. TypeOK'
  BY <1>1, <1>2 DEF SupInv, TypeOK, StoreTypeOK, storeVars, engineVars
<1>4. ReplicaInv(r)
  BY DEF SupInv
<1>5. ColdKnown(r)'
  BY <1>1, <1>2, <1>4 DEF ReplicaInv, ColdKnown, At, alive, engineVars
<1>6. HotKnown(r)'
  BY <1>2 DEF HotKnown, At
<1>7. StillBuilt(r)'
  BY <1>1, <1>2, <1>4
     DEF ReplicaInv, StillBuilt, Applied, Built, alive, engineVars, storeVars
<1>8. QED
  BY <1>1, <1>2, <1>3, <1>5, <1>6, <1>7, OneReplicaInv
     DEF ReplicaInv, Same, storeVars, engineVars

LEMMA HeartbeatInv ==
  ASSUME SupInv, NEW r \in Replicas, Heartbeat(r)
  PROVE  SupInv'
<1>0. PICK v : v = sup[r].target
  OBVIOUS
<1>1. /\ TypeOK /\ ReplicaInv(r) /\ v \in Nat
      /\ Quiet(r) /\ v \in {None, Applied(r)}
      /\ record_status(r, v, "healthy") /\ Step(r, "idle")
      /\ UNCHANGED <<proc, launched, live, torn>>
  BY <1>0, ReplicaShape DEF SupInv, Heartbeat, Quiet, At, engineVars
<1>2. /\ StoreTypeOK' /\ UNCHANGED <<desired_state, replica_override>>
      /\ replica_status'[r] = [applied_version_id |-> v, state |-> "healthy"]
      /\ \A q \in Replicas \ {r} : replica_status'[q] = replica_status[q]
  BY <1>1, Recorded
<1>3. /\ sup' \in [Replicas -> Sup]
      /\ sup'[r].pc = "idle" /\ sup'[r].applied = sup[r].applied
      /\ sup'[r].cold_applied = sup[r].cold_applied
      /\ \A q \in Replicas \ {r} : sup'[q] = sup[q]
  <2>1. "idle" \in Pcs
    BY DEF Pcs
  <2>2. QED
    BY <1>1, <2>1, Stepped
<1>4. TypeOK'
  BY <1>1, <1>2, <1>3 DEF TypeOK
<1>5. ColdKnown(r)'
  BY <1>1, <1>3 DEF ReplicaInv, ColdKnown, At, alive
<1>6. HotKnown(r)'
  BY <1>3 DEF HotKnown, At
<1>7. StillBuilt(r)'
  <2>1. \A w \in Versions : w # None
    BY FieldsShape
  <2>2. \A w \in Versions :
          replica_status'[r] = [applied_version_id |-> w, state |-> "healthy"]
            => w = Applied(r)
    BY <1>1, <1>2, <2>1
  <2>3. Applied(r)' = Applied(r) /\ alive(r)' = alive(r)
        /\ \A w : Built(r, w)' <=> Built(r, w)
    BY <1>1, <1>3 DEF Applied, alive, Built
  <2>4. QED
    BY <1>1, <2>2, <2>3 DEF ReplicaInv, StillBuilt
<1>8. QED
  BY <1>1, <1>2, <1>3, <1>4, <1>5, <1>6, <1>7, OneReplicaInv DEF ReplicaInv, Same

-----------------------------------------------------------------------------
(* The steps that change the engine. *)

\* A rebuilt engine, in place or launched, is the one cold_applied says.
LEMMA RebuiltInv ==
  ASSUME SupInv, NEW r \in Replicas, WarmOk(r) \/ Booted(r)
  PROVE  SupInv'
<1>0. PICK c : c = Wanted(r)
  OBVIOUS
<1>1. /\ TypeOK /\ ReplicaInv(r) /\ c \in ColdParts
      /\ sup[r].target \in Versions \cup {None}
  BY <1>0, ReplicaShape DEF SupInv
<1>2. PICK pc \in {"check", "hot", "done"} :
        /\ sup' = [sup EXCEPT ![r].pc = pc, ![r].cold_applied = c]
        /\ launched' = [launched EXCEPT ![r] = c]
        /\ live' = [live EXCEPT ![r] = Boot]
        /\ \A q \in Replicas \ {r} : proc'[q] = proc[q] /\ torn'[q] = torn[q]
        /\ proc' \in [Replicas -> {"none", "up", "dead"}] /\ torn' \in [Replicas -> BOOLEAN]
        /\ pc # "done" => sup[r].target \in Versions
        /\ pc = "done" => sup[r].target = None /\ torn'[r]
        /\ UNCHANGED storeVars
  <2>1. CASE WarmOk(r)
    BY <1>0, <1>1, <2>1 DEF WarmOk, TypeOK, ReplicaInv, ColdKnown, At
  <2>2. CASE Booted(r)
    <3>1. PICK pc : pc = IF sup[r].target = None THEN "done" ELSE "hot"
      OBVIOUS
    <3>2. /\ sup' = [sup EXCEPT ![r].pc = pc, ![r].cold_applied = c]
          /\ launched' = [launched EXCEPT ![r] = c]
          /\ live' = [live EXCEPT ![r] = Boot]
          /\ proc' = [proc EXCEPT ![r] = "up"]
          /\ torn' = [torn EXCEPT ![r] = torn[r] \/ sup[r].target = None]
          /\ UNCHANGED storeVars
      <4>1. sup' = [sup EXCEPT ![r].cold_applied = c, ![r].pc = pc]
        BY <1>0, <2>2, <3>1 DEF Booted
      <4>2. sup[r] \in Sup /\ sup \in [Replicas -> Sup]
        BY <1>1 DEF TypeOK
      <4>3. [sup EXCEPT ![r].cold_applied = c, ![r].pc = pc]
              = [sup EXCEPT ![r].pc = pc, ![r].cold_applied = c]
        BY <4>2 DEF Sup
      <4>4. QED
        BY <1>0, <2>2, <4>1, <4>3 DEF Booted
    <3>3. /\ proc' \in [Replicas -> {"none", "up", "dead"}] /\ torn' \in [Replicas -> BOOLEAN]
          /\ torn'[r] = (torn[r] \/ sup[r].target = None)
          /\ \A q \in Replicas \ {r} : proc'[q] = proc[q] /\ torn'[q] = torn[q]
      BY <1>1, <3>2 DEF TypeOK
    <3>4. QED
      BY <1>1, <3>1, <3>2, <3>3
  <2>3. QED
    BY <2>1, <2>2
<1>3. /\ sup' \in [Replicas -> Sup]
      /\ sup'[r].pc = pc /\ sup'[r].cold_applied = c
      /\ sup'[r].target = sup[r].target
      /\ \A q \in Replicas \ {r} : sup'[q] = sup[q]
  <2>1. sup[r] \in Sup /\ sup \in [Replicas -> Sup]
    BY <1>1 DEF TypeOK
  <2>2. PICK d : d = [sup[r] EXCEPT !.pc = pc, !.cold_applied = c]
    OBVIOUS
  <2>3. /\ d \in Sup /\ d.pc = pc /\ d.cold_applied = c
        /\ d.target = sup[r].target
    BY <1>1, <2>1, <2>2 DEF Sup
  <2>4. sup' = [sup EXCEPT ![r] = d]
    BY <1>2, <2>1, <2>2
  <2>5. QED
    BY <2>1, <2>3, <2>4
<1>4. /\ launched' \in [Replicas -> ColdParts] /\ launched'[r] = c
      /\ live' \in [Replicas -> [Knobs -> Values]]
      /\ \A q \in Replicas \ {r} : launched'[q] = launched[q] /\ live'[q] = live[q]
  BY <1>1, <1>2, EngineAssumption DEF TypeOK
<1>5. TypeOK'
  BY <1>1, <1>2, <1>3, <1>4 DEF TypeOK, StoreTypeOK, storeVars
<1>6. ~Differs(r)'
  BY <1>0, <1>3 DEF Differs, Wanted, Target
<1>7. ColdKnown(r)'
  BY <1>2, <1>3, <1>4, <1>6 DEF ColdKnown, At
<1>8. HotKnown(r)'
  BY <1>2, <1>3 DEF HotKnown, At
<1>9. StillBuilt(r)'
  BY <1>3 DEF StillBuilt, Quiet
<1>10. QED
  BY <1>2, <1>3, <1>4, <1>5, <1>7, <1>8, <1>9, OneReplicaInv DEF ReplicaInv, Same, storeVars

LEMMA SetHotInv ==
  ASSUME SupInv, NEW r \in Replicas, SetHot(r)
  PROVE  SupInv'
<1>0. PICK now, ok : /\ now = after(live[r], Target(r))
                     /\ ok = (taken(Target(r)) = accepted(Target(r))
                               /\ (ComparesLive => confirmed(now, Target(r))))
  OBVIOUS
<1>1. /\ TypeOK /\ ReplicaInv(r) /\ live[r] \in [Knobs -> Values]
      /\ sup[r].target \in Versions /\ At(r, "hot") /\ ~Differs(r)
  BY ReplicaShape DEF SupInv, ReplicaInv, ColdKnown, SetHot, At
<1>2. /\ live' = [live EXCEPT ![r] = now]
      /\ sup' = [sup EXCEPT ![r].pc = "answered", ![r].ok = ok]
      /\ UNCHANGED <<storeVars, proc, launched, torn>>
  BY <1>0 DEF SetHot
<1>3. /\ now \in [Knobs -> Values] /\ ok \in BOOLEAN
      /\ ok => \A k \in accepted(Target(r)) : now[k] = Norm[Target(r)[k]]
  <2>1. ok \in BOOLEAN
    BY <1>0
  <2>2. /\ now \in [Knobs -> Values]
        /\ \A k \in taken(Target(r)) : now[k] = Norm[Target(r)[k]]
    BY <1>0, <1>1, AfterShape DEF Target
  <2>3. ok => taken(Target(r)) = accepted(Target(r))
    BY <1>0
  <2>4. QED
    BY <2>1, <2>2, <2>3
<1>4. /\ sup' \in [Replicas -> Sup]
      /\ sup'[r].pc = "answered" /\ sup'[r].ok = ok
      /\ sup'[r].target = sup[r].target /\ sup'[r].cold_applied = sup[r].cold_applied
      /\ \A q \in Replicas \ {r} : sup'[q] = sup[q]
  <2>1. sup[r] \in Sup /\ sup \in [Replicas -> Sup]
    BY <1>1 DEF TypeOK
  <2>2. PICK d : d = [sup[r] EXCEPT !.pc = "answered", !.ok = ok]
    OBVIOUS
  <2>3. /\ d \in Sup /\ d.pc = "answered" /\ d.ok = ok
        /\ d.target = sup[r].target /\ d.cold_applied = sup[r].cold_applied
    BY <1>3, <2>1, <2>2 DEF Sup
  <2>4. sup' = [sup EXCEPT ![r] = d]
    BY <1>2, <2>1, <2>2
  <2>5. QED
    BY <2>1, <2>3, <2>4
<1>5. /\ live' \in [Replicas -> [Knobs -> Values]] /\ live'[r] = now
      /\ \A q \in Replicas \ {r} : live'[q] = live[q]
  BY <1>1, <1>2, <1>3 DEF TypeOK
<1>6. TypeOK'
  BY <1>1, <1>2, <1>4, <1>5 DEF TypeOK, StoreTypeOK, storeVars
<1>7. Differs(r)' = Differs(r) /\ alive(r)' = alive(r) /\ Target(r)' = Target(r)
  BY <1>2, <1>4 DEF Differs, Wanted, Target, alive
<1>8. ColdKnown(r)'
  BY <1>1, <1>2, <1>4, <1>7 DEF ReplicaInv, ColdKnown, At
<1>9. HotKnown(r)'
  BY <1>3, <1>4, <1>5, <1>7 DEF HotKnown, At
<1>10. StillBuilt(r)'
  BY <1>4 DEF StillBuilt, Quiet
<1>11. QED
  BY <1>2, <1>4, <1>5, <1>6, <1>8, <1>9, <1>10, OneReplicaInv DEF ReplicaInv, Same, storeVars

\* A stopped or dead engine is nobody's, and is not looked at.
LEMMA NotAliveInv ==
  ASSUME SupInv, NEW r \in Replicas,
         Stop(r) \/ Raise(r) \/ EngineDies(r)
  PROVE  SupInv'
<1>1. TypeOK /\ ReplicaInv(r)
  BY DEF SupInv
<1>2. /\ proc' \in [Replicas -> {"none", "up", "dead"}] /\ ~alive(r)'
      /\ \A q \in Replicas \ {r} : proc'[q] = proc[q]
      /\ UNCHANGED <<storeVars, launched, live, torn>>
  BY <1>1 DEF Stop, Raise, EngineDies, alive, TypeOK
<1>3. StillBuilt(r)'
  BY <1>2 DEF StillBuilt
<1>4. CASE EngineDies(r)
  <2>1. sup' = sup
    BY <1>4 DEF EngineDies
  <2>2. TypeOK'
    BY <1>1, <1>2, <2>1 DEF TypeOK, StoreTypeOK, storeVars
  <2>3. ColdKnown(r)' /\ HotKnown(r)'
    BY <1>1, <1>2, <2>1
       DEF ReplicaInv, ColdKnown, HotKnown, At, Differs, Wanted, Target
  <2>4. QED
    BY <1>2, <1>3, <2>1, <2>2, <2>3, OneReplicaInv DEF ReplicaInv, Same, storeVars
<1>5. CASE Stop(r) \/ Raise(r)
  <2>1. /\ sup' \in [Replicas -> Sup]
        /\ sup'[r].pc \in {"boot", "refused", "down"}
        /\ \A q \in Replicas \ {r} : sup'[q] = sup[q]
    <3>1. CASE Stop(r)
      <4>1. PICK pc \in {"boot", "refused"} : Step(r, pc)
        BY <3>1 DEF Stop
      <4>2. pc \in Pcs
        BY DEF Pcs
      <4>3. QED
        BY <1>1, <4>1, <4>2, Stepped
    <3>2. CASE Raise(r)
      <4>1. PICK d : d = [Started EXCEPT !.pc = "down"]
        OBVIOUS
      <4>2. d \in Sup /\ d.pc = "down"
        BY <4>1, StartedShape DEF Sup
      <4>3. sup' = [sup EXCEPT ![r] = d]
        BY <3>2, <4>1 DEF Raise
      <4>4. QED
        BY <1>1, <4>2, <4>3 DEF TypeOK
    <3>3. QED
      BY <1>5, <3>1, <3>2
  <2>2. TypeOK'
    BY <1>1, <1>2, <2>1 DEF TypeOK, StoreTypeOK, storeVars
  <2>3. ColdKnown(r)' /\ HotKnown(r)'
    BY <1>2, <2>1 DEF ColdKnown, HotKnown, At
  <2>4. QED
    BY <1>2, <1>3, <2>1, <2>2, <2>3, OneReplicaInv DEF ReplicaInv, Same, storeVars
<1>6. QED
  BY <1>4, <1>5

\* The completed tick: the engine was built for the version and holds its hot
\* part, or there was no version and the replica is torn.
LEMMA MarkAppliedInv ==
  ASSUME SupInv, NEW r \in Replicas, MarkApplied(r)
  PROVE  SupInv'
<1>0. PICK v, a : v = sup[r].target /\ a = IF v = None THEN sup[r].applied ELSE v
  OBVIOUS
<1>1. /\ TypeOK /\ ReplicaInv(r) /\ v \in Nat /\ v \in Versions \cup {None}
      /\ a \in Versions \cup {None}
      /\ At(r, "done") /\ ~Differs(r) /\ (v = None => torn[r])
  BY <1>0, ReplicaShape DEF SupInv, ReplicaInv, ColdKnown, HotKnown, MarkApplied, At
<1>2. /\ record_status(r, v, "healthy")
      /\ sup' = [sup EXCEPT ![r].pc = "idle", ![r].applied = a]
      /\ torn' = [torn EXCEPT ![r] = torn[r] /\ v = None]
      /\ UNCHANGED <<proc, launched, live>>
  BY <1>0, <1>1 DEF MarkApplied, TypeOK, Sup
<1>3. /\ StoreTypeOK' /\ UNCHANGED <<desired_state, replica_override>>
      /\ replica_status'[r] = [applied_version_id |-> v, state |-> "healthy"]
      /\ \A q \in Replicas \ {r} : replica_status'[q] = replica_status[q]
  BY <1>1, <1>2, Recorded
<1>4. /\ sup' \in [Replicas -> Sup]
      /\ sup'[r].pc = "idle" /\ sup'[r].applied = a
      /\ sup'[r].cold_applied = sup[r].cold_applied
      /\ \A q \in Replicas \ {r} : sup'[q] = sup[q]
  <2>1. sup[r] \in Sup /\ sup \in [Replicas -> Sup]
    BY <1>1 DEF TypeOK
  <2>2. PICK d : d = [sup[r] EXCEPT !.pc = "idle", !.applied = a]
    OBVIOUS
  <2>3. /\ d \in Sup /\ d.pc = "idle" /\ d.applied = a
        /\ d.cold_applied = sup[r].cold_applied
    BY <1>1, <2>1, <2>2 DEF Sup
  <2>4. sup' = [sup EXCEPT ![r] = d]
    BY <1>2, <2>1, <2>2
  <2>5. QED
    BY <2>1, <2>3, <2>4
<1>5. /\ torn' \in [Replicas -> BOOLEAN] /\ torn'[r] = (torn[r] /\ v = None)
      /\ \A q \in Replicas \ {r} : torn'[q] = torn[q]
  BY <1>1, <1>2 DEF TypeOK
<1>6. TypeOK'
  BY <1>1, <1>2, <1>3, <1>4, <1>5 DEF TypeOK
<1>7. ColdKnown(r)'
  BY <1>1, <1>2, <1>4 DEF ReplicaInv, ColdKnown, At, alive
<1>8. HotKnown(r)'
  BY <1>4 DEF HotKnown, At
<1>9. StillBuilt(r)'
  <2>1. v # None /\ alive(r) => Built(r, v)
    BY <1>0, <1>1 DEF ReplicaInv, ColdKnown, HotKnown, Built, Differs, Wanted, Target
  <2>2. alive(r)' = alive(r) /\ \A w : Built(r, w)' <=> Built(r, w)
    BY <1>2 DEF alive, Built
  <2>3. ~torn[r]' => v # None /\ Applied(r)' = v
    BY <1>0, <1>1, <1>4, <1>5 DEF Applied
  <2>4. \A w : replica_status'[r] = [applied_version_id |-> w, state |-> "healthy"] => w = v
    BY <1>3
  <2>5. QED
    BY <2>1, <2>2, <2>3, <2>4 DEF StillBuilt
<1>10. QED
  BY <1>2, <1>3, <1>4, <1>5, <1>6, <1>7, <1>8, <1>9, OneReplicaInv DEF ReplicaInv, Same

-----------------------------------------------------------------------------
(* The processes and everyone else. *)

\* A new supervisor has no engine: the old one's was stopped with it.
LEMMA RestartInv ==
  ASSUME SupInv, NEW r \in Replicas, Restart(r)
  PROVE  SupInv'
<1>1. /\ TypeOK /\ ~alive(r)
      /\ sup' = [sup EXCEPT ![r] = Started]
      /\ UNCHANGED <<storeVars, proc, launched, live, torn>>
  BY DEF SupInv, ReplicaInv, ColdKnown, Restart, engineVars
<1>2. /\ sup' \in [Replicas -> Sup] /\ sup'[r] = Started
      /\ \A q \in Replicas \ {r} : sup'[q] = sup[q]
  BY <1>1, StartedShape DEF TypeOK
<1>3. TypeOK'
  BY <1>1, <1>2 DEF TypeOK, StoreTypeOK, storeVars
<1>4. ~alive(r)' /\ sup'[r].pc = "idle"
  BY <1>1, <1>2 DEF alive, Started
<1>5. ColdKnown(r)' /\ HotKnown(r)' /\ StillBuilt(r)'
  BY <1>4 DEF ColdKnown, HotKnown, StillBuilt, At
<1>6. QED
  BY <1>1, <1>2, <1>3, <1>5, OneReplicaInv DEF ReplicaInv, Same, storeVars

\* The store moves on; a supervisor notices when it reads.
LEMMA TargetMovesInv ==
  ASSUME SupInv,
         \/ \E g \in Groups, v \in Versions : Promote(g, v)
         \/ \E r \in Replicas, v \in NamedVersions : Override(r, v)
         \/ ClearOverrides
  PROVE  SupInv'
<1>1. /\ UNCHANGED <<config_version, canary, replica_status, sup, proc, launched, live, torn>>
      /\ \A v \in Versions : v \in Nat
      /\ TypeOK /\ TargetsKnown
  BY FieldsShape DEF Promote, Override, ClearOverrides, promote, set_overrides, clear_overrides,
                     SupInv, engineVars
<1>2. /\ desired_state' \in [Groups -> Nat]
      /\ \A g \in Groups : desired_state'[g] \in Versions \cup {None}
  BY <1>1 DEF Promote, Override, ClearOverrides, promote, set_overrides, clear_overrides,
              TypeOK, StoreTypeOK, TargetsKnown
<1>3. replica_override' \in [Replicas -> OverrideRow]
  <2>1. NoOverride \in OverrideRow
    BY DEF NoOverride, OverrideRow, None
  <2>2. \A v \in NamedVersions : [version_id |-> v, canary_id |-> 1] \in OverrideRow
    BY DEF NamedVersions, OverrideRow
  <2>3. CASE \E g \in Groups, v \in Versions : Promote(g, v)
    BY <1>1, <2>3 DEF Promote, promote, TypeOK, StoreTypeOK
  <2>4. CASE \E r \in Replicas, v \in NamedVersions : Override(r, v)
    BY <1>1, <2>2, <2>4 DEF Override, set_overrides, TypeOK, StoreTypeOK
  <2>5. CASE ClearOverrides
    BY <1>1, <2>1, <2>5 DEF ClearOverrides, clear_overrides, TypeOK, StoreTypeOK
  <2>6. QED
    BY <2>3, <2>4, <2>5
<1>4. TypeOK' /\ TargetsKnown'
  BY <1>1, <1>2, <1>3 DEF TypeOK, StoreTypeOK, TargetsKnown
<1>5. \A q \in Replicas : ReplicaInv(q)'
  BY <1>1, SameInv DEF SupInv, Same
<1>6. QED
  BY <1>4, <1>5 DEF SupInv

LEMMA StutterInv ==
  ASSUME SupInv, UNCHANGED vars
  PROVE  SupInv'
<1>1. TypeOK' /\ TargetsKnown'
  BY DEF SupInv, vars, storeVars, TypeOK, StoreTypeOK, TargetsKnown
<1>2. \A q \in Replicas : ReplicaInv(q)'
  BY SameInv DEF SupInv, Same, vars, storeVars
<1>3. QED
  BY <1>1, <1>2 DEF SupInv

LEMMA NextInv ==
  ASSUME SupInv, [Next]_vars
  PROVE  SupInv'
<1>1. ASSUME NEW r \in Replicas, Tick(r)
      PROVE  SupInv'
  BY <1>1, ReadTargetInv, HeartbeatInv, MovesInv, RowMovesInv, RebuiltInv, SetHotInv,
     NotAliveInv, MarkAppliedInv DEF Tick
<1>2. ASSUME NEW r \in Replicas, Raise(r) \/ Restart(r) \/ EngineDies(r)
      PROVE  SupInv'
  BY <1>2, NotAliveInv, RestartInv
<1>3. CASE \/ \E g \in Groups, v \in Versions : Promote(g, v)
           \/ \E r \in Replicas, v \in NamedVersions : Override(r, v)
           \/ ClearOverrides
  BY <1>3, TargetMovesInv
<1>4. CASE UNCHANGED vars
  BY <1>4, StutterInv
<1>5. QED
  BY <1>1, <1>2, <1>3, <1>4 DEF Next

-----------------------------------------------------------------------------
(* A running engine goes away in Stop, in a failure, or on its own. *)

LEMMA StopsForCold ==
  ASSUME SupInv, Next, NEW r \in Replicas,
         alive(r), proc'[r] = "none", sup'[r].pc # "down"
  PROVE  Wanted(r) # launched[r]
<1>1. TypeOK /\ ReplicaInv(r) /\ proc \in [Replicas -> {"none", "up", "dead"}]
      /\ proc[r] = "up"
  BY DEF SupInv, TypeOK, alive
<1>2. ASSUME NEW q \in Replicas, Stop(q)
      PROVE  q = r /\ At(r, "stop")
  BY <1>1, <1>2 DEF Stop
<1>3. ASSUME NEW q \in Replicas, Tick(q)
      PROVE  Stop(q)
  BY <1>1, <1>3
     DEF Tick, ReadOverride, ReadDesired, Heartbeat, BootBare, SameCold, StartWarm, WarmOk,
         WarmRefused, WarmDone, StartRelaunch, Booted, NoHot, ManifestRejects, SetHot,
         EngineAnswer, MarkApplied, engineVars
<1>4. ASSUME NEW q \in Replicas, Raise(q)
      PROVE  FALSE
  <2>1. q = r
    BY <1>1, <1>4 DEF Raise
  <2>2. sup \in [Replicas -> Sup] /\ [Started EXCEPT !.pc = "down"].pc = "down"
    BY <1>1 DEF TypeOK, Started
  <2>3. QED
    BY <1>4, <2>1, <2>2 DEF Raise
<1>5. ASSUME NEW q \in Replicas,
             \/ Restart(q) \/ EngineDies(q) \/ \E v \in NamedVersions : Override(q, v)
      PROVE  FALSE
  BY <1>1, <1>5 DEF Restart, EngineDies, Override, engineVars
<1>6. ASSUME (\E g \in Groups, v \in Versions : Promote(g, v)) \/ ClearOverrides
      PROVE  FALSE
  BY <1>1, <1>6 DEF Promote, ClearOverrides, engineVars
<1>7. ASSUME NEW q \in Replicas, Tick(q)
      PROVE  At(r, "stop")
  BY <1>2, <1>3, <1>7
<1>8. At(r, "stop")
  <2>1. CASE \E q \in Replicas : Tick(q)
    BY <1>7, <2>1
  <2>2. CASE \E q \in Replicas : Raise(q)
    BY <1>4, <2>2
  <2>3. CASE \E q \in Replicas :
               Restart(q) \/ EngineDies(q) \/ \E v \in NamedVersions : Override(q, v)
    BY <1>5, <2>3
  <2>4. QED
    BY <1>6, <2>1, <2>2, <2>3 DEF Next
<1>9. QED
  BY <1>1, <1>8 DEF ReplicaInv, ColdKnown, Differs

-----------------------------------------------------------------------------
(* Theorems. *)

\* The strengthened invariant: what the engine is, and what is left to do, at
\* each place of a tick.
THEOREM SupInductive == Spec => []SupInv
<1>1. Init => SupInv
  BY InitInv
<1>2. SupInv /\ [Next]_vars => SupInv'
  BY NextInv
<1>3. QED
  BY <1>1, <1>2, PTL DEF Spec

\* The tables, the supervisors' local values and the engines keep their shape.
THEOREM SupTypeCorrect == Spec => []TypeOK
<1>1. SupInv => TypeOK
  BY DEF SupInv
<1>2. QED
  BY <1>1, SupInductive, PTL

\* Between two ticks a row that says healthy at a version has a running engine
\* built for it and holding its hot part (Supervisor.tick).
THEOREM SupervisedEnginesAreLive == Spec => []SupervisedIsLive
<1>1. SupInv => SupervisedIsLive
  BY DEF SupInv, ReplicaInv, StillBuilt, SupervisedIsLive, HealthyAt, Quiet, At
<1>2. QED
  BY <1>1, SupInductive, PTL

\* A tick stops a running engine only for a cold part that it was not built
\* with (Supervisor.tick, stop).
THEOREM StoppedForColdOnly == Spec => OnlyColdRelaunches
<1>1. SupInv /\ [Next]_vars =>
        [\A r \in Replicas :
           alive(r) /\ proc'[r] = "none" /\ sup'[r].pc # "down"
             => Wanted(r) # launched[r]]_vars
  BY StopsForCold
<1>2. QED
  BY <1>1, SupInductive, PTL DEF Spec, OnlyColdRelaunches
=============================================================================
