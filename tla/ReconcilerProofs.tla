-------------------------- MODULE ReconcilerProofs --------------------------
(***************************************************************************)
(* Proofs that a replica's status row tells the truth about its engine,    *)
(* for every set of replicas, history of versions, manifest and engine,    *)
(* with other clients, crashes and restarts at any step.                   *)
(***************************************************************************)
EXTENDS Reconciler, TLAPS

-----------------------------------------------------------------------------
(* Versions and their fields. *)

LEMMA FieldsShape ==
  ASSUME NEW v \in Versions
  PROVE  /\ v # None /\ v \in Nat
         /\ DOMAIN FieldsOf(v) \subseteq Knobs
         /\ \A k \in DOMAIN FieldsOf(v) : FieldsOf(v)[k] \in Values
         /\ accepted(FieldsOf(v)) \subseteq DOMAIN FieldsOf(v)
         /\ taken(FieldsOf(v)) \subseteq accepted(FieldsOf(v))
<1>1. v \in Nat /\ v # None
  BY HistoryAssumption DEF Versions, None
<1>2. FieldsOf(v) \in Fields
  <2>1. History \in Seq(VersionRow) /\ v \in 1 .. Len(History)
    BY HistoryAssumption DEF Versions
  <2>2. History[v] \in VersionRow
    BY <2>1
  <2>3. QED
    BY <2>2 DEF FieldsOf, VersionRow
<1>3. QED
  BY <1>1, <1>2, HistoryAssumption DEF accepted, taken

LEMMA AcceptableIsTaken ==
  ASSUME NEW v, Acceptable(v)
  PROVE  taken(FieldsOf(v)) = accepted(FieldsOf(v))
BY DEF Acceptable

\* What the engine holds after a push.
LEMMA AfterShape ==
  ASSUME NEW v \in Versions, NEW live \in [Knobs -> Values]
  PROVE  /\ after(live, FieldsOf(v)) \in [Knobs -> Values]
         /\ \A k \in taken(FieldsOf(v)) :
              k \in Knobs /\ after(live, FieldsOf(v))[k] = Norm[FieldsOf(v)[k]]
         /\ \A k \in Knobs \ taken(FieldsOf(v)) : after(live, FieldsOf(v))[k] = live[k]
<1>1. \A k \in taken(FieldsOf(v)) : k \in Knobs /\ FieldsOf(v)[k] \in Values
  BY FieldsShape
<1>2. \A k \in taken(FieldsOf(v)) : Norm[FieldsOf(v)[k]] \in Values
  BY <1>1, EngineAssumption
<1>3. QED
  BY <1>1, <1>2 DEF after

-----------------------------------------------------------------------------
(* A step of one replica. *)

\* Everything the invariant says of replica q is the same after the step.
Same(q) ==
  /\ daemon'[q] = daemon[q] /\ engine'[q] = engine[q] /\ drift'[q] = drift[q]
  /\ torn'[q] = torn[q] /\ replica_status'[q] = replica_status[q]

LEMMA SameInv ==
  ASSUME NEW q \in Replicas, ReplicaInv(q), Same(q)
  PROVE  ReplicaInv(q)'
<1>1. Backed(q)'
  BY DEF ReplicaInv, Same, Backed, Applied, At, Pushed, Target
<1>2. PushGuarded(q)'
  BY DEF ReplicaInv, Same, PushGuarded, Pushing, Pushed, Target
<1>3. AppliedIsLive(q)'
  BY DEF ReplicaInv, Same, AppliedIsLive, Applied, Holds, Pushed, Target
<1>4. RowIsLive(q)'
  BY DEF ReplicaInv, Same, RowIsLive, HealthyAt, Holds
<1>5. QED
  BY <1>1, <1>2, <1>3, <1>4 DEF ReplicaInv

LEMMA OneReplicaInv ==
  ASSUME RecInv, NEW r \in Replicas, TypeOK', ReplicaInv(r)',
         UNCHANGED <<desired_state, replica_override>>,
         \A q \in Replicas \ {r} : Same(q)
  PROVE  RecInv'
<1>1. TargetsKnown'
  BY DEF RecInv, TargetsKnown
<1>2. \A q \in Replicas : ReplicaInv(q)'
  BY SameInv DEF RecInv
<1>3. QED
  BY <1>1, <1>2 DEF RecInv

LEMMA ReplicaShape ==
  ASSUME TypeOK, NEW r \in Replicas
  PROVE  /\ daemon[r] \in Daemon /\ engine[r] \in [Knobs -> Values]
         /\ drift[r] \in SUBSET Knobs /\ torn[r] \in SUBSET Knobs
         /\ replica_status[r] \in StatusRow
         /\ daemon[r].target \in Versions \cup {None} /\ daemon[r].applied \in Versions \cup {None}
         /\ Applied(r) \in Nat /\ Applied(r) \in Versions \cup {None}
<1>1. daemon[r] \in Daemon /\ engine[r] \in [Knobs -> Values]
      /\ drift[r] \in SUBSET Knobs /\ torn[r] \in SUBSET Knobs
      /\ replica_status[r] \in StatusRow
  BY DEF TypeOK, StoreTypeOK
<1>2. daemon[r].target \in Versions \cup {None} /\ daemon[r].applied \in Versions \cup {None}
  BY <1>1 DEF Daemon
<1>3. QED
  BY <1>1, <1>2, FieldsShape DEF Applied, None

\* A new row is written.
LEMMA Recorded ==
  ASSUME TypeOK, NEW r \in Replicas, NEW a \in Nat,
         NEW st \in {"absent", "healthy", "applying", "failed", "needs_reinit", "reinit"},
         record_status(r, a, st)
  PROVE  /\ StoreTypeOK'
         /\ UNCHANGED <<desired_state, replica_override>>
         /\ replica_status'[r] = [applied_version_id |-> a, state |-> st]
         /\ \A q \in Replicas \ {r} : replica_status'[q] = replica_status[q]
BY DEF TypeOK, StoreTypeOK, record_status, StatusRow

\* The daemon goes to another place of its tick.
LEMMA Stepped ==
  ASSUME TypeOK, NEW r \in Replicas,
         NEW pc \in {"idle", "no_override", "target", "push", "posted", "answered"}, Step(r, pc)
  PROVE  /\ daemon' \in [Replicas -> Daemon]
         /\ daemon'[r].pc = pc /\ daemon'[r].target = daemon[r].target
         /\ daemon'[r].applied = daemon[r].applied /\ daemon'[r].ok = daemon[r].ok
         /\ \A q \in Replicas \ {r} : daemon'[q] = daemon[q]
BY DEF TypeOK, Step, Daemon

-----------------------------------------------------------------------------
(* The initial state. *)

LEMMA InitInv ==
  ASSUME Init
  PROVE  RecInv
<1>1. Started \in Daemon
  BY DEF Started, Daemon
<1>2. TypeOK
  <2>1. StoreTypeOK
    <3>1. NoOverride \in OverrideRow
      BY DEF NoOverride, OverrideRow, None
    <3>2. [applied_version_id |-> None, state |-> "absent"] \in StatusRow
      BY DEF StatusRow, None
    <3>3. <<>> \in Seq(CanaryRow) /\ None \in Nat
      BY DEF None
    <3>4. QED
      BY <3>1, <3>2, <3>3, HistoryAssumption DEF Init, StoreTypeOK
  <2>2. QED
    BY <1>1, <2>1, EngineAssumption DEF Init, TypeOK
<1>3. TargetsKnown
  BY DEF Init, TargetsKnown, NoOverride
<1>4. ASSUME NEW r \in Replicas
      PROVE  ReplicaInv(r)
  <2>1. /\ daemon[r] = Started /\ engine[r] = Boot
        /\ replica_status[r] = [applied_version_id |-> None, state |-> "absent"]
    BY DEF Init
  <2>2. ~Pushing(r) /\ ~Pushed(r) /\ Applied(r) = None /\ ~At(r, "posted") /\ ~At(r, "answered")
    BY <2>1 DEF Pushing, Pushed, Applied, At, Started
  <2>3. replica_status[r].applied_version_id = None /\ \A v : ~HealthyAt(r, v)
    BY <2>1 DEF HealthyAt
  <2>4. QED
    BY <2>1, <2>2, <2>3, NormAssumption
       DEF ReplicaInv, Backed, PushGuarded, AppliedIsLive, RowIsLive
<1>5. QED
  BY <1>2, <1>3, <1>4 DEF RecInv

-----------------------------------------------------------------------------
(* The steps of a tick before the engine is called. *)

LEMMA ReadTargetInv ==
  ASSUME RecInv, NEW r \in Replicas, ReadOverride(r) \/ ReadDesired(r)
  PROVE  RecInv'
<1>1. PICK v \in Versions \cup {None}, pc \in {"target", "no_override"} :
        /\ daemon' = [daemon EXCEPT ![r].pc = pc, ![r].target = v]
        /\ At(r, "idle") \/ At(r, "no_override")
        /\ UNCHANGED <<storeVars, engine, drift, torn>>
  <2>1. GroupOf[r] \in Groups
    BY GroupOfAssumption
  <2>2. CASE ReadOverride(r)
    BY <2>2 DEF ReadOverride, RecInv, TargetsKnown
  <2>3. CASE ReadDesired(r)
    <3>1. daemon' = [daemon EXCEPT ![r].pc = "target", ![r].target = desired_state[GroupOf[r]]]
      BY <2>3 DEF ReadDesired, desired
    <3>2. QED
      BY <2>1, <2>3, <3>1 DEF ReadDesired, RecInv, TargetsKnown
  <2>4. QED
    BY <2>2, <2>3
<1>2. /\ daemon' \in [Replicas -> Daemon]
      /\ daemon'[r].pc = pc /\ daemon'[r].applied = daemon[r].applied
      /\ \A q \in Replicas \ {r} : daemon'[q] = daemon[q]
  <2>1. daemon[r] \in Daemon /\ daemon \in [Replicas -> Daemon]
    BY DEF RecInv, TypeOK
  <2>2. PICK d : d = [daemon[r] EXCEPT !.pc = pc, !.target = v]
    OBVIOUS
  <2>3. d \in Daemon /\ d.pc = pc /\ d.applied = daemon[r].applied
    BY <2>1, <2>2 DEF Daemon
  <2>4. daemon' = [daemon EXCEPT ![r] = d]
    BY <1>1, <2>1, <2>2
  <2>5. QED
    BY <2>1, <2>3, <2>4
<1>3. TypeOK'
  BY <1>1, <1>2 DEF RecInv, TypeOK, StoreTypeOK, storeVars
<1>4. ReplicaInv(r)'
  <2>1. /\ ~Pushed(r) /\ ~Pushed(r)' /\ ~Pushing(r)'
        /\ ~At(r, "posted")' /\ ~At(r, "answered")' /\ Applied(r)' = Applied(r)
    BY <1>1, <1>2 DEF At, Pushed, Pushing, Applied
  <2>2. ReplicaInv(r)
    BY DEF RecInv
  <2>3. Backed(r)'
    BY <1>1, <2>1, <2>2 DEF ReplicaInv, Backed, storeVars
  <2>4. PushGuarded(r)'
    BY <2>1 DEF PushGuarded
  <2>5. AppliedIsLive(r)' /\ RowIsLive(r)'
    BY <1>1, <2>1, <2>2 DEF ReplicaInv, AppliedIsLive, RowIsLive, Holds, HealthyAt, storeVars
  <2>6. QED
    BY <2>3, <2>4, <2>5 DEF ReplicaInv
<1>5. QED
  BY <1>1, <1>2, <1>3, <1>4, OneReplicaInv DEF Same, storeVars

\* A row written before the engine is called repeats the applied version; it
\* says healthy only if the tick ends there.
LEMMA RowInv ==
  ASSUME RecInv, NEW r \in Replicas, At(r, "target"),
         NEW st \in {"healthy", "failed", "applying"}, NEW pc \in {"idle", "push"},
         record_status(r, Applied(r), st), Step(r, pc),
         pc = "push" => /\ daemon[r].target \in Versions /\ bad(Target(r)) = {}
                        /\ st # "healthy",
         UNCHANGED <<engine, drift, torn>>
  PROVE  RecInv'
<1>1. TypeOK /\ ReplicaInv(r) /\ Applied(r) \in Nat
  BY ReplicaShape DEF RecInv
<1>2. /\ StoreTypeOK' /\ UNCHANGED <<desired_state, replica_override>>
      /\ replica_status'[r] = [applied_version_id |-> Applied(r), state |-> st]
      /\ \A q \in Replicas \ {r} : replica_status'[q] = replica_status[q]
  BY <1>1, Recorded
<1>3. /\ daemon' \in [Replicas -> Daemon]
      /\ daemon'[r].pc = pc /\ daemon'[r].target = daemon[r].target
      /\ daemon'[r].applied = daemon[r].applied
      /\ \A q \in Replicas \ {r} : daemon'[q] = daemon[q]
  BY <1>1, Stepped
<1>4. TypeOK'
  BY <1>1, <1>2, <1>3 DEF TypeOK
<1>5. /\ ~Pushed(r) /\ ~Pushed(r)' /\ (Pushing(r)' => pc = "push")
      /\ ~At(r, "posted")' /\ ~At(r, "answered")' /\ Applied(r)' = Applied(r)
      /\ Target(r)' = Target(r)
  BY <1>3 DEF At, Pushed, Pushing, Applied, Target
<1>6. Backed(r)'
  BY <1>1, <1>2, <1>5 DEF ReplicaInv, Backed
<1>7. PushGuarded(r)'
  BY <1>2, <1>3, <1>5 DEF PushGuarded
<1>8. AppliedIsLive(r)'
  BY <1>1, <1>5 DEF ReplicaInv, AppliedIsLive, Holds
<1>9. RowIsLive(r)'
  <2>1. ASSUME NEW v \in Versions, HealthyAt(r, v)'
        PROVE  v = Applied(r) /\ Applied(r) # None
    BY <1>2, <2>1, FieldsShape DEF HealthyAt
  <2>2. QED
    BY <1>1, <1>5, <2>1 DEF ReplicaInv, AppliedIsLive, RowIsLive, Holds
<1>10. QED
  BY <1>2, <1>3, <1>4, <1>6, <1>7, <1>8, <1>9, OneReplicaInv DEF ReplicaInv, Same

LEMMA TargetInv ==
  ASSUME RecInv, NEW r \in Replicas, Heartbeat(r) \/ ManifestRejects(r) \/ Applying(r)
  PROVE  RecInv'
<1>1. CASE Heartbeat(r)
  BY <1>1, RowInv DEF Heartbeat
<1>2. CASE ManifestRejects(r)
  BY <1>2, RowInv DEF ManifestRejects
<1>3. CASE Applying(r)
  <2>1. daemon[r].target \in Versions
    BY <1>3, ReplicaShape DEF Applying, Converged, RecInv
  <2>2. QED
    BY <1>3, <2>1, RowInv DEF Applying
<1>4. QED
  BY <1>1, <1>2, <1>3

-----------------------------------------------------------------------------
(* The push and its answer. *)

LEMMA SetHotInv ==
  ASSUME RecInv, NEW r \in Replicas, SetHot(r)
  PROVE  RecInv'
<1> DEFINE f == Target(r)
           allTaken == taken(f) = accepted(f)
           pc == IF ComparesLive /\ allTaken /\ accepted(f) # {} THEN "posted" ELSE "answered"
<1>1. /\ engine' = [engine EXCEPT ![r] = after(engine[r], f)]
      /\ drift' = [drift EXCEPT ![r] = @ \ taken(f)]
      /\ torn' = [torn EXCEPT ![r] = @ \ taken(f)]
      /\ daemon' = [daemon EXCEPT ![r].pc = pc, ![r].ok = allTaken]
      /\ UNCHANGED storeVars
      /\ At(r, "push") /\ Pushing(r) /\ ~Pushed(r)
  BY DEF SetHot, At, Pushing, Pushed
<1>2. /\ TypeOK /\ ReplicaInv(r)
      /\ daemon[r].target \in Versions /\ bad(f) = {} /\ replica_status[r].state # "healthy"
  BY <1>1 DEF RecInv, ReplicaInv, PushGuarded
<1>3. /\ engine[r] \in [Knobs -> Values]
      /\ drift[r] \in SUBSET Knobs /\ torn[r] \in SUBSET Knobs
  BY <1>2, ReplicaShape
<1>4. /\ \A k \in DOMAIN f : f[k] \in Values
      /\ accepted(f) \subseteq DOMAIN f /\ taken(f) \subseteq accepted(f)
  BY <1>2, FieldsShape DEF Target
<1>5. /\ after(engine[r], f) \in [Knobs -> Values]
      /\ \A k \in taken(f) : k \in Knobs /\ after(engine[r], f)[k] = Norm[f[k]]
      /\ \A k \in Knobs \ taken(f) : after(engine[r], f)[k] = engine[r][k]
  BY <1>2, <1>3, AfterShape DEF Target
<1>6. /\ engine' \in [Replicas -> [Knobs -> Values]]
      /\ engine'[r] = after(engine[r], f)
      /\ drift' \in [Replicas -> SUBSET Knobs] /\ drift'[r] = drift[r] \ taken(f)
      /\ torn' \in [Replicas -> SUBSET Knobs] /\ torn'[r] = torn[r] \ taken(f)
      /\ \A q \in Replicas \ {r} : engine'[q] = engine[q] /\ drift'[q] = drift[q]
                                   /\ torn'[q] = torn[q]
  BY <1>1, <1>2, <1>3, <1>5 DEF TypeOK
<1>7. /\ daemon' \in [Replicas -> Daemon]
      /\ daemon'[r].pc = pc /\ daemon'[r].target = daemon[r].target
      /\ daemon'[r].applied = daemon[r].applied /\ daemon'[r].ok = allTaken
      /\ \A q \in Replicas \ {r} : daemon'[q] = daemon[q]
  <2>1. pc \in {"posted", "answered"} /\ allTaken \in BOOLEAN
    OBVIOUS
  <2> HIDE DEF pc, allTaken
  <2>2. QED
    BY <1>1, <1>2, <2>1 DEF TypeOK, Daemon
<1>8. TypeOK'
  BY <1>1, <1>2, <1>6, <1>7 DEF TypeOK, StoreTypeOK, storeVars
<1>9. /\ Target(r)' = f /\ Applied(r)' = Applied(r) /\ daemon'[r].target = daemon[r].target
      /\ replica_status' = replica_status
      /\ Pushed(r)' /\ Pushing(r)'
      /\ At(r, "posted")' => ComparesLive /\ allTaken
      /\ At(r, "answered")' => ~(ComparesLive /\ allTaken /\ accepted(f) # {})
  BY <1>1, <1>7 DEF Target, Applied, Pushed, Pushing, At, storeVars
<1> HIDE DEF f
<1>10. Backed(r)'
  <2>1. ASSUME allTaken, ~(ComparesLive /\ allTaken /\ accepted(f) # {})
        PROVE  Acceptable(daemon[r].target)
    BY <1>2, <2>1 DEF Acceptable, f, Target
  <2>2. \A k \in Knobs : Norm[engine'[r][k]] = engine'[r][k]
    BY <1>2, <1>4, <1>5, <1>6, NormAssumption DEF ReplicaInv, Backed
  <2>3. QED
    BY <1>2, <1>7, <1>9, <2>1, <2>2 DEF ReplicaInv, Backed
<1>11. PushGuarded(r)'
  BY <1>2, <1>5, <1>6, <1>9 DEF PushGuarded
<1>12. AppliedIsLive(r)'
  <2>1. ASSUME Applied(r) # None
        PROVE  Holds(r, Applied(r), drift[r] \cup torn[r])
    BY <1>1, <1>2, <2>1 DEF ReplicaInv, AppliedIsLive
  <2>2. ASSUME Applied(r) # None
        PROVE  accepted(FieldsOf(Applied(r))) \subseteq Knobs
    BY <1>2, <2>2, ReplicaShape, FieldsShape
  <2>3. QED
    BY <1>5, <1>6, <1>9, <2>1, <2>2 DEF AppliedIsLive, Holds
<1>13. RowIsLive(r)'
  BY <1>2, <1>9 DEF RowIsLive, HealthyAt
<1>14. QED
  BY <1>1, <1>6, <1>7, <1>8, <1>10, <1>11, <1>12, <1>13, OneReplicaInv
     DEF ReplicaInv, Same, storeVars

LEMMA ReadKnobsInv ==
  ASSUME RecInv, NEW r \in Replicas, ReadKnobs(r)
  PROVE  RecInv'
<1> DEFINE f == Target(r)
           ok == confirmed(engine[r], f)
<1>1. /\ At(r, "posted") /\ Pushed(r) /\ Pushing(r)
      /\ daemon' = [daemon EXCEPT ![r].pc = "answered", ![r].ok = ok]
      /\ UNCHANGED <<storeVars, engine, drift, torn>>
  BY DEF ReadKnobs, At, Pushed, Pushing
<1>2. /\ TypeOK /\ ReplicaInv(r) /\ daemon[r].target \in Versions
      /\ taken(f) = accepted(f) /\ bad(f) = {}
  BY <1>1 DEF RecInv, ReplicaInv, Backed, PushGuarded
<1>3. /\ daemon' \in [Replicas -> Daemon]
      /\ daemon'[r].pc = "answered" /\ daemon'[r].target = daemon[r].target
      /\ daemon'[r].applied = daemon[r].applied /\ daemon'[r].ok = ok
      /\ \A q \in Replicas \ {r} : daemon'[q] = daemon[q]
  <2>1. ok \in BOOLEAN
    BY DEF confirmed
  <2> HIDE DEF ok
  <2>2. QED
    BY <1>1, <1>2, <2>1 DEF TypeOK, Daemon
<1>4. TypeOK'
  BY <1>1, <1>2, <1>3 DEF TypeOK, StoreTypeOK, storeVars
<1>5. /\ Target(r)' = f /\ Applied(r)' = Applied(r)
      /\ replica_status' = replica_status
      /\ Pushed(r)' /\ Pushing(r)' /\ ~At(r, "posted")'
  BY <1>1, <1>3 DEF Target, Applied, Pushed, Pushing, At, storeVars
\* What is shown as asked is stored as asked, whoever set it last.
<1>6. ok => Acceptable(daemon[r].target)
  <2>1. \A k \in accepted(f) : k \in Knobs
    BY <1>2, FieldsShape DEF Target
  <2>2. QED
    BY <1>2, <2>1 DEF confirmed, Acceptable, Target, ReplicaInv, Backed
<1>7. Backed(r)'
  BY <1>1, <1>2, <1>3, <1>5, <1>6 DEF ReplicaInv, Backed
<1>8. PushGuarded(r)' /\ AppliedIsLive(r)' /\ RowIsLive(r)'
  BY <1>1, <1>2, <1>3, <1>5
     DEF ReplicaInv, PushGuarded, AppliedIsLive, RowIsLive, Holds, HealthyAt
<1>9. QED
  BY <1>1, <1>3, <1>4, <1>7, <1>8, OneReplicaInv DEF ReplicaInv, Same, storeVars

\* What was taken of a push that failed is torn; the applied version stays.
LEMMA EngineRejectedInv ==
  ASSUME RecInv, NEW r \in Replicas, EngineRejected(r)
  PROVE  RecInv'
<1> DEFINE f == Target(r)
<1>1. /\ At(r, "answered") /\ Pushed(r) /\ Pushing(r)
      /\ record_status(r, Applied(r), "failed") /\ Step(r, "idle")
      /\ torn' = [torn EXCEPT ![r] = @ \cup taken(f)]
      /\ UNCHANGED <<engine, drift>>
  BY DEF EngineRejected, At, Pushed, Pushing
<1>2. /\ TypeOK /\ ReplicaInv(r) /\ Applied(r) \in Nat
      /\ daemon[r].target \in Versions /\ torn[r] \in SUBSET Knobs
  BY <1>1, ReplicaShape DEF RecInv, ReplicaInv, PushGuarded
<1>3. /\ StoreTypeOK' /\ UNCHANGED <<desired_state, replica_override>>
      /\ replica_status'[r] = [applied_version_id |-> Applied(r), state |-> "failed"]
      /\ \A q \in Replicas \ {r} : replica_status'[q] = replica_status[q]
  BY <1>1, <1>2, Recorded
<1>4. /\ daemon' \in [Replicas -> Daemon]
      /\ daemon'[r].pc = "idle" /\ daemon'[r].applied = daemon[r].applied
      /\ \A q \in Replicas \ {r} : daemon'[q] = daemon[q]
  BY <1>1, <1>2, Stepped
<1>5. /\ torn' \in [Replicas -> SUBSET Knobs] /\ torn'[r] = torn[r] \cup taken(f)
      /\ \A q \in Replicas \ {r} : torn'[q] = torn[q]
  <2>1. taken(f) \subseteq Knobs
    BY <1>2, FieldsShape DEF Target
  <2> HIDE DEF f
  <2>2. QED
    BY <1>1, <1>2, <2>1 DEF TypeOK
<1>6. TypeOK'
  BY <1>1, <1>2, <1>3, <1>4, <1>5 DEF TypeOK
<1>7. /\ ~Pushed(r)' /\ ~Pushing(r)' /\ ~At(r, "posted")' /\ ~At(r, "answered")'
      /\ Applied(r)' = Applied(r)
  BY <1>4 DEF At, Pushed, Pushing, Applied
<1>8. Backed(r)' /\ PushGuarded(r)'
  BY <1>1, <1>2, <1>3, <1>7 DEF ReplicaInv, Backed, PushGuarded
<1>9. AppliedIsLive(r)'
  BY <1>1, <1>2, <1>5, <1>7 DEF ReplicaInv, AppliedIsLive, Holds
<1>10. RowIsLive(r)'
  BY <1>3 DEF RowIsLive, HealthyAt
<1>11. QED
  BY <1>1, <1>3, <1>4, <1>5, <1>6, <1>8, <1>9, <1>10, OneReplicaInv DEF ReplicaInv, Same

LEMMA MarkAppliedInv ==
  ASSUME RecInv, NEW r \in Replicas, MarkApplied(r)
  PROVE  RecInv'
<1>0. PICK v : v = daemon[r].target
  OBVIOUS
<1> DEFINE st == IF cold(Target(r)) # {} THEN "needs_reinit" ELSE "healthy"
<1>1. /\ At(r, "answered") /\ daemon[r].ok /\ Pushed(r) /\ Pushing(r)
      /\ record_status(r, v, st)
      /\ daemon' = [daemon EXCEPT ![r].pc = "idle", ![r].applied = v]
      /\ UNCHANGED <<engine, drift, torn>>
  BY <1>0 DEF MarkApplied, At, Pushed, Pushing
<1>2. /\ TypeOK /\ ReplicaInv(r) /\ v \in Versions /\ v \in Nat /\ v # None
      /\ Acceptable(v) /\ taken(FieldsOf(v)) = accepted(FieldsOf(v))
  BY <1>0, <1>1, FieldsShape DEF RecInv, ReplicaInv, Backed, PushGuarded, Target
<1>3. /\ StoreTypeOK' /\ UNCHANGED <<desired_state, replica_override>>
      /\ replica_status'[r] = [applied_version_id |-> v, state |-> st]
      /\ \A q \in Replicas \ {r} : replica_status'[q] = replica_status[q]
  <2>1. st \in {"absent", "healthy", "applying", "failed", "needs_reinit", "reinit"}
    OBVIOUS
  <2> HIDE DEF st
  <2>2. QED
    BY <1>1, <1>2, <2>1, Recorded
<1>4. /\ daemon' \in [Replicas -> Daemon]
      /\ daemon'[r].pc = "idle" /\ daemon'[r].applied = v
      /\ \A q \in Replicas \ {r} : daemon'[q] = daemon[q]
  BY <1>1, <1>2 DEF TypeOK, Daemon
<1>5. TypeOK'
  BY <1>1, <1>2, <1>3, <1>4 DEF TypeOK
<1>6. /\ ~Pushed(r)' /\ ~Pushing(r)' /\ ~At(r, "posted")' /\ ~At(r, "answered")'
      /\ Applied(r)' = v
  BY <1>4 DEF At, Pushed, Pushing, Applied
<1>7. Backed(r)' /\ PushGuarded(r)'
  BY <1>1, <1>2, <1>3, <1>6 DEF ReplicaInv, Backed, PushGuarded
<1>8. Holds(r, v, drift[r] \cup torn[r])'
  BY <1>0, <1>1, <1>2 DEF ReplicaInv, PushGuarded, Holds, Target
<1>9. AppliedIsLive(r)'
  BY <1>6, <1>8 DEF AppliedIsLive, Holds
<1>10. RowIsLive(r)'
  BY <1>3, <1>8 DEF RowIsLive, HealthyAt, Holds
<1>11. QED
  BY <1>1, <1>3, <1>4, <1>5, <1>7, <1>9, <1>10, OneReplicaInv DEF ReplicaInv, Same

-----------------------------------------------------------------------------
(* The process and everyone else. *)

LEMMA ProcessInv ==
  ASSUME RecInv, NEW r \in Replicas, Crash(r) \/ Restart(r)
  PROVE  RecInv'
<1>1. PICK d \in {Started, [Started EXCEPT !.pc = "down"]} :
        /\ daemon' = [daemon EXCEPT ![r] = d]
        /\ UNCHANGED <<storeVars, engine, drift, torn>>
  BY DEF Crash, Restart
<1>2. d \in Daemon /\ d.applied = None /\ d.pc \in {"idle", "down"}
  <2>1. PICK pc \in {"idle", "down"} :
          d = [pc |-> pc, target |-> None, applied |-> None, ok |-> FALSE]
    BY DEF Started
  <2>2. QED
    BY <2>1 DEF Daemon
<1>3. TypeOK /\ ReplicaInv(r)
  BY DEF RecInv
<1>4. /\ daemon' \in [Replicas -> Daemon] /\ daemon'[r] = d
      /\ \A q \in Replicas \ {r} : daemon'[q] = daemon[q]
  BY <1>1, <1>2, <1>3 DEF TypeOK
<1>5. TypeOK'
  BY <1>1, <1>3, <1>4 DEF TypeOK, StoreTypeOK, storeVars
<1>6. /\ ~Pushed(r)' /\ ~Pushing(r)' /\ ~At(r, "posted")' /\ ~At(r, "answered")'
      /\ Applied(r)' = None /\ replica_status' = replica_status
  BY <1>1, <1>2, <1>4 DEF At, Pushed, Pushing, Applied, storeVars
<1>7. ReplicaInv(r)'
  BY <1>1, <1>3, <1>6
     DEF ReplicaInv, Backed, PushGuarded, AppliedIsLive, RowIsLive, Holds, HealthyAt
<1>8. QED
  BY <1>1, <1>4, <1>5, <1>7, OneReplicaInv DEF Same, storeVars

\* The store moves on; a replica notices when it reads.
LEMMA TargetMovesInv ==
  ASSUME RecInv,
         \/ \E g \in Groups, v \in Versions : Promote(g, v)
         \/ \E r \in Replicas, v \in NamedVersions : Override(r, v)
         \/ ClearOverrides
  PROVE  RecInv'
<1>1. /\ UNCHANGED <<config_version, canary, replica_status, daemon, engine, drift, torn>>
      /\ \A v \in Versions : v \in Nat
      /\ TypeOK /\ TargetsKnown
  BY FieldsShape DEF Promote, Override, ClearOverrides, promote, set_overrides, clear_overrides, RecInv
<1>2. desired_state' \in [Groups -> Nat] /\ \A g \in Groups : desired_state'[g] \in Versions \cup {None}
  BY <1>1 DEF Promote, Override, ClearOverrides, promote, set_overrides, clear_overrides,
              TypeOK, StoreTypeOK, TargetsKnown
<1>3. replica_override' \in [Replicas -> OverrideRow]
  <2>1. NoOverride \in OverrideRow
    BY DEF NoOverride, OverrideRow, None
  <2>2. \A v \in NamedVersions : [version_id |-> v, canary_id |-> 1] \in OverrideRow
    BY DEF NamedVersions, OverrideRow
  <2>3. CASE \E g \in Groups, v \in Versions : Promote(g, v)
    BY <1>1, <2>3 DEF Promote, promote, TypeOK, StoreTypeOK
  <2>4. CASE \E r \in Replicas, v \in NamedVersions : Override(r, v)
    BY <1>1, <2>2, <2>4 DEF Override, set_overrides, TypeOK, StoreTypeOK
  <2>5. CASE ClearOverrides
    BY <1>1, <2>1, <2>5 DEF ClearOverrides, clear_overrides, TypeOK, StoreTypeOK
  <2>6. QED
    BY <2>3, <2>4, <2>5
<1>4. TypeOK' /\ TargetsKnown'
  BY <1>1, <1>2, <1>3 DEF TypeOK, StoreTypeOK, TargetsKnown
<1>5. \A q \in Replicas : ReplicaInv(q)'
  BY <1>1, SameInv DEF RecInv, Same
<1>6. QED
  BY <1>4, <1>5 DEF RecInv

\* Whoever else changes the engine leaves what it changed in drift.
LEMMA DriftInv ==
  ASSUME RecInv, NEW r \in Replicas,
         engine' \in [Replicas -> [Knobs -> Values]],
         drift' \in [Replicas -> SUBSET Knobs],
         \A q \in Replicas \ {r} : engine'[q] = engine[q] /\ drift'[q] = drift[q],
         drift[r] \subseteq drift'[r],
         \A k \in Knobs \ drift'[r] : engine'[r][k] = engine[r][k],
         \A k \in Knobs : Norm[engine'[r][k]] = engine'[r][k],
         UNCHANGED <<storeVars, daemon, torn>>
  PROVE  RecInv'
<1>1. TypeOK /\ ReplicaInv(r)
  BY DEF RecInv
<1>2. /\ engine' \in [Replicas -> [Knobs -> Values]]
      /\ drift' \in [Replicas -> SUBSET Knobs]
      /\ \A q \in Replicas \ {r} : engine'[q] = engine[q] /\ drift'[q] = drift[q]
  OBVIOUS
<1>3. TypeOK'
  BY <1>1, <1>2 DEF TypeOK, StoreTypeOK, storeVars
<1>4. /\ daemon' = daemon /\ torn' = torn /\ replica_status' = replica_status
      /\ \A pc : At(r, pc)' = At(r, pc)
      /\ Pushed(r)' = Pushed(r) /\ Pushing(r)' = Pushing(r)
      /\ Target(r)' = Target(r) /\ Applied(r)' = Applied(r)
  BY DEF storeVars, At, Pushed, Pushing, Target, Applied
<1>5. Backed(r)'
  BY <1>1, <1>2, <1>4 DEF ReplicaInv, Backed
<1>6. PushGuarded(r)'
  <2>1. Pushed(r) => taken(Target(r)) \subseteq Knobs
    BY <1>1, FieldsShape DEF ReplicaInv, PushGuarded, Pushed, Pushing, Target
  <2>2. QED
    BY <1>1, <1>2, <1>4, <2>1 DEF ReplicaInv, PushGuarded
<1>7. \A v \in Versions : accepted(FieldsOf(v)) \subseteq Knobs
  BY FieldsShape
<1>8. AppliedIsLive(r)'
  <2>1. Applied(r) # None => Applied(r) \in Versions
    BY <1>1, ReplicaShape
  <2>2. QED
    BY <1>1, <1>2, <1>4, <1>7, <2>1 DEF ReplicaInv, AppliedIsLive, Holds
<1>9. RowIsLive(r)'
  BY <1>1, <1>2, <1>4, <1>7 DEF ReplicaInv, RowIsLive, HealthyAt, Holds
<1>10. QED
  BY <1>2, <1>3, <1>4, <1>5, <1>6, <1>8, <1>9, OneReplicaInv DEF ReplicaInv, Same, storeVars

LEMMA EngineMovesInv ==
  ASSUME RecInv, NEW r \in Replicas,
         EngineRestart(r) \/ \E k \in Knobs, x \in Values : CliSet(r, k, x)
  PROVE  RecInv'
<1>1. /\ engine \in [Replicas -> [Knobs -> Values]] /\ drift \in [Replicas -> SUBSET Knobs]
      /\ \A k \in Knobs : Norm[engine[r][k]] = engine[r][k]
  BY DEF RecInv, ReplicaInv, Backed, TypeOK
<1>2. CASE EngineRestart(r)
  BY <1>1, <1>2, EngineAssumption, NormAssumption, DriftInv DEF EngineRestart
<1>3. ASSUME NEW k \in Knobs, NEW x \in Values, CliSet(r, k, x)
      PROVE  RecInv'
  <2>1. Norm[x] \in Values /\ Norm[Norm[x]] = Norm[x]
    BY EngineAssumption, NormAssumption
  <2>2. /\ engine' = [engine EXCEPT ![r] = [engine[r] EXCEPT ![k] = Norm[x]]]
        /\ drift' = [drift EXCEPT ![r] = drift[r] \cup {k}]
        /\ UNCHANGED <<storeVars, daemon, torn>>
    BY <1>3 DEF CliSet
  <2>3. /\ engine' \in [Replicas -> [Knobs -> Values]]
        /\ engine'[r] = [engine[r] EXCEPT ![k] = Norm[x]]
        /\ drift' \in [Replicas -> SUBSET Knobs] /\ drift'[r] = drift[r] \cup {k}
        /\ \A q \in Replicas \ {r} : engine'[q] = engine[q] /\ drift'[q] = drift[q]
    BY <1>1, <2>1, <2>2
  <2>4. /\ \A j \in Knobs \ drift'[r] : engine'[r][j] = engine[r][j]
        /\ \A j \in Knobs : Norm[engine'[r][j]] = engine'[r][j]
    BY <1>1, <2>1, <2>3
  <2>5. QED
    BY <2>2, <2>3, <2>4, DriftInv
<1>4. QED
  BY <1>2, <1>3

LEMMA StutterInv ==
  ASSUME RecInv, UNCHANGED vars
  PROVE  RecInv'
<1>1. TypeOK' /\ TargetsKnown'
  BY DEF RecInv, vars, storeVars, TypeOK, StoreTypeOK, TargetsKnown
<1>2. \A q \in Replicas : ReplicaInv(q)'
  BY SameInv DEF RecInv, Same, vars, storeVars
<1>3. QED
  BY <1>1, <1>2 DEF RecInv

LEMMA NextInv ==
  ASSUME RecInv, [Next]_vars
  PROVE  RecInv'
<1>1. ASSUME NEW r \in Replicas, Tick(r)
      PROVE  RecInv'
  <2>1. CASE VersionMissing(r)
    <3>1. Crash(r)
      BY <2>1 DEF VersionMissing, Crash, At
    <3>2. QED
      BY <3>1, ProcessInv
  <2>2. QED
    BY <1>1, <2>1, ReadTargetInv, TargetInv, SetHotInv, ReadKnobsInv, EngineRejectedInv,
       MarkAppliedInv DEF Tick
<1>2. ASSUME NEW r \in Replicas, Crash(r) \/ Restart(r)
      PROVE  RecInv'
  BY <1>2, ProcessInv
<1>3. ASSUME NEW r \in Replicas,
             EngineRestart(r) \/ \E k \in Knobs, x \in Values : CliSet(r, k, x)
      PROVE  RecInv'
  BY <1>3, EngineMovesInv
<1>4. CASE \/ \E g \in Groups, v \in Versions : Promote(g, v)
           \/ \E r \in Replicas, v \in NamedVersions : Override(r, v)
           \/ ClearOverrides
  BY <1>4, TargetMovesInv
<1>5. CASE UNCHANGED vars
  BY <1>5, StutterInv
<1>6. QED
  BY <1>1, <1>2, <1>3, <1>4, <1>5 DEF Next

-----------------------------------------------------------------------------
(* Theorems. *)

\* The strengthened invariant: what is live in the engine at each place of a
\* tick, for the applied version, the pushed one and the one in the row.
THEOREM RecInductive == Spec => []RecInv
<1>1. Init => RecInv
  BY InitInv
<1>2. RecInv /\ [Next]_vars => RecInv'
  BY NextInv
<1>3. QED
  BY <1>1, <1>2, PTL DEF Spec

\* The tables, the daemons' local values and the engines keep their shape.
THEOREM RecTypeCorrect == Spec => []TypeOK
<1>1. RecInv => TypeOK
  BY DEF RecInv
<1>2. QED
  BY <1>1, RecInductive, PTL

\* The applied_version_id of a row is a version that the manifest and the
\* engine accept in full (Reconciler.tick, set_hot).
THEOREM RowsAreBacked == Spec => []StatusBacked
<1>1. RecInv => StatusBacked
  BY DEF RecInv, ReplicaInv, Backed, StatusBacked
<1>2. QED
  BY <1>1, RecInductive, PTL

\* A row that says healthy at a version means that its hot fields are live,
\* but for what others changed and what a failed push tore (Reconciler.tick).
THEOREM HealthyRowsAreLive == Spec => []HealthyIsLive
<1>1. RecInv => HealthyIsLive
  BY DEF RecInv, ReplicaInv, RowIsLive, HealthyIsLive
<1>2. QED
  BY <1>1, RecInductive, PTL
=============================================================================
