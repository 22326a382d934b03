---------------------------- MODULE CanaryProofs ----------------------------
(***************************************************************************)
(* Proofs that the safety properties of Canary hold, and that Canary       *)
(* implements Rollout, for every set of groups, replicas, field            *)
(* dictionaries and controllers, and all bounds.                           *)
(***************************************************************************)
EXTENDS Canary, TLAPS, SequenceTheorems

-----------------------------------------------------------------------------
(* What a job and a row look like. *)

\* The program counter says which local values a controller has.
LEMMA JobShape ==
  ASSUME TypeOK, NEW c \in Controllers
  PROVE  /\ job[c] \in Job
         /\ At(c, "parent_read") => job[c].group \in Groups /\ job[c].parent \in Nat
         /\ At(c, "base_read") => /\ job[c].group \in Groups
                                  /\ job[c].version \in Nat
                                  /\ job[c].scope \in SUBSET Replicas
                                  /\ job[c].base \in Nat
         /\ At(c, "opened") => job[c].canary \in Nat
         /\ job[c].pc \in Deciding => job[c].canary \in Nat
         /\ job[c].pc \in {"window", "cleared_pass"} => job[c].group \in Groups
BY DEF TypeOK, Job, IdleJob, ProposeJob, OpenJob, RowJob, DecideJob, At, Deciding

\* Every version and every canary id names a row of its table.
LEMMA RowTypes ==
  ASSUME TypeOK
  PROVE  /\ Len(config_version) \in Nat
         /\ Len(canary) \in Nat
         /\ \A v \in VersionIds : config_version[v] \in VersionRow
         /\ \A i \in CanaryIds : canary[i] \in CanaryRow
         /\ \A r \in Replicas : replica_override[r] \in OverrideRow
BY ElementOfSeq, LenProperties DEF TypeOK, StoreTypeOK, VersionIds, CanaryIds

\* The id that an insert assigns is new, and the older rows keep theirs.
LEMMA AppendRow ==
  ASSUME NEW S, NEW s \in Seq(S), NEW e \in S
  PROVE  /\ Append(s, e) \in Seq(S)
         /\ Len(s) \in Nat
         /\ Len(Append(s, e)) = Len(s) + 1
         /\ \A i \in 1 .. Len(s) : Append(s, e)[i] = s[i]
         /\ Append(s, e)[Len(s) + 1] = e
BY AppendProperties, LenProperties

\* Closing a canary changes the status of its row and nothing else.
LEMMA CloseRow ==
  ASSUME TypeOK, NEW i \in CanaryIds, NEW st \in {"promoted", "reverted"},
         canary' = [canary EXCEPT ![i].status = st]
  PROVE  /\ canary' \in Seq(CanaryRow)
         /\ CanaryIds' = CanaryIds
         /\ \A j \in CanaryIds :
              /\ canary'[j].candidate_version_id = canary[j].candidate_version_id
              /\ canary'[j].status = IF j = i THEN st ELSE canary[j].status
<1> DEFINE row == [canary[i] EXCEPT !.status = st]
<1>1. canary[i] \in CanaryRow
  BY RowTypes
<1>2. row \in CanaryRow
  BY <1>1 DEF CanaryRow
<1>3. canary' = [canary EXCEPT ![i] = row]
  OBVIOUS
<1>4. row.candidate_version_id = canary[i].candidate_version_id /\ row.status = st
  BY <1>1 DEF CanaryRow
<1> HIDE DEF row
<1>5. canary \in Seq(CanaryRow) /\ i \in 1 .. Len(canary)
  BY DEF TypeOK, StoreTypeOK, CanaryIds
<1>6. /\ canary' \in Seq(CanaryRow)
      /\ Len(canary') = Len(canary)
      /\ \A j \in 1 .. Len(canary) : canary'[j] = IF j = i THEN row ELSE canary[j]
  BY <1>2, <1>3, <1>5, ExceptSeq
<1>7. QED
  BY <1>4, <1>6 DEF CanaryIds

-----------------------------------------------------------------------------
(* The invariant is inductive: one lemma per group of actions. *)

\* Steps that only move a controller from one local state to another.
LEMMA JobStep ==
  ASSUME IInv, NEW c \in Controllers, NEW j \in Job, Goto(c, j),
         UNCHANGED <<storeVars, known, wasDesired>>,
         j.pc \notin {"opened", "close_promoted"},
         j.pc = "base_read" => j.version \in NamedIds,
         j.pc \in Deciding => j.canary \in known,
         j.pc \in Deciding \ {"window"} =>
           \A r \in Replicas : replica_override[r].canary_id # j.canary,
         j.pc = "parent_read" /\ j.parent # None => j.parent \in wasDesired[j.group]
  PROVE  IInv'
<1>1. job' \in [Controllers -> Job] /\ job'[c] = j
  BY DEF IInv, TypeOK, Goto
<1>2. \A d \in Controllers \ {c} : job'[d] = job[d]
  BY DEF IInv, TypeOK, Goto
<1>3. UNCHANGED <<config_version, desired_state, replica_override, canary, replica_status,
                  known, wasDesired>>
  BY DEF storeVars
<1>4. TypeOK'
  BY <1>1, <1>3 DEF IInv, TypeOK, StoreTypeOK
<1>5. JobRefs'
  BY <1>1, <1>2, <1>3 DEF IInv, JobRefs, At, Deciding, CanaryIds, VersionIds, NamedIds
<1>6. CandidatesNamed' /\ OverridesOpen' /\ DesiredKnown'
  BY <1>3 DEF IInv, CandidatesNamed, OverridesOpen, DesiredKnown, CanaryIds, VersionIds, NamedIds
<1>7. ClearedFirst'
  BY <1>1, <1>2, <1>3 DEF IInv, ClearedFirst, Deciding, CanaryIds
<1>8. PromoteRecorded'
  BY <1>1, <1>2, <1>3 DEF IInv, PromoteRecorded, WasPromoted, At, CanaryIds, VersionIds
<1>9. LineageKept'
  BY <1>1, <1>2, <1>3 DEF IInv, LineageKept, Lineage, At, VersionIds
<1>10. QED
  BY <1>4, <1>5, <1>6, <1>7, <1>8, <1>9 DEF IInv

\* The reads at the head of propose, start and observe and a refused promote
\* are such steps.
LEMMA ReadStep ==
  ASSUME IInv, NEW c \in Controllers,
         \/ \E g \in Groups : ProposeRead(c, g)
         \/ \E g \in Groups, v \in NamedIds, scope \in SUBSET Replicas :
              StartRead(c, g, v, scope)
         \/ \E g \in Groups, i \in CanaryIds : ObserveBegin(c, g, i)
         \/ DecidePromoteRefused(c)
  PROVE  IInv'
<1>1. CASE \E g \in Groups : ProposeRead(c, g)
  <2>1. PICK g \in Groups : ProposeRead(c, g)
    BY <1>1
  <2> DEFINE j == [pc |-> "parent_read", group |-> g, parent |-> desired(g)]
  <2>2. j \in Job
    BY DEF IInv, TypeOK, StoreTypeOK, desired, Job, ProposeJob
  <2>3. j.parent # None => j.parent \in wasDesired[j.group]
    BY DEF IInv, DesiredKnown, desired
  <2>4. Goto(c, j) /\ UNCHANGED <<storeVars, known, wasDesired>>
    BY <2>1 DEF ProposeRead
  <2>5. QED
    BY <2>2, <2>3, <2>4, JobStep DEF Deciding
<1>2. CASE \E g \in Groups, v \in NamedIds, scope \in SUBSET Replicas :
             StartRead(c, g, v, scope)
  <2>1. PICK g \in Groups, v \in NamedIds, scope \in SUBSET Replicas :
          StartRead(c, g, v, scope)
    BY <1>2
  <2> DEFINE j == [pc |-> "base_read", group |-> g, version |-> v,
                   scope |-> scope, base |-> desired(g)]
  <2>2. v \in Nat
    BY DEF NamedIds, VersionIds, IInv, TypeOK, StoreTypeOK
  <2>3. j \in Job
    BY <2>2 DEF IInv, TypeOK, StoreTypeOK, desired, Job, OpenJob
  <2>4. Goto(c, j) /\ UNCHANGED <<storeVars, known, wasDesired>>
    BY <2>1 DEF StartRead
  <2>5. QED
    BY <2>3, <2>4, JobStep DEF Deciding
<1>3. CASE \E g \in Groups, i \in CanaryIds : ObserveBegin(c, g, i)
  <2>1. PICK g \in Groups, i \in CanaryIds : ObserveBegin(c, g, i)
    BY <1>3
  <2> DEFINE j == [pc |-> "window", canary |-> i, group |-> g]
  <2>2. j \in Job
    BY DEF CanaryIds, Job, DecideJob
  <2>3. i \in known /\ Goto(c, j) /\ UNCHANGED <<storeVars, known, wasDesired>>
    BY <2>1 DEF ObserveBegin
  <2>4. QED
    BY <2>2, <2>3, JobStep DEF Deciding
<1>4. CASE DecidePromoteRefused(c)
  <2>1. Idle \in Job /\ Idle.pc = "idle"
    BY DEF Job, IdleJob, Idle
  <2>2. Goto(c, Idle) /\ UNCHANGED <<storeVars, known, wasDesired>>
    BY <1>4 DEF DecidePromoteRefused
  <2>3. QED
    BY <2>1, <2>2, JobStep DEF Deciding
<1>5. QED
  BY <1>1, <1>2, <1>3, <1>4

\* A start that dies leaves a row that holds nothing for somebody to find.
LEMMA CrashStep ==
  ASSUME IInv, NEW c \in Controllers, Crash(c)
  PROVE  IInv'
<1>1. Idle \in Job /\ Idle.pc = "idle"
  BY DEF Job, IdleJob, Idle
<1>2. CASE ~At(c, "opened")
  <2>1. Goto(c, Idle) /\ UNCHANGED <<storeVars, known, wasDesired>>
    BY <1>2 DEF Crash
  <2>2. QED
    BY <1>1, <2>1, JobStep DEF Deciding
<1>3. CASE At(c, "opened")
  <2> DEFINE i == job[c].canary
  <2>1. /\ known' = known \cup {i}
        /\ job' = [job EXCEPT ![c] = Idle]
        /\ UNCHANGED <<config_version, desired_state, replica_override, canary, replica_status,
                       wasDesired>>
    BY <1>3 DEF Crash, Goto, storeVars
  <2>2. /\ i \in CanaryIds /\ i \in Nat
        /\ \A d \in Controllers \ {c} : At(d, "opened") => job[d].canary # i
    BY <1>3 DEF IInv, JobRefs, CanaryIds
  <2> HIDE DEF i
  <2>3. /\ job' \in [Controllers -> Job]
        /\ job'[c] = Idle
        /\ \A d \in Controllers \ {c} : job'[d] = job[d]
    BY <1>1, <2>1 DEF IInv, TypeOK
  <2>4. TypeOK'
    BY <2>1, <2>2, <2>3 DEF IInv, TypeOK, StoreTypeOK
  <2>5. JobRefs'
    BY <1>1, <2>1, <2>2, <2>3 DEF IInv, JobRefs, At, Deciding, CanaryIds, VersionIds, NamedIds
  <2>6. CandidatesNamed' /\ OverridesOpen' /\ DesiredKnown'
    BY <2>1 DEF IInv, CandidatesNamed, OverridesOpen, DesiredKnown, CanaryIds, VersionIds,
                NamedIds
  <2>7. ClearedFirst'
    BY <1>1, <2>1, <2>3 DEF IInv, ClearedFirst, Deciding, CanaryIds
  <2>8. PromoteRecorded'
    BY <1>1, <2>1, <2>3 DEF IInv, PromoteRecorded, WasPromoted, At, CanaryIds, VersionIds
  <2>9. LineageKept'
    BY <1>1, <2>1, <2>3 DEF IInv, LineageKept, Lineage, At, VersionIds
  <2>10. QED
    BY <2>4, <2>5, <2>6, <2>7, <2>8, <2>9 DEF IInv
<1>4. QED
  BY <1>2, <1>3

\* A version is appended: its parent was read when it was the target.
LEMMA ProposeStep ==
  ASSUME IInv, NEW c \in Controllers, NEW f \in Fields, ProposeInsert(c, f)
  PROVE  IInv'
<1> DEFINE row == [replica_group |-> job[c].group, parent_id |-> job[c].parent, fields |-> f]
<1>1. TypeOK /\ At(c, "parent_read")
  BY DEF IInv, ProposeInsert
<1>2. row \in VersionRow /\ job[c].group \in Groups /\ job[c].parent \in Nat
  BY <1>1, JobShape DEF VersionRow
<1>3. /\ config_version' = Append(config_version, row)
      /\ UNCHANGED <<desired_state, replica_override, canary, replica_status,
                     known, wasDesired>>
  BY DEF ProposeInsert, propose
<1>4. row.replica_group = job[c].group /\ row.parent_id = job[c].parent
  OBVIOUS
<1> HIDE DEF row
<1>5. /\ config_version' \in Seq(VersionRow)
      /\ Len(config_version) \in Nat
      /\ Len(config_version') = Len(config_version) + 1
      /\ \A v \in 1 .. Len(config_version) : config_version'[v] = config_version[v]
      /\ config_version'[Len(config_version) + 1] = row
  BY <1>1, <1>2, <1>3, AppendRow DEF TypeOK, StoreTypeOK
<1>6. /\ VersionIds \subseteq VersionIds'
      /\ NamedIds \subseteq NamedIds'
      /\ VersionIds' = VersionIds \cup {Len(config_version) + 1}
      /\ \A v \in VersionIds : config_version'[v] = config_version[v]
  BY <1>5 DEF VersionIds, NamedIds
<1>7. /\ job' \in [Controllers -> Job]
      /\ job'[c] = Idle
      /\ \A d \in Controllers \ {c} : job'[d] = job[d]
      /\ Idle.pc = "idle"
  BY DEF IInv, TypeOK, ProposeInsert, Goto, Job, IdleJob, Idle
<1>8. TypeOK'
  BY <1>1, <1>3, <1>5, <1>7 DEF TypeOK, StoreTypeOK
<1>9. JobRefs'
  BY <1>3, <1>6, <1>7, SMTT(30) DEF IInv, JobRefs, At, Deciding, CanaryIds
<1>10. CandidatesNamed'
  BY <1>3, <1>6 DEF IInv, CandidatesNamed, CanaryIds
<1>11. OverridesOpen' /\ ClearedFirst'
  BY <1>3, <1>7 DEF IInv, OverridesOpen, ClearedFirst, Deciding, CanaryIds
<1>12. DesiredKnown'
  BY <1>3, <1>6 DEF IInv, DesiredKnown
<1>13. \A i \in CanaryIds : WasPromoted(i) => WasPromoted(i)'
  BY <1>3, <1>6 DEF WasPromoted
<1>14. PromoteRecorded'
  BY <1>3, <1>7, <1>13 DEF IInv, PromoteRecorded, JobRefs, At, Deciding, CanaryIds
<1>15. ASSUME job[c].parent # None
       PROVE  /\ job[c].parent \in wasDesired[job[c].group]
              /\ job[c].parent < Len(config_version) + 1
  BY <1>1, <1>2, <1>5, <1>15 DEF IInv, LineageKept, DesiredKnown, VersionIds
<1>16. Lineage'
  BY <1>2, <1>3, <1>4, <1>5, <1>6, <1>15 DEF IInv, LineageKept, Lineage
<1>17. LineageKept'
  BY <1>3, <1>7, <1>16 DEF IInv, LineageKept, At
<1>18. QED
  BY <1>8, <1>9, <1>10, <1>11, <1>12, <1>14, <1>17 DEF IInv

\* promote changes the target and the record of targets of one group.
LEMMA Retarget ==
  ASSUME IInv, NEW g \in Groups, NEW v \in VersionIds, promote(g, v),
         wasDesired' = [wasDesired EXCEPT ![g] = @ \cup {v}]
  PROVE  /\ UNCHANGED <<config_version, replica_override, canary, replica_status>>
         /\ desired_state' \in [Groups -> Nat]
         /\ wasDesired' \in [Groups -> SUBSET Nat]
         /\ \A h \in Groups : wasDesired[h] \subseteq wasDesired'[h]
         /\ v \in VersionIds' /\ v \in wasDesired'[config_version[v].replica_group]
         /\ DesiredKnown'
<1>1. /\ config_version[v].replica_group = g
      /\ desired_state' = [desired_state EXCEPT ![g] = v]
      /\ UNCHANGED <<config_version, replica_override, canary, replica_status>>
  BY DEF promote, InGroup
<1>2. v \in Nat
  BY DEF VersionIds
<1>3. /\ desired_state' \in [Groups -> Nat]
      /\ wasDesired' \in [Groups -> SUBSET Nat]
      /\ \A h \in Groups : wasDesired[h] \subseteq wasDesired'[h]
      /\ v \in wasDesired'[g]
  BY <1>1, <1>2 DEF IInv, TypeOK, StoreTypeOK
<1>4. ASSUME NEW h \in Groups
      PROVE  /\ \A w \in wasDesired'[h] : w \in VersionIds' /\ config_version'[w].replica_group = h
             /\ desired_state'[h] # None => desired_state'[h] \in wasDesired'[h]
  <2>1. CASE h = g
    BY <1>1, <2>1 DEF IInv, TypeOK, StoreTypeOK, DesiredKnown, VersionIds
  <2>2. CASE h # g
    BY <1>1, <2>2 DEF IInv, TypeOK, StoreTypeOK, DesiredKnown, VersionIds
  <2>3. QED
    BY <2>1, <2>2
<1>5. QED
  BY <1>1, <1>3, <1>4 DEF DesiredKnown, VersionIds

\* What is on record stays on record when the record grows.
LEMMA RecordGrows ==
  ASSUME IInv, UNCHANGED <<config_version, canary>>,
         \A h \in Groups : wasDesired[h] \subseteq wasDesired'[h]
  PROVE  /\ \A i \in CanaryIds : WasPromoted(i) => WasPromoted(i)'
         /\ Lineage'
<1>1. \A v \in VersionIds : config_version[v].replica_group \in Groups
  BY RowTypes DEF IInv, VersionRow
<1>2. \A i \in CanaryIds : WasPromoted(i) => WasPromoted(i)'
  BY <1>1 DEF IInv, CandidatesNamed, WasPromoted, VersionIds
<1>3. Lineage'
  BY <1>1 DEF IInv, LineageKept, Lineage, VersionIds
<1>4. QED
  BY <1>2, <1>3

\* An operator's promote or rollback: the targets on record only grow.
LEMMA PromoteStep ==
  ASSUME IInv, NEW c \in Controllers, NEW g \in Groups, NEW v \in VersionIds,
         Promote(c, g, v)
  PROVE  IInv'
<1>1. /\ promote(g, v)
      /\ wasDesired' = [wasDesired EXCEPT ![g] = @ \cup {v}]
      /\ UNCHANGED <<job, known>>
  BY DEF Promote, rollback
<1>2. /\ UNCHANGED <<config_version, replica_override, canary, replica_status>>
      /\ desired_state' \in [Groups -> Nat]
      /\ wasDesired' \in [Groups -> SUBSET Nat]
      /\ \A h \in Groups : wasDesired[h] \subseteq wasDesired'[h]
      /\ DesiredKnown'
  BY <1>1, Retarget
<1>3. /\ \A i \in CanaryIds : WasPromoted(i) => WasPromoted(i)'
      /\ Lineage'
  BY <1>2, RecordGrows
<1>4. TypeOK'
  BY <1>1, <1>2 DEF IInv, TypeOK, StoreTypeOK
<1>5. JobRefs' /\ CandidatesNamed' /\ OverridesOpen' /\ ClearedFirst'
  BY <1>1, <1>2 DEF IInv, JobRefs, CandidatesNamed, OverridesOpen, ClearedFirst, At,
                    CanaryIds, VersionIds, NamedIds
<1>6. PromoteRecorded'
  BY <1>1, <1>2, <1>3 DEF IInv, PromoteRecorded, JobRefs, At, Deciding, CanaryIds
<1>7. \A d \in Controllers : At(d, "parent_read") => job[d].group \in Groups
  BY JobShape DEF IInv
<1>8. LineageKept'
  BY <1>1, <1>2, <1>3, <1>7 DEF IInv, LineageKept, At
<1>9. QED
  BY <1>2, <1>4, <1>5, <1>6, <1>8 DEF IInv

\* A passing canary promotes its candidate: on record before it is closed.
LEMMA DecidePromoteStep ==
  ASSUME IInv, NEW c \in Controllers, DecidePromote(c)
  PROVE  IInv'
<1> DEFINE i == job[c].canary
           g == job[c].group
           v == canary[i].candidate_version_id
           j == Row("close_promoted", i)
<1>1. /\ At(c, "cleared_pass")
      /\ promote(g, v)
      /\ wasDesired' = [wasDesired EXCEPT ![g] = @ \cup {v}]
      /\ Goto(c, j)
      /\ UNCHANGED known
  BY DEF DecidePromote
<1>2. /\ i \in known
      /\ i \in CanaryIds
      /\ g \in Groups
      /\ v \in VersionIds
      /\ \A r \in Replicas : replica_override[r].canary_id # i
  BY <1>1, JobShape DEF promote, InGroup, IInv, JobRefs, CandidatesNamed, ClearedFirst, At, Deciding
<1>3. /\ UNCHANGED <<config_version, replica_override, canary, replica_status>>
      /\ desired_state' \in [Groups -> Nat]
      /\ wasDesired' \in [Groups -> SUBSET Nat]
      /\ \A h \in Groups : wasDesired[h] \subseteq wasDesired'[h]
      /\ v \in VersionIds' /\ v \in wasDesired'[config_version[v].replica_group]
      /\ DesiredKnown'
  BY <1>1, <1>2, Retarget
<1>4. /\ \A k \in CanaryIds : WasPromoted(k) => WasPromoted(k)'
      /\ Lineage'
  BY <1>3, RecordGrows
<1>5. \A k \in {i} : WasPromoted(k)'
  BY <1>3 DEF WasPromoted, VersionIds
<1>6. j \in Job /\ j.pc = "close_promoted" /\ j.canary = i
  BY <1>2 DEF Row, Job, RowJob, CanaryIds
<1>7. job' = [job EXCEPT ![c] = j] /\ job \in [Controllers -> Job]
  BY <1>1 DEF Goto, IInv, TypeOK
<1> HIDE DEF i, g, v, j
<1>8. /\ job' \in [Controllers -> Job]
      /\ job'[c] = j
      /\ \A d \in Controllers \ {c} : job'[d] = job[d]
  BY <1>6, <1>7
<1>9. TypeOK'
  BY <1>1, <1>3, <1>8 DEF IInv, TypeOK, StoreTypeOK
<1>10. JobRefs'
  <2>1. NamedIds' = NamedIds /\ CanaryIds' = CanaryIds
    BY <1>3 DEF NamedIds, VersionIds, CanaryIds
  <2>2. QED
    BY <1>1, <1>2, <1>6, <1>8, <2>1 DEF IInv, JobRefs, At, Deciding
<1>11. CandidatesNamed' /\ OverridesOpen'
  BY <1>1, <1>3 DEF IInv, CandidatesNamed, OverridesOpen, CanaryIds, VersionIds, NamedIds
<1>12. ClearedFirst'
  BY <1>1, <1>2, <1>3, <1>6, <1>8 DEF IInv, ClearedFirst, Deciding, CanaryIds
<1>13. \A d \in Controllers \ {c} :
         At(d, "close_promoted") => job[d].canary \in CanaryIds /\ WasPromoted(job[d].canary)
  BY DEF IInv, PromoteRecorded, JobRefs, At, Deciding
<1>14. \A d \in Controllers : At(d, "close_promoted")' => WasPromoted(job[d].canary)'
  <2> SUFFICES ASSUME NEW d \in Controllers, At(d, "close_promoted")'
               PROVE  WasPromoted(job[d].canary)'
    OBVIOUS
  <2>1. CASE d = c
    BY <1>5, <1>6, <1>8, <2>1 DEF WasPromoted, VersionIds
  <2>2. CASE d # c
    BY <1>4, <1>8, <1>13, <2>2 DEF WasPromoted, At, VersionIds
  <2>3. QED
    BY <2>1, <2>2
<1>15. PromoteRecorded'
  BY <1>3, <1>4, <1>14 DEF IInv, PromoteRecorded, CanaryIds
<1>16. \A d \in Controllers : At(d, "parent_read") => job[d].group \in Groups
  BY JobShape DEF IInv
<1>17. LineageKept'
  BY <1>3, <1>4, <1>6, <1>8, <1>16 DEF IInv, LineageKept, At
<1>18. QED
  BY <1>3, <1>9, <1>10, <1>11, <1>12, <1>15, <1>17 DEF IInv

\* A canary row is inserted; nobody else knows its id yet.
LEMMA StartOpenStep ==
  ASSUME IInv, NEW c \in Controllers, StartOpen(c)
  PROVE  IInv'
<1> DEFINE row == [replica_group |-> job[c].group, candidate_version_id |-> job[c].version,
                   baseline_version_id |-> job[c].base, scope |-> job[c].scope,
                   status |-> "observing"]
           n == Len(canary) + 1
           j == Row("opened", n)
<1>1. /\ At(c, "base_read")
      /\ canary' = Append(canary, row)
      /\ Goto(c, j)
      /\ UNCHANGED <<config_version, desired_state, replica_override, replica_status,
                     known, wasDesired>>
  BY DEF StartOpen, open_canary
<1>2. row \in CanaryRow /\ row.candidate_version_id \in NamedIds /\ row.status = "observing"
  BY <1>1, JobShape DEF IInv, JobRefs, CanaryRow
<1> HIDE DEF row
<1>3. /\ canary' \in Seq(CanaryRow)
      /\ Len(canary) \in Nat
      /\ Len(canary') = n
      /\ \A k \in 1 .. Len(canary) : canary'[k] = canary[k]
      /\ canary'[n] = row
  BY <1>1, <1>2, AppendRow DEF IInv, TypeOK, StoreTypeOK
<1>4. /\ n \notin CanaryIds
      /\ CanaryIds' = CanaryIds \cup {n}
      /\ \A k \in CanaryIds : canary'[k] = canary[k]
  BY <1>3 DEF CanaryIds
<1>5. j \in Job /\ j.pc = "opened" /\ j.canary = n
  BY <1>3 DEF Row, Job, RowJob
<1>6. job' = [job EXCEPT ![c] = j] /\ job \in [Controllers -> Job]
  BY <1>1 DEF Goto, IInv, TypeOK
<1> HIDE DEF n, j
<1>7. /\ job' \in [Controllers -> Job]
      /\ job'[c] = j
      /\ \A d \in Controllers \ {c} : job'[d] = job[d]
  BY <1>5, <1>6
<1>8. TypeOK'
  BY <1>1, <1>3, <1>7 DEF IInv, TypeOK, StoreTypeOK
<1>9. JobRefs'
  <2>1. known' \subseteq CanaryIds'
    BY <1>1, <1>4 DEF IInv, JobRefs
  <2>2. ASSUME NEW d \in Controllers
        PROVE  /\ At(d, "base_read")' => job'[d].version \in NamedIds'
               /\ At(d, "opened")' => job'[d].canary \in CanaryIds' \ known'
               /\ job'[d].pc \in Deciding => job'[d].canary \in known'
    BY <1>1, <1>4, <1>5, <1>7 DEF IInv, JobRefs, At, Deciding, VersionIds, NamedIds
  <2>3. ASSUME NEW d \in Controllers, NEW e \in Controllers,
               At(d, "opened")', At(e, "opened")', job'[d].canary = job'[e].canary
        PROVE  d = e
    BY <1>4, <1>5, <1>7, <2>3 DEF IInv, JobRefs, At
  <2>4. QED
    BY <2>1, <2>2, <2>3 DEF JobRefs
<1>10. CandidatesNamed'
  BY <1>1, <1>2, <1>3, <1>4 DEF IInv, CandidatesNamed, VersionIds, NamedIds
<1>11. OverridesOpen'
  BY <1>1, <1>4 DEF IInv, OverridesOpen, JobRefs
<1>12. ClearedFirst'
  BY <1>1, <1>2, <1>3, <1>4, <1>5, <1>7 DEF IInv, ClearedFirst, Deciding
<1>13. DesiredKnown'
  BY <1>1 DEF IInv, DesiredKnown, VersionIds
<1>14. \A k \in CanaryIds : WasPromoted(k)' = WasPromoted(k)
  BY <1>1, <1>4 DEF WasPromoted, VersionIds
<1>15. PromoteRecorded'
  <2>1. \A d \in Controllers : At(d, "close_promoted")' => WasPromoted(job[d].canary)'
    <3> SUFFICES ASSUME NEW d \in Controllers, At(d, "close_promoted")'
                 PROVE  WasPromoted(job[d].canary)'
      OBVIOUS
    <3>1. d # c /\ job'[d] = job[d]
      BY <1>5, <1>7 DEF At
    <3>2. job[d].canary \in CanaryIds /\ WasPromoted(job[d].canary)
      BY <3>1 DEF IInv, JobRefs, PromoteRecorded, At, Deciding
    <3>3. QED
      BY <1>14, <3>1, <3>2 DEF WasPromoted, VersionIds
  <2>2. \A k \in CanaryIds' : canary'[k].status = "promoted" => WasPromoted(k)'
    BY <1>2, <1>3, <1>4, <1>14 DEF IInv, PromoteRecorded
  <2>3. QED
    BY <2>1, <2>2 DEF PromoteRecorded
<1>16. LineageKept'
  BY <1>1, <1>5, <1>7 DEF IInv, LineageKept, Lineage, At, VersionIds
<1>17. QED
  BY <1>8, <1>9, <1>10, <1>11, <1>12, <1>13, <1>15, <1>16 DEF IInv

\* The overrides of a new canary are set before anybody knows of it, so it is
\* still open.
LEMMA StartOverrideStep ==
  ASSUME IInv, NEW c \in Controllers, StartOverride(c)
  PROVE  IInv'
<1> DEFINE i == job[c].canary
           v == canary[i].candidate_version_id
<1>1. /\ At(c, "opened")
      /\ replica_override' = [r \in Replicas |->
           IF r \in canary[i].scope THEN [version_id |-> v, canary_id |-> i]
                                    ELSE replica_override[r]]
      /\ known' = known \cup {i}
      /\ Goto(c, Idle)
      /\ UNCHANGED <<config_version, desired_state, canary, replica_status, wasDesired>>
  BY DEF StartOverride, set_overrides
<1>2. i \in CanaryIds /\ i \notin known /\ v \in NamedIds
  BY <1>1 DEF IInv, JobRefs, CandidatesNamed
<1>3. i \in Nat /\ v \in Nat
  BY <1>2, RowTypes DEF CanaryIds, NamedIds, VersionIds, IInv, TypeOK, StoreTypeOK
<1>4. canary[i].status = "observing"
  BY <1>2 DEF IInv, ClearedFirst
<1>5. /\ job' = [job EXCEPT ![c] = Idle]
      /\ job \in [Controllers -> Job]
      /\ Idle \in Job
      /\ Idle.pc = "idle"
  BY <1>1 DEF Goto, IInv, TypeOK, Idle, Job, IdleJob
<1>6. \A d \in Controllers \ {c} : At(d, "opened") => job[d].canary # i
  BY <1>1 DEF IInv, JobRefs
<1> HIDE DEF i, v
<1>7. /\ job' \in [Controllers -> Job]
      /\ job'[c] = Idle
      /\ \A d \in Controllers \ {c} : job'[d] = job[d]
  BY <1>5
<1>8. \A r \in Replicas :
        \/ replica_override'[r] = [version_id |-> v, canary_id |-> i]
        \/ replica_override'[r] = replica_override[r]
  BY <1>1
<1>9. TypeOK'
  BY <1>1, <1>3, <1>7 DEF IInv, TypeOK, StoreTypeOK, OverrideRow
<1>10. JobRefs'
  BY <1>1, <1>2, <1>5, <1>6, <1>7 DEF IInv, JobRefs, At, Deciding, CanaryIds, VersionIds, NamedIds
<1>11. CandidatesNamed' /\ DesiredKnown'
  BY <1>1 DEF IInv, CandidatesNamed, DesiredKnown, CanaryIds, VersionIds, NamedIds
<1>12. OverridesOpen'
  BY <1>1, <1>4, <1>8 DEF IInv, OverridesOpen
<1>13. ClearedFirst'
  <2>1. ASSUME NEW d \in Controllers, job'[d].pc \in Deciding \ {"window"},
               NEW r \in Replicas
        PROVE  replica_override'[r].canary_id # job'[d].canary
    <3>1. d # c /\ job'[d] = job[d]
      BY <1>5, <1>7, <2>1 DEF Deciding
    <3>2. job[d].canary \in known /\ replica_override[r].canary_id # job[d].canary
      BY <2>1, <3>1 DEF IInv, JobRefs, ClearedFirst
    <3>3. QED
      BY <1>2, <1>8, <3>1, <3>2
  <2>2. \A k \in CanaryIds' : canary'[k].status # "observing" => k \in known'
    BY <1>1 DEF IInv, ClearedFirst, CanaryIds
  <2>3. QED
    BY <2>1, <2>2 DEF ClearedFirst
<1>14. PromoteRecorded'
  BY <1>1, <1>5, <1>7 DEF IInv, PromoteRecorded, WasPromoted, At, CanaryIds, VersionIds
<1>15. LineageKept'
  BY <1>1, <1>5, <1>7 DEF IInv, LineageKept, Lineage, At, VersionIds
<1>16. QED
  BY <1>9, <1>10, <1>11, <1>12, <1>13, <1>14, <1>15 DEF IInv

\* Clearing removes every override of the canary, and nobody's but its.
LEMMA ClearStep ==
  ASSUME IInv, NEW c \in Controllers, NEW i \in known, NEW j \in Job,
         j.pc \in {"cleared_pass", "close_reverted"}, j.canary = i,
         clear_overrides(i), Goto(c, j), UNCHANGED <<known, wasDesired>>
  PROVE  IInv'
<1>1. /\ replica_override' = [r \in Replicas |->
           IF replica_override[r].canary_id = i THEN NoOverride ELSE replica_override[r]]
      /\ UNCHANGED <<config_version, desired_state, canary, replica_status>>
  BY DEF clear_overrides
<1>2. \A k \in CanaryIds : k # None
  BY DEF CanaryIds, None
<1>3. i \in CanaryIds /\ i # None
  BY <1>2 DEF IInv, JobRefs
<1>4. NoOverride \in OverrideRow /\ NoOverride.canary_id = None
  BY DEF NoOverride, OverrideRow, None
<1>5. /\ job' \in [Controllers -> Job]
      /\ job'[c] = j
      /\ \A d \in Controllers \ {c} : job'[d] = job[d]
  BY DEF Goto, IInv, TypeOK
<1>6. \A r \in Replicas :
        /\ replica_override'[r].canary_id # i
        /\ \/ replica_override'[r].canary_id = None
           \/ replica_override'[r] = replica_override[r]
  BY <1>1, <1>3, <1>4
<1>7. TypeOK'
  BY <1>1, <1>4, <1>5 DEF IInv, TypeOK, StoreTypeOK
<1>8. JobRefs'
  BY <1>1, <1>5 DEF IInv, JobRefs, At, Deciding, CanaryIds, VersionIds, NamedIds
<1>9. CandidatesNamed' /\ DesiredKnown'
  BY <1>1 DEF IInv, CandidatesNamed, DesiredKnown, CanaryIds, VersionIds, NamedIds
<1>10. OverridesOpen'
  BY <1>1, <1>6 DEF IInv, OverridesOpen
<1>11. ClearedFirst'
  <2>1. ASSUME NEW d \in Controllers, job'[d].pc \in Deciding \ {"window"},
               NEW r \in Replicas
        PROVE  replica_override'[r].canary_id # job'[d].canary
    <3>1. CASE d = c
      BY <1>5, <1>6, <3>1
    <3>2. CASE d # c
      <4>1. /\ job'[d] = job[d]
            /\ job[d].canary \in CanaryIds
            /\ replica_override[r].canary_id # job[d].canary
        BY <1>5, <2>1, <3>2 DEF IInv, JobRefs, ClearedFirst
      <4>2. QED
        BY <1>2, <1>6, <4>1
    <3>3. QED
      BY <3>1, <3>2
  <2>2. \A k \in CanaryIds' : canary'[k].status # "observing" => k \in known'
    BY <1>1 DEF IInv, ClearedFirst, CanaryIds
  <2>3. QED
    BY <2>1, <2>2 DEF ClearedFirst
<1>12. PromoteRecorded'
  BY <1>1, <1>5 DEF IInv, PromoteRecorded, WasPromoted, At, CanaryIds, VersionIds
<1>13. LineageKept'
  BY <1>1, <1>5 DEF IInv, LineageKept, Lineage, At, VersionIds
<1>14. QED
  BY <1>7, <1>8, <1>9, <1>10, <1>11, <1>12, <1>13 DEF IInv

\* A canary is closed after its overrides are gone and, as promoted, after
\* its candidate was promoted.
LEMMA CloseStep ==
  ASSUME IInv, NEW c \in Controllers, Close(c)
  PROVE  IInv'
<1> DEFINE i == job[c].canary
<1>1. PICK st \in {"promoted", "reverted"} :
        /\ At(c, "close_promoted") \/ At(c, "close_reverted")
        /\ st = "promoted" => At(c, "close_promoted")
        /\ close_canary(i, st)
  BY DEF Close
<1>2. /\ Goto(c, Idle)
      /\ UNCHANGED <<known, wasDesired>>
  BY DEF Close
<1>3. /\ canary' = [canary EXCEPT ![i].status = st]
      /\ UNCHANGED <<config_version, desired_state, replica_override, replica_status>>
  BY <1>1 DEF close_canary
<1>4. /\ i \in known
      /\ i \in CanaryIds
      /\ \A r \in Replicas : replica_override[r].canary_id # i
  BY <1>1 DEF IInv, JobRefs, ClearedFirst, At, Deciding
<1>5. st = "promoted" => WasPromoted(i)
  BY <1>1 DEF IInv, PromoteRecorded
<1>6. /\ job' = [job EXCEPT ![c] = Idle]
      /\ job \in [Controllers -> Job]
      /\ Idle \in Job
      /\ Idle.pc = "idle"
  BY <1>2 DEF Goto, IInv, TypeOK, Idle, Job, IdleJob
<1> HIDE DEF i
<1>7. /\ job' \in [Controllers -> Job]
      /\ job'[c] = Idle
      /\ \A d \in Controllers \ {c} : job'[d] = job[d]
  BY <1>6
<1>8. /\ canary' \in Seq(CanaryRow)
      /\ CanaryIds' = CanaryIds
      /\ \A k \in CanaryIds :
           /\ canary'[k].candidate_version_id = canary[k].candidate_version_id
           /\ canary'[k].status = IF k = i THEN st ELSE canary[k].status
  BY <1>3, <1>4, CloseRow DEF IInv
<1>9. TypeOK'
  BY <1>2, <1>3, <1>7, <1>8 DEF IInv, TypeOK, StoreTypeOK
<1>10. JobRefs'
  BY <1>2, <1>3, <1>6, <1>7, <1>8 DEF IInv, JobRefs, At, Deciding, VersionIds, NamedIds
<1>11. CandidatesNamed' /\ DesiredKnown'
  BY <1>2, <1>3, <1>8 DEF IInv, CandidatesNamed, DesiredKnown, VersionIds, NamedIds
<1>12. OverridesOpen'
  BY <1>2, <1>3, <1>4, <1>8 DEF IInv, OverridesOpen, JobRefs
<1>13. ClearedFirst'
  BY <1>2, <1>3, <1>4, <1>6, <1>7, <1>8 DEF IInv, ClearedFirst, Deciding
<1>14. \A k \in CanaryIds : WasPromoted(k)' = WasPromoted(k)
  BY <1>2, <1>3, <1>8 DEF WasPromoted, VersionIds
<1>15. PromoteRecorded'
  <2>1. \A d \in Controllers : At(d, "close_promoted")' => WasPromoted(job[d].canary)'
    <3> SUFFICES ASSUME NEW d \in Controllers, At(d, "close_promoted")'
                 PROVE  WasPromoted(job[d].canary)'
      OBVIOUS
    <3>1. d # c /\ job'[d] = job[d]
      BY <1>6, <1>7 DEF At
    <3>2. job[d].canary \in CanaryIds /\ WasPromoted(job[d].canary)
      BY <3>1 DEF IInv, JobRefs, PromoteRecorded, At, Deciding
    <3>3. QED
      BY <1>14, <3>1, <3>2 DEF WasPromoted, VersionIds
  <2>2. \A k \in CanaryIds' : canary'[k].status = "promoted" => WasPromoted(k)'
    BY <1>5, <1>8, <1>14 DEF IInv, PromoteRecorded
  <2>3. QED
    BY <2>1, <2>2 DEF PromoteRecorded
<1>16. LineageKept'
  BY <1>2, <1>3, <1>6, <1>7 DEF IInv, LineageKept, Lineage, At, VersionIds
<1>17. QED
  BY <1>9, <1>10, <1>11, <1>12, <1>13, <1>15, <1>16 DEF IInv

\* decide and abort clear with an id that a start has returned.
LEMMA ClearingStep ==
  ASSUME IInv, NEW c \in Controllers,
         \/ \E passed \in BOOLEAN : DecideClear(c, passed)
         \/ \E i \in CanaryIds : AbortClear(c, i)
  PROVE  IInv'
<1>1. CASE \E passed \in BOOLEAN : DecideClear(c, passed)
  <2> DEFINE i == job[c].canary
             pass == [pc |-> "cleared_pass", canary |-> i, group |-> job[c].group]
             fail == Row("close_reverted", i)
  <2>1. /\ At(c, "window")
        /\ clear_overrides(i)
        /\ Goto(c, pass) \/ Goto(c, fail)
        /\ UNCHANGED <<known, wasDesired>>
    BY <1>1 DEF DecideClear
  <2>2. i \in known /\ i \in Nat /\ job[c].group \in Groups
    BY <2>1, JobShape DEF IInv, JobRefs, At, Deciding
  <2>3. /\ pass \in Job /\ pass.pc = "cleared_pass" /\ pass.canary = i
        /\ fail \in Job /\ fail.pc = "close_reverted" /\ fail.canary = i
    BY <2>2 DEF Row, Job, RowJob, DecideJob
  <2> HIDE DEF i, pass, fail
  <2>4. QED
    BY <2>1, <2>2, <2>3, ClearStep
<1>2. CASE \E i \in CanaryIds : AbortClear(c, i)
  <2>1. PICK i \in CanaryIds : AbortClear(c, i)
    BY <1>2
  <2> DEFINE j == Row("close_reverted", i)
  <2>2. j \in Job /\ j.pc = "close_reverted" /\ j.canary = i
    BY DEF Row, Job, RowJob, CanaryIds
  <2>3. i \in known /\ clear_overrides(i) /\ Goto(c, j) /\ UNCHANGED <<known, wasDesired>>
    BY <2>1 DEF AbortClear
  <2> HIDE DEF j
  <2>4. QED
    BY <2>2, <2>3, ClearStep
<1>3. QED
  BY <1>1, <1>2

\* An empty store and idle controllers satisfy the invariant.
LEMMA InitInv == Init => IInv
<1> SUFFICES ASSUME Init
             PROVE  IInv
  OBVIOUS
<1>1. VersionIds = {} /\ CanaryIds = {}
  BY DEF Init, StoreInit, VersionIds, CanaryIds
<1>2. \A c \in Controllers : job[c].pc = "idle"
  BY DEF Init, Idle
<1>3. TypeOK
  <2>1. config_version \in Seq(VersionRow) /\ canary \in Seq(CanaryRow)
    BY EmptySeq DEF Init, StoreInit
  <2>2. Idle \in Job
    BY DEF Idle, Job, IdleJob
  <2>3. QED
    BY <2>1, <2>2 DEF Init, StoreInit, TypeOK, StoreTypeOK, NoOverride, OverrideRow,
                      StatusRow, None
<1>4. JobRefs /\ CandidatesNamed /\ PromoteRecorded /\ LineageKept
  BY <1>1, <1>2 DEF Init, JobRefs, CandidatesNamed, PromoteRecorded, LineageKept, Lineage,
                    At, Deciding
<1>5. OverridesOpen /\ ClearedFirst /\ DesiredKnown
  BY <1>1, <1>2 DEF Init, StoreInit, OverridesOpen, ClearedFirst, DesiredKnown, Deciding,
                    NoOverride, None
<1>6. QED
  BY <1>3, <1>4, <1>5 DEF IInv

\* Every command's step preserves the invariant.
LEMMA NextInv == IInv /\ [Next]_vars => IInv'
<1> SUFFICES ASSUME IInv, [Next]_vars
             PROVE  IInv'
  OBVIOUS
<1>1. CASE UNCHANGED vars
  BY <1>1 DEF vars, storeVars, IInv, TypeOK, StoreTypeOK, JobRefs, CandidatesNamed,
              OverridesOpen, ClearedFirst, DesiredKnown, PromoteRecorded, WasPromoted,
              LineageKept, Lineage, At, VersionIds, CanaryIds, NamedIds
<1>2. CASE Next
  <2>1. PICK c \in Controllers : ControllerStep(c)
    BY <1>2 DEF Next
  <2>2. CASE \E f \in Fields : ProposeInsert(c, f)
    BY <2>2, ProposeStep
  <2>3. CASE \E g \in Groups, v \in VersionIds : Promote(c, g, v)
    BY <2>3, PromoteStep
  <2>4. CASE StartOpen(c)
    BY <2>4, StartOpenStep
  <2>5. CASE StartOverride(c)
    BY <2>5, StartOverrideStep
  <2>6. CASE \/ \E passed \in BOOLEAN : DecideClear(c, passed)
             \/ \E i \in CanaryIds : AbortClear(c, i)
    BY <2>6, ClearingStep
  <2>7. CASE DecidePromote(c)
    BY <2>7, DecidePromoteStep
  <2>8. CASE Close(c)
    BY <2>8, CloseStep
  <2>9. CASE \/ \E g \in Groups : ProposeRead(c, g)
             \/ \E g \in Groups, v \in NamedIds, scope \in SUBSET Replicas :
                  StartRead(c, g, v, scope)
             \/ \E g \in Groups, i \in CanaryIds : ObserveBegin(c, g, i)
             \/ DecidePromoteRefused(c)
    BY <2>9, ReadStep
  <2>10. CASE Crash(c)
    BY <2>10, CrashStep
  <2>11. QED
    BY <2>1, <2>2, <2>3, <2>4, <2>5, <2>6, <2>7, <2>8, <2>9, <2>10 DEF ControllerStep
<1>3. QED
  BY <1>1, <1>2

-----------------------------------------------------------------------------
(* What the rows never lose. *)

RowsKept ==
  /\ \A v \in VersionIds : v \in VersionIds' /\ config_version'[v] = config_version[v]
  /\ \A i \in CanaryIds :
       /\ i \in CanaryIds'
       /\ canary'[i].candidate_version_id = canary[i].candidate_version_id
       /\ canary'[i].scope = canary[i].scope
       /\ canary[i].status # "observing" => canary'[i].status # "observing"
  /\ known \subseteq known'
  /\ \A g \in Groups : wasDesired[g] \subseteq wasDesired'[g]

\* Closing keeps the rows but for the status of one.
LEMMA CloseKeeps ==
  ASSUME IInv, NEW c \in Controllers, Close(c)
  PROVE  RowsKept
<1> DEFINE i == job[c].canary
<1>1. PICK st \in {"promoted", "reverted"} :
        /\ canary' = [canary EXCEPT ![i].status = st]
        /\ UNCHANGED <<config_version, known, wasDesired>>
  BY DEF Close, close_canary
<1>2. i \in CanaryIds
  BY DEF IInv, JobRefs, Close, At, Deciding
<1> HIDE DEF i
<1>3. /\ CanaryIds' = CanaryIds
      /\ \A j \in CanaryIds :
           /\ canary'[j].candidate_version_id = canary[j].candidate_version_id
           /\ canary'[j].status = IF j = i THEN st ELSE canary[j].status
  BY <1>1, <1>2, CloseRow DEF IInv
<1>4. \A j \in CanaryIds : canary'[j].scope = canary[j].scope
  <2>1. canary \in Seq(CanaryRow)
    BY DEF IInv, TypeOK, StoreTypeOK
  <2>2. \A j \in CanaryIds : canary'[j] = IF j = i THEN [canary[i] EXCEPT !.status = st] ELSE canary[j]
    BY <1>1, <1>2, <2>1 DEF CanaryIds
  <2>3. \A j \in CanaryIds : canary[j] \in CanaryRow
    BY RowTypes DEF IInv
  <2>4. QED
    BY <1>2, <2>2, <2>3 DEF CanaryRow
<1>5. QED
  BY <1>1, <1>3, <1>4 DEF RowsKept, VersionIds

\* Ids, candidates, scopes and verdicts outlive every step of every command.
LEMMA StoreKept ==
  ASSUME IInv, [Next]_vars
  PROVE  RowsKept
<1>1. CASE UNCHANGED vars
  BY <1>1 DEF vars, storeVars, RowsKept, VersionIds, CanaryIds
<1>2. CASE Next
  <2>1. PICK c \in Controllers : ControllerStep(c)
    BY <1>2 DEF Next
  <2>2. CASE UNCHANGED <<config_version, canary>> /\ known \subseteq known'
             /\ \A g \in Groups : wasDesired[g] \subseteq wasDesired'[g]
    BY <2>2 DEF RowsKept, VersionIds, CanaryIds
  <2>3. CASE \/ \E g \in Groups : ProposeRead(c, g)
             \/ \E g \in Groups, v \in NamedIds, sc \in SUBSET Replicas : StartRead(c, g, v, sc)
             \/ StartOverride(c)
             \/ \E g \in Groups, i \in CanaryIds : ObserveBegin(c, g, i)
             \/ \E passed \in BOOLEAN : DecideClear(c, passed)
             \/ DecidePromoteRefused(c)
             \/ \E i \in CanaryIds : AbortClear(c, i)
             \/ Crash(c)
    <3>1. UNCHANGED <<config_version, canary, wasDesired>> /\ known \subseteq known'
      BY <2>3 DEF ProposeRead, StartRead, StartOverride, ObserveBegin, DecideClear,
                  DecidePromoteRefused, AbortClear, Crash, storeVars, set_overrides, clear_overrides
    <3>2. QED
      BY <2>2, <3>1
  <2>4. CASE (\E g \in Groups, v \in VersionIds : Promote(c, g, v)) \/ DecidePromote(c)
    <3>1. UNCHANGED <<config_version, canary, known>>
      BY <2>4 DEF Promote, DecidePromote, promote, rollback
    <3>2. \A g \in Groups : wasDesired[g] \subseteq wasDesired'[g]
      BY <2>4 DEF Promote, DecidePromote, IInv, TypeOK
    <3>3. QED
      BY <2>2, <3>1, <3>2
  <2>5. CASE \E f \in Fields : ProposeInsert(c, f)
    <3>1. PICK f \in Fields : ProposeInsert(c, f)
      BY <2>5
    <3> DEFINE row == [replica_group |-> job[c].group, parent_id |-> job[c].parent, fields |-> f]
    <3>2. row \in VersionRow
      BY <3>1, JobShape DEF IInv, ProposeInsert, VersionRow
    <3>3. config_version' = Append(config_version, row) /\ UNCHANGED <<canary, known, wasDesired>>
      BY <3>1 DEF ProposeInsert, propose
    <3> HIDE DEF row
    <3>4. config_version \in Seq(VersionRow)
      BY DEF IInv, TypeOK, StoreTypeOK
    <3>5. QED
      BY <3>2, <3>3, <3>4, AppendRow DEF RowsKept, VersionIds, CanaryIds
  <2>6. CASE StartOpen(c)
    <3> DEFINE row == [replica_group |-> job[c].group, candidate_version_id |-> job[c].version,
                       baseline_version_id |-> job[c].base, scope |-> job[c].scope,
                       status |-> "observing"]
    <3>1. row \in CanaryRow
      BY <2>6, JobShape DEF IInv, StartOpen, CanaryRow
    <3>2. canary' = Append(canary, row) /\ UNCHANGED <<config_version, known, wasDesired>>
      BY <2>6 DEF StartOpen, open_canary
    <3> HIDE DEF row
    <3>3. canary \in Seq(CanaryRow)
      BY DEF IInv, TypeOK, StoreTypeOK
    <3>4. QED
      BY <3>1, <3>2, <3>3, AppendRow DEF RowsKept, VersionIds, CanaryIds
  <2>7. CASE Close(c)
    BY <2>7, CloseKeeps
  <2>8. QED
    BY <2>1, <2>3, <2>4, <2>5, <2>6, <2>7 DEF ControllerStep
<1>3. QED
  BY <1>1, <1>2

-----------------------------------------------------------------------------
(* The theorems. *)

\* The strengthened invariant holds in every reachable state.
THEOREM Inductive == Spec => []IInv
BY InitInv, NextInv, PTL DEF Spec

\* Rows, targets, overrides and the local state of every controller keep
\* their shape through any interleaving of commands.
THEOREM TypeCorrect == Spec => []TypeOK
<1>1. IInv => TypeOK
  BY DEF IInv
<1>2. QED
  BY <1>1, Inductive, PTL

\* Store.propose: a parent is older and was once the group's target, for any
\* number of versions, groups and concurrent commands.
THEOREM LineageHolds == Spec => []Lineage
<1>1. IInv => Lineage
  BY DEF IInv, LineageKept
<1>2. QED
  BY <1>1, Inductive, PTL

\* Store.promote: a group is never pointed at another group's version, even
\* by a canary decision taken with the wrong --group.
THEOREM GroupIsolation == Spec => []DesiredOwnGroup
<1>1. IInv => DesiredOwnGroup
  BY DEF IInv, DesiredKnown, DesiredOwnGroup
<1>2. QED
  BY <1>1, Inductive, PTL

\* Canary.decide, Canary.abort: no override outlives its canary, whichever
\* commands overlap or crash.
THEOREM OverridesBelongToOpenCanaries == Spec => []NoOrphanOverride
<1>1. IInv => NoOrphanOverride
  BY DEF IInv, OverridesOpen, JobRefs, NoOrphanOverride
<1>2. QED
  BY <1>1, Inductive, PTL

\* Canary.decide: a canary closed as promoted did promote its candidate.
THEOREM PromotedWasDesired == Spec => []PromotedMeansDesired
<1>1. IInv => PromotedMeansDesired
  BY DEF IInv, PromoteRecorded, WasPromoted, PromotedMeansDesired, VersionIds
<1>2. QED
  BY <1>1, Inductive, PTL

\* Canary.start, decide and abort: of all steps of the commands in several
\* calls, only a pass observed for the group moves its target, and only to the
\* candidate, after the replicas were let go.
THEOREM GroupMovesOnPass == Spec => OnlyPassMovesGroup
<1> DEFINE Moved == \A g \in Groups, c \in Controllers :
             desired_state'[g] # desired_state[g] /\ job'[c] # job[c] =>
               /\ At(c, "cleared_pass") /\ job[c].group = g
               /\ desired_state'[g] = canary[job[c].canary].candidate_version_id
               /\ \A r \in Replicas : replica_override[r].canary_id # job[c].canary
<1>1. ASSUME IInv, Next
      PROVE  Moved
  <2> SUFFICES ASSUME NEW g \in Groups, NEW c \in Controllers,
                      desired_state'[g] # desired_state[g], job'[c] # job[c]
               PROVE  /\ At(c, "cleared_pass") /\ job[c].group = g
                      /\ desired_state'[g] = canary[job[c].canary].candidate_version_id
                      /\ \A r \in Replicas : replica_override[r].canary_id # job[c].canary
    OBVIOUS
  <2>1. PICK d \in Controllers : ControllerStep(d)
    BY <1>1 DEF Next
  <2>2. ~ \E h \in Groups, v \in VersionIds : Promote(d, h, v)
    BY DEF Promote
  <2>3. desired_state' # desired_state
    OBVIOUS
  <2>4. DecidePromote(d)
    BY <2>1, <2>2, <2>3
       DEF ControllerStep, storeVars, ProposeRead, ProposeInsert, propose, StartRead,
           StartOpen, open_canary, StartOverride, set_overrides, ObserveBegin, DecideClear,
           clear_overrides, DecidePromoteRefused, Close, close_canary, AbortClear, Crash
  <2>5. /\ At(d, "cleared_pass")
        /\ desired_state' = [desired_state EXCEPT ![job[d].group] =
             canary[job[d].canary].candidate_version_id]
        /\ \E j : Goto(d, j)
    BY <2>4 DEF DecidePromote, promote
  <2>6. d = c
    BY <1>1, <2>5 DEF Goto, IInv, TypeOK
  <2>7. job[c].group = g /\ desired_state'[g] = canary[job[c].canary].candidate_version_id
    BY <1>1, <2>5, <2>6 DEF IInv, TypeOK, StoreTypeOK
  <2>8. \A r \in Replicas : replica_override[r].canary_id # job[c].canary
    BY <1>1, <2>5, <2>6 DEF IInv, ClearedFirst, At, Deciding
  <2>9. QED
    BY <2>5, <2>6, <2>7, <2>8
<1>2. IInv /\ [Next]_vars => [Moved]_vars
  BY <1>1
<1>3. QED
  BY <1>2, Inductive, PTL DEF Spec, OnlyPassMovesGroup

-----------------------------------------------------------------------------
(* Scopes stay proper parts of their group. *)

\* Only StartRead puts a scope into a job, and it has checked it.
LEMMA ScopesOfJobs ==
  ASSUME IInv, ScopesKept, NEW c \in Controllers, ControllerStep(c)
  PROVE  \A d \in Controllers :
           At(d, "base_read")' => ProperPart(job'[d].scope, job'[d].group)
<1> SUFFICES ASSUME NEW d \in Controllers, job'[d].pc = "base_read"
             PROVE  ProperPart(job'[d].scope, job'[d].group)
  BY DEF At
<1>1. job \in [Controllers -> Job]
  BY DEF IInv, TypeOK
<1>2. CASE job'[d] = job[d]
  BY <1>2 DEF ScopesKept, At
<1>3. CASE job'[d] # job[d]
  <2>1. CASE \E g \in Groups, v \in NamedIds, scope \in SUBSET Replicas :
               StartRead(c, g, v, scope)
    BY <1>1, <1>3, <2>1 DEF StartRead, Goto, ProperPart
  <2>2. CASE ~ \E g \in Groups, v \in NamedIds, scope \in SUBSET Replicas :
                 StartRead(c, g, v, scope)
    <3>1. \E j : Goto(c, j) /\ j.pc # "base_read"
      BY <1>1, <1>3, <2>2
         DEF ControllerStep, ProposeRead, ProposeInsert, Promote, StartOpen, StartOverride,
             ObserveBegin, DecideClear, DecidePromote, DecidePromoteRefused, Close,
             AbortClear, Crash, Row, Idle, Goto
    <3>2. PICK j : Goto(c, j) /\ j.pc # "base_read"
      BY <3>1
    <3>3. QED
      BY <1>1, <1>3, <3>2 DEF Goto
  <2>3. QED
    BY <2>1, <2>2
<1>4. QED
  BY <1>2, <1>3

\* A row's scope and group are those of the job that opened it.
LEMMA ScopesOfRows ==
  ASSUME IInv, ScopesKept, NEW c \in Controllers, ControllerStep(c)
  PROVE  \A i \in CanaryIds' : ProperPart(canary'[i].scope, canary'[i].replica_group)
<1>1. CASE StartOpen(c)
  <2> DEFINE row == [replica_group |-> job[c].group,
                     candidate_version_id |-> job[c].version,
                     baseline_version_id |-> job[c].base,
                     scope |-> job[c].scope, status |-> "observing"]
  <2>1. row \in CanaryRow
    BY <1>1, JobShape DEF IInv, StartOpen, CanaryRow
  <2>2. canary' = Append(canary, row)
    BY <1>1 DEF StartOpen, open_canary
  <2>3. ProperPart(row.scope, row.replica_group)
    BY <1>1 DEF StartOpen, ScopesKept
  <2> HIDE DEF row
  <2>4. /\ Len(canary) \in Nat
        /\ Len(canary') = Len(canary) + 1
        /\ \A i \in 1 .. Len(canary) : canary'[i] = canary[i]
        /\ canary'[Len(canary) + 1] = row
    BY <2>1, <2>2, AppendRow DEF IInv, TypeOK, StoreTypeOK
  <2>5. \A i \in CanaryIds' : i \in CanaryIds \/ i = Len(canary) + 1
    BY <2>4 DEF CanaryIds
  <2>6. QED
    BY <2>3, <2>4, <2>5 DEF ScopesKept, CanaryIds
<1>2. CASE Close(c)
  <2>1. PICK st \in {"promoted", "reverted"} :
          canary' = [canary EXCEPT ![job[c].canary].status = st]
    BY <1>2 DEF Close, close_canary
  <2>2. job[c].canary \in CanaryIds
    BY <1>2 DEF IInv, JobRefs, Close, At, Deciding
  <2>3. CanaryIds' = CanaryIds
    BY <2>1, <2>2, CloseRow DEF IInv
  <2>4. /\ canary \in Seq(CanaryRow)
        /\ \A i \in CanaryIds : /\ canary'[i].scope = canary[i].scope
                                /\ canary'[i].replica_group = canary[i].replica_group
    <3>1. canary \in Seq(CanaryRow) /\ DOMAIN canary = CanaryIds
      BY LenProperties DEF IInv, TypeOK, StoreTypeOK, CanaryIds
    <3>2. \A i \in CanaryIds : canary[i] \in CanaryRow
      BY RowTypes DEF IInv
    <3>3. QED
      BY <2>1, <2>2, <3>1, <3>2 DEF CanaryRow
  <2>5. QED
    BY <2>3, <2>4 DEF ScopesKept
<1>3. CASE canary' = canary
  BY <1>3 DEF ScopesKept, CanaryIds
<1>4. QED
  BY <1>1, <1>2, <1>3
     DEF ControllerStep, storeVars, ProposeRead, ProposeInsert, propose, Promote, promote,
         rollback, StartRead, StartOverride, set_overrides, ObserveBegin, DecideClear,
         clear_overrides, DecidePromote, DecidePromoteRefused, AbortClear, Crash

\* Canary.start: the scope of every canary is a proper part of its group.
THEOREM ScopesAreParts == Spec => []ScopesKept
<1>1. Init => ScopesKept
  BY DEF Init, StoreInit, ScopesKept, At, Idle, CanaryIds
<1>2. IInv /\ ScopesKept /\ [Next]_vars => ScopesKept'
  <2> SUFFICES ASSUME IInv, ScopesKept, [Next]_vars
               PROVE  ScopesKept'
    OBVIOUS
  <2>1. CASE UNCHANGED vars
    BY <2>1 DEF vars, storeVars, ScopesKept, At, CanaryIds
  <2>2. CASE Next
    <3>1. PICK c \in Controllers : ControllerStep(c)
      BY <2>2 DEF Next
    <3>2. QED
      BY <3>1, ScopesOfJobs, ScopesOfRows DEF ScopesKept, At
  <2>3. QED
    BY <2>1, <2>2
<1>3. QED
  BY <1>1, <1>2, Inductive, PTL DEF Spec

-----------------------------------------------------------------------------
(* Every step of a command is a step of Rollout. *)

MappedVersions == [v \in VersionIds |-> config_version[v].replica_group]
MappedCanaries == [i \in CanaryIds |-> [candidate |-> canary[i].candidate_version_id,
                                  status |-> canary[i].status]]

\* A table that did not change maps to the same abstract value.
LEMMA MapKept ==
  /\ config_version' = config_version => MappedVersions' = MappedVersions
  /\ canary' = canary => MappedCanaries' = MappedCanaries
BY DEF MappedVersions, MappedCanaries, VersionIds, CanaryIds

\* A sequence is a function, and so is what Append makes of it.
LEMMA AppendAsFunction ==
  ASSUME NEW S, NEW s \in Seq(S), NEW e \in S
  PROVE  Append(s, e) = [i \in 1 .. Len(s) + 1 |-> IF i = Len(s) + 1 THEN e ELSE s[i]]
<1> DEFINE t == Append(s, e)
<1>1. /\ t \in Seq(S)
      /\ Len(s) \in Nat
      /\ Len(t) = Len(s) + 1
      /\ \A i \in 1 .. Len(s) : t[i] = s[i]
      /\ t[Len(s) + 1] = e
  BY AppendRow
<1> HIDE DEF t
<1>2. t \in [1 .. Len(s) + 1 -> S]
  BY <1>1, LenProperties
<1>3. \A i \in 1 .. Len(s) + 1 : t[i] = IF i = Len(s) + 1 THEN e ELSE s[i]
  BY <1>1
<1>4. t = [i \in 1 .. Len(s) + 1 |-> IF i = Len(s) + 1 THEN e ELSE s[i]]
  BY <1>2, <1>3
<1>5. QED
  BY <1>4 DEF t

\* There are as many versions as rows.
LEMMA MappedLength ==
  ASSUME IInv
  PROVE  MappedVersions \in Seq(Groups) /\ Len(MappedVersions) = Len(config_version)
<1>1. Len(config_version) \in Nat /\ \A v \in VersionIds : config_version[v].replica_group \in Groups
  BY RowTypes DEF IInv, VersionRow
<1>2. MappedVersions \in [1 .. Len(config_version) -> Groups]
  BY <1>1 DEF MappedVersions, VersionIds
<1>3. QED
  BY <1>1, <1>2, IsASeq, LenProperties

\* propose publishes a version of the group it was read for.
LEMMA ProposeMaps ==
  ASSUME IInv, NEW c \in Controllers, NEW f \in Fields, ProposeInsert(c, f)
  PROVE  R!Next
<1> DEFINE row == [replica_group |-> job[c].group, parent_id |-> job[c].parent, fields |-> f]
           g == job[c].group
<1>1. row \in VersionRow /\ g \in Groups
  BY JobShape DEF IInv, ProposeInsert, VersionRow
<1>2. /\ config_version' = Append(config_version, row)
      /\ UNCHANGED <<desired_state, replica_override, canary, replica_status,
                     known, wasDesired>>
  BY DEF ProposeInsert, propose
<1>3. row.replica_group = g
  OBVIOUS
<1> HIDE DEF row
<1>4. /\ Len(config_version) \in Nat
      /\ Len(config_version') = Len(config_version) + 1
      /\ \A v \in 1 .. Len(config_version) : config_version'[v] = config_version[v]
      /\ config_version'[Len(config_version) + 1] = row
  BY <1>1, <1>2, AppendRow DEF IInv, TypeOK, StoreTypeOK
<1>5. MappedVersions \in Seq(Groups) /\ Len(MappedVersions) = Len(config_version)
  BY MappedLength
<1>6. MappedVersions' = Append(MappedVersions, g)
  <2>1. Append(MappedVersions, g) = [v \in 1 .. Len(config_version) + 1 |->
           IF v = Len(config_version) + 1 THEN g ELSE MappedVersions[v]]
    BY <1>1, <1>5, AppendAsFunction
  <2>2. QED
    BY <1>3, <1>4, <2>1 DEF MappedVersions, VersionIds
<1>7. MappedCanaries' = MappedCanaries
  BY <1>2, MapKept
<1>8. R!Publish(g)
  BY <1>2, <1>6, <1>7 DEF R!Publish, MappedVersions, MappedCanaries
<1>9. QED
  BY <1>1, <1>8 DEF R!Next, R!Publish

\* promote, rollback and a passing decide point the version's own group at it.
LEMMA PromoteMaps ==
  ASSUME IInv, NEW c \in Controllers,
         (\E g \in Groups, v \in VersionIds : Promote(c, g, v)) \/ DecidePromote(c)
  PROVE  R!Next
<1>1. PICK v \in VersionIds, g \in Groups :
        /\ config_version[v].replica_group = g
        /\ desired_state' = [desired_state EXCEPT ![g] = v]
        /\ wasDesired' = [wasDesired EXCEPT ![g] = @ \cup {v}]
        /\ UNCHANGED <<config_version, replica_override, canary, replica_status, known>>
  <2>1. CASE \E g \in Groups, v \in VersionIds : Promote(c, g, v)
    BY <2>1 DEF Promote, promote, rollback, InGroup
  <2>2. CASE DecidePromote(c)
    <3>1. job[c].group \in Groups
      BY <2>2, JobShape DEF IInv, DecidePromote, At
    <3>2. QED
      BY <2>2, <3>1 DEF DecidePromote, promote, InGroup
  <2>3. QED
    BY <2>1, <2>2
<1>2. MappedVersions' = MappedVersions /\ MappedCanaries' = MappedCanaries
  BY <1>1, MapKept
<1>3. MappedVersions[v] = g /\ v \in DOMAIN MappedVersions
  BY <1>1 DEF MappedVersions
<1>4. R!Point(v)
  BY <1>1, <1>2, <1>3 DEF R!Point, MappedVersions, MappedCanaries
<1>5. QED
  BY <1>3, <1>4 DEF R!Next, R!Point, MappedVersions

\* open_canary opens a canary on whatever version it was given.
LEMMA OpenMaps ==
  ASSUME IInv, NEW c \in Controllers, StartOpen(c)
  PROVE  R!Next
<1> DEFINE row == [replica_group |-> job[c].group,
                   candidate_version_id |-> job[c].version,
                   baseline_version_id |-> job[c].base,
                   scope |-> job[c].scope, status |-> "observing"]
           new == [candidate |-> job[c].version, status |-> "observing"]
<1>1. row \in CanaryRow
  BY JobShape DEF IInv, StartOpen, CanaryRow
<1>2. /\ canary' = Append(canary, row)
      /\ UNCHANGED <<config_version, desired_state, replica_override, replica_status,
                     known, wasDesired>>
  BY DEF StartOpen, open_canary
<1>3. row.candidate_version_id = job[c].version /\ row.status = "observing"
  OBVIOUS
<1>4. job[c].version \in 1 .. Len(MappedVersions) + 1
  BY MappedLength DEF IInv, JobRefs, StartOpen, NamedIds, VersionIds
<1> HIDE DEF row
<1>5. /\ Len(canary) \in Nat
      /\ Len(canary') = Len(canary) + 1
      /\ \A i \in 1 .. Len(canary) : canary'[i] = canary[i]
      /\ canary'[Len(canary) + 1] = row
  BY <1>1, <1>2, AppendRow DEF IInv, TypeOK, StoreTypeOK
<1> DEFINE T == [candidate : Nat, status : {"observing", "promoted", "reverted"}]
<1>6. new \in T /\ MappedCanaries \in Seq(T) /\ Len(MappedCanaries) = Len(canary)
  <2>1. \A i \in CanaryIds : canary[i] \in CanaryRow
    BY RowTypes DEF IInv
  <2>2. MappedCanaries \in [1 .. Len(canary) -> T]
    BY <2>1 DEF MappedCanaries, CanaryIds, CanaryRow
  <2>3. new \in T
    BY <1>4
  <2> HIDE DEF new, T
  <2>4. QED
    BY <1>5, <2>2, <2>3, IsASeq, LenProperties
<1> HIDE DEF T
<1>7. MappedCanaries' = [i \in 1 .. Len(canary) + 1 |->
                     IF i = Len(canary) + 1 THEN new ELSE MappedCanaries[i]]
  <2>1. MappedCanaries' = [i \in 1 .. Len(canary) + 1 |->
                       [candidate |-> canary'[i].candidate_version_id,
                        status |-> canary'[i].status]]
    BY <1>5 DEF MappedCanaries, CanaryIds
  <2>2. ASSUME NEW i \in 1 .. Len(canary) + 1
        PROVE  [candidate |-> canary'[i].candidate_version_id, status |-> canary'[i].status]
                 = IF i = Len(canary) + 1 THEN new ELSE MappedCanaries[i]
    <3>1. CASE i = Len(canary) + 1
      BY <1>3, <1>5, <3>1
    <3>2. CASE i \in 1 .. Len(canary) /\ i # Len(canary) + 1
      BY <1>5, <3>2 DEF MappedCanaries, CanaryIds
    <3>3. QED
      BY <1>5, <3>1, <3>2
  <2>3. QED
    BY <2>1, <2>2
<1> HIDE DEF new
<1>8. MappedCanaries' = Append(MappedCanaries, new)
  BY <1>6, <1>7, AppendAsFunction
<1>9. MappedVersions' = MappedVersions
  BY <1>2, MapKept
<1>10. R!Open(job[c].version)
  BY <1>2, <1>8, <1>9 DEF R!Open, MappedVersions, MappedCanaries, new
<1>11. QED
  BY <1>4, <1>10 DEF R!Next, R!Open, MappedVersions

\* set_overrides holds the scope of a canary that has not been started.
LEMMA HoldMaps ==
  ASSUME IInv, ScopesKept, NEW c \in Controllers, StartOverride(c)
  PROVE  R!Next
<1> DEFINE i == job[c].canary
           S == canary[i].scope
<1>1. i \in CanaryIds /\ i \notin known
  BY DEF IInv, JobRefs, StartOverride
<1>2. /\ replica_override' = [r \in Replicas |->
           IF r \in S THEN [version_id |-> canary[i].candidate_version_id, canary_id |-> i]
                      ELSE replica_override[r]]
      /\ known' = known \cup {i}
      /\ UNCHANGED <<config_version, desired_state, canary, replica_status, wasDesired>>
  BY DEF StartOverride, set_overrides
<1>3. S \in SUBSET Replicas /\ R!Part(S)
  <2>1. canary[i].replica_group \in Groups
    BY <1>1, RowTypes DEF IInv, CanaryRow
  <2>2. ProperPart(S, canary[i].replica_group)
    BY <1>1 DEF ScopesKept
  <2>3. QED
    BY <2>1, <2>2 DEF R!Part, ProperPart, Members
<1>4. MappedVersions' = MappedVersions /\ MappedCanaries' = MappedCanaries
  BY <1>2, MapKept
<1>5. i \in DOMAIN MappedCanaries /\ MappedCanaries[i].candidate = canary[i].candidate_version_id
  BY <1>1 DEF MappedCanaries
<1> HIDE DEF i, S
<1>6. R!Hold(i, S)
  BY <1>1, <1>2, <1>3, <1>4, <1>5 DEF R!Hold, MappedVersions, MappedCanaries
<1>7. QED
  BY <1>3, <1>5, <1>6 DEF R!Next, MappedVersions, MappedCanaries

\* A start that dies with its row written has had its chance to hold something.
LEMMA CrashMaps ==
  ASSUME IInv, ScopesKept, NEW c \in Controllers, Crash(c)
  PROVE  [R!Next]_(R!vars)
<1> DEFINE i == job[c].canary
<1>1. UNCHANGED <<config_version, desired_state, replica_override, canary, replica_status,
                  wasDesired>>
  BY DEF Crash, storeVars
<1>2. MappedVersions' = MappedVersions /\ MappedCanaries' = MappedCanaries
  BY <1>1, MapKept
<1>3. CASE ~At(c, "opened")
  BY <1>1, <1>2, <1>3 DEF Crash, R!vars, MappedVersions, MappedCanaries
<1>4. CASE At(c, "opened")
  <2>1. i \in CanaryIds /\ i \notin known /\ known' = known \cup {i}
    BY <1>4 DEF IInv, JobRefs, Crash
  <2> HIDE DEF i
  <2>2. R!Part({})
    <3>1. canary[i].replica_group \in Groups
      BY <2>1, RowTypes DEF IInv, CanaryRow
    <3>2. ProperPart(canary[i].scope, canary[i].replica_group)
      BY <2>1 DEF ScopesKept
    <3>3. QED
      BY <3>1, <3>2 DEF R!Part, ProperPart, Members
  <2>3. replica_override' = [r \in Replicas |->
          IF r \in {} THEN [version_id |-> canary[i].candidate_version_id, canary_id |-> i]
                      ELSE replica_override[r]]
    BY <1>1 DEF IInv, TypeOK, StoreTypeOK
  <2>4. i \in DOMAIN MappedCanaries /\ MappedCanaries[i].candidate = canary[i].candidate_version_id
    BY <2>1 DEF MappedCanaries
  <2>5. R!Hold(i, {})
    BY <1>1, <1>2, <2>1, <2>2, <2>3, <2>4 DEF R!Hold, MappedVersions, MappedCanaries
  <2>6. QED
    BY <2>4, <2>5 DEF R!Next, MappedVersions, MappedCanaries
<1>5. QED
  BY <1>3, <1>4

\* clear_overrides lets go of everything a started canary holds.
LEMMA ReleaseMaps ==
  ASSUME IInv, NEW c \in Controllers,
         \/ \E passed \in BOOLEAN : DecideClear(c, passed)
         \/ \E i \in CanaryIds : AbortClear(c, i)
  PROVE  R!Next
<1>1. PICK i \in CanaryIds :
        /\ i \in known
        /\ clear_overrides(i)
        /\ UNCHANGED <<known, wasDesired>>
  BY DEF IInv, JobRefs, DecideClear, AbortClear, At, Deciding
<1>2. replica_override' = [r \in Replicas |->
        IF replica_override[r].canary_id = i THEN R!Free ELSE replica_override[r]]
  BY <1>1 DEF clear_overrides, NoOverride, None, R!Free
<1>3. MappedVersions' = MappedVersions /\ MappedCanaries' = MappedCanaries /\ i \in DOMAIN MappedCanaries
  BY <1>1, MapKept DEF clear_overrides, MappedCanaries
<1>4. R!Release(i)
  BY <1>1, <1>2, <1>3 DEF R!Release, clear_overrides, MappedVersions, MappedCanaries
<1>5. QED
  BY <1>3, <1>4 DEF R!Next, MappedVersions, MappedCanaries

\* close_canary comes after the overrides are gone and, for a promoted
\* canary, after its candidate became a target.
LEMMA CloseMaps ==
  ASSUME IInv, NEW c \in Controllers, Close(c)
  PROVE  R!Next
<1> DEFINE i == job[c].canary
           v == canary[i].candidate_version_id
<1>1. PICK st \in {"promoted", "reverted"} :
        /\ canary' = [canary EXCEPT ![i].status = st]
        /\ st = "promoted" => At(c, "close_promoted")
        /\ UNCHANGED <<config_version, desired_state, replica_override, replica_status,
                       known, wasDesired>>
  BY DEF Close, close_canary
<1>2. /\ i \in CanaryIds /\ i \in known
      /\ \A r \in Replicas : replica_override[r].canary_id # i
  BY DEF IInv, JobRefs, ClearedFirst, Close, At, Deciding
<1>3. WasPromoted(i) => v \in DOMAIN MappedVersions /\ v \in wasDesired[MappedVersions[v]]
  BY DEF WasPromoted, MappedVersions
<1>4. st = "promoted" => v \in DOMAIN MappedVersions /\ v \in wasDesired[MappedVersions[v]]
  BY <1>1, <1>3 DEF IInv, PromoteRecorded
<1> HIDE DEF i
<1>5. /\ CanaryIds' = CanaryIds
      /\ \A j \in CanaryIds :
           /\ canary'[j].candidate_version_id = canary[j].candidate_version_id
           /\ canary'[j].status = IF j = i THEN st ELSE canary[j].status
  BY <1>1, <1>2, CloseRow DEF IInv
<1>6. MappedCanaries' = [MappedCanaries EXCEPT ![i].status = st]
  <2>1. MappedCanaries' = [j \in CanaryIds |->
                       [candidate |-> canary[j].candidate_version_id,
                        status |-> IF j = i THEN st ELSE canary[j].status]]
    BY <1>5 DEF MappedCanaries
  <2>2. QED
    BY <1>2, <2>1 DEF MappedCanaries
<1>7. MappedVersions' = MappedVersions /\ MappedCanaries[i].candidate = v /\ i \in DOMAIN MappedCanaries
  BY <1>1, <1>2, MapKept DEF MappedCanaries
<1>8. R!Close(i, st)
  BY <1>1, <1>2, <1>4, <1>6, <1>7 DEF R!Close, MappedVersions, MappedCanaries
<1>9. QED
  BY <1>7, <1>8 DEF R!Next, MappedVersions, MappedCanaries

-----------------------------------------------------------------------------
(* The refinement. *)

\* Reads and a refused promote are invisible; every other step is a step of
\* Rollout, as is a crash that leaves a canary behind.
LEMMA StepMaps ==
  ASSUME IInv, ScopesKept, [Next]_vars
  PROVE  [R!Next]_(R!vars)
<1>1. ASSUME UNCHANGED <<storeVars, known, wasDesired>>
      PROVE  UNCHANGED R!vars
  BY <1>1, MapKept DEF storeVars, R!vars, MappedVersions, MappedCanaries
<1>2. CASE UNCHANGED vars
  BY <1>1, <1>2 DEF vars
<1>3. CASE Next
  <2>1. PICK c \in Controllers : ControllerStep(c)
    BY <1>3 DEF Next
  <2>2. CASE \/ \E g \in Groups : ProposeRead(c, g)
             \/ \E g \in Groups, v \in NamedIds, scope \in SUBSET Replicas :
                  StartRead(c, g, v, scope)
             \/ \E g \in Groups, i \in CanaryIds : ObserveBegin(c, g, i)
             \/ DecidePromoteRefused(c)
    <3>1. UNCHANGED <<storeVars, known, wasDesired>>
      BY <2>2 DEF ProposeRead, StartRead, ObserveBegin, DecidePromoteRefused
    <3>2. QED
      BY <1>1, <3>1
  <2>3. CASE \E f \in Fields : ProposeInsert(c, f)
    BY <2>3, ProposeMaps
  <2>4. CASE (\E g \in Groups, v \in VersionIds : Promote(c, g, v)) \/ DecidePromote(c)
    BY <2>4, PromoteMaps
  <2>5. CASE StartOpen(c)
    BY <2>5, OpenMaps
  <2>6. CASE StartOverride(c)
    BY <2>6, HoldMaps
  <2>7. CASE \/ \E passed \in BOOLEAN : DecideClear(c, passed)
             \/ \E i \in CanaryIds : AbortClear(c, i)
    BY <2>7, ReleaseMaps
  <2>8. CASE Close(c)
    BY <2>8, CloseMaps
  <2>9. CASE Crash(c)
    BY <2>9, CrashMaps
  <2>10. QED
    BY <2>1, <2>2, <2>3, <2>4, <2>5, <2>6, <2>7, <2>8, <2>9 DEF ControllerStep
<1>4. QED
  BY <1>2, <1>3

\* Canary.start, observe, decide and abort, with propose, promote and
\* rollback, keep the promise of Rollout for any number of groups, replicas
\* and controllers, however their store calls interleave and wherever they die.
THEOREM RolloutImplemented == Spec => ImplementsRollout
<1>1. Init => R!Init
  <2> SUFFICES ASSUME Init
               PROVE  R!Init
    OBVIOUS
  <2>1. VersionIds = {} /\ CanaryIds = {}
    BY DEF Init, StoreInit, VersionIds, CanaryIds
  <2>2. QED
    BY <2>1 DEF Init, StoreInit, R!Init, R!Free, NoOverride, None
<1>2. IInv /\ ScopesKept /\ [Next]_vars => [R!Next]_(R!vars)
  BY StepMaps
<1>3. QED
  BY <1>1, <1>2, Inductive, ScopesAreParts, PTL DEF Spec, ImplementsRollout, R!Spec
=============================================================================
