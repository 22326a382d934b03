----------------------------- MODULE Reconciler -----------------------------
(***************************************************************************)
(* The per-replica daemon of trimtab/reconciler.py with its adapter        *)
(* (trimtab/adapters.py), the manifest check (trimtab/manifest.py) and the *)
(* live knobs of the engine.  A tick is a sequence of store and HTTP       *)
(* calls, so promotes, overrides, a second client of the engine            *)
(* (trimtab set), an engine restart or the daemon's own death can fall     *)
(* between any two of them.                                                *)
(*                                                                         *)
(* run() has no handler, so a call that raises (store unreachable, engine  *)
(* down, a timeout after the engine has applied) ends the process: that is *)
(* Crash at the step before or after the call.                             *)
(***************************************************************************)
EXTENDS Manifest

VARIABLES
  daemon,   \* replica -> the daemon process and its local values
  engine,   \* replica -> knob -> live value
  drift,    \* history: replica -> knobs changed behind the daemon since it set them
  torn      \* history: replica -> knobs last set by a push that was answered as failed

vars == <<storeVars, daemon, engine, drift, torn>>

-----------------------------------------------------------------------------
Daemon == [pc : {"down", "idle", "no_override", "target", "push", "posted", "answered"},
           target : Versions \cup {None}, applied : Versions \cup {None}, ok : BOOLEAN]

TypeOK ==
  /\ StoreTypeOK
  /\ daemon \in [Replicas -> Daemon]
  /\ engine \in [Replicas -> [Knobs -> Values]]
  /\ drift \in [Replicas -> SUBSET Knobs]
  /\ torn \in [Replicas -> SUBSET Knobs]

Started == [pc |-> "idle", target |-> None, applied |-> None, ok |-> FALSE]

Init ==
  /\ config_version = History
  /\ desired_state = [g \in Groups |-> None]
  /\ replica_override = [r \in Replicas |-> NoOverride]
  /\ canary = <<>>
  /\ replica_status = [r \in Replicas |-> [applied_version_id |-> None, state |-> "absent"]]
  /\ daemon = [r \in Replicas |-> Started]
  /\ engine = [r \in Replicas |-> Boot]
  /\ drift = [r \in Replicas |-> {}]
  /\ torn = [r \in Replicas |-> {}]

At(r, pc) == daemon[r].pc = pc
Step(r, pc) == daemon' = [daemon EXCEPT ![r].pc = pc]
Target(r) == FieldsOf(daemon[r].target)
Applied(r) == daemon[r].applied

-----------------------------------------------------------------------------
(* Reconciler.tick. *)

\* desired_for: one select for the override, then one for the group.
ReadOverride(r) ==
  LET v == replica_override[r].version_id IN
  /\ At(r, "idle")
  /\ v \in Versions \cup {None}
  /\ daemon' = [daemon EXCEPT ![r].pc = IF v # None THEN "target" ELSE "no_override",
                              ![r].target = v]
  /\ UNCHANGED <<storeVars, engine, drift, torn>>

\* The row of the version is read in the same call; a missing one ends run().
VersionMissing(r) ==
  /\ At(r, "idle")
  /\ replica_override[r].version_id \notin Versions \cup {None}
  /\ daemon' = [daemon EXCEPT ![r] = [Started EXCEPT !.pc = "down"]]
  /\ UNCHANGED <<storeVars, engine, drift, torn>>

ReadDesired(r) ==
  /\ At(r, "no_override")
  /\ daemon' = [daemon EXCEPT ![r].pc = "target", ![r].target = desired(GroupOf[r])]
  /\ UNCHANGED <<storeVars, engine, drift, torn>>

Converged(r) == daemon[r].target \in {None, Applied(r)}

Heartbeat(r) ==
  /\ At(r, "target")
  /\ Converged(r)
  /\ record_status(r, Applied(r), "healthy")
  /\ Step(r, "idle")
  /\ UNCHANGED <<engine, drift, torn>>

ManifestRejects(r) ==
  /\ At(r, "target")
  /\ ~Converged(r)
  /\ bad(Target(r)) # {}
  /\ record_status(r, Applied(r), "failed")
  /\ Step(r, "idle")
  /\ UNCHANGED <<engine, drift, torn>>

\* The row says "applying" before the engine is touched.
Applying(r) ==
  /\ At(r, "target")
  /\ ~Converged(r)
  /\ bad(Target(r)) = {}
  /\ record_status(r, Applied(r), "applying")
  /\ Step(r, "push")
  /\ UNCHANGED <<engine, drift, torn>>

\* adapter.set_hot, the POST; nothing is sent when there is no hot field.
SetHot(r) ==
  LET f == Target(r)
      allTaken == taken(f) = accepted(f) IN
  /\ At(r, "push")
  /\ engine' = [engine EXCEPT ![r] = after(engine[r], f)]
  /\ drift' = [drift EXCEPT ![r] = @ \ taken(f)]
  /\ torn' = [torn EXCEPT ![r] = @ \ taken(f)]
  /\ daemon' = [daemon EXCEPT
       ![r].pc = IF ComparesLive /\ allTaken /\ accepted(f) # {} THEN "posted" ELSE "answered",
       ![r].ok = allTaken]
  /\ UNCHANGED storeVars

\* SGLangAdapter.set_hot, the read-back.
ReadKnobs(r) ==
  /\ At(r, "posted")
  /\ daemon' = [daemon EXCEPT ![r].pc = "answered",
                              ![r].ok = confirmed(engine[r], Target(r))]
  /\ UNCHANGED <<storeVars, engine, drift, torn>>

EngineRejected(r) ==
  /\ At(r, "answered")
  /\ ~daemon[r].ok
  /\ record_status(r, Applied(r), "failed")
  /\ Step(r, "idle")
  /\ torn' = [torn EXCEPT ![r] = @ \cup taken(Target(r))]
  /\ UNCHANGED <<engine, drift>>

\* Mutant: applied_version_id is not remembered.
MarkForgotten(r) ==
  LET v == daemon[r].target IN
  /\ At(r, "answered")
  /\ daemon[r].ok
  /\ record_status(r, v, IF cold(Target(r)) # {} THEN "needs_reinit" ELSE "healthy")
  /\ Step(r, "idle")
  /\ UNCHANGED <<engine, drift, torn>>

MarkApplied(r) ==
  LET v == daemon[r].target IN
  /\ At(r, "answered")
  /\ daemon[r].ok
  /\ record_status(r, v, IF cold(Target(r)) # {} THEN "needs_reinit" ELSE "healthy")
  /\ daemon' = [daemon EXCEPT ![r].pc = "idle", ![r].applied = v]
  /\ UNCHANGED <<engine, drift, torn>>

Tick(r) ==
  \/ ReadOverride(r) \/ VersionMissing(r) \/ ReadDesired(r) \/ Heartbeat(r) \/ ManifestRejects(r)
  \/ Applying(r) \/ SetHot(r) \/ ReadKnobs(r) \/ EngineRejected(r) \/ MarkApplied(r)

-----------------------------------------------------------------------------
(* The process around the loop.  applied_version_id lives in its memory.   *)

\* Mutant: the dead process is left in a state nobody restarts.
CrashUnnoticed(r) ==
  /\ ~At(r, "down")
  /\ daemon' = [daemon EXCEPT ![r] = [Started EXCEPT !.pc = "killed"]]
  /\ UNCHANGED <<storeVars, engine, drift, torn>>

Crash(r) ==
  /\ ~At(r, "down")
  /\ daemon' = [daemon EXCEPT ![r] = [Started EXCEPT !.pc = "down"]]
  /\ UNCHANGED <<storeVars, engine, drift, torn>>

\* Mutant: a restarted daemon resumes from its status row.
RestartResumes(r) ==
  /\ At(r, "down")
  /\ daemon' = [daemon EXCEPT ![r] =
       [Started EXCEPT !.applied = replica_status[r].applied_version_id]]
  /\ UNCHANGED <<storeVars, engine, drift, torn>>

Restart(r) ==
  /\ At(r, "down")
  /\ daemon' = [daemon EXCEPT ![r] = Started]
  /\ UNCHANGED <<storeVars, engine, drift, torn>>

-----------------------------------------------------------------------------
(* Everyone else: operators and canaries move the target; trimtab set and  *)
(* a restart change the engine.                                            *)

Promote(g, v) ==
  /\ promote(g, v)
  /\ UNCHANGED <<daemon, engine, drift, torn>>

Override(r, v) ==
  /\ set_overrides({r}, v, 1)
  /\ UNCHANGED <<daemon, engine, drift, torn>>

ClearOverrides ==
  /\ \E r \in Replicas : replica_override[r] # NoOverride
  /\ clear_overrides(1)
  /\ UNCHANGED <<daemon, engine, drift, torn>>

CliSet(r, k, x) ==
  /\ Klass[k] = "hot"
  /\ <<k, x>> \in ManifestOK \cap EngineOK
  /\ engine' = [engine EXCEPT ![r][k] = Norm[x]]
  /\ drift' = [drift EXCEPT ![r] = @ \cup {k}]
  /\ UNCHANGED <<storeVars, daemon, torn>>

EngineRestart(r) ==
  /\ engine' = [engine EXCEPT ![r] = Boot]
  /\ drift' = [drift EXCEPT ![r] = Knobs]
  /\ UNCHANGED <<storeVars, daemon, torn>>

Next ==
  \/ \E r \in Replicas :
       \/ Tick(r) \/ Crash(r) \/ Restart(r) \/ EngineRestart(r)
       \/ \E v \in NamedVersions : Override(r, v)
       \/ \E k \in Knobs, x \in Values : CliSet(r, k, x)
  \/ \E g \in Groups, v \in Versions : Promote(g, v)
  \/ ClearOverrides

Spec == Init /\ [][Next]_vars

\* run() ticks for ever while the process lives; nothing restarts it.
LiveSpec == Spec /\ \A r \in Replicas : WF_vars(Tick(r))

-----------------------------------------------------------------------------
(* Properties. *)

\* The engine holds v's hot fields, except perhaps those in excused.
Holds(r, v, excused) ==
  \A k \in accepted(FieldsOf(v)) \ excused : engine[r][k] = Norm[FieldsOf(v)[k]]

HealthyAt(r, v) == replica_status[r] = [applied_version_id |-> v, state |-> "healthy"]

\* Reported means accepted (Reconciler.tick, set_hot): whatever crashes, is
\* retargeted in mid-tick or is set by hand, the applied_version_id in a
\* status row is a version the manifest and the engine accept in full.
StatusBacked ==
  \A r \in Replicas :
    LET v == replica_status[r].applied_version_id IN v # None => Acceptable(v)

\* Healthy means live (Reconciler.tick): while the row says healthy at a
\* version, through retargeting, crashes and restarts at any step, the engine
\* holds every hot field of it that nobody else has changed since.  It needs
\* "applying" to be written before the engine is touched, and the applied id
\* to die with the process.  The exception is fields torn by a failed push:
\* the recorded version stays, so going back to it pushes nothing.
HealthyIsLive ==
  \A r \in Replicas, v \in Versions :
    HealthyAt(r, v) => Holds(r, v, drift[r] \cup torn[r])

\* Convergence (module docstring: "retries and restarts converge"): if from
\* some point on the daemon stays up, its override or, with no override, its
\* group's version stays v, and nobody else changes the engine, the row names
\* v for good, with v's hot fields live but for those changed after the push.
\* It stays healthy if v has no other fields.  If it has, the docstring wants
\* needs_reinit reported, and the next heartbeat says healthy: nothing is
\* promised of the state then.  A target that merely keeps its value while
\* the override comes and goes is not enough: desired_for is two selects.
Converges ==
  \A r \in Replicas, v \in Versions :
    /\ Acceptable(v)
    /\ \/ <>[](~At(r, "down") /\ replica_override[r].version_id = v)
       \/ <>[](~At(r, "down") /\ replica_override[r] = NoOverride /\ desired(GroupOf[r]) = v)
    /\ <>[][engine'[r] # engine[r] => daemon'[r] # daemon[r]]_vars
    => <>[](/\ replica_status[r].applied_version_id = v
            /\ cold(FieldsOf(v)) = {} => replica_status[r].state = "healthy"
            /\ Holds(r, v, drift[r] \cup torn[r]))

-----------------------------------------------------------------------------
(* The inductive invariant of the safety proofs, replica by replica. *)

Pushing(r) == daemon[r].pc \in {"push", "posted", "answered"}
Pushed(r)  == daemon[r].pc \in {"posted", "answered"}

\* Nothing but versions on record is a group's target.
TargetsKnown == \A g \in Groups : desired_state[g] \in Versions \cup {None}

\* What is reported as applied is acceptable, and will be: a push that is
\* answered as ok was taken whole, and read back as asked.
Backed(r) ==
  /\ Applied(r) # None => Acceptable(Applied(r))
  /\ replica_status[r].applied_version_id # None
       => Acceptable(replica_status[r].applied_version_id)
  /\ At(r, "posted") => daemon[r].ok
  /\ Pushed(r) /\ daemon[r].ok => taken(Target(r)) = accepted(Target(r))
  /\ At(r, "answered") /\ daemon[r].ok => Acceptable(daemon[r].target)
  /\ \A k \in Knobs : Norm[engine[r][k]] = engine[r][k]

\* During a push the row does not say healthy, and what was pushed is live.
PushGuarded(r) ==
  /\ Pushing(r) => /\ daemon[r].target \in Versions
                   /\ bad(Target(r)) = {}
                   /\ replica_status[r].state # "healthy"
  /\ Pushed(r) => \A k \in taken(Target(r)) \ drift[r] : engine[r][k] = Norm[Target(r)[k]]

\* The version in the daemon's memory is live but for what is being pushed.
AppliedIsLive(r) ==
  Applied(r) # None =>
    Holds(r, Applied(r), drift[r] \cup torn[r] \cup (IF Pushed(r) THEN taken(Target(r)) ELSE {}))

RowIsLive(r) == \A v \in Versions : HealthyAt(r, v) => Holds(r, v, drift[r] \cup torn[r])

ReplicaInv(r) == Backed(r) /\ PushGuarded(r) /\ AppliedIsLive(r) /\ RowIsLive(r)

RecInv == TypeOK /\ TargetsKnown /\ \A r \in Replicas : ReplicaInv(r)
=============================================================================
