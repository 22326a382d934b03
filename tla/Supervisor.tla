----------------------------- MODULE Supervisor -----------------------------
(***************************************************************************)
(* trimtabd as the owner of the engine process (trimtab/supervisor.py).    *)
(* Cold and warm fields change the launch command: a warm reinit in place  *)
(* if the engine is up and allows it, a stop and a relaunch otherwise; hot *)
(* fields are pushed afterwards.  The engine can die between any two       *)
(* steps.  A call that raises (store or engine unreachable, a boot that    *)
(* fails, a field without a launch flag) leaves run() through its finally  *)
(* clause, which stops the engine: that is Raise.                          *)
(*                                                                         *)
(* A hard kill of trimtabd takes the engine with it (one container) and is *)
(* the same step.  Draining and the timings in the status detail are left  *)
(* out, and so are other clients of the engine (see Reconciler).           *)
(***************************************************************************)
EXTENDS Manifest

CONSTANTS
  WARM,        \* knobs the adapter can reinit in place, under the store's names
  COLD_FLAGS   \* knobs that have a launch flag

VARIABLES
  sup,       \* replica -> the supervisor process and its local values
  proc,      \* replica -> the engine process: "none", "up", "dead"
  launched,  \* replica -> the cold and warm fields the running engine was built with
  live,      \* replica -> knob -> live value of the hot fields
  torn       \* history: replica -> a tick failed halfway, or the engine was
             \* launched without a version, since a version was last completed

vars == <<storeVars, sup, proc, launched, live, torn>>

\* The cold part of a version, as a function.
ColdPart(f) == [k \in cold(f) |-> f[k]]
HotPart(f)  == DOMAIN f \ cold(f)
NoCold == [k \in {} |-> None]
ColdParts == UNION {[K -> Values] : K \in SUBSET Knobs}

Sup == [pc : {"down", "idle", "no_override", "target", "warm", "check", "stop",
              "boot", "refused", "hot", "answered", "done"},
        target : Versions \cup {None}, applied : Versions \cup {None},
        cold_applied : ColdParts, ok : BOOLEAN]

TypeOK ==
  /\ StoreTypeOK
  /\ sup \in [Replicas -> Sup]
  /\ proc \in [Replicas -> {"none", "up", "dead"}]
  /\ launched \in [Replicas -> ColdParts]
  /\ live \in [Replicas -> [Knobs -> Values]]
  /\ torn \in [Replicas -> BOOLEAN]

Started == [pc |-> "idle", target |-> None, applied |-> None,
            cold_applied |-> NoCold, ok |-> FALSE]

Init ==
  /\ config_version = History
  /\ desired_state = [g \in Groups |-> None]
  /\ replica_override = [r \in Replicas |-> NoOverride]
  /\ canary = <<>>
  /\ replica_status = [r \in Replicas |-> [applied_version_id |-> None, state |-> "absent"]]
  /\ sup = [r \in Replicas |-> Started]
  /\ proc = [r \in Replicas |-> "none"]
  /\ launched = [r \in Replicas |-> NoCold]
  /\ live = [r \in Replicas |-> Boot]
  /\ torn = [r \in Replicas |-> FALSE]

At(r, pc) == sup[r].pc = pc
Step(r, pc) == sup' = [sup EXCEPT ![r].pc = pc]
alive(r) == proc[r] = "up"
Target(r) == FieldsOf(sup[r].target)
Applied(r) == sup[r].applied

\* The cold part the tick works towards; with no version, what it had.
Wanted(r) == IF sup[r].target = None THEN sup[r].cold_applied ELSE ColdPart(Target(r))
Differs(r) == Wanted(r) # sup[r].cold_applied

\* build_command: every cold field needs a flag.
Launchable(c) == DOMAIN c \subseteq COLD_FLAGS

engineVars == <<proc, launched, live, torn>>

-----------------------------------------------------------------------------
(* Supervisor.tick: read the target. *)

ReadOverride(r) ==
  LET v == replica_override[r].version_id IN
  /\ At(r, "idle")
  /\ v \in Versions \cup {None}
  /\ sup' = [sup EXCEPT ![r].pc = IF v # None THEN "target" ELSE "no_override",
                        ![r].target = v]
  /\ UNCHANGED <<storeVars, engineVars>>

ReadDesired(r) ==
  /\ At(r, "no_override")
  /\ sup' = [sup EXCEPT ![r].pc = "target", ![r].target = desired(GroupOf[r])]
  /\ UNCHANGED <<storeVars, engineVars>>

\* Mutant: the engine is not looked at before reporting healthy.
HeartbeatBlind(r) ==
  /\ At(r, "target")
  /\ sup[r].target \in {None, Applied(r)}
  /\ record_status(r, sup[r].target, "healthy")
  /\ Step(r, "idle")
  /\ UNCHANGED engineVars

\* No version, or the applied one, and the engine is up.
Heartbeat(r) ==
  /\ At(r, "target")
  /\ alive(r)
  /\ sup[r].target \in {None, Applied(r)}
  /\ record_status(r, sup[r].target, "healthy")
  /\ Step(r, "idle")
  /\ UNCHANGED engineVars

\* No version and no engine: launch with the cold fields it had.
BootBare(r) ==
  /\ At(r, "target")
  /\ ~alive(r)
  /\ sup[r].target = None
  /\ Step(r, IF Launchable(Wanted(r)) THEN "boot" ELSE "refused")
  /\ UNCHANGED <<storeVars, engineVars>>

-----------------------------------------------------------------------------
(* Supervisor.tick: converge the cold part. *)

Acts(r) ==
  /\ At(r, "target")
  /\ sup[r].target # None
  /\ ~(sup[r].target = Applied(r) /\ alive(r))

\* Fields changed or added, none removed, all of them warm.
Warmable(r) ==
  LET old == sup[r].cold_applied
      new == Wanted(r)
      changed == {k \in DOMAIN new : k \notin DOMAIN old \/ old[k] # new[k]} IN
  /\ alive(r)
  /\ changed # {}
  /\ DOMAIN old \subseteq DOMAIN new
  /\ changed \subseteq WARM

SameCold(r) ==
  /\ Acts(r)
  /\ alive(r)
  /\ ~Differs(r)
  /\ Step(r, "hot")
  /\ UNCHANGED <<storeVars, engineVars>>

StartWarm(r) ==
  /\ Acts(r)
  /\ Differs(r)
  /\ Warmable(r)
  /\ record_status(r, Applied(r), "reinit")
  /\ Step(r, "warm")
  /\ UNCHANGED engineVars

\* Mutant: cold_applied is not updated after a warm reinit.
WarmForgotten(r) ==
  /\ At(r, "warm")
  /\ alive(r)
  /\ launched' = [launched EXCEPT ![r] = Wanted(r)]
  /\ live' = [live EXCEPT ![r] = Boot]
  /\ Step(r, "check")
  /\ UNCHANGED <<storeVars, proc, torn>>

\* reinit_warm succeeds: a rebuilt scheduler, its hot knobs back at boot values.
WarmOk(r) ==
  /\ At(r, "warm")
  /\ alive(r)
  /\ launched' = [launched EXCEPT ![r] = Wanted(r)]
  /\ live' = [live EXCEPT ![r] = Boot]
  /\ sup' = [sup EXCEPT ![r].pc = "check", ![r].cold_applied = Wanted(r)]
  /\ UNCHANGED <<storeVars, proc, torn>>

\* The engine stays busy or the rebuild fails and is undone.
WarmRefused(r) ==
  /\ At(r, "warm")
  /\ alive(r)
  /\ record_status(r, Applied(r), "reinit")
  /\ Step(r, "check")
  /\ UNCHANGED engineVars

\* Mutant: a warm reinit ends the tick's work, the hot part is not re-applied.
WarmIsEnough(r) ==
  /\ At(r, "check")
  /\ alive(r)
  /\ ~Differs(r)
  /\ Step(r, "done")
  /\ UNCHANGED <<storeVars, engineVars>>

WarmDone(r) ==
  /\ At(r, "check")
  /\ alive(r)
  /\ ~Differs(r)
  /\ Step(r, "hot")
  /\ UNCHANGED <<storeVars, engineVars>>

StartRelaunch(r) ==
  /\ \/ Acts(r) /\ (Differs(r) \/ ~alive(r)) /\ ~Warmable(r)
     \/ At(r, "check") /\ (Differs(r) \/ ~alive(r))
  /\ record_status(r, Applied(r), "reinit")
  /\ Step(r, "stop")
  /\ UNCHANGED engineVars

\* stop() and then build_command, in this order.
Stop(r) ==
  /\ At(r, "stop")
  /\ proc' = [proc EXCEPT ![r] = "none"]
  /\ Step(r, IF Launchable(Wanted(r)) THEN "boot" ELSE "refused")
  /\ UNCHANGED <<storeVars, launched, live, torn>>

\* The engine answers /health.
Booted(r) ==
  /\ At(r, "boot")
  /\ proc' = [proc EXCEPT ![r] = "up"]
  /\ launched' = [launched EXCEPT ![r] = Wanted(r)]
  /\ live' = [live EXCEPT ![r] = Boot]
  /\ sup' = [sup EXCEPT ![r].cold_applied = Wanted(r),
                        ![r].pc = IF sup[r].target = None THEN "done" ELSE "hot"]
  /\ torn' = [torn EXCEPT ![r] = @ \/ sup[r].target = None]
  /\ UNCHANGED storeVars

-----------------------------------------------------------------------------
(* Supervisor.tick: push the hot part, which includes what the manifest    *)
(* does not know.                                                          *)

NoHot(r) ==
  /\ At(r, "hot")
  /\ HotPart(Target(r)) = {}
  /\ Step(r, "done")
  /\ UNCHANGED <<storeVars, engineVars>>

ManifestRejects(r) ==
  /\ At(r, "hot")
  /\ bad(Target(r)) # {}
  /\ record_status(r, Applied(r), "failed")
  /\ Step(r, "idle")
  /\ torn' = [torn EXCEPT ![r] = TRUE]
  /\ UNCHANGED <<proc, launched, live>>

SetHot(r) ==
  LET f == Target(r)
      now == after(live[r], f) IN
  /\ At(r, "hot")
  /\ alive(r)
  /\ HotPart(f) # {}
  /\ bad(f) = {}
  /\ live' = [live EXCEPT ![r] = now]
  /\ sup' = [sup EXCEPT ![r].pc = "answered",
       ![r].ok = taken(f) = accepted(f) /\ (ComparesLive => confirmed(now, f))]
  /\ UNCHANGED <<storeVars, proc, launched, torn>>

EngineAnswer(r) ==
  /\ At(r, "answered")
  /\ \/ sup[r].ok /\ Step(r, "done") /\ UNCHANGED <<storeVars, torn>>
     \/ /\ ~sup[r].ok
        /\ record_status(r, Applied(r), "failed")
        /\ Step(r, "idle")
        /\ torn' = [torn EXCEPT ![r] = TRUE]
  /\ UNCHANGED <<proc, launched, live>>

\* With no version only the status is written; applied_version_id stays.
MarkApplied(r) ==
  LET v == sup[r].target IN
  /\ At(r, "done")
  /\ record_status(r, v, "healthy")
  /\ sup' = [sup EXCEPT ![r].pc = "idle", ![r].applied = IF v = None THEN @ ELSE v]
  /\ torn' = [torn EXCEPT ![r] = @ /\ v = None]
  /\ UNCHANGED <<proc, launched, live>>

Tick(r) ==
  \/ ReadOverride(r) \/ ReadDesired(r) \/ Heartbeat(r) \/ BootBare(r)
  \/ SameCold(r) \/ StartWarm(r) \/ WarmOk(r) \/ WarmRefused(r) \/ WarmDone(r)
  \/ StartRelaunch(r) \/ Stop(r) \/ Booted(r)
  \/ NoHot(r) \/ ManifestRejects(r) \/ SetHot(r) \/ EngineAnswer(r) \/ MarkApplied(r)

-----------------------------------------------------------------------------
(* The processes around the tick. *)

\* Mutant: the engine is left as a process nobody owns.
RaiseOrphans(r) ==
  /\ ~At(r, "down")
  /\ sup' = [sup EXCEPT ![r] = [Started EXCEPT !.pc = "down"]]
  /\ proc' = [proc EXCEPT ![r] = "orphan"]
  /\ UNCHANGED <<storeVars, launched, live, torn>>

Raise(r) ==
  /\ ~At(r, "down")
  /\ sup' = [sup EXCEPT ![r] = [Started EXCEPT !.pc = "down"]]
  /\ proc' = [proc EXCEPT ![r] = "none"]
  /\ UNCHANGED <<storeVars, launched, live, torn>>

Restart(r) ==
  /\ At(r, "down")
  /\ sup' = [sup EXCEPT ![r] = Started]
  /\ UNCHANGED <<storeVars, engineVars>>

EngineDies(r) ==
  /\ alive(r)
  /\ proc' = [proc EXCEPT ![r] = "dead"]
  /\ UNCHANGED <<storeVars, sup, launched, live, torn>>

Promote(g, v) == promote(g, v) /\ UNCHANGED <<sup, engineVars>>

Override(r, v) ==
  /\ set_overrides({r}, v, 1)
  /\ UNCHANGED <<sup, engineVars>>

ClearOverrides ==
  /\ \E r \in Replicas : replica_override[r] # NoOverride
  /\ clear_overrides(1)
  /\ UNCHANGED <<sup, engineVars>>

Next ==
  \/ \E r \in Replicas :
       \/ Tick(r) \/ Raise(r) \/ Restart(r) \/ EngineDies(r)
       \/ \E v \in NamedVersions : Override(r, v)
  \/ \E g \in Groups, v \in Versions : Promote(g, v)
  \/ ClearOverrides

Spec == Init /\ [][Next]_vars

\* The next call of the tick raises: no such version, no launch flag, or no
\* engine to answer.
Doomed(r) ==
  \/ At(r, "idle") /\ replica_override[r].version_id \notin Versions \cup {None}
  \/ At(r, "refused")
  \/ ~alive(r) /\ sup[r].pc \in {"warm", "hot"}

\* run() ticks for ever while the process lives.
LiveSpec == Spec /\ \A r \in Replicas : WF_vars(Tick(r) \/ (Doomed(r) /\ Raise(r)))

-----------------------------------------------------------------------------
(* Properties. *)

\* The running engine was built with exactly the cold fields of v and holds
\* its hot fields.
Built(r, v) ==
  /\ launched[r] = ColdPart(FieldsOf(v))
  /\ \A k \in accepted(FieldsOf(v)) : live[r][k] = Norm[FieldsOf(v)[k]]

HealthyAt(r, v) ==
  At(r, "idle") /\ alive(r) /\ replica_status[r] = [applied_version_id |-> v, state |-> "healthy"]

\* Healthy means built and live (Supervisor.tick): between two ticks, a row
\* that says healthy at a version is backed by a running engine built with
\* exactly its cold fields and holding its hot fields, although a reinit
\* resets the hot ones, ticks are retargeted halfway and the engine dies at
\* any point.  The exception is a replica that was torn: see IsConverged.
SupervisedIsLive ==
  \A r \in Replicas, v \in Versions : HealthyAt(r, v) /\ ~torn[r] => Built(r, v)

\* A running engine is stopped by a tick only for a cold part it was not
\* built with (the test "no restart for a hot change"): hot-only versions,
\* rejected versions and a warm reinit that succeeded never cost a relaunch.
OnlyColdRelaunches ==
  [][\A r \in Replicas :
       alive(r) /\ proc'[r] = "none" /\ sup'[r].pc # "down"
         => Wanted(r) # launched[r]]_vars

\* Convergence (Supervisor.run): if from some point on the supervisor stays
\* up, its override or its group's version stays v, v is acceptable and no
\* running engine dies any more, then the row ends up healthy at v with an
\* engine that is up: one that was dead at that point is relaunched.
EngineConverges ==
  \A r \in Replicas, v \in Versions :
    /\ Acceptable(v)
    /\ \/ <>[](~At(r, "down") /\ replica_override[r].version_id = v)
       \/ <>[](~At(r, "down") /\ replica_override[r] = NoOverride /\ desired(GroupOf[r]) = v)
    /\ <>[][alive(r) => proc'[r] # "dead"]_vars
    => <>[](alive(r) /\ replica_status[r] = [applied_version_id |-> v, state |-> "healthy"])

-----------------------------------------------------------------------------
(* What the code, its comments or its tests say and the model refutes.     *)

\* It "converges it on the desired version" (module docstring): a row that
\* says healthy at a version is backed by the engine, whatever went before.
IsConverged ==
  \A r \in Replicas, v \in Versions : HealthyAt(r, v) => Built(r, v)

-----------------------------------------------------------------------------
(* The inductive invariant of the safety proofs, replica by replica. *)

Quiet(r) == sup[r].pc \in {"idle", "no_override", "target"}

TargetsKnown == \A g \in Groups : desired_state[g] \in Versions \cup {None}

\* A running engine is the one cold_applied says, and it is stopped only if
\* that is not the one wanted; the hot part is pushed once it is.
ColdKnown(r) ==
  /\ At(r, "down") => ~alive(r)
  /\ alive(r) => launched[r] = sup[r].cold_applied
  /\ At(r, "stop") /\ alive(r) => Differs(r)
  /\ sup[r].pc \in {"warm", "check", "hot", "answered"} => sup[r].target \in Versions
  /\ sup[r].pc \in {"hot", "answered", "done"} => ~Differs(r)

\* A tick that may complete a version has its hot part live; one that completes
\* none leaves the replica torn.
HotKnown(r) ==
  /\ (At(r, "answered") /\ sup[r].ok) \/ (At(r, "done") /\ sup[r].target # None)
       => \A k \in accepted(Target(r)) : live[r][k] = Norm[Target(r)[k]]
  /\ At(r, "done") /\ sup[r].target = None => torn[r]

\* Until a tick acts, the engine is what the last one that completed made it.
StillBuilt(r) ==
  Quiet(r) /\ alive(r) /\ ~torn[r] =>
    \A v \in Versions :
      \/ Applied(r) = v
      \/ replica_status[r] = [applied_version_id |-> v, state |-> "healthy"]
      => Built(r, v)

ReplicaInv(r) == ColdKnown(r) /\ HotKnown(r) /\ StillBuilt(r)

SupInv == TypeOK /\ TargetsKnown /\ \A r \in Replicas : ReplicaInv(r)
=============================================================================
