------------------------------- MODULE Fleet -------------------------------
(***************************************************************************)
(* The control plane as a whole: the commands of Canary and the daemons of *)
(* Reconciler meet in the store's tables and nowhere else.  Versions are   *)
(* fixed beforehand (History), so that a version means the same fields to  *)
(* both; proposing is checked in Canary.                                   *)
(***************************************************************************)
EXTENDS Canary

CONSTANTS
  History, Knobs, Values, Klass, ManifestOK, EngineOK, Norm, Boot, ComparesLive, Shown,
  Up   \* replicas whose daemon takes part; daemons do not interact

VARIABLES daemon, engine, drift, torn

D == INSTANCE Reconciler

\* The parents in the history are what Canary!Lineage makes them: older
\* versions of the same group that were its target once.
Parents(g) ==
  {History[v].parent_id : v \in {u \in D!Versions : History[u].replica_group = g}} \ {None}

ASSUME FleetAssumption ==
  /\ D!HistoryAssumption /\ D!EngineAssumption /\ D!NormAssumption
  /\ MaxVersions = Len(History)
  /\ \A v \in D!Versions :
       LET p == History[v].parent_id IN
       p # None => p < v /\ History[p].replica_group = History[v].replica_group
  /\ Up \subseteq Replicas

daemonVars == <<daemon, engine, drift, torn>>
fleetVars == <<vars, daemonVars>>

FleetInit ==
  /\ D!Init
  /\ job = [c \in Controllers |-> Idle]
  /\ known = {}
  /\ wasDesired = [g \in Groups |-> Parents(g)]

Command(c) == ControllerStep(c) /\ UNCHANGED daemonVars

DaemonStep(r) == D!Tick(r) /\ UNCHANGED <<job, known, wasDesired>>

DaemonProcess(r) ==
  /\ D!Crash(r) \/ D!Restart(r)
  /\ UNCHANGED <<job, known, wasDesired>>

FleetNext ==
  \/ \E c \in Controllers : Command(c)
  \/ \E r \in Up : DaemonStep(r) \/ DaemonProcess(r)

FleetSpec == FleetInit /\ [][FleetNext]_fleetVars

\* Daemons tick for ever; operators owe nothing.
FleetLiveSpec == FleetSpec /\ \A r \in Up : WF_fleetVars(DaemonStep(r))

-----------------------------------------------------------------------------
(* Properties. *)

\* What a replica may ever be told to run: a version its group was pointed at,
\* or the candidate of a canary that has it in scope.
MayRun(r) ==
  wasDesired[GroupOf[r]] \cup
    {canary[i].candidate_version_id : i \in {j \in known : r \in canary[j].scope}}

\* Neither the daemon's target, nor what it reports, nor one live knob of its
\* engine is anything but that.
Contained(r) ==
  /\ {daemon[r].target, daemon[r].applied, replica_status[r].applied_version_id}
       \subseteq MayRun(r) \cup {None}
  /\ \A k \in Knobs :
       \/ engine[r][k] = Boot[k]
       \/ \E v \in MayRun(r) \cap D!Versions : LET f == History[v].fields IN
            k \in D!taken(f) /\ engine[r][k] = Norm[f[k]]

\* Blast radius (canary.py: "a candidate on a subset of replicas"): outside
\* its scope a candidate reaches nothing until the group is moved.
BlastRadius == \A r \in Up : Contained(r)

\* Settling (canary.py: on a failed canary "the canary replicas reconcile back
\* to baseline"): once all commands have come to rest, no open canary holds
\* the replica, and the group stays at an acceptable hot-only version, a
\* replica whose daemon stays up ends up healthy at that version, whatever
\* canaries and crashes it went through.  Its fields are all live if every
\* version it may have been told to run is one the engine takes whole; else
\* what an engine took of a candidate it refused may stay, since the daemon
\* remembers the baseline as applied and pushes nothing.
Settles ==
  \A r \in Up, v \in D!Versions :
    /\ D!Acceptable(v)
    /\ D!cold(D!FieldsOf(v)) = {}
    /\ <>[](/\ \A c \in Controllers : At(c, "idle")
            /\ LET i == replica_override[r].canary_id IN
               i # None => canary[i].status # "observing"
            /\ desired(GroupOf[r]) = v
            /\ ~D!At(r, "down"))
    => <>[](/\ D!HealthyAt(r, v)
            /\ (\A u \in MayRun(r) \cap D!Versions : D!Acceptable(u))
                 => D!Holds(r, v, {}))

-----------------------------------------------------------------------------
(* The inductive invariant of the safety proofs: those of Canary and of    *)
(* Reconciler, and what ties them together.                                *)

\* A replica is overridden with the candidate of a started canary that has it
\* in scope.
OverridesHeld ==
  \A r \in Replicas :
    LET o == replica_override[r] IN
    o.version_id # None =>
      /\ o.canary_id \in known
      /\ r \in canary[o.canary_id].scope
      /\ o.version_id = canary[o.canary_id].candidate_version_id

FleetInv ==
  /\ IInv
  /\ config_version = History
  /\ D!RecInv
  /\ OverridesHeld
  /\ BlastRadius
=============================================================================
