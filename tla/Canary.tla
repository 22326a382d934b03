------------------------------- MODULE Canary -------------------------------
(***************************************************************************)
(* The canary orchestrator (trimtab/canary.py) and the operators' commands *)
(* on the store (trimtab/cli.py), run by several controllers at once: CLI  *)
(* invocations on several machines and the Kubernetes operator share one   *)
(* store and nothing else.  A command is a sequence of store calls, each   *)
(* committed on its own, so another controller's calls interleave with it  *)
(* and a crash (or a lost connection, which raises) can end it after any   *)
(* of them.                                                                *)
(*                                                                         *)
(* The samples and gates of an observation are abstracted to its verdict:  *)
(* DecideClear chooses it.                                                 *)
(***************************************************************************)
EXTENDS Store

CONSTANTS
  Controllers,   \* processes that run commands
  MaxVersions,   \* bound on config_version
  MaxNamed,      \* bound on a version id that is not on record and that a start names
  MaxCanaries    \* bound on canary

VARIABLES
  job,          \* controller -> the command it is in, with its local values
  known,        \* canaries whose start is over: it returned the id to its
                \* caller, or died and left its row for somebody to find
  wasDesired    \* history: group -> the versions that were ever its target

vars == <<storeVars, job, known, wasDesired>>

-----------------------------------------------------------------------------
(* A controller's local state between two store calls. *)

IdleJob    == [pc : {"idle"}]
ProposeJob == [pc : {"parent_read"}, group : Groups, parent : Nat]
OpenJob    == [pc : {"base_read"}, group : Groups, version : Nat,
               scope : SUBSET Replicas, base : Nat]
RowJob     == [pc : {"opened", "close_promoted", "close_reverted"}, canary : Nat]
DecideJob  == [pc : {"window", "cleared_pass"}, canary : Nat, group : Groups]
Job        == IdleJob \cup ProposeJob \cup OpenJob \cup RowJob \cup DecideJob

Idle == [pc |-> "idle"]
At(c, pc) == job[c].pc = pc
Goto(c, j) == job' = [job EXCEPT ![c] = j]
Row(pc, i) == [pc |-> pc, canary |-> i]

TypeOK ==
  /\ StoreTypeOK
  /\ job \in [Controllers -> Job]
  /\ known \subseteq Nat
  /\ wasDesired \in [Groups -> SUBSET Nat]

Init ==
  /\ StoreInit
  /\ job = [c \in Controllers |-> Idle]
  /\ known = {}
  /\ wasDesired = [g \in Groups |-> {}]

Members(g) == {r \in Replicas : GroupOf[r] = g}

\* What a start may name: the versions on record and the next id.
NamedIds == VersionIds \cup {v \in {Len(config_version) + 1} : v <= MaxNamed}

-----------------------------------------------------------------------------
(* propose: read the group's desired version, then append with it as the  *)
(* parent.                                                                 *)

ProposeRead(c, g) ==
  /\ At(c, "idle")
  /\ Len(config_version) < MaxVersions
  /\ Goto(c, [pc |-> "parent_read", group |-> g, parent |-> desired(g)])
  /\ UNCHANGED <<storeVars, known, wasDesired>>

ProposeInsert(c, fields) ==
  /\ At(c, "parent_read")
  /\ Len(config_version) < MaxVersions
  /\ propose(job[c].group, fields, job[c].parent)
  /\ Goto(c, Idle)
  /\ UNCHANGED <<known, wasDesired>>

\* promote and rollback are one store call.  A refused call changes nothing.
Promote(c, g, v) ==
  /\ At(c, "idle")
  /\ promote(g, v) \/ rollback(g, v)
  /\ wasDesired' = [wasDesired EXCEPT ![g] = @ \cup {v}]
  /\ UNCHANGED <<job, known>>

-----------------------------------------------------------------------------
(* Canary.start: check the scope, read the baseline, insert the row, set  *)
(* the overrides.  The version is not looked up: it may belong to another *)
(* group, or be the next id, which is not (or not yet) on record.         *)

StartRead(c, g, v, scope) ==
  /\ At(c, "idle")
  /\ Len(canary) < MaxCanaries
  /\ scope \subseteq Members(g)
  /\ scope # Members(g)
  /\ Goto(c, [pc |-> "base_read", group |-> g, version |-> v,
              scope |-> scope, base |-> desired(g)])
  /\ UNCHANGED <<storeVars, known, wasDesired>>

StartOpen(c) ==
  /\ At(c, "base_read")
  /\ Len(canary) < MaxCanaries
  /\ open_canary(job[c].group, job[c].version, job[c].scope, job[c].base)
  /\ Goto(c, Row("opened", Len(canary) + 1))
  /\ UNCHANGED <<known, wasDesired>>

StartOverride(c) ==
  LET i == job[c].canary IN
  /\ At(c, "opened")
  /\ set_overrides(canary[i].scope, canary[i].candidate_version_id, i)
  /\ known' = known \cup {i}
  /\ Goto(c, Idle)
  /\ UNCHANGED wasDesired

-----------------------------------------------------------------------------
(* Canary.observe and Canary.decide: the status is checked once, before    *)
(* the window; decide clears, promotes on a pass, and closes.  The group   *)
(* promoted is the observer's own --group, not the canary row's.           *)
(* Neither observe nor abort asks whether the start is over, but until it  *)
(* prints the id nothing shows that there is a canary to decide.           *)

ObserveBegin(c, g, i) ==
  /\ At(c, "idle")
  /\ i \in known
  /\ canary[i].status = "observing"
  /\ Goto(c, [pc |-> "window", canary |-> i, group |-> g])
  /\ UNCHANGED <<storeVars, known, wasDesired>>

DecideClear(c, passed) ==
  LET i == job[c].canary IN
  /\ At(c, "window")
  /\ clear_overrides(i)
  /\ Goto(c, IF passed THEN [pc |-> "cleared_pass", canary |-> i, group |-> job[c].group]
                       ELSE Row("close_reverted", i))
  /\ UNCHANGED <<known, wasDesired>>

DecidePromote(c) ==
  LET i == job[c].canary
      g == job[c].group
      v == canary[i].candidate_version_id IN
  /\ At(c, "cleared_pass")
  /\ promote(g, v)
  /\ wasDesired' = [wasDesired EXCEPT ![g] = @ \cup {v}]
  /\ Goto(c, Row("close_promoted", i))
  /\ UNCHANGED known

\* Mutant: the refusal is swallowed and the canary closed as promoted.
DecidePromoteSwallowed(c) ==
  LET v == canary[job[c].canary].candidate_version_id IN
  /\ At(c, "cleared_pass")
  /\ ~InGroup(v, job[c].group)
  /\ Goto(c, Row("close_promoted", job[c].canary))
  /\ UNCHANGED <<storeVars, known, wasDesired>>

\* promote raises for a candidate of another group or one that does not exist;
\* the command ends there.
DecidePromoteRefused(c) ==
  LET v == canary[job[c].canary].candidate_version_id IN
  /\ At(c, "cleared_pass")
  /\ ~InGroup(v, job[c].group)
  /\ Goto(c, Idle)
  /\ UNCHANGED <<storeVars, known, wasDesired>>

\* Mutant: closing as reverted also points the group back at the baseline.
CloseToBaseline(c) ==
  LET row == canary[job[c].canary] IN
  /\ At(c, "close_reverted")
  /\ desired_state' = [desired_state EXCEPT ![row.replica_group] = row.baseline_version_id]
  /\ canary' = [canary EXCEPT ![job[c].canary].status = "reverted"]
  /\ Goto(c, Idle)
  /\ UNCHANGED <<config_version, replica_override, replica_status, known, wasDesired>>

Close(c) ==
  /\ \/ At(c, "close_promoted") /\ close_canary(job[c].canary, "promoted")
     \/ At(c, "close_reverted") /\ close_canary(job[c].canary, "reverted")
  /\ Goto(c, Idle)
  /\ UNCHANGED <<known, wasDesired>>

\* Mutant: abort closes the canary and leaves its overrides.
AbortUncleared(c, i) ==
  /\ At(c, "idle")
  /\ i \in known
  /\ Goto(c, Row("close_reverted", i))
  /\ UNCHANGED <<storeVars, known, wasDesired>>

\* Canary.abort checks nothing; it clears and then closes as reverted.
AbortClear(c, i) ==
  /\ At(c, "idle")
  /\ i \in known
  /\ clear_overrides(i)
  /\ Goto(c, Row("close_reverted", i))
  /\ UNCHANGED <<known, wasDesired>>

\* The process dies, or a store call raises, between two calls.
Crash(c) ==
  /\ ~At(c, "idle")
  /\ known' = IF At(c, "opened") THEN known \cup {job[c].canary} ELSE known
  /\ Goto(c, Idle)
  /\ UNCHANGED <<storeVars, wasDesired>>

-----------------------------------------------------------------------------
ControllerStep(c) ==
  \/ \E g \in Groups : ProposeRead(c, g)
  \/ \E f \in Fields : ProposeInsert(c, f)
  \/ \E g \in Groups, v \in VersionIds : Promote(c, g, v)
  \/ \E g \in Groups, v \in NamedIds, scope \in SUBSET Replicas :
       StartRead(c, g, v, scope)
  \/ StartOpen(c)
  \/ StartOverride(c)
  \/ \E g \in Groups, i \in CanaryIds : ObserveBegin(c, g, i)
  \/ \E passed \in BOOLEAN : DecideClear(c, passed)
  \/ DecidePromote(c)
  \/ DecidePromoteRefused(c)
  \/ Close(c)
  \/ \E i \in CanaryIds : AbortClear(c, i)
  \/ Crash(c)

Next == \E c \in Controllers : ControllerStep(c)

Spec == Init /\ [][Next]_vars

-----------------------------------------------------------------------------
(* Properties. *)

\* Lineage (Store.propose): a version's parent is an older version that was
\* once the target of the same group, although the parent is read before the
\* row is inserted and promotes, rollbacks and canary decisions interleave.
Lineage ==
  \A v \in VersionIds :
    LET row == config_version[v] IN
    row.parent_id # None =>
      /\ row.parent_id < v
      /\ row.parent_id \in wasDesired[row.replica_group]

\* Group isolation (Store.promote): the target of a group is a version of
\* that group, whichever of promote, rollback and a canary's decision set it.
DesiredOwnGroup ==
  \A g \in Groups :
    desired_state[g] # None =>
      /\ desired_state[g] \in VersionIds
      /\ config_version[desired_state[g]].replica_group = g

\* No orphan override (Canary.decide, Canary.abort): a replica is held on a
\* candidate only by a canary that is still open, whatever crashes or
\* overlaps.  An override left by a closed canary would pin its replica.
NoOrphanOverride ==
  \A r \in Replicas :
    replica_override[r].canary_id # None =>
      /\ replica_override[r].canary_id \in CanaryIds
      /\ canary[replica_override[r].canary_id].status = "observing"

\* A canary recorded as promoted did promote (Canary.decide): its candidate
\* has been the target of the candidate's group, even if a decider died
\* halfway, the candidate belongs to another group or was not on record when
\* the canary was started, or canaries overlapped.
PromotedMeansDesired ==
  \A i \in CanaryIds :
    LET v == canary[i].candidate_version_id IN
    canary[i].status = "promoted" =>
      v \in VersionIds /\ v \in wasDesired[config_version[v].replica_group]

\* A canary moves the group only by passing (Canary.decide): if a step moves
\* a target and is a step of somebody's command in several calls, it is that
\* of an observer of this group whose gates have passed and who has let go of
\* the replicas, and the target becomes the candidate.  Starting, failing,
\* aborting or dying moves nothing.  The explicit promote and rollback are one
\* call, so they take no controller from one call to the next.
OnlyPassMovesGroup ==
  [][\A g \in Groups, c \in Controllers :
       desired_state'[g] # desired_state[g] /\ job'[c] # job[c] =>
         /\ At(c, "cleared_pass") /\ job[c].group = g
         /\ desired_state'[g] = canary[job[c].canary].candidate_version_id
         /\ \A r \in Replicas : replica_override[r].canary_id # job[c].canary]_vars

-----------------------------------------------------------------------------
(* The promise that the commands implement together. *)

R == INSTANCE Rollout WITH
  versions <- [v \in VersionIds |-> config_version[v].replica_group],
  target   <- desired_state,
  reached  <- wasDesired,
  canaries <- [i \in CanaryIds |-> [candidate |-> canary[i].candidate_version_id,
                                    status |-> canary[i].status]],
  started  <- known,
  held     <- replica_override

\* However the commands of several controllers interleave and crash, each
\* store call is one step of Rollout: a canary holds a proper part of a group
\* at most once, is closed only when it holds nothing, and is closed as
\* promoted only when its candidate was made a target (Canary.start, decide,
\* abort).
ImplementsRollout == R!Spec

-----------------------------------------------------------------------------
(* What the code, its comments or its tests say and the model refutes.     *)

\* A decision is taken once (the guard of Canary.observe: "canary .. already
\* .."): a canary closed as reverted or promoted keeps that status.
DecisionIsFinal ==
  [][\A i \in CanaryIds :
       canary[i].status # "observing" => canary'[i].status = canary[i].status]_vars

-----------------------------------------------------------------------------
(* The inductive invariant of the safety proofs. *)

Deciding == {"window", "cleared_pass", "close_promoted", "close_reverted"}

\* Whoever observes, decides or aborts has the id of a start that is over; the
\* canary that a start is opening is its own and not yet known to anybody.
JobRefs ==
  /\ known \subseteq CanaryIds
  /\ \A c \in Controllers :
       /\ At(c, "base_read") => job[c].version \in NamedIds
       /\ At(c, "opened") => job[c].canary \in CanaryIds \ known
       /\ job[c].pc \in Deciding => job[c].canary \in known
  /\ \A c, d \in Controllers :
       At(c, "opened") /\ At(d, "opened") /\ job[c].canary = job[d].canary => c = d

CandidatesNamed == \A i \in CanaryIds : canary[i].candidate_version_id \in NamedIds

\* Overrides belong to open canaries whose start is over.
OverridesOpen ==
  \A r \in Replicas :
    LET i == replica_override[r].canary_id IN
    i # None => i \in known /\ canary[i].status = "observing"

\* Overrides are cleared before a canary is closed, and never come back.
ClearedFirst ==
  /\ \A c \in Controllers :
       job[c].pc \in Deciding \ {"window"} =>
         \A r \in Replicas : replica_override[r].canary_id # job[c].canary
  /\ \A i \in CanaryIds : canary[i].status # "observing" => i \in known

DesiredKnown ==
  \A g \in Groups :
    /\ \A v \in wasDesired[g] : v \in VersionIds /\ config_version[v].replica_group = g
    /\ desired_state[g] # None => desired_state[g] \in wasDesired[g]

WasPromoted(i) ==
  LET v == canary[i].candidate_version_id IN
  v \in VersionIds /\ v \in wasDesired[config_version[v].replica_group]

\* Between the promote and the close the candidate is already on record.
PromoteRecorded ==
  /\ \A c \in Controllers : At(c, "close_promoted") => WasPromoted(job[c].canary)
  /\ \A i \in CanaryIds : canary[i].status = "promoted" => WasPromoted(i)

\* A parent that was read and not yet written is, or was, the group's target.
LineageKept ==
  /\ Lineage
  /\ \A c \in Controllers :
       At(c, "parent_read") /\ job[c].parent # None =>
         job[c].parent \in wasDesired[job[c].group]

\* A scope was checked against the group before the row was written.
ProperPart(scope, g) == scope \subseteq Members(g) /\ scope # Members(g)
ScopesKept ==
  /\ \A c \in Controllers : At(c, "base_read") => ProperPart(job[c].scope, job[c].group)
  /\ \A i \in CanaryIds : ProperPart(canary[i].scope, canary[i].replica_group)

IInv ==
  /\ TypeOK
  /\ JobRefs
  /\ CandidatesNamed
  /\ OverridesOpen
  /\ ClearedFirst
  /\ DesiredKnown
  /\ PromoteRecorded
  /\ LineageKept
=============================================================================
