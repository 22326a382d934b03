# trimtab in TLA+

trimtab changes the configuration of running LLM inference servers (SGLang and
vLLM) without redeploying them. This directory holds TLA+ models of its control
plane and of the patches it applies to the engines, TLC configurations that
check them on small instances, and TLAPS proofs.

Paths are relative to the repository root (`src/` here).

## 1. Inventory

| part | state it keeps | operations | talks to |
|---|---|---|---|
| store (`trimtab/store.py`) | five tables: `config_version` (append-only), `desired_state`, `replica_override`, `canary`, `replica_status` | `propose`, `promote`, `rollback`, `set_overrides`, `clear_overrides`, `open_canary`, `close_canary`, `record_status`, reads | SQLite file or Postgres, shared by every process |
| canary orchestrator (`trimtab/canary.py`) | nothing of its own; a window of samples | `start`, `observe`, `decide`, `abort` | store, metrics |
| command line (`trimtab/cli.py`) | none | one process per command | store, engine (`set`, `get`) |
| daemon (`trimtab/reconciler.py`) | `applied_version_id`, in memory | `tick`, `run` | store, manifest, adapter |
| manifest (`trimtab/manifest.py`) | knob table | `validate`, YAML loading | - |
| adapters (`trimtab/adapters.py`) | none | `set_hot`, `reinit_warm`, `read_knobs` | engine HTTP API |
| supervisor (`trimtab/supervisor.py`) | engine process, `cold_applied`, `applied_version_id` | `tick`, `launch`, `stop`, `run` | store, adapter, the process it owns |
| SGLang patch (`engine/sglang/`) | per rank: caps, ceilings, pools, reinit generation | hot knobs, warm reinit, read-back | scheduler of each rank |
| vLLM patch (`engine/vllm/`) | caps, pending target, ceilings, sizing | `trimtab_set_knobs`, `trimtab_get_knobs`, tightening in `schedule`, `trimtab_reinit` | EngineCore |
| operator (`trimtab/operator.py`) | status of InferenceConfig objects | `reconcile_one`, `tick` | Kubernetes API, store |
| network store (`trimtab/server.py`) | one shared connection | HTTP routes, `RemoteStore` | store |
| metrics (`trimtab/metrics.py`) | last scrape per replica | `parse`, `quantile`, `sample` | engine metrics |
| mock engine, benchmarks, installers | test and deployment support | - | - |

Processes share the store and nothing else. There is no lock and no
transaction that spans two store calls, so a command or a tick is a sequence of
committed steps that interleaves with everybody else's, and that a crash can
cut anywhere. What is hard about the system:

* **canary decisions** are several store calls long and overlap with aborts,
  promotes and other canaries;
* **a replica's row** in `replica_status` is a claim about an engine that other
  parties change, that may take a version in part, and that restarts;
* **the supervisor** rebuilds an engine in place or relaunches it, both of which
  reset the hot knobs, while the engine may die at any step;
* **the engine patches** change limits that the stock scheduler asserts on, and
  rebuild memory pools with an undo path;
* **several ranks** handle one call, each under its own load;
* **the operator** writes to two systems, the store and the Kubernetes API, and
  may fail between any two of those writes;
* **the network store** runs its requests on threads that share one database
  connection, hence one transaction;
* **the gates** judge rates and quantiles of counters that restart with their
  engines.

The properties that make each part correct are in section 4; `PROJECT.json`
lists the hazards line by line and which property watches each.

## 2. Modules

| module | models | extends |
|---|---|---|
| `Store` | the tables and one operator per writing method | - |
| `Canary` | canary orchestrator and the store commands, run by several controllers | `Store` |
| `Rollout` | what store and orchestrator promise, without tables, commands or crashes; implemented by `Canary` | - |
| `Operator` | the Kubernetes operator as one of the controllers of `Canary`, and the InferenceConfig objects | `Canary` |
| `Gates` | sampling, means and gates behind a canary's verdict, over engines that serve and restart | - |
| `Manifest` | `Manifest.validate`, how an engine takes a dictionary of hot fields, and the read-back of the adapters | `Store` |
| `Reconciler` | the daemon, its adapter calls and the live knobs | `Manifest` |
| `Supervisor` | the supervisor, the engine process and its build | `Manifest` |
| `Fleet` | the commands of `Canary` and the daemons of `Reconciler` over one store | `Canary`, instance of `Reconciler` |
| `Server` | the network store's threads, statement by statement, on SQLite and Postgres | - |
| `VllmScheduler` | the vLLM patch around an external scheduler | - |
| `SglangScheduler` | the SGLang patch on every rank, and the adapter that calls it | - |
| `CanaryProofs` | theorems about `Canary`, and that it implements `Rollout` | `Canary` |
| `CompositionProofs` | theorems about what runs on top of `Canary`: `Operator` and `Fleet` | `Operator`, `Fleet`, `CanaryProofs`, instance of `ReconcilerProofs` |
| `GatesProofs` | theorems about `Gates` | `Gates` |
| `ServerProofs` | theorems about `Server` | `Server` |
| `ReconcilerProofs` | theorems about `Reconciler` | `Reconciler` |
| `SupervisorProofs` | theorems about `Supervisor` | `Supervisor` |
| `SglangSchedulerProofs` | theorems about `SglangScheduler` | `SglangScheduler` |
| `VllmSchedulerProofs` | theorems about `VllmScheduler` | `VllmScheduler` |
| `MC*` | constants for TLC | the module named |

`Store`, `Canary`, `Reconciler` and `Supervisor` form one picture: `Canary`
changes targets, `Reconciler` and `Supervisor` follow them. `Reconciler` and
`Supervisor` are each checked with the rest of the world as an environment that
may do anything the others' models can (`Promote`, `Override`,
`ClearOverrides`); `Fleet` puts the real commands next to real daemons, and
`Operator` drives the real commands from Kubernetes.

`Canary` implements `Rollout`; so does `Operator`, whose store calls are actions of
`Canary` by the way it is written.

    Operator  -- calls -->  Canary  ==ImplementsRollout==>  Rollout
                              ^
                            Fleet (Canary's commands, Reconciler's daemons)

### How state and actions correspond to the code

**Store.** A row id is a position in a sequence, so `None` is 0. Each method
ends in a commit and is one step. `propose` and `open_canary` read before they
insert; the caller's model reads in an earlier step and passes the value.

**Canary.** `job[c]` is the local state of a controller between two store
calls. `start` is `StartRead`, `StartOpen`, `StartOverride`; `observe` is
`ObserveBegin` and then `decide`: `DecideClear`, `DecidePromote` (or
`DecidePromoteRefused`, when `promote` raises) and `Close`; `abort` is
`AbortClear` and `Close`. A verdict is a free choice, so every outcome of the
gates is covered (`Gates` says how one comes about). `Crash` ends a command anywhere; it is also what a raising
call does. `start` does not look its version up, so it may name one of another
group, or the next id, which is not on record or not yet (`NamedIds`); only the
promote of a pass finds out (`InGroup`). `observe` and `abort` may name any canary
whose start is over (`known`): it returned the id, or died before or after it set
the overrides and left its row for somebody to find. The one thing they do not do
is to name a canary whose start is still about to set the overrides. The code does
not check that, but nobody has been told the id then; an abort that guessed it
would let `start` set overrides for a closed canary. `--replicas` is taken to be
the group's members. `observe` promotes its own `--group`, which need not be the
canary's. `wasDesired` is a history variable.

**Rollout.** A version is the group it was proposed for, a canary its candidate
and status; `held` says which canary a replica is held by. `Hold` takes a proper
part of one group, once per canary; `Close` needs the canary to have let go of
everything, and a target that was the candidate for `"promoted"`. The refinement
mapping is at `R` in `Canary`; `started` is `known`, which a `start` extends when
its overrides are set, or when it dies before that: such a canary never holds
anything. `Open` may name a version that does not exist, `Close` as `"promoted"`
may not.

**Operator.** `op.pc` is the position in `tick`; `op.seen` is what `list_configs`
returned, so an edit made meanwhile is not seen; `op.new_status` is the dictionary
of that name. `ApplyRead` and `ApplyInsert` are `propose`, `ApplyStart`,
`ApplyOpen` and `ApplyOverride` are `Canary.start`; each conjoins the action of
`Canary` with the operator's own step. `StartRefused` is the `ValueError` of a
scope that is not a proper part of the replicas with a status row (`reported`).
`PatchRefused` is an `HTTPError` of `patch_status`, after which `PatchError`
patches phase `error` alone. `OpCrash` is any exception `tick` does not catch, a
failing `PatchError` included; the Deployment starts the process again. `CliStep`
is a command line that promotes, observes and aborts next to it. A canary in a
spec is its scope; gates and window belong to the hash in the code and are left
out with it. `spent` is a history variable.

**Fleet.** `Command` is any step of `Canary`, `DaemonStep` and `DaemonProcess` are
the steps of `Reconciler`, on the same tables. Versions are given beforehand, and
the targets their parents were (`Parents`) with them.

**Server.** A request is a sequence of statements, each of which writes a set of
rows; a row holds the number of its last writer. `db` is what the shared
connection sees, `disk` what is durable. Handler threads interleave at every
statement, since nothing in `Store` holds a lock (`check_same_thread=False`).
`Commit` makes everybody's statements durable; on Postgres, after a failed
statement (`aborted`), it rolls everybody's back and does not raise. The
routes stand for the shapes among the writing routes: a read that may refuse and
one statement (`promote`), a statement per replica (`set_overrides`; none for an
empty scope, which still commits), one statement for several rows
(`clear_overrides`). An
exception that is neither `KeyError` nor `ValueError` ends the request without an
answer and leaves its statements in the open transaction.

**Gates.** `Sample` is one call of `PrometheusMetrics.sample` from the loop of
`observe`, scope first; `Decide` is `_mean` and `evaluate`. A page is one counter
and one histogram, exposed cumulatively as engines do: `buckets[i]` counts the
requests up to edge `i`. `Reaching` is where the loop of `quantile` stops;
`Before` is what its `prev_le` and `prev_cum` hold there. Latencies are whole milliseconds (division rounds
down), means are pairs of sum and count, ratio bounds are hundredths, the gap
between samples is the unit of time and a request generates one token. Only the
samples of a replica read its engine, so what an engine does is put right before
its next sample (`Turn`). An engine that does not answer ends `observe`
(`SampleRaises`). `fresh`, `reset` and `truth` are histories of what the engines
did. That `decide` reads the canary's row again is the free choice of `gates`.

**Reconciler.** `daemon[r].pc` is the position in `tick`: one action per branch,
split at each store or HTTP call. `desired_for` is two selects, hence
`ReadOverride` and `ReadDesired`. `ComparesLive` selects the adapter: SGLang's
`set_hot` reads back and compares, vLLM's trusts the answer. The constants
`ManifestOK`, `EngineOK`, `Norm` and `Shown` say which values pass the manifest,
which are within the engine's ceilings, how the engine stores a value
(`log_level` is upper-cased) and which knobs it shows. `run` has no handler, so
any raising call is `Crash`; the daemon's memory is lost. An override may name a
version that is not on record (`NamedVersions`), and the lookup then ends the
daemon (`VersionMissing`). `CliSet` and
`EngineRestart` are other parties; `drift` records what they changed. `torn`
records the knobs last set by a push that was answered as failed: the daemon
keeps the older `applied_version_id` then, although the engine has changed.

**Supervisor.** The same structure for `Supervisor.tick`, with the engine
process (`proc`), the cold fields it was built with (`launched`) and its hot
values (`live`). `WARM` and `COLD_FLAGS` are the adapter's and the launch
tables, under the store's field names. `Raise` is the `finally` of `run`: the
engine is stopped with its supervisor; `Doomed` says where the next call must
raise. `torn` records that a tick failed halfway or that the engine was launched
without a version since a version was last completed.

**VllmScheduler.** EngineCore runs utility calls and steps on one thread, so a
handler is one step. Requests are counts. `Schedule` and `SchedulePreempting`
are the stock step behind the patched prologue (`Tighten`); admission, preemption
and `has_requests` are external and modelled from what the patch relies on.
The outcomes of `trimtab_reinit` are built (`Reinit`), undone (`ReinitRestored`),
and two in which it raises and the pool is gone: with the config as it was
(`ReinitLost`: the first release, or the second rebuild, raises) and with what the
first rebuild wrote to the config (`ReinitStrayed`: the release at the head of the
error handler raises). `strayed` is the history of the latter. The old scheduler
stays in both, with its cap and its ceilings.

**SglangScheduler.** A call is fanned out to all ranks; each answers in a step
of its own while its load changes. `PoolOf` (external) is what
`init_memory_pools` and `get_worker_info` make of a sizing. `gen`, `tag` and
`paused` are the generations of memory-saver tags. When the undo fails too, the
handler raises, the rank dies and the server with it (`ReinitLost`).

## 3. Reading the models

`Mutant:` definitions next to an action are deliberately wrong variants of it.
They are not used by any specification; each shows that the property it is
paired with in `PROJECT.json` can fail.

## 4. What TLC checks

Passing runs:

| run | instance | properties |
|---|---|---|
| `canary` | two groups, both replicas in the first, two controllers, two versions, two canaries | `NoOrphanOverride`, `PromotedMeansDesired`, `OnlyPassMovesGroup` |
| `operator` | one object with three specs (direct, canary on one replica, canary on all), two edits, one fault, a command line | `HashBacked`, `PhaseBacked`, `ProposedOnce`, `ImplementsRollout`, `EditsArrive` |
| `fleet` | two groups, both replicas in the first, a command line with one canary, a daemon on one replica, three versions of which one is of the other group and taken in part | `BlastRadius`, `Settles` |
| `gates` | two replicas, three rounds, four requests over three buckets, one engine restart, three lists of gates | `TypeOK`, `SampleMeasures`, `QuantilesOrdered`, `SilentNeverPasses`, `ClearCases` |
| `server` | two threads, three requests, two failures, both databases | `TypeOK`, `AckedIsDurable`, `Serves` |
| `reconcile` | one SGLang replica, five versions: taken whole, above a ceiling in part, normalised, invalid, with a warm field | `TypeOK`, `StatusBacked`, `HealthyIsLive`, `Converges` |
| `supervise` | one replica, six versions: hot, warm, cold, above a ceiling, without a flag, invalid | `TypeOK`, `SupervisedIsLive`, `OnlyColdRelaunches`, `EngineConverges` |
| `vllm` | up to four requests, values up to 3 | `TypeOK`, `RunningWithinCap`, `WithinAllocation`, `ReportsTarget`, `SizingIsLastGood`, `NoAdmissionAboveTarget`, `CapReachesTarget` |
| `sglang` | two ranks, reinits up to generation 3, two attempts | `TypeOK`, `WithinPool`, `OkMeansAll`, `LivePoolMapped`, `CallReturns` |

Each property is stated in words at its definition. The type invariants of
`Canary` and `Operator`, and `DesiredOwnGroup`, which follows from
`ImplementsRollout`, are proved for every instance and not checked again. So is
`Lineage`: for a parent to be stale when its row is written takes a third version,
which the instance of `canary` cannot afford.

`HealthyIsLive` and `SupervisedIsLive` make an exception for what is `torn`, the
knobs of a push that failed halfway. `IsConverged` is the latter statement without
it, which is what the documentation says and what the code does not do.

Other properties stop where the code stops, and say so:

* `Converges` promises `healthy` of a version with hot fields only. With a warm or
  cold field the module docstring wants `needs_reinit` reported
  (`reconciler.py:9`); the next heartbeat overwrites it (`reconciler.py:34`), so
  nothing is promised of the state then, only of the version in the row and of the
  live fields.
* `Settles` promises a healthy row after every canary, and the group's fields live
  after those whose candidates the engine takes whole. `canary.py:5` says that
  canary replicas "reconcile back to baseline"; when the engine took a candidate in
  part, the daemon never recorded it, so it finds the baseline applied, pushes
  nothing and reports healthy over the candidate's values.
* `WithinAllocation` speaks of a scheduler that has a pool, and `SizingIsLastGood`
  excepts an undo that was cut short (`strayed`): the release at
  `reinit_core_body.py:53` can raise before the previous sizing is put back. The
  attempted sizing then stays in the config, possibly below the live cap, and the
  next reinit that fails takes it for the previous one and builds it.

Runs that end in a violation show where the code and what it says of itself
part. They are findings, not defects of the models:

| run | property | what happens |
|---|---|---|
| `canary_abort` | `DecisionIsFinal` | abort during another controller's window; the window ends and `decide` promotes the aborted candidate |
| `supervise_partial` | `IsConverged` | the cold part of a version is built, its hot part rejected (by the engine or by the manifest); a rollback reports healthy on the wrong build |
| `operator_error` | `VerdictReported` | the status patch of the tick that sees the verdict is refused, the handler patches phase `error`; the hash matches, only phase `canary` is followed, so the status says `error` for ever |

Further observations made while modelling, which the models reproduce but no
run singles out:

* a passing canary clears the overrides before it promotes (`canary.py:92`):
  between the two its replicas are told to go back to the baseline, and if the
  decider dies there the pass is lost and the canary stays observing;
* a passing verdict needs only one sample with the metric on each side: a scope
  of many replicas passes on the traffic of one; and a canary can be promoted
  though no daemon of its scope ever applied the candidate, as `observe` looks at
  metrics only (`canary.py:84`);
* a version's parent is read before the row is written (`store.py:99`), so the
  parent on record was a target of the group but need not be the one that the
  version replaces;
* two canaries with complementary scopes leave a group without a baseline
  replica, because `start` looks at its own scope only (`canary.py:68`);
* `start` does not look its candidate up, so it can put another group's version
  on replicas, or an id that is not on record, for which every daemon of the scope
  raises `KeyError` until the canary is closed; the promote is refused later
  (`canary.py:70`);
* after a counter reset a throughput may be negative and is averaged as it is; a
  negative baseline turns the meaning of a ratio bound around (`metrics.py:98`,
  `canary.py:44`);
* the gate vocabulary names `error_rate` (`metrics.py:10`), which no name map
  provides, so a gate on it always reverts;
* the hash of a spec leaves out its group, so moving an object to another group
  changes nothing (`operator.py:71`), and a spec whose scope is refused is
  proposed again at every tick (`operator.py:92`);
* on Postgres a failed statement is rolled back by nobody: every request fails
  from then on, until one that had all its statements executed before the
  failure commits, which rolls its own write back and is answered with ok, or
  the server restarts (`store.py:91`); on SQLite the statements of a request that
  failed halfway are made durable by the next commit of any thread;
* a client that gave up after 15 seconds reports a failure although its request
  may still be executed, after a later one (`server.py:136`);
* a version the engine took in part is reported failed and `applied_version_id`
  stays at the previous one, so a rollback to it is a no-op that reports healthy
  over foreign values (`reconciler.py:33`);
* the heartbeat after a version with cold fields overwrites `needs_reinit` with
  `healthy` (`reconciler.py:34`);
* the read-back compares literally, so a value the engine normalises
  (`log_level`) is applied and reported as rejected on every tick
  (`adapters.py:64`); a `trimtab set` between the POST and the read-back has the
  same effect once;
* a field that only the candidate names is not restored by a revert
  (`reconciler.py:45`);
* `gpu_memory_utilization` is warm on vLLM (`vllm-c0adee9.yaml:53`) but has no
  entry in `COLD_FLAGS`, so a first launch or a relaunch for a version that names
  it raises (`supervisor.py:32`);
* without a target the supervisor relaunches a dead engine bare and keeps
  `applied_version_id`, so the old target, when it returns, counts as applied
  (`supervisor.py:122`);
* a cold field without a flag is refused only after the engine was stopped
  (`supervisor.py:147`);
* an SGLang reinit that fails is undone to the live cap, which a hot change may
  have lowered, and keeps the dtype it asked for: `previous` names neither the
  allocation nor the dtype (`reinit_body.py:34`);
* `reinit_warm` retries only when the first rank is the busy one
  (`adapters.py:78`).

### Bounds

* Two controllers: the canary hazards are between two commands; a third adds no
  new pair of calls. Two versions and two canaries give a candidate, a baseline
  and an overlap. `MaxVersions`, `MaxCanaries` only stop the tables growing. The
  second group has versions and no replicas; that is enough for a candidate of
  another group to be started, observed and refused, here and in `fleet`.
  `MaxNamed` bounds an id that is not on record and that a start names: there are
  such starts before the last version is proposed, and in `fleet`, whose versions
  are given, one at any time.
* `operator`: one object, as objects meet only through the store, where the
  command line does what another object could; two versions (the second is the
  retry or the edit), two canaries, two edits, one crash or refused patch.
  `operator_error` needs no edit. `MaxVersions` could stop the operator inside
  `apply`, so the premise of `EditsArrive` asks that it does not.
* `fleet`: one command line, as overlapping commands are `canary`'s subject; one
  canary; a replica that is in its scope or not, by the choice of the scope.
* `server`: two threads are one pair of interleaved requests; a third request
  follows or replaces one of them; two failures let the second meet what the
  first left behind.
* `gates`: three rounds give two samples with rates per replica, one of which may
  straddle a restart; four requests fill two of the three buckets on both sides.
* One replica in `Reconciler` and `Supervisor`: replicas share the store only by
  reading targets that the environment already moves freely. The canary table is
  not used there, so whoever sets an override has canary id 1.
* Versions are fixed per instance and chosen to meet each branch: hot, warm,
  cold, invalid, above a ceiling, normalised, without a flag.
* vLLM: a cap of three and four requests let the cap be lowered below the
  occupancy by more than one; values 0 and 3 are the edges of the range.
* SGLang: two ranks (the first and another), two attempts (a retry exists), three
  generations (a reinit after a repeated one). `MaxGen` bounds the calls, not
  the ranks, so it blocks no handler.
* Symmetry: controllers, and replicas of one group, in safety runs only.

Deadlock is checked in every run but `gates`, where `observe` returns.

### Fairness

* `Converges`, `EngineConverges`: weak fairness of `Tick(r)`, and for the
  supervisor of the exception a doomed call raises. `run` loops for ever while the
  process lives; nothing restarts it, so the premises say that it stays up. They also say that the override or the group's version is stable:
  a stable *target* is not enough, because `desired_for` is two selects and an
  override that comes and goes between them can yield the other value each time.
* `EditsArrive`, `VerdictReported`: weak fairness of the operator's step; `run`
  ticks for ever and the Deployment restarts the process. `EditsArrive` also
  assumes a last edit and, for a canary, that the scope is from some time on a
  proper part of the replicas with a status row.
* `Settles`: weak fairness of each daemon's tick; nothing of the commands, which
  the premise asks to have come to rest.
* `Serves`: weak fairness of each handler thread; failures are bounded, and the
  property is about the time after the last one.
* `CapReachesTarget`: weak fairness of steps (EngineCore steps while it has
  requests) and of `Finish` (generation is bounded by the token limit).
* `CallReturns`: weak fairness of the ranks' handlers (requests are received
  between steps) and of the adapter.

No fairness is assumed of the people at the command line, of canaries, crashes
or loads.

## 5. What is proved

`CanaryProofs`, for every set of groups, replicas, controllers and field
dictionaries, with `GroupOf` a function from replicas to groups as the only
assumption:

* `Inductive`: `Spec => []IInv`;
* `TypeCorrect`, `LineageHolds`, `GroupIsolation` (`DesiredOwnGroup`),
  `OverridesBelongToOpenCanaries` (`NoOrphanOverride`), `PromotedWasDesired`
  (`PromotedMeansDesired`), `GroupMovesOnPass` (`OnlyPassMovesGroup`).

`OnlyPassMovesGroup` is about the controller whose local state changes in a step
that moves a target. `promote` and `rollback` are one call, so no local state
changes with them; every other step that moves a target has to be a passing
decision, whatever the other controllers are doing.

`NoOrphanOverride` does not survive a step on its own: that a canary is still
open when its overrides are set follows from nobody else knowing its id
(`JobRefs`), and that closing leaves no override from the clearing that came
before it and that nothing can undo (`ClearedFirst`). `PromotedMeansDesired`
needs the same of a decider between its promote and its close
(`PromoteRecorded`), and `Lineage` of a parent that was read but not yet written
(`LineageKept`). `DesiredKnown` ties targets to the versions on record. One lemma
per group of actions shows that the parts are preserved together.

The refinement, under the same assumption:

* `ScopesAreParts`: a canary on record has a proper part of one group in scope;
* `RolloutImplemented`: `Spec => R!Spec`. Every action of `Canary` is a step of
  `Rollout` or a stutter. The invariant supplies the guards: `Hold` needs that the
  canary was not started before (`JobRefs`: nobody else has its id), `Close` that
  the overrides are gone (`ClearedFirst`) and that a pass was preceded by the
  promote (`PromoteRecorded`).

`CompositionProofs` has the theorems about `Operator`, for every set of objects and of specs in the shape of
`OperatorAssumption`:

* `OpInductive`: `OpSpec => []OpInv`;
* `OpTypeCorrect` (`OpTypeOK`), `AppliedIsBacked` (`HashBacked`), `PhaseIsBacked`
  (`PhaseBacked`), `NothingProposedTwice` (`ProposedOnce`);
* `OperatorKeepsRollout` (`ImplementsRollout`), from the lemma `CommandsOfCanary`,
  by which everything proved of `Canary` holds for the operator.

`HashBacked` says of a status what is true of the store; a status is written long
after it was prepared and from a listing that may be older. `StatusesBacked`
therefore says the same of the listing and of the status under way: what is
backed stays backed, since versions, scopes, `known`, `wasDesired` and decisions only
grow. While a version is being applied (`Proposed`, `Starting`) the hash is not
backed yet, and only the store call that takes hold makes it so. `SpentKnown`
ties the last proposal to the status, or to the one on its way there, and says
that what is still to come of a listing is up to date, as only the operator
writes a status. `IInv` of `Canary` is part of `OpInv`, so the lemmas of
`CanaryProofs` carry over.

`CompositionProofs` also has the theorems about `Fleet`, for every set of groups,
replicas and controllers and every history of versions in the shape of
`FleetAssumption` (a version's parent is an older version of its group; manifest
and engine as in `Manifest`):

* `FleetInductive`: `FleetSpec => []FleetInv`;
* `BlastRadiusHolds` (`BlastRadius`);
* `FleetRowsAreTrue` (`StatusBacked` and `HealthyIsLive` of `Reconciler`) and
  `FleetKeepsCanary` (`Lineage`, `DesiredOwnGroup`, `NoOrphanOverride` and
  `PromotedMeansDesired` of `Canary`): neither side loses what it promises when
  the other's real steps take the place of an environment.

`BlastRadius` speaks of three places a candidate could leak to, the daemon, the
row and the live knobs, and of two histories that grow while a tick is under way:
the targets of the group and the started canaries. A daemon may hold a target
that is no longer the replica's; it is still one the replica was allowed
(`MayRunGrows`, `ContainedStays`). What a tick reads as an override is allowed
because `OverridesHeld` says that every override in force is the candidate of a
started canary that has the replica in scope. That is kept by `StartOverride`
because the scope on record is the one being written, and by everything else
because overrides are only removed. The candidate need not be on record: a daemon
that looks it up dies and takes it nowhere. A knob is what some allowed version set it to,
also when the push was torn. `IInv` and `RecInv` are parts of `FleetInv`, so
`CanaryProofs` and `ReconcilerProofs` supply the rest.

`ServerProofs`, for every set of threads, rows and routes:

* `SrvInductive`: `Spec => []SrvInv`;
* `SrvTypeCorrect` (`TypeOK`), `AckedWritesAreDurable` (`AckedIsDurable`).

That an acknowledged write is on disk follows from the moment of its commit, when
the disk becomes what the connection sees. `WritesStand` therefore says two
things: the connection shows every write of a request that is still at work, so
that a commit by anybody is as good as its own, and the disk shows it from the
request's commit on, so that a restart loses nothing that was acknowledged.
`ThreadsOwn` (a request has one thread, and no answer yet) and `WritersKnown` (a
new request has written nothing) keep requests apart, and the two lemmas on
`NotAfter` say that the order of a row's writers only grows at its end.

`ReconcilerProofs`, for every set of replicas and versions and every manifest and
engine in the shape of `Manifest`'s assumptions:

* `RecInductive`: `Spec => []RecInv`;
* `RecTypeCorrect` (`TypeOK`), `RowsAreBacked` (`StatusBacked`),
  `HealthyRowsAreLive` (`HealthyIsLive`).

A row is written several steps after the push it speaks of, and again by every
heartbeat from the version in the daemon's memory. `AppliedIsLive` therefore says
of that version what `RowIsLive` says of the row; while a push is on its way it
leaves out what is pushed, and `PushGuarded` says of those fields that they hold
the new values and that no row claims health meanwhile. `Backed` follows the
answer: an ok that is not yet read back already means that the engine took
everything. The proof uses `NormAssumption` of `Manifest`: the form in which an
engine stores a value (`int`, `upper`) is stored as itself, and what it has at
boot is in that form, which also makes every live value so. The adapter's
comparison of the asked value with the live one rests on it.

`SupervisorProofs`, under the same assumptions:

* `SupInductive`: `Spec => []SupInv`;
* `SupTypeCorrect` (`TypeOK`), `SupervisedEnginesAreLive` (`SupervisedIsLive`),
  `StoppedForColdOnly` (`OnlyColdRelaunches`), the last an action property that
  follows from the invariant before each step.

`SupervisedIsLive` speaks of the time between two ticks. `StillBuilt` carries it
through the part of a tick that only reads, for the row and for the version in the
supervisor's memory, since a heartbeat copies the one into the other. `HotKnown`
says it of the version a tick is about to complete. `ColdKnown` ties
`cold_applied`, which the code compares with the manifest, to what the running
engine was launched with; without it an engine could be kept, or stopped, on the
word of a stale record.

`SglangSchedulerProofs`, for every set of ranks, launch sizing, dictionaries of
changes and bounds:

* `SgInductive`: `Spec => []SgInv`;
* `SgTypeCorrect` (`TypeOK`), `CapsWithinPool` (`WithinPool`), `OkSpeaksForAll`
  (`OkMeansAll`), `LivePoolStaysMapped` (`LivePoolMapped`).

`WithinPool` needs that a recorded ceiling lies within the pool and that the pool
is the one its sizing asks for, with room for a request (`Allocated`, lemma
`PoolShape`); the sizing that a failed reinit goes back to is made of live values,
and `RestoredShape` shows that it is still one a pool can be built from.
`LivePoolMapped` needs the paused tags to be older than the generation
(`Mapped`): the fresh tag is then new, whatever is undone. `OkMeansAll` is said
when the answers are in, so `YesHolds` says of every single yes that its rank
holds what was asked, until the call is over. `RoomLeft` ties the bound on
generations to the attempts left; it is about the model's bound only.

`VllmSchedulerProofs`, for every launch sizing with positive entries and all
bounds:

* `Inductive`: `Spec => []IInv`;
* `TypeCorrect`, `AssertionHolds` (`RunningWithinCap`), `CapsWithinAllocation`
  (`WithinAllocation`), `ReadBackCorrect` (`ReportsTarget`),
  `FailedReinitRestores` (`SizingIsLastGood`), and `AdmissionStops`
  (`NoAdmissionAboveTarget`).

None of the safety properties is inductive alone. `RunningWithinCap` needs the
cap to be at least the occupancy after tightening, which is arithmetic of `max`;
`WithinAllocation` needs to know what the ceilings are, and they are recorded
lazily: before the first call nothing was lowered, so the live values are the
allocation; after it the ceilings equal the sizing (`CeilingsAreAllocation`). A
reinit that raises leaves neither true, but also no pool, and only a reinit that
returns, with new ceilings, makes one.
`ReportsTarget` and `AdmissionStops` need `TargetKept`: the pending value is the
last accepted one, or nothing is pending and the cap is. The restore path needs
the lemma `RestoreIsExact`: overwriting all warm keys with the previous values
gives the previous sizing back.

`GatesProofs`, for every finite set of replicas, every scope that is a proper part
of it, every ascending list of edges, every set of lists of gates and all bounds:

* `GatesInductive`: `Spec => []GatesInv`;
* `GatesTyped` (`TypeOK`), `MeasuresHolds` (`SampleMeasures`), `OrderedHolds`
  (`QuantilesOrdered`), `SilentHolds` (`SilentNeverPasses`), `ClearHolds`
  (`ClearCases`).

`AheadOfPage` is the heart: an engine shows what the page of its last sample shows
plus what it did since, and after a restart not more than that. The difference of
two pages is therefore exactly what happened (`SampleMeasures`), and a difference
with requests in it means that requests happened, restart or not
(`SilentNeverPasses`, by way of `SamplesBacked`). `PagesAgree` keeps the counter
and the histogram of a page in step. On top of it stands the arithmetic of
`quantile`, for deltas that need not grow from bucket to bucket: the loop stops,
as the total reaches every rank (`ReachingIs`); before that bucket the count is
below the rank, so the interpolated part is within the bucket (`RankWithin`,
`QuantileWithin`) and no division is by zero; a higher q stops no earlier
(`QuantileGrows`); and when the deltas do grow, the bucket is the one of the
request of that rank (`TrueBucketIs`). `ClearCases` is about sums over any number
of samples. The library's induction theorems cannot be used, so `SumExists` and
`SumBounds` argue by the smallest set for which the fold of `SumFunction` fails,
and `ClearRatios` does the rest with a least and a greatest sample on each side.

Two of the invariants are called `IInv`; they, `OpInv`, `FleetInv`, `SrvInv`,
`RecInv`, `SupInv`, `SgInv` and `GatesInv` hold on the instances of the runs
`canary`, `vllm`, `operator`, `fleet`, `server`, `reconcile`, `supervise`, `sglang`
and `gates` as well.

Every safety and action property of a passing run is stated by a theorem. Only
model-checked is liveness (`Converges`, `EngineConverges`, `EditsArrive`, `Settles`,
`Serves`, `CapReachesTarget`, `CallReturns`), which is out of the prover's reach.

## 6. What is not modelled

* Floating point: `Gates` computes with integers and exact fractions, so rounding
  at a bound is not seen. Gauges, the second histogram and the text of a page are
  left out; two counters of one page never disagree.
* Of the operator, the replicas part of a status and objects without fields, on
  which it only reports.
* Of the network store, routing, marshalling and the token; ids returned by
  concurrent inserts (`lastrowid` of the shared connection's cursor).
* The YAML parser, the patch installers and the mock engine: text handling and a
  test double. Benchmarks and deployment files keep no state.
* GPU work: profiling, graph capture, unmapping pages, rewiring of references.
  Whether a sizing fits is a free choice.
* Time: windows, intervals and timeouts are orderings of steps.
* The last-known-good cache and version-stamped ranks of `docs/spec.md`: they are
  not implemented.

## 7. Plan

Done, with proofs: every module.

1. `Fleet` with a supervisor next to the daemons: `Supervisor` keeps `SupInv` and
   contains candidates the same way next to the real commands.
2. `BlastRadius` with the operator as one of the controllers.
3. vLLM's worker: the memory pools behind `reinit_worker_body.py`.
