--------------------------- MODULE VllmScheduler ---------------------------
(***************************************************************************)
(* The vLLM side of trimtab: the hot knobs that engine/vllm/apply_patch.py *)
(* adds to EngineCore and to Scheduler.schedule, and the warm reinit of    *)
(* engine/vllm/reinit_core_body.py, around an external scheduler of which  *)
(* only the counts of running and waiting requests are kept.               *)
(*                                                                         *)
(* EngineCore runs utility calls and scheduler steps on one thread, so     *)
(* every handler is one step; what interleaves is their order.             *)
(*                                                                         *)
(* log_level and long_prefill_token_threshold are plain stores the counts  *)
(* do not depend on and are left out.  gpu_memory_utilization is a number  *)
(* of blocks; whether a sizing fits the GPU is a free choice of Reinit.    *)
(***************************************************************************)
EXTENDS Integers

CONSTANTS
  BootConfig,   \* the sizing the server was launched with
  MaxRequests,  \* bound on the requests in the engine
  MaxValue      \* bound on the values clients ask for

HotKeys  == {"max_num_seqs", "max_num_batched_tokens"}
WarmKeys == HotKeys \cup {"gpu_memory_utilization"}

ASSUME BootAssumption == BootConfig \in [WarmKeys -> Nat \ {0}]
ASSUME BoundAssumption == MaxRequests \in Nat /\ MaxValue \in Nat

VARIABLES
  running,    \* len(scheduler.running)
  waiting,    \* len(scheduler.waiting)
  flush,      \* finished request ids not yet handed to a step
  cap,        \* scheduler.max_num_running_reqs
  tokens,     \* scheduler.max_num_scheduled_tokens
  pending,    \* scheduler._trimtab_pending_max_num_seqs, 0 if None or absent
  ceilings,   \* scheduler._trimtab_ceilings, NoCeilings if absent
  config,     \* the sizing in vllm_config
  kv,         \* the KV pool is "built" or, after a reinit that raised, "lost"
  target,     \* history: last max_num_seqs accepted by this scheduler
  lastGood,   \* history: sizing of the last reinit that reported ok
  strayed     \* history: an undo was cut short, and no reinit reported ok since

requests == <<running, waiting, flush>>
vars == <<running, waiting, flush, cap, tokens, pending, ceilings, config, kv,
          target, lastGood, strayed>>

NoPending  == 0
NoCeilings == [k \in HotKeys |-> 0]

TypeOK ==
  /\ running \in Nat /\ waiting \in Nat /\ flush \in BOOLEAN
  /\ cap \in Nat /\ tokens \in Nat /\ pending \in Nat
  /\ ceilings \in [HotKeys -> Nat]
  /\ config \in [WarmKeys -> Nat \ {0}]
  /\ kv \in {"built", "lost"}
  /\ target \in Nat
  /\ lastGood \in [WarmKeys -> Nat \ {0}]
  /\ strayed \in BOOLEAN

Init ==
  /\ running = 0 /\ waiting = 0 /\ flush = FALSE
  /\ cap = BootConfig["max_num_seqs"]
  /\ tokens = BootConfig["max_num_batched_tokens"]
  /\ pending = NoPending
  /\ ceilings = NoCeilings
  /\ config = BootConfig
  /\ kv = "built"
  /\ target = BootConfig["max_num_seqs"]
  /\ lastGood = BootConfig
  /\ strayed = FALSE

max(a, b) == IF a >= b THEN a ELSE b
has_requests == running + waiting > 0 \/ flush

-----------------------------------------------------------------------------
(* EngineCore.trimtab_set_knobs and trimtab_get_knobs. *)

\* The ceilings are recorded by the first call, from the live scheduler.
Recorded ==
  IF ceilings = NoCeilings
  THEN [k \in HotKeys |-> IF k = "max_num_seqs" THEN cap ELSE tokens]
  ELSE ceilings

\* knobs is a function from some of HotKeys to numbers.
InRange(knobs, k) == k \in DOMAIN knobs /\ 1 <= knobs[k] /\ knobs[k] <= Recorded[k]

\* Mutant: the cap is set to the target whatever is running.
SetKnobsAtOnce(knobs) ==
  LET seqs == InRange(knobs, "max_num_seqs")
      batched == InRange(knobs, "max_num_batched_tokens") IN
  /\ ceilings' = Recorded
  /\ pending' = IF seqs THEN NoPending ELSE pending
  /\ cap' = IF seqs THEN knobs["max_num_seqs"] ELSE cap
  /\ target' = IF seqs THEN knobs["max_num_seqs"] ELSE target
  /\ tokens' = IF batched THEN knobs["max_num_batched_tokens"] ELSE tokens
  /\ UNCHANGED <<requests, config, kv, lastGood, strayed>>

SetKnobs(knobs) ==
  LET seqs == InRange(knobs, "max_num_seqs")
      batched == InRange(knobs, "max_num_batched_tokens") IN
  /\ ceilings' = Recorded
  /\ pending' = IF seqs THEN knobs["max_num_seqs"] ELSE pending
  /\ cap' = IF seqs THEN max(knobs["max_num_seqs"], running) ELSE cap
  /\ target' = IF seqs THEN knobs["max_num_seqs"] ELSE target
  /\ tokens' = IF batched THEN knobs["max_num_batched_tokens"] ELSE tokens
  /\ UNCHANGED <<requests, config, kv, lastGood, strayed>>

\* Mutant: the effective cap is reported.
get_effective == cap

\* The max_num_seqs that trimtab_get_knobs reports.
get_max_num_seqs == IF pending # NoPending THEN pending ELSE cap

-----------------------------------------------------------------------------
(* Scheduler.schedule: the patch tightens the cap first, then the stock    *)
(* step either preempts or admits.  EngineCore steps only while it has     *)
(* requests or finished ids to hand out.                                   *)

\* Mutant: the cap waits until it can be set in one go.
TightenLate ==
  /\ cap' = IF pending # NoPending /\ running <= pending THEN pending ELSE cap
  /\ pending' = IF running <= pending THEN NoPending ELSE pending
  /\ UNCHANGED <<tokens, ceilings, config, kv, target, lastGood, strayed>>

\* Mutant: the target is forgotten after one step.
TightenOnce ==
  /\ cap' = IF pending # NoPending THEN max(pending, running) ELSE cap
  /\ pending' = NoPending
  /\ UNCHANGED <<tokens, ceilings, config, kv, target, lastGood, strayed>>

Tighten ==
  /\ cap' = IF pending # NoPending THEN max(pending, running) ELSE cap
  /\ pending' = IF running <= pending THEN NoPending ELSE pending
  /\ UNCHANGED <<tokens, ceilings, config, kv, target, lastGood, strayed>>

Schedule(admitted) ==
  /\ kv = "built"
  /\ has_requests
  /\ Tighten
  /\ admitted <= waiting
  /\ admitted = 0 \/ running + admitted <= cap'
  /\ running' = running + admitted
  /\ waiting' = waiting - admitted
  /\ flush' = FALSE

SchedulePreempting(preempted) ==
  /\ kv = "built"
  /\ has_requests
  /\ Tighten
  /\ preempted <= running
  /\ running' = running - preempted
  /\ waiting' = waiting + preempted
  /\ flush' = FALSE

AddRequest ==
  /\ running + waiting < MaxRequests
  /\ waiting' = waiting + 1
  /\ UNCHANGED <<running, flush, cap, tokens, pending, ceilings, config, kv, target, lastGood, strayed>>

Finish ==
  /\ running > 0
  /\ running' = running - 1
  /\ flush' = TRUE
  /\ UNCHANGED <<waiting, cap, tokens, pending, ceilings, config, kv, target, lastGood, strayed>>

Abort ==
  /\ waiting > 0
  /\ waiting' = waiting - 1
  /\ flush' = TRUE
  /\ UNCHANGED <<running, cap, tokens, pending, ceilings, config, kv, target, lastGood, strayed>>

-----------------------------------------------------------------------------
(* EngineCore.trimtab_reinit on an idle engine; a busy one is refused and  *)
(* nothing changes.  The sizing is written to the config before the        *)
(* rebuild is tried.                                                       *)

Sized(c, values) == [k \in WarmKeys |-> IF k \in DOMAIN values THEN values[k] ELSE c[k]]

\* Mutant: the ceilings of the old scheduler are kept.
RebuiltOldCeilings(c) ==
  /\ running' = 0 /\ waiting' = 0 /\ flush' = FALSE
  /\ cap' = c["max_num_seqs"]
  /\ tokens' = c["max_num_batched_tokens"]
  /\ pending' = NoPending
  /\ target' = c["max_num_seqs"]
  /\ config' = c
  /\ kv' = "built"
  /\ UNCHANGED ceilings

\* Mutant: the whole sizing is taken for ceilings.
RebuiltAllCeilings(c) ==
  /\ running' = 0 /\ waiting' = 0 /\ flush' = FALSE
  /\ cap' = c["max_num_seqs"]
  /\ tokens' = c["max_num_batched_tokens"]
  /\ pending' = NoPending
  /\ target' = c["max_num_seqs"]
  /\ ceilings' = c
  /\ config' = c
  /\ kv' = "built"

\* _rebuild(values) that succeeds: a new scheduler at the new sizing.
Rebuilt(c) ==
  /\ running' = 0 /\ waiting' = 0 /\ flush' = FALSE
  /\ cap' = c["max_num_seqs"]
  /\ tokens' = c["max_num_batched_tokens"]
  /\ pending' = NoPending
  /\ target' = c["max_num_seqs"]
  /\ ceilings' = [k \in HotKeys |-> c[k]]
  /\ config' = c
  /\ kv' = "built"

Reinit(fields) ==
  /\ ~has_requests
  /\ Rebuilt(Sized(config, fields))
  /\ lastGood' = Sized(config, fields)
  /\ strayed' = FALSE

\* Mutant: the memory share is not among the values put back.
RestoredButMemory(fields) ==
  LET previous == [k \in HotKeys |-> config[k]] IN
  /\ ~has_requests
  /\ Rebuilt(Sized(Sized(config, fields), previous))
  /\ UNCHANGED <<lastGood, strayed>>

\* The rebuild raises; the previous sizing is put back and built.
ReinitRestored(fields) ==
  LET previous == config IN
  /\ ~has_requests
  /\ Rebuilt(Sized(Sized(config, fields), previous))
  /\ UNCHANGED <<lastGood, strayed>>

\* The call raises with the pool released and the old scheduler still there:
\* at the first release, with the config untouched, or at the second rebuild,
\* with the config back at the previous sizing.
ReinitLost(fields) ==
  LET previous == config IN
  /\ ~has_requests
  /\ config' = Sized(Sized(config, fields), previous)
  /\ kv' = "lost"
  /\ UNCHANGED <<requests, cap, tokens, pending, ceilings, target, lastGood, strayed>>

\* The release at the head of the handler raises: what the first rebuild wrote
\* to the config, all of the fields or (an int() that raised) some, stays.
ReinitStrayed(fields) ==
  /\ ~has_requests
  /\ config' = Sized(config, fields)
  /\ kv' = "lost"
  /\ strayed' = TRUE
  /\ UNCHANGED <<requests, cap, tokens, pending, ceilings, target, lastGood>>

-----------------------------------------------------------------------------
Requested(keys, values) == UNION {[K -> values] : K \in SUBSET keys}

Next ==
  \/ \E knobs \in Requested(HotKeys, 0 .. MaxValue) : SetKnobs(knobs)
  \/ \E n \in 0 .. MaxRequests : Schedule(n) \/ SchedulePreempting(n)
  \/ AddRequest
  \/ Finish
  \/ Abort
  \/ \E fields \in Requested(WarmKeys, 1 .. MaxValue) :
       \/ Reinit(fields) \/ ReinitRestored(fields)
       \/ ReinitLost(fields) \/ ReinitStrayed(fields)

Spec == Init /\ [][Next]_vars

\* Running requests end, and the engine steps while it has work.
LiveSpec ==
  /\ Spec
  /\ WF_vars(Finish)
  /\ WF_vars(\E n \in 0 .. MaxRequests : Schedule(n) \/ SchedulePreempting(n))

-----------------------------------------------------------------------------
(* Properties. *)

\* The assertion of the stock scheduler that the patch works around ("The
\* scheduler asserts len(running) <= cap every step"): lowering the cap
\* under load never leaves more requests running than the cap.
RunningWithinCap == running <= cap

\* Ceilings (trimtab_set_knobs): while there is a pool, the cap and the token
\* budget never exceed what it was allocated for, although the ceilings are
\* recorded from the live scheduler at the first call, rewritten by every
\* reinit that returns and outlive the pool in one that raises.  Without a
\* pool the config may be at a smaller sizing than the scheduler's.
WithinAllocation ==
  kv = "built" =>
    /\ 1 <= cap /\ cap <= config["max_num_seqs"]
    /\ 1 <= tokens /\ tokens <= config["max_num_batched_tokens"]

\* Read-back (trimtab_get_knobs): the reported max_num_seqs is the last one
\* accepted, before, while and after the cap is tightened to it.
ReportsTarget == get_max_num_seqs = target

\* Stop admitting now (trimtab_set_knobs): from the moment a lower cap is
\* accepted, no step admits a request above it, even while the cap itself
\* still follows the occupancy down.
NoAdmissionAboveTarget == [][running' > running => running' <= target]_vars

\* A failed reinit restores (trimtab_reinit): through any number of reinits
\* that are undone, or raise and lose the pool, the sizing in the config is
\* that of the last one that reported ok, or of the launch.  The exception is
\* a release that raises inside the error handler: the attempted sizing stays,
\* and the next failed reinit takes it for the previous one.
SizingIsLastGood == ~strayed => config = lastGood

\* Tightening completes (SCHED_BODY): a cap above the accepted value comes
\* down to it once requests finish.
CapReachesTarget == cap > target ~> cap = target

-----------------------------------------------------------------------------
(* The inductive invariant of the safety proofs. *)

\* Before the first call there are no ceilings and nothing was lowered;
\* after it the ceilings are the sizing of the pool, while there is one.
CeilingsAreAllocation ==
  kv = "built" =>
    \/ /\ ceilings = NoCeilings
       /\ pending = NoPending
       /\ cap = config["max_num_seqs"]
       /\ tokens = config["max_num_batched_tokens"]
    \/ ceilings = [k \in HotKeys |-> config[k]]

\* pending, while set, is the accepted value; else the cap is.
TargetKept ==
  /\ 1 <= target
  /\ kv = "built" => target <= config["max_num_seqs"]
  /\ pending = target \/ (pending = NoPending /\ cap = target)

IInv ==
  /\ TypeOK
  /\ RunningWithinCap
  /\ WithinAllocation
  /\ CeilingsAreAllocation
  /\ TargetKept
  /\ SizingIsLastGood
=============================================================================
