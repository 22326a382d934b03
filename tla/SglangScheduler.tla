-------------------------- MODULE SglangScheduler --------------------------
(***************************************************************************)
(* The SGLang side of trimtab: the hot knobs of                            *)
(* engine/sglang/apply_patch.py and the warm reinit of                     *)
(* engine/sglang/reinit_body.py on every scheduler rank, called by         *)
(* SGLangAdapter (trimtab/adapters.py).  The server fans one call at a     *)
(* time out to all ranks; each rank handles it between two of its own      *)
(* steps, with its own load, and the adapter collects one answer per rank  *)
(* and reads the live state of the first rank only.                        *)
(*                                                                         *)
(* Of the hot knobs, the two whose range depends on the pool are kept; the *)
(* others are plain stores.  mem_fraction_static is a number of memory     *)
(* units and kv_cache_dtype a number of tokens per unit.  Whether a sizing *)
(* fits the GPU is a free choice of the handlers.                          *)
(***************************************************************************)
EXTENDS Integers, FiniteSets

CONSTANTS
  Ranks,         \* scheduler ranks
  First,         \* the rank whose internal state the adapter reads
  BootSizing,    \* the sizing the server was launched with
  BootPrefill,   \* --max-prefill-tokens
  MemorySaver,   \* the server was launched with --enable-memory-saver
  HotChanges,    \* the dictionaries set_hot is called with
  WarmChanges,   \* the dictionaries reinit_warm is called with
  MaxAttempts,   \* attempts of reinit_warm (20 in the code)
  MaxGen         \* bound on the reinit generations of a rank

SizingKeys == {"mem_fraction_static", "max_total_tokens", "kv_cache_dtype",
               "max_running_requests"}
HotKeys == {"max_running_requests", "max_prefill_tokens"}
None == 0

ASSUME RanksAssumption == First \in Ranks /\ IsFiniteSet(Ranks)
ASSUME LaunchAssumption ==
  /\ BootSizing \in [SizingKeys -> Nat]
  /\ BootSizing["mem_fraction_static"] > 0 /\ BootSizing["kv_cache_dtype"] > 0
  /\ BootPrefill \in Nat \ {0}
  /\ MemorySaver \in BOOLEAN
  /\ MaxAttempts \in Nat \ {0} /\ MaxGen \in Nat
ASSUME ChangesAssumption ==
  /\ \A f \in HotChanges : DOMAIN f \subseteq HotKeys /\ \A k \in DOMAIN f : f[k] \in Nat
  /\ \A f \in WarmChanges :
       DOMAIN f \subseteq SizingKeys /\ \A k \in DOMAIN f : f[k] \in Nat \ {0}

VARIABLES
  up,       \* the server process and its ranks are alive
  sched,    \* rank -> its scheduler
  call      \* the adapter's call: what is asked, and the answers so far

vars == <<up, sched, call>>

-----------------------------------------------------------------------------
(* A rank.  sizing is what server_args and the model runner say, pool what *)
(* was allocated from it; tag is the memory-saver tag of the pool, a       *)
(* generation number, and paused the tags whose pages are unmapped.        *)

Min(a, b) == IF a <= b THEN a ELSE b

\* External: init_memory_pools and get_worker_info.
PoolOf(z) ==
  LET room == z["mem_fraction_static"] * z["kv_cache_dtype"]
      tokens == IF z["max_total_tokens"] = None THEN room ELSE Min(room, z["max_total_tokens"]) IN
  [tokens |-> tokens,
   slots |-> IF z["max_running_requests"] = None THEN tokens ELSE z["max_running_requests"],
   dtype |-> z["kv_cache_dtype"]]

Booted ==
  [busy |-> FALSE, sizing |-> BootSizing, pool |-> PoolOf(BootSizing),
   max_running_requests |-> PoolOf(BootSizing).slots, max_prefill_tokens |-> BootPrefill,
   ceiling |-> None, gen |-> 0, tag |-> 0, paused |-> {}, last_reinit |-> "none"]

NoCall == [pc |-> "idle", kind |-> "none", fields |-> <<>>, attempt |-> 0,
           answer |-> [r \in Ranks |-> "none"]]

Init ==
  /\ up = TRUE
  /\ sched = [r \in Ranks |-> Booted]
  /\ call = NoCall

Sched ==
  [busy : BOOLEAN, sizing : [SizingKeys -> Nat], pool : [tokens : Nat, slots : Nat, dtype : Nat],
   max_running_requests : Nat, max_prefill_tokens : Nat, ceiling : Nat,
   gen : 0 .. MaxGen, tag : 0 .. MaxGen, paused : SUBSET (0 .. MaxGen),
   last_reinit : {"none", "ok", "unavailable", "busy", "restored"}]

TypeOK ==
  /\ up \in BOOLEAN
  /\ sched \in [Ranks -> Sched]
  /\ call \in [pc : {"idle", "posted", "ok", "failed"}, kind : {"none", "hot", "reinit"},
               fields : {<<>>} \cup HotChanges \cup WarmChanges, attempt : 0 .. MaxAttempts,
               answer : [Ranks -> {"none", "wait", "yes", "no"}]]

-----------------------------------------------------------------------------
(* The load of a rank, external. *)

Load(r) ==
  /\ up
  /\ sched' = [sched EXCEPT ![r].busy = ~@]
  /\ UNCHANGED <<up, call>>

-----------------------------------------------------------------------------
(* Scheduler.set_internal_state with hot knobs.                            *)

\* The ceiling is recorded by the first call, from the live scheduler.
Recorded(s) == IF s.ceiling = None THEN s.max_running_requests ELSE s.ceiling

Limit(s, k) == IF k = "max_running_requests" THEN Recorded(s) ELSE s.pool.tokens

InRange(s, f, k) == k \in DOMAIN f /\ 1 <= f[k] /\ f[k] <= Limit(s, k)

Answered(r, yes) ==
  call' = [call EXCEPT !.answer[r] = IF yes THEN "yes" ELSE "no"]

Asked(r, kind) == up /\ call.pc = "posted" /\ call.kind = kind /\ call.answer[r] = "wait"

\* Every field in range is stored, whatever is rejected beside it.
HandleHot(r) ==
  LET s == sched[r]
      f == call.fields IN
  /\ Asked(r, "hot")
  /\ sched' = [sched EXCEPT ![r] =
       [s EXCEPT !.ceiling = Recorded(s),
                 !.max_running_requests =
                   IF InRange(s, f, "max_running_requests") THEN f["max_running_requests"] ELSE @,
                 !.max_prefill_tokens =
                   IF InRange(s, f, "max_prefill_tokens") THEN f["max_prefill_tokens"] ELSE @]]
  /\ Answered(r, \A k \in DOMAIN f : InRange(s, f, k))
  /\ UNCHANGED up

-----------------------------------------------------------------------------
(* Scheduler.trimtab_reinit. *)

Refuse(r) ==
  LET s == sched[r] IN
  /\ Asked(r, "reinit")
  /\ ~MemorySaver \/ s.busy
  /\ sched' = [sched EXCEPT ![r] =
       [s EXCEPT !.ceiling = Recorded(s),
                 !.last_reinit = IF MemorySaver THEN "busy" ELSE "unavailable"]]
  /\ Answered(r, FALSE)
  /\ UNCHANGED up

CanRebuild(r) ==
  /\ Asked(r, "reinit")
  /\ MemorySaver
  /\ ~sched[r].busy

\* Mutant: the tag of the next generation is paused.
ReleaseNext(s) == [s EXCEPT !.paused = @ \cup {s.gen + 1}, !.gen = @ + 1]

\* The pages of this generation's tags are unmapped; a new generation starts.
Release(s) == [s EXCEPT !.paused = @ \cup {s.gen}, !.gen = @ + 1]

Sized(z, f) == [k \in SizingKeys |-> IF k \in DOMAIN f THEN f[k] ELSE z[k]]

\* Mutant: the ceiling is still the one recorded at boot.
BuildBootCeiling(s, z, outcome) ==
  [s EXCEPT !.sizing = z, !.pool = PoolOf(z),
            !.max_running_requests = PoolOf(z).slots,
            !.max_prefill_tokens = BootPrefill,
            !.ceiling = Recorded(s),
            !.tag = s.gen, !.last_reinit = outcome]

\* A rebuild that succeeds, and what follows it: the hot knobs are read back
\* from the workers and the ceiling is the new allocation.
Build(s, z, outcome) ==
  [s EXCEPT !.sizing = z, !.pool = PoolOf(z),
            !.max_running_requests = PoolOf(z).slots,
            !.max_prefill_tokens = BootPrefill,
            !.ceiling = PoolOf(z).slots,
            !.tag = s.gen, !.last_reinit = outcome]

Reinit(r) ==
  LET s == sched[r] IN
  /\ CanRebuild(r)
  /\ sched' = [sched EXCEPT ![r] = Build(Release(s), Sized(s.sizing, call.fields), "ok")]
  /\ Answered(r, TRUE)
  /\ UNCHANGED up

\* What a failed reinit goes back to: the live token count and the live cap,
\* only where the request changed them; the dtype is not among them.
Restored(s, f) ==
  LET previous == [k \in SizingKeys \ {"kv_cache_dtype"} |->
                     CASE k = "mem_fraction_static" -> s.sizing[k]
                       [] k = "max_total_tokens" -> s.pool.tokens
                       [] k = "max_running_requests" -> s.max_running_requests]
      restored == {"mem_fraction_static"} \cup (DOMAIN f \cap DOMAIN previous) IN
  Sized(Sized(s.sizing, f), [k \in restored |-> previous[k]])

ReinitRestored(r) ==
  LET s == sched[r] IN
  /\ CanRebuild(r)
  /\ sched' = [sched EXCEPT ![r] = Build(Release(s), Restored(s, call.fields), "restored")]
  /\ Answered(r, FALSE)
  /\ UNCHANGED up

\* The second rebuild raises, out of the handler: the rank's process ends,
\* the server with it, and the adapter's call raises.
ReinitLost(r) ==
  /\ CanRebuild(r)
  /\ up' = FALSE
  /\ call' = NoCall
  /\ UNCHANGED sched

\* The supervisor launches the server again.
Relaunch ==
  /\ ~up
  /\ up' = TRUE
  /\ sched' = [r \in Ranks |-> Booted]
  /\ UNCHANGED call

-----------------------------------------------------------------------------
(* SGLangAdapter.set_hot and reinit_warm. *)

\* MaxGen bounds the calls: every attempt may start a generation.
Call(kind, f) ==
  /\ up
  /\ call.pc # "posted"
  /\ kind = "reinit" => \A r \in Ranks : sched[r].gen + MaxAttempts <= MaxGen
  /\ call' = [pc |-> "posted", kind |-> kind, fields |-> f, attempt |-> 1,
              answer |-> [r \in Ranks |-> "wait"]]
  /\ UNCHANGED <<up, sched>>

AllIn == call.pc = "posted" /\ \A r \in Ranks : call.answer[r] # "wait"

\* Mutant: the first rank's answer stands for all.
first_updated == call.answer[First] = "yes"

all_updated == \A r \in Ranks : call.answer[r] = "yes"

\* The values the first rank shows are the requested ones.
ShownBack == \A k \in DOMAIN call.fields : sched[First][k] = call.fields[k]

SetHotReturns ==
  /\ AllIn
  /\ call.kind = "hot"
  /\ call' = [call EXCEPT !.pc = IF all_updated /\ ShownBack THEN "ok" ELSE "failed"]
  /\ UNCHANGED <<up, sched>>

\* Mutant: the attempts are not bounded.
RetriesUnbounded == ~all_updated /\ sched[First].last_reinit = "busy"

\* Retried when the first rank's last reinit was refused as busy.
Retries == ~all_updated /\ sched[First].last_reinit = "busy" /\ call.attempt < MaxAttempts

ReinitReturns ==
  /\ AllIn
  /\ call.kind = "reinit"
  /\ ~Retries
  /\ call' = [call EXCEPT !.pc = IF all_updated THEN "ok" ELSE "failed"]
  /\ UNCHANGED <<up, sched>>

\* Mutant: the attempts are not counted.
RetryForEver ==
  /\ AllIn
  /\ call.kind = "reinit"
  /\ Retries
  /\ call' = [call EXCEPT !.answer = [r \in Ranks |-> "wait"]]
  /\ UNCHANGED <<up, sched>>

Retry ==
  /\ AllIn
  /\ call.kind = "reinit"
  /\ Retries
  /\ call' = [call EXCEPT !.attempt = @ + 1, !.answer = [r \in Ranks |-> "wait"]]
  /\ UNCHANGED <<up, sched>>

-----------------------------------------------------------------------------
Handle(r) ==
  HandleHot(r) \/ Refuse(r) \/ Reinit(r) \/ ReinitRestored(r) \/ ReinitLost(r)

Adapter == SetHotReturns \/ ReinitReturns \/ Retry

Next ==
  \/ \E r \in Ranks : Load(r) \/ Handle(r)
  \/ \E f \in HotChanges : Call("hot", f)
  \/ \E f \in WarmChanges : Call("reinit", f)
  \/ Adapter
  \/ Relaunch

Spec == Init /\ [][Next]_vars

\* A rank looks at its requests between two steps; the adapter goes on when
\* the answers are in.
LiveSpec == Spec /\ WF_vars(Adapter) /\ \A r \in Ranks : WF_vars(Handle(r))

-----------------------------------------------------------------------------
(* Properties. *)

\* Ceilings (_trimtab_apply_hot_knobs): the cap of a rank never exceeds the
\* request slots of the pool it has now, and a prefill budget set by a call
\* never exceeds its tokens, although reinits shrink the pool in between,
\* fail and are undone, and the ceiling is recorded lazily.
WithinPool ==
  \A r \in Ranks :
    LET s == sched[r] IN
    /\ 1 <= s.max_running_requests /\ s.max_running_requests <= s.pool.slots
    /\ s.max_prefill_tokens = BootPrefill \/ s.max_prefill_tokens <= s.pool.tokens

\* An ok speaks for every rank (_all_updated): when set_hot or reinit_warm
\* answers ok, every rank holds the values asked for, or has its pool built
\* from them, although ranks may have different ceilings after a reinit that
\* some refused, busy ranks refuse, the call is repeated to ranks that were
\* rebuilt already, and only one rank is read back.
OkMeansAll ==
  call.pc = "ok" =>
    \A r \in Ranks :
      IF call.kind = "hot"
      THEN \A k \in DOMAIN call.fields : sched[r][k] = call.fields[k]
      ELSE /\ \A k \in DOMAIN call.fields : sched[r].sizing[k] = call.fields[k]
           /\ sched[r].pool = PoolOf(sched[r].sizing)

\* "a later pause never touches an already paused generation", and the live
\* pool is never one (trimtab_reinit): its pages are mapped through any
\* sequence of reinits that succeed or are undone.
LivePoolMapped ==
  up => \A r \in Ranks : sched[r].tag \notin sched[r].paused

\* Every call returns (reinit_warm): a rank that stays busy ends the retries.
CallReturns == call.pc = "posted" ~> call.pc # "posted"

-----------------------------------------------------------------------------
(* The inductive invariant of the safety proofs. *)

\* What is asked is a change of its kind, and only of a server that is up.
CallKnown ==
  /\ ~up => call.pc = "idle"
  /\ call.pc # "idle" => call.kind \in {"hot", "reinit"}
  /\ call.kind = "hot" => call.fields \in HotChanges
  /\ call.kind = "reinit" => call.fields \in WarmChanges

\* The pool of a rank is the one its sizing asks for, and what was recorded as
\* its ceiling lies within it.
Allocated(r) ==
  LET s == sched[r] IN
  /\ s.sizing["mem_fraction_static"] > 0 /\ s.sizing["kv_cache_dtype"] > 0
  /\ s.pool = PoolOf(s.sizing)
  /\ s.ceiling <= s.pool.slots
  /\ 1 <= s.max_running_requests /\ s.max_running_requests <= s.pool.slots
  /\ s.max_prefill_tokens = BootPrefill \/ s.max_prefill_tokens <= s.pool.tokens

\* The live pool has the tag of the current generation, the paused ones of
\* older generations.
Mapped(r) == sched[r].tag = sched[r].gen /\ \A i \in sched[r].paused : i < sched[r].gen

\* The attempts that are left fit the bound on generations.
RoomLeft(r) ==
  call.pc = "posted" /\ call.kind = "reinit" =>
    /\ sched[r].gen + (MaxAttempts - call.attempt) <= MaxGen
    /\ call.answer[r] = "wait" => sched[r].gen + (MaxAttempts - call.attempt) < MaxGen

HoldsAsked(r) ==
  IF call.kind = "hot"
  THEN \A k \in DOMAIN call.fields : sched[r][k] = call.fields[k]
  ELSE \A k \in DOMAIN call.fields : sched[r].sizing[k] = call.fields[k]

\* A rank that has said yes holds what it was asked, until the call is over.
YesHolds(r) ==
  call.pc = "ok" \/ (call.pc = "posted" /\ call.answer[r] = "yes") => HoldsAsked(r)

RankInv(r) == Allocated(r) /\ Mapped(r) /\ RoomLeft(r) /\ YesHolds(r)

SgInv == TypeOK /\ CallKnown /\ \A r \in Ranks : RankInv(r)
=============================================================================
