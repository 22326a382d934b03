----------------------- MODULE SglangSchedulerProofs -----------------------
(***************************************************************************)
(* Proofs about the SGLang ranks and the adapter that calls them, for any  *)
(* set of ranks, launch sizing and dictionaries of changes, and all        *)
(* bounds.                                                                 *)
(***************************************************************************)
EXTENDS SglangScheduler, TLAPS

-----------------------------------------------------------------------------
(* Sizings and pools. *)

Positive(z) == z["mem_fraction_static"] > 0 /\ z["kv_cache_dtype"] > 0

LEMMA KeysAre ==
  /\ "mem_fraction_static" \in SizingKeys /\ "kv_cache_dtype" \in SizingKeys
  /\ "max_total_tokens" \in SizingKeys /\ "max_running_requests" \in SizingKeys
BY DEF SizingKeys

\* A pool with memory has room for a request.
LEMMA PoolShape ==
  ASSUME NEW z \in [SizingKeys -> Nat], Positive(z)
  PROVE  /\ PoolOf(z) \in [tokens : Nat, slots : Nat, dtype : Nat]
         /\ PoolOf(z).slots >= 1
<1>1. /\ z["mem_fraction_static"] \in Nat \ {0} /\ z["kv_cache_dtype"] \in Nat \ {0}
      /\ z["max_total_tokens"] \in Nat /\ z["max_running_requests"] \in Nat
  BY KeysAre DEF Positive
<1>2. \A a, b \in Nat \ {0} : a * b \in Nat \ {0}
  OBVIOUS
<1>3. PICK room \in Nat \ {0} : room = z["mem_fraction_static"] * z["kv_cache_dtype"]
  BY <1>1, <1>2
<1>4. PICK tokens \in Nat \ {0} :
        tokens = IF z["max_total_tokens"] = None THEN room ELSE Min(room, z["max_total_tokens"])
  BY <1>1 DEF Min, None
<1>5. PoolOf(z) = [tokens |-> tokens,
                   slots |-> IF z["max_running_requests"] = None THEN tokens
                             ELSE z["max_running_requests"],
                   dtype |-> z["kv_cache_dtype"]]
  BY <1>3, <1>4 DEF PoolOf
<1>6. QED
  BY <1>1, <1>5 DEF None

LEMMA SizedShape ==
  ASSUME NEW z \in [SizingKeys -> Nat], Positive(z), NEW f \in WarmChanges
  PROVE  /\ Sized(z, f) \in [SizingKeys -> Nat] /\ Positive(Sized(z, f))
         /\ \A k \in DOMAIN f : Sized(z, f)[k] = f[k]
<1>1. DOMAIN f \subseteq SizingKeys /\ \A k \in DOMAIN f : f[k] \in Nat \ {0}
  BY ChangesAssumption
<1>2. QED
  BY <1>1, KeysAre DEF Sized, Positive

\* Going back overwrites with values a live scheduler has.
LEMMA RestoredShape ==
  ASSUME NEW s \in Sched, Positive(s.sizing), NEW f \in WarmChanges
  PROVE  Restored(s, f) \in [SizingKeys -> Nat] /\ Positive(Restored(s, f))
<1> DEFINE previous == [k \in SizingKeys \ {"kv_cache_dtype"} |->
                     CASE k = "mem_fraction_static" -> s.sizing[k]
                       [] k = "max_total_tokens" -> s.pool.tokens
                       [] k = "max_running_requests" -> s.max_running_requests]
           restored == {"mem_fraction_static"} \cup (DOMAIN f \cap DOMAIN previous)
           g == [k \in restored |-> previous[k]]
           z == Sized(s.sizing, f)
<1>1. z \in [SizingKeys -> Nat] /\ Positive(z) /\ s.sizing \in [SizingKeys -> Nat]
  BY SizedShape DEF Sched
<1>2. /\ previous["mem_fraction_static"] = s.sizing["mem_fraction_static"]
      /\ previous["max_total_tokens"] = s.pool.tokens
      /\ previous["max_running_requests"] = s.max_running_requests
  BY DEF SizingKeys
<1>3. /\ s.sizing["mem_fraction_static"] \in Nat /\ s.sizing["mem_fraction_static"] > 0
      /\ s.pool.tokens \in Nat /\ s.max_running_requests \in Nat
  BY <1>1, KeysAre DEF Sched, Positive
<1>4. \A k \in SizingKeys \ {"kv_cache_dtype"} : previous[k] \in Nat
  BY <1>2, <1>3 DEF SizingKeys
<1>5. /\ restored \subseteq SizingKeys \ {"kv_cache_dtype"}
      /\ "mem_fraction_static" \in restored /\ "kv_cache_dtype" \notin restored
  BY DEF SizingKeys
<1>6. Restored(s, f) = Sized(z, g)
  BY DEF Restored
<1>7. DOMAIN g = restored /\ \A k \in restored : g[k] = previous[k]
  OBVIOUS
<1> HIDE DEF previous, restored, g, z
<1>8. /\ Sized(z, g) \in [SizingKeys -> Nat]
      /\ Sized(z, g)["mem_fraction_static"] = previous["mem_fraction_static"]
      /\ Sized(z, g)["kv_cache_dtype"] = z["kv_cache_dtype"]
  BY <1>1, <1>4, <1>5, <1>7, KeysAre DEF Sized
<1>9. QED
  BY <1>1, <1>2, <1>3, <1>6, <1>8 DEF Positive

LEMMA BootedShape ==
  /\ Booted \in Sched /\ Positive(Booted.sizing)
  /\ Booted.pool = PoolOf(Booted.sizing) /\ Booted.ceiling <= Booted.pool.slots
  /\ 1 <= Booted.max_running_requests /\ Booted.max_running_requests <= Booted.pool.slots
  /\ Booted.max_prefill_tokens = BootPrefill
  /\ Booted.tag = 0 /\ Booted.gen = 0 /\ Booted.paused = {}
<1>1. /\ BootSizing \in [SizingKeys -> Nat] /\ Positive(BootSizing)
      /\ BootPrefill \in Nat /\ MaxGen \in Nat
  BY LaunchAssumption DEF Positive
<1>2. PICK p \in [tokens : Nat, slots : Nat, dtype : Nat] : p = PoolOf(BootSizing) /\ p.slots >= 1
  BY <1>1, PoolShape
<1>3. Booted = [busy |-> FALSE, sizing |-> BootSizing, pool |-> p,
                max_running_requests |-> p.slots, max_prefill_tokens |-> BootPrefill,
                ceiling |-> 0, gen |-> 0, tag |-> 0, paused |-> {}, last_reinit |-> "none"]
  BY <1>2 DEF Booted, None
<1>4. QED
  BY <1>1, <1>2, <1>3 DEF Sched

-----------------------------------------------------------------------------
(* The initial state. *)

LEMMA NoCallShape ==
  /\ NoCall \in [pc : {"idle", "posted", "ok", "failed"}, kind : {"none", "hot", "reinit"},
                 fields : {<<>>} \cup HotChanges \cup WarmChanges, attempt : 0 .. MaxAttempts,
                 answer : [Ranks -> {"none", "wait", "yes", "no"}]]
  /\ NoCall.pc = "idle" /\ NoCall.kind = "none"
BY LaunchAssumption DEF NoCall

LEMMA BootedInv ==
  ASSUME NEW r \in Ranks, sched[r] = Booted, call = NoCall
  PROVE  RankInv(r)
<1>1. Allocated(r) /\ Mapped(r)
  BY BootedShape DEF Allocated, Mapped, Positive
<1>2. RoomLeft(r) /\ YesHolds(r)
  BY NoCallShape DEF RoomLeft, YesHolds
<1>3. QED
  BY <1>1, <1>2 DEF RankInv

LEMMA InitInv ==
  ASSUME Init
  PROVE  SgInv
<1>1. TypeOK
  BY BootedShape, NoCallShape DEF Init, TypeOK
<1>2. CallKnown
  BY NoCallShape DEF Init, CallKnown
<1>3. \A r \in Ranks : RankInv(r)
  BY BootedInv DEF Init
<1>4. QED
  BY <1>1, <1>2, <1>3 DEF SgInv

-----------------------------------------------------------------------------
(* What a step has to show.                                                *)

Calls ==
  [pc : {"idle", "posted", "ok", "failed"}, kind : {"none", "hot", "reinit"},
   fields : {<<>>} \cup HotChanges \cup WarmChanges, attempt : 0 .. MaxAttempts,
   answer : [Ranks -> {"none", "wait", "yes", "no"}]]

SameCall ==
  call'.pc = call.pc /\ call'.kind = call.kind /\ call'.fields = call.fields
  /\ call'.attempt = call.attempt

\* A step of one rank, which may answer.
LEMMA OneRank ==
  ASSUME SgInv, up' = up, NEW r \in Ranks, NEW d \in Sched,
         sched' = [sched EXCEPT ![r] = d],
         call' \in Calls, SameCall,
         \A q \in Ranks \ {r} : call'.answer[q] = call.answer[q],
         Allocated(r)', Mapped(r)', RoomLeft(r)', YesHolds(r)'
  PROVE  SgInv'
<1>1. TypeOK /\ CallKnown
  BY DEF SgInv
<1>2. sched' \in [Ranks -> Sched] /\ \A q \in Ranks \ {r} : sched'[q] = sched[q]
  BY <1>1 DEF TypeOK
<1>3. TypeOK'
  BY <1>1, <1>2 DEF TypeOK, Calls
<1>4. CallKnown'
  BY <1>1 DEF CallKnown, SameCall
<1>5. ASSUME NEW q \in Ranks, q # r
      PROVE  RankInv(q)'
  <2>1. RankInv(q) /\ sched'[q] = sched[q] /\ call'.answer[q] = call.answer[q]
    BY <1>2, <1>5 DEF SgInv
  <2>2. Allocated(q)' /\ Mapped(q)'
    BY <2>1 DEF RankInv, Allocated, Mapped
  <2>3. RoomLeft(q)' /\ YesHolds(q)'
    BY <2>1 DEF RankInv, RoomLeft, YesHolds, HoldsAsked, SameCall
  <2>4. QED
    BY <2>2, <2>3 DEF RankInv
<1>6. RankInv(r)'
  BY DEF RankInv
<1>7. QED
  BY <1>3, <1>4, <1>5, <1>6 DEF SgInv

\* A step of the adapter: no rank changes.
LEMMA CallOnly ==
  ASSUME SgInv, up' = up, sched' = sched, call' \in Calls, CallKnown',
         \A r \in Ranks : RoomLeft(r)' /\ YesHolds(r)'
  PROVE  SgInv'
<1>1. TypeOK'
  BY DEF SgInv, TypeOK, Calls
<1>2. \A r \in Ranks : RankInv(r)'
  BY DEF SgInv, RankInv, Allocated, Mapped
<1>3. QED
  BY <1>1, <1>2 DEF SgInv

LEMMA AnsweredShape ==
  ASSUME TypeOK, NEW r \in Ranks, NEW yes \in BOOLEAN, Answered(r, yes)
  PROVE  /\ call' \in Calls /\ SameCall
         /\ \A q \in Ranks \ {r} : call'.answer[q] = call.answer[q]
         /\ call'.answer[r] = IF yes THEN "yes" ELSE "no"
<1>1. PICK c \in Calls : c = call
  BY DEF TypeOK, Calls
<1>2. PICK a \in {"yes", "no"} : a = IF yes THEN "yes" ELSE "no"
  OBVIOUS
<1>3. call' = [c EXCEPT !.answer = [c.answer EXCEPT ![r] = a]]
  BY <1>1, <1>2 DEF Answered
<1>4. [c.answer EXCEPT ![r] = a] \in [Ranks -> {"none", "wait", "yes", "no"}]
  BY <1>2 DEF Calls
<1>5. QED
  BY <1>1, <1>2, <1>3, <1>4 DEF Calls, SameCall

\* What the state of a rank is made of, under the invariant.
LEMMA RankFacts ==
  ASSUME SgInv, NEW r \in Ranks
  PROVE  /\ sched[r] \in Sched /\ RankInv(r)
         /\ call \in Calls /\ call.answer[r] \in {"none", "wait", "yes", "no"}
         /\ call.attempt \in Nat /\ MaxGen \in Nat /\ MaxAttempts \in Nat \ {0}
         /\ BootPrefill \in Nat
<1>1. call \in Calls /\ sched[r] \in Sched
  BY DEF SgInv, TypeOK, Calls
<1>2. MaxGen \in Nat /\ MaxAttempts \in Nat \ {0} /\ BootPrefill \in Nat
  BY LaunchAssumption
<1>3. call.answer[r] \in {"none", "wait", "yes", "no"} /\ call.attempt \in Nat
  BY <1>1, <1>2 DEF Calls
<1>4. QED
  BY <1>1, <1>2, <1>3 DEF SgInv

-----------------------------------------------------------------------------
(* Load and hot knobs. *)

LEMMA LoadStep ==
  ASSUME SgInv, NEW r \in Ranks, Load(r)
  PROVE  SgInv'
<1>1. PICK s \in Sched : s = sched[r]
  BY RankFacts
<1>2. PICK d \in Sched : d = [s EXCEPT !.busy = ~s.busy]
  BY DEF Sched
<1>3. /\ up' = up /\ call' = call /\ sched' = [sched EXCEPT ![r] = d]
      /\ sched'[r] = d
  BY <1>1, <1>2 DEF Load, SgInv, TypeOK
<1>4. /\ d.sizing = s.sizing /\ d.pool = s.pool /\ d.ceiling = s.ceiling
      /\ d.max_running_requests = s.max_running_requests
      /\ d.max_prefill_tokens = s.max_prefill_tokens
      /\ d.gen = s.gen /\ d.tag = s.tag /\ d.paused = s.paused
  BY <1>2 DEF Sched
<1>5. RankInv(r) /\ CallKnown
  BY DEF SgInv
<1>6. Allocated(r)' /\ Mapped(r)'
  BY <1>1, <1>3, <1>4, <1>5 DEF RankInv, Allocated, Mapped
<1>7. RoomLeft(r)'
  BY <1>1, <1>3, <1>4, <1>5 DEF RankInv, RoomLeft
<1>8. YesHolds(r)'
  <2>1. call.kind = "hot" => \A k \in DOMAIN call.fields : d[k] = s[k]
    BY <1>4, <1>5, ChangesAssumption DEF CallKnown, HotKeys
  <2>2. QED
    BY <2>1, <1>1, <1>3, <1>4, <1>5 DEF RankInv, YesHolds, HoldsAsked
<1>9. call' \in Calls /\ SameCall
  BY <1>3, RankFacts DEF SameCall
<1>10. QED
  BY <1>3, <1>6, <1>7, <1>8, <1>9, OneRank

\* The recorded ceiling lies within the pool.
LEMMA RecordedFits ==
  ASSUME NEW s \in Sched, s.ceiling <= s.pool.slots, s.max_running_requests <= s.pool.slots
  PROVE  Recorded(s) \in Nat /\ Recorded(s) <= s.pool.slots
BY DEF Recorded, Sched

LEMMA HotStep ==
  ASSUME SgInv, NEW r \in Ranks, HandleHot(r)
  PROVE  SgInv'
<1>1. PICK s \in Sched : s = sched[r]
  BY RankFacts
<1>2. PICK f \in HotChanges : f = call.fields
  BY DEF HandleHot, Asked, SgInv, CallKnown
<1>3. DOMAIN f \subseteq HotKeys /\ \A k \in DOMAIN f : f[k] \in Nat
  BY ChangesAssumption
<1>4. RankInv(r) /\ CallKnown /\ TypeOK
  BY DEF SgInv
<1>5. /\ Positive(s.sizing) /\ s.pool = PoolOf(s.sizing) /\ s.ceiling <= s.pool.slots
      /\ 1 <= s.max_running_requests /\ s.max_running_requests <= s.pool.slots
      /\ s.max_prefill_tokens = BootPrefill \/ s.max_prefill_tokens <= s.pool.tokens
  BY <1>1, <1>4 DEF RankInv, Allocated, Positive
<1>6. PICK c \in Nat : c = Recorded(s) /\ c <= s.pool.slots
  BY <1>5, RecordedFits
<1>7. /\ InRange(s, f, "max_running_requests") =>
           /\ "max_running_requests" \in DOMAIN f
           /\ 1 <= f["max_running_requests"] /\ f["max_running_requests"] <= c
      /\ InRange(s, f, "max_prefill_tokens") =>
           "max_prefill_tokens" \in DOMAIN f /\ f["max_prefill_tokens"] <= s.pool.tokens
  BY <1>6 DEF InRange, Limit
<1>8. PICK m \in Nat :
        /\ m = IF InRange(s, f, "max_running_requests") THEN f["max_running_requests"]
               ELSE s.max_running_requests
        /\ 1 <= m /\ m <= s.pool.slots
  BY <1>3, <1>5, <1>6, <1>7 DEF Sched
<1>9. PICK p \in Nat :
        /\ p = IF InRange(s, f, "max_prefill_tokens") THEN f["max_prefill_tokens"]
               ELSE s.max_prefill_tokens
        /\ p = BootPrefill \/ p <= s.pool.tokens
  BY <1>3, <1>5, <1>7 DEF Sched
<1>10. PICK d \in Sched :
         d = [s EXCEPT !.ceiling = c, !.max_running_requests = m, !.max_prefill_tokens = p]
  BY DEF Sched
<1>11. /\ d.sizing = s.sizing /\ d.pool = s.pool /\ d.ceiling = c
       /\ d.max_running_requests = m /\ d.max_prefill_tokens = p
       /\ d.gen = s.gen /\ d.tag = s.tag /\ d.paused = s.paused
  BY <1>10 DEF Sched
<1>12. sched' = [sched EXCEPT ![r] = d] /\ sched'[r] = d /\ up' = up
  BY <1>1, <1>2, <1>4, <1>6, <1>8, <1>9, <1>10 DEF HandleHot, TypeOK
<1>13. PICK yes \in BOOLEAN :
         yes = (\A k \in DOMAIN f : InRange(s, f, k)) /\ Answered(r, yes)
  BY <1>1, <1>2 DEF HandleHot
<1>14. /\ call' \in Calls /\ SameCall
       /\ \A q \in Ranks \ {r} : call'.answer[q] = call.answer[q]
       /\ call'.answer[r] = IF yes THEN "yes" ELSE "no"
  BY <1>4, <1>13, AnsweredShape
<1>15. Allocated(r)' /\ Mapped(r)'
  BY <1>1, <1>4, <1>5, <1>6, <1>8, <1>9, <1>11, <1>12 DEF RankInv, Allocated, Mapped, Positive
<1>16. call.pc = "posted" /\ call.kind = "hot"
  BY DEF HandleHot, Asked
<1>17. RoomLeft(r)'
  BY <1>14, <1>16 DEF RoomLeft, SameCall
<1>18. YesHolds(r)'
  <2>1. ASSUME yes, NEW k \in DOMAIN f
        PROVE  d[k] = f[k]
    BY <2>1, <1>3, <1>8, <1>9, <1>11, <1>13 DEF HotKeys
  <2>2. QED
    BY <2>1, <1>2, <1>12, <1>14, <1>16 DEF YesHolds, HoldsAsked, SameCall
<1>19. QED
  BY <1>12, <1>14, <1>15, <1>17, <1>18, OneRank

-----------------------------------------------------------------------------
(* The warm reinit. *)

LEMMA RefuseStep ==
  ASSUME SgInv, NEW r \in Ranks, Refuse(r)
  PROVE  SgInv'
<1>1. PICK s \in Sched : s = sched[r]
  BY RankFacts
<1>2. RankInv(r) /\ TypeOK
  BY DEF SgInv
<1>3. PICK c \in Nat : c = Recorded(s) /\ c <= s.pool.slots
  BY <1>1, <1>2, RecordedFits DEF RankInv, Allocated
<1>4. PICK l \in {"unavailable", "busy"} : l = IF MemorySaver THEN "busy" ELSE "unavailable"
  OBVIOUS
<1>5. PICK d \in Sched : d = [s EXCEPT !.ceiling = c, !.last_reinit = l]
  BY DEF Sched
<1>6. /\ d.sizing = s.sizing /\ d.pool = s.pool /\ d.ceiling = c
      /\ d.max_running_requests = s.max_running_requests
      /\ d.max_prefill_tokens = s.max_prefill_tokens
      /\ d.gen = s.gen /\ d.tag = s.tag /\ d.paused = s.paused
  BY <1>5 DEF Sched
<1>7. sched' = [sched EXCEPT ![r] = d] /\ sched'[r] = d /\ up' = up
  BY <1>1, <1>2, <1>3, <1>4, <1>5 DEF Refuse, TypeOK
<1>8. Answered(r, FALSE)
  BY DEF Refuse
<1>9. /\ call' \in Calls /\ SameCall
      /\ \A q \in Ranks \ {r} : call'.answer[q] = call.answer[q]
      /\ call'.answer[r] = "no"
  BY <1>2, <1>8, AnsweredShape
<1>10. call.pc = "posted" /\ call.kind = "reinit"
  BY DEF Refuse, Asked
<1>11. Allocated(r)' /\ Mapped(r)'
  BY <1>1, <1>2, <1>3, <1>6, <1>7 DEF RankInv, Allocated, Mapped
<1>12. RoomLeft(r)'
  BY <1>1, <1>2, <1>6, <1>7, <1>9 DEF RankInv, RoomLeft, SameCall
<1>13. YesHolds(r)'
  BY <1>9, <1>10 DEF YesHolds, SameCall
<1>14. QED
  BY <1>7, <1>9, <1>11, <1>12, <1>13, OneRank

\* A rebuild starts a generation, with a pool made from its sizing; the tags
\* that are paused belong to the generations before.
LEMMA RebuildStep ==
  ASSUME SgInv, NEW r \in Ranks, CanRebuild(r), up' = up,
         NEW z \in [SizingKeys -> Nat], Positive(z),
         NEW outcome \in {"ok", "restored"},
         sched' = [sched EXCEPT ![r] = Build(Release(sched[r]), z, outcome)],
         NEW yes \in BOOLEAN, Answered(r, yes),
         yes => \A k \in DOMAIN call.fields : z[k] = call.fields[k]
  PROVE  SgInv'
<1>1. PICK s \in Sched : s = sched[r]
  BY RankFacts
<1>2. RankInv(r) /\ TypeOK /\ MaxGen \in Nat /\ MaxAttempts \in Nat
  BY RankFacts DEF SgInv
<1>3. PICK pool \in [tokens : Nat, slots : Nat, dtype : Nat] :
        pool = PoolOf(z) /\ pool.slots >= 1
  BY PoolShape
<1>4. call.pc = "posted" /\ call.kind = "reinit" /\ call.answer[r] = "wait"
  BY DEF CanRebuild, Asked
<1>5. PICK a \in 0 .. MaxAttempts : a = call.attempt
  BY RankFacts DEF Calls
<1>6. /\ s.gen \in 0 .. MaxGen /\ s.paused \subseteq 0 .. MaxGen
      /\ s.gen + (MaxAttempts - a) < MaxGen
      /\ \A i \in s.paused : i < s.gen
  BY <1>1, <1>2, <1>4, <1>5 DEF Sched, RankInv, RoomLeft, Mapped
<1>7. PICK g \in 0 .. MaxGen : g = s.gen + 1 /\ g + (MaxAttempts - a) <= MaxGen
  BY <1>2, <1>6
<1>8. PICK u \in SUBSET (0 .. MaxGen) : u = s.paused \cup {s.gen} /\ \A i \in u : i < g
  <2>1. \A i \in s.paused \cup {s.gen} : i \in 0 .. MaxGen /\ i < g
    BY <1>2, <1>6, <1>7
  <2>2. QED
    BY <2>1
<1>9. PICK e \in Sched : e = [s EXCEPT !.paused = u, !.gen = g]
  BY DEF Sched
<1>10. /\ e.gen = g /\ e.paused = u
  BY <1>9 DEF Sched
<1>11. Release(s) = e
  BY <1>7, <1>8, <1>9 DEF Release
<1>12. BootPrefill \in Nat
  BY LaunchAssumption
<1>13. PICK d \in Sched :
         d = [e EXCEPT !.sizing = z, !.pool = pool, !.max_running_requests = pool.slots,
                       !.max_prefill_tokens = BootPrefill, !.ceiling = pool.slots,
                       !.tag = g, !.last_reinit = outcome]
  BY <1>12 DEF Sched
<1>14. Build(e, z, outcome) = d
  BY <1>3, <1>10, <1>13 DEF Build
<1>15. /\ d.sizing = z /\ d.pool = pool /\ d.ceiling = pool.slots
       /\ d.max_running_requests = pool.slots /\ d.max_prefill_tokens = BootPrefill
       /\ d.gen = g /\ d.tag = g /\ d.paused = u
  BY <1>10, <1>13 DEF Sched
<1>16. sched' = [sched EXCEPT ![r] = d] /\ sched'[r] = d
  BY <1>1, <1>2, <1>11, <1>14 DEF TypeOK
<1>17. /\ call' \in Calls /\ SameCall
       /\ \A q \in Ranks \ {r} : call'.answer[q] = call.answer[q]
       /\ call'.answer[r] = IF yes THEN "yes" ELSE "no"
  BY <1>2, AnsweredShape
<1>18. Allocated(r)'
  BY <1>3, <1>15, <1>16 DEF Allocated, Positive
<1>19. Mapped(r)'
  BY <1>8, <1>15, <1>16 DEF Mapped
<1>20. RoomLeft(r)'
  BY <1>5, <1>7, <1>15, <1>16, <1>17 DEF RoomLeft, SameCall
<1>21. YesHolds(r)'
  BY <1>4, <1>15, <1>16, <1>17 DEF YesHolds, HoldsAsked, SameCall
<1>22. QED
  BY <1>16, <1>17, <1>18, <1>19, <1>20, <1>21, OneRank

LEMMA ReinitStep ==
  ASSUME SgInv, NEW r \in Ranks, Reinit(r)
  PROVE  SgInv'
<1>1. PICK s \in Sched : s = sched[r]
  BY RankFacts
<1>2. PICK f \in WarmChanges : f = call.fields
  BY DEF Reinit, CanRebuild, Asked, SgInv, CallKnown
<1>3. s.sizing \in [SizingKeys -> Nat] /\ Positive(s.sizing)
  BY <1>1 DEF SgInv, RankInv, Allocated, Positive, Sched
<1>4. PICK z \in [SizingKeys -> Nat] :
        z = Sized(s.sizing, f) /\ Positive(z) /\ \A k \in DOMAIN f : z[k] = f[k]
  BY <1>3, SizedShape
<1>5. /\ CanRebuild(r) /\ up' = up /\ Answered(r, TRUE)
      /\ sched' = [sched EXCEPT ![r] = Build(Release(sched[r]), z, "ok")]
  BY <1>1, <1>2, <1>4 DEF Reinit
<1>6. QED
  BY <1>2, <1>4, <1>5, RebuildStep

LEMMA ReinitRestoredStep ==
  ASSUME SgInv, NEW r \in Ranks, ReinitRestored(r)
  PROVE  SgInv'
<1>1. PICK s \in Sched : s = sched[r]
  BY RankFacts
<1>2. PICK f \in WarmChanges : f = call.fields
  BY DEF ReinitRestored, CanRebuild, Asked, SgInv, CallKnown
<1>3. Positive(s.sizing)
  BY <1>1 DEF SgInv, RankInv, Allocated, Positive
<1>4. PICK z \in [SizingKeys -> Nat] : z = Restored(s, f) /\ Positive(z)
  BY <1>3, RestoredShape
<1>5. /\ CanRebuild(r) /\ up' = up /\ Answered(r, FALSE)
      /\ sched' = [sched EXCEPT ![r] = Build(Release(sched[r]), z, "restored")]
  BY <1>1, <1>2, <1>4 DEF ReinitRestored
<1>6. QED
  BY <1>4, <1>5, RebuildStep

LEMMA ReinitLostStep ==
  ASSUME SgInv, NEW r \in Ranks, ReinitLost(r)
  PROVE  SgInv'
<1>1. up' = FALSE /\ call' = NoCall /\ sched' = sched
  BY DEF ReinitLost
<1>2. call'.pc = "idle" /\ call'.kind = "none" /\ call' \in Calls
  BY <1>1, NoCallShape DEF Calls
<1>3. TypeOK' /\ CallKnown'
  BY <1>1, <1>2 DEF SgInv, TypeOK, CallKnown, Calls
<1>4. ASSUME NEW q \in Ranks
      PROVE  RankInv(q)'
  <2>1. Allocated(q)' /\ Mapped(q)'
    BY <1>1 DEF SgInv, RankInv, Allocated, Mapped
  <2>2. RoomLeft(q)' /\ YesHolds(q)'
    BY <1>2 DEF RoomLeft, YesHolds
  <2>3. QED
    BY <2>1, <2>2 DEF RankInv
<1>5. QED
  BY <1>3, <1>4 DEF SgInv

LEMMA RelaunchStep ==
  ASSUME SgInv, Relaunch
  PROVE  SgInv'
<1>1. call' = call /\ call.pc = "idle" /\ up' = TRUE /\ sched' = [r \in Ranks |-> Booted]
  BY DEF Relaunch, SgInv, CallKnown
<1>2. TypeOK' /\ CallKnown'
  BY <1>1, BootedShape DEF SgInv, TypeOK, CallKnown
<1>3. ASSUME NEW q \in Ranks
      PROVE  RankInv(q)'
  <2>1. sched'[q] = Booted
    BY <1>1
  <2>2. Allocated(q)' /\ Mapped(q)'
    BY <2>1, BootedShape DEF Allocated, Mapped, Positive
  <2>3. RoomLeft(q)' /\ YesHolds(q)'
    BY <1>1 DEF RoomLeft, YesHolds
  <2>4. QED
    BY <2>2, <2>3 DEF RankInv
<1>4. QED
  BY <1>2, <1>3 DEF SgInv

-----------------------------------------------------------------------------
(* The adapter. *)

LEMMA CallStep ==
  ASSUME SgInv, NEW kind, NEW f, Call(kind, f),
         \/ kind = "hot" /\ f \in HotChanges
         \/ kind = "reinit" /\ f \in WarmChanges
  PROVE  SgInv'
<1>1. up /\ up' = up /\ sched' = sched
  BY DEF Call
<1>2. call' = [pc |-> "posted", kind |-> kind, fields |-> f, attempt |-> 1,
               answer |-> [r \in Ranks |-> "wait"]]
  BY DEF Call
<1>3. 1 \in 0 .. MaxAttempts /\ MaxGen \in Nat /\ MaxAttempts \in Nat
  BY LaunchAssumption
<1>4. call' \in Calls /\ CallKnown'
  BY <1>1, <1>2, <1>3 DEF Calls, CallKnown
<1>5. ASSUME NEW r \in Ranks
      PROVE  RoomLeft(r)' /\ YesHolds(r)'
  <2>1. call'.answer[r] = "wait" /\ call'.pc = "posted" /\ call'.attempt = 1 /\ call'.kind = kind
    BY <1>2
  <2>2. sched[r].gen \in Nat
    BY RankFacts, <1>3 DEF Sched
  <2>3. kind = "reinit" => sched[r].gen + MaxAttempts <= MaxGen
    BY DEF Call
  <2>4. RoomLeft(r)'
    BY <1>1, <1>3, <2>1, <2>2, <2>3 DEF RoomLeft
  <2>5. YesHolds(r)'
    BY <2>1 DEF YesHolds
  <2>6. QED
    BY <2>4, <2>5
<1>6. QED
  BY <1>1, <1>4, <1>5, CallOnly

\* A call that is over: an ok needs a yes of every rank.
LEMMA ReturnStep ==
  ASSUME SgInv, UNCHANGED <<up, sched>>, call.pc = "posted",
         NEW pc \in {"ok", "failed"}, call' = [call EXCEPT !.pc = pc],
         pc = "ok" => all_updated
  PROVE  SgInv'
<1>1. PICK c \in Calls : c = call
  BY DEF SgInv, TypeOK, Calls
<1>2. /\ call' \in Calls /\ call'.pc = pc /\ call'.kind = call.kind
      /\ call'.fields = call.fields /\ call'.answer = call.answer
  BY <1>1 DEF Calls
<1>3. CallKnown'
  BY <1>2 DEF SgInv, CallKnown
<1>4. ASSUME NEW r \in Ranks
      PROVE  RoomLeft(r)' /\ YesHolds(r)'
  <2>1. RoomLeft(r)'
    BY <1>2 DEF RoomLeft
  <2>2. pc = "ok" => HoldsAsked(r)
    BY DEF all_updated, SgInv, RankInv, YesHolds
  <2>3. YesHolds(r)'
    BY <1>2, <2>2 DEF YesHolds, HoldsAsked
  <2>4. QED
    BY <2>1, <2>3
<1>5. QED
  BY <1>2, <1>3, <1>4, CallOnly

LEMMA RetryStep ==
  ASSUME SgInv, Retry
  PROVE  SgInv'
<1>1. PICK c \in Calls : c = call
  BY DEF SgInv, TypeOK, Calls
<1>2. up' = up /\ sched' = sched
  BY DEF Retry
<1>3. MaxGen \in Nat /\ MaxAttempts \in Nat /\ c.attempt \in 0 .. MaxAttempts
  BY <1>1, LaunchAssumption DEF Calls
<1>4. PICK a \in 0 .. MaxAttempts : a = c.attempt + 1
  BY <1>1, <1>3 DEF Retry, Retries
<1>5. call' = [c EXCEPT !.attempt = a, !.answer = [r \in Ranks |-> "wait"]]
  BY <1>1, <1>4 DEF Retry
<1>6. /\ call' \in Calls /\ call'.pc = c.pc /\ call'.kind = c.kind /\ call'.fields = c.fields
      /\ call'.attempt = a /\ call'.answer = [r \in Ranks |-> "wait"]
  BY <1>5 DEF Calls
<1>7. CallKnown'
  BY <1>1, <1>2, <1>6 DEF SgInv, CallKnown
<1>8. ASSUME NEW r \in Ranks
      PROVE  RoomLeft(r)' /\ YesHolds(r)'
  <2>1. c.pc = "posted" /\ c.kind = "reinit"
    BY <1>1 DEF Retry, AllIn
  <2>2. PICK g \in Nat : g = sched[r].gen
    BY RankFacts, <1>3 DEF Sched
  <2>3. g + (MaxAttempts - c.attempt) <= MaxGen
    BY <1>1, <2>1, <2>2 DEF SgInv, RankInv, RoomLeft
  <2>4. g + (MaxAttempts - a) < MaxGen
    BY <1>3, <1>4, <2>3
  <2>5. RoomLeft(r)'
    BY <1>2, <1>3, <1>6, <2>2, <2>4 DEF RoomLeft
  <2>6. YesHolds(r)'
    BY <1>6, <2>1 DEF YesHolds
  <2>7. QED
    BY <2>5, <2>6
<1>9. QED
  BY <1>2, <1>6, <1>7, <1>8, CallOnly

LEMMA AdapterStep ==
  ASSUME SgInv, Adapter
  PROVE  SgInv'
<1>1. ASSUME SetHotReturns
      PROVE  SgInv'
  <2>1. PICK pc \in {"ok", "failed"} : pc = IF all_updated /\ ShownBack THEN "ok" ELSE "failed"
    OBVIOUS
  <2>2. QED
    BY <1>1, <2>1, ReturnStep DEF SetHotReturns, AllIn
<1>2. ASSUME ReinitReturns
      PROVE  SgInv'
  <2>1. PICK pc \in {"ok", "failed"} : pc = IF all_updated THEN "ok" ELSE "failed"
    OBVIOUS
  <2>2. QED
    BY <1>2, <2>1, ReturnStep DEF ReinitReturns, AllIn
<1>3. QED
  BY <1>1, <1>2, RetryStep DEF Adapter

-----------------------------------------------------------------------------
(* The theorems. *)

\* SgInv, which ties sizing, pool, ceiling and tags of a rank to one another
\* and its yes to what it holds, is preserved by every step.
THEOREM SgInductive == Spec => []SgInv
<1>1. Init => SgInv
  BY InitInv
<1>2. SgInv /\ [Next]_vars => SgInv'
  <2> SUFFICES ASSUME SgInv, [Next]_vars PROVE SgInv'
    OBVIOUS
  <2>1. ASSUME NEW r \in Ranks, Load(r) \/ Handle(r)
        PROVE  SgInv'
    BY <2>1, LoadStep, HotStep, RefuseStep, ReinitStep, ReinitRestoredStep, ReinitLostStep
       DEF Handle
  <2>2. ASSUME NEW f \in HotChanges, Call("hot", f)
        PROVE  SgInv'
    BY <2>2, CallStep
  <2>3. ASSUME NEW f \in WarmChanges, Call("reinit", f)
        PROVE  SgInv'
    BY <2>3, CallStep
  <2>4. CASE Adapter
    BY <2>4, AdapterStep
  <2>5. CASE Relaunch
    BY <2>5, RelaunchStep
  <2>6. CASE UNCHANGED vars
    BY <2>6 DEF vars, SgInv, TypeOK, CallKnown, RankInv, Allocated, Mapped, RoomLeft,
                YesHolds, HoldsAsked
  <2>7. QED
    BY <2>1, <2>2, <2>3, <2>4, <2>5, <2>6 DEF Next
<1>3. QED
  BY <1>1, <1>2, PTL DEF Spec

\* Schedulers and the adapter's call keep their shape; in particular the
\* attempts of reinit_warm stay within MaxAttempts.
THEOREM SgTypeCorrect == Spec => []TypeOK
<1>1. SgInv => TypeOK
  BY DEF SgInv
<1>2. QED
  BY <1>1, SgInductive, PTL

\* _trimtab_apply_hot_knobs: cap and prefill budget fit the pool that is live.
THEOREM CapsWithinPool == Spec => []WithinPool
<1>1. SgInv => WithinPool
  BY DEF SgInv, RankInv, Allocated, WithinPool
<1>2. QED
  BY <1>1, SgInductive, PTL

\* _all_updated: the adapter's ok holds on every rank, not only on the one
\* that is read back.
THEOREM OkSpeaksForAll == Spec => []OkMeansAll
<1>1. SgInv => OkMeansAll
  BY DEF SgInv, RankInv, Allocated, YesHolds, HoldsAsked, OkMeansAll
<1>2. QED
  BY <1>1, SgInductive, PTL

\* trimtab_reinit: the pages of the live pool are mapped.
THEOREM LivePoolStaysMapped == Spec => []LivePoolMapped
<1>1. ASSUME SgInv, NEW r \in Ranks
      PROVE  sched[r].tag \notin sched[r].paused
  <2>1. Mapped(r) /\ sched[r].gen \in 0 .. MaxGen
    BY <1>1 DEF SgInv, RankInv, TypeOK, Sched
  <2>2. QED
    BY <2>1, LaunchAssumption DEF Mapped
<1>2. SgInv => LivePoolMapped
  BY <1>1 DEF LivePoolMapped
<1>3. QED
  BY <1>2, SgInductive, PTL
=============================================================================
