------------------------ MODULE VllmSchedulerProofs ------------------------
(***************************************************************************)
(* Proofs that the safety properties of VllmScheduler hold for every       *)
(* launch sizing and every bound on requests and values.                   *)
(***************************************************************************)
EXTENDS VllmScheduler, TLAPS

\* Merging a request of positive values into a sizing gives a sizing.
LEMMA SizedType ==
  ASSUME NEW c \in [WarmKeys -> Nat \ {0}], NEW n \in Nat,
         NEW values \in Requested(WarmKeys, 1 .. n)
  PROVE  Sized(c, values) \in [WarmKeys -> Nat \ {0}]
<1>1. PICK K \in SUBSET WarmKeys : values \in [K -> 1 .. n]
  BY DEF Requested
<1>2. ASSUME NEW k \in WarmKeys
      PROVE (IF k \in DOMAIN values THEN values[k] ELSE c[k]) \in Nat \ {0}
  <2>1. CASE k \in K
    BY <1>1, <2>1
  <2>2. CASE k \notin K
    BY <1>1, <2>2
  <2>3. QED
    BY <2>1, <2>2
<1>3. QED
  BY <1>2 DEF Sized

\* Restoring the previous sizing over any attempted one gives it back: the
\* record trimtab_reinit takes of it has every key a reinit can change.
LEMMA RestoreIsExact ==
  ASSUME NEW c \in [WarmKeys -> Nat \ {0}], NEW fields
  PROVE  Sized(Sized(c, fields), c) = c
BY DEF Sized

\* The ceilings of a set_knobs call are the sizing of the pool, whether they
\* are recorded by this call or were before.
LEMMA RecordedIsAllocation ==
  ASSUME TypeOK, CeilingsAreAllocation, kv = "built"
  PROVE  Recorded = [k \in HotKeys |-> config[k]]
<1>1. config["max_num_seqs"] # 0 /\ config["max_num_batched_tokens"] # 0
  BY DEF TypeOK, WarmKeys, HotKeys
<1>2. CASE ceilings = NoCeilings
  <2>1. ceilings # [k \in HotKeys |-> config[k]]
    <3>1. "max_num_seqs" \in HotKeys
      BY DEF HotKeys
    <3>2. NoCeilings["max_num_seqs"] = 0
      BY <3>1 DEF NoCeilings
    <3>3. [k \in HotKeys |-> config[k]]["max_num_seqs"] # 0
      BY <1>1, <3>1
    <3>4. QED
      BY <1>2, <3>2, <3>3
  <2>2. cap = config["max_num_seqs"] /\ tokens = config["max_num_batched_tokens"]
    BY <2>1 DEF CeilingsAreAllocation
  <2>3. Recorded = [k \in HotKeys |-> IF k = "max_num_seqs" THEN cap ELSE tokens]
    BY <1>2 DEF Recorded
  <2>4. \A k \in HotKeys : (IF k = "max_num_seqs" THEN cap ELSE tokens) = config[k]
    BY <2>2 DEF HotKeys
  <2>5. QED
    BY <2>3, <2>4
<1>3. CASE ceilings # NoCeilings
  BY <1>3 DEF Recorded, CeilingsAreAllocation
<1>4. QED
  BY <1>2, <1>3

-----------------------------------------------------------------------------
(* The invariant is inductive: one lemma per group of actions. *)

LEMMA InitInv == Init => IInv
<1> SUFFICES ASSUME Init
             PROVE  IInv
  OBVIOUS
<1>1. /\ BootConfig["max_num_seqs"] \in Nat \ {0}
      /\ BootConfig["max_num_batched_tokens"] \in Nat \ {0}
  BY BootAssumption DEF WarmKeys, HotKeys
<1>2. TypeOK
  BY <1>1, BootAssumption DEF Init, TypeOK, NoCeilings, NoPending
<1>3. CeilingsAreAllocation
  BY DEF Init, CeilingsAreAllocation
<1>4. RunningWithinCap /\ WithinAllocation /\ TargetKept /\ SizingIsLastGood
  BY <1>1 DEF Init, RunningWithinCap, WithinAllocation, TargetKept, SizingIsLastGood, NoPending
<1>5. QED
  BY <1>2, <1>3, <1>4 DEF IInv

LEMMA SetKnobsInv ==
  ASSUME IInv, NEW knobs \in Requested(HotKeys, 0 .. MaxValue), SetKnobs(knobs)
  PROVE  IInv'
<1> DEFINE seqs == InRange(knobs, "max_num_seqs")
           batched == InRange(knobs, "max_num_batched_tokens")
           alloc == [k \in HotKeys |-> config[k]]
<1>1. kv = "built" => Recorded = alloc
  BY RecordedIsAllocation DEF IInv
<1>2. PICK K \in SUBSET HotKeys : knobs \in [K -> 0 .. MaxValue]
  BY DEF Requested
<1>3. MaxValue \in Nat
  BY BoundAssumption
<1>4. "max_num_seqs" \in HotKeys /\ "max_num_batched_tokens" \in HotKeys
  BY DEF HotKeys
<1>5. seqs => /\ knobs["max_num_seqs"] \in Nat
              /\ 1 <= knobs["max_num_seqs"]
              /\ kv = "built" => knobs["max_num_seqs"] <= config["max_num_seqs"]
  BY <1>1, <1>2, <1>3, <1>4 DEF InRange
<1>6. batched => /\ knobs["max_num_batched_tokens"] \in Nat
                 /\ 1 <= knobs["max_num_batched_tokens"]
                 /\ kv = "built" =>
                      knobs["max_num_batched_tokens"] <= config["max_num_batched_tokens"]
  BY <1>1, <1>2, <1>3, <1>4 DEF InRange
<1>7. /\ ceilings' = Recorded
      /\ pending' = IF seqs THEN knobs["max_num_seqs"] ELSE pending
      /\ cap' = IF seqs THEN max(knobs["max_num_seqs"], running) ELSE cap
      /\ target' = IF seqs THEN knobs["max_num_seqs"] ELSE target
      /\ tokens' = IF batched THEN knobs["max_num_batched_tokens"] ELSE tokens
      /\ UNCHANGED <<running, waiting, flush, config, kv, lastGood, strayed>>
  BY DEF SetKnobs, requests
<1>8. config["max_num_seqs"] \in Nat /\ config["max_num_batched_tokens"] \in Nat
  BY <1>4 DEF IInv, TypeOK, WarmKeys
<1>9. Recorded \in [HotKeys -> Nat]
  BY DEF IInv, TypeOK, Recorded, HotKeys
<1> HIDE DEF seqs, batched, alloc
<1>10. TypeOK'
  BY <1>5, <1>6, <1>7, <1>9 DEF IInv, TypeOK, max
<1>11. RunningWithinCap'
  BY <1>5, <1>7 DEF IInv, TypeOK, RunningWithinCap, max
<1>12. WithinAllocation'
  BY <1>5, <1>6, <1>7, <1>8 DEF IInv, TypeOK, RunningWithinCap, WithinAllocation, max
<1>13. CeilingsAreAllocation'
  BY <1>1, <1>7 DEF CeilingsAreAllocation, alloc
<1>14. TargetKept'
  BY <1>5, <1>7, <1>8 DEF IInv, TypeOK, TargetKept
<1>15. SizingIsLastGood'
  BY <1>7 DEF IInv, SizingIsLastGood
<1>16. QED
  BY <1>10, <1>11, <1>12, <1>13, <1>14, <1>15 DEF IInv

\* What the patch does at the head of schedule(): afterwards the cap covers
\* the requests running now and stays within the allocation.
LEMMA TightenInv ==
  ASSUME IInv, Tighten
  PROVE  /\ cap' \in Nat /\ pending' \in Nat
         /\ running <= cap'
         /\ kv = "built" => 1 <= cap' /\ cap' <= config["max_num_seqs"]
         /\ pending' = target \/ (pending' = NoPending /\ cap' = target)
         /\ cap' = target \/ cap' = running
         /\ kv = "built" /\ ceilings = NoCeilings =>
              ceilings = [k \in HotKeys |-> config[k]] \/ (cap' = cap /\ pending' = pending)
<1>1. config["max_num_seqs"] \in Nat
  BY DEF IInv, TypeOK, WarmKeys, HotKeys
<1>2. QED
  BY <1>1 DEF IInv, TypeOK, Tighten, RunningWithinCap, WithinAllocation,
              CeilingsAreAllocation, TargetKept, NoPending, max

LEMMA ScheduleInv ==
  ASSUME IInv, NEW n \in Nat, Schedule(n) \/ SchedulePreempting(n)
  PROVE  IInv'
<1>1. Tighten
  BY DEF Schedule, SchedulePreempting
<1>2. UNCHANGED <<tokens, ceilings, config, kv, target, lastGood, strayed>>
  BY <1>1 DEF Tighten
<1>3. /\ running' \in Nat /\ waiting' \in Nat /\ flush' = FALSE
      /\ running' <= cap'
  BY <1>1, TightenInv DEF Schedule, SchedulePreempting, IInv, TypeOK
<1>4. TypeOK'
  BY <1>1, <1>2, <1>3, TightenInv DEF IInv, TypeOK
<1>5. CeilingsAreAllocation'
  <2>1. CASE ceilings = [k \in HotKeys |-> config[k]]
    BY <1>2, <2>1 DEF CeilingsAreAllocation
  <2>2. CASE ceilings # [k \in HotKeys |-> config[k]]
    BY <1>1, <1>2, <2>2, TightenInv DEF IInv, CeilingsAreAllocation
  <2>3. QED
    BY <2>1, <2>2
<1>6. RunningWithinCap' /\ WithinAllocation' /\ TargetKept' /\ SizingIsLastGood'
  BY <1>1, <1>2, <1>3, TightenInv
     DEF IInv, RunningWithinCap, WithinAllocation, TargetKept, SizingIsLastGood
<1>7. QED
  BY <1>4, <1>5, <1>6 DEF IInv

LEMMA RequestInv ==
  ASSUME IInv, AddRequest \/ Finish \/ Abort
  PROVE  IInv'
<1>1. /\ running' \in Nat /\ waiting' \in Nat
      /\ running' <= running
      /\ UNCHANGED <<cap, tokens, pending, ceilings, config, kv, target, lastGood, strayed>>
  BY DEF IInv, TypeOK, AddRequest, Finish, Abort
<1>2. flush' \in BOOLEAN
  BY DEF IInv, TypeOK, AddRequest, Finish, Abort
<1>3. TypeOK'
  BY <1>1, <1>2 DEF IInv, TypeOK
<1>4. RunningWithinCap'
  BY <1>1 DEF IInv, TypeOK, RunningWithinCap
<1>5. WithinAllocation' /\ CeilingsAreAllocation' /\ TargetKept' /\ SizingIsLastGood'
  BY <1>1 DEF IInv, WithinAllocation, CeilingsAreAllocation, TargetKept, SizingIsLastGood
<1>6. QED
  BY <1>3, <1>4, <1>5 DEF IInv

\* A rebuilt scheduler satisfies everything but the history of its sizing.
LEMMA RebuiltInv ==
  ASSUME NEW c \in [WarmKeys -> Nat \ {0}], Rebuilt(c),
         lastGood' \in [WarmKeys -> Nat \ {0}], strayed' \in BOOLEAN,
         ~strayed' => lastGood' = c
  PROVE  IInv'
<1>1. c["max_num_seqs"] \in Nat \ {0} /\ c["max_num_batched_tokens"] \in Nat \ {0}
  BY DEF WarmKeys, HotKeys
<1>2. [k \in HotKeys |-> c[k]] \in [HotKeys -> Nat]
  BY DEF WarmKeys
<1>3. TypeOK'
  BY <1>1, <1>2 DEF Rebuilt, TypeOK, NoPending
<1>4. CeilingsAreAllocation'
  BY DEF Rebuilt, CeilingsAreAllocation
<1>5. RunningWithinCap' /\ WithinAllocation' /\ TargetKept' /\ SizingIsLastGood'
  BY <1>1 DEF Rebuilt, RunningWithinCap, WithinAllocation, TargetKept,
              SizingIsLastGood, NoPending
<1>6. QED
  BY <1>3, <1>4, <1>5 DEF IInv

LEMMA ReinitInv ==
  ASSUME IInv, NEW fields \in Requested(WarmKeys, 1 .. MaxValue),
         \/ Reinit(fields) \/ ReinitRestored(fields)
         \/ ReinitLost(fields) \/ ReinitStrayed(fields)
  PROVE  IInv'
<1>1. /\ config \in [WarmKeys -> Nat \ {0}]
      /\ lastGood \in [WarmKeys -> Nat \ {0}] /\ strayed \in BOOLEAN
      /\ ~strayed => config = lastGood
  BY DEF IInv, TypeOK, SizingIsLastGood
<1>2. Sized(config, fields) \in [WarmKeys -> Nat \ {0}]
  BY <1>1, SizedType, BoundAssumption
<1>3. Sized(Sized(config, fields), config) = config
  BY <1>1, RestoreIsExact
<1>4. CASE Reinit(fields)
  <2>1. /\ Rebuilt(Sized(config, fields))
        /\ lastGood' = Sized(config, fields) /\ strayed' = FALSE
    BY <1>4 DEF Reinit
  <2>2. QED
    BY <1>2, <2>1, RebuiltInv
<1>5. CASE ReinitRestored(fields)
  <2>1. Rebuilt(config) /\ lastGood' = lastGood /\ strayed' = strayed
    BY <1>1, <1>3, <1>5 DEF ReinitRestored
  <2>2. QED
    BY <1>1, <2>1, RebuiltInv
<1>6. CASE ReinitLost(fields)
  <2>1. /\ config' = config /\ kv' = "lost"
        /\ UNCHANGED <<running, waiting, flush, cap, tokens, pending, ceilings,
                       target, lastGood, strayed>>
    BY <1>3, <1>6 DEF ReinitLost, requests
  <2>2. QED
    BY <2>1 DEF IInv, TypeOK, RunningWithinCap, WithinAllocation,
                CeilingsAreAllocation, TargetKept, SizingIsLastGood
<1>7. CASE ReinitStrayed(fields)
  <2>1. /\ config' = Sized(config, fields) /\ kv' = "lost" /\ strayed' = TRUE
        /\ UNCHANGED <<running, waiting, flush, cap, tokens, pending, ceilings,
                       target, lastGood>>
    BY <1>7 DEF ReinitStrayed, requests
  <2>2. TypeOK'
    BY <1>2, <2>1 DEF IInv, TypeOK
  <2>3. QED
    BY <2>1, <2>2 DEF IInv, RunningWithinCap, WithinAllocation,
                      CeilingsAreAllocation, TargetKept, SizingIsLastGood
<1>8. QED
  BY <1>4, <1>5, <1>6, <1>7

LEMMA NextInv == IInv /\ [Next]_vars => IInv'
<1> SUFFICES ASSUME IInv, [Next]_vars
             PROVE  IInv'
  OBVIOUS
<1>1. ASSUME NEW knobs \in Requested(HotKeys, 0 .. MaxValue), SetKnobs(knobs)
      PROVE  IInv'
  BY <1>1, SetKnobsInv
<1>2. ASSUME NEW n \in 0 .. MaxRequests, Schedule(n) \/ SchedulePreempting(n)
      PROVE  IInv'
  BY <1>2, ScheduleInv, BoundAssumption
<1>3. CASE AddRequest \/ Finish \/ Abort
  BY <1>3, RequestInv
<1>4. ASSUME NEW fields \in Requested(WarmKeys, 1 .. MaxValue),
             \/ Reinit(fields) \/ ReinitRestored(fields)
             \/ ReinitLost(fields) \/ ReinitStrayed(fields)
      PROVE  IInv'
  BY <1>4, ReinitInv
<1>5. CASE UNCHANGED vars
  BY <1>5 DEF vars, IInv, TypeOK, RunningWithinCap, WithinAllocation,
              CeilingsAreAllocation, TargetKept, SizingIsLastGood
<1>6. QED
  BY <1>1, <1>2, <1>3, <1>4, <1>5 DEF Next

\* The inductive invariant holds of every behaviour.
THEOREM Inductive == Spec => []IInv
<1>1. Init => IInv
  BY InitInv
<1>2. IInv /\ [Next]_vars => IInv'
  BY NextInv
<1>3. QED
  BY <1>1, <1>2, PTL DEF Spec

-----------------------------------------------------------------------------
\* Every variable keeps its type.
THEOREM TypeCorrect == Spec => []TypeOK
<1>1. IInv => TypeOK
  BY DEF IInv
<1>2. QED
  BY <1>1, Inductive, PTL

\* The stock assertion len(running) <= cap survives every lowering of the
\* cap under load, every preemption and every reinit.
THEOREM AssertionHolds == Spec => []RunningWithinCap
<1>1. IInv => RunningWithinCap
  BY DEF IInv
<1>2. QED
  BY <1>1, Inductive, PTL

\* While there is a pool, the hot knobs do not exceed what it was allocated for.
THEOREM CapsWithinAllocation == Spec => []WithinAllocation
<1>1. IInv => WithinAllocation
  BY DEF IInv
<1>2. QED
  BY <1>1, Inductive, PTL

\* trimtab_get_knobs reports the last max_num_seqs accepted.
THEOREM ReadBackCorrect == Spec => []ReportsTarget
<1>1. IInv => ReportsTarget
  BY DEF IInv, TargetKept, ReportsTarget, get_max_num_seqs, NoPending
<1>2. QED
  BY <1>1, Inductive, PTL

\* A failed reinit leaves the sizing of the last good one in the config,
\* unless the release in its error handler raised too.
THEOREM FailedReinitRestores == Spec => []SizingIsLastGood
<1>1. IInv => SizingIsLastGood
  BY DEF IInv
<1>2. QED
  BY <1>1, Inductive, PTL

\* No step admits above the last accepted max_num_seqs.
THEOREM AdmissionStops == Spec => NoAdmissionAboveTarget
<1>1. IInv /\ [Next]_vars => [running' > running => running' <= target]_vars
  <2> SUFFICES ASSUME IInv, Next, running' > running
               PROVE  running' <= target
    OBVIOUS
  <2>1. running \in Nat
    BY DEF IInv, TypeOK
  <2>2. ASSUME NEW n \in 0 .. MaxRequests, Schedule(n)
        PROVE  running' <= target
    <3>1. Tighten /\ running' = running + n /\ (n = 0 \/ running + n <= cap')
      BY <2>2 DEF Schedule
    <3>2. cap' = target \/ cap' = running
      BY <3>1, TightenInv
    <3>3. target \in Nat
      BY DEF IInv, TypeOK
    <3>4. QED
      BY <2>1, <3>1, <3>2, <3>3, BoundAssumption
  <2>3. ASSUME NEW n \in 0 .. MaxRequests, SchedulePreempting(n)
        PROVE  FALSE
    BY <2>1, <2>3, BoundAssumption DEF SchedulePreempting
  <2>4. ASSUME NEW fields,
               \/ Reinit(fields) \/ ReinitRestored(fields)
               \/ ReinitLost(fields) \/ ReinitStrayed(fields)
        PROVE  FALSE
    BY <2>1, <2>4 DEF Reinit, ReinitRestored, ReinitLost, ReinitStrayed, Rebuilt, requests
  <2>5. ASSUME NEW knobs, SetKnobs(knobs)
        PROVE  FALSE
    BY <2>1, <2>5 DEF SetKnobs, requests
  <2>6. CASE AddRequest \/ Finish \/ Abort
    BY <2>1, <2>6 DEF AddRequest, Finish, Abort
  <2>7. QED
    BY <2>2, <2>3, <2>4, <2>5, <2>6 DEF Next
<1>2. QED
  BY <1>1, Inductive, PTL DEF Spec, NoAdmissionAboveTarget
=============================================================================
