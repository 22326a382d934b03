------------------------------- MODULE Gates -------------------------------
(***************************************************************************)
(* The evidence of one canary: Canary.observe of trimtab/canary.py with    *)
(* the scraper of trimtab/metrics.py, over engines that serve requests and *)
(* restart in the meantime.  An engine exposes a counter of tokens and a   *)
(* histogram of latencies; the scraper turns two pages of one engine into  *)
(* a rate and quantiles, the orchestrator averages the samples of a side   *)
(* and holds the averages against the gates.                               *)
(*                                                                         *)
(* Latencies are whole milliseconds, a mean is an exact fraction, a ratio  *)
(* bound is in hundredths, the gap between two scrapes is the unit of time *)
(* and a request generates one token.                                      *)
(***************************************************************************)
EXTENDS Integers, Sequences, FiniteSets, Functions

CONSTANTS
  Replicas, Scope,     \* the canary's replicas are a proper part of all
  Edges,               \* upper edges of the finite buckets; one more, +Inf, follows
  GateLists,           \* the lists of gates to consider
  Samples,             \* the samples argument of observe
  MaxRequests,         \* bound on the requests the engines serve
  MaxFaults            \* bound on restarts of engines

Buckets == 1 .. Len(Edges) + 1
Inf == Len(Edges) + 1
Percent == [p50 |-> 50, p99 |-> 99]
Quantiles == DOMAIN Percent
Metrics == {"throughput", "requests"} \cup Quantiles

ASSUME GatesAssumption ==
  /\ IsFiniteSet(Replicas)
  /\ Scope # {} /\ Scope \subseteq Replicas /\ Scope # Replicas
  /\ Edges \in Seq(Nat \ {0}) /\ Edges # <<>>
  /\ \A i, j \in DOMAIN Edges : i < j => Edges[i] < Edges[j]
  /\ \A l \in GateLists : \A i \in DOMAIN l : \A bound \in DOMAIN l[i] \ {"metric"} : l[i][bound] \in Int
  /\ Samples \in Nat /\ MaxRequests \in Nat /\ MaxFaults \in Nat

VARIABLES
  gates,     \* the canary's gates, once decide has read its row
  engine,    \* replica -> [tokens, buckets]: what its engine exposes
  prev,      \* replica -> the page of its last sample, at most one
  todo,      \* replicas still to be sampled in this round
  round,     \* rounds completed
  samples,   \* replica -> the samples taken
  verdict,   \* "none", "promoted", "reverted", or "raised" by the scraper
  findings,  \* gate -> what was found
  fresh,     \* history: replica -> the histogram of requests since its last sample
  reset,     \* history: the replicas restarted since their last sample
  truth,     \* history: replica -> [fresh, reset] when each of its samples was taken
  faults,    \* number of restarts so far
  served     \* number of requests so far

vars == <<gates, engine, prev, todo, round, samples, verdict, findings, fresh, reset, truth, faults, served>>

-----------------------------------------------------------------------------
(* metrics.quantile and PrometheusMetrics.sample.  A histogram is exposed  *)
(* cumulatively: b[i] counts the requests up to the edge of bucket i.      *)

\* Of a histogram, the requests before bucket i.
Before(b, i) == IF i = 1 THEN 0 ELSE b[i - 1]

\* The first bucket whose count reaches q percent of all.
Reaching(q, delta) ==
  CHOOSE i \in Buckets :
    /\ 100 * delta[i] >= q * delta[Inf]
    /\ \A j \in Buckets : j < i => 100 * delta[j] < q * delta[Inf]

\* Mutant: the count of the earlier buckets is not taken off the rank.
quantileFromZero(q, delta) ==
  LET i       == Reaching(q, delta)
      prevLe  == Before(Edges, i)
      prevCum == Before(delta, i)
  IN IF i = Inf THEN prevLe
     ELSE prevLe + ((Edges[i] - prevLe) * (q * delta[Inf])) \div (100 * (delta[i] - prevCum))

\* Linear interpolation in that bucket; the last edge when it is +Inf.
quantile(q, delta) ==
  LET i       == Reaching(q, delta)
      prevLe  == Before(Edges, i)
      prevCum == Before(delta, i)
  IN IF i = Inf THEN prevLe
     ELSE prevLe + ((Edges[i] - prevLe) * (q * delta[Inf] - 100 * prevCum))
                     \div (100 * (delta[i] - prevCum))

\* Mutant: the latencies of a silent engine default to zero.
sampleZero(old, page) ==
  LET p     == CHOOSE p \in old : TRUE
      delta == [i \in Buckets |-> page.buckets[i] - p.buckets[i]]
  IN IF old = {} THEN [m \in {} |-> 0]
     ELSE [m \in Metrics |->
             CASE m = "throughput" -> page.tokens - p.tokens
               [] m = "requests" -> delta[Inf]
               [] OTHER -> IF delta[Inf] > 0 THEN quantile(Percent[m], delta) ELSE 0]

\* PrometheusMetrics.sample: without a page to compare with there are no
\* rates, without new requests no quantiles; a missing metric stays missing.
sample(old, page) ==
  LET p     == CHOOSE p \in old : TRUE
      delta == [i \in Buckets |-> page.buckets[i] - p.buckets[i]]
  IN IF old = {} THEN [m \in {} |-> 0]
     ELSE [m \in {"throughput"}
             \cup (IF delta[Inf] > 0 THEN Quantiles \cup {"requests"} ELSE {}) |->
             CASE m = "throughput" -> page.tokens - p.tokens
               [] m = "requests" -> delta[Inf]
               [] OTHER -> quantile(Percent[m], delta)]

-----------------------------------------------------------------------------
(* canary._mean and canary.evaluate.                                       *)

Taken(R) == UNION {{<<r, i>> : i \in DOMAIN samples[r]} : r \in R}
With(m, R) == {s \in Taken(R) : m \in DOMAIN samples[s[1]][s[2]]}

\* Mutant: a sample without the metric counts as zero.
MeanOverAll(R) ==
  [m \in {m \in Metrics : With(m, R) # {}} |->
     [sum |-> SumFunction([s \in With(m, R) |-> samples[s[1]][s[2]][m]]),
      n   |-> Cardinality(Taken(R))]]

\* Each metric over the samples that have it.
mean(R) ==
  [m \in {m \in Metrics : With(m, R) # {}} |->
     [sum |-> SumFunction([s \in With(m, R) |-> samples[s[1]][s[2]][m]]),
      n   |-> Cardinality(With(m, R))]]

Above(x, bound) == x.sum > bound * x.n
Below(x, bound) == x.sum < bound * x.n

\* x / y compared with a bound in hundredths; y is not zero but may be negative.
RatioAbove(x, y, bound) ==
  IF y.sum > 0 THEN 100 * x.sum * y.n > bound * x.n * y.sum
               ELSE 100 * x.sum * y.n < bound * x.n * y.sum
RatioBelow(x, y, bound) ==
  IF y.sum > 0 THEN 100 * x.sum * y.n < bound * x.n * y.sum
               ELSE 100 * x.sum * y.n > bound * x.n * y.sum

\* What the loop of evaluate finds for gate g; only "ok" lets the canary pass.
evaluate(g, c, b) ==
  LET m == g.metric
      Sets(bound) == bound \in DOMAIN g
  IN IF m \notin DOMAIN c THEN "no canary sample"
     ELSE IF Sets("max_abs") /\ Above(c[m], g.max_abs) THEN "above max_abs"
     ELSE IF Sets("min_abs") /\ Below(c[m], g.min_abs) THEN "below min_abs"
     ELSE IF ~Sets("max_ratio") /\ ~Sets("min_ratio") THEN "ok"
     ELSE IF m \notin DOMAIN b \/ b[m].sum = 0 THEN "no usable baseline"
     ELSE IF Sets("max_ratio") /\ RatioAbove(c[m], b[m], g.max_ratio) THEN "above max_ratio"
     ELSE IF Sets("min_ratio") /\ RatioBelow(c[m], b[m], g.min_ratio) THEN "below min_ratio"
     ELSE "ok"

-----------------------------------------------------------------------------
\* What metrics.parse makes of an exposition.
Page == [tokens : 0 .. MaxRequests, buckets : [Buckets -> 0 .. MaxRequests]]

Fresh == [tokens |-> 0, buckets |-> [i \in Buckets |-> 0]]

Init ==
  /\ gates = <<>>
  /\ engine = [r \in Replicas |-> Fresh]
  /\ prev = [r \in Replicas |-> {}]
  /\ todo = Replicas
  /\ round = 0
  /\ samples = [r \in Replicas |-> <<>>]
  /\ verdict = "none"
  /\ findings = <<>>
  /\ fresh = [r \in Replicas |-> Fresh.buckets]
  /\ reset = {}
  /\ truth = [r \in Replicas |-> <<>>]
  /\ faults = 0
  /\ served = 0

Observing == verdict = "none" /\ round < Samples

\* The replicas of the scope first, then the others; then the gap.
Turn(r) == r \in todo /\ (r \in Scope \/ todo \cap Scope = {})

\* One more request in bucket i.
Counted(b, i) == [j \in Buckets |-> IF j >= i THEN b[j] + 1 ELSE b[j]]

\* The engine of r answers a request, in bucket i.  Only the samples of r read
\* its engine, so what it does since the last one may come right before the next.
Serve(r, i) ==
  /\ Observing
  /\ Turn(r)
  /\ served < MaxRequests
  /\ served' = served + 1
  /\ engine' = [engine EXCEPT ![r] = [tokens |-> @.tokens + 1, buckets |-> Counted(@.buckets, i)]]
  /\ fresh' = [fresh EXCEPT ![r] = Counted(@, i)]
  /\ UNCHANGED <<gates, prev, todo, round, samples, verdict, findings, reset, truth, faults>>

\* The engine of r restarts, and its counters with it.
Restart(r) ==
  /\ Observing
  /\ Turn(r)
  /\ faults < MaxFaults
  /\ faults' = faults + 1
  /\ engine' = [engine EXCEPT ![r] = Fresh]
  /\ reset' = reset \cup {r}
  /\ UNCHANGED <<gates, prev, todo, round, samples, verdict, findings, fresh, truth, served>>

\* Mutant: a round ends with the scope, no baseline is sampled.
NextRoundScope(r) ==
  IF todo \cap Scope \subseteq {r} THEN todo' = Replicas /\ round' = round + 1
                                  ELSE todo' = todo \ {r} /\ UNCHANGED round

NextRound(r) ==
  IF todo = {r} THEN todo' = Replicas /\ round' = round + 1
                ELSE todo' = todo \ {r} /\ UNCHANGED round

\* Mutant: the page of the first sample is kept.
SampleFromFirst(r) ==
  /\ Observing
  /\ Turn(r)
  /\ NextRound(r)
  /\ samples' = [samples EXCEPT ![r] = Append(@, sample(prev[r], engine[r]))]
  /\ prev' = IF prev[r] = {} THEN [prev EXCEPT ![r] = {engine[r]}] ELSE prev
  /\ truth' = [truth EXCEPT ![r] = Append(@, [fresh |-> fresh[r], reset |-> r \in reset])]
  /\ fresh' = [fresh EXCEPT ![r] = Fresh.buckets]
  /\ reset' = reset \ {r}
  /\ UNCHANGED <<gates, engine, verdict, findings, faults, served>>

Sample(r) ==
  /\ Observing
  /\ Turn(r)
  /\ NextRound(r)
  /\ samples' = [samples EXCEPT ![r] = Append(@, sample(prev[r], engine[r]))]
  /\ prev' = [prev EXCEPT ![r] = {engine[r]}]
  /\ truth' = [truth EXCEPT ![r] = Append(@, [fresh |-> fresh[r], reset |-> r \in reset])]
  /\ fresh' = [fresh EXCEPT ![r] = Fresh.buckets]
  /\ reset' = reset \ {r}
  /\ UNCHANGED <<gates, engine, verdict, findings, faults, served>>

\* The engine does not answer the scraper: observe raises, nothing is decided.
SampleRaises ==
  /\ Observing
  /\ verdict' = "raised"
  /\ UNCHANGED <<gates, engine, prev, todo, round, samples, findings, fresh, reset, truth, faults, served>>

\* decide, as far as the verdict goes; what it does to the store is in Canary.
Decide ==
  /\ verdict = "none" /\ round = Samples
  /\ gates' \in GateLists
  /\ findings' = [i \in DOMAIN gates' |-> evaluate(gates'[i], mean(Scope), mean(Replicas \ Scope))]
  /\ verdict' = IF \A i \in DOMAIN gates' : findings'[i] = "ok" THEN "promoted" ELSE "reverted"
  /\ UNCHANGED <<engine, prev, todo, round, samples, fresh, reset, truth, faults, served>>

Next ==
  \/ \E r \in Replicas :
       \/ \E i \in Buckets : Serve(r, i)
       \/ Restart(r)
       \/ Sample(r)
  \/ SampleRaises
  \/ Decide

Spec == Init /\ [][Next]_vars

-----------------------------------------------------------------------------
(* Properties. *)

SampleSet == [{} -> Int] \cup [{"throughput"} -> Int] \cup [Metrics -> Int]
Truth == [fresh : [Buckets -> 0 .. MaxRequests], reset : BOOLEAN]

TypeOK ==
  /\ gates \in GateLists \cup {<<>>}
  /\ engine \in [Replicas -> Page]
  /\ prev \in [Replicas -> SUBSET Page]
  /\ \A r \in Replicas : \A p, p2 \in prev[r] : p = p2
  /\ todo \subseteq Replicas /\ todo # {}
  /\ round \in 0 .. Samples
  /\ samples \in [Replicas -> Seq(SampleSet)]
  \* Every side is sampled in every round, the scope ahead of the others.
  /\ \A r \in Replicas :
       Len(samples[r]) = IF round < Samples /\ r \notin todo THEN round + 1 ELSE round
  /\ verdict \in {"none", "promoted", "reverted", "raised"}
  /\ verdict \in {"promoted", "reverted"} => DOMAIN findings = DOMAIN gates
  /\ fresh \in [Replicas -> [Buckets -> 0 .. MaxRequests]]
  /\ reset \subseteq Replicas
  /\ truth \in [Replicas -> Seq(Truth)]
  /\ \A r \in Replicas : Len(truth[r]) = Len(samples[r])
  /\ faults \in 0 .. MaxFaults
  /\ served \in 0 .. MaxRequests

\* The bucket in which the request lies that has q percent of the requests of
\* b, rounded up, at or before it.
TrueBucket(q, b) ==
  CHOOSE i \in Buckets :
    LET k == (q * b[Inf] + 99) \div 100
    IN Before(b, i) < k /\ k <= b[i]

UpperEdge(i) == Edges[IF i = Inf THEN i - 1 ELSE i]

\* What a sample s says of the histogram b of the requests it is about: it
\* counts them, and each quantile lies in the bucket of the request of that rank.
Measures(s, b) ==
  /\ s["throughput"] = b[Inf]
  /\ \A p \in Quantiles :
       IF b[Inf] = 0 THEN p \notin DOMAIN s
       ELSE LET k == TrueBucket(Percent[p], b)
            IN Before(Edges, k) <= s[p] /\ s[p] <= UpperEdge(k)

\* A sample measures its replica between two samples (metrics.py: "between this
\* sample and the previous one for the same replica"), unless the engine
\* restarted in between.
SampleMeasures ==
  \A r \in Replicas : \A i \in DOMAIN samples[r] \ {1} :
    ~truth[r][i].reset => Measures(samples[r][i], truth[r][i].fresh)

\* The quantiles of a sample stay in the range of the edges, in their order.
Ordered(s) ==
  Quantiles \subseteq DOMAIN s =>
    0 <= s["p50"] /\ s["p50"] <= s["p99"] /\ s["p99"] <= Edges[Len(Edges)]

\* A counter reset between two samples makes the deltas of single buckets
\* negative; still no quantile leaves the range of the edges and the 99th is
\* never below the 50th.
QuantilesOrdered ==
  \A r \in Replicas : \A i \in DOMAIN samples[r] : Ordered(samples[r][i])

\* A silent canary never passes (metrics.py: "a gate on an absent metric fails
\* loudly instead of passing silently"): a gate on latency lets a candidate
\* pass only when an engine of the scope finished a request after its first
\* sample, restarts or not.
SilentNeverPasses ==
  (verdict = "promoted" /\ \E i \in DOMAIN gates : gates[i].metric \in Quantiles) =>
    \E r \in Scope : \E i \in DOMAIN truth[r] \ {1} : truth[r][i].fresh[Inf] > 0

\* What the replicas R showed of metric m, sample by sample.
Values(m, R) == {samples[s[1]][s[2]][m] : s \in With(m, R)}

\* The cases that leave nothing to judge (evaluate): a canary each of whose
\* samples is above the bound on every baseline sample is not promoted, and one
\* none of whose samples is above any baseline sample passes that gate.
ClearCases ==
  \A i \in DOMAIN findings :
    LET g == gates[i]
        m == g.metric
        c == Values(m, Scope)
        b == Values(m, Replicas \ Scope)
    IN ("max_ratio" \in DOMAIN g /\ c # {} /\ b # {} /\ \A y \in b : y > 0) =>
         /\ (\A x \in c, y \in b : 100 * x > g.max_ratio * y) => verdict # "promoted"
         /\ (g.max_ratio >= 100 /\ DOMAIN g = {"metric", "max_ratio"}
               /\ \A x \in c, y \in b : x <= y) => findings[i] = "ok"

-----------------------------------------------------------------------------
(* The inductive invariant of the safety proofs. *)

Cumulative(b) == \A i, j \in Buckets : i <= j => b[i] <= b[j]

\* One token per request, and no more requests than were served.
PagesAgree ==
  \A r \in Replicas :
    /\ Cumulative(engine[r].buckets) /\ engine[r].tokens = engine[r].buckets[Inf]
    /\ Cumulative(fresh[r])
    /\ \A p \in prev[r] : Cumulative(p.buckets) /\ p.tokens = p.buckets[Inf]
    /\ engine[r].buckets[Inf] <= served /\ fresh[r][Inf] <= served

\* An engine is ahead of its last page by what it did since; less after a reset.
AheadOfPage ==
  \A r \in Replicas : \A p \in prev[r] :
    /\ \A i \in Buckets : engine[r].buckets[i] <= p.buckets[i] + fresh[r][i]
    /\ r \notin reset => \A i \in Buckets : engine[r].buckets[i] = p.buckets[i] + fresh[r][i]

\* The first sample has no page to compare with and yields nothing; only
\* requests since the sample before yield quantiles.
SamplesBacked ==
  \A r \in Replicas :
    /\ prev[r] = {} <=> samples[r] = <<>>
    /\ samples[r] # <<>> => DOMAIN samples[r][1] = {}
    /\ \A i \in DOMAIN samples[r] \ {1} :
         Quantiles \cap DOMAIN samples[r][i] # {} => truth[r][i].fresh[Inf] > 0

\* What was found is what evaluate makes of the samples taken.
Judged ==
  /\ verdict \in {"none", "raised"} => findings = <<>>
  /\ verdict \in {"promoted", "reverted"} =>
       findings = [i \in DOMAIN gates |-> evaluate(gates[i], mean(Scope), mean(Replicas \ Scope))]
  /\ verdict = "promoted" => \A i \in DOMAIN findings : findings[i] = "ok"

GatesInv ==
  /\ TypeOK
  /\ PagesAgree
  /\ AheadOfPage
  /\ SamplesBacked
  /\ SampleMeasures
  /\ QuantilesOrdered
  /\ SilentNeverPasses
  /\ Judged
=============================================================================
