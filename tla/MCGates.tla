------------------------------ MODULE MCGates ------------------------------
(* A small instance of Gates for TLC: buckets up to 100 and 400 ms, and the *)
(* gates of the README's example and of the tests.                          *)
EXTENDS Gates

CONSTANTS r1, r2

TwoEdges == <<100, 400>>

ReadmeGates == <<[metric |-> "p99", max_ratio |-> 125], [metric |-> "throughput", min_ratio |-> 90]>>
RatioGate   == <<[metric |-> "p50", max_ratio |-> 100]>>
BoundsGate  == <<[metric |-> "p50", max_abs |-> 120, min_abs |-> 40]>>
SomeGates   == {ReadmeGates, RatioGate, BoundsGate}
=============================================================================
