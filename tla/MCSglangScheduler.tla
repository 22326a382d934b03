------------------------- MODULE MCSglangScheduler -------------------------
(* Small instances of SglangScheduler for TLC: two ranks; the request      *)
(* slots follow from the pool until a reinit fixes them.                   *)
EXTENDS SglangScheduler, TLC

Launched == [k \in SizingKeys |->
  CASE k = "mem_fraction_static" -> 2
    [] k = "kv_cache_dtype" -> 1
    [] k = "max_total_tokens" -> None
    [] k = "max_running_requests" -> None]

Hot == {("max_running_requests" :> 1), ("max_running_requests" :> 2),
        ("max_running_requests" :> 2) @@ ("max_prefill_tokens" :> 2)}

Warm == {("mem_fraction_static" :> 1),
         ("max_running_requests" :> 1) @@ ("mem_fraction_static" :> 2),
         ("max_total_tokens" :> 1) @@ ("kv_cache_dtype" :> 2)}
=============================================================================
