------------------------------- MODULE MCService -------------------------------
(* Small environments for Service: two good ones, with more and with fewer places *)
(* than worker goroutines, and one for each way to be wrong.                      *)
EXTENDS Service, TLC

Good == ("REDIS_URL" :> 1) @@ ("API_KEYS" :> 1) @@ ("DRAIN_TIMEOUT" :> 2)
Small == ("WORKER_POOL_SIZE" :> 1) @@ Good

MCEnvs ==
  {Good, ("REDIS_URL" :> 1), ("LOG_LEVEL" :> 0) @@ Good,
   ("WORKER_POOL_SIZE" :> -1) @@ Good, ("DRAIN_TIMEOUT" :> 0) @@ Good,
   ("DLQ_MONITOR_INTERVAL" :> 0) @@ Small, ("METRICS_PORT" :> 8080) @@ Small,
   ("RETRY_SCHEDULER_INTERVAL" :> 0) @@ Small,
   ("WORKER_CLAIM_IDLE_THRESHOLD" :> 0) @@ Small}
===============================================================================
