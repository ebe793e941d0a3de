---------------------------- MODULE MCWorkerPool ----------------------------
(* Pools of threads, at their minimum and at their maximum, a pool of one  *)
(* process, one of one event loop, and a pool that is started twice.       *)
EXTENDS WorkerPool

Pool(type, min, max, room, times, threads) ==
    [worker_type |-> type, min_workers |-> min, max_workers |-> max,
     existing |-> room, starts |-> times, acting |-> threads]

Both == {"scaler", "health"}

SmallPools ==
    {Pool("thread", 0, 1, 1, 1, Both), Pool("thread", 1, 2, 2, 1, {"health"}),
     Pool("thread", 1, 2, 2, 1, {"scaler"}), Pool("thread", 0, 1, 1, 2, {}),
     Pool("thread", 1, 1, 2, 2, {}), Pool("process", 1, 1, 1, 1, Both),
     Pool("async", 1, 1, 1, 1, Both)}
=============================================================================
