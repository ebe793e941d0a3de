----------------------------- MODULE WorkerPool -----------------------------
(***************************************************************************)
(* The worker pool (workers/pool.py): a table of workers that four kinds   *)
(* of threads act on: callers of start(), stop(), scale_up() and           *)
(* scale_down(), the auto-scaler, the health checker, and the workers      *)
(* themselves, whose state the others read without their taking part.      *)
(* Every access to the table holds WorkerPool._lock, except one: the       *)
(* health check finds dead workers under the lock, then replaces each one  *)
(* with the lock taken for the removal and not for the spawning.           *)
(*                                                                         *)
(* stop() lets go of the lock before it tells the background threads to    *)
(* end, and does not wait for them for ever; start() clears what stop()    *)
(* has set.  So background threads of several starts, and several stop()   *)
(* calls, may be under way: they have the number of the start() they       *)
(* belong to.                                                              *)
(*                                                                         *)
(* Which idle workers _worker_idle_since has recorded and which of them    *)
(* longest, how old a heartbeat is and how long the job queue is are       *)
(* choices of the environment.                                             *)
(***************************************************************************)
EXTENDS Workers

CONSTANT MaxStarts  \* bound: calls of start()

Gens == 1 .. MaxStarts

(* What PoolConfig.validate lets through.  Three bounds go with a          *)
(* configuration: how many workers exist at a time, those that are ending  *)
(* included, how often the pool is started, and which background threads   *)
(* have an interval short enough to do anything but end.                   *)
PoolConfig ==
    {c \in [worker_type : {"thread", "process", "async"}, min_workers : Nat, max_workers : Nat,
            existing : Nat, starts : 0 .. MaxStarts, acting : SUBSET {"scaler", "health"}] :
        c.min_workers <= c.max_workers}

ASSUME PoolAssumption == MaxStarts \in Nat /\ Configs \subseteq PoolConfig

VARIABLES
    workers,    \* _workers
    running,    \* _running
    quit,       \* which of _scaler_stop and _health_stop are set
    stopping,   \* where each stop() is: it sets the events, waits, and stops workers
    toStop,     \* workers that the stop() with the lock has still to stop
    scaler,     \* the auto-scalers: "off", "wait", "up", "down"
    wanted,     \* to_add of a decision to scale up
    health,     \* the health checkers
    toRestart,  \* workers_to_restart
    toRemove,   \* workers_to_remove
    fresh,      \* the replacement being created, a set of at most one
    starts,     \* history: calls of start()
    unchecked,  \* history: a restart, or start() on a table with workers, has spawned
    late        \* history: workers started in a pool that is not running, and after
                \* a stop() last listed the workers to stop

stopVars == <<running, quit, stopping, toStop, starts>>
scalerVars == <<scaler, wanted>>
healthVars == <<health, toRestart, toRemove, fresh, unchecked>>

vars == <<workerVars, workers, stopVars, scalerVars, healthVars, late>>

TypeOK ==
    /\ WorkersTypeOK
    /\ workers \subseteq Ids
    /\ running \in BOOLEAN
    /\ quit \subseteq {"scaler", "health"}
    /\ stopping \in [Gens -> {"no", "scaler", "health", "join", "stop"}]
    /\ toStop \subseteq workers
    /\ scaler \in [Gens -> {"off", "wait", "up", "down"}]
    /\ wanted \in [Gens -> 0 .. config.max_workers]
    /\ health \in [Gens -> {"off", "wait", "restart", "create", "start", "remove"}]
    /\ toRestart \in [Gens -> SUBSET Ids]
    /\ toRemove \in [Gens -> SUBSET Ids]
    /\ fresh \in [Gens -> SUBSET Ids]
    /\ starts \in 0 .. config.starts
    /\ unchecked \in BOOLEAN
    /\ late \subseteq Ids

Init ==
    /\ WorkersInit
    /\ workers = {}
    /\ running = FALSE /\ quit = {}
    /\ stopping = [g \in Gens |-> "no"] /\ toStop = {}
    /\ scaler = [g \in Gens |-> "off"] /\ wanted = [g \in Gens |-> 0]
    /\ health = [g \in Gens |-> "off"]
    /\ toRestart = [g \in Gens |-> {}]
    /\ toRemove = [g \in Gens |-> {}]
    /\ fresh = [g \in Gens |-> {}]
    /\ starts = 0 /\ unchecked = FALSE
    /\ late = {}

Size == Cardinality(workers)

(* stop() holds the lock while it stops the workers of the table. *)
LockFree == \A g \in Gens : stopping[g] # "stop"

(* Ids a new worker can have: nothing is left of the last one. *)
Unused ==
    {w \in Ids : /\ w \notin workers /\ Over(w)
                 /\ \A g \in Gens : w \notin toRestart[g] \cup toRemove[g]}

NewIds(n) ==
    {S \in SUBSET Unused : Cardinality(S) = n /\ Cardinality(Ids \ Unused) + n <= config.existing}

-----------------------------------------------------------------------------
(* _spawn_worker and _remove_worker, under the lock. *)

Begun(S) == late' = IF running THEN late \ S ELSE late \cup S

Spawn(S) ==
    /\ workers' = workers \cup S
    /\ Started(S)
    /\ Begun(S)

(* Mutant: the worker is taken from the table and not told to stop. *)
RemoveUntold(w) ==
    /\ workers' = workers \ {w}
    /\ UNCHANGED workerVars

RemoveWorker(w) ==
    /\ Stopped(w, FALSE)
    /\ workers' = workers \ {w}

(* scale_up(n): as many as there is room for. *)
ScaleUp(n) ==
    /\ LockFree
    /\ LET room == IF Size < config.max_workers THEN config.max_workers - Size ELSE 0
       IN  \E S \in NewIds(IF n <= room THEN n ELSE room) : Spawn(S)

Idle == {w \in workers : state[w] = "IDLE"}

(* Mutant: the lower limit is looked at before the lock is taken. *)
ScaleDownUnlimited ==
    /\ LockFree
    /\ \E w \in Idle : RemoveWorker(w)
    /\ UNCHANGED late

(* scale_down(1): a worker that is idle now and recorded as idle, if there *)
(* is one and that leaves enough.                                          *)
ScaleDown ==
    /\ LockFree
    /\ \/ Size > config.min_workers /\ \E w \in Idle : RemoveWorker(w)
       \/ UNCHANGED <<workerVars, workers>>
    /\ UNCHANGED late

-----------------------------------------------------------------------------
(* Callers. *)

(* start(): the minimum is spawned, whoever is still in the table.  It     *)
(* does not look at a stop() under way, nor at background threads that     *)
(* have not ended.                                                         *)
Start ==
    LET g == starts + 1
    IN  /\ LockFree
        /\ ~running
        /\ starts < config.starts
        /\ running' = TRUE
        /\ quit' = {}
        /\ starts' = g
        /\ \E S \in NewIds(config.min_workers) :
              /\ workers' = workers \cup S
              /\ Started(S)
              /\ late' = late \ S
        /\ unchecked' = (unchecked \/ workers # {})
        /\ scaler' = [scaler EXCEPT ![g] = "wait"]
        /\ health' = [health EXCEPT ![g] = "wait"]
        /\ UNCHANGED <<stopping, toStop, wanted, toRestart, toRemove, fresh>>

CallScaleUp == ScaleUp(1) /\ UNCHANGED <<stopVars, scalerVars, healthVars>>

CallScaleDown == ScaleDown /\ UNCHANGED <<stopVars, scalerVars, healthVars>>

(* stop(): _running is cleared under the lock, ... *)
Stop ==
    /\ LockFree
    /\ running
    /\ running' = FALSE
    /\ stopping' = [stopping EXCEPT ![starts] = "scaler"]
    /\ UNCHANGED <<workerVars, workers, quit, toStop, starts, scalerVars, healthVars, late>>

(* ... the background threads are told to end, one after the other, ... *)
StopEvent(g) ==
    /\ stopping[g] \in {"scaler", "health"}
    /\ quit' = quit \cup {stopping[g]}
    /\ stopping' = [stopping EXCEPT ![g] = IF @ = "scaler" THEN "health" ELSE "join"]
    /\ UNCHANGED <<workerVars, workers, running, toStop, starts, scalerVars, healthVars, late>>

(* Mutant: only the workers that are idle are stopped. *)
StopJoinIdle(g) ==
    /\ stopping[g] = "join" /\ LockFree
    /\ stopping' = [stopping EXCEPT ![g] = "stop"]
    /\ toStop' = {w \in workers : state[w] = "IDLE"}
    /\ late' = {}
    /\ UNCHANGED <<workerVars, workers, running, quit, starts, scalerVars, healthVars>>

(* ... and are waited for, two seconds each: that may not be enough.       *)
StopJoin(g) ==
    /\ stopping[g] = "join" /\ LockFree
    /\ stopping' = [stopping EXCEPT ![g] = "stop"]
    /\ toStop' = workers
    /\ late' = {}
    /\ UNCHANGED <<workerVars, workers, running, quit, starts, scalerVars, healthVars>>

(* Then the workers are stopped one by one, under the lock. *)
StopWorker(g, w, wait) ==
    /\ stopping[g] = "stop"
    /\ w \in toStop
    /\ Stopped(w, wait)
    /\ toStop' = toStop \ {w}
    /\ UNCHANGED <<workers, running, quit, stopping, starts, scalerVars, healthVars, late>>

StopReturn(g) ==
    /\ stopping[g] = "stop" /\ toStop = {}
    /\ stopping' = [stopping EXCEPT ![g] = "no"]
    /\ UNCHANGED <<workerVars, workers, running, quit, toStop, starts, scalerVars, healthVars, late>>

-----------------------------------------------------------------------------
(* The auto-scaler. *)

(* _perform_scaling_decision: the numbers are read under the lock, the     *)
(* decision is acted on after it.                                          *)
ScalerDecide(g) ==
    LET current == Cardinality({w \in workers : state[w] # "STOPPED"})
        busy    == Cardinality({w \in workers : state[w] = "BUSY"})
    IN  /\ scaler[g] = "wait" /\ "scaler" \in config.acting \ quit /\ LockFree
        /\ \/ /\ current < config.max_workers
              /\ \E n \in 1 .. config.max_workers - current : wanted' = [wanted EXCEPT ![g] = n]
              /\ scaler' = [scaler EXCEPT ![g] = "up"]
           \/ /\ current > config.min_workers /\ busy < current
              /\ scaler' = [scaler EXCEPT ![g] = "down"]
              /\ UNCHANGED wanted
        /\ UNCHANGED <<workerVars, workers, stopVars, healthVars, late>>

ScalerUp(g) ==
    /\ scaler[g] = "up"
    /\ ScaleUp(wanted[g])
    /\ scaler' = [scaler EXCEPT ![g] = "wait"]
    /\ wanted' = [wanted EXCEPT ![g] = 0]
    /\ UNCHANGED <<stopVars, healthVars>>

ScalerDown(g) ==
    /\ scaler[g] = "down"
    /\ ScaleDown
    /\ scaler' = [scaler EXCEPT ![g] = "wait"]
    /\ UNCHANGED <<stopVars, wanted, healthVars>>

ScalerEnd(g) ==
    /\ scaler[g] = "wait" /\ "scaler" \in quit
    /\ scaler' = [scaler EXCEPT ![g] = "off"]
    /\ UNCHANGED <<workerVars, workers, stopVars, wanted, healthVars, late>>

-----------------------------------------------------------------------------
(* The health checker. *)

Dead(w) == ~IsAlive(w) /\ state[w] # "STOPPED"

(* _perform_health_check, under the lock: dead workers and busy ones with  *)
(* an old heartbeat are to be restarted, long idle ones to be removed.  A   *)
(* coordinator keeps beating while its child works.                        *)
HealthCheck(g) ==
    LET dead == {w \in workers : Dead(w)}
    IN  /\ health[g] = "wait" /\ "health" \in config.acting \ quit /\ LockFree
        /\ \E slow \in SUBSET {w \in workers \ dead : state[w] = "BUSY" /\ kind # "process"} :
              toRestart' = [toRestart EXCEPT ![g] = dead \cup slow]
        /\ \E old \in SUBSET (IF Size > config.min_workers THEN Idle \ dead ELSE {}) :
              toRemove' = [toRemove EXCEPT ![g] = old]
        /\ health' = [health EXCEPT ![g] = "restart"]
        /\ UNCHANGED <<workerVars, workers, stopVars, scalerVars, fresh, unchecked, late>>

(* _restart_worker: stop and drop the old one, if it is still there, ... *)
RestartRemove(g, w) ==
    /\ health[g] = "restart" /\ LockFree
    /\ w \in toRestart[g]
    /\ IF w \in workers THEN RemoveWorker(w) ELSE UNCHANGED <<workerVars, workers>>
    /\ toRestart' = [toRestart EXCEPT ![g] = @ \ {w}]
    /\ health' = [health EXCEPT ![g] = "create"]
    /\ UNCHANGED <<stopVars, scalerVars, toRemove, fresh, unchecked, late>>

(* ... and, without the lock, put a new one into the table, ... *)
RestartCreate(g) ==
    /\ health[g] = "create"
    /\ \E S \in NewIds(1) :
          /\ Created(S)
          /\ workers' = workers \cup S
          /\ fresh' = [fresh EXCEPT ![g] = S]
    /\ unchecked' = TRUE
    /\ health' = [health EXCEPT ![g] = "start"]
    /\ UNCHANGED <<stopVars, scalerVars, toRestart, toRemove, late>>

(* ... and start it. *)
RestartStart(g) ==
    /\ health[g] = "start"
    /\ Started(fresh[g])
    /\ Begun(fresh[g])
    /\ fresh' = [fresh EXCEPT ![g] = {}]
    /\ health' = [health EXCEPT ![g] = "restart"]
    /\ UNCHANGED <<workers, stopVars, scalerVars, toRestart, toRemove, unchecked>>

RestartsDone(g) ==
    /\ health[g] = "restart" /\ toRestart[g] = {}
    /\ health' = [health EXCEPT ![g] = "remove"]
    /\ UNCHANGED <<workerVars, workers, stopVars, scalerVars, toRestart, toRemove, fresh, unchecked, late>>

(* A long idle worker goes, whatever it does by now, if that leaves enough.*)
HealthRemove(g, w) ==
    /\ health[g] = "remove" /\ LockFree
    /\ w \in toRemove[g]
    /\ IF w \in workers /\ Size > config.min_workers
       THEN RemoveWorker(w) ELSE UNCHANGED <<workerVars, workers>>
    /\ toRemove' = [toRemove EXCEPT ![g] = @ \ {w}]
    /\ UNCHANGED <<stopVars, scalerVars, health, toRestart, fresh, unchecked, late>>

HealthDone(g) ==
    /\ health[g] = "remove" /\ toRemove[g] = {}
    /\ health' = [health EXCEPT ![g] = "wait"]
    /\ UNCHANGED <<workerVars, workers, stopVars, scalerVars, toRestart, toRemove, fresh, unchecked, late>>

HealthEnd(g) ==
    /\ health[g] = "wait" /\ "health" \in quit
    /\ health' = [health EXCEPT ![g] = "off"]
    /\ UNCHANGED <<workerVars, workers, stopVars, scalerVars, toRestart, toRemove, fresh, unchecked, late>>

-----------------------------------------------------------------------------
poolVars == <<workers, stopVars, scalerVars, healthVars, late>>

Stopping(g) ==
    \/ StopEvent(g) \/ StopJoin(g) \/ StopReturn(g)
    \/ \E w \in Ids, wait \in BOOLEAN : StopWorker(g, w, wait)

Scaler(g) == ScalerDecide(g) \/ ScalerUp(g) \/ ScalerDown(g) \/ ScalerEnd(g)

Health(g) ==
    \/ HealthCheck(g) \/ RestartCreate(g) \/ RestartStart(g) \/ RestartsDone(g)
    \/ \E w \in Ids : RestartRemove(g, w) \/ HealthRemove(g, w)
    \/ HealthDone(g) \/ HealthEnd(g)

Next ==
    \/ Start \/ CallScaleUp \/ CallScaleDown \/ Stop
    \/ \E g \in Gens : Stopping(g) \/ Scaler(g) \/ Health(g)
    \/ \E w \in Ids : (Work(w) \/ Crash(w)) /\ UNCHANGED poolVars

Safety == Init /\ [][Next]_vars

(* The workers' threads and processes keep running, and jobs return. *)
Fairness == \A w \in Ids : WF_vars(Work(w) /\ UNCHANGED poolVars)

Spec == Safety /\ Fairness

-----------------------------------------------------------------------------
(* Properties *)

(* The health checkers that have dropped a worker and not yet replaced it. *)
Creating == {g \in Gens : health[g] = "create"}

(* The class comment: never below min_workers or above max_workers.  That  *)
(* is true of the auto-scalers, the callers and the removal of idle        *)
(* workers, whatever each has decided on before the others act.  A worker  *)
(* being replaced is missing for a moment; and a replacement, or start()   *)
(* on a table that has workers, takes no notice of the maximum.            *)
SizeWithinLimits ==
    /\ starts # 0 => Size + Cardinality(Creating) >= config.min_workers
    /\ ~unchecked => Size <= config.max_workers

(* No worker is forgotten: a thread or child that goes on is in the table, *)
(* or has been told to stop, or is the replacement being started.          *)
NoneForgotten ==
    \A w \in Ids : Threaded(w) \/ child[w] => w \in workers \/ told[w]

(* When every stop() has returned and the pool is not started again, all   *)
(* that still runs has been told to stop, but for what a scale_up(), or a  *)
(* background thread that outlasted stop()'s wait, has started since       *)
(* stop() listed the workers.  So it is however start() and stop()         *)
(* overlap, and whatever workers come and go while stop() waits.           *)
StopReachesAll ==
    ~running /\ (\A g \in Gens : stopping[g] = "no") =>
        \A w \in Ids : Threaded(w) \/ child[w] => told[w] \/ w \in late

(* Stopping, shrinking and restarting a pool of threads loses no job: each *)
(* worker finishes the job it has, even one it was handed after stop().    *)
ThreadsFinishJobs == kind = "thread" => ~lost

(* A worker that is told to stop ends, although the end of its job sets    *)
(* its state back to IDLE.                                                 *)
ToldWorkersEnd == \A w \in Ids : told[w] ~> ~told[w]
=============================================================================
