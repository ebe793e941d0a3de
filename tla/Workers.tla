------------------------------- MODULE Workers -------------------------------
(***************************************************************************)
(* The life of the workers of a pool: BaseWorker (workers/worker.py),      *)
(* ThreadWorker, ProcessWorker and AsyncWorker.  A worker's loop runs in a *)
(* thread of its own: it takes jobs from the scheduler and carries them    *)
(* out there (thread), in a child process that the loop coordinates        *)
(* (process), or as tasks of an event loop (async).  stop() is called from *)
(* other threads, and both sides write the worker's state without a lock.  *)
(*                                                                         *)
(* `hand` counts the jobs a worker has taken: queued (sent to the child,   *)
(* or waiting for the semaphore), running, and done (a result the          *)
(* coordinator has not read).  What becomes of a job in the scheduler is   *)
(* in Scheduler; here a job is carried out, or lost when the worker ends.  *)
(***************************************************************************)
EXTENDS Integers, FiniteSets

CONSTANTS
    Ids,            \* workers; an id is used again when all of it has ended
    Configs,        \* the configurations of the pool (PoolConfig)
    MaxConcurrent,  \* max_concurrent_jobs of an AsyncWorker
    MaxTasks,       \* bound: jobs an AsyncWorker holds at a time
    MaxCrashes      \* bound: job functions that end their thread or process

ASSUME WorkersAssumption ==
    /\ IsFiniteSet(Ids)
    /\ \A c \in Configs : c.worker_type \in {"thread", "process", "async"}
    /\ MaxConcurrent \in Nat \ {0}
    /\ MaxTasks \in Nat \ {0}
    /\ MaxCrashes \in Nat

VARIABLES
    config,   \* the pool's configuration, which never changes
    state,    \* worker._state
    loop,     \* where the worker's own thread is
    told,     \* _stop_event, _coordinator_stop or _should_stop is set, and the worker goes on
    hand,     \* the jobs it has taken
    child,    \* a ProcessWorker's child process is alive
    cancel,   \* an AsyncWorker's _cancel_all_tasks is scheduled
    crashes,  \* how many functions have crashed
    lost      \* history: a worker that was told to stop has dropped a job

workerVars == <<config, state, loop, told, hand, child, cancel, crashes, lost>>

kind == config.worker_type

Nothing == [queued |-> 0, running |-> 0, done |-> 0]

WorkerState == {"IDLE", "BUSY", "STOPPING", "STOPPED"}

WorkersTypeOK ==
    /\ config \in Configs
    /\ state \in [Ids -> WorkerState]
    /\ loop \in [Ids -> {"ended", "top", "poll", "run", "drain"}]
    /\ told \in [Ids -> BOOLEAN]
    /\ hand \in [Ids -> [queued : 0 .. MaxTasks, running : 0 .. MaxTasks, done : 0 .. 1]]
    /\ child \in [Ids -> BOOLEAN]
    /\ cancel \in [Ids -> BOOLEAN]
    /\ crashes \in 0 .. MaxCrashes
    /\ lost \in BOOLEAN

WorkersInit ==
    /\ config \in Configs
    /\ state = [w \in Ids |-> "STOPPED"]
    /\ loop = [w \in Ids |-> "ended"]
    /\ told = [w \in Ids |-> FALSE]
    /\ hand = [w \in Ids |-> Nothing]
    /\ child = [w \in Ids |-> FALSE]
    /\ cancel = [w \in Ids |-> FALSE]
    /\ crashes = 0
    /\ lost = FALSE

Threaded(w) == loop[w] # "ended"

(* is_alive of the three workers. *)
IsAlive(w) == IF kind = "process" THEN child[w] ELSE Threaded(w)

(* All of the worker has ended: its thread and its process. *)
Over(w) == ~Threaded(w) /\ ~child[w]

-----------------------------------------------------------------------------
(* start() and stop(), which the pool calls.  A replacement is created,    *)
(* with state STOPPED, before it is started.                               *)

Created(S) ==
    /\ state' = [w \in Ids |-> IF w \in S THEN "STOPPED" ELSE state[w]]
    /\ UNCHANGED <<config, loop, told, hand, child, cancel, crashes, lost>>

(* The loop of each kind of worker runs in a new thread; a ProcessWorker   *)
(* starts its child first.                                                 *)
StartLoop(S) ==
    /\ state' = [w \in Ids |-> IF w \in S THEN "IDLE" ELSE state[w]]
    /\ loop' = [w \in Ids |-> IF w \in S THEN "top" ELSE loop[w]]
    /\ told' = [w \in Ids |-> told[w] /\ w \notin S]

StartChild(S) == child' = [w \in Ids |-> IF w \in S THEN kind = "process" ELSE child[w]]

Started(S) ==
    /\ StartLoop(S)
    /\ StartChild(S)
    /\ UNCHANGED <<config, hand, cancel, crashes, lost>>

StopThread(w) ==
    /\ state' = [state EXCEPT ![w] = "STOPPING"]
    /\ told' = [told EXCEPT ![w] = Threaded(w)]
    /\ UNCHANGED <<child, cancel>>

(* A ProcessWorker that is waited for terminates its child in the end.     *)
StopProcess(w, wait) ==
    /\ state' = [state EXCEPT ![w] = IF wait THEN "STOPPED" ELSE "STOPPING"]
    /\ child' = [child EXCEPT ![w] = @ /\ ~wait]
    /\ told' = [told EXCEPT ![w] = Threaded(w) \/ child'[w]]
    /\ UNCHANGED cancel

(* An AsyncWorker has its tasks cancelled, by its own thread. *)
StopAsync(w) ==
    /\ state' = [state EXCEPT ![w] = "STOPPING"]
    /\ told' = [told EXCEPT ![w] = Threaded(w)]
    /\ cancel' = [cancel EXCEPT ![w] = @ \/ Threaded(w)]
    /\ UNCHANGED child

(* stop(): nothing if the state is STOPPED. *)
Stopped(w, wait) ==
    /\ IF state[w] = "STOPPED" THEN UNCHANGED <<state, told, child, cancel>>
       ELSE \/ kind = "thread" /\ StopThread(w)
            \/ kind = "process" /\ StopProcess(w, wait)
            \/ kind = "async" /\ StopAsync(w)
    /\ UNCHANGED <<config, loop, hand, crashes, lost>>

-----------------------------------------------------------------------------
(* _run_loop, _coordinator_loop and _run_loop_async. *)

(* Mutant: the loop looks at the state instead of the stop event. *)
MustEndByState(w) == state[w] = "STOPPING"

MustEnd(w) == told[w]

(* A coordinator asks for a job when it has none. *)
Poll(w) ==
    /\ loop[w] = "top"
    /\ ~MustEnd(w)
    /\ kind = "process" => state[w] = "IDLE" /\ hand[w] = Nothing
    /\ loop' = [loop EXCEPT ![w] = "poll"]
    /\ UNCHANGED <<config, state, told, hand, child, cancel, crashes, lost>>

PollNothing(w) ==
    /\ loop[w] = "poll"
    /\ loop' = [loop EXCEPT ![w] = "top"]
    /\ UNCHANGED <<config, state, told, hand, child, cancel, crashes, lost>>

(* Mutant: a worker that was told to stop does not look at the job it got. *)
TakeJobUnlessTold(w) ==
    /\ loop[w] = "poll"
    /\ kind = "thread"
    /\ hand' = [hand EXCEPT ![w].running = 1]
    /\ state' = [state EXCEPT ![w] = IF told[w] THEN @ ELSE "BUSY"]
    /\ loop' = [loop EXCEPT ![w] = IF told[w] THEN "top" ELSE "run"]
    /\ UNCHANGED <<config, told, child, cancel, crashes, lost>>

(* get_next_job returns a job, maybe after stop() was called: then BUSY    *)
(* overwrites STOPPING.  An AsyncWorker asks for more while its tasks wait *)
(* for the semaphore.                                                      *)
TakeJob(w) ==
    /\ loop[w] = "poll"
    /\ hand[w].queued + hand[w].running < MaxTasks
    /\ CASE kind = "thread" ->
              /\ hand' = [hand EXCEPT ![w].running = 1]
              /\ state' = [state EXCEPT ![w] = "BUSY"]
              /\ loop' = [loop EXCEPT ![w] = "run"]
         [] kind = "process" ->
              /\ hand' = [hand EXCEPT ![w].queued = 1]
              /\ state' = [state EXCEPT ![w] = "BUSY"]
              /\ loop' = [loop EXCEPT ![w] = "top"]
         [] kind = "async" ->
              /\ hand' = [hand EXCEPT ![w].queued = @ + 1]
              /\ loop' = [loop EXCEPT ![w] = "top"]
              /\ UNCHANGED state
    /\ UNCHANGED <<config, told, child, cancel, crashes, lost>>

(* _execute_job of a ThreadWorker ends: IDLE, whatever stop() has written. *)
FinishThread(w) ==
    /\ loop[w] = "run"
    /\ state' = [state EXCEPT ![w] = "IDLE"]
    /\ hand' = [hand EXCEPT ![w] = Nothing]
    /\ loop' = [loop EXCEPT ![w] = "top"]
    /\ UNCHANGED <<config, told, child, cancel, crashes, lost>>

(* The child process takes a job and puts its result.  Told to stop, it    *)
(* ends between two jobs, and may leave a job that was sent to it.         *)
ChildBegin(w) ==
    /\ kind = "process" /\ child[w]
    /\ hand[w].queued = 1
    /\ hand' = [hand EXCEPT ![w].queued = 0, ![w].running = 1]
    /\ UNCHANGED <<config, state, loop, told, child, cancel, crashes, lost>>

ChildDone(w) ==
    /\ kind = "process" /\ child[w]
    /\ hand[w].running = 1
    /\ hand' = [hand EXCEPT ![w].running = 0, ![w].done = 1]
    /\ UNCHANGED <<config, state, loop, told, child, cancel, crashes, lost>>

ChildExit(w) ==
    /\ kind = "process" /\ child[w]
    /\ told[w]
    /\ hand[w].running = 0
    /\ child' = [child EXCEPT ![w] = FALSE]
    /\ told' = [told EXCEPT ![w] = Threaded(w)]
    /\ UNCHANGED <<config, state, loop, hand, cancel, crashes, lost>>

(* The coordinator reads the result and reports it.  If the scheduler      *)
(* refuses the report, the worker stays as it is and asks for no more jobs.*)
HandleResult(w) ==
    /\ kind = "process"
    /\ loop[w] = "top" /\ ~MustEnd(w)
    /\ hand[w].done = 1
    /\ hand' = [hand EXCEPT ![w].done = 0]
    /\ state' \in {state, [state EXCEPT ![w] = "IDLE"]}
    /\ UNCHANGED <<config, loop, told, child, cancel, crashes, lost>>

(* A task of an AsyncWorker gets the semaphore; it ends: IDLE, although    *)
(* other tasks run.                                                        *)
TaskBegin(w) ==
    /\ kind = "async" /\ Threaded(w)
    /\ hand[w].queued > 0 /\ hand[w].running < MaxConcurrent
    /\ hand' = [hand EXCEPT ![w].queued = @ - 1, ![w].running = @ + 1]
    /\ state' = [state EXCEPT ![w] = "BUSY"]
    /\ UNCHANGED <<config, loop, told, child, cancel, crashes, lost>>

TaskEnd(w) ==
    /\ kind = "async" /\ Threaded(w)
    /\ hand[w].running > 0
    /\ hand' = [hand EXCEPT ![w].running = @ - 1]
    /\ state' = [state EXCEPT ![w] = "IDLE"]
    /\ UNCHANGED <<config, loop, told, child, cancel, crashes, lost>>

(* Jobs in hand go nowhere any more. *)
Lose(w) ==
    /\ hand' = [hand EXCEPT ![w] = Nothing]
    /\ lost' = (lost \/ hand[w] # Nothing)

(* _cancel_all_tasks: the tasks end, the jobs are reported to nobody. *)
CancelTasks(w) ==
    /\ cancel[w]
    /\ cancel' = [cancel EXCEPT ![w] = FALSE]
    /\ state' = [state EXCEPT ![w] = IF hand[w].running > 0 THEN "IDLE" ELSE @]
    /\ Lose(w)
    /\ UNCHANGED <<config, loop, told, child, crashes>>

(* The loop ends.  A ThreadWorker is STOPPED then. *)
EndThread(w) ==
    /\ kind = "thread"
    /\ loop[w] = "top" /\ MustEnd(w)
    /\ loop' = [loop EXCEPT ![w] = "ended"]
    /\ state' = [state EXCEPT ![w] = "STOPPED"]
    /\ told' = [told EXCEPT ![w] = FALSE]
    /\ Lose(w)
    /\ UNCHANGED <<config, child, cancel, crashes>>

(* A coordinator leaves the state, and a job that is not reported yet. *)
EndCoordinator(w) ==
    /\ kind = "process"
    /\ loop[w] = "top" /\ MustEnd(w)
    /\ loop' = [loop EXCEPT ![w] = "ended"]
    /\ told' = [told EXCEPT ![w] = child[w]]
    /\ Lose(w)
    /\ UNCHANGED <<config, state, child, cancel, crashes>>

(* An event loop waits for its tasks, those begun after the cancellation   *)
(* included, and is STOPPED then.                                          *)
Drain(w) ==
    /\ kind = "async"
    /\ loop[w] = "top" /\ MustEnd(w)
    /\ loop' = [loop EXCEPT ![w] = "drain"]
    /\ UNCHANGED <<config, state, told, hand, child, cancel, crashes, lost>>

EndDrain(w) ==
    /\ loop[w] = "drain"
    /\ hand[w] = Nothing
    /\ loop' = [loop EXCEPT ![w] = "ended"]
    /\ state' = [state EXCEPT ![w] = "STOPPED"]
    /\ told' = [told EXCEPT ![w] = FALSE]
    /\ cancel' = [cancel EXCEPT ![w] = FALSE]
    /\ UNCHANGED <<config, hand, child, crashes, lost>>

(* A job's function raises what is no Exception (SystemExit), or kills its *)
(* process.  A thread dies IDLE; an event loop ends STOPPED; a child dies  *)
(* and its coordinator does not notice.                                    *)
Crash(w) ==
    /\ crashes < MaxCrashes
    /\ hand[w].running > 0
    /\ crashes' = crashes + 1
    /\ hand' = [hand EXCEPT ![w] = Nothing]
    /\ IF kind = "process"
       THEN /\ child' = [child EXCEPT ![w] = FALSE]
            /\ UNCHANGED <<state, loop, told, cancel>>
       ELSE /\ state' = [state EXCEPT ![w] = IF kind = "thread" THEN "IDLE" ELSE "STOPPED"]
            /\ loop' = [loop EXCEPT ![w] = "ended"]
            /\ told' = [told EXCEPT ![w] = FALSE]
            /\ cancel' = [cancel EXCEPT ![w] = FALSE]
            /\ UNCHANGED child
    /\ UNCHANGED <<config, lost>>

(* What a worker does unless it crashes and as long as its jobs return. *)
Work(w) ==
    \/ Poll(w) \/ PollNothing(w) \/ TakeJob(w) \/ FinishThread(w)
    \/ ChildBegin(w) \/ ChildDone(w) \/ ChildExit(w) \/ HandleResult(w)
    \/ TaskBegin(w) \/ TaskEnd(w) \/ CancelTasks(w)
    \/ EndThread(w) \/ EndCoordinator(w) \/ Drain(w) \/ EndDrain(w)
=============================================================================
