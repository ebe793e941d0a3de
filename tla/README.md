# Job orchestrator: verification project

TLA+ models of `job_orchestrator` (the package under
`src/job_orchestrator/` of the repository), TLC configurations that check them
on small instances, and TLAPS proofs about the priority queue, the scheduler, the
graph algorithms, the DAG executor, the dead letter queue, the worker pool and two
of the locks. Paths below are relative to the package unless they
name a document.

Contents: [1 The system](#1-the-system) · [2 The modules](#2-the-modules) ·
[3 The runs](#3-the-runs) · [4 The proofs](#4-the-proofs) ·
[5 Where code and documents differ](#5-where-code-and-documents-differ) ·
[6 What is not modelled](#6-what-is-not-modelled) · [7 Plan](#7-plan)

## 1 The system

A client submits jobs and DAGs of jobs to a `Scheduler`; a pool of workers pops
jobs from a priority queue and runs them; a job that fails is retried, or given
up and kept as a dead letter; a DAG executor submits a job when its dependencies
have completed. All that lives in one Python process (plus the child processes of
`ProcessWorker`s) and in memory: nothing of it survives a crash. Concurrency is
threads with locks. Beside it, and used by neither, the package offers locks
between processes and machines: in memory, on files, and on Redis servers.

| Component | State it keeps | Operations | Correct when |
|---|---|---|---|
| `ThreadSafePriorityQueue` (`queue/priority_queue.py`) | heap of entries, dictionary id -> newest entry, tombstones of lazily removed ids, counter, shutdown flag; one `RLock` with a `Condition` | `push`, `pop` (blocks), `remove`, `update_priority`, `reschedule`, `clear`, `peek`, `peek_ready`, `get_next_scheduled_time`, `shutdown` | the three structures agree; the best due job is served; no job is lost or served twice; capacity holds; consumers wake up |
| `Scheduler` (`scheduler/scheduler.py`) | `_running`, statistics, the parts below; one `RLock` | `submit`, `submit_dag`, `get_next_job`, `complete_job`, `fail_job`, `cancel_job`, `cancel_dag`, `run_job`, `start`, `stop` | a job has one custodian, runs once per attempt, is not lost, finishes; cancellation is honoured; a refused submission leaves no trace |
| `StateMachine` (`core/state.py`) | transition table, own lock | `transition`, `can_transition` | terminal states are final |
| `JobRunner` (`scheduler/runner.py`) | none | `run` | the function runs only for a job that is RUNNING |
| `RetryHandler` (`scheduler/retry.py`) | policies | `should_retry`, `prepare_for_retry` | at most `max_retries` retries |
| `JobStore` (`scheduler/job_store.py`) | jobs by id and by state, own lock | `add`, `update`, `delete`, queries | holds the jobs that were accepted |
| `DAG` (`core/dag.py`) | nodes with two mirrored adjacency sets, `depends_on` of each job; no lock | `add_node`, `add_edge`, `add_job`, `remove_edge`, `topological_sort`, `get_execution_plan`, `has_cycle`, `find_cycle`, `validate` | the sides agree; answers are right in every iteration order |
| `DAGExecutor` (`scheduler/dag_executor.py`) | one `DAGExecution` per DAG (status; running, completed, failed, cancelled jobs); own `RLock` | `start_dag`, `on_job_complete`, `on_job_failed`, `cancel_dag` | dependencies first; a job is queued once; the outcome is true and is reached |
| `DeadLetterQueue` (`scheduler/dlq.py`) | entries in order of arrival, index job -> entry; cleanup thread; own `RLock` | `add` (expires and evicts), `requeue`, `discard`, `resolve`, `cleanup_expired` | the two dictionaries agree; a job is dead or with a scheduler, never both; every letter ends once; the bound holds |
| `WorkerPool` (`workers/pool.py`) | worker table, `_running`, stop events; auto-scaler and health-check threads; one `RLock` | `start`, `stop`, `scale_up`, `scale_down`, scaling decisions, health check and replacement | the size keeps to its limits; no worker is forgotten; `stop()` reaches all |
| `ThreadWorker`, `ProcessWorker`, `AsyncWorker` (`workers/`) | state, stop event, the jobs in hand; a thread each, and a child process or an event loop | `start`, `stop`, their loops | a worker that is told to stop ends; stopping loses no job |
| `InMemoryLockManager` (`locking/memory.py`) | table resource -> `LockInfo`, shared with the callers; one `Condition`; cleanup thread | `acquire` (waits), `extend`, `release`, `force_release`, `clear`, `cleanup_expired` | mutual exclusion while leases last; an expired lease stays so; waiters return |
| `FileLockManager` (`locking/file_lock.py`) | a lock file per resource, `flock` on it, open handles | `acquire`, `extend`, `release`, `force_release`, `clear`, `cleanup_expired` | mutual exclusion between processes, also after a crash |
| `RedisLockManager` (`locking/redis_lock.py`) | a key per resource on each server | `acquire`, `extend`, `release`, `force_release` | a lease is backed by a majority; majorities exclude each other |
| `storage/`, `core/config.py`, `cli/` | data | reading, parsing, printing | not behaviour over time |

**How they interact.** `submit` checks the store and the queue's length, stores
the job, moves it to SCHEDULED and pushes it, all under `Scheduler._lock`. A
`ThreadWorker` calls `get_next_job` and then `run_job`, *neither of which takes
that lock*: `run_job` calls `JobRunner.run` (transitions to RUNNING, the
function), then moves the job to COMPLETED, or to RETRYING, SCHEDULED and back
into the queue, or to FAILED, and tells the DAG executor. A `ProcessWorker` or
`AsyncWorker` runs the job in a child process or as a task and reports through
`complete_job` or `fail_job`, which do take the lock; `fail_job` adds the job it
gives up to the dead letter queue, and a dead letter that is requeued goes
through `submit` again. The DAG executor calls `Scheduler.submit` and
`cancel_job` while it holds its own lock, and is called by scheduler methods that
hold theirs. The pool calls `start` and `stop` of its workers and reads their
state without their taking part.

**What is hard.** Lazy deletion (a tombstone is per job, not per entry); a
condition variable with due times and deadlines; `cancel_job` and `submit`
racing with workers that do not take the lock; a retry that meets a full queue;
jobs in flight that report to a DAG that has ended; two locks taken in both
orders; a requeue that gives the lock up in the middle; callers, auto-scaler and
health checker that act on the worker table on what they saw a moment ago; a
worker state that two threads write; leases that end while their holder works,
are extended late and released late; servers that do not answer, keys that expire
early; files that another process unlinks. `PROJECT.json` lists each hazard at
its line with the properties that watch it.

## 2 The modules

| Module | Models | Extends / uses |
|---|---|---|
| `PriorityQueue` | the queue as it is: heap, dictionary, tombstones, `pop()` split at its waits | |
| `JobQueue` | what the queue promises: the abstract specification | |
| `SchedulerQueue` | the queue under the scheduler's calls, mapped to `JobQueue` | `PriorityQueue`, instance of `JobQueue` |
| `Scheduler` | the life of a job: scheduler, state machine, runner, retry handler, store, worker loops | uses the queue as `JobQueue` specifies it |
| `DAGExecutor` | the executor, one DAG | job states of `Scheduler` |
| `DAG` | building a graph; sorting, planning, cycle search | provides the acyclic graphs `DAGExecutor` starts from |
| `LockOrder` | the two locks of scheduler and executor, by call stacks | |
| `DeadLetterQueue` | the dead letter queue and the schedulers it returns jobs to | |
| `Workers` | the life of a thread, process or async worker | |
| `WorkerPool` | the pool: callers, auto-scaler, health checker | `Workers` |
| `Lease` | what a lock promises: the abstract specification | |
| `MemoryLock` | the lock in memory | instance of `Lease` |
| `Redlock` | the lock on one or several Redis servers | instance of `Lease` |
| `FileLock` | the lock on files, by system calls | |
| `PriorityQueueProofs`, `SchedulerProofs`, `DAGProofs`, `DAGExecutorProofs`, `DeadLetterQueueProofs`, `WorkerPoolProofs`, `MemoryLockProofs`, `RedlockProofs` | theorems about the module of that name (`PriorityQueueProofs` also about `SchedulerQueue`) | that module |
| `MC...` | symmetry sets and definitions for TLC | |

Operators under a comment "Mutant" are faulty variants of the definition that
follows them. Nothing refers to them. Putting one in the place of its definition
must break the property that `PROJECT.json` pairs it with: it shows that the
property can fail.

### PriorityQueue

One action per public method, because each holds `_lock` throughout. `pop()`
alone gives the lock up, in `Condition.wait()`: `Pop` is the call up to its
first wait, `PopWake` each awakening, `PopSpin` each round in which the loop
`continue`s without waiting, which keeps the lock (`LockFree` is false and every
other operation is blocked). A consumer's local variables are `pops[c]`.

| Variable | Code |
|---|---|
| `heap` | `_heap`, as a set: `insertion_order` makes entries distinct, so `heap[0]` is the least element by `Before` (`QueueEntry`, `order=True`) |
| `entry_map`, `removed`, `counter`, `shutdown` | `_entry_map`, `_removed`, `_counter`, `_shutdown` |
| `now` | `time.time()`, ticks `0 .. Horizon`; the last tick stands for every later instant |
| `pops` | `deadline` and the wait of each call of `pop()` |
| `ret` | the operation that ran last and the job it was about |

The walks over the heap are translated once each: `Discard` drops the entries
with a tombstone among those that were visited (and the dictionary key and the
tombstone with them); `CleanupRemoved` does so at the top of the heap, `Ready`
and `TakeReady` on the way to the first due entry, putting back the others.

### Scheduler

A *transition* (own lock), a queue operation (own lock) and a store operation
are what is atomic, so `run_job` and its `JobRunner.run` are one action per such
operation, and so are `submit`, `cancel_job` and `fail_job`. These three hold
`Scheduler._lock` across several actions; `op` is the call that holds it, so
calls under the lock exclude each other and do not exclude `run_job`. `pc[a]` and
`held[a]` say where a worker is and which job it has. Who runs jobs is of four
kinds: `Workers` (thread workers: pop, then `run_job`), `Callers` (client
threads that call `run_job` on a job of theirs), `Coordinators` (process
workers: pop, run in the child, then `complete_job` or `fail_job`) and `Tasks` (of
async workers: the same, but a `complete_job` that raises is followed by
`fail_job`, and the task ends). When the state machine refuses such a report, a
coordinator is "stuck" with the job and a task leaves it; either way nobody comes back
to it, and `stranded` records it. The queue
is the set of its jobs; which is next is left open, which covers every priority
and due time. A function returns or raises, and what it raises may or may not be
among the policy's `retry_on`. Jobs of `Foreign` come in a state from which `submit`
cannot schedule them; the transition raises after the job was stored. The other
history variables record the jobs that a full queue has dropped (`dropped`) and those
taken from the queue by a cancellation (`acked`).

### DAG and DAGExecutor

`DAG` has the graph (`nodes`, `dependencies`, `dependents`, `depends_on`) and the
local variables of the algorithms, one action per round of a loop: `SortRound`
takes *any* job of the deque, `SearchNext` visits *any* unseen dependent, since
Python iterates over sets and dictionaries. `has_cycle` and `find_cycle` make the
same search; `find_cycle` goes on from its answer with `ListCycle`.

`DAGExecutor` has one action per method (each holds the executor's lock). A
worker's end of a job is two actions, since `run_job` first changes the job's
state (`EndJob`) and later, with no lock held in between, tells the executor
(`OnJobComplete`, `OnJobFailed`): completions arrive late and in any order. The
queue is shared with other jobs, so any subset of the submissions in a call may be
refused, and a retry may find it full: then the job is `lost`, SCHEDULED and in no queue
(`RetryJob`). A process or async worker loses it too (`StrandJob`); what it runs is not
reported to the executor. History variables: `submits`, `stopped`, `lost`, and `told` of
the execution.

### LockOrder

A thread is its stack of method calls; a method under `with self._lock` waits in
`want` until the lock is free or already its own. `Calls(m)` is which methods of
the two objects `m` calls.

### DeadLetterQueue

Every operation holds the lock and is one action, except `requeue` with a
scheduler, which marks and removes the entry under the lock (`RequeueTake`),
calls `submit` without it, and returns (`RequeueAccepted`) or puts the entry
back (`RequeueRefused`); any number of clients requeue at once. `Add` evicts the
oldest entry of a full queue, stores the new one and drops what has expired, in
the code's order. Entries are numbered by `nextId`, which is also their age; which
are too old is any prefix of them. `state[j]` is the job's state as far as the
queue depends on it: SCHEDULED stands for every state a job has while a scheduler
has it. `taken[c]` is the entry a requeue has in hand; `ended`, a history variable,
has the ids of the letters that were dealt with or dropped.

### Workers and WorkerPool

`Workers` is the life of one worker. `loop` is where its own thread is, `told`
whether its stop event is set and it has not ended, `state` what the pool reads
and both sides write, each with no lock: the end of a job may overwrite STOPPING
with IDLE. `hand` counts its jobs (sent to the child or waiting for the
semaphore; running; done and not read). A job function may crash: it ends the
thread, or the child process. `Started(S)` and `Stopped(w, wait)` are `start()`
and `stop(wait)` as the pool calls them.

`WorkerPool` is the table and who acts on it. `stop()` goes through `stopping`:
`_running` is cleared; then, without the lock, the stop event of the auto-scaler
("scaler") and that of the health checker ("health") are set and the threads waited for,
not for ever ("join"); then the workers of the table are listed and stopped one by one
under the lock ("stop"). `start()` may come in between: it looks at `_running` only,
and clears the two events (`quit`), which all starts share. So everything that a
`start()` brings to life, and the `stop()` that ends it, is numbered by the start (`Gens`),
and there may be two auto-scalers, two health checkers and two `stop()` calls at a time.
`scale_up()` and `scale_down()` take the lock and look at nothing but the table, so they come
before `start()`, during `stop()` and after it as well. The auto-scaler
decides under the lock and acts on the decision later (`wanted`). The health
check collects the workers to restart and to remove under the lock, and goes
through the two lists afterwards; `_restart_worker` removes the old worker
(`RestartRemove`), puts a new one into the table (`RestartCreate`) and starts it
(`RestartStart`), the last two *without* the lock. How long the job queue is, how
old a heartbeat is and how long a worker has been idle are left open. An id is used
for a new worker when nothing is left of the last one that had it. History:
`unchecked` says that a worker was spawned with no look at the maximum (a replacement,
or a `start()` on a table that had workers), and `late` has the workers that
were started in a pool that is not running, since a `stop()` last listed the workers.

### Lease, MemoryLock, Redlock

`Lease` has one variable, `holder`: an owner or nobody. It is taken only when
nobody holds it, and ends. That is the whole promise of a lock; that leases run
out is one way to end.

`MemoryLock`: a client is one use of `with manager.lock(...)` with an owner;
nested uses, and threads that share an owner, are clients with the same owner.
`table` is the entry of the resource. Time is what is *left* until an instant,
in ticks: -1 when it has passed. A `LockInfo` is shared by the table and by the
clients it was returned to, so `lease[c].left` changes with the table while
`ended` is "no"; afterwards `ended` says how the entry left the table: expired
("late"), by its owner ("released") or by force. `acquire` gives the lock up while
it waits (`Call`, then `Take`, `Reenter`, `Refuse`, `WaitEnd`).

`Redlock`: each call to a server is an action, in the order of the servers, and
each may raise with or without having taken effect. `SetKey` is `SET NX PX`,
`ExtendKey` and `DeleteKey` the two Lua scripts. `got[c]` are the servers that
have answered the loop with success and `age[c]` the time since it began, from
which `Acquired` computes what is left, with `Drift` taken off. The code then reads the
clock again for `expires_at`: the client is at "grant" until `Granted`, and `pause[c]` counts
the ticks between the two readings. Each `acquire` and `extend` has a ttl of its own
(`ttl[c]`, any of `Calls`); an `extend` whose ttl is less than what is left shortens
the keys, and one below a millisecond, which is 0, deletes them. `setup` says which
servers each manager knows: those that answered when it was created. A server may
drop a key up to `Early` ticks too early. A client may die anywhere. `weakened`
records that a key under the owner's name was deleted by somebody else or shortened
by an extension. Where the server has the scripts registered, as it has when the manager
could create them, checking the owner and deleting or extending the key is one step; the fallback
of two commands without scripts is not modelled.

### FileLock

Each system call is an action: the stale check and its `unlink`, `open` with "x"
or "r+", `flock`, `open` with "w" (by path, which empties the file or creates one),
the write, the `unlink` of a release. `path` is the file the name leads to, `handle` the file a process has
open, `locked` whether it has the `flock` of that file: a file that is unlinked
stays open and locked, and the next one to be created is another file. `data` says
which process wrote a file, which stands for owner, pid and expiry. A process may
crash between any two calls: the kernel drops its `flock`s, and the file stays.
`ForceRelease` is `force_release()` and `clear()`, which unlink anybody's file;
`forced` records that it happened, and nothing is asked of the lock after it.

## 3 The runs

| Run | Module, specification | Instance | Result |
|---|---|---|---|
| `queue_index` | `MCPriorityQueue`, `Spec` | 3 jobs, 2 priorities, 2 consumers, capacity 2 | passes, 121,794 states |
| `queue_use` | `MCSchedulerQueue`, `UseSpec` | 2 jobs, 2 priorities, 2 consumers, capacity 2 | passes, 26,713 states |
| `sched_custody` | `MCScheduler`, `Safety` | 3 new jobs and a foreign one, a thread worker, a process worker, a task of an async worker, capacity 1, 1 retry | passes, 3,211,728 states |
| `sched_finishes` | `MCScheduler`, `Spec` | 1 job, 2 thread workers, a client in `run_job`, unbounded queue, 2 retries | passes, 201,983 states |
| `dag_run` | `MCDAGExecutor`, `Spec` | every DAG of 4 jobs, fail-fast or not | passes, 228,648 states |
| `dag_graph` | `MCDAG`, `Spec` | every graph of 3 jobs, loops included | passes, 22,443 states |
| `dlq` | `MCDeadLetterQueue`, `Spec` | 5 jobs, 2 clients, room for 2 letters, 6 letters | passes, 45,967 states |
| `pool` | `MCWorkerPool`, `Spec` | 1 to 2 threads, 0 to 1 threads, 1 process, 1 event loop; two starts; a crash | passes, 763,895 states |
| `memory_lock` | `MCMemoryLock`, `Spec` | 2 owners with two uses each | passes, 103,039 states |
| `redlock` | `MCRedlock`, `Spec` | 2 clients, up to 3 servers, five set-ups | passes, 1,336,923 states |
| `file_lock` | `MCFileLock`, `Spec` | 2 processes, 5 files | `Exclusive` fails |
| `lock_order` | `MCLockOrder`, `Spec` | 2 threads | `NoDeadlock` fails |

**What the passing runs show.**

* `queue_index`: after any sequence of operations, interleaved with two calls of
  `pop()`, a dictionary key has its entry in the heap and a tombstone has a key
  (`IndexSound`); a job the queue reports leaves only through `pop`, `remove` or
  `clear` (`NoSilentLoss`); and what `pop()` returns is due and no other reported
  due job comes before it (`ServesBestReady`).
* `queue_use`: the scheduler calls only `push`, `pop`, `remove` and `shutdown`,
  and pushes no job that is in the heap. Under this discipline the heap holds
  nothing but live and tombstoned newest entries (`HeapExact`), the queue
  implements `JobQueue` (`ImplementsJobQueue`), every queued job is handed out in
  the end (`EveryJobServed`), a pop with a deadline returns (`TimedPopReturns`),
  and `shutdown()` releases every consumer (`ShutdownReleases`).
* `sched_custody`: with retries, cancellations and a full queue, no job is in two
  hands or in a queue and a hand, and one that a cancellation took from the queue is in
  neither (`Custody`); no job runs more often than its attempts
  (`RunsBounded`) or leaves a terminal state (`TerminalIsFinal`); a refused
  submission leaves no trace (`RejectedLeavesNoTrace`); no unfinished job is lost
  but by a retry that finds the queue full or by a process or async worker whose report is
  refused (`NoJobLost`: whoever else has the job goes on with it); and the function of a job
  that a cancellation took out of the queue is not called (`CancelHonoured`).
* `sched_finishes`: with an unbounded queue every submitted job finishes unless the
  scheduler is stopped (`EveryJobFinishes`), even when a client runs the job that
  workers also run.
* `dag_run`: `DependenciesFirst`, `QueuedOnce`, `BooksAgree`,
  `NothingQueuedAfterEnd`, `OutcomeTrue` and `DagEnds`, with jobs that fail, are
  retried, refused, cancelled, lost, and report late. `OutcomeTrue` is about DAGs
  nobody cancels, and `DagEnds` excepts the three ways a DAG can be left RUNNING
  (section 5): a job of it is cancelled on its own or lost, or refused submissions leave
  nothing in flight.
* `dag_graph`: three records of each edge agree (`Mirrored`); sorting, level
  planning and cycle search are right, for every graph and every iteration order
  (`AlgorithmsRight`), and return, the listing of `find_cycle` included
  (`AlgorithmsReturn`).
* `dlq`: entries and index agree (`IndexAgrees`); a job with a letter, in the queue
  or in the hands of a requeue, is with no scheduler, and two requeues never submit
  one job (`DeadOrAlive`); the queue exceeds its bound only by what refused requeues
  put back (`SizeBounded`); and no letter is lost (`LettersAccounted`).
* `pool`: whatever callers, auto-scaler and health check have decided on before the
  others act, the size keeps to its limits (`SizeWithinLimits`, which excepts what
  section 5 lists); a thread or child that runs is in the table or has been told to
  stop (`NoneForgotten`); when every `stop()` has returned, all have been told but for what
  `scale_up()` or a background thread that outlasts the wait has started since the workers were
  listed (`StopReachesAll`), however starts and stops overlap;
  threads finish the jobs they have, even one they were handed after `stop()`
  (`ThreadsFinishJobs`); and who is told to stop ends, although the end of its job
  overwrites STOPPING (`ToldWorkersEnd`).
* `memory_lock`: clients of different owners never both have an unexpired lease,
  unless one was taken away (`Exclusive`); the lock implements `Lease`
  (`ImplementsLease`); an expired lease stays expired, whoever extends or re-enters
  (`NoRevival`); `acquire()` returns (`AcquireReturns`).
* `redlock`: while a lease has time left, a majority of its servers have its key, and
  for longer than that (`Backed`); clients whose majorities must meet exclude each
  other (`Exclusive`); where all majorities meet the lock implements `Lease`. All three are
  about leases that are `Usable`: the pause of `acquire()` between its two readings of the
  clock left some of the drift (`Punctual`), and nobody deleted or shortened the keys
  (`weakened`). Without either, the lease may outlive its keys (section 5).

**Bounds.** *Queue*: `Horizon` = 1 gives a job that is due and one that is not, and
a deadline that has passed and one that has not. `MaxInsert` = 3 insertions between
two `clear()`s let a job have an old and a new entry beside another job's;
without the bound the counter grows for ever. Three jobs and capacity 2 make
`push` meet a full queue with a tombstone in it. *Scheduler*: `MaxRetries` = 1
makes a job take both ways, retry and giving up; three new jobs and capacity 1 make the
one's retry meet the other's submission while the third is running, and one worker of
each type makes their reports and retries meet. A fourth job is one that `submit` stores and
cannot schedule. In `sched_finishes` two thread workers and a client compete for one job,
which cancellations and retries send round. `MaxCalls`
bounds how often clients run a job. *DAGs*: four jobs are the fewest with a diamond
and a job beside it. Three jobs have every kind of cycle: a loop, a pair, a
triangle, and a cycle with a tail. *Dead letters*: room for two lets eviction,
expiry of some and a return to a full queue happen; with two clients and two
letters that come back late the queue reaches 4, its bound; five jobs and six letters let a
job that was requeued die again. *Pool*: two ids are what a scale-up, a
replacement and a shrinking need to meet. Pools are started once with the background threads
at work (`acting`), or twice (`MaxStarts`) with threads that only end, so that what is
left of the first start, its `stop()` included, meets the second; with both at once the states are too many for
a run, and only the proofs cover the background threads of two starts. The pools of a
process and of an event loop have one worker. `MaxTasks` and `MaxCrashes` = 1 let a worker die with a job in
hand. *Locks*: a ttl of 0, 1 and 2 ticks gives leases that never expire, that are
extended, and that are overtaken; a timeout of 0 and 1 a call that waits and one
that does not. Two uses per owner are what it takes for the release of one to free
the other's. In Redlock two clients suffice, as exclusion is between two; three
servers are the fewest on which a majority is not all, and the five set-ups are
what two managers can have in common: all servers, one, none, a single server
(with `force_release`), and the owner. In `Long` the drift of 2 ticks is used by a server
that drops keys a tick early, or by a pause of a tick; in `Short` the loop over the servers
can outlast the ttl, and any pause of a tick is too long. `Calls` are the ttls that calls have: on the single
server 0, 1 and 2 ticks, with two clients of one owner 0 and 2, so that extensions are
longer and shorter than what is left, and none.

Jobs, threads and clients are interchangeable in the runs that declare it; runs with
liveness do without symmetry.

`CHECK_DEADLOCK FALSE` stands where the system may really stop: a queue that is
shut down or full with no consumer, a scheduler or a DAG whose jobs have all ended,
a dead letter queue after its last letter, a pool that is stopped, processes that
have all died. `DAG`, `MemoryLock`, `Redlock` and `LockOrder` are checked for
deadlock.

**Fairness and why the code justifies it.**

* `SchedulerQueue`: weak fairness of time (`Tick`) and of each consumer's step.
  Workers call `pop()` in a loop, and `Condition.wait(timeout)` returns when it
  is notified or its time has come.
* `Scheduler`: weak fairness of the calls that hold the lock (they do not block)
  and of each `run_job`, a worker's or a client's, and of each worker's polling;
  strong fairness of `PopJob`, which is what `EveryJobServed` gives: a worker that
  keeps polling gets the jobs that are due. Whether clients submit, cancel, start or
  stop is up to them.
* `DAGExecutor`: workers take queued jobs and report (weak); a job that keeps
  being started ends (strong, since attempts are bounded).
* `DAG`: a called function runs on.
* `WorkerPool`: each worker's own loop and child go on, and job functions return.
  Callers, auto-scaler and health checker have none: who is told to stop ends without
  them.
* `MemoryLock`: time passes, and a thread inside `acquire()` goes on; its wait has a
  timeout. Whether anybody releases is up to the clients.

`DeadLetterQueue`, `Redlock`, `FileLock` and `LockOrder` state safety only.

## 4 The proofs

Each holds for every value of the constants that satisfies the assumptions its module
states about them (`QueueAssumption` and `NoneIsNoEntry`, `SchedulerAssumption`, `DAGAssumption`
of the graph and that of the executor, `DeadLetterAssumption`, `WorkersAssumption` and
`PoolAssumption`, `MemoryLockAssumption`, `RedlockAssumption`): any number of jobs,
clients, consumers, workers, owners and servers, any capacity, any times. Jobs and
worker ids are finitely many. That the graphs the executor is started with are acyclic
is part of its assumption: `submit_dag` validates a DAG, and `AlgorithmsRight` is about
what that validation answers. A hypothesis beyond the assumptions is in the table.

| Module | Theorem | Statement |
|---|---|---|
| `PriorityQueueProofs` | `TypeCorrect` | `Spec => []TypeOK` |
| | `IndexIsSound` | `Spec => []IndexSound` |
| | `OrderIsTotal` | `Spec => []OrderTotal` |
| | `NothingLost` | `Spec => NoSilentLoss` |
| | `SizeIsBounded` | `Spec => []SizeBounded` |
| | `TheBestIsServed` | `Spec => ServesBestReady` |
| | `NobodyOversleeps` | `Spec => []SleepSound` |
| | `HeapIsExact` | `UseSafety => []HeapExact` |
| | `QueueImplementsJobQueue` | `UseSafety => ImplementsJobQueue` |
| `SchedulerProofs` | `TypeCorrect` | `Safety => []TypeOK` |
| | `RejectionIsClean` | `Safety => []RejectedLeavesNoTrace` |
| | `TerminalStatesAreFinal` | `Safety => TerminalIsFinal` |
| | `NothingElseIsLost` | `Safety => []NoJobLost` |
| | `OneCustodian` | if `Callers = {}`: `Safety => []Custody` |
| | `RunsAreBounded` | if `Callers = {}`: `Safety => []RunsBounded` |
| | `SchedulerKeepsTheDiscipline` | if `Callers = {}`: `Safety => PushesAreFresh` |
| | `CancellationHolds` | if `Callers = {}`: `Safety => CancelHonoured` |
| `DAGProofs` | `EdgesMirrored` | `Spec => []Mirrored` |
| | `EveryAnswerIsRight` | `Spec => []AlgorithmsRight` |
| | `FindCycleListsAPath` | `Spec => []ListIsPath` |
| | `NoEndlessLoop` | `Spec => RoundsRunOut` |
| `DAGExecutorProofs` | `TypeCorrect` | `Spec => []TypeOK` |
| | `DependenciesComeFirst` | `Spec => []DependenciesFirst` |
| | `NobodyQueuedTwice` | `Spec => []QueuedOnce` |
| | `BooksAlwaysAgree` | `Spec => []BooksAgree` |
| | `OutcomeIsTrue` | `Spec => []OutcomeTrue` |
| | `EndIsEnd` | `Spec => NothingQueuedAfterEnd` |
| | `NoDagStalls` | `Spec => []NeverStalls` |
| | `EachReportCounts` | `Spec => ReportsRunOut` |
| `DeadLetterQueueProofs` | `TypeCorrect` | `Spec => []TypeOK` |
| | `TheIndexAgrees` | `Spec => []IndexAgrees` |
| | `NoJobIsDeadAndAlive` | `Spec => []DeadOrAlive` |
| | `AllLettersAccounted` | `Spec => []LettersAccounted` |
| | `SizeIsBounded` | `Spec => []SizeBounded` |
| `WorkerPoolProofs` | `TypeCorrect` | `Spec => []TypeOK` |
| | `NobodyIsForgotten` | `Spec => []NoneForgotten` |
| | `StopIsComplete` | `Spec => []StopReachesAll` |
| | `ThreadsLoseNothing` | `Spec => []ThreadsFinishJobs` |
| | `SizeKeepsToLimits` | `Spec => []SizeWithinLimits` |
| `MemoryLockProofs` | `TypeCorrect` | `Spec => []TypeOK` |
| | `LeasesExclude` | `Spec => []Exclusive` |
| | `NoLeaseRevives` | `Spec => NoRevival` |
| | `ImplementsTheLease` | `Safety => ImplementsLease` |
| `RedlockProofs` | `TypeCorrect` | `Spec => []TypeOK` |
| | `LeasesAreBacked` | `Spec => []Backed` |
| | `MajoritiesExclude` | `Spec => []Exclusive` |
| | `ImplementsTheLease` | `Spec => ImplementsLease` |

**Priority queue.** The inductive invariant is `Inv == TypeOK /\ IndexSound /\
OrderTotal`. `IndexSound` is not inductive by itself: that `Discard` drops a
dictionary key only together with the newest entry of that job needs the tombstones
to be of jobs in the dictionary, which is its own second half, and that an insertion
does not overwrite the entry of another job needs the type of the entries. The proof
treats heap, dictionary and tombstones as one value: lemmas about the pure operators
(`DiscardSound`, `TakeReadySound`) say what a walk over the heap preserves, whatever
it visits; lemmas for one loop round of `pop()` (`RoundThreads`, `RoundKeepsInv`),
for insertions and for clean-ups carry this to the variables; `NextKeepsInv` has one
step per action. `NothingLost` follows from `Inv` and one lemma on which job each
step takes out (`NextExplains`); `SizeIsBounded` rests on `len()` being the number of
live jobs (`LenCountsLive`), which is `IndexSound` again: `len()` is computed as a
difference of two sizes. `TheBestIsServed` follows from `Inv` alone: the newest entry of
a job without a tombstone survives every clean-up (`EntrySurvives`), so the first ready
entry that a round meets has been compared with all of them (`FirstReadyIsBest`).

For the refinement, `UseNext` is `Next` with fewer calls, so `Inv` holds under it. The
discipline, that no job is pushed while the heap has an entry of it, adds `Single`: each
entry is the one the dictionary has for its job. The walks keep it, since they drop an entry and
its key together, and with `Inv` it is `HeapExact`. From then on a walk is invisible in
`JobQueue` (`WalkIsUnseen`), and each step is a step of it or a stutter: a push puts
(`PushPuts`), a removal drops (`RemoveDrops`), a round takes the most urgent due job or
nothing (`RoundTakes`). Without `Single` a job that is served may leave an old entry
behind, which is served again. That the scheduler keeps to the discipline is the theorem
`SchedulerKeepsTheDiscipline`: no job that `submit` or a retry pushes is in the queue, nor is
it one that a cancellation took from the queue, whose entry may still lie in the heap under its
tombstone. (A job that a worker has popped has no entry left, by `HeapExact`.)

`NobodyOversleeps` is about the consumers: `SleepSound` says that one that sleeps wakes
up by its deadline and is notified of a shutdown, and that one that goes round the loop with the
lock held, where it does not look at its deadline, does so only once that has passed, and
is the only one. It needs that whatever a vain walk leaves in the heap is not due, old
entries included (`NothingReadyEnds`).

**Scheduler.** Two invariants. `Accepted` holds whoever runs jobs: a job that is not in
the store is PENDING and nobody has it, and while `submit` is between storing and
pushing, its job is SCHEDULED, not queued and in nobody's hands. The rollback of
`submit` is the one step that changes a state without the transition table, and
`Accepted` is why it meets no terminal state and leaves nothing behind. `Kept`, too, holds
whoever runs jobs: every unfinished job that no full queue has dropped and no refused
report has stranded has somebody who goes on and answers for it. A SCHEDULED job is in the queue, in the call that holds the lock, or with an
actor about to start it or to push it back; a RUNNING one is with an actor at a point from
which it cannot leave the job behind; a RETRYING one with the actor that reschedules it.
Where several actors run one job, only one of their transitions succeeds, and the one that
makes it is the keeper. For the reports of process and async workers `Kept` needs that `fail_job` holds
the lock throughout (`FailLocked`). `NothingElseIsLost` follows: a coordinator that is stuck
answers for nothing, so its job must be in `stranded`.

The others suppose `Callers = {}`, as the run `sched_custody` does: a client that calls
`run_job` on a job that is queued runs it beside the worker that pops it, and `Custody`,
`RunsBounded` and `CancelHonoured` are false. Their invariant adds `OneHolder`; `Counted` (a job
that is queued, or on its way to its function, has not run in its present attempt); and
`Unreachable` (a job whose cancellation took it from the queue is in the store and
neither queued, held nor being submitted).

**Graph algorithms.** A *ring* is a set of jobs each of which has a dependency in the set,
and a graph is cyclic exactly if it has a nonempty one. Sorting keeps, besides
`Mirrored`, that `in_degree` counts the dependencies not yet sorted, which needs the sides
to agree, and that no sorted job is on a ring; so when the deque is empty, either all
are sorted or the rest is a ring. Planning is the same by levels. The search
keeps that the stack is a path of the gray jobs, that the dependents of a black job are black,
and that no ring is all black: an edge to a gray job closes a ring, and without one the
search ends with all jobs black.

`FindCycleListsAPath` says what is true of the list that `find_cycle` returns. While the
search runs, the parent links lead down the stack (`Parents`); the listing follows
them from the edge that was found back to the bottom of the stack, the search root, and not to
the other end of that edge (`Listing`). So each job of the list (before it is reversed) depends
on the next one up to the root, after which the first is repeated, whether or not the root depends on
it: the list need not be a cycle (section 5).
`NoEndlessLoop` is the measure behind `AlgorithmsReturn`: `Left` has what the algorithm
still has to do (jobs to sort, to put in a level, to enter, to leave; edges to look at), as
finite sets, of which each round but the last shrinks one and extends none.

**DAG executor.** `Phases` says of each job that it is new, queued, ended without the
executor knowing, or counted in the books, and ties for each case how often it was
submitted, its state, the books and the reports under way. It is the link between states, which
workers write, and books, which late reports write, and gives `QueuedOnce` and
`BooksAgree`. `Outcome` needs acyclicity: `_check_dag_completion` counts jobs, and if none
runs, none failed and none is ready, then a set of jobs not completed would have a job
with no dependency in it, which would be ready. The same argument gives `NoDagStalls`: a report
that leaves the DAG RUNNING leaves a job in flight (`InFlight`), by `Phases` queued,
running or about to be reported, or `lost`. `EachReportCounts` adds that each report counts one
more job for good. Together they are why a DAG ends, but for the three exceptions that
`NeverStalls` and `DagEnds` share.

**Dead letter queue.** `IndexAgrees` and `DeadOrAlive` need each other: that a letter
which comes back from a refused requeue overwrites no index entry needs the job to
have had no letter meanwhile, and that needs its state: `Add` writes a letter only for
a job that is with a scheduler. Their conjunction with `OneLetter` (a job has one
letter in the queue, and one in the hands of a requeue says REQUEUED) is `Placed`,
which is inductive with `TypeOK`. `LettersAccounted` is inductive with
`TypeOK` alone (`StepAccounted`). The size bound is inductive once the entries are
known to be finitely many (`Bounded`): eviction takes at least one of a full queue's,
since among finitely many ids there is a least, and each letter in excess of the bound
was in the hands of a client, which now has none.

**Worker pool.** `Bodies` is about one worker, whoever acts on it: who is STOPPED and goes
on has been told; only a child process or an event loop can have jobs that are not being
run; and a thread that has ended has none in hand. `Tended` is about the table: a replacement
in the making is in the table and does nothing yet, a worker is taken out only once it is told
or has ended, (`Replacing`); and once every `stop()` that was called has listed the
workers (`Settled`), whatever goes on is told, in the list one of them goes through, or
late (`Reaching`). That no `stop()` has still to list them is what makes the overlap of `start()` and `stop()` sound:
one that is overtaken by a `start()` lists what that has spawned. A worker on its own disturbs
only its own `Body` (`Alone`, `Others`), which keeps the proof at one lemma per step. The
limits follow from the sizes that the scaling decisions check again under the lock;
each health checker may be one worker short between a removal and its replacement
(`Creating`), so the lower limit counts these checkers, and a start to come has none (`Unstarted`).

**Lock in memory.** The invariant is `TypeOK /\ LateIsOver`. `TypeOK` has, as its last
conjunct, the sharing: a client whose lease has not ended reads what the table says.
`LateIsOver` says that a lease which left the table as expired has in fact run out;
with the sharing it gives `Exclusive`, since two live leases in the table have one
owner, and `NoRevival`, since an expired entry is never written to again. For the
refinement, the holder is the owner in the table as long as the entry has not run out;
an entry is replaced only once it has, so the holder changes from and to nobody only.

**Redlock.** The invariant says of each client (`Sound(c)`): the keys it has `got` in
the loop under way have at least its ttl minus `age` left (`Counts`), and a lease it may
rely on has its majority, with as much more time as the drift less the pause (`Relies`, `Backs`;
already between the two readings of the clock, when the lease does not run yet and the keys do). It
is kept because time takes as much from the keys as from the lease or the pause
(lemmas on `Tick`, with the early drop covered by what the pause leaves of the drift), because a
step of another client changes only keys of its own owner (`Undisturbed`), with `weakened` set
where that owner is the same and a key is deleted or shortened (`Forgets`, `Longer`), and because
`Acquired` and `Extended` count a majority (`NewlyBacked`). `Exclusive` follows: majorities that
meet have a server in common, and its key has one owner. The refinement follows from `Exclusive`
and from no step letting one client begin to rely on the lock while another ceases to (`OneBegins`).

Only model-checked: liveness (`EveryJobServed`, `TimedPopReturns`,
`ShutdownReleases`, `EveryJobFinishes`, `DagEnds`, `AlgorithmsReturn`,
`ToldWorkersEnd`, `AcquireReturns`), which is out of the prover's reach. For some of it
the safety part is proved: nobody oversleeps (`TimedPopReturns`, `ShutdownReleases`), every
unfinished job has a keeper (`Kept`, `EveryJobFinishes`), no DAG stalls and reports run out
(`DagEnds`), no algorithm has endless work (`AlgorithmsReturn`); what remains in each
case is that, under fairness, the next step is taken. `FileLock` and `LockOrder`
have counterexamples only.

## 5 Where code and documents differ

Shown by a run and quoted in `PROJECT.json`:

* the clean-up of one process unlinks the lock file that another has created and not
  yet written, and both hold the lock (`file_lock`);
* scheduler and executor take each other's locks in both orders (`lock_order`).

Met while modelling. The models include the behaviour, and the properties except
exactly this much of it; no run is spent on it.

*Queue*

* `push`, `update_priority` and `reschedule` of a queued job leave the old entry
  valid: they set the tombstone and lift it again (`queue/priority_queue.py:145`
  and 169), so after push, push, remove one entry can still be handed out. Only
  callers outside the scheduler's discipline see it (`SchedulerQueue`).
* `pop(timeout)` whose deadline has passed goes round its loop without looking at
  the deadline, and without giving the lock up, while the top entry is not due
  (`queue/priority_queue.py:222-226`). It returns once that entry is due, hence
  the form of `TimedPopReturns`.
* `peek_ready` looks at the top entry only, so a job that is not due hides ready
  ones.

*Scheduler*

* The jitter comes after the cap: a retry may be delayed by up to 1.5 times
  `max_delay` (`scheduler/retry.py:77-82`, against "Capped at max_delay" in line 58).
* A retry whose push meets a full queue is lost: `run_job` and `fail_job` ignore that
  `push` answered False (`scheduler/scheduler.py:528` and 316), and the job stays
  SCHEDULED, which `core/job.py:22` explains as being in the queue. `NoJobLost`
  excepts the jobs in `dropped`.
* `cancel_job` ignores what `remove` answered (`scheduler/scheduler.py:385`): for a
  job that a worker has popped it answers True, and the function runs. The same goes
  for a job that is pushed back between the removal and the transition.
* Nothing moves the job of a process or async worker to RUNNING, so its report raises
  `InvalidStateTransition`; `workers/process_worker.py:345` takes that for an empty
  result queue, and the coordinator stays BUSY. An async worker's task takes it for an
  error of the job and calls `fail_job` (`workers/async_worker.py:382-390`), which raises too, and
  ends. Either way the job stays SCHEDULED and nobody has it: `NoJobLost` excepts
  the jobs in `stranded`, and every job that only such a worker runs ends there.
* `submit` stores the job before it moves it to SCHEDULED: of a job that is not PENDING (read
  back from a dictionary, say) the transition raises, and the job stays in the store
  (`scheduler/scheduler.py:162-165`). `RejectedLeavesNoTrace` is about full queues.
* `start()` after `stop()` finds a queue that stays shut down.
* `run_job` never adds a job to the dead letter queue; only `fail_job` does,
  although `README.md:395` has FAILED jobs in it.
* `JobStore.cleanup_completed` drops COMPLETED jobs only, and its `mark_...` methods
  go round the state machine. Hooks run while `StateMachine._lock` is held.

*DAGs*

* `find_cycle` lists jobs that are no cycle, for every cycle of two or more jobs
  (`core/dag.py:382`, against its docstring at 355).
* `_check_dag_completion` overwrites CANCELLED with COMPLETED when the last job in
  flight completes.
* `_fail_dag` marks queued jobs as cancelled in its books and leaves them in the
  queue, where they are started.
* A DAG stays RUNNING when all its roots are refused by `submit`, when a queued
  job of it is cancelled with `cancel_job`, when the retry of a job finds the queue full
  (`scheduler/scheduler.py:528`), or when a process or async worker takes one: nobody
  calls the executor again.

*Dead letters*

* `Scheduler.requeue_dlq_entry`, `discard_dlq_entry` and `resolve_dlq_entry` pass a
  keyword `entry_id` that the methods of the queue do not have (`identifier`), and
  raise `TypeError`. `submit` of the scheduler whose store has the job would refuse
  it besides.
* A letter that is RESOLVED and kept in the history can be requeued.
* A refused requeue leaves the letter REQUEUED and its job PENDING.

*Pool and workers*

* A replacement, and a second `start()` while workers of the first still end, take no
  notice of `max_workers`, which `workers/pool.py:132` promises never to exceed. Nor does
  the first `start()`, of workers that `scale_up()` has put into the table before.
* A background thread that `stop()` no longer waits for can still spawn a worker,
  which nobody stops. So can `scale_up()`, which does not look whether the pool runs, while
  it waits for the lock of a `stop()` or after it.
* A `start()` while a `stop()` waits succeeds, and the `stop()` then goes on and stops the
  new workers, in a pool that is running. Whether the old background threads see the
  stop events before `start()` clears them, and whether the new ones see those that
  `stop()` sets later, is a matter of timing: there may be two auto-scalers, or none.
* An async worker that dies leaves the state STOPPED and is never replaced.
* Stopping a process or async worker drops the jobs it has taken
  ("Graceful shutdown with job completion", `workers/pool.py:126`).

*Locks*

* In memory, re-entering is not counted: the first release frees all uses.
  `extend(ttl=0)` makes a lease that never expires.
* The quorum on Redis counts the servers that answered when the manager was created
  (`RedlockAssumption` allows any sets): two managers with different ones can both
  hold the lock. A failed attempt deletes the keys of its owner, another use by that
  owner included. `extend` does not say how long the lease now is, and an extension
  on a minority stays. One for less than what is left shortens the keys on each server it
  reaches, and one for less than a millisecond deletes them (`locking/redis_lock.py:392-399`),
  while `expires_at` of the `LockInfo` stays: until then its owner and another may both think they
  hold the lock. `acquire` reads the clock for what is left (239) and again for
  `expires_at` (249): a pause in between that uses up the drift makes a lease
  that outlives its keys.
* On files, a release unlinks after it has unlocked, so the file may be the next
  holder's; re-acquiring in one process ignores the owner; a refused release leaves
  the handle among the held ones; `extend` does not look whether the lease has expired
  and may create a new, unlocked file.

## 6 What is not modelled

* Statistics, logging, progress callbacks and the queries of store, pool and queues
  change no state the properties are about. State hooks and dead letter callbacks are
  user code.
* Delays of retries are covered by the open choice of due times; what the function of
  a job does, by its returning, raising or ending its thread or process.
* `DAGBuilder` but for `add_job`, and the rollback settings of a DAG, are data.
* `JobStore`'s `mark_...` and `cleanup_completed` have no caller in the package.
* Configuration, exceptions, the storage interface, the command line and the examples
  have no behaviour over time.
* Crashes of the whole process: nothing outlives it but lock files and keys on
  servers, whose owners do die in `FileLock` and `Redlock`.

## 7 Plan

Done: all components with behaviour over time are modelled and checked, and every safety
property that a passing run checks is proved, the three refinements included.

Next, in this order:

1. Proofs: safety parts of the liveness properties that have none yet (`EveryJobServed`,
   `ToldWorkersEnd`, `AcquireReturns`).
2. Composition: `DAGExecutor` over `Scheduler` rather than over job states.
