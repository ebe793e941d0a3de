------------------------------ MODULE Scheduler ------------------------------
(***************************************************************************)
(* The life of a job: Scheduler (scheduler/scheduler.py), StateMachine     *)
(* (core/state.py), JobRunner (scheduler/runner.py), RetryHandler          *)
(* (scheduler/retry.py), JobStore (scheduler/job_store.py) and the loops   *)
(* of the workers that drive them.                                         *)
(*                                                                         *)
(* submit, cancel_job, complete_job, fail_job, start and stop hold         *)
(* Scheduler._lock; get_next_job and run_job do not take it.  What is      *)
(* atomic is a StateMachine.transition (its own lock), an operation of the *)
(* queue (its own lock) and one of the store.  So run_job is one action    *)
(* per such operation, and so are submit, cancel_job and fail_job, which   *)
(* hold the lock across several of them: variable `op` is the call that    *)
(* holds the lock.                                                         *)
(*                                                                         *)
(* Abstractions.  The queue is the set of its jobs, as JobQueue specifies: *)
(* which queued job is due next is a nondeterministic choice.  Job         *)
(* functions return or raise.  DAG notifications are in DAGExecutor.       *)
(***************************************************************************)
EXTENDS Integers, FiniteSets

CONSTANTS
    Jobs,
    Workers,       \* ThreadWorkers: get_next_job, then run_job
    Callers,       \* client threads that call run_job on a job themselves
    Coordinators,  \* ProcessWorkers: get_next_job, then complete_job or fail_job
    Tasks,         \* tasks of AsyncWorkers: the same, and fail_job if that raises
    Foreign,       \* jobs that come COMPLETED, read back by Job.from_dict for instance
    MaxRetries,    \* RetryPolicy.max_retries
    MaxSize,       \* config.queue.max_size, 0 for unlimited
    MaxCalls,      \* bound: runs of a job after which no client calls run_job on it
    None

Remote == Coordinators \cup Tasks

Actors == Workers \cup Callers \cup Remote

ASSUME SchedulerAssumption ==
    /\ IsFiniteSet(Jobs)
    /\ MaxRetries \in Nat
    /\ MaxSize \in Nat
    /\ MaxCalls \in Nat
    /\ None \notin Jobs
    /\ Foreign \subseteq Jobs
    /\ Workers \cap Callers = {}
    /\ (Workers \cup Callers) \cap Remote = {}
    /\ Coordinators \cap Tasks = {}

VARIABLES
    state,    \* job.state
    attempt,  \* job.attempt
    store,    \* ids in the JobStore
    queue,    \* ids in the priority queue
    closed,   \* the queue's _shutdown
    running,  \* Scheduler._running
    op,       \* the call that holds Scheduler._lock
    pc,       \* where each actor is
    held,     \* the job each actor works on
    dlq,      \* jobs in the dead letter queue
    runs,     \* history: how often the job's function was called
    acked,    \* history: jobs that cancel_job took out of the queue
    dropped,  \* history: jobs whose retry found the queue full
    stranded  \* history: jobs whose process or async worker was refused its report

lost == <<dropped, stranded>>

vars == <<state, attempt, store, queue, closed, running, op, pc, held, dlq, runs, acked, lost>>

-----------------------------------------------------------------------------
(* core/state.py *)

JobState == {"PENDING", "SCHEDULED", "RUNNING", "COMPLETED", "FAILED",
             "RETRYING", "CANCELLED", "TIMEOUT"}

ValidTransitions ==
    [s \in JobState |->
        CASE s = "PENDING"   -> {"SCHEDULED", "CANCELLED"}
          [] s = "SCHEDULED" -> {"RUNNING", "CANCELLED"}
          [] s = "RUNNING"   -> {"COMPLETED", "FAILED", "RETRYING", "TIMEOUT"}
          [] s = "RETRYING"  -> {"SCHEDULED", "CANCELLED", "FAILED"}
          [] s = "TIMEOUT"   -> {"RETRYING", "FAILED"}
          [] OTHER           -> {}]

Terminal == {"COMPLETED", "FAILED", "CANCELLED"}

(* Mutant: the table is not looked at. *)
CanTransitionAlways(s, t) == s # t

CanTransition(s, t) == t \in ValidTransitions[s]

-----------------------------------------------------------------------------
Free == [pc |-> "free", job |-> None]

ActorPC == {"idle", "pop",                                     \* get_next_job
            "begin", "schedule", "start", "unretry", "exec",   \* JobRunner.run
            "succeeded", "failed",                             \* run_job
            "retrying", "rescheduling", "requeue", "giveup",
            "remote", "report_ok", "report_error", "stuck"}    \* the other workers

TypeOK ==
    /\ state \in [Jobs -> JobState]
    /\ attempt \in [Jobs -> Nat]
    /\ store \subseteq Jobs
    /\ queue \subseteq Jobs
    /\ closed \in BOOLEAN
    /\ running \in BOOLEAN
    /\ op \in [pc : {"free", "submit", "cancel_remove", "cancel_commit", "fail"},
               job : Jobs \cup {None}]
    /\ pc \in [Actors -> ActorPC]
    /\ held \in [Actors -> Jobs \cup {None}]
    /\ \A a \in Actors : held[a] = None <=> pc[a] \in {"idle", "pop"}
    /\ op.job = None <=> op.pc = "free"
    /\ dlq \subseteq Jobs
    /\ runs \in [Jobs -> Nat]
    /\ acked \subseteq Jobs
    /\ dropped \subseteq Jobs
    /\ stranded \subseteq Jobs

(* The state a job comes with. *)
Given(j) == IF j \in Foreign THEN "COMPLETED" ELSE "PENDING"

Init ==
    /\ state = [j \in Jobs |-> Given(j)]
    /\ attempt = [j \in Jobs |-> 0]
    /\ store = {}
    /\ queue = {}
    /\ closed = FALSE
    /\ running = FALSE
    /\ op = Free
    /\ pc = [a \in Actors |-> "idle"]
    /\ held = [a \in Actors |-> None]
    /\ dlq = {}
    /\ runs = [j \in Jobs |-> 0]
    /\ acked = {}
    /\ dropped = {}
    /\ stranded = {}

Full == MaxSize # 0 /\ Cardinality(queue) >= MaxSize

(* Mutant: full one job too early. *)
QueuePushFullEarly(j) ==
    queue' = IF Cardinality(queue) + 1 >= MaxSize THEN queue ELSE queue \cup {j}

(* ThreadSafePriorityQueue.push: False when full. *)
QueuePush(j) == queue' = IF Full THEN queue ELSE queue \cup {j}

(* JobStore (job_store.py). *)
Stored(j) == j \in store

AddToStore(j) == store' = store \cup {j}

DeleteFromStore(j) == store' = store \ {j}

LockFree == op = Free

-----------------------------------------------------------------------------
(* Calls of clients, under Scheduler._lock. *)

(* submit, up to the push: the duplicate and capacity checks, store.add    *)
(* and the transition to SCHEDULED.  When that raises, the job stays in    *)
(* the store.                                                              *)
Submit(j) ==
    /\ LockFree
    /\ ~Stored(j)
    /\ \A a \in Callers : held[a] # j
    /\ ~Full
    /\ AddToStore(j)
    /\ IF CanTransition(state[j], "SCHEDULED")
       THEN /\ state' = [state EXCEPT ![j] = "SCHEDULED"]
            /\ op' = [pc |-> "submit", job |-> j]
       ELSE UNCHANGED <<state, op>>
    /\ UNCHANGED <<attempt, queue, closed, running, pc, held, dlq, runs, acked, lost>>

(* Mutant: the rollback forgets the state. *)
SubmitPushKeepsState ==
    /\ op.pc = "submit"
    /\ op' = Free
    /\ \/ ~Full /\ queue' = queue \cup {op.job} /\ UNCHANGED store
       \/ Full /\ store' = store \ {op.job} /\ UNCHANGED queue
    /\ UNCHANGED <<state, attempt, closed, running, pc, held, dlq, runs, acked, lost>>

(* submit's push, and its rollback when a retry has filled the queue since *)
(* the capacity check: the state is written back without the state machine.*)
SubmitPush ==
    LET j == op.job
    IN  /\ op.pc = "submit"
        /\ op' = Free
        /\ \/ /\ ~Full
              /\ queue' = queue \cup {j}
              /\ UNCHANGED <<state, store>>
           \/ /\ Full
              /\ state' = [state EXCEPT ![j] = "PENDING"]
              /\ DeleteFromStore(j)
              /\ UNCHANGED queue
        /\ UNCHANGED <<attempt, closed, running, pc, held, dlq, runs, acked, lost>>

(* cancel_job: the state check, ... *)
Cancel(j) ==
    /\ LockFree
    /\ Stored(j)
    /\ state[j] \in {"PENDING", "SCHEDULED", "RETRYING"}
    /\ op' = [pc |-> "cancel_remove", job |-> j]
    /\ UNCHANGED <<state, attempt, store, queue, closed, running, pc, held, dlq, runs, acked, lost>>

(* Mutant: the job is not taken out of the queue. *)
CancelRemoveNothing ==
    /\ op.pc = "cancel_remove"
    /\ acked' = acked \cup ({op.job} \cap queue)
    /\ op' = [op EXCEPT !.pc = "cancel_commit"]
    /\ UNCHANGED <<state, attempt, store, queue, closed, running, pc, held, dlq, runs, lost>>

(* ... queue.remove, whose answer is not looked at, ... *)
CancelRemove ==
    /\ op.pc = "cancel_remove"
    /\ queue' = queue \ {op.job}
    /\ acked' = acked \cup ({op.job} \cap queue)
    /\ op' = [op EXCEPT !.pc = "cancel_commit"]
    /\ UNCHANGED <<state, attempt, store, closed, running, pc, held, dlq, runs, lost>>

(* ... and the transition, which raises if the job has moved on. *)
CancelCommit ==
    LET j == op.job
    IN  /\ op.pc = "cancel_commit"
        /\ op' = Free
        /\ state' = IF CanTransition(state[j], "CANCELLED")
                    THEN [state EXCEPT ![j] = "CANCELLED"] ELSE state
        /\ UNCHANGED <<attempt, store, queue, closed, running, pc, held, dlq, runs, acked, lost>>

Start ==
    /\ LockFree
    /\ ~running
    /\ running' = TRUE
    /\ UNCHANGED <<state, attempt, store, queue, closed, op, pc, held, dlq, runs, acked, lost>>

(* stop shuts the queue down; nothing opens it again. *)
Stop ==
    /\ LockFree
    /\ running
    /\ running' = FALSE
    /\ closed' = TRUE
    /\ UNCHANGED <<state, attempt, store, queue, op, pc, held, dlq, runs, acked, lost>>

-----------------------------------------------------------------------------
(* get_next_job, which takes no lock of the scheduler. *)

Goto(a, p) ==
    /\ pc' = [pc EXCEPT ![a] = p]
    /\ held' = [held EXCEPT ![a] = IF p = "idle" THEN None ELSE @]

(* `if not self._running: return None` *)
Poll(a) ==
    /\ a \in Workers \cup Remote
    /\ pc[a] = "idle"
    /\ running
    /\ Goto(a, "pop")
    /\ UNCHANGED <<state, attempt, store, queue, closed, running, op, dlq, runs, acked, lost>>

(* Mutants: the job stays in the queue; the last job is never taken. *)
PopJobCopies(a) ==
    /\ pc[a] = "pop"
    /\ ~closed
    /\ \E j \in queue : held' = [held EXCEPT ![a] = j]
    /\ pc' = [pc EXCEPT ![a] = IF a \in Remote THEN "remote" ELSE "begin"]
    /\ UNCHANGED <<state, attempt, store, queue, closed, running, op, dlq, runs, acked, lost>>

PopJobLeavesOne(a) ==
    /\ pc[a] = "pop"
    /\ ~closed
    /\ Cardinality(queue) > 1
    /\ \E j \in queue : queue' = queue \ {j} /\ held' = [held EXCEPT ![a] = j]
    /\ pc' = [pc EXCEPT ![a] = IF a \in Remote THEN "remote" ELSE "begin"]
    /\ UNCHANGED <<state, attempt, store, closed, running, op, dlq, runs, acked, lost>>

PopJob(a) ==
    /\ pc[a] = "pop"
    /\ ~closed
    /\ \E j \in queue :
          /\ queue' = queue \ {j}
          /\ held' = [held EXCEPT ![a] = j]
    /\ pc' = [pc EXCEPT ![a] = IF a \in Remote THEN "remote" ELSE "begin"]
    /\ UNCHANGED <<state, attempt, store, closed, running, op, dlq, runs, acked, lost>>

(* The timeout passed, or the queue is shut down. *)
PopNone(a) ==
    /\ pc[a] = "pop"
    /\ Goto(a, "idle")
    /\ UNCHANGED <<state, attempt, store, queue, closed, running, op, dlq, runs, acked, lost>>

-----------------------------------------------------------------------------
(* run_job, in a worker that popped the job or in a client thread. *)

(* Clients do not submit a job and run it at the same time. *)
CallRunJob(a, j) ==
    /\ a \in Callers
    /\ ~(op.pc = "submit" /\ op.job = j)
    /\ pc[a] = "idle"
    /\ runs[j] < MaxCalls
    /\ pc' = [pc EXCEPT ![a] = "begin"]
    /\ held' = [held EXCEPT ![a] = j]
    /\ UNCHANGED <<state, attempt, store, queue, closed, running, op, dlq, runs, acked, lost>>

(* JobRunner.run looks at the state.  Whatever it is, the function is      *)
(* called: a job in a state that cannot go to RUNNING runs as it is.       *)
Begin(a) ==
    LET s == state[held[a]]
    IN  /\ pc[a] = "begin"
        /\ Goto(a, CASE s = "PENDING"   -> "schedule"
                     [] s = "SCHEDULED" -> "start"
                     [] s = "RETRYING"  -> "unretry"
                     [] OTHER           -> "exec")
        /\ UNCHANGED <<state, attempt, store, queue, closed, running, op, dlq, runs, acked, lost>>

(* StateMachine.transition of the held job.  It stores the job, and raises *)
(* InvalidStateTransitionError when the table does not allow it.           *)
Transition(a, target, next, raised) ==
    LET j == held[a]
    IN  IF CanTransition(state[j], target)
        THEN /\ state' = [state EXCEPT ![j] = target]
             /\ AddToStore(j)
             /\ Goto(a, next)
        ELSE /\ UNCHANGED <<state, store>>
             /\ Goto(a, raised)

(* The transitions of JobRunner.run; what they raise is caught there and   *)
(* becomes a failed JobResult.                                             *)
Prepare(a) ==
    /\ \/ pc[a] = "schedule" /\ Transition(a, "SCHEDULED", "begin", "failed")
       \/ pc[a] = "unretry"  /\ Transition(a, "SCHEDULED", "start", "failed")
       \/ pc[a] = "start"    /\ Transition(a, "RUNNING", "exec", "failed")
    /\ UNCHANGED <<attempt, queue, closed, running, op, dlq, runs, acked, lost>>

(* The job's function returns or raises. *)
Execute(a) ==
    /\ pc[a] = "exec"
    /\ runs' = [runs EXCEPT ![held[a]] = @ + 1]
    /\ \/ Goto(a, "succeeded")
       \/ Goto(a, "failed")
    /\ UNCHANGED <<state, attempt, store, queue, closed, running, op, dlq, acked, lost>>

(* run_job, after the run.  What a transition raises here leaves run_job   *)
(* and ends in the log of the worker loop.                                 *)
Succeed(a) ==
    /\ pc[a] = "succeeded"
    /\ Transition(a, "COMPLETED", "idle", "idle")
    /\ UNCHANGED <<attempt, queue, closed, running, op, dlq, runs, acked, lost>>

(* Mutant: off by one. *)
ShouldRetryOnce(j, matches) == attempt[j] <= MaxRetries /\ matches

(* There are attempts left, and the error is among retry_on. *)
ShouldRetry(j, matches) == attempt[j] < MaxRetries /\ matches

(* should_retry and prepare_for_retry, in run_job and in fail_job. *)
Decide(a) ==
    LET j == held[a]
    IN  \E matches \in BOOLEAN :
            IF ShouldRetry(j, matches)
            THEN /\ attempt' = [attempt EXCEPT ![j] = @ + 1]
                 /\ Goto(a, "retrying")
            ELSE /\ UNCHANGED attempt
                 /\ Goto(a, "giveup")

DecideRetry(a) ==
    /\ pc[a] = "failed"
    /\ Decide(a)
    /\ UNCHANGED <<state, store, queue, closed, running, op, dlq, runs, acked, lost>>

(* Where an exception of run_job or of fail_job leaves the actor: it ends  *)
(* the task of an async worker.                                            *)
Raised(a) == IF a \in Coordinators THEN "stuck" ELSE "idle"

(* The transition to target, with which a worker reports, raises: nobody   *)
(* will look at the job again.                                             *)
Strand(a, target) ==
    stranded' = IF a \in Remote /\ ~CanTransition(state[held[a]], target)
                THEN stranded \cup {held[a]} ELSE stranded

(* fail_job leaves its `with self._lock`; run_job has none. *)
Unlock(a) == op' = IF a \in Remote /\ pc'[a] \in {"idle", "stuck"} THEN Free ELSE op

(* RUNNING -> RETRYING -> SCHEDULED. *)
Reschedule(a) ==
    /\ \/ /\ pc[a] = "retrying"
          /\ Transition(a, "RETRYING", "rescheduling", Raised(a))
          /\ Strand(a, "RETRYING")
       \/ /\ pc[a] = "rescheduling"
          /\ Transition(a, "SCHEDULED", "requeue", Raised(a))
          /\ Strand(a, "SCHEDULED")
    /\ Unlock(a)
    /\ UNCHANGED <<attempt, queue, closed, running, dlq, runs, acked, dropped>>

(* The push of a retry; its answer is not looked at. *)
Requeue(a) ==
    /\ pc[a] = "requeue"
    /\ QueuePush(held[a])
    /\ dropped' = IF Full THEN dropped \cup {held[a]} ELSE dropped
    /\ Goto(a, "idle")
    /\ Unlock(a)
    /\ UNCHANGED <<state, attempt, store, closed, running, dlq, runs, acked, stranded>>

(* RUNNING -> FAILED.  Only fail_job writes a dead letter. *)
GiveUp(a) ==
    /\ pc[a] = "giveup"
    /\ Transition(a, "FAILED", "idle", Raised(a))
    /\ dlq' = IF a \in Remote /\ CanTransition(state[held[a]], "FAILED")
              THEN dlq \cup {held[a]} ELSE dlq
    /\ Strand(a, "FAILED")
    /\ Unlock(a)
    /\ UNCHANGED <<attempt, queue, closed, running, runs, acked, dropped>>

RunJob(a) ==
    \/ Begin(a) \/ Prepare(a) \/ Execute(a) \/ Succeed(a)
    \/ DecideRetry(a) \/ Reschedule(a) \/ Requeue(a) \/ GiveUp(a)

-----------------------------------------------------------------------------
(* ProcessWorker and AsyncWorker: the job's function runs in another       *)
(* process, or in the event loop, and the coordinator thread, or the task, *)
(* reports the result.  Nothing moves the job to RUNNING.                  *)

RemoteRun(a) ==
    /\ pc[a] = "remote"
    /\ runs' = [runs EXCEPT ![held[a]] = @ + 1]
    /\ \/ Goto(a, "report_ok")
       \/ Goto(a, "report_error")
    /\ UNCHANGED <<state, attempt, store, queue, closed, running, op, dlq, acked, lost>>

(* complete_job.  What it raises is swallowed by the coordinator's handler *)
(* for an empty queue: the worker stays BUSY with its current job.  A task *)
(* takes it for an error of the job, and reports again.                    *)
CompleteJob(a) ==
    /\ pc[a] = "report_ok"
    /\ LockFree
    /\ \/ /\ a \in Coordinators
          /\ Transition(a, "COMPLETED", "idle", "stuck")
          /\ Strand(a, "COMPLETED")
       \/ /\ a \in Tasks
          /\ Transition(a, "COMPLETED", "idle", "report_error")
          /\ UNCHANGED stranded
    /\ UNCHANGED <<attempt, queue, closed, running, op, dlq, runs, acked, dropped>>

(* fail_job takes the lock and counts the attempt before it tries the      *)
(* transitions, which are the steps above.                                 *)
FailJob(a) ==
    /\ pc[a] = "report_error"
    /\ LockFree
    /\ Decide(a)
    /\ op' = [pc |-> "fail", job |-> held[a]]
    /\ UNCHANGED <<state, store, queue, closed, running, dlq, runs, acked, lost>>

-----------------------------------------------------------------------------
Client ==
    \/ \E j \in Jobs : Submit(j) \/ Cancel(j)
    \/ SubmitPush \/ CancelRemove \/ CancelCommit
    \/ Start \/ Stop

Step(a) ==
    \/ Poll(a) \/ PopJob(a) \/ PopNone(a)
    \/ \E j \in Jobs : CallRunJob(a, j)
    \/ RunJob(a)
    \/ RemoteRun(a) \/ CompleteJob(a) \/ FailJob(a)

Next == Client \/ \E a \in Actors : Step(a)

Safety == Init /\ [][Next]_vars

(* Threads keep running: a call that holds the lock gets through, a worker *)
(* polls and takes its job through run_job.  Strong fairness of PopJob is  *)
(* what the queue provides (EveryJobServed of SchedulerQueue): workers     *)
(* that keep polling get the jobs that are due.                            *)
Fairness ==
    /\ WF_vars(SubmitPush \/ CancelRemove \/ CancelCommit)
    /\ \A a \in Workers :
          WF_vars(Poll(a)) /\ SF_vars(PopJob(a)) /\ WF_vars(RunJob(a))
    /\ \A a \in Callers : WF_vars(RunJob(a))

Spec == Safety /\ Fairness

-----------------------------------------------------------------------------
(* Properties *)

(* No job has two custodians: a queued job is in nobody's hands, and no    *)
(* two workers work on the same job, whatever retries, cancellations,      *)
(* rollbacks and rejected submissions happen meanwhile; and a job that a   *)
(* cancellation took out of the queue has none.  So what submit() and a    *)
(* retry push never has an entry in the heap, not even a removed one,      *)
(* which is what SchedulerQueue supposes of its users.                     *)
Custody ==
    /\ \A a \in Actors : held[a] \notin queue
    /\ \A a, b \in Actors : held[a] = held[b] /\ held[a] # None => a = b
    /\ op.pc = "submit" => op.job \notin queue /\ \A a \in Actors : held[a] # op.job
    /\ \A j \in acked :
          /\ j \notin queue
          /\ op.pc = "submit" => op.job # j
          /\ \A a \in Actors : held[a] # j

(* A job's function is called at most once per attempt, so at most         *)
(* max_retries + 1 times, cancelled and re-queued jobs included.           *)
RunsBounded ==
    \A j \in Jobs : runs[j] <= attempt[j] + 1 /\ attempt[j] <= MaxRetries

(* A job that submit() turned away because the queue was full, before the  *)
(* push or in its rollback, has left nothing behind: it is as new and can  *)
(* be submitted again.  (One whose state the state machine refuses stays   *)
(* in the store.)                                                          *)
RejectedLeavesNoTrace ==
    \A j \in Jobs \ store : state[j] = Given(j) /\ j \notin queue

(* COMPLETED, FAILED and CANCELLED are final, although run_job, cancel_job *)
(* and the rollback of submit() write the state from different threads.    *)
TerminalIsFinal ==
    [][\A j \in Jobs : state[j] \in Terminal => state'[j] = state[j]]_vars

(* What JobState says of SCHEDULED ("in the queue waiting for a worker")   *)
(* and of RUNNING and RETRYING: an unfinished job is in the queue, in the  *)
(* hands of an actor that goes on, or in those of the call that holds the  *)
(* lock.  There are two ways to lose it: the push of a retry that finds    *)
(* the queue full, and a report of a process or async worker that the      *)
(* state machine refuses.  (What a worker has when it is stopped is in     *)
(* Workers.)                                                               *)
NoJobLost ==
    \A j \in Jobs \ (dropped \cup stranded) :
        state[j] \in {"SCHEDULED", "RUNNING", "RETRYING"} =>
            \/ j \in queue
            \/ \E a \in Actors : held[a] = j /\ pc[a] # "stuck"
            \/ op.job = j

(* A submitted job ends in a terminal state, unless the scheduler stops:   *)
(* retries run out, and neither a cancellation nor a client's own run_job  *)
(* leaves it half-way.                                                     *)
EveryJobFinishes ==
    \A j \in Jobs : (running /\ j \in store) ~> (state[j] \in Terminal \/ closed)

(* The function of a job that cancel_job takes out of the queue is not     *)
(* called any more: no retry or rollback under way puts the job back, and  *)
(* the transition to CANCELLED that follows in another step is not too     *)
(* late.  (A job that a worker already holds is another matter: cancel_job *)
(* may report it cancelled, and it runs.)                                  *)
CancelHonoured == [][\A j \in acked : runs'[j] = runs[j]]_vars
=============================================================================
