----------------------------- MODULE DAGExecutor -----------------------------
(***************************************************************************)
(* DAGExecutor (scheduler/dag_executor.py): one DAG, its execution record  *)
(* and the jobs it queues as their dependencies complete.                  *)
(*                                                                         *)
(* Each method of the executor holds its lock and is one action.  A worker *)
(* ends a job in two steps: run_job first moves the job to COMPLETED or    *)
(* FAILED and then, with no lock held in between, tells the executor.      *)
(*                                                                         *)
(* Abstractions.  Scheduler and queue are reduced to the job states: a     *)
(* SCHEDULED job is in the queue, unless it is lost, and a RUNNING one in  *)
(* a worker's hands (see Scheduler for the steps in between).  The queue   *)
(* is shared with other jobs, so any push may meet a full queue.           *)
(***************************************************************************)
EXTENDS Integers, FiniteSets

CONSTANTS
    Jobs,   \* the jobs of the DAG
    Shapes  \* the dependency functions the DAG may have

(* submit_dag() validates the DAG first: it has no cycle, that is, among   *)
(* any jobs there is one that depends on none of them.                     *)
ASSUME DAGAssumption ==
    /\ IsFiniteSet(Jobs)
    /\ Jobs # {}
    /\ Shapes \subseteq [Jobs -> SUBSET Jobs]
    /\ \A deps \in Shapes, S \in SUBSET Jobs : S # {} => \E j \in S : deps[j] \cap S = {}

VARIABLES
    dag,      \* the DAG: node.dependencies of each job, and fail_fast
    ex,       \* the DAGExecution
    state,    \* job.state
    untold,   \* jobs that have ended and whose worker has yet to tell
    submits,  \* history: how often each job was given to submit()
    stopped,  \* history: cancel_dag was called
    lost      \* history: jobs left SCHEDULED that nobody has (NoJobLost of Scheduler)

vars == <<dag, ex, state, untold, submits, stopped, lost>>

DAGExecution ==
    [status         : {"PENDING", "RUNNING", "COMPLETED", "FAILED", "CANCELLED"},
     running_jobs   : SUBSET Jobs,
     completed_jobs : SUBSET Jobs,
     failed_jobs    : SUBSET Jobs,
     cancelled_jobs : SUBSET Jobs,
     told           : Nat]    \* history: calls of on_dag_complete and on_dag_failed

TypeOK ==
    /\ dag \in [deps : Shapes, fail_fast : BOOLEAN]
    /\ ex \in DAGExecution
    /\ state \in [Jobs -> {"PENDING", "SCHEDULED", "RUNNING", "COMPLETED",
                           "FAILED", "CANCELLED"}]
    /\ untold \subseteq {j \in Jobs : state[j] \in {"COMPLETED", "FAILED"}}
    /\ submits \in [Jobs -> Nat]
    /\ stopped \in BOOLEAN
    /\ lost \subseteq {j \in Jobs : state[j] \in {"SCHEDULED", "CANCELLED"}}

Init ==
    /\ dag \in [deps : Shapes, fail_fast : BOOLEAN]
    /\ ex = [status |-> "PENDING", running_jobs |-> {}, completed_jobs |-> {},
             failed_jobs |-> {}, cancelled_jobs |-> {}, told |-> 0]
    /\ state = [j \in Jobs |-> "PENDING"]
    /\ untold = {}
    /\ submits = [j \in Jobs |-> 0]
    /\ stopped = FALSE
    /\ lost = {}

-----------------------------------------------------------------------------
(* The executor's private methods, as functions of the execution record. *)

(* Mutant: a job counts as failed before submit() answers. *)
QueueJobsFailFirst(x, S, A) ==
    [x EXCEPT !.running_jobs = @ \cup A, !.failed_jobs = @ \cup S]

(* _queue_job for each job of S, of which submit() accepts those in A. *)
QueueJobs(x, S, A) ==
    [x EXCEPT !.running_jobs = @ \cup A, !.failed_jobs = @ \cup (S \ A)]

(* Mutants: one dependency is enough; the failed jobs, or the cancelled    *)
(* ones, are not excluded.                                                 *)
IsJobReadyAny(j, x) ==
    /\ j \notin x.running_jobs \cup x.completed_jobs \cup x.failed_jobs \cup x.cancelled_jobs
    /\ dag.deps[j] \cap x.completed_jobs # {}

IsJobReadyAgain(j, x) ==
    /\ j \notin x.running_jobs \cup x.completed_jobs \cup x.cancelled_jobs
    /\ dag.deps[j] \subseteq x.completed_jobs

IsJobReadyCancelled(j, x) ==
    /\ j \notin x.running_jobs \cup x.completed_jobs \cup x.failed_jobs
    /\ dag.deps[j] \subseteq x.completed_jobs

(* _is_job_ready *)
IsJobReady(j, x) ==
    /\ j \notin x.running_jobs \cup x.completed_jobs \cup x.failed_jobs \cup x.cancelled_jobs
    /\ dag.deps[j] \subseteq x.completed_jobs

(* What _fail_dag and cancel_dag mark as cancelled. *)
Unfinished(x) == Jobs \ (x.completed_jobs \cup x.failed_jobs)

(* _fail_dag: the jobs are only marked, in the execution record. *)
FailDag(x) ==
    IF x.status \in {"FAILED", "CANCELLED"} THEN x
    ELSE [x EXCEPT !.status = "FAILED",
                   !.cancelled_jobs = @ \cup Unfinished(x),
                   !.told = @ + 1]

(* len() of each set is added up, overlaps are counted twice. *)
TotalAccounted(x) ==
    Cardinality(x.completed_jobs) + Cardinality(x.failed_jobs) + Cardinality(x.cancelled_jobs)

(* The ready jobs _check_dag_completion would queue. *)
Sweep(x) ==
    IF x.running_jobs # {} \/ TotalAccounted(x) >= Cardinality(Jobs) THEN {}
    ELSE {j \in Jobs : IsJobReady(j, x)}

(* Mutants: failed jobs are forgotten; a DAG whose jobs are not all        *)
(* accounted for is left running.                                          *)
CheckCompletionBlind(x, S, A) ==
    IF x.running_jobs # {} THEN x
    ELSE IF S # {} THEN QueueJobs(x, S, A)
    ELSE [x EXCEPT !.status = "COMPLETED", !.told = @ + 1]

CheckCompletionAll(x, S, A) ==
    IF x.running_jobs # {} THEN x
    ELSE IF S # {} THEN QueueJobs(x, S, A)
    ELSE IF TotalAccounted(x) < Cardinality(Jobs) THEN x
    ELSE IF x.failed_jobs # {} THEN FailDag(x)
    ELSE [x EXCEPT !.status = "COMPLETED", !.told = @ + 1]

(* _check_dag_completion, after the sweep has queued A of S. *)
CheckCompletion(x, S, A) ==
    IF x.running_jobs # {} THEN x
    ELSE IF S # {} THEN QueueJobs(x, S, A)
    ELSE IF x.failed_jobs # {} THEN FailDag(x)
    ELSE [x EXCEPT !.status = "COMPLETED", !.told = @ + 1]

(* submit() of the jobs in S, accepted for those in A. *)
SubmitJobs(S, A) ==
    /\ state' = [j \in Jobs |-> IF j \in A THEN "SCHEDULED" ELSE state[j]]
    /\ submits' = [j \in Jobs |-> IF j \in S THEN submits[j] + 1 ELSE submits[j]]

-----------------------------------------------------------------------------
(* get_root_nodes *)
Roots == {j \in Jobs : dag.deps[j] = {}}

(* start_dag, called by Scheduler.submit_dag. *)
StartDag ==
    /\ ex.status = "PENDING"
    /\ \E A \in SUBSET Roots :
          /\ ex' = QueueJobs([ex EXCEPT !.status = "RUNNING"], Roots, A)
          /\ SubmitJobs(Roots, A)
    /\ UNCHANGED <<dag, untold, stopped, lost>>

OnJobComplete(j) ==
    /\ j \in untold
    /\ state[j] = "COMPLETED"
    /\ untold' = untold \ {j}
    /\ LET x == [ex EXCEPT !.running_jobs = @ \ {j}, !.completed_jobs = @ \cup {j}]
           S == {d \in Jobs : j \in dag.deps[d] /\ IsJobReady(d, x)}
       IN  \E A \in SUBSET S :
              LET y == QueueJobs(x, S, A)
              IN  \E B \in SUBSET Sweep(y) :
                     /\ ex' = CheckCompletion(y, Sweep(y), B)
                     /\ SubmitJobs(S \cup Sweep(y), A \cup B)
    /\ UNCHANGED <<dag, stopped, lost>>

OnJobFailed(j) ==
    /\ j \in untold
    /\ state[j] = "FAILED"
    /\ untold' = untold \ {j}
    /\ LET x == [ex EXCEPT !.running_jobs = @ \ {j}, !.failed_jobs = @ \cup {j}]
       IN  IF dag.fail_fast
           THEN ex' = FailDag(x) /\ UNCHANGED <<state, submits>>
           ELSE \E B \in SUBSET Sweep(x) :
                   /\ ex' = CheckCompletion(x, Sweep(x), B)
                   /\ SubmitJobs(Sweep(x), B)
    /\ UNCHANGED <<dag, stopped, lost>>

(* cancel_dag, whatever the status is.  cancel_job gets the jobs that wait *)
(* in the queue; it raises for those not submitted and is refused for the  *)
(* others.                                                                 *)
CancelDag ==
    /\ ex.status # "PENDING"
    /\ ex' = [ex EXCEPT !.status = "CANCELLED", !.cancelled_jobs = @ \cup Unfinished(ex)]
    /\ state' = [j \in Jobs |-> IF j \in Unfinished(ex) /\ state[j] = "SCHEDULED"
                                THEN "CANCELLED" ELSE state[j]]
    /\ stopped' = TRUE
    /\ UNCHANGED <<dag, untold, submits, lost>>

-----------------------------------------------------------------------------
(* Scheduler and workers. *)

(* Scheduler.cancel_job, which does not tell the executor. *)
CancelJob(j) ==
    /\ state[j] = "SCHEDULED"
    /\ state' = [state EXCEPT ![j] = "CANCELLED"]
    /\ UNCHANGED <<dag, ex, untold, submits, stopped, lost>>

(* A job that a worker can still pop. *)
Queued(j) == state[j] = "SCHEDULED" /\ j \notin lost

StartJob(j) ==
    /\ Queued(j)
    /\ state' = [state EXCEPT ![j] = "RUNNING"]
    /\ UNCHANGED <<dag, ex, untold, submits, stopped, lost>>

(* run_job ends an attempt: a retry goes back to the queue, unless that is *)
(* full, and the executor hears nothing of it either way.                  *)
RetryJob(j) ==
    /\ state[j] = "RUNNING"
    /\ state' = [state EXCEPT ![j] = "SCHEDULED"]
    /\ \/ UNCHANGED lost
       \/ lost' = lost \cup {j}
    /\ UNCHANGED <<dag, ex, untold, submits, stopped>>

(* A process or async worker takes the job and runs it as it is: the state *)
(* machine refuses its report, and the executor hears nothing.             *)
StrandJob(j) ==
    /\ Queued(j)
    /\ lost' = lost \cup {j}
    /\ UNCHANGED <<dag, ex, state, untold, submits, stopped>>

EndJob(j) ==
    /\ state[j] = "RUNNING"
    /\ \E s \in {"COMPLETED", "FAILED"} : state' = [state EXCEPT ![j] = s]
    /\ untold' = untold \cup {j}
    /\ UNCHANGED <<dag, ex, submits, stopped, lost>>

Next ==
    \/ StartDag
    \/ CancelDag
    \/ \E j \in Jobs :
          \/ OnJobComplete(j) \/ OnJobFailed(j)
          \/ CancelJob(j) \/ StartJob(j) \/ RetryJob(j) \/ StrandJob(j) \/ EndJob(j)

Safety == Init /\ [][Next]_vars

(* Workers pop queued jobs and go on to tell the executor; attempts are   *)
(* bounded, so a job that keeps being started ends.                        *)
Fairness ==
    \A j \in Jobs :
       /\ WF_vars(StartJob(j))
       /\ SF_vars(EndJob(j))
       /\ WF_vars(OnJobComplete(j) \/ OnJobFailed(j))

Spec == Safety /\ Fairness

-----------------------------------------------------------------------------
(* Properties *)

Started == {"SCHEDULED", "RUNNING", "COMPLETED", "FAILED"}

(* A job is queued only when all its dependencies have completed, in       *)
(* whatever order completions, failures, retries and cancellations arrive. *)
DependenciesFirst ==
    \A j \in Jobs : state[j] \in Started =>
        \A d \in dag.deps[j] : state[d] = "COMPLETED"

(* No job is given to submit() twice, however many of its dependencies     *)
(* complete at once.  (A second submit() would raise, and _queue_job would *)
(* count the running job as failed.)                                       *)
QueuedOnce == \A j \in Jobs : submits[j] <= 1

(* The sets the progress report is computed from do not overlap, but for   *)
(* cancelled_jobs, in which jobs in flight are marked that still complete  *)
(* or fail; and they never contradict the jobs: a job in completed_jobs is *)
(* COMPLETED, one in running_jobs has been queued.                         *)
BooksAgree ==
    /\ ex.running_jobs \cap ex.completed_jobs = {}
    /\ ex.running_jobs \cap ex.failed_jobs = {}
    /\ ex.completed_jobs \cap ex.failed_jobs = {}
    /\ \A j \in ex.completed_jobs : state[j] = "COMPLETED"
    /\ \A j \in ex.running_jobs : state[j] # "PENDING"
    /\ \A j \in Jobs : state[j] \in {"SCHEDULED", "RUNNING"} => j \in ex.running_jobs

(* Once the DAG has ended, failed or been cancelled, no further job of it  *)
(* is queued, although jobs in flight still complete and report.           *)
NothingQueuedAfterEnd ==
    [][ex.status \notin {"PENDING", "RUNNING"} =>
          \A j \in Jobs : state[j] = "PENDING" => state'[j] = "PENDING"]_vars

(* A DAG that nobody cancels is reported COMPLETED only when every job     *)
(* completed, and FAILED only when one failed; it is reported once, though *)
(* jobs in flight go on reporting afterwards.                              *)
OutcomeTrue ==
    ~stopped =>
        /\ ex.status = "COMPLETED" => ex.completed_jobs = Jobs
        /\ ex.status = "FAILED" => ex.failed_jobs # {}
        /\ ex.told = IF ex.status \in {"COMPLETED", "FAILED"} THEN 1 ELSE 0

(* A DAG ends.  The exceptions are those no step of the executor answers:  *)
(* a job of it was cancelled on its own, a job of it was lost, by a retry  *)
(* that found the queue full or by a process or async worker, or           *)
(* submissions were refused and left nothing in flight.                    *)
DagEnds ==
    (ex.status = "RUNNING") ~>
        \/ ex.status # "RUNNING"
        \/ \E j \in Jobs : state[j] = "CANCELLED"
        \/ \E j \in lost : j \in ex.running_jobs
        \/ ex.running_jobs = {} /\ \E j \in ex.failed_jobs : state[j] = "PENDING"
=============================================================================
