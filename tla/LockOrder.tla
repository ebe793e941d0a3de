------------------------------ MODULE LockOrder ------------------------------
(***************************************************************************)
(* The two locks that JobScheduler and its DAGExecutor take around calls   *)
(* of each other's methods (scheduler/scheduler.py, dag_executor.py).      *)
(*                                                                         *)
(* A thread is its stack of method calls.  A method that runs `with        *)
(* self._lock` waits for the lock before it starts and has it until it     *)
(* returns; both locks are reentrant.  Which of its callees a method calls *)
(* on the way, and how often, is left open.  The locks of the queue, the   *)
(* job store and the dead letter queue are left out: their methods call no *)
(* method of these two objects.                                            *)
(***************************************************************************)
EXTENDS Sequences

CONSTANTS
    Threads,
    None

VARIABLES
    stack,  \* the methods each thread is in, innermost first
    want    \* the method it has called and whose lock it waits for

vars == <<stack, want>>

-----------------------------------------------------------------------------
(* Methods of the scheduler that hold its lock throughout. *)
OfScheduler == {"submit", "submit_dag", "complete_job", "fail_job", "cancel_job", "get_stats"}

(* Methods of the executor, which all hold its lock throughout. *)
OfExecutor == {"start_dag", "on_job_complete", "on_job_failed", "cancel_dag", "get_status",
               "get_dag_for_job", "get_executor_stats"}

Methods == OfScheduler \cup OfExecutor \cup {"run_job"}

Lock(m) == IF m \in OfScheduler THEN "scheduler"
           ELSE IF m \in OfExecutor THEN "executor" ELSE None

(* The methods, of these two objects, that a method calls. *)
Calls(m) ==
    CASE m = "submit_dag" -> {"start_dag"}
      [] m = "complete_job" -> {"get_dag_for_job", "on_job_complete"}
      [] m = "fail_job" -> {"get_dag_for_job", "on_job_failed"}
      [] m = "get_stats" -> {"get_executor_stats"}
      [] m = "run_job" -> {"get_dag_for_job", "on_job_complete", "on_job_failed"}
      [] m \in {"start_dag", "on_job_complete", "on_job_failed"} -> {"submit"}
      [] m = "cancel_dag" -> {"cancel_job"}
      [] OTHER -> {}

(* What clients and workers call; cancel_dag and get_dag_status of the     *)
(* scheduler take no lock and pass the call on to the executor.            *)
Entries == OfScheduler \cup {"run_job", "cancel_dag", "get_status"}

Holds(t, l) == l # None /\ \E i \in DOMAIN stack[t] : Lock(stack[t][i]) = l

-----------------------------------------------------------------------------
Init ==
    /\ stack = [t \in Threads |-> <<>>]
    /\ want = [t \in Threads |-> None]

(* The call is made; the lock is asked for. *)
Call(t, m) ==
    /\ want[t] = None
    /\ m \in IF stack[t] = <<>> THEN Entries ELSE Calls(Head(stack[t]))
    /\ want' = [want EXCEPT ![t] = m]
    /\ UNCHANGED stack

(* with self._lock: the lock is free, or already this thread's. *)
Enter(t) ==
    /\ want[t] # None
    /\ \A u \in Threads \ {t} : ~Holds(u, Lock(want[t]))
    /\ stack' = [stack EXCEPT ![t] = <<want[t]>> \o @]
    /\ want' = [want EXCEPT ![t] = None]

(* The method returns, or raises. *)
Leave(t) ==
    /\ want[t] = None
    /\ stack[t] # <<>>
    /\ stack' = [stack EXCEPT ![t] = Tail(@)]
    /\ UNCHANGED want

Next == \E t \in Threads : Enter(t) \/ Leave(t) \/ \E m \in Methods : Call(t, m)

Spec == Init /\ [][Next]_vars

-----------------------------------------------------------------------------
Waits(t, u) == t # u /\ want[t] # None /\ Holds(u, Lock(want[t]))

(* "JobScheduler | Main entry point, coordinates all components | Thread   *)
(* Safety: Yes" (ARCHITECTURE.md:150): its methods may be called from any  *)
(* threads.  Two of them never wait for each other's lock.                 *)
NoDeadlock == \A t, u \in Threads : ~(Waits(t, u) /\ Waits(u, t))
=============================================================================
