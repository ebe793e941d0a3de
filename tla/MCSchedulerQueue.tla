-------------------------- MODULE MCSchedulerQueue ---------------------------
(* The queue under the scheduler's calls, with two competing consumers.    *)
EXTENDS SchedulerQueue

=============================================================================
