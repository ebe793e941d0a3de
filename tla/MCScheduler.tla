----------------------------- MODULE MCScheduler -----------------------------
(* The scheduler with up to four jobs and three threads. *)
EXTENDS Scheduler, TLC

Interchangeable == Permutations(Jobs \ Foreign)
=============================================================================
