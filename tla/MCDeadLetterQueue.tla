-------------------------- MODULE MCDeadLetterQueue --------------------------
(* Five jobs, two clients that requeue, room for two entries. *)
EXTENDS DeadLetterQueue, TLC

Interchangeable == Permutations(Jobs) \cup Permutations(Clients)
=============================================================================
