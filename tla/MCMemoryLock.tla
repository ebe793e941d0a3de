---------------------------- MODULE MCMemoryLock ----------------------------
(* Two owners that use the lock twice each, at once or nested. *)
EXTENDS MemoryLock

TwoUsesEach == [c \in Clients |-> IF c <= 2 THEN "a" ELSE "b"]
=============================================================================
