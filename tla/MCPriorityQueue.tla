--------------------------- MODULE MCPriorityQueue ---------------------------
(* The priority queue on small instances: two or three jobs, two           *)
(* priorities, and three insertions between two calls of clear().          *)
EXTENDS PriorityQueue, TLC

Interchangeable == Permutations(Jobs) \cup Permutations(Consumers)
=============================================================================
