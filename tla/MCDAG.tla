-------------------------------- MODULE MCDAG --------------------------------
(* Every graph of a few jobs, self-loops and cycles included, built in     *)
(* every order.                                                            *)
EXTENDS DAG
=============================================================================
