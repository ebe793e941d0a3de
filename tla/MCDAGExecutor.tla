---------------------------- MODULE MCDAGExecutor ----------------------------
(* Every DAG on the jobs 1 .. n, up to renaming: a job depends on earlier  *)
(* ones.  Acyclicity is what DAG.validate() guarantees.                    *)
EXTENDS DAGExecutor

Ordered == {d \in [Jobs -> SUBSET Jobs] : \A j \in Jobs : \A k \in d[j] : k < j}
=============================================================================
