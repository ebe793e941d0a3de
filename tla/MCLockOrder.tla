------------------------------ MODULE MCLockOrder ------------------------------
(* Two threads that call any public methods of the scheduler.              *)
EXTENDS LockOrder
=============================================================================
