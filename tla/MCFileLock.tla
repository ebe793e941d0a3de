----------------------------- MODULE MCFileLock -----------------------------
(* Two processes that lock the same resource again and again. *)
EXTENDS FileLock
=============================================================================
