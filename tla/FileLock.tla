------------------------------ MODULE FileLock ------------------------------
(***************************************************************************)
(* FileLockManager (locking/file_lock.py), for one resource: processes     *)
(* that use `with manager.lock(resource)`, each with its own manager and   *)
(* owner.  The lock is a file; to have it is to have a handle of the file  *)
(* with an flock on it, but files are looked up, read, written and         *)
(* unlinked by path, so what a process has locked and what the path names  *)
(* may be two files.  Each call of the operating system is one action.     *)
(*                                                                         *)
(* Times are abstracted to whether the expires_at of a process has passed; *)
(* a file says which process wrote it, and with that its owner, its pid    *)
(* and its expiry.                                                         *)
(***************************************************************************)
EXTENDS FiniteSets

CONSTANTS
    Procs,
    Files,  \* inodes; one that nobody refers to is used again
    None

VARIABLES
    path,    \* the file the path names
    data,    \* what each file says: the process that wrote it, None if empty
    pc,      \* where each process is
    handle,  \* the file it has opened in acquire(), or holds (_held_locks)
    locked,  \* it has the flock of its handle
    target,  \* the file it is writing
    held,    \* its manager has the resource in _held_locks
    over,    \* the expires_at of its lock has passed
    forced   \* history: force_release() or clear() was called

vars == <<path, data, pc, handle, locked, target, held, over, forced>>

TypeOK ==
    /\ path \in Files \cup {None}
    /\ data \in [Files -> Procs \cup {None}]
    /\ pc \in [Procs -> {"out", "clean", "unclean", "look", "unlink", "create", "open", "flock",
                         "write", "dump", "retry", "in", "remove", "dead"}]
    /\ handle \in [Procs -> Files \cup {None}]
    /\ locked \in [Procs -> BOOLEAN]
    /\ target \in [Procs -> Files \cup {None}]
    /\ held \in [Procs -> BOOLEAN]
    /\ over \in [Procs -> BOOLEAN]
    /\ forced \in BOOLEAN

Init ==
    /\ path = None
    /\ data = [f \in Files |-> None]
    /\ pc = [p \in Procs |-> "out"]
    /\ handle = [p \in Procs |-> None]
    /\ locked = [p \in Procs |-> FALSE]
    /\ target = [p \in Procs |-> None]
    /\ held = [p \in Procs |-> FALSE]
    /\ over = [p \in Procs |-> FALSE]
    /\ forced = FALSE

Goto(p, next) == pc' = [pc EXCEPT ![p] = next]

(* Files that are neither linked nor open. *)
Unused == {f \in Files : f # path /\ \A p \in Procs : f \notin {handle[p], target[p]}}

Written == path # None /\ data[path] # None

(* The file at the path is expired, or its process is not alive. *)
Stale == Written /\ (over[data[path]] \/ pc[data[path]] = "dead")

-----------------------------------------------------------------------------
(* acquire() is called: expires_at is computed, and it may be time for a   *)
(* cleanup.                                                                *)
Acquire(p) ==
    /\ pc[p] = "out"
    /\ over' = [over EXCEPT ![p] = FALSE]
    /\ Goto(p, "clean") \/ Goto(p, "look")
    /\ UNCHANGED <<path, data, handle, locked, target, held, forced>>

(* cleanup_expired: a file that cannot be read is to go as well, one that  *)
(* was just created or is being rewritten for instance.                    *)
CleanLook(p) ==
    /\ pc[p] = "clean"
    /\ Goto(p, IF path # None /\ (Stale \/ ~Written) THEN "unclean" ELSE "look")
    /\ UNCHANGED <<path, data, handle, locked, target, held, over, forced>>

(* Unlinking what the path names by now. *)
CleanUnlink(p) ==
    /\ pc[p] = "unclean"
    /\ path' = None
    /\ Goto(p, "look")
    /\ UNCHANGED <<data, handle, locked, target, held, over, forced>>

(* The resource is in _held_locks, or the file is looked at. *)
Look(p) ==
    /\ pc[p] = "look"
    /\ Goto(p, IF held[p] THEN "write" ELSE IF Stale THEN "unlink" ELSE "create")
    /\ UNCHANGED <<path, data, handle, locked, target, held, over, forced>>

Unlink(p) ==
    /\ pc[p] = "unlink"
    /\ path' = None
    /\ Goto(p, "create")
    /\ UNCHANGED <<data, handle, locked, target, held, over, forced>>

(* open(lock_path, "x") *)
Create(p) ==
    /\ pc[p] = "create"
    /\ IF path = None
       THEN \E f \in Unused :
                /\ path' = f
                /\ data' = [data EXCEPT ![f] = None]
                /\ handle' = [handle EXCEPT ![p] = f]
                /\ Goto(p, "flock")
       ELSE Goto(p, "open") /\ UNCHANGED <<path, data, handle>>
    /\ UNCHANGED <<locked, target, held, over, forced>>

(* open(lock_path, "r+"), which fails if the file has gone meanwhile. *)
Open(p) ==
    /\ pc[p] = "open"
    /\ handle' = [handle EXCEPT ![p] = path]
    /\ Goto(p, IF path = None THEN "retry" ELSE "flock")
    /\ UNCHANGED <<path, data, locked, target, held, over, forced>>

Flock(p) ==
    /\ pc[p] = "flock"
    /\ IF \E q \in Procs : locked[q] /\ handle[q] = handle[p]
       THEN /\ handle' = [handle EXCEPT ![p] = None]
            /\ Goto(p, "retry")
            /\ UNCHANGED locked
       ELSE /\ locked' = [locked EXCEPT ![p] = TRUE]
            /\ Goto(p, "write")
            /\ UNCHANGED handle
    /\ UNCHANGED <<path, data, target, held, over, forced>>

(* _write_lock_info: open(lock_path, "w") empties the file or creates one, *)
Truncate(p) ==
    /\ pc[p] = "write"
    /\ \E f \in IF path = None THEN Unused ELSE {path} :
          /\ path' = f
          /\ data' = [data EXCEPT ![f] = None]
          /\ target' = [target EXCEPT ![p] = f]
    /\ Goto(p, "dump")
    /\ UNCHANGED <<handle, locked, held, over, forced>>

(* then it is written and closed, and the lock is held. *)
Dump(p) ==
    /\ pc[p] = "dump"
    /\ data' = [data EXCEPT ![target[p]] = p]
    /\ target' = [target EXCEPT ![p] = None]
    /\ held' = [held EXCEPT ![p] = TRUE]
    /\ Goto(p, "in")
    /\ UNCHANGED <<path, handle, locked, over, forced>>

(* The lock was not free: try again, or the timeout has passed. *)
Retry(p) ==
    /\ pc[p] = "retry"
    /\ Goto(p, "look") \/ Goto(p, "out")
    /\ UNCHANGED <<path, data, handle, locked, target, held, over, forced>>

-----------------------------------------------------------------------------
(* extend(): the file must be there and be p's.  It may have expired. *)
Extend(p) ==
    /\ pc[p] = "in"
    /\ Written /\ data[path] = p
    /\ over' = [over EXCEPT ![p] = FALSE]
    /\ Goto(p, "write")
    /\ UNCHANGED <<path, data, handle, locked, target, held, forced>>

(* release() finds the file of another process: it returns False, and the  *)
(* handle stays locked.                                                    *)
ReleaseRefused(p) ==
    /\ pc[p] = "in"
    /\ Written /\ data[path] # p
    /\ Goto(p, "out")
    /\ UNCHANGED <<path, data, handle, locked, target, held, over, forced>>

(* release(): the handle is unlocked and closed, ... *)
Release(p) ==
    /\ pc[p] = "in"
    /\ Written => data[path] = p
    /\ handle' = [handle EXCEPT ![p] = None]
    /\ locked' = [locked EXCEPT ![p] = FALSE]
    /\ held' = [held EXCEPT ![p] = FALSE]
    /\ Goto(p, "remove")
    /\ UNCHANGED <<path, data, target, over, forced>>

(* ... then the path is unlinked, whatever it names by now. *)
Remove(p) ==
    /\ pc[p] = "remove"
    /\ path' = None
    /\ Goto(p, "out")
    /\ UNCHANGED <<data, handle, locked, target, held, over, forced>>

(* force_release(), and clear(), which does it to every resource: whoever  *)
(* has the lock, the path is unlinked; one's own handle is closed.         *)
ForceRelease(p) ==
    /\ pc[p] = "out"
    /\ handle' = [handle EXCEPT ![p] = IF held[p] THEN None ELSE @]
    /\ locked' = [locked EXCEPT ![p] = @ /\ ~held[p]]
    /\ held' = [held EXCEPT ![p] = FALSE]
    /\ forced' = TRUE
    /\ Goto(p, "remove")
    /\ UNCHANGED <<path, data, target, over>>

(* release() by a process whose manager does not hold the resource: a file *)
(* that says it is its own goes.                                           *)
ReleaseUnheld(p) ==
    /\ pc[p] = "out"
    /\ ~held[p]
    /\ Written /\ data[path] = p
    /\ Goto(p, "remove")
    /\ UNCHANGED <<path, data, handle, locked, target, held, over, forced>>

(* The process dies: its handles are closed, its file stays. *)
Crash(p) ==
    /\ pc[p] # "dead"
    /\ handle' = [handle EXCEPT ![p] = None]
    /\ locked' = [locked EXCEPT ![p] = FALSE]
    /\ target' = [target EXCEPT ![p] = None]
    /\ held' = [held EXCEPT ![p] = FALSE]
    /\ Goto(p, "dead")
    /\ UNCHANGED <<path, data, over, forced>>

Expire(p) ==
    /\ pc[p] # "out"
    /\ ~over[p]
    /\ over' = [over EXCEPT ![p] = TRUE]
    /\ UNCHANGED <<path, data, pc, handle, locked, target, held, forced>>

Step(p) ==
    \/ CleanLook(p) \/ CleanUnlink(p)
    \/ Look(p) \/ Unlink(p) \/ Create(p) \/ Open(p) \/ Flock(p)
    \/ Truncate(p) \/ Dump(p) \/ Retry(p)
    \/ ReleaseRefused(p) \/ Release(p) \/ Remove(p)

Next ==
    \E p \in Procs :
        \/ Step(p) \/ Acquire(p) \/ Extend(p)
        \/ ReleaseUnheld(p) \/ ForceRelease(p) \/ Crash(p) \/ Expire(p)

Spec == Init /\ [][Next]_vars

-----------------------------------------------------------------------------
Using(p) == pc[p] = "in" /\ ~over[p]

(* What the class comment shows: `with lock_manager.lock("job:123", ...)`: *)
(* "Do work with exclusive access".  Two processes whose locks have not    *)
(* expired are never both in the body of the `with`, if nobody forces      *)
(* anything.                                                               *)
Exclusive == ~forced => \A p, q \in Procs : Using(p) /\ Using(q) => p = q
=============================================================================
