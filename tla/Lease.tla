-------------------------------- MODULE Lease --------------------------------
(***************************************************************************)
(* What a lock manager promises of one resource (locking/base.py): at any  *)
(* time at most one owner may rely on having it, until its lease ends.     *)
(* MemoryLock and Redlock implement this specification.                    *)
(***************************************************************************)
CONSTANTS
    Owners,
    None    \* not an owner

VARIABLE holder  \* the owner with an unexpired lease, or None

Init == holder = None

(* acquire() returns a LockInfo; an owner that has the lock may ask again. *)
Grant(o) ==
    /\ holder = None
    /\ holder' = o

(* The lease is released, or expires. *)
End ==
    /\ holder # None
    /\ holder' = None

Next == End \/ \E o \in Owners : Grant(o)

Spec == Init /\ [][Next]_holder
=============================================================================
