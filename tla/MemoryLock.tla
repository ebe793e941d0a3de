----------------------------- MODULE MemoryLock -----------------------------
(***************************************************************************)
(* InMemoryLockManager (locking/memory.py) and the context manager lock()  *)
(* of its base class (locking/base.py), for one resource: operations on    *)
(* other resources do not touch its entry, and clear() and                 *)
(* cleanup_expired() do to each what they do to one.                       *)
(*                                                                         *)
(* A client is one use of `with manager.lock(resource, owner, ...)`:       *)
(* nested uses and threads that share an owner are clients with the same   *)
(* owner.  Every operation holds the manager's lock and is one action;     *)
(* acquire() gives the lock up while it waits.  A wait ends after a tenth  *)
(* of a second at the latest, notified or not, and looks again: notify_all *)
(* only makes that sooner and is left out.                                 *)
(*                                                                         *)
(* Time passes in ticks, and what is kept is the time left until an        *)
(* instant: -1 once it has passed, Forever for expires_at = None.  A       *)
(* LockInfo is shared by the table and by the clients it was returned to;  *)
(* `lease` is what a client reads in its own, and how that one has left    *)
(* the table.                                                              *)
(***************************************************************************)
EXTENDS Integers

CONSTANTS
    Clients,
    Owners,
    Owner,         \* the owner each client acquires with
    MaxTtl,        \* bound: the longest ttl, in ticks; a ttl of 0 never expires
    MaxTimeout,    \* bound: the longest timeout of acquire(); 0 does not wait
    None

ASSUME MemoryLockAssumption ==
    /\ Owner \in [Clients -> Owners]
    /\ MaxTtl \in Nat
    /\ MaxTimeout \in Nat
    /\ None \notin Owners

VARIABLES
    table,     \* _locks[resource], or Free
    pc,        \* where each client is: "out", "try", "wait", "in"
    patience,  \* the time left until the deadline of its acquire()
    lease      \* the LockInfo it was given

vars == <<table, pc, patience, lease>>

Forever == MaxTtl + 1

Free == [owner |-> None, left |-> -1]

Blank == [left |-> -1, ended |-> "none"]

Held == table # Free

(* The LockInfo of this client is the one in the table. *)
Linked(c) == lease[c].ended = "no"

TypeOK ==
    /\ table \in [owner : Owners, left : -1 .. Forever] \cup {Free}
    /\ pc \in [Clients -> {"out", "try", "wait", "in"}]
    /\ patience \in [Clients -> 0 .. MaxTimeout]
    /\ lease \in [Clients -> [left : -1 .. Forever,
                              ended : {"no", "late", "released", "forced"}] \cup {Blank}]
    /\ \A c \in Clients : lease[c] = Blank <=> pc[c] # "in"
    /\ \A c \in Clients : Linked(c) => table = [owner |-> Owner[c], left |-> lease[c].left]

Init ==
    /\ table = Free
    /\ pc = [c \in Clients |-> "out"]
    /\ patience = [c \in Clients |-> 0]
    /\ lease = [c \in Clients |-> Blank]

-----------------------------------------------------------------------------
Passed(left) == IF left \in {-1, Forever} THEN left ELSE left - 1

Tick ==
    /\ table' = IF Held THEN [table EXCEPT !.left = Passed(@)] ELSE table
    /\ lease' = [c \in Clients |-> [lease[c] EXCEPT !.left = Passed(@)]]
    /\ patience' = [c \in Clients |-> IF patience[c] = 0 THEN 0 ELSE patience[c] - 1]
    /\ UNCHANGED pc

(* expires_at of a lease that starts now. *)
Until(ttl) == IF ttl = 0 THEN Forever ELSE ttl

(* Mutant: a lease is over at the instant it expires. *)
ExpiredEarly == table.left <= 0

(* _is_expired: now > expires_at. *)
Expired == table.left < 0

(* The leases when the entry leaves the table. *)
Ended(how) ==
    [c \in Clients |->
        IF Linked(c) THEN [lease[c] EXCEPT !.ended = IF Expired THEN "late" ELSE how]
        ELSE lease[c]]

(* The leases, and the table, when the entry's expiry is written. *)
Renewed(left) ==
    [c \in Clients |-> IF Linked(c) THEN [lease[c] EXCEPT !.left = left] ELSE lease[c]]

-----------------------------------------------------------------------------
(* acquire() is called, with a timeout. *)
Call(c) ==
    /\ pc[c] = "out"
    /\ pc' = [pc EXCEPT ![c] = "try"]
    /\ \E t \in 0 .. MaxTimeout : patience' = [patience EXCEPT ![c] = t]
    /\ UNCHANGED <<table, lease>>

Obtain(c, left) ==
    /\ pc' = [pc EXCEPT ![c] = "in"]
    /\ patience' = [patience EXCEPT ![c] = 0]
    /\ table' = [owner |-> Owner[c], left |-> left]

(* Mutant: the lock is taken from whoever has it. *)
TakeHeld(c) ==
    /\ pc[c] = "try"
    /\ \E ttl \in 0 .. MaxTtl :
          /\ Obtain(c, Until(ttl))
          /\ lease' = [Ended("released") EXCEPT ![c] = [left |-> Until(ttl), ended |-> "no"]]

(* There is no entry, or it has expired: a new one takes its place. *)
Take(c) ==
    /\ pc[c] = "try"
    /\ Held => Expired
    /\ \E ttl \in 0 .. MaxTtl :
          /\ Obtain(c, Until(ttl))
          /\ lease' = [Ended("late") EXCEPT ![c] = [left |-> Until(ttl), ended |-> "no"]]

(* The owner has it: it gets the same LockInfo, extended. *)
Reenter(c) ==
    /\ pc[c] = "try"
    /\ Held /\ ~Expired
    /\ table.owner = Owner[c]
    /\ \E ttl \in 0 .. MaxTtl :
          LET left == IF ttl = 0 THEN table.left ELSE ttl
          IN  /\ Obtain(c, left)
              /\ lease' = [Renewed(left) EXCEPT ![c] = [left |-> left, ended |-> "no"]]

(* Another owner has it: acquire() returns None, or waits. *)
Refuse(c) ==
    /\ pc[c] = "try"
    /\ Held /\ ~Expired
    /\ table.owner # Owner[c]
    /\ pc' = [pc EXCEPT ![c] = IF patience[c] = 0 THEN "out" ELSE "wait"]
    /\ UNCHANGED <<table, patience, lease>>

(* Mutant: the deadline is only looked at before the wait. *)
WaitEndAgain(c) ==
    /\ pc[c] = "wait"
    /\ pc' = [pc EXCEPT ![c] = "try"]
    /\ patience' = [patience EXCEPT ![c] = MaxTimeout]
    /\ UNCHANGED <<table, lease>>

(* The wait is over; once the deadline has passed the table is not looked  *)
(* at any more.                                                            *)
WaitEnd(c) ==
    /\ pc[c] = "wait"
    /\ pc' = [pc EXCEPT ![c] = IF patience[c] = 0 THEN "out" ELSE "try"]
    /\ UNCHANGED <<table, patience, lease>>

-----------------------------------------------------------------------------
(* Mutant: a lease that has expired is extended too. *)
ExtendExpired(c) ==
    /\ pc[c] = "in"
    /\ Held /\ table.owner = Owner[c]
    /\ \E ttl \in 0 .. MaxTtl :
          /\ table' = [table EXCEPT !.left = Until(ttl)]
          /\ lease' = Renewed(Until(ttl))
    /\ UNCHANGED <<pc, patience>>

(* extend(): an expired entry is dropped. *)
Extend(c) ==
    /\ pc[c] = "in"
    /\ Held /\ table.owner = Owner[c]
    /\ \/ /\ Expired
          /\ table' = Free
          /\ lease' = Ended("late")
       \/ /\ ~Expired
          /\ \E ttl \in 0 .. MaxTtl :
                /\ table' = [table EXCEPT !.left = Until(ttl)]
                /\ lease' = Renewed(Until(ttl))
    /\ UNCHANGED <<pc, patience>>

(* The end of the `with` block: release() by owner.  Nothing is counted,   *)
(* so the entry goes although a client with the same owner uses it.        *)
Release(c) ==
    /\ pc[c] = "in"
    /\ pc' = [pc EXCEPT ![c] = "out"]
    /\ IF Held /\ table.owner = Owner[c]
       THEN /\ table' = Free
            /\ lease' = [Ended("released") EXCEPT ![c] = Blank]
       ELSE /\ lease' = [lease EXCEPT ![c] = Blank]
            /\ UNCHANGED table
    /\ UNCHANGED patience

(* force_release() and clear(), by anybody. *)
ForceRelease ==
    /\ Held
    /\ table' = Free
    /\ lease' = Ended("forced")
    /\ UNCHANGED <<pc, patience>>

Drop ==
    /\ Held /\ Expired
    /\ table' = Free
    /\ lease' = Ended("late")
    /\ UNCHANGED <<pc, patience>>

(* is_locked() and get_lock_info(), by anybody. *)
Look == Drop

(* The cleanup thread. *)
CleanupExpired == Drop

Attempt(c) == Take(c) \/ Reenter(c) \/ Refuse(c) \/ WaitEnd(c)

Next ==
    \/ Tick
    \/ \E c \in Clients : Call(c) \/ Attempt(c) \/ Extend(c) \/ Release(c)
    \/ ForceRelease \/ Look \/ CleanupExpired

(* Time passes, and a thread in acquire() goes on. *)
Fairness ==
    /\ WF_vars(Tick)
    /\ \A c \in Clients : WF_vars(Attempt(c))

Safety == Init /\ [][Next]_vars

Spec == Safety /\ Fairness

-----------------------------------------------------------------------------
(* Properties *)

(* The lock as Lease specifies it: it goes from one owner to another only  *)
(* when the first one's lease is over.                                     *)
Abstract == INSTANCE Lease WITH holder <- IF Held /\ table.left >= 0 THEN table.owner ELSE None

ImplementsLease == Abstract!Spec

(* The lease of this client, as it reads it, has not expired. *)
Usable(c) == pc[c] = "in" /\ lease[c].left >= 0

(* Two clients with different owners never both have a lease that has not  *)
(* expired, however leases run out, are extended late and are taken over,  *)
(* unless one was taken away: by force, or by its own owner's release of   *)
(* another use of the lock.                                                *)
Exclusive ==
    \A c, d \in Clients :
        Usable(c) /\ Usable(d) /\ Owner[c] # Owner[d] =>
            {lease[c].ended, lease[d].ended} \cap {"released", "forced"} # {}

(* A lease that has expired stays expired, whoever extends or re-enters.   *)
NoRevival ==
    [][\A c \in Clients :
          pc[c] = "in" /\ ~Usable(c) => pc'[c] = "out" \/ lease'[c].left < 0]_vars

(* acquire() returns, whatever the others do. *)
AcquireReturns == \A c \in Clients : pc[c] \in {"try", "wait"} ~> pc[c] \in {"out", "in"}
=============================================================================
