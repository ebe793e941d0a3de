------------------------------- MODULE Redlock -------------------------------
(***************************************************************************)
(* RedisLockManager (locking/redis_lock.py), for one resource.  The lock   *)
(* is a key on each of several Redis servers; a client acquires it by      *)
(* setting the key on its servers one after the other, and has it if a     *)
(* majority of them took it while there is still time left.                *)
(*                                                                         *)
(* Each call to a server is one action: SET NX PX and the two Lua scripts  *)
(* are atomic there.  A call may fail: then the client does not know       *)
(* whether the server carried it out.  A client may die between two calls. *)
(* Servers keep their keys until they expire.                              *)
(*                                                                         *)
(* A manager uses the servers that answered when it was created, so two    *)
(* managers may use different ones: `setup` says which, and stays.         *)
(*                                                                         *)
(* Time passes in ticks; the time left of a key is 0 once the server has   *)
(* dropped it, that of a lease is -1 once its expires_at has passed.       *)
(* acquire() reads the clock twice, for the time that is left and for      *)
(* expires_at, and the client may pause between the two.  Every call has a *)
(* ttl of its own.  The drift, which grows with the ttl, is one number.    *)
(* How many attempts acquire() makes is left open.                         *)
(***************************************************************************)
EXTENDS Integers, FiniteSets

CONSTANTS
    Servers,     \* 1 .. n, in the order of redis_urls
    Clients,
    Owners,
    Setups,      \* the clients' servers and owners, the times, the use of force
    None

ASSUME RedlockAssumption ==
    /\ IsFiniteSet(Servers) /\ Servers \subseteq Nat
    /\ \A u \in Setups :
          /\ u.manager \in [Clients -> [servers : SUBSET Servers, owner : Owners]]
          /\ u.times.ttl \in Nat /\ u.times.drift \in Nat /\ u.times.early \in Nat
          /\ u.times.calls \subseteq 0 .. u.times.ttl
          /\ u.force \in BOOLEAN
          /\ u.times.early < u.times.drift
          /\ u.times.drift <= u.times.ttl
    /\ None \notin Owners

VARIABLES
    setup,   \* the manager and owner each client uses, and the times
    key,     \* the key on each server: its owner and the time left
    pc,      \* "out", "set", "undo", "retry", "grant", "in", "extend", "release"
    ttl,     \* the ttl of the client's acquire() or extend(), 0 outside of them
    todo,    \* the servers the loop has still to call
    got,     \* the servers that have answered the loop's calls with success
    age,     \* ticks since start_time, TooLate if more
    left,    \* the time left of the client's lease
    pause,   \* ticks between the two readings of the clock, Drift if more, as
             \* long as the lease has not run out
    weakened \* history: a key of this client's owner has been deleted by
             \* somebody else, or shortened by extend()

vars == <<setup, key, pc, ttl, todo, got, age, left, pause, weakened>>

Absent == [owner |-> None, left |-> 0]

Mine(c) == setup.manager[c].servers

Owner(c) == setup.manager[c].owner

Ttl == setup.times.ttl      \* the longest ttl, in ticks

Calls == setup.times.calls  \* the ttls that the clients' calls have

Drift == setup.times.drift  \* what acquire() subtracts for the drift of clocks

Early == setup.times.early  \* how much too early a server may drop a key

(* Mutant: half of the servers are enough. *)
QuorumHalf(S) == (Cardinality(S) + 1) \div 2

Quorum(S) == Cardinality(S) \div 2 + 1

(* The time by which a lease has no time left when it is obtained. *)
TooLate == Ttl - Drift + 1

Redundant(c) == Cardinality(Mine(c)) > 1

TypeOK ==
    /\ setup \in Setups
    /\ key \in [Servers -> [owner : Owners, left : 1 .. Ttl] \cup {Absent}]
    /\ pc \in [Clients -> {"out", "set", "undo", "retry", "grant", "in", "extend", "release"}]
    /\ ttl \in [Clients -> 0 .. Ttl]
    /\ todo \in [Clients -> SUBSET Servers]
    /\ got \in [Clients -> SUBSET Servers]
    /\ age \in [Clients -> 0 .. TooLate]
    /\ left \in [Clients -> -1 .. Ttl]
    /\ pause \in [Clients -> 0 .. Drift]
    /\ weakened \in [Clients -> BOOLEAN]
    /\ \A c \in Clients : todo[c] \cup got[c] \subseteq Mine(c)
    /\ \A c \in Clients : pc[c] \in {"set", "undo", "retry"} => ttl[c] > 0

Init ==
    /\ setup \in Setups
    /\ key = [s \in Servers |-> Absent]
    /\ pc = [c \in Clients |-> "out"]
    /\ ttl = [c \in Clients |-> 0]
    /\ todo = [c \in Clients |-> {}]
    /\ got = [c \in Clients |-> {}]
    /\ age = [c \in Clients |-> 0]
    /\ left = [c \in Clients |-> -1]
    /\ pause = [c \in Clients |-> 0]
    /\ weakened = [c \in Clients |-> FALSE]

-----------------------------------------------------------------------------
(* A server whose clock runs fast drops a key too early. *)
Tick ==
    /\ \E fast \in SUBSET {s \in Servers : key[s].left \in 2 .. Early + 1} :
          key' = [s \in Servers |->
                     IF key[s].left <= 1 \/ s \in fast THEN Absent
                     ELSE [key[s] EXCEPT !.left = @ - 1]]
    /\ age' = [c \in Clients |->
                  IF pc[c] \in {"set", "extend"} /\ age[c] < TooLate THEN age[c] + 1 ELSE age[c]]
    /\ left' = [c \in Clients |->
                   IF pc[c] # "grant" /\ left[c] >= 0 THEN left[c] - 1 ELSE left[c]]
    /\ pause' = [c \in Clients |->
                    IF pc[c] = "grant" THEN IF pause[c] < Drift THEN pause[c] + 1 ELSE Drift
                    ELSE IF left[c] > 0 THEN pause[c] ELSE 0]
    /\ UNCHANGED <<setup, pc, ttl, todo, got, weakened>>

-----------------------------------------------------------------------------
(* The loops `for client in self._clients`. *)

Enter(c, loop) ==
    /\ pc' = [pc EXCEPT ![c] = loop]
    /\ todo' = [todo EXCEPT ![c] = Mine(c)]
    /\ got' = [got EXCEPT ![c] = {}]
    /\ age' = [age EXCEPT ![c] = 0]

Leave(c, next) ==
    /\ todo[c] = {}
    /\ pc' = [pc EXCEPT ![c] = next]
    /\ got' = [got EXCEPT ![c] = {}]
    /\ age' = [age EXCEPT ![c] = 0]
    /\ UNCHANGED todo

(* The next server is s. *)
Visits(c, s) == s \in todo[c] /\ \A t \in todo[c] : s <= t

(* c goes on to the next server. *)
Pass(c, s) ==
    /\ Visits(c, s)
    /\ todo' = [todo EXCEPT ![c] = @ \ {s}]
    /\ UNCHANGED <<setup, pc, ttl, age, left, pause>>

(* The call returns and says that the command took effect; or it raises,   *)
(* although the server has carried the command out.                        *)
Heard(c, s) ==
    \/ got' = [got EXCEPT ![c] = @ \cup {s}]
    \/ UNCHANGED got

(* It raises, and has had no effect. *)
Unheard(c, s) ==
    /\ Pass(c, s)
    /\ UNCHANGED <<key, got, weakened>>

(* An attempt to acquire the lock for time t starts. *)
Attempt(c, t) ==
    /\ Enter(c, "set")
    /\ ttl' = [ttl EXCEPT ![c] = t]
    /\ weakened' = [weakened EXCEPT ![c] = FALSE]
    /\ UNCHANGED <<setup, key, left, pause>>

Acquire(c) ==
    /\ pc[c] = "out"
    /\ \E t \in Calls \ {0} : Attempt(c, t)

(* SET NX PX *)
SetKey(c, s) ==
    /\ pc[c] = "set"
    /\ Pass(c, s)
    /\ IF key[s] = Absent
       THEN /\ key' = [key EXCEPT ![s] = [owner |-> Owner(c), left |-> ttl[c]]]
            /\ Heard(c, s)
       ELSE UNCHANGED <<key, got>>
    /\ UNCHANGED weakened

Majority(c) == Cardinality(got[c]) >= Quorum(Mine(c))

(* What is left of the ttl since the loop began, less the drift. *)
Validity(c) == ttl[c] - age[c] - Drift

(* The client knows that v is left. *)
Learns(c, next, v) ==
    /\ Leave(c, next)
    /\ ttl' = [ttl EXCEPT ![c] = 0]
    /\ left' = [left EXCEPT ![c] = v]
    /\ pause' = [pause EXCEPT ![c] = 0]
    /\ UNCHANGED <<setup, key, weakened>>

(* Mutant: neither the time spent nor the drift is looked at. *)
AcquiredLongAgo(c) ==
    /\ pc[c] = "set"
    /\ Majority(c)
    /\ Learns(c, "grant", ttl[c])

(* A quorum, and there is time left, as the clock is read first. *)
Acquired(c) ==
    /\ pc[c] = "set"
    /\ Majority(c)
    /\ Validity(c) > 0
    /\ Learns(c, "grant", Validity(c))

(* acquire() returns a LockInfo: the time left counts from the second      *)
(* reading of the clock.                                                   *)
Granted(c) ==
    /\ pc[c] = "grant"
    /\ pc' = [pc EXCEPT ![c] = "in"]
    /\ UNCHANGED <<setup, key, ttl, todo, got, age, left, pause, weakened>>

(* No quorum, or too late: _release_all, except that an attempt on a       *)
(* single server that was refused has nothing to release.                  *)
NotAcquired(c) ==
    /\ pc[c] = "set" /\ todo[c] = {}
    /\ Majority(c) => Validity(c) <= 0
    /\ IF Majority(c) \/ Redundant(c) THEN Enter(c, "undo") ELSE Leave(c, "retry")
    /\ UNCHANGED <<setup, key, ttl, left, pause, weakened>>

(* Mutant: the script deletes the key whoever owns it. *)
DeleteKeyAnyones(c, s) ==
    /\ pc[c] \in {"undo", "release"}
    /\ Pass(c, s)
    /\ key' = [key EXCEPT ![s] = Absent]
    /\ UNCHANGED <<got, weakened>>

(* Those of the clients D that use the name o have lost a key, or a part   *)
(* of its time.                                                            *)
Weakens(o, D) ==
    weakened' = [d \in Clients |->
                    weakened[d] \/ (d \in D /\ Owner(d) = o /\ pc[d] # "out")]

(* RELEASE_SCRIPT: the key goes if its owner is c's, also one that another *)
(* client with this owner has set.  Answers are not looked at.             *)
DeleteKey(c, s) ==
    /\ pc[c] \in {"undo", "release"}
    /\ Pass(c, s)
    /\ IF key[s].owner = Owner(c)
       THEN /\ key' = [key EXCEPT ![s] = Absent]
            /\ Weakens(Owner(c), Clients \ {c})
       ELSE UNCHANGED <<key, weakened>>
    /\ UNCHANGED got

Undone(c) ==
    /\ pc[c] = "undo"
    /\ Leave(c, "retry")
    /\ UNCHANGED <<setup, key, ttl, left, pause, weakened>>

(* The next attempt. *)
Retry(c) ==
    /\ pc[c] = "retry"
    /\ Attempt(c, ttl[c])

Gone(c) ==
    /\ pc' = [pc EXCEPT ![c] = "out"]
    /\ ttl' = [ttl EXCEPT ![c] = 0]
    /\ todo' = [todo EXCEPT ![c] = {}]
    /\ got' = [got EXCEPT ![c] = {}]
    /\ age' = [age EXCEPT ![c] = 0]
    /\ left' = [left EXCEPT ![c] = -1]
    /\ pause' = [pause EXCEPT ![c] = 0]
    /\ weakened' = [weakened EXCEPT ![c] = FALSE]
    /\ UNCHANGED <<setup, key>>

(* acquire() returns None: that was the last attempt, or the deadline has  *)
(* passed.                                                                 *)
GiveUp(c) ==
    /\ pc[c] = "retry"
    /\ Gone(c)

-----------------------------------------------------------------------------
(* extend() for a time of its own: longer or shorter than what is left, or *)
(* less than a millisecond, which is none.                                 *)
Extend(c) ==
    /\ pc[c] = "in"
    /\ \E t \in Calls : ttl' = [ttl EXCEPT ![c] = t]
    /\ Enter(c, "extend")
    /\ UNCHANGED <<setup, key, left, pause, weakened>>

(* EXTEND_SCRIPT: PEXPIRE, which deletes the key if there is no time. *)
ExtendKey(c, s) ==
    /\ pc[c] = "extend"
    /\ Pass(c, s)
    /\ IF key[s].owner = Owner(c)
       THEN /\ key' = [key EXCEPT ![s] = IF ttl[c] = 0 THEN Absent
                                         ELSE [owner |-> Owner(c), left |-> ttl[c]]]
            /\ Heard(c, s)
            /\ Weakens(Owner(c), IF ttl[c] < key[s].left THEN Clients ELSE {})
       ELSE UNCHANGED <<key, got, weakened>>

(* extend() says True if a quorum was extended.  It gives no new time, and *)
(* expires_at of the LockInfo stays: the client counts the ttl from its    *)
(* call, less the drift, as acquire() does, when that is more.             *)
Extended(c) ==
    /\ pc[c] = "extend"
    /\ IF Majority(c) /\ Validity(c) > left[c]
       THEN Learns(c, "in", Validity(c))
       ELSE /\ Leave(c, "in")
            /\ ttl' = [ttl EXCEPT ![c] = 0]
            /\ UNCHANGED <<setup, key, left, pause, weakened>>

(* release(), whether or not the lease has run out meanwhile. *)
Release(c) ==
    /\ pc[c] = "in"
    /\ Enter(c, "release")
    /\ left' = [left EXCEPT ![c] = -1]
    /\ pause' = [pause EXCEPT ![c] = 0]
    /\ UNCHANGED <<setup, key, ttl, weakened>>

Released(c) ==
    /\ pc[c] = "release" /\ todo[c] = {}
    /\ Gone(c)

(* The client dies; its keys stay. *)
Crash(c) ==
    /\ pc[c] # "out"
    /\ Gone(c)

(* force_release(), by somebody, one server at a time. *)
ForceRelease(s) ==
    /\ setup.force
    /\ key[s] # Absent
    /\ key' = [key EXCEPT ![s] = Absent]
    /\ Weakens(key[s].owner, Clients)
    /\ UNCHANGED <<setup, pc, ttl, todo, got, age, left, pause>>

-----------------------------------------------------------------------------
Step(c) ==
    \/ \E s \in Servers : SetKey(c, s) \/ DeleteKey(c, s) \/ ExtendKey(c, s) \/ Unheard(c, s)
    \/ Acquired(c) \/ Granted(c) \/ NotAcquired(c) \/ Undone(c) \/ Retry(c) \/ GiveUp(c)
    \/ Extended(c) \/ Released(c)

Next ==
    \/ Tick
    \/ \E s \in Servers : ForceRelease(s)
    \/ \E c \in Clients : Acquire(c) \/ Step(c) \/ Extend(c) \/ Release(c) \/ Crash(c)

Spec == Init /\ [][Next]_vars

-----------------------------------------------------------------------------
(* Properties *)

(* The pause between the two readings was shorter than what drift leaves   *)
(* when a server has dropped the key as early as it may.                   *)
Punctual(c) == pause[c] + Early < Drift

(* The client may rely on the lock: its lease has not run out, acquire()   *)
(* was punctual, and nobody has deleted its keys, by force or in the name  *)
(* of its owner, or shortened them by extend().                            *)
Usable(c) == pc[c] \in {"in", "extend"} /\ left[c] >= 0 /\ Punctual(c) /\ ~weakened[c]

Majorities(S) == {Q \in SUBSET S : 2 * Cardinality(Q) > Cardinality(S)}

(* Any majority of c's servers meets any majority of d's. *)
MajoritiesMeet(c, d) ==
    \A P \in Majorities(Mine(c)), Q \in Majorities(Mine(d)) : P \cap Q # {}

(* A lease is backed by its keys: as long as it has time left, a majority  *)
(* of its servers have the client's key, with as much more time left as    *)
(* the drift, less the pause: whichever calls failed or were repeated,     *)
(* whatever was extended, and whoever died half-way.                       *)
Backed ==
    \A c \in Clients : Usable(c) =>
        \E Q \in Majorities(Mine(c)) :
            \A s \in Q : key[s].owner = Owner(c) /\ key[s].left >= left[c] + Drift - pause[c]

(* Two clients of different owners never rely on the lock at the same      *)
(* time, unless their managers use servers of which majorities can miss    *)
(* each other: as a manager counts only the servers that answered when it  *)
(* was created, two of them may.                                           *)
Exclusive ==
    \A c, d \in Clients :
        Usable(c) /\ Usable(d) /\ MajoritiesMeet(c, d) => Owner(c) = Owner(d)

AllMeet == \A c, d \in Clients : MajoritiesMeet(c, d)

(* The lock as Lease specifies it, where all majorities meet. *)
Abstract ==
    INSTANCE Lease WITH holder <-
        IF (\E c \in Clients : Usable(c)) /\ AllMeet
        THEN Owner(CHOOSE c \in Clients : Usable(c)) ELSE None

ImplementsLease == Abstract!Spec
=============================================================================
