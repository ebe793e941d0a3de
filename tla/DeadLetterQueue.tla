--------------------------- MODULE DeadLetterQueue ---------------------------
(***************************************************************************)
(* The dead letter queue (scheduler/dlq.py): the entries of failed jobs    *)
(* and the index that finds an entry by the id of its job.  Every          *)
(* operation holds the queue's lock, except that requeue() gives the lock  *)
(* up while it calls scheduler.submit(), and takes it again to put the     *)
(* entry back when the scheduler refuses.                                  *)
(*                                                                         *)
(* Letters are added by Scheduler.fail_job, for a job it has just moved to *)
(* FAILED.  The scheduler that requeue() is given is any scheduler: it     *)
(* accepts or refuses.  Entry ids grow with added_at, so the oldest entry  *)
(* is the one with the least id, and the expired entries are those older   *)
(* than some cut-off.  Callbacks of add() are left out.                    *)
(***************************************************************************)
EXTENDS Integers, FiniteSets

CONSTANTS
    Jobs,
    Clients,     \* threads that call requeue(..., scheduler)
    MaxEntries,  \* max_entries, 0 for unlimited
    MaxAdds,     \* bound: calls of add()
    None

ASSUME DeadLetterAssumption ==
    /\ IsFiniteSet(Clients)
    /\ MaxEntries \in Nat
    /\ MaxAdds \in Nat
    /\ None \notin Nat

VARIABLES
    entries,  \* _entries
    index,    \* _job_index: the entry id of a job, None when it has none
    nextId,   \* the id add() draws next
    state,    \* job.state: SCHEDULED stands for every state in a scheduler
    taken,    \* the entry a client's requeue() has taken out, None outside
    ended     \* history: ids of entries that were dealt with or dropped

vars == <<entries, index, nextId, state, taken, ended>>

Entry == [id : Nat, job : Jobs, status : {"PENDING", "REQUEUED", "RESOLVED"}]

NoEntry == [id |-> None]

Out(c) == taken[c] # NoEntry

TypeOK ==
    /\ entries \subseteq Entry
    /\ index \in [Jobs -> Nat \cup {None}]
    /\ nextId \in Nat \ {0}
    /\ state \in [Jobs -> {"SCHEDULED", "FAILED", "PENDING"}]
    /\ taken \in [Clients -> Entry \cup {NoEntry}]
    /\ ended \subseteq Nat

Init ==
    /\ entries = {}
    /\ index = [j \in Jobs |-> None]
    /\ nextId = 1
    /\ state = [j \in Jobs |-> "SCHEDULED"]
    /\ taken = [c \in Clients |-> NoEntry]
    /\ ended = {}

-----------------------------------------------------------------------------
(* Mutant: the index keeps the jobs of removed entries. *)
WithoutKeeps(idx, removed) == idx

(* _remove_entry, for the index: the jobs of the removed entries go.       *)
Without(idx, removed) ==
    [j \in Jobs |-> IF \E e \in removed : e.job = j THEN None ELSE idx[j]]

Ids(S) == {e.id : e \in S}

Full == MaxEntries # 0 /\ Cardinality(entries) >= MaxEntries

(* _evict_oldest *)
Evicted == IF Full THEN {e \in entries : \A f \in entries : e.id <= f.id} ELSE {}

(* What cleanup_expired may find expired: all that is older than a cut-off.*)
Expirable(S) == {{e \in S : e.id < k} : k \in Ids(S) \cup {nextId}}

(* Mutant: a full queue does not evict. *)
AddNoEviction(j) ==
    /\ state[j] = "SCHEDULED"
    /\ nextId <= MaxAdds
    /\ entries' = entries \cup {[id |-> nextId, job |-> j, status |-> "PENDING"]}
    /\ index' = [index EXCEPT ![j] = nextId]
    /\ state' = [state EXCEPT ![j] = "FAILED"]
    /\ nextId' = nextId + 1
    /\ UNCHANGED <<taken, ended>>

(* fail_job: RUNNING -> FAILED, then add(): evict the oldest entry of a    *)
(* full queue, store the new one, and with auto_cleanup drop what expired. *)
Add(j) ==
    /\ state[j] = "SCHEDULED"
    /\ nextId <= MaxAdds
    /\ state' = [state EXCEPT ![j] = "FAILED"]
    /\ nextId' = nextId + 1
    /\ \E expired \in Expirable(entries \ Evicted) :
          /\ entries' = ((entries \ Evicted) \ expired)
                        \cup {[id |-> nextId, job |-> j, status |-> "PENDING"]}
          /\ index' = Without([Without(index, Evicted) EXCEPT ![j] = nextId], expired)
          /\ ended' = ended \cup Ids(Evicted \cup expired)
    /\ UNCHANGED taken

(* The entry is removed for good: discard(), resolve() and the requeue()   *)
(* that hands the job to its caller.                                       *)
Remove(e) ==
    /\ e \in entries
    /\ entries' = entries \ {e}
    /\ index' = Without(index, {e})
    /\ ended' = ended \cup {e.id}

Discard(e) == Remove(e) /\ UNCHANGED <<nextId, state, taken>>

Resolve(e) == Remove(e) /\ UNCHANGED <<nextId, state, taken>>

(* resolve(keep_in_history=True): only the status changes. *)
ResolveKeep(e) ==
    /\ e \in entries
    /\ entries' = (entries \ {e}) \cup {[e EXCEPT !.status = "RESOLVED"]}
    /\ UNCHANGED <<index, nextId, state, taken, ended>>

(* requeue() without a scheduler. *)
RequeueReturn(e) ==
    /\ Remove(e)
    /\ state' = [state EXCEPT ![e.job] = "PENDING"]
    /\ UNCHANGED <<nextId, taken>>

(* The caller submits the job it was given. *)
SubmitReturned(j) ==
    /\ state[j] = "PENDING"
    /\ \A e \in entries : e.job # j
    /\ \A c \in Clients : Out(c) => taken[c].job # j
    /\ state' = [state EXCEPT ![j] = "SCHEDULED"]
    /\ UNCHANGED <<entries, index, nextId, taken, ended>>

(* Mutant: the entry stays in the queue until the scheduler has accepted.  *)
RequeueTakeLate(c, e) ==
    /\ ~Out(c)
    /\ e \in entries
    /\ state' = [state EXCEPT ![e.job] = "PENDING"]
    /\ taken' = [taken EXCEPT ![c] = [e EXCEPT !.status = "REQUEUED"]]
    /\ UNCHANGED <<entries, index, nextId, ended>>

(* requeue() with a scheduler, up to the call of submit(): whatever the    *)
(* status of the entry, it is taken out and its job is PENDING again.      *)
RequeueTake(c, e) ==
    /\ ~Out(c)
    /\ e \in entries
    /\ entries' = entries \ {e}
    /\ index' = Without(index, {e})
    /\ state' = [state EXCEPT ![e.job] = "PENDING"]
    /\ taken' = [taken EXCEPT ![c] = [e EXCEPT !.status = "REQUEUED"]]
    /\ UNCHANGED <<nextId, ended>>

(* submit() returns. *)
RequeueAccepted(c) ==
    /\ Out(c)
    /\ state' = [state EXCEPT ![taken[c].job] = "SCHEDULED"]
    /\ taken' = [taken EXCEPT ![c] = NoEntry]
    /\ ended' = ended \cup {taken[c].id}
    /\ UNCHANGED <<entries, index, nextId>>

(* Mutant: the entry is not put back. *)
RequeueRefusedDrops(c) ==
    /\ Out(c)
    /\ taken' = [taken EXCEPT ![c] = NoEntry]
    /\ UNCHANGED <<entries, index, nextId, state, ended>>

(* submit() raises: _register_entry puts the entry back, with the status   *)
(* REQUEUED, whatever the size of the queue.                               *)
RequeueRefused(c) ==
    /\ Out(c)
    /\ entries' = entries \cup {taken[c]}
    /\ index' = [index EXCEPT ![taken[c].job] = taken[c].id]
    /\ taken' = [taken EXCEPT ![c] = NoEntry]
    /\ UNCHANGED <<nextId, state, ended>>

(* cleanup_expired, from the cleanup thread. *)
CleanupExpired ==
    \E expired \in Expirable(entries) :
        /\ entries' = entries \ expired
        /\ index' = Without(index, expired)
        /\ ended' = ended \cup Ids(expired)
        /\ UNCHANGED <<nextId, state, taken>>

Next ==
    \/ \E j \in Jobs : Add(j) \/ SubmitReturned(j)
    \/ \E e \in entries :
          \/ Discard(e) \/ Resolve(e) \/ ResolveKeep(e) \/ RequeueReturn(e)
          \/ \E c \in Clients : RequeueTake(c, e)
    \/ \E c \in Clients : RequeueAccepted(c) \/ RequeueRefused(c)
    \/ CleanupExpired

Spec == Init /\ [][Next]_vars

-----------------------------------------------------------------------------
(* Properties *)

(* The two dictionaries agree: every entry is found by the id of its job,  *)
(* and the index points at an entry of that job, whatever add(), eviction, *)
(* expiry and the late return of a refused entry do to each other.         *)
IndexAgrees ==
    /\ \A e \in entries : index[e.job] = e.id
    /\ \A j \in Jobs : index[j] # None => \E e \in entries : e.job = j /\ e.id = index[j]

(* A job is in one place: one that has a dead letter, in the queue or in   *)
(* the hands of a requeue(), is in no scheduler, and no two calls of       *)
(* requeue() submit the same job.  A letter that says PENDING (nobody has  *)
(* dealt with it) is of a job that is still failed.                        *)
DeadOrAlive ==
    /\ \A e \in entries :
          /\ state[e.job] # "SCHEDULED"
          /\ e.status = "PENDING" => state[e.job] = "FAILED"
    /\ \A c \in Clients : Out(c) =>
          /\ state[taken[c].job] = "PENDING"
          /\ \A e \in entries : e.job # taken[c].job
          /\ \A d \in Clients : Out(d) /\ taken[d].job = taken[c].job => c = d

(* The queue stays within max_entries, but for the entries that refused    *)
(* requeues put back: at most one for each client that ever calls it.      *)
SizeBounded ==
    MaxEntries # 0 =>
        Cardinality(entries) <= MaxEntries + Cardinality({c \in Clients : ~Out(c)})

(* No dead letter gets lost: it is in the queue, or in the hands of a      *)
(* requeue(), or it was discarded, resolved, requeued, evicted or expired. *)
LettersAccounted ==
    1 .. nextId - 1 =
        Ids(entries) \cup ended \cup {taken[c].id : c \in {d \in Clients : Out(d)}}
=============================================================================
