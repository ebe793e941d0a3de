------------------------------ MODULE JobQueue -------------------------------
(***************************************************************************)
(* What the priority queue promises the scheduler, without heap, lazy      *)
(* deletion, locks or waiting: a job is in the queue at most once, it is   *)
(* handed out when it is due, the most urgent due job first, and a job     *)
(* that was handed out or removed is not handed out again.                 *)
(***************************************************************************)
EXTENDS Integers

CONSTANTS Jobs, Priorities, Horizon, None

VARIABLES
    items,   \* the queued entry of each job, or None
    closed,  \* no job is handed out any more
    now,
    out      \* the job the last step handed out, or None

vars == <<items, closed, now, out>>

Queued == {j \in Jobs : items[j] # None}

(* Priority, then due time, then order of arrival. *)
Precedes(e, f) ==
    \/ e.priority < f.priority
    \/ e.priority = f.priority /\ e.scheduled_time < f.scheduled_time
    \/ /\ e.priority = f.priority
       /\ e.scheduled_time = f.scheduled_time
       /\ e.insertion_order < f.insertion_order

Init ==
    /\ items = [j \in Jobs |-> None]
    /\ closed = FALSE
    /\ now = 0
    /\ out = None

(* A job enters behind those that are as urgent as it is. *)
Put(j) ==
    /\ j \notin Queued
    /\ items'[j] # None
    /\ items'[j].job_id = j
    /\ \A k \in Queued : items[k].insertion_order < items'[j].insertion_order
    /\ items' = [items EXCEPT ![j] = items'[j]]
    /\ out' = None
    /\ UNCHANGED <<closed, now>>

Take(j) ==
    /\ ~closed
    /\ j \in Queued
    /\ items[j].scheduled_time <= now
    /\ \A k \in Queued : items[k].scheduled_time <= now => ~Precedes(items[k], items[j])
    /\ items' = [items EXCEPT ![j] = None]
    /\ out' = j
    /\ UNCHANGED <<closed, now>>

Drop(j) ==
    /\ j \in Queued
    /\ items' = [items EXCEPT ![j] = None]
    /\ out' = None
    /\ UNCHANGED <<closed, now>>

Close == closed' = TRUE /\ out' = None /\ UNCHANGED <<items, now>>

Tick == now < Horizon /\ now' = now + 1 /\ out' = None /\ UNCHANGED <<items, closed>>

(* Anything that hands out no job and changes no queued one. *)
Quiet == out' = None /\ UNCHANGED <<items, closed, now>>

Next ==
    \/ \E j \in Jobs : Put(j) \/ Take(j) \/ Drop(j)
    \/ Close
    \/ Tick
    \/ Quiet

Spec == Init /\ [][Next]_vars
=============================================================================
