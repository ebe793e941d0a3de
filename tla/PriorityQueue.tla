---------------------------- MODULE PriorityQueue ----------------------------
(***************************************************************************)
(* ThreadSafePriorityQueue (job_orchestrator/queue/priority_queue.py).     *)
(*                                                                         *)
(* The queue keeps three structures that must agree: a heap of entries, a  *)
(* dictionary from job ids to their newest entry, and a set of tombstones  *)
(* (ids removed lazily, whose heap entry is still there).  Every operation *)
(* runs under one RLock and is one action here.  pop() alone gives the     *)
(* lock up, in Condition.wait(); so a call of pop() is one action up to    *)
(* its first wait, and one more action for each time it wakes up.  It can  *)
(* also go round its loop WITHOUT giving the lock up: such a consumer is   *)
(* "spin"ning, and nobody else can enter the queue.                        *)
(*                                                                         *)
(* Abstractions.  The heap is the set of its entries: insertion_order is   *)
(* unique, so the comparison is total and heap[0] is the least entry.      *)
(* Timestamps are ticks 0 .. Horizon of a clock that stops at Horizon,     *)
(* which stands for every later instant.  The clock is read once per loop  *)
(* round of pop().  A Job is its id: its priority and time are those of    *)
(* its newest entry, which is where push, update_priority and reschedule   *)
(* write them.                                                             *)
(***************************************************************************)
EXTENDS Integers, FiniteSets

CONSTANTS
    Jobs,        \* job ids
    Priorities,  \* values of JobPriority, lower is more urgent
    Consumers,   \* threads that call pop()
    Timeouts,    \* the timeouts they pass; None blocks
    MaxSize,     \* max_size, 0 for unlimited (priority_queue.py:77)
    Horizon,     \* bound: last tick of the clock
    MaxInsert,   \* bound: entries created since the last clear()
    None         \* Python's None

ASSUME QueueAssumption ==
    /\ IsFiniteSet(Jobs)
    /\ Priorities \subseteq Nat
    /\ Timeouts \subseteq Nat \cup {None}
    /\ MaxSize \in Nat
    /\ Horizon \in Nat
    /\ MaxInsert \in Nat
    /\ None \notin Jobs
    /\ None \notin Nat

VARIABLES
    heap,        \* _heap, as a set of entries
    entry_map,   \* _entry_map: the newest entry of each job, or None
    removed,     \* _removed: the tombstones
    counter,     \* _counter
    shutdown,    \* _shutdown
    now,         \* time.time()
    pops,        \* what each consumer's call of pop() is doing
    ret          \* operation that ran last, and the job it was about or returned

index == <<heap, entry_map, removed>>
vars  == <<heap, entry_map, removed, counter, shutdown, now, pops, ret>>

Times == 0 .. Horizon

(* QueueEntry; the job field is job_id. *)
QueueEntry == [priority        : Priorities,
               scheduled_time  : Times,
               insertion_order : Nat,
               job_id          : Jobs]

(* A missing key of the dictionary. *)
NoEntry == None

ASSUME NoneIsNoEntry == NoEntry \notin QueueEntry

Idle == [pc |-> "idle", wakeAt |-> 0, deadline |-> None, notified |-> FALSE]

PopState == [pc       : {"idle", "wait", "spin"},
             wakeAt   : Times,
             deadline : Times \cup {None},
             notified : BOOLEAN]

Operations == {"init", "push", "full", "pop", "wait", "peek", "peek_ready",
               "next_time", "remove", "update", "clear", "shutdown", "tick"}

TypeOK ==
    /\ heap \subseteq QueueEntry
    /\ entry_map \in [Jobs -> QueueEntry \cup {NoEntry}]
    /\ removed \subseteq Jobs
    /\ counter \in Nat
    /\ shutdown \in BOOLEAN
    /\ now \in Times
    /\ pops \in [Consumers -> PopState]
    /\ ret \in [op : Operations, job : Jobs \cup {None}]

-----------------------------------------------------------------------------
(* The order of entries and the two walks over the heap.                   *)

(* @dataclass(order=True): lexicographic. *)
Before(e, f) ==
    \/ e.priority < f.priority
    \/ /\ e.priority = f.priority
       /\ \/ e.scheduled_time < f.scheduled_time
          \/ /\ e.scheduled_time = f.scheduled_time
             /\ e.insertion_order < f.insertion_order

JobIds(entries) == {e.job_id : e \in entries}

Mapped == {j \in Jobs : entry_map[j] # NoEntry}

(* What contains(), get() and __iter__() take for being in the queue. *)
Live == Mapped \ removed

(* __len__: a difference of two sizes, not the size of a difference. *)
QueueLen == Cardinality(Mapped) - Cardinality(removed)

Full == MaxSize # 0 /\ QueueLen >= MaxSize

(* The structures a walk rewrites, as one value. *)
Index == [heap |-> heap, entry_map |-> entry_map, removed |-> removed]

SetIndex(q) ==
    /\ heap' = q.heap
    /\ entry_map' = q.entry_map
    /\ removed' = q.removed

(* A walk meets the entries in heap order and drops an entry whose job has *)
(* a tombstone; dropping it lifts the tombstone, so only the job's first   *)
(* entry in heap order is dropped.                                         *)
Stale(q, e) ==
    /\ e.job_id \in q.removed
    /\ \A f \in q.heap : f.job_id = e.job_id => ~Before(f, e)

(* Mutant: the walk leaves the dictionary as it is. *)
DiscardKeepsMap(q, S) ==
    [heap      |-> q.heap \ {e \in S : Stale(q, e)},
     entry_map |-> q.entry_map,
     removed   |-> q.removed \ JobIds(S)]

(* The queue after a walk over S, a prefix of the heap. *)
Discard(q, S) ==
    LET lifted == q.removed \cap JobIds(S)
    IN  [heap      |-> q.heap \ {e \in S : Stale(q, e)},
         entry_map |-> [j \in Jobs |-> IF j \in lifted THEN NoEntry
                                                       ELSE q.entry_map[j]],
         removed   |-> q.removed \ lifted]

(* _cleanup_removed: drop stale entries as long as the top is one. *)
CleanupRemoved(q) ==
    Discard(q, {e \in q.heap : \A f \in q.heap : ~Before(e, f) => Stale(q, f)})

(* Mutants: the scheduled time, or the tombstone, is not looked at. *)
ReadyBeforeTime(q) == {e \in q.heap : ~Stale(q, e)}

ReadyThoughRemoved(q) == {e \in q.heap : e.scheduled_time <= now}

(* Entries _get_ready_job would stop at. *)
Ready(q) == {e \in q.heap : ~Stale(q, e) /\ e.scheduled_time <= now}

First(S) == {e \in S : \A f \in S : ~Before(f, e)}

(* Mutant: the job stays in the dictionary. *)
TakeReadyKeepsMap(q, r) ==
    LET w == Discard(q, {e \in q.heap : Before(e, r)})
    IN  [w EXCEPT !.heap = @ \ {r}]

(* _get_ready_job stopping at r: what lies before r was walked over, and r *)
(* leaves the heap and the dictionary (even when the dictionary already    *)
(* has a newer entry of the job).                                          *)
TakeReady(q, r) ==
    LET w == Discard(q, {e \in q.heap : Before(e, r)})
    IN  [heap      |-> w.heap \ {r},
         entry_map |-> [w.entry_map EXCEPT ![r.job_id] = NoEntry],
         removed   |-> w.removed]

-----------------------------------------------------------------------------
Init ==
    /\ heap = {}
    /\ entry_map = [j \in Jobs |-> NoEntry]
    /\ removed = {}
    /\ counter = 0
    /\ shutdown = FALSE
    /\ now = 0
    /\ pops = [c \in Consumers |-> Idle]
    /\ ret = [op |-> "init", job |-> None]

(* The RLock is free between actions, unless a pop() spins with it. *)
LockFree == \A c \in Consumers : pops[c].pc # "spin"

Returns(op, j) == ret' = [op |-> op, job |-> j]

Waiters == {c \in Consumers : pops[c].pc = "wait" /\ ~pops[c].notified}

(* Condition.notify() *)
Notify ==
    IF Waiters = {} THEN UNCHANGED pops
    ELSE \E c \in Waiters : pops' = [pops EXCEPT ![c].notified = TRUE]

(* Condition.notify_all() *)
NotifyAll ==
    pops' = [c \in Consumers |-> IF c \in Waiters
                                 THEN [pops[c] EXCEPT !.notified = TRUE]
                                 ELSE pops[c]]

(* Mutant: the old entry is marked as removed and the mark is left. *)
InsertKeepsTombstone(j, p, t) ==
    LET e == [priority |-> p, scheduled_time |-> t,
              insertion_order |-> counter, job_id |-> j]
    IN  /\ counter < MaxInsert
        /\ heap' = heap \cup {e}
        /\ entry_map' = [entry_map EXCEPT ![j] = e]
        /\ removed' = IF j \in Mapped THEN removed \cup {j} ELSE removed
        /\ counter' = counter + 1

(* A new heap entry for j, which the dictionary then points to; a          *)
(* tombstone of j, set here or earlier, is lifted.                         *)
Insert(j, p, t) ==
    LET e == [priority |-> p, scheduled_time |-> t,
              insertion_order |-> counter, job_id |-> j]
    IN  /\ counter < MaxInsert
        /\ heap' = heap \cup {e}
        /\ entry_map' = [entry_map EXCEPT ![j] = e]
        /\ removed' = removed \ {j}
        /\ counter' = counter + 1

(* push: False when full, whether or not the job is queued already. *)
Push(j, p, t) ==
    /\ LockFree
    /\ ~Full
    /\ Insert(j, p, t)
    /\ Notify
    /\ Returns("push", j)
    /\ UNCHANGED <<shutdown, now>>

PushFull(j) ==
    /\ LockFree
    /\ Full
    /\ Returns("full", j)
    /\ UNCHANGED <<heap, entry_map, removed, counter, shutdown, now, pops>>

(* remove: a tombstone only. *)
Remove(j) ==
    /\ LockFree
    /\ j \in Live
    /\ removed' = removed \cup {j}
    /\ Returns("remove", j)
    /\ UNCHANGED <<heap, entry_map, counter, shutdown, now, pops>>

(* update_priority: no notification. *)
UpdatePriority(j, p) ==
    /\ LockFree
    /\ j \in Live
    /\ Insert(j, p, entry_map[j].scheduled_time)
    /\ Returns("update", j)
    /\ UNCHANGED <<shutdown, now, pops>>

Reschedule(j, t) ==
    /\ LockFree
    /\ j \in Live
    /\ Insert(j, entry_map[j].priority, t)
    /\ NotifyAll
    /\ Returns("update", j)
    /\ UNCHANGED <<shutdown, now>>

Clear ==
    /\ LockFree
    /\ heap' = {}
    /\ entry_map' = [j \in Jobs |-> NoEntry]
    /\ removed' = {}
    /\ counter' = 0
    /\ Returns("clear", None)
    /\ UNCHANGED <<shutdown, now, pops>>

(* The reading operations clean the top of the heap first. *)
Peek ==
    /\ LockFree
    /\ LET q == CleanupRemoved(Index)
       IN  /\ SetIndex(q)
           /\ \/ q.heap = {} /\ Returns("peek", None)
              \/ \E e \in First(q.heap) : Returns("peek", e.job_id)
    /\ UNCHANGED <<counter, shutdown, now, pops>>

(* peek_ready looks at the top entry only. *)
PeekReady ==
    /\ LockFree
    /\ LET q == CleanupRemoved(Index)
       IN  /\ SetIndex(q)
           /\ \/ /\ \A e \in First(q.heap) : e.scheduled_time > now \/ e.job_id \in q.removed
                 /\ Returns("peek_ready", None)
              \/ \E e \in First(q.heap) :
                    /\ e.scheduled_time <= now
                    /\ e.job_id \notin q.removed
                    /\ Returns("peek_ready", e.job_id)
    /\ UNCHANGED <<counter, shutdown, now, pops>>

(* get_next_scheduled_time; the clean-up is its only effect. *)
GetNextScheduledTime ==
    /\ LockFree
    /\ SetIndex(CleanupRemoved(Index))
    /\ Returns("next_time", None)
    /\ UNCHANGED <<counter, shutdown, now, pops>>

Shutdown ==
    /\ LockFree
    /\ ~shutdown
    /\ shutdown' = TRUE
    /\ NotifyAll
    /\ Returns("shutdown", None)
    /\ UNCHANGED <<heap, entry_map, removed, counter, now>>

-----------------------------------------------------------------------------
(* pop() *)

(* An instant d ticks from now, on the clock that stops at Horizon. *)
After(d) == IF now + d > Horizon THEN Horizon ELSE now + d

(* Mutant: the deadline is not looked at. *)
ExpiredNever(dl) == FALSE

Expired(dl) == dl # None /\ dl <= now

Earlier(t, dl) == IF dl # None /\ dl < t THEN dl ELSE t

Leave(c, j) ==
    /\ pops' = [pops EXCEPT ![c] = Idle]
    /\ Returns("pop", j)

Wait(c, t, dl) ==
    /\ pops' = [pops EXCEPT ![c] =
                  [pc |-> "wait", wakeAt |-> t, deadline |-> dl, notified |-> FALSE]]
    /\ Returns("wait", None)

(* wait_time <= 0: `continue`, with the lock held and no deadline check. *)
Spin(c, dl) ==
    /\ pops' = [pops EXCEPT ![c] =
                  [pc |-> "spin", wakeAt |-> 0, deadline |-> dl, notified |-> FALSE]]
    /\ Returns("wait", None)

(* No entry is ready: w is the queue after the walk over the whole heap.   *)
(* An empty queue is polled every second when the call has no deadline.    *)
(* Otherwise the call sleeps until the time of the TOP entry.              *)
NothingReady(c, w, dl) ==
    IF w.heap = {}
    THEN IF Expired(dl) THEN Leave(c, None)
         ELSE Wait(c, IF dl = None THEN After(1) ELSE dl, dl)
    ELSE \E top \in First(w.heap) :
            LET t == Earlier(top.scheduled_time, dl)
            IN  IF t > now THEN Wait(c, t, dl) ELSE Spin(c, dl)

(* Mutant: shutdown is not looked at. *)
RoundDeaf(c, dl) ==
    \E q \in {CleanupRemoved(Index)} :
        \/ \E r \in First(Ready(q)) :
              SetIndex(TakeReady(q, r)) /\ Leave(c, r.job_id)
        \/ \E w \in {Discard(q, q.heap)} :
              Ready(q) = {} /\ SetIndex(w) /\ NothingReady(c, w, dl)

(* One round of the loop.  A walk is bound by \E over a singleton: TLC then *)
(* evaluates it once.                                                      *)
Round(c, dl) ==
    \/ /\ shutdown
       /\ Leave(c, None)
       /\ UNCHANGED index
    \/ /\ ~shutdown
       /\ \E q \in {CleanupRemoved(Index)} :
              \/ \E r \in First(Ready(q)) :
                    /\ \E w \in {TakeReady(q, r)} : SetIndex(w)
                    /\ Leave(c, r.job_id)
              \/ \E w \in {Discard(q, q.heap)} :
                     /\ Ready(q) = {}
                     /\ SetIndex(w)
                     /\ NothingReady(c, w, dl)

(* pop(timeout), up to its first wait. *)
Pop(c, timeout) ==
    /\ LockFree
    /\ pops[c].pc = "idle"
    /\ Round(c, IF timeout = None THEN None ELSE After(timeout))
    /\ UNCHANGED <<counter, shutdown, now>>

(* Mutant: Condition.wait() without its timeout. *)
PopWakeNotified(c) ==
    /\ LockFree
    /\ pops[c].pc = "wait"
    /\ pops[c].notified
    /\ IF Expired(pops[c].deadline)
       THEN Leave(c, None) /\ UNCHANGED index
       ELSE Round(c, pops[c].deadline)
    /\ UNCHANGED <<counter, shutdown, now>>

(* Condition.wait() returns, notified or timed out.  The deadline is       *)
(* looked at before the queue is.                                          *)
PopWake(c) ==
    /\ LockFree
    /\ pops[c].pc = "wait"
    /\ pops[c].notified \/ pops[c].wakeAt <= now
    /\ IF Expired(pops[c].deadline)
       THEN Leave(c, None) /\ UNCHANGED index
       ELSE Round(c, pops[c].deadline)
    /\ UNCHANGED <<counter, shutdown, now>>

PopSpin(c) ==
    /\ pops[c].pc = "spin"
    /\ Round(c, pops[c].deadline)
    /\ UNCHANGED <<counter, shutdown, now>>

(* Time passes, whoever holds the lock. *)
Tick ==
    /\ now < Horizon
    /\ now' = now + 1
    /\ Returns("tick", None)
    /\ UNCHANGED <<heap, entry_map, removed, counter, shutdown, pops>>

PopStep(c) == PopWake(c) \/ PopSpin(c) \/ \E timeout \in Timeouts : Pop(c, timeout)

Next ==
    \/ \E j \in Jobs, p \in Priorities, t \in Times : Push(j, p, t)
    \/ \E j \in Jobs : PushFull(j)
    \/ \E j \in Jobs : Remove(j)
    \/ \E j \in Jobs, p \in Priorities : UpdatePriority(j, p)
    \/ \E j \in Jobs, t \in Times : Reschedule(j, t)
    \/ Clear
    \/ Peek
    \/ PeekReady
    \/ GetNextScheduledTime
    \/ Shutdown
    \/ \E c \in Consumers : PopStep(c)
    \/ Tick

Spec == Init /\ [][Next]_vars

-----------------------------------------------------------------------------
(* Properties *)

(* The dictionary and the tombstones never outlive the heap: each id in    *)
(* _entry_map has that very entry in _heap, and each tombstone is of an id *)
(* in _entry_map.  It is what makes len() >= 0, remove() and get() answer  *)
(* for jobs that are really there, after any sequence of pushes, lazy      *)
(* removals, partial clean-ups and pops.                                   *)
IndexSound ==
    /\ \A j \in Mapped : entry_map[j] \in heap /\ entry_map[j].job_id = j
    /\ removed \subseteq Mapped

(* Entries are told apart by their insertion_order, across lazy deletion   *)
(* and the counter reset of clear(): the heap order is total and FIFO      *)
(* within a priority and a time.                                           *)
OrderTotal ==
    /\ \A e \in heap : e.insertion_order < counter
    /\ \A e, f \in heap : e.insertion_order = f.insertion_order => e = f

(* push() keeps len() within max_size, whatever was removed lazily. *)
SizeBounded == MaxSize # 0 => QueueLen <= MaxSize

(* A job contains() reports is never lost: it stops being reported only    *)
(* when pop() returns it, remove() is called for it, or clear() is.        *)
NoSilentLoss ==
    [][\A j \in Live : j \notin Live' =>
          \/ ret'.op \in {"pop", "remove"} /\ ret'.job = j
          \/ ret'.op = "clear"]_vars

(* The job pop() returns is ready, and no other ready job that contains()  *)
(* reports should have gone before it: by priority, then time, then age.   *)
ServesBestReady ==
    [][(heap' # heap /\ ret'.op = "pop" /\ ret'.job # None) =>
          \E e \in heap :
             /\ e.job_id = ret'.job
             /\ e.scheduled_time <= now
             /\ \A k \in Live : entry_map[k].scheduled_time <= now
                                   => ~Before(entry_map[k], e)]_vars
=============================================================================
