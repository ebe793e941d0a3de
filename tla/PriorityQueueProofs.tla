------------------------- MODULE PriorityQueueProofs -------------------------
(***************************************************************************)
(* Proofs about PriorityQueue, and about SchedulerQueue, which is the same *)
(* queue under the calls of the scheduler, for any number of jobs,         *)
(* consumers, priorities and ticks: the index the queue keeps beside its   *)
(* heap is sound, the best due job is served, and under the scheduler's    *)
(* calls the queue implements JobQueue.                                    *)
(***************************************************************************)
EXTENDS SchedulerQueue, FiniteSetTheorems, TLAPS

(* The three structures as one value, and the invariant on that value. *)
IndexType == [heap      : SUBSET QueueEntry,
              entry_map : [Jobs -> QueueEntry \cup {NoEntry}],
              removed   : SUBSET Jobs]

Sound(q) ==
    /\ \A j \in Jobs : q.entry_map[j] # NoEntry =>
          q.entry_map[j] \in q.heap /\ q.entry_map[j].job_id = j
    /\ \A j \in q.removed : q.entry_map[j] # NoEntry

LiveOf(q) == {j \in Jobs : q.entry_map[j] # NoEntry} \ q.removed

-----------------------------------------------------------------------------
(* Walking over any set S of entries keeps the index sound: an entry that  *)
(* is dropped was met in S under a tombstone, so its job leaves the        *)
(* dictionary and the tombstones with it.                                  *)
LEMMA DiscardSound ==
    ASSUME NEW q \in IndexType, NEW S \in SUBSET q.heap
    PROVE  /\ Discard(q, S) \in IndexType
           /\ Discard(q, S).heap \subseteq q.heap
           /\ Discard(q, S).removed \subseteq q.removed
           /\ \A j \in Jobs : j \notin q.removed =>
                 Discard(q, S).entry_map[j] = q.entry_map[j]
           /\ LiveOf(Discard(q, S)) = LiveOf(q)
           /\ Sound(q) => Sound(Discard(q, S))
<1> DEFINE lifted == q.removed \cap JobIds(S)
           d == Discard(q, S)
<1>1. d.heap = q.heap \ {e \in S : Stale(q, e)}
  BY DEF Discard
<1>2. d.entry_map = [j \in Jobs |-> IF j \in lifted THEN NoEntry ELSE q.entry_map[j]]
  BY DEF Discard
<1>3. d.removed = q.removed \ lifted
  BY DEF Discard
<1>4. d = [heap |-> d.heap, entry_map |-> d.entry_map, removed |-> d.removed]
  BY DEF Discard
<1>5. d \in IndexType
  <2>1. d.heap \in SUBSET QueueEntry
    BY <1>1 DEF IndexType
  <2>2. d.entry_map \in [Jobs -> QueueEntry \cup {NoEntry}]
    BY <1>2 DEF IndexType
  <2>3. d.removed \in SUBSET Jobs
    BY <1>3 DEF IndexType
  <2> HIDE DEF d
  <2> QED BY <2>1, <2>2, <2>3, <1>4 DEF IndexType
<1>6. Sound(q) => Sound(d)
  <2> SUFFICES ASSUME Sound(q) PROVE Sound(d)
    OBVIOUS
  <2>1. ASSUME NEW j \in Jobs, d.entry_map[j] # NoEntry
        PROVE  d.entry_map[j] \in d.heap /\ d.entry_map[j].job_id = j
    <3>1. j \notin lifted /\ d.entry_map[j] = q.entry_map[j]
      BY <1>2, <2>1
    <3>2. q.entry_map[j] \in q.heap /\ q.entry_map[j].job_id = j
      BY <2>1, <3>1 DEF Sound
    <3>3. ~(q.entry_map[j] \in S /\ Stale(q, q.entry_map[j]))
      BY <3>1, <3>2 DEF Stale, JobIds
    <3> QED BY <1>1, <3>1, <3>2, <3>3
  <2>2. ASSUME NEW j \in d.removed PROVE d.entry_map[j] # NoEntry
    BY <1>2, <1>3, <2>2 DEF Sound, IndexType
  <2> HIDE DEF d
  <2> QED BY <2>1, <2>2 DEF Sound
<1>7. LiveOf(d) = LiveOf(q)
  BY <1>2, <1>3 DEF LiveOf
<1> QED BY <1>1, <1>2, <1>3, <1>5, <1>6, <1>7

(* Taking the first ready entry keeps the index sound: if its job had a    *)
(* tombstone, an earlier entry of the job was met and lifted it.           *)
LEMMA TakeReadySound ==
    ASSUME NEW q \in IndexType, Sound(q), NEW r \in Ready(q)
    PROVE  /\ TakeReady(q, r) \in IndexType
           /\ TakeReady(q, r).heap \subseteq q.heap
           /\ TakeReady(q, r).removed \subseteq q.removed
           /\ \A j \in Jobs : j \notin q.removed /\ j # r.job_id =>
                 TakeReady(q, r).entry_map[j] = q.entry_map[j]
           /\ LiveOf(TakeReady(q, r)) = LiveOf(q) \ {r.job_id}
           /\ Sound(TakeReady(q, r))
<1> DEFINE S == {e \in q.heap : Before(e, r)}
           w == Discard(q, S)
           t == TakeReady(q, r)
<1>1. r \in q.heap /\ ~Stale(q, r) /\ r.job_id \in Jobs
  BY DEF Ready, IndexType, QueueEntry
<1>2. /\ w \in IndexType
      /\ w.heap \subseteq q.heap
      /\ w.removed \subseteq q.removed
      /\ \A j \in Jobs : j \notin q.removed => w.entry_map[j] = q.entry_map[j]
      /\ LiveOf(w) = LiveOf(q)
      /\ Sound(w)
  <2> HIDE DEF S
  <2>1. S \in SUBSET q.heap
    BY DEF S
  <2> QED BY <2>1, DiscardSound
<1>3. r.job_id \notin w.removed
  <2>1. CASE r.job_id \notin q.removed
    BY <2>1, <1>2
  <2>2. CASE r.job_id \in q.removed
    <3>1. PICK f \in q.heap : f.job_id = r.job_id /\ Before(f, r)
      BY <1>1, <2>2 DEF Stale
    <3>2. f.job_id \in JobIds(S)
      BY <3>1 DEF JobIds
    <3>3. w.removed = q.removed \ (q.removed \cap JobIds(S))
      BY DEF Discard
    <3> QED BY <3>1, <3>2, <3>3
  <2> QED BY <2>1, <2>2
<1>4. /\ t.heap = w.heap \ {r}
      /\ t.entry_map = [w.entry_map EXCEPT ![r.job_id] = NoEntry]
      /\ t.removed = w.removed
      /\ t = [heap |-> t.heap, entry_map |-> t.entry_map, removed |-> t.removed]
  BY DEF TakeReady
<1> HIDE DEF w, t
<1>5. t \in IndexType
  BY <1>2, <1>4, <1>1 DEF IndexType
<1>6. Sound(t)
  <2>1. ASSUME NEW j \in Jobs, t.entry_map[j] # NoEntry
        PROVE  t.entry_map[j] \in t.heap /\ t.entry_map[j].job_id = j
    BY <1>1, <1>2, <1>4, <2>1 DEF Sound, IndexType
  <2>2. ASSUME NEW j \in t.removed PROVE t.entry_map[j] # NoEntry
    BY <1>1, <1>2, <1>3, <1>4, <2>2 DEF Sound, IndexType
  <2> QED BY <2>1, <2>2 DEF Sound
<1>7. /\ t.heap \subseteq q.heap
      /\ t.removed \subseteq q.removed
      /\ \A j \in Jobs : j \notin q.removed /\ j # r.job_id => t.entry_map[j] = q.entry_map[j]
  BY <1>1, <1>2, <1>4 DEF IndexType
<1>8. LiveOf(t) = LiveOf(w) \ {r.job_id}
  BY <1>1, <1>2, <1>4 DEF LiveOf, IndexType
<1> QED BY <1>2, <1>5, <1>6, <1>7, <1>8 DEF t

-----------------------------------------------------------------------------
(* The inductive invariant, and its part about the index alone. *)
Inv == TypeOK /\ IndexSound /\ OrderTotal

IndexInv ==
    /\ Index \in IndexType
    /\ counter \in Nat
    /\ IndexSound
    /\ OrderTotal

(* The index as one value is typed exactly when its three parts are. *)
LEMMA IndexOfVariables ==
    /\ Index.heap = heap
    /\ Index.entry_map = entry_map
    /\ Index.removed = removed
    /\ Index \in IndexType <=> /\ heap \subseteq QueueEntry
                               /\ entry_map \in [Jobs -> QueueEntry \cup {NoEntry}]
                               /\ removed \subseteq Jobs
BY DEF Index, IndexType

(* Soundness of the index, as a value and as a state predicate. *)
LEMMA SoundOfVariables ==
    ASSUME Index \in IndexType
    PROVE  IndexSound <=> Sound(Index)
BY IndexOfVariables DEF IndexSound, Sound, Mapped

(* A step that replaces the index by a sound one with no new entry. *)
LEMMA WalkKeepsIndexInv ==
    ASSUME IndexInv, NEW q \in IndexType, Sound(q), q.heap \subseteq heap,
           SetIndex(q), UNCHANGED counter
    PROVE  IndexInv'
<1>1. heap' = q.heap /\ entry_map' = q.entry_map /\ removed' = q.removed
  BY DEF SetIndex
<1>2. Index' \in IndexType
  BY <1>1 DEF Index, IndexType
<1>3. IndexSound'
  BY <1>1 DEF IndexSound, Sound, Mapped, IndexType
<1>4. OrderTotal'
  BY <1>1 DEF IndexInv, OrderTotal
<1> QED BY <1>2, <1>3, <1>4 DEF IndexInv

(* _cleanup_removed leaves a sound index. *)
LEMMA CleanupKeepsIndexInv ==
    ASSUME IndexInv
    PROVE  /\ CleanupRemoved(Index) \in IndexType
           /\ Sound(CleanupRemoved(Index))
           /\ CleanupRemoved(Index).heap \subseteq heap
           /\ CleanupRemoved(Index).removed \subseteq removed
           /\ \A j \in Jobs : j \notin removed =>
                 CleanupRemoved(Index).entry_map[j] = entry_map[j]
           /\ LiveOf(CleanupRemoved(Index)) = Live
<1> DEFINE S == {e \in Index.heap : \A f \in Index.heap : ~Before(e, f) => Stale(Index, f)}
<1>1. S \in SUBSET Index.heap
  OBVIOUS
<1>2. Index \in IndexType /\ Sound(Index)
  BY SoundOfVariables DEF IndexInv
<1> HIDE DEF S
<1>3. /\ Discard(Index, S) \in IndexType
      /\ Sound(Discard(Index, S))
      /\ Discard(Index, S).heap \subseteq heap
      /\ Discard(Index, S).removed \subseteq removed
      /\ \A j \in Jobs : j \notin removed => Discard(Index, S).entry_map[j] = entry_map[j]
      /\ LiveOf(Discard(Index, S)) = LiveOf(Index)
  BY <1>1, <1>2, DiscardSound, IndexOfVariables
<1>4. LiveOf(Index) = Live
  BY IndexOfVariables DEF LiveOf, Live, Mapped
<1> QED BY <1>3, <1>4 DEF CleanupRemoved, S

(* A new entry carries the counter, so it is told apart from all others. *)
LEMMA InsertKeepsIndexInv ==
    ASSUME IndexInv, NEW j \in Jobs, NEW p \in Priorities, NEW t \in Times, Insert(j, p, t)
    PROVE  IndexInv'
<1> DEFINE e == [priority |-> p, scheduled_time |-> t,
                 insertion_order |-> counter, job_id |-> j]
<1>1. /\ heap' = heap \cup {e}
      /\ entry_map' = [entry_map EXCEPT ![j] = e]
      /\ removed' = removed \ {j}
      /\ counter' = counter + 1
  BY DEF Insert
<1>2. e \in QueueEntry /\ e.insertion_order = counter /\ e.job_id = j
  BY DEF QueueEntry, IndexInv
<1> HIDE DEF e
<1>3. /\ heap \subseteq QueueEntry
      /\ entry_map \in [Jobs -> QueueEntry \cup {NoEntry}]
      /\ removed \subseteq Jobs
      /\ counter \in Nat
  BY IndexOfVariables DEF IndexInv
<1>4. Index' \in IndexType
  <2>1. heap' \subseteq QueueEntry
    BY <1>1, <1>2, <1>3
  <2>2. entry_map' \in [Jobs -> QueueEntry \cup {NoEntry}]
    BY <1>1, <1>2, <1>3
  <2>3. removed' \subseteq Jobs
    BY <1>1, <1>3
  <2> QED BY <2>1, <2>2, <2>3 DEF Index, IndexType
<1>5. IndexSound'
  <2>1. ASSUME NEW k \in Jobs, entry_map'[k] # NoEntry
        PROVE  entry_map'[k] \in heap' /\ entry_map'[k].job_id = k
    BY <1>1, <1>2, <1>3, <2>1 DEF IndexInv, IndexSound, Mapped
  <2>3. ASSUME NEW k \in removed' PROVE k \in Jobs /\ entry_map'[k] # NoEntry
    BY <1>1, <1>3, <2>3 DEF IndexInv, IndexSound, Mapped
  <2> QED BY <2>1, <2>3 DEF IndexSound, Mapped
<1>6. OrderTotal'
  <2>1. \A f \in heap : f.insertion_order \in Nat /\ f.insertion_order < counter
    BY <1>3 DEF IndexInv, OrderTotal, QueueEntry
  <2> QED BY <1>1, <1>2, <1>3, <2>1 DEF IndexInv, OrderTotal
<1> QED BY <1>1, <1>3, <1>4, <1>5, <1>6 DEF IndexInv

-----------------------------------------------------------------------------
(* The rest of the type invariant: the threads, the clock and the result. *)
ThreadsOK ==
    /\ shutdown \in BOOLEAN
    /\ now \in Times
    /\ pops \in [Consumers -> PopState]
    /\ ret \in [op : Operations, job : Jobs \cup {None}]

(* The invariant splits into the index and the rest of the state. *)
LEMMA InvParts == Inv <=> IndexInv /\ ThreadsOK
BY IndexOfVariables DEF Inv, IndexInv, ThreadsOK, TypeOK

(* An empty queue satisfies the invariant. *)
LEMMA InitInv == Init => Inv
<1> SUFFICES ASSUME Init PROVE Inv
  OBVIOUS
<1>1. Idle \in PopState /\ 0 \in Times
  BY QueueAssumption DEF Idle, PopState, Times
<1>2. ThreadsOK
  BY <1>1 DEF Init, ThreadsOK, Operations
<1>3. IndexInv
  BY IndexOfVariables DEF Init, IndexInv, IndexSound, OrderTotal, Mapped
<1> QED BY <1>2, <1>3, InvParts

(* What an operation records as its result is typed. *)
LEMMA ReturnsOK ==
    ASSUME NEW o \in Operations, NEW j \in Jobs \cup {None}, Returns(o, j)
    PROVE  ret' \in [op : Operations, job : Jobs \cup {None}]
BY DEF Returns

(* notify() and notify_all() only set flags of waiting consumers. *)
LEMMA NotifyOK ==
    ASSUME pops \in [Consumers -> PopState], Notify \/ NotifyAll
    PROVE  pops' \in [Consumers -> PopState]
<1>1. ASSUME NEW c \in Consumers
      PROVE  [pops[c] EXCEPT !.notified = TRUE] \in PopState
  BY DEF PopState
<1>2. CASE Notify
  <2>1. CASE Waiters = {}
    BY <1>2, <2>1 DEF Notify
  <2>2. CASE Waiters # {}
    <3>1. PICK c \in Waiters : pops' = [pops EXCEPT ![c].notified = TRUE]
      BY <1>2, <2>2 DEF Notify
    <3> QED BY <1>1, <3>1 DEF Waiters
  <2> QED BY <2>1, <2>2
<1>3. CASE NotifyAll
  BY <1>1, <1>3 DEF NotifyAll
<1> QED BY <1>2, <1>3

(* A deadline is an instant of the clock. *)
LEMMA AfterInTimes ==
    ASSUME now \in Times, NEW d \in Nat
    PROVE  After(d) \in Times
BY QueueAssumption DEF After, Times

(* What a round of pop() does to the calling consumer. *)
LEMMA RoundThreads ==
    ASSUME ThreadsOK, NEW c \in Consumers, NEW dl \in Times \cup {None},
           NEW w, w.heap \subseteq QueueEntry, NothingReady(c, w, dl)
    PROVE  /\ pops' \in [Consumers -> PopState]
           /\ ret' = [op |-> "pop", job |-> None] \/ ret' = [op |-> "wait", job |-> None]
<1>1. CASE Leave(c, None)
  BY <1>1, QueueAssumption DEF Leave, Returns, ThreadsOK, Idle, PopState, Times
<1>2. ASSUME NEW t \in Times, Wait(c, t, dl) \/ Spin(c, dl)
      PROVE  /\ pops' \in [Consumers -> PopState]
             /\ ret' = [op |-> "wait", job |-> None]
  <2>1. 0 \in Times
    BY QueueAssumption DEF Times
  <2>2. /\ [pc |-> "wait", wakeAt |-> t, deadline |-> dl, notified |-> FALSE] \in PopState
        /\ [pc |-> "spin", wakeAt |-> 0, deadline |-> dl, notified |-> FALSE] \in PopState
    BY <2>1 DEF PopState
  <2>3. CASE Wait(c, t, dl)
    BY <2>2, <2>3 DEF Wait, Returns, ThreadsOK
  <2>4. CASE Spin(c, dl)
    BY <2>2, <2>4 DEF Spin, Returns, ThreadsOK
  <2> QED BY <1>2, <2>3, <2>4
<1>3. CASE w.heap = {}
  <2>1. (IF dl = None THEN After(1) ELSE dl) \in Times
    BY AfterInTimes DEF ThreadsOK
  <2>2. Leave(c, None) \/ Wait(c, IF dl = None THEN After(1) ELSE dl, dl)
    BY <1>3 DEF NothingReady
  <2> QED BY <1>1, <1>2, <2>1, <2>2
<1>4. CASE w.heap # {}
  <2>1. PICK top \in First(w.heap) :
           \/ Wait(c, Earlier(top.scheduled_time, dl), dl)
           \/ Spin(c, dl)
    BY <1>4 DEF NothingReady
  <2>2. Earlier(top.scheduled_time, dl) \in Times
    BY <2>1 DEF Earlier, First, QueueEntry
  <2> QED BY <1>2, <2>1, <2>2
<1> QED BY <1>3, <1>4

(* A round of pop() keeps the invariant, whether it takes an entry, waits, *)
(* spins or leaves.                                                        *)
LEMMA RoundKeepsInv ==
    ASSUME Inv, NEW c \in Consumers, NEW dl \in Times \cup {None}, Round(c, dl),
           UNCHANGED <<counter, shutdown, now>>
    PROVE  Inv'
<1> USE InvParts
<1>0. IndexInv /\ ThreadsOK
  OBVIOUS
<1>1. CASE shutdown /\ Leave(c, None) /\ UNCHANGED index
  <2>1. IndexInv'
    BY <1>0, <1>1 DEF IndexInv, index, Index, IndexSound, Mapped, OrderTotal
  <2>2. ThreadsOK'
    BY <1>0, <1>1, QueueAssumption
       DEF Leave, Returns, ThreadsOK, Idle, PopState, Times, Operations
  <2> QED BY <2>1, <2>2, InvParts, PTL
<1>2. ASSUME NEW r \in Ready(CleanupRemoved(Index)),
             SetIndex(TakeReady(CleanupRemoved(Index), r)), Leave(c, r.job_id)
      PROVE  Inv'
  <2> DEFINE q == CleanupRemoved(Index)
  <2>1. q \in IndexType /\ Sound(q) /\ q.heap \subseteq heap
    BY <1>0, CleanupKeepsIndexInv
  <2> HIDE DEF q
  <2>2. /\ TakeReady(q, r) \in IndexType
        /\ TakeReady(q, r).heap \subseteq heap
        /\ Sound(TakeReady(q, r))
    BY <1>2, <2>1, TakeReadySound DEF q
  <2>3. IndexInv'
    BY <1>0, <1>2, <2>2, WalkKeepsIndexInv DEF q
  <2>4. r.job_id \in Jobs
    BY <1>2, <2>1 DEF q, Ready, IndexType, QueueEntry
  <2>5. ThreadsOK'
    BY <1>0, <1>2, <2>4, QueueAssumption
       DEF Leave, Returns, ThreadsOK, Idle, PopState, Times, Operations
  <2> QED BY <2>3, <2>5, InvParts, PTL
<1>3. ASSUME SetIndex(Discard(CleanupRemoved(Index), CleanupRemoved(Index).heap)),
             NothingReady(c, Discard(CleanupRemoved(Index), CleanupRemoved(Index).heap), dl)
      PROVE  Inv'
  <2> DEFINE q == CleanupRemoved(Index)
             w == Discard(q, q.heap)
  <2>1. q \in IndexType /\ Sound(q) /\ q.heap \subseteq heap
    BY <1>0, CleanupKeepsIndexInv
  <2> HIDE DEF q
  <2>2. w \in IndexType /\ w.heap \subseteq heap /\ Sound(w)
    BY <2>1, DiscardSound
  <2> HIDE DEF w
  <2>3. IndexInv'
    BY <1>0, <1>3, <2>2, WalkKeepsIndexInv DEF q, w
  <2>4. /\ pops' \in [Consumers -> PopState]
        /\ ret' = [op |-> "pop", job |-> None] \/ ret' = [op |-> "wait", job |-> None]
    BY <1>0, <1>3, <2>2, RoundThreads DEF q, w, IndexType
  <2>5. ThreadsOK'
    BY <1>0, <2>4 DEF ThreadsOK, Operations
  <2> QED BY <2>3, <2>5, InvParts, PTL
<1> QED BY <1>1, <1>2, <1>3 DEF Round, First

(* peek(), peek_ready() and get_next_scheduled_time() keep the invariant.  *)
LEMMA ReadersKeepInv ==
    ASSUME Inv, SetIndex(CleanupRemoved(Index)),
           UNCHANGED <<counter, shutdown, now, pops>>,
           NEW o \in Operations, NEW j \in Jobs \cup {None}, Returns(o, j)
    PROVE  Inv'
<1>1. IndexInv /\ ThreadsOK
  BY InvParts
<1>2. IndexInv'
  BY <1>1, CleanupKeepsIndexInv, WalkKeepsIndexInv
<1>3. ThreadsOK'
  BY <1>1, ReturnsOK DEF ThreadsOK
<1> QED BY <1>2, <1>3, InvParts, PTL

(* Every operation of the queue keeps the invariant. *)
LEMMA NextKeepsInv == Inv /\ [Next]_vars => Inv'
<1> SUFFICES ASSUME Inv, [Next]_vars PROVE Inv'
  OBVIOUS
<1>0. IndexInv /\ ThreadsOK
  BY InvParts
<1>1. ASSUME NEW j \in Jobs, NEW p \in Priorities, NEW t \in Times, Push(j, p, t)
      PROVE  Inv'
  <2>1. IndexInv'
    BY <1>0, <1>1, InsertKeepsIndexInv DEF Push
  <2>2. ThreadsOK'
    BY <1>0, <1>1, NotifyOK, ReturnsOK DEF Push, ThreadsOK, Operations
  <2> QED BY <2>1, <2>2, InvParts, PTL
<1>2. ASSUME NEW j \in Jobs, PushFull(j) PROVE Inv'
  <2>1. IndexInv'
    BY <1>0, <1>2 DEF PushFull, IndexInv, Index, IndexSound, Mapped, OrderTotal
  <2>2. ThreadsOK'
    BY <1>0, <1>2, ReturnsOK DEF PushFull, ThreadsOK, Operations
  <2> QED BY <2>1, <2>2, InvParts, PTL
<1>3. ASSUME NEW j \in Jobs, Remove(j) PROVE Inv'
  <2>1. /\ heap' = heap /\ entry_map' = entry_map /\ counter' = counter
        /\ removed' = removed \cup {j}
        /\ j \in Mapped
    BY <1>3 DEF Remove, Live
  <2>2. Index' \in IndexType
    BY <1>0, <2>1 DEF IndexInv, Index, IndexType
  <2>3. IndexSound' /\ OrderTotal'
    BY <1>0, <2>1 DEF IndexInv, IndexSound, Mapped, OrderTotal
  <2>4. ThreadsOK'
    BY <1>0, <1>3, ReturnsOK DEF Remove, ThreadsOK, Operations
  <2>5. IndexInv'
    BY <1>0, <2>1, <2>2, <2>3 DEF IndexInv
  <2> QED BY <2>4, <2>5, InvParts, PTL
<1>4. ASSUME NEW j \in Jobs, NEW p \in Priorities, UpdatePriority(j, p) PROVE Inv'
  <2>1. entry_map[j].scheduled_time \in Times
    BY <1>0, <1>4, IndexOfVariables DEF UpdatePriority, Live, Mapped, IndexInv, QueueEntry
  <2>2. IndexInv'
    BY <1>0, <1>4, <2>1, InsertKeepsIndexInv DEF UpdatePriority
  <2>3. ThreadsOK'
    BY <1>0, <1>4, ReturnsOK DEF UpdatePriority, ThreadsOK, Operations
  <2> QED BY <2>2, <2>3, InvParts, PTL
<1>5. ASSUME NEW j \in Jobs, NEW t \in Times, Reschedule(j, t) PROVE Inv'
  <2>1. entry_map[j].priority \in Priorities
    BY <1>0, <1>5, IndexOfVariables DEF Reschedule, Live, Mapped, IndexInv, QueueEntry
  <2>2. IndexInv'
    BY <1>0, <1>5, <2>1, InsertKeepsIndexInv DEF Reschedule
  <2>3. ThreadsOK'
    BY <1>0, <1>5, NotifyOK, ReturnsOK DEF Reschedule, ThreadsOK, Operations
  <2> QED BY <2>2, <2>3, InvParts, PTL
<1>6. CASE Clear
  <2>1. Index' \in IndexType /\ counter' \in Nat
    BY <1>6 DEF Clear, Index, IndexType
  <2>2. IndexSound' /\ OrderTotal'
    BY <1>6 DEF Clear, IndexSound, Mapped, OrderTotal
  <2>3. ThreadsOK'
    BY <1>0, <1>6, ReturnsOK DEF Clear, ThreadsOK, Operations
  <2>4. IndexInv'
    BY <2>1, <2>2 DEF IndexInv
  <2> QED BY <2>3, <2>4, InvParts, PTL
<1>7. CASE Peek
  <2>1. \A e \in CleanupRemoved(Index).heap : e.job_id \in Jobs
    BY <1>0, CleanupKeepsIndexInv DEF IndexType, QueueEntry
  <2>2. PICK j \in Jobs \cup {None} : Returns("peek", j)
    BY <1>7, <2>1 DEF Peek, First
  <2> QED BY <1>7, <2>2, ReadersKeepInv DEF Peek, Operations
<1>8. CASE PeekReady
  <2>1. \A e \in CleanupRemoved(Index).heap : e.job_id \in Jobs
    BY <1>0, CleanupKeepsIndexInv DEF IndexType, QueueEntry
  <2>2. PICK j \in Jobs \cup {None} : Returns("peek_ready", j)
    BY <1>8, <2>1 DEF PeekReady, First
  <2> QED BY <1>8, <2>2, ReadersKeepInv DEF PeekReady, Operations
<1>9. CASE GetNextScheduledTime
  BY <1>9, ReadersKeepInv DEF GetNextScheduledTime, Operations
<1>10. CASE Shutdown
  <2>1. IndexInv'
    BY <1>0, <1>10 DEF Shutdown, IndexInv, Index, IndexSound, Mapped, OrderTotal
  <2>2. ThreadsOK'
    BY <1>0, <1>10, NotifyOK, ReturnsOK DEF Shutdown, ThreadsOK, Operations
  <2> QED BY <2>1, <2>2, InvParts, PTL
<1>11. ASSUME NEW c \in Consumers, PopStep(c) PROVE Inv'
  <2>1. pops[c].deadline \in Times \cup {None}
    BY <1>0 DEF ThreadsOK, PopState
  <2>2. CASE PopWake(c)
    <3>1. CASE Leave(c, None) /\ UNCHANGED index
      <4>1. IndexInv'
        BY <1>0, <2>2, <3>1
           DEF PopWake, IndexInv, index, Index, IndexSound, Mapped, OrderTotal
      <4>2. ThreadsOK'
        BY <1>0, <2>2, <3>1, QueueAssumption
           DEF PopWake, Leave, Returns, ThreadsOK, Idle, PopState, Times, Operations
      <4> QED BY <4>1, <4>2, InvParts, PTL
    <3>2. CASE Round(c, pops[c].deadline)
      BY <2>1, <2>2, <3>2, RoundKeepsInv DEF PopWake
    <3> QED BY <2>2, <3>1, <3>2 DEF PopWake
  <2>3. CASE PopSpin(c)
    BY <2>1, <2>3, RoundKeepsInv DEF PopSpin
  <2>4. ASSUME NEW timeout \in Timeouts, Pop(c, timeout) PROVE Inv'
    <3> DEFINE dl == IF timeout = None THEN None ELSE After(timeout)
    <3>1. dl \in Times \cup {None}
      BY <1>0, AfterInTimes, QueueAssumption DEF ThreadsOK
    <3>2. Round(c, dl) /\ UNCHANGED <<counter, shutdown, now>>
      BY <2>4 DEF Pop
    <3> HIDE DEF dl
    <3> QED BY <3>1, <3>2, RoundKeepsInv
  <2> QED BY <1>11, <2>2, <2>3, <2>4 DEF PopStep
<1>12. CASE Tick
  <2>1. IndexInv'
    BY <1>0, <1>12 DEF Tick, IndexInv, Index, IndexSound, Mapped, OrderTotal
  <2>2. now' \in Times
    BY <1>0, <1>12, QueueAssumption DEF Tick, ThreadsOK, Times
  <2>3. ThreadsOK'
    BY <1>0, <1>12, <2>2, ReturnsOK DEF Tick, ThreadsOK, Operations
  <2> QED BY <2>1, <2>3, InvParts, PTL
<1>13. CASE UNCHANGED vars
  BY <1>13 DEF vars, Inv, TypeOK, IndexSound, Mapped, OrderTotal
<1> QED BY <1>1, <1>2, <1>3, <1>4, <1>5, <1>6, <1>7, <1>8, <1>9, <1>10, <1>11,
           <1>12, <1>13 DEF Next

-----------------------------------------------------------------------------
(* The invariant holds in every reachable state. *)
LEMMA InvHolds == Spec => []Inv
<1>1. Init => Inv
  BY InitInv
<1>2. Inv /\ [Next]_vars => Inv'
  BY NextKeepsInv
<1> QED BY <1>1, <1>2, PTL DEF Spec

(* The type invariant of the queue, for any jobs, consumers and bounds. *)
THEOREM TypeCorrect == Spec => []TypeOK
<1>1. Inv => TypeOK
  BY DEF Inv
<1> QED BY <1>1, InvHolds, PTL

(* Dictionary, tombstones and heap of the queue agree after any sequence   *)
(* of operations: each id in _entry_map has its entry in _heap, and each   *)
(* tombstone is of such an id.                                             *)
THEOREM IndexIsSound == Spec => []IndexSound
<1>1. Inv => IndexSound
  BY DEF Inv
<1> QED BY <1>1, InvHolds, PTL

(* insertion_order tells heap entries apart, clear() included. *)
THEOREM OrderIsTotal == Spec => []OrderTotal
<1>1. Inv => OrderTotal
  BY DEF Inv
<1> QED BY <1>1, InvHolds, PTL

-----------------------------------------------------------------------------
(* What a step does to the jobs that contains() reports. *)
Explained(j) ==
    \/ ret'.op \in {"pop", "remove"} /\ ret'.job = j
    \/ ret'.op = "clear"

(* The jobs contains() reports after a walk. *)
LEMMA LiveOfNext ==
    ASSUME NEW q, SetIndex(q)
    PROVE  Live' = LiveOf(q)
BY DEF SetIndex, LiveOf, Live, Mapped

(* A new entry makes its job one that contains() reports, and no other. *)
LEMMA InsertLive ==
    ASSUME IndexInv, NEW j \in Jobs, NEW p \in Priorities, NEW t \in Times, Insert(j, p, t)
    PROVE  Live \subseteq Live' /\ Live' \subseteq Live \cup {j}
<1> DEFINE e == [priority |-> p, scheduled_time |-> t,
                 insertion_order |-> counter, job_id |-> j]
<1>1. /\ heap' = heap \cup {e}
      /\ entry_map' = [entry_map EXCEPT ![j] = e]
      /\ removed' = removed \ {j}
      /\ counter' = counter + 1
  BY DEF Insert
<1>2. e \in QueueEntry
  BY DEF QueueEntry, IndexInv
<1> HIDE DEF e
<1>3. e # NoEntry
  BY <1>2, NoneIsNoEntry
<1> QED BY <1>1, <1>3 DEF Live, Mapped, IndexInv, Index, IndexType

(* A round of pop() takes away the job it returns and no other. *)
LEMMA RoundLive ==
    ASSUME Inv, NEW c \in Consumers, NEW dl \in Times \cup {None}, Round(c, dl)
    PROVE  /\ Live' \subseteq Live
           /\ \A j \in Live : j \notin Live' => ret'.op = "pop" /\ ret'.job = j
<1>0. IndexInv
  BY InvParts
<1> DEFINE q == CleanupRemoved(Index)
<1>1. q \in IndexType /\ Sound(q) /\ LiveOf(q) = Live
  BY <1>0, CleanupKeepsIndexInv
<1>2. CASE UNCHANGED index
  BY <1>2 DEF index, Live, Mapped
<1>3. ASSUME NEW r \in Ready(q), SetIndex(TakeReady(q, r)), Leave(c, r.job_id)
      PROVE  Live' = Live \ {r.job_id} /\ ret'.op = "pop" /\ ret'.job = r.job_id
  <2> HIDE DEF q
  <2>1. LiveOf(TakeReady(q, r)) = LiveOf(q) \ {r.job_id}
    BY <1>1, TakeReadySound
  <2>2. ret'.op = "pop" /\ ret'.job = r.job_id
    BY <1>3 DEF Leave, Returns
  <2> QED BY <1>1, <1>3, <2>1, <2>2, LiveOfNext
<1>4. ASSUME SetIndex(Discard(q, q.heap)) PROVE Live' = Live
  <2> HIDE DEF q
  <2>1. LiveOf(Discard(q, q.heap)) = LiveOf(q)
    BY <1>1, DiscardSound
  <2> QED BY <1>1, <1>4, <2>1, LiveOfNext
<1>5. \/ UNCHANGED index
      \/ \E r \in Ready(q) : SetIndex(TakeReady(q, r)) /\ Leave(c, r.job_id)
      \/ SetIndex(Discard(q, q.heap))
  BY DEF Round, First
<1> HIDE DEF q
<1> QED BY <1>2, <1>3, <1>4, <1>5

(* In one step a job stops being reported only for a reason NoSilentLoss   *)
(* admits.                                                                 *)
LEMMA NextExplains ==
    ASSUME Inv, Next
    PROVE  \A j \in Live : j \notin Live' => Explained(j)
<1>0. IndexInv /\ ThreadsOK
  BY InvParts
<1>1. CASE \E j \in Jobs, p \in Priorities, t \in Times : Push(j, p, t)
  BY <1>0, <1>1, InsertLive DEF Push
<1>2. CASE \E j \in Jobs : PushFull(j)
  BY <1>2 DEF PushFull, Live, Mapped
<1>3. CASE \E j \in Jobs : Remove(j)
  BY <1>3 DEF Remove, Returns, Explained, Live, Mapped
<1>4. ASSUME NEW j \in Jobs, NEW p \in Priorities, UpdatePriority(j, p)
      PROVE  Live \subseteq Live'
  <2>1. entry_map[j].scheduled_time \in Times
    BY <1>0, <1>4, IndexOfVariables DEF UpdatePriority, Live, Mapped, IndexInv, QueueEntry
  <2> QED BY <1>0, <1>4, <2>1, InsertLive DEF UpdatePriority
<1>5. ASSUME NEW j \in Jobs, NEW t \in Times, Reschedule(j, t)
      PROVE  Live \subseteq Live'
  <2>1. entry_map[j].priority \in Priorities
    BY <1>0, <1>5, IndexOfVariables DEF Reschedule, Live, Mapped, IndexInv, QueueEntry
  <2> QED BY <1>0, <1>5, <2>1, InsertLive DEF Reschedule
<1>6. CASE Clear
  BY <1>6 DEF Clear, Returns, Explained
<1>7. CASE Peek \/ PeekReady \/ GetNextScheduledTime
  <2>1. SetIndex(CleanupRemoved(Index))
    BY <1>7 DEF Peek, PeekReady, GetNextScheduledTime
  <2>2. Live' = Live
    BY <1>0, <2>1, CleanupKeepsIndexInv, LiveOfNext
  <2> QED BY <2>2
<1>8. CASE Shutdown \/ Tick
  BY <1>8 DEF Shutdown, Tick, Live, Mapped
<1>9. ASSUME NEW c \in Consumers, PopStep(c)
      PROVE  \A j \in Live : j \notin Live' => ret'.op = "pop" /\ ret'.job = j
  <2>1. pops[c].deadline \in Times \cup {None}
    BY <1>0 DEF ThreadsOK, PopState
  <2>2. CASE PopWake(c) /\ UNCHANGED index
    BY <2>2 DEF index, Live, Mapped
  <2>3. CASE (PopWake(c) \/ PopSpin(c)) /\ Round(c, pops[c].deadline)
    BY <2>1, <2>3, RoundLive
  <2>4. ASSUME NEW timeout \in Timeouts, Pop(c, timeout)
        PROVE  \A j \in Live : j \notin Live' => ret'.op = "pop" /\ ret'.job = j
    <3> DEFINE dl == IF timeout = None THEN None ELSE After(timeout)
    <3>1. dl \in Times \cup {None}
      BY <1>0, AfterInTimes, QueueAssumption DEF ThreadsOK
    <3>2. Round(c, dl)
      BY <2>4 DEF Pop
    <3> HIDE DEF dl
    <3> QED BY <3>1, <3>2, RoundLive
  <2> QED BY <1>9, <2>2, <2>3, <2>4 DEF PopStep, PopWake, PopSpin
<1> QED BY <1>1, <1>2, <1>3, <1>4, <1>5, <1>6, <1>7, <1>8, <1>9 DEF Next, Explained

(* No queued job is ever lost: contains() stops reporting a job only when  *)
(* pop() returns it, remove() is called for it, or clear() is; lazy        *)
(* deletion, duplicate entries and clean-ups never take another job away.  *)
THEOREM NothingLost == Spec => NoSilentLoss
<1>1. Inv /\ [Next]_vars =>
        [\A j \in Live : j \notin Live' =>
            \/ ret'.op \in {"pop", "remove"} /\ ret'.job = j
            \/ ret'.op = "clear"]_vars
  BY NextExplains DEF Explained
<1> QED BY <1>1, InvHolds, PTL DEF Spec, NoSilentLoss

-----------------------------------------------------------------------------
(* len() is the number of jobs that contains() reports, because every      *)
(* tombstone is of a job in the dictionary.                                *)
LEMMA LenCountsLive ==
    IndexInv => IsFiniteSet(Live) /\ QueueLen = Cardinality(Live) /\ QueueLen \in Nat
<1> SUFFICES ASSUME IndexInv
             PROVE  IsFiniteSet(Live) /\ QueueLen = Cardinality(Live) /\ QueueLen \in Nat
  OBVIOUS
<1>1. IsFiniteSet(Mapped)
  BY QueueAssumption, FS_Subset DEF Mapped
<1>2. removed \cap Mapped = removed /\ Mapped \cap removed = removed
  BY DEF IndexInv, IndexSound
<1>3. /\ IsFiniteSet(Mapped \ removed)
      /\ Cardinality(Mapped \ removed) = Cardinality(Mapped) - Cardinality(removed)
  BY <1>1, <1>2, FS_Difference
<1>4. Cardinality(Live) \in Nat
  BY <1>3, FS_CardinalityType DEF Live
<1> QED BY <1>3, <1>4 DEF Live, QueueLen

(* One step keeps the number of reported jobs within max_size. *)
LEMMA NextSize ==
    ASSUME Inv, Inv', SizeBounded, [Next]_vars
    PROVE  SizeBounded'
<1>0. IndexInv /\ IndexInv' /\ ThreadsOK
  BY InvParts, PTL
<1>1. /\ IsFiniteSet(Live) /\ QueueLen = Cardinality(Live) /\ QueueLen \in Nat
      /\ IsFiniteSet(Live') /\ QueueLen' = Cardinality(Live') /\ QueueLen' \in Nat
  <2>1. IsFiniteSet(Live) /\ QueueLen = Cardinality(Live) /\ QueueLen \in Nat
    BY <1>0, LenCountsLive
  <2>2. (IsFiniteSet(Live) /\ QueueLen = Cardinality(Live) /\ QueueLen \in Nat)'
    BY <1>0, LenCountsLive, PTL
  <2> QED BY <2>1, <2>2
<1>2. ASSUME Live' \subseteq Live PROVE SizeBounded'
  BY <1>1, <1>2, QueueAssumption, FS_Subset DEF SizeBounded
<1>3. ASSUME NEW j \in Jobs, NEW p \in Priorities, NEW t \in Times, Push(j, p, t)
      PROVE  SizeBounded'
  <2>1. Live' \subseteq Live \cup {j}
    BY <1>0, <1>3, InsertLive DEF Push
  <2>2. /\ IsFiniteSet(Live \cup {j})
        /\ Cardinality(Live \cup {j}) \in Nat
        /\ Cardinality(Live \cup {j}) <= Cardinality(Live) + 1
    <3>1. /\ IsFiniteSet(Live \cup {j})
          /\ Cardinality(Live \cup {j}) = IF j \in Live THEN Cardinality(Live)
                                                       ELSE Cardinality(Live) + 1
      BY <1>1, FS_AddElement
    <3>2. Cardinality(Live) \in Nat
      BY <1>1, FS_CardinalityType
    <3> QED BY <3>1, <3>2
  <2>3. QueueLen' <= Cardinality(Live \cup {j})
    BY <1>1, <2>1, <2>2, FS_Subset
  <2>4. MaxSize # 0 => QueueLen < MaxSize
    BY <1>1, <1>3, QueueAssumption DEF Push, Full
  <2> QED BY <1>1, <2>2, <2>3, <2>4, QueueAssumption DEF SizeBounded
<1>4. CASE \E j \in Jobs : PushFull(j)
  BY <1>2, <1>4 DEF PushFull, Live, Mapped
<1>5. CASE \E j \in Jobs : Remove(j)
  BY <1>2, <1>5 DEF Remove, Live, Mapped
<1>6. ASSUME NEW j \in Jobs, NEW p \in Priorities, UpdatePriority(j, p)
      PROVE  Live' \subseteq Live
  <2>1. entry_map[j].scheduled_time \in Times
    BY <1>0, <1>6, IndexOfVariables DEF UpdatePriority, Live, Mapped, IndexInv, QueueEntry
  <2> QED BY <1>0, <1>6, <2>1, InsertLive DEF UpdatePriority
<1>7. ASSUME NEW j \in Jobs, NEW t \in Times, Reschedule(j, t)
      PROVE  Live' \subseteq Live
  <2>1. entry_map[j].priority \in Priorities
    BY <1>0, <1>7, IndexOfVariables DEF Reschedule, Live, Mapped, IndexInv, QueueEntry
  <2> QED BY <1>0, <1>7, <2>1, InsertLive DEF Reschedule
<1>8. CASE Clear
  BY <1>2, <1>8 DEF Clear, Live, Mapped
<1>9. CASE Peek \/ PeekReady \/ GetNextScheduledTime
  <2>1. SetIndex(CleanupRemoved(Index))
    BY <1>9 DEF Peek, PeekReady, GetNextScheduledTime
  <2> QED BY <1>0, <1>2, <2>1, CleanupKeepsIndexInv, LiveOfNext
<1>10. CASE Shutdown \/ Tick \/ UNCHANGED vars
  BY <1>2, <1>10 DEF Shutdown, Tick, vars, Live, Mapped
<1>11. ASSUME NEW c \in Consumers, PopStep(c) PROVE Live' \subseteq Live
  <2>1. pops[c].deadline \in Times \cup {None}
    BY <1>0 DEF ThreadsOK, PopState
  <2>2. CASE UNCHANGED index
    BY <2>2 DEF index, Live, Mapped
  <2>3. CASE Round(c, pops[c].deadline)
    BY <2>1, <2>3, RoundLive
  <2>4. ASSUME NEW timeout \in Timeouts, Pop(c, timeout) PROVE Live' \subseteq Live
    <3> DEFINE dl == IF timeout = None THEN None ELSE After(timeout)
    <3>1. dl \in Times \cup {None}
      BY <1>0, AfterInTimes, QueueAssumption DEF ThreadsOK
    <3>2. Round(c, dl)
      BY <2>4 DEF Pop
    <3> HIDE DEF dl
    <3> QED BY <3>1, <3>2, RoundLive
  <2> QED BY <1>11, <2>2, <2>3, <2>4 DEF PopStep, PopWake, PopSpin
<1> QED BY <1>2, <1>3, <1>4, <1>5, <1>6, <1>7, <1>8, <1>9, <1>10, <1>11 DEF Next

(* push() keeps len() within max_size for good, counting lazily removed    *)
(* entries as gone.                                                        *)
THEOREM SizeIsBounded == Spec => []SizeBounded
<1>1. Init => SizeBounded
  <2> SUFFICES ASSUME Init PROVE SizeBounded
    OBVIOUS
  <2>1. IndexInv /\ Live = {}
    BY InitInv, InvParts DEF Init, Live, Mapped
  <2>2. QueueLen = 0
    BY <2>1, LenCountsLive, FS_EmptySet
  <2> QED BY <2>2, QueueAssumption DEF SizeBounded
<1>2. Inv /\ Inv' /\ SizeBounded /\ [Next]_vars => SizeBounded'
  BY NextSize
<1> QED BY <1>1, <1>2, InvHolds, PTL DEF Spec

-----------------------------------------------------------------------------
(* What a call of pop() serves. *)

(* A round of pop() leaves with nothing, takes the first ready entry, or   *)
(* walks over the whole heap in vain.                                      *)
LEMMA RoundDoes ==
    ASSUME NEW c \in Consumers, NEW dl, Round(c, dl)
    PROVE  LET q == CleanupRemoved(Index)
           IN  \/ UNCHANGED index /\ Leave(c, None)
               \/ \E r \in First(Ready(q)) :
                     ~shutdown /\ SetIndex(TakeReady(q, r)) /\ Leave(c, r.job_id)
               \/ SetIndex(Discard(q, q.heap)) /\ NothingReady(c, Discard(q, q.heap), dl)
BY DEF Round

(* A step of pop() is a round of its loop, but for a deadline that has     *)
(* passed.                                                                 *)
LEMMA PopIsRound ==
    ASSUME Inv, NEW c \in Consumers, PopStep(c)
    PROVE  /\ UNCHANGED <<counter, shutdown, now>>
           /\ \/ UNCHANGED index /\ Leave(c, None)
              \/ \E dl \in Times \cup {None} : Round(c, dl)
<1>1. pops[c].deadline \in Times \cup {None}
  BY InvParts DEF ThreadsOK, PopState
<1>2. ASSUME NEW timeout \in Timeouts
      PROVE  (IF timeout = None THEN None ELSE After(timeout)) \in Times \cup {None}
  BY AfterInTimes, InvParts, QueueAssumption DEF ThreadsOK
<1>3. ASSUME NEW timeout \in Timeouts, Pop(c, timeout)
      PROVE  \E dl \in Times \cup {None} : Round(c, dl)
  BY <1>2, <1>3 DEF Pop
<1> QED BY <1>1, <1>3 DEF PopStep, PopWake, PopSpin, Pop

(* The newest entry of a job without tombstone survives a walk. *)
LEMMA EntrySurvives ==
    ASSUME IndexInv, NEW j \in Live
    PROVE  /\ entry_map[j] \in CleanupRemoved(Index).heap
           /\ ~Stale(CleanupRemoved(Index), entry_map[j])
<1> DEFINE S == {e \in Index.heap : \A f \in Index.heap : ~Before(e, f) => Stale(Index, f)}
<1>1. /\ entry_map[j] \in heap
      /\ entry_map[j].job_id = j
      /\ j \notin removed
  BY DEF Live, Mapped, IndexInv, IndexSound
<1>2. CleanupRemoved(Index).removed \subseteq removed
  BY CleanupKeepsIndexInv
<1>3. CleanupRemoved(Index).heap = heap \ {e \in S : Stale(Index, e)}
  BY IndexOfVariables DEF CleanupRemoved, Discard
<1> QED BY <1>1, <1>2, <1>3, IndexOfVariables DEF Stale

(* What a step that hands out a job has looked at. *)
Best(j) ==
    \E e \in heap :
       /\ e.job_id = j
       /\ e.scheduled_time <= now
       /\ \A k \in Live : entry_map[k].scheduled_time <= now => ~Before(entry_map[k], e)

(* The first ready entry after the clean-up is the best one there is: no   *)
(* entry that contains() reports was cleaned away.                         *)
LEMMA FirstReadyIsBest ==
    ASSUME IndexInv, NEW r \in First(Ready(CleanupRemoved(Index)))
    PROVE  Best(r.job_id)
<1> DEFINE q == CleanupRemoved(Index)
<1>1. q.heap \subseteq heap
  BY CleanupKeepsIndexInv
<1>2. \A k \in Live : entry_map[k].scheduled_time <= now => entry_map[k] \in Ready(q)
  BY EntrySurvives DEF Ready
<1> HIDE DEF q
<1>3. r \in heap /\ r.scheduled_time <= now
  BY <1>1 DEF First, Ready, q
<1>4. \A e \in Ready(q) : ~Before(e, r)
  BY DEF First, q
<1> QED BY <1>2, <1>3, <1>4 DEF Best

(* Each step that hands out a job hands out the best one. *)
LEMMA NextServes ==
    ASSUME Inv, [Next]_vars, heap' # heap, ret'.op = "pop", ret'.job # None
    PROVE  Best(ret'.job)
<1>1. PICK c \in Consumers : PopStep(c)
  BY DEF Next, vars, Push, PushFull, Remove, UpdatePriority, Reschedule, Clear, Peek,
         PeekReady, GetNextScheduledTime, Shutdown, Tick, Returns
<1>2. PICK dl \in Times \cup {None} : Round(c, dl)
  BY <1>1, PopIsRound DEF index
<1>3. ~Leave(c, None)
  BY DEF Leave, Returns
<1>4. ASSUME NEW w, w.heap \subseteq QueueEntry, NothingReady(c, w, dl)
      PROVE  ret'.job = None
  BY <1>4, RoundThreads, InvParts
<1>5. Discard(CleanupRemoved(Index), CleanupRemoved(Index).heap).heap \subseteq QueueEntry
  BY InvParts, CleanupKeepsIndexInv, DiscardSound DEF IndexInv, IndexType
<1>6. PICK r \in First(Ready(CleanupRemoved(Index))) : Leave(c, r.job_id)
  BY <1>2, <1>3, <1>4, <1>5, RoundDoes
<1> QED BY <1>6, FirstReadyIsBest, InvParts DEF Leave, Returns

(* What pop() returns is due, and no other due job that contains() reports *)
(* should have gone before it (ServesBestReady): not by lazy deletion, nor *)
(* by old entries of a job that was pushed again.                          *)
THEOREM TheBestIsServed == Spec => ServesBestReady
<1>1. Inv /\ [Next]_vars =>
        [(heap' # heap /\ ret'.op = "pop" /\ ret'.job # None) => Best(ret'.job)]_vars
  BY NextServes
<1> QED BY <1>1, InvHolds, PTL DEF Spec, ServesBestReady, Best

-----------------------------------------------------------------------------
(* How a call of pop() waits. *)

(* A call of pop() in state p can end at time t: a sleeping consumer has   *)
(* been notified of a shutdown and wakes up by its deadline, and one that  *)
(* goes round the loop with the lock held has a deadline that has passed.  *)
EndsInTime(p, down, t) ==
    /\ p.pc = "wait" =>
          /\ down => p.notified
          /\ p.deadline # None => p.wakeAt <= p.deadline
    /\ p.pc = "spin" => ~down /\ p.deadline # None /\ p.deadline <= t

(* Every call can end, and one consumer at most keeps the lock. *)
SleepSound ==
    /\ \A c \in Consumers : EndsInTime(pops[c], shutdown, now)
    /\ \A c, d \in Consumers : pops[c].pc = "spin" /\ pops[d].pc = "spin" => c = d

(* A walk that finds nothing ready leaves only entries that are not due:   *)
(* old entries of a job that was pushed again, too.                        *)
LEMMA NothingReadyEnds ==
    ASSUME ThreadsOK, ~shutdown, NEW c \in Consumers, NEW dl \in Times \cup {None},
           NEW q \in IndexType, Ready(q) = {}, NothingReady(c, Discard(q, q.heap), dl)
    PROVE  \E p : pops' = [pops EXCEPT ![c] = p] /\ EndsInTime(p, shutdown, now)
<1> DEFINE w == Discard(q, q.heap)
<1>1. EndsInTime(Idle, shutdown, now)
  BY DEF EndsInTime, Idle
<1>2. CASE Leave(c, None)
  BY <1>1, <1>2 DEF Leave
<1>3. ASSUME NEW t, Wait(c, t, dl), dl # None => t <= dl
      PROVE  \E p : pops' = [pops EXCEPT ![c] = p] /\ EndsInTime(p, shutdown, now)
  <2> DEFINE p == [pc |-> "wait", wakeAt |-> t, deadline |-> dl, notified |-> FALSE]
  <2>1. EndsInTime(p, shutdown, now)
    BY <1>3 DEF EndsInTime
  <2> QED BY <1>3, <2>1 DEF Wait
<1>4. ASSUME Spin(c, dl), dl # None, dl <= now
      PROVE  \E p : pops' = [pops EXCEPT ![c] = p] /\ EndsInTime(p, shutdown, now)
  <2> DEFINE p == [pc |-> "spin", wakeAt |-> 0, deadline |-> dl, notified |-> FALSE]
  <2>1. EndsInTime(p, shutdown, now)
    BY <1>4 DEF EndsInTime
  <2> QED BY <1>4, <2>1 DEF Spin
<1>5. now \in Nat /\ Times \subseteq Nat
  BY QueueAssumption DEF ThreadsOK, Times
<1>6. CASE w.heap = {}
  <2> DEFINE t == IF dl = None THEN After(1) ELSE dl
  <2>1. Leave(c, None) \/ Wait(c, t, dl)
    BY <1>6 DEF NothingReady
  <2>2. dl # None => t <= dl
    BY <1>5
  <2> HIDE DEF t
  <2> QED BY <1>2, <1>3, <2>1, <2>2
<1>7. CASE w.heap # {}
  <2>1. PICK top \in First(w.heap) :
           LET t == Earlier(top.scheduled_time, dl)
           IN  IF t > now THEN Wait(c, t, dl) ELSE Spin(c, dl)
    BY <1>7 DEF NothingReady
  <2>2. top \in q.heap /\ ~Stale(q, top)
    BY <2>1 DEF First, Discard
  <2>3. top.scheduled_time \in Nat /\ ~(top.scheduled_time <= now)
    BY <1>5, <2>2 DEF Ready, IndexType, QueueEntry
  <2> DEFINE t == Earlier(top.scheduled_time, dl)
  <2>4. /\ dl # None => t <= dl
        /\ t <= now => dl # None /\ dl <= now
        /\ t \in Nat
    BY <1>5, <2>3 DEF Earlier
  <2>5. CASE t > now
    <3>1. Wait(c, t, dl)
      BY <2>1, <2>5
    <3> HIDE DEF t
    <3> QED BY <1>3, <2>4, <3>1
  <2>6. CASE ~(t > now)
    <3>1. Spin(c, dl) /\ t <= now
      BY <1>5, <2>1, <2>4, <2>6
    <3> QED BY <1>4, <2>4, <3>1
  <2> QED BY <2>5, <2>6
<1> QED BY <1>6, <1>7

(* Nor does a round of pop() that takes an entry, or none after shutdown,  *)
(* leave its caller asleep.                                                *)
LEMMA RoundEnds ==
    ASSUME Inv, NEW c \in Consumers, NEW dl \in Times \cup {None}, Round(c, dl)
    PROVE  \E p : pops' = [pops EXCEPT ![c] = p] /\ EndsInTime(p, shutdown, now)
<1>1. ASSUME NEW j, Leave(c, j)
      PROVE  \E p : pops' = [pops EXCEPT ![c] = p] /\ EndsInTime(p, shutdown, now)
  <2>1. EndsInTime(Idle, shutdown, now)
    BY DEF EndsInTime, Idle
  <2> QED BY <1>1, <2>1 DEF Leave
<1> DEFINE q == CleanupRemoved(Index)
<1>2. q \in IndexType
  BY InvParts, CleanupKeepsIndexInv
<1>3. CASE ~shutdown /\ Ready(q) = {} /\ NothingReady(c, Discard(q, q.heap), dl)
  <2> HIDE DEF q
  <2> QED BY <1>2, <1>3, InvParts, NothingReadyEnds
<1> QED BY <1>1, <1>3 DEF Round

(* A step of pop() moves one consumer, and no other one has the lock. *)
LEMMA PopEnds ==
    ASSUME Inv, SleepSound, NEW c \in Consumers, PopStep(c)
    PROVE  SleepSound'
<1>1. UNCHANGED <<shutdown, now>>
  BY PopIsRound
<1>2. PICK p : pops' = [pops EXCEPT ![c] = p] /\ EndsInTime(p, shutdown, now)
  <2>1. EndsInTime(Idle, shutdown, now)
    BY DEF EndsInTime, Idle
  <2>2. CASE Leave(c, None)
    BY <2>1, <2>2 DEF Leave
  <2> QED BY <2>2, PopIsRound, RoundEnds
<1>3. \A d \in Consumers : pops[d].pc = "spin" => d = c
  BY DEF PopStep, PopWake, PopSpin, Pop, LockFree, SleepSound
<1>4. \A d \in Consumers : pops'[d] = IF d = c THEN p ELSE pops[d]
  BY <1>2, InvParts DEF ThreadsOK
<1> QED BY <1>1, <1>2, <1>3, <1>4 DEF SleepSound

(* Notifications only help, and the clock only moves on. *)
LEMMA NotifyEnds ==
    ASSUME ThreadsOK, SleepSound, Notify \/ NotifyAll \/ UNCHANGED pops
    PROVE  /\ \A c \in Consumers :
                 /\ pops'[c] \in {pops[c], [pops[c] EXCEPT !.notified = TRUE]}
                 /\ EndsInTime(pops'[c], shutdown, now)
           /\ \A c \in Consumers : pops'[c].pc = pops[c].pc
<1>1. \A c \in Consumers :
         pops'[c] \in {pops[c], [pops[c] EXCEPT !.notified = TRUE]}
  BY DEF Notify, NotifyAll, Waiters, ThreadsOK
<1>2. ASSUME NEW c \in Consumers
      PROVE  /\ EndsInTime([pops[c] EXCEPT !.notified = TRUE], shutdown, now)
             /\ [pops[c] EXCEPT !.notified = TRUE].pc = pops[c].pc
  BY DEF SleepSound, EndsInTime, ThreadsOK, PopState
<1> QED BY <1>1, <1>2 DEF SleepSound

(* shutdown() wakes up whoever sleeps. *)
LEMMA ShutdownEnds ==
    ASSUME ThreadsOK, SleepSound, Shutdown
    PROVE  SleepSound'
<1>1. ASSUME NEW c \in Consumers
      PROVE  EndsInTime(pops'[c], shutdown', now') /\ pops'[c].pc # "spin"
  <2>1. pops[c].pc # "spin" /\ pops[c] \in PopState /\ EndsInTime(pops[c], shutdown, now)
    BY DEF Shutdown, LockFree, ThreadsOK, SleepSound
  <2>2. CASE c \in Waiters
    <3>1. pops'[c] = [pops[c] EXCEPT !.notified = TRUE]
      BY <2>2 DEF Shutdown, NotifyAll
    <3> QED BY <2>1, <3>1 DEF EndsInTime, PopState
  <2>3. CASE c \notin Waiters
    <3>1. pops'[c] = pops[c]
      BY <2>3 DEF Shutdown, NotifyAll
    <3> QED BY <2>1, <2>3, <3>1 DEF EndsInTime, Waiters
  <2> QED BY <2>2, <2>3
<1> QED BY <1>1 DEF SleepSound

LEMMA NextKeepsSleepSound == Inv /\ SleepSound /\ [Next]_vars => SleepSound'
<1> SUFFICES ASSUME Inv, SleepSound, [Next]_vars PROVE SleepSound'
  OBVIOUS
<1>0. ThreadsOK
  BY InvParts
<1>1. CASE \E c \in Consumers : PopStep(c)
  BY <1>1, PopEnds
<1>2. CASE Shutdown
  BY <1>0, <1>2, ShutdownEnds
<1>3. CASE Tick
  <2>1. now \in Nat /\ now' = now + 1 /\ UNCHANGED <<pops, shutdown>>
    BY <1>0, <1>3, QueueAssumption DEF Tick, ThreadsOK, Times
  <2>2. \A c \in Consumers : pops[c].deadline \in Nat \cup {None}
    BY <1>0, QueueAssumption DEF ThreadsOK, PopState, Times
  <2> QED BY <2>1, <2>2 DEF SleepSound, EndsInTime
<1>4. CASE (Notify \/ NotifyAll \/ UNCHANGED pops) /\ UNCHANGED <<shutdown, now>>
  BY <1>0, <1>4, NotifyEnds DEF SleepSound
<1> QED BY <1>1, <1>2, <1>3, <1>4
        DEF Next, vars, Push, PushFull, Remove, UpdatePriority, Reschedule, Clear, Peek,
            PeekReady, GetNextScheduledTime

(* The safety core of TimedPopReturns and ShutdownReleases, for every      *)
(* operation of the queue: no consumer sleeps past its deadline or through *)
(* a shutdown, and one that spins with the lock held, where it does not    *)
(* look at its deadline, does so only once the deadline has passed.        *)
THEOREM NobodyOversleeps == Spec => []SleepSound
<1>1. Init => SleepSound
  BY DEF Init, SleepSound, EndsInTime, Idle
<1> QED BY <1>1, NextKeepsSleepSound, InvHolds, PTL DEF Spec

-----------------------------------------------------------------------------
(* The queue under the scheduler's calls (SchedulerQueue). *)

(* The scheduler makes only calls that the queue has. *)
LEMMA UseIsNext == UseNext => Next
BY DEF UseNext, PushFresh, Next

LEMMA UseInv == UseSafety => []Inv
<1>1. [UseNext]_vars => [Next]_vars
  BY UseIsNext
<1> QED BY <1>1, InvHolds, PTL DEF UseSafety, Spec

(* Each entry of the heap is the one the dictionary has for its job. *)
Single(q) == \A e \in q.heap : q.entry_map[e.job_id] = e

LEMMA ExactIsSingle == IndexInv => (HeapExact <=> Single(Index))
<1> SUFFICES ASSUME IndexInv PROVE HeapExact <=> Single(Index)
  OBVIOUS
<1>1. \A e \in heap : e.job_id \in Jobs /\ e # NoEntry
  BY IndexOfVariables, NoneIsNoEntry DEF IndexInv, QueueEntry
<1>2. \A j \in Mapped : j \in Jobs /\ entry_map[j] \in heap /\ entry_map[j].job_id = j
  BY DEF IndexInv, IndexSound, Mapped
<1> QED BY <1>1, <1>2, IndexOfVariables DEF HeapExact, Single, Mapped

LEMMA NotBeforeItself == \A e \in QueueEntry : ~Before(e, e)
<1>1. \A n \in Priorities : ~(n < n)
  BY QueueAssumption
<1>2. \A n \in Times : ~(n < n)
  BY QueueAssumption DEF Times
<1>3. \A n \in Nat : ~(n < n)
  OBVIOUS
<1>4. \A e \in QueueEntry :
         e.priority \in Priorities /\ e.scheduled_time \in Times /\ e.insertion_order \in Nat
  BY DEF QueueEntry
<1> QED BY <1>1, <1>2, <1>3, <1>4 DEF Before

(* A walk drops an entry exactly if it takes its job out of the dictionary.*)
LEMMA DiscardSingle ==
    ASSUME NEW q \in IndexType, Single(q), NEW S \in SUBSET q.heap
    PROVE  Single(Discard(q, S))
<1> DEFINE d == Discard(q, S)
           lifted == q.removed \cap JobIds(S)
<1>1. /\ d.heap = q.heap \ {e \in S : Stale(q, e)}
      /\ d.entry_map = [j \in Jobs |-> IF j \in lifted THEN NoEntry ELSE q.entry_map[j]]
  BY DEF Discard
<1>2. ASSUME NEW e \in d.heap PROVE d.entry_map[e.job_id] = e
  <2>1. e \in q.heap /\ e \in QueueEntry /\ e.job_id \in Jobs /\ q.entry_map[e.job_id] = e
    BY <1>1, <1>2 DEF Single, IndexType, QueueEntry
  <2>2. e.job_id \notin lifted
    <3> SUFFICES ASSUME e.job_id \in lifted PROVE FALSE
      OBVIOUS
    <3>1. PICK f \in S : f.job_id = e.job_id
      BY DEF JobIds
    <3>2. e \in S
      BY <2>1, <3>1 DEF Single
    <3>3. \A f2 \in q.heap : f2.job_id = e.job_id => f2 = e
      BY <2>1 DEF Single
    <3>4. Stale(q, e)
      BY <2>1, <3>3, NotBeforeItself DEF Stale
    <3> QED BY <1>1, <1>2, <3>2, <3>4
  <2> QED BY <1>1, <2>1, <2>2
<1> QED BY <1>2 DEF Single

LEMMA TakeReadySingle ==
    ASSUME NEW q \in IndexType, Single(q), NEW r \in Ready(q)
    PROVE  Single(TakeReady(q, r))
<1> DEFINE S == {e \in q.heap : Before(e, r)}
           w == Discard(q, S)
<1>1. w \in IndexType /\ Single(w)
  <2>1. S \in SUBSET q.heap
    OBVIOUS
  <2> HIDE DEF S
  <2> QED BY <2>1, DiscardSound, DiscardSingle
<1>2. r \in w.heap
  <2>1. r \in q.heap /\ ~Stale(q, r)
    BY DEF Ready
  <2> QED BY <2>1 DEF Discard
<1>3. /\ TakeReady(q, r).heap = w.heap \ {r}
      /\ TakeReady(q, r).entry_map = [w.entry_map EXCEPT ![r.job_id] = NoEntry]
  BY DEF TakeReady
<1> HIDE DEF w
<1>4. \A e \in w.heap : e.job_id \in Jobs /\ w.entry_map[e.job_id] = e
  BY <1>1 DEF Single, IndexType, QueueEntry
<1> QED BY <1>1, <1>2, <1>3, <1>4 DEF Single, IndexType

LEMMA CleanupSingle ==
    ASSUME IndexInv, Single(Index)
    PROVE  Single(CleanupRemoved(Index))
<1> DEFINE S == {e \in Index.heap : \A f \in Index.heap : ~Before(e, f) => Stale(Index, f)}
<1>1. S \in SUBSET Index.heap /\ Index \in IndexType
  BY DEF IndexInv
<1> HIDE DEF S
<1>2. Single(Discard(Index, S))
  BY <1>1, DiscardSingle
<1> QED BY <1>2 DEF CleanupRemoved, S

(* The heap stays exact, since the scheduler pushes no job that has an     *)
(* entry in it.                                                            *)
LEMMA UseKeepsSingle ==
    ASSUME Inv, Single(Index), [UseNext]_vars
    PROVE  Single(Index)'
<1> DEFINE q == CleanupRemoved(Index)
<1>0. IndexInv /\ ThreadsOK
  BY InvParts
<1>1. ASSUME NEW j \in Jobs, NEW p \in Priorities, NEW t \in Times, PushFresh(j, p, t)
      PROVE  Single(Index)'
  <2> DEFINE e == [priority |-> p, scheduled_time |-> t,
                   insertion_order |-> counter, job_id |-> j]
  <2>1. heap' = heap \cup {e} /\ entry_map' = [entry_map EXCEPT ![j] = e]
    BY <1>1 DEF PushFresh, Push, Insert
  <2>2. \A f \in heap : f.job_id # j /\ entry_map[f.job_id] = f /\ f.job_id \in Jobs
    BY <1>0, <1>1, IndexOfVariables DEF PushFresh, JobIds, Single, IndexInv, QueueEntry
  <2>3. entry_map \in [Jobs -> QueueEntry \cup {NoEntry}]
    BY <1>0, IndexOfVariables DEF IndexInv
  <2>4. e.job_id = j
    OBVIOUS
  <2> HIDE DEF e
  <2>5. \A f \in heap' : entry_map'[f.job_id] = f
    BY <2>1, <2>2, <2>3, <2>4
  <2> QED BY <2>5 DEF Single, Index
<1>2. ASSUME UNCHANGED <<heap, entry_map>> PROVE Single(Index)'
  BY <1>2 DEF Single, Index
<1>3. ASSUME NEW s, Single(s), SetIndex(s) PROVE Single(Index)'
  BY <1>3 DEF Single, Index, SetIndex
<1>4. ASSUME NEW c \in Consumers, PopStep(c) PROVE Single(Index)'
  <2>1. CASE UNCHANGED index
    BY <1>2, <2>1 DEF index
  <2>2. ASSUME NEW dl \in Times \cup {None}, Round(c, dl) PROVE Single(Index)'
    <3>1. q \in IndexType /\ Single(q)
      BY <1>0, CleanupKeepsIndexInv, CleanupSingle
    <3>2. \/ UNCHANGED index
          \/ \E r \in Ready(q) : SetIndex(TakeReady(q, r))
          \/ SetIndex(Discard(q, q.heap))
      BY <2>2, RoundDoes DEF First
    <3> HIDE DEF q
    <3>3. \A r \in Ready(q) : Single(TakeReady(q, r))
      BY <3>1, TakeReadySingle
    <3>4. Single(Discard(q, q.heap))
      BY <3>1, DiscardSingle
    <3> QED BY <1>3, <2>1, <3>2, <3>3, <3>4
  <2> QED BY <1>4, <2>1, <2>2, PopIsRound
<1>5. CASE UNCHANGED vars
  BY <1>2, <1>5 DEF vars
<1> QED BY <1>1, <1>2, <1>4, <1>5 DEF UseNext, PushFull, Remove, Shutdown, Tick

(* Under the scheduler's calls lazy deletion leaves nothing in the heap    *)
(* that the dictionary does not know (HeapExact).                          *)
THEOREM HeapIsExact == UseSafety => []HeapExact
<1>1. Init => Single(Index)
  BY DEF Init, Single, Index
<1>2. Inv /\ Single(Index) /\ [UseNext]_vars => Single(Index)'
  BY UseKeepsSingle
<1>3. Inv /\ Single(Index) => HeapExact
  BY ExactIsSingle, InvParts
<1> QED BY <1>1, <1>2, <1>3, UseInv, PTL DEF UseSafety

-----------------------------------------------------------------------------
(* The queue implements JobQueue. *)

(* What JobQueue sees: the newest entry of each job that contains()        *)
(* reports, and the job that was handed out last.                          *)
Items == [j \in Jobs |-> IF j \in Live THEN entry_map[j] ELSE None]

Out == IF ret.op = "pop" THEN ret.job ELSE None

LEMMA ItemsOf ==
    ASSUME IndexInv
    PROVE  /\ Abstract!Queued = Live
           /\ \A j \in Live : Items[j] = entry_map[j]
           /\ \A j \in Jobs : j \in Live <=> Items[j] # None
BY NoneIsNoEntry DEF Abstract!Queued, Items, Live, Mapped, IndexInv, Index, IndexType, NoEntry

(* A walk changes nothing that JobQueue sees. *)
LEMMA WalkIsUnseen ==
    ASSUME NEW q \in IndexType, LiveOf(q) = Live, SetIndex(q),
           \A j \in Jobs : j \notin removed => q.entry_map[j] = entry_map[j]
    PROVE  Items' = Items
<1>1. Live' = Live
  BY LiveOfNext
<1> QED BY <1>1 DEF Items, Live, Mapped, SetIndex

(* A step that hands out nothing and lets all items be is a stutter. *)
LEMMA QuietStep ==
    ASSUME Items' = Items, UNCHANGED <<shutdown, now>>, Out' = None
    PROVE  Abstract!Next
BY DEF Abstract!Next, Abstract!Quiet, Items, Out

(* push() of a job that has no entry puts it behind all others. *)
LEMMA PushPuts ==
    ASSUME IndexInv, NEW j \in Jobs, NEW p \in Priorities, NEW t \in Times,
           PushFresh(j, p, t)
    PROVE  Abstract!Put(j)
<1> DEFINE e == [priority |-> p, scheduled_time |-> t,
                 insertion_order |-> counter, job_id |-> j]
<1>1. /\ entry_map' = [entry_map EXCEPT ![j] = e]
      /\ removed' = removed \ {j}
      /\ UNCHANGED <<shutdown, now>>
      /\ ret' = [op |-> "push", job |-> j]
  BY DEF PushFresh, Push, Insert, Returns
<1>2. e \in QueueEntry /\ e.insertion_order = counter /\ e.job_id = j
  BY DEF QueueEntry, IndexInv
<1>3. \A k \in Live : entry_map[k] \in heap /\ entry_map[k].job_id = k
                      /\ entry_map[k].insertion_order < counter
  BY DEF IndexInv, IndexSound, OrderTotal, Live, Mapped
<1>4. j \notin Mapped
  BY DEF IndexInv, IndexSound, PushFresh, JobIds
<1> HIDE DEF e
<1>5. e # NoEntry /\ e # None
  BY <1>2, NoneIsNoEntry DEF NoEntry
<1>6. entry_map \in [Jobs -> QueueEntry \cup {NoEntry}] /\ removed \subseteq Mapped
  BY IndexOfVariables DEF IndexInv, IndexSound
<1>7. Live' = Live \cup {j} /\ j \notin Live
  BY <1>1, <1>4, <1>5, <1>6 DEF Live, Mapped
<1>8. Items' = [Items EXCEPT ![j] = e] /\ Items'[j] = e
  BY <1>1, <1>6, <1>7 DEF Items
<1>9. Out' = None
  BY <1>1 DEF Out
<1> QED BY <1>1, <1>2, <1>3, <1>5, <1>7, <1>8, <1>9, ItemsOf DEF Abstract!Put, Items, Out

(* remove() drops the job although its entry stays in the heap. *)
LEMMA RemoveDrops ==
    ASSUME IndexInv, NEW j \in Jobs, Remove(j)
    PROVE  Abstract!Drop(j)
<1>1. /\ j \in Live
      /\ removed' = removed \cup {j}
      /\ UNCHANGED <<entry_map, shutdown, now>>
      /\ ret' = [op |-> "remove", job |-> j]
  BY DEF Remove, Returns
<1>2. Live' = Live \ {j}
  BY <1>1 DEF Live, Mapped
<1>3. Items' = [Items EXCEPT ![j] = None]
  BY <1>1, <1>2 DEF Items
<1>4. Out' = None
  BY <1>1 DEF Out
<1> QED BY <1>1, <1>3, <1>4, ItemsOf DEF Abstract!Drop, Items, Out

(* What pop() hands out is what JobQueue may hand out. *)
LEMMA RoundTakes ==
    ASSUME Inv, Single(Index), ~shutdown, UNCHANGED <<shutdown, now>>, NEW c \in Consumers,
           NEW r \in First(Ready(CleanupRemoved(Index))),
           SetIndex(TakeReady(CleanupRemoved(Index), r)), Leave(c, r.job_id)
    PROVE  r.job_id \in Jobs /\ Abstract!Take(r.job_id)
<1> DEFINE q == CleanupRemoved(Index)
<1>0. IndexInv
  BY InvParts
<1>1. /\ q \in IndexType /\ Sound(q) /\ Single(q)
      /\ q.heap \subseteq heap
      /\ q.removed \subseteq removed
      /\ \A j \in Jobs : j \notin removed => q.entry_map[j] = entry_map[j]
      /\ LiveOf(q) = Live
  BY <1>0, CleanupKeepsIndexInv, CleanupSingle
<1> HIDE DEF q
<1>2. r \in Ready(q) /\ r \in q.heap /\ ~Stale(q, r) /\ r \in QueueEntry /\ r.job_id \in Jobs
  BY <1>1 DEF q, First, Ready, IndexType, QueueEntry
<1>3. r \in heap /\ entry_map[r.job_id] = r /\ q.entry_map[r.job_id] = r
  BY <1>1, <1>2, IndexOfVariables DEF Single
<1>4. r.job_id \notin q.removed
  <2>1. \A f \in q.heap : f.job_id = r.job_id => f = r
    BY <1>1, <1>3 DEF Single
  <2> QED BY <1>2, <2>1, NotBeforeItself DEF Stale
<1>5. r.job_id \in Live
  BY <1>1, <1>2, <1>3, <1>4, NoneIsNoEntry DEF LiveOf
<1>6. /\ TakeReady(q, r) \in IndexType
      /\ LiveOf(TakeReady(q, r)) = Live \ {r.job_id}
      /\ \A j \in Jobs : j \notin q.removed /\ j # r.job_id =>
            TakeReady(q, r).entry_map[j] = q.entry_map[j]
  BY <1>1, <1>2, TakeReadySound
<1>7. Live' = Live \ {r.job_id}
  BY <1>6, LiveOfNext DEF q
<1>8. \A j \in Live \ {r.job_id} : entry_map'[j] = entry_map[j]
  BY <1>1, <1>6 DEF SetIndex, Live, Mapped, q
<1>9. Items' = [Items EXCEPT ![r.job_id] = None]
  BY <1>7, <1>8 DEF Items
<1>10. Out' = r.job_id
  BY DEF Leave, Returns, Out
<1>11. /\ r.scheduled_time <= now
       /\ \A k \in Live : entry_map[k].scheduled_time <= now => ~Before(entry_map[k], r)
  <2>1. PICK e \in heap :
           /\ e.job_id = r.job_id
           /\ e.scheduled_time <= now
           /\ \A k \in Live : entry_map[k].scheduled_time <= now => ~Before(entry_map[k], e)
    BY <1>0, FirstReadyIsBest DEF Best
  <2>2. e = r
    BY <1>3, <2>1, IndexOfVariables DEF Single
  <2> QED BY <2>1, <2>2
<1>12. \A e, f : Abstract!Precedes(e, f) <=> Before(e, f)
  BY DEF Abstract!Precedes, Before
<1> QED BY <1>0, <1>2, <1>3, <1>5, <1>9, <1>10, <1>11, <1>12, ItemsOf
        DEF Abstract!Take, Items, Out

(* One step of pop() hands out a job of JobQueue or is a stutter. *)
LEMMA PopImplements ==
    ASSUME Inv, Single(Index), NEW c \in Consumers, PopStep(c)
    PROVE  Abstract!Next
<1> DEFINE q == CleanupRemoved(Index)
<1>0. IndexInv
  BY InvParts
<1>1. UNCHANGED <<counter, shutdown, now>>
  BY PopIsRound
<1>2. CASE UNCHANGED index /\ Leave(c, None)
  <2>1. Items' = Items
    BY <1>2 DEF Items, Live, Mapped, index
  <2>2. Out' = None
    BY <1>2 DEF Out, Leave, Returns
  <2> QED BY <1>1, <2>1, <2>2, QuietStep
<1>3. ASSUME NEW r \in First(Ready(q)), ~shutdown, SetIndex(TakeReady(q, r)), Leave(c, r.job_id)
      PROVE  Abstract!Next
  BY <1>1, <1>3, RoundTakes DEF Abstract!Next
<1>4. ASSUME NEW dl \in Times \cup {None},
             SetIndex(Discard(q, q.heap)), NothingReady(c, Discard(q, q.heap), dl)
      PROVE  Abstract!Next
  <2>1. /\ q \in IndexType /\ LiveOf(q) = Live /\ q.removed \subseteq removed
        /\ \A j \in Jobs : j \notin removed => q.entry_map[j] = entry_map[j]
    BY <1>0, CleanupKeepsIndexInv
  <2> HIDE DEF q
  <2>2. /\ Discard(q, q.heap) \in IndexType
        /\ LiveOf(Discard(q, q.heap)) = Live
        /\ \A j \in Jobs : j \notin removed => Discard(q, q.heap).entry_map[j] = entry_map[j]
    BY <2>1, DiscardSound
  <2>3. Items' = Items
    BY <1>4, <2>2, WalkIsUnseen
  <2>4. ret' = [op |-> "pop", job |-> None] \/ ret' = [op |-> "wait", job |-> None]
    BY <1>4, <2>2, RoundThreads, InvParts DEF IndexType
  <2>5. Out' = None
    BY <2>4 DEF Out
  <2> QED BY <1>1, <2>3, <2>5, QuietStep
<1> QED BY <1>2, <1>3, <1>4, PopIsRound, RoundDoes

(* Each step of the queue is one of JobQueue. *)
LEMMA StepImplements ==
    ASSUME Inv, Single(Index), [UseNext]_vars
    PROVE  [Abstract!Next]_(Abstract!vars)
<1>0. IndexInv
  BY InvParts
<1>1. CASE \E j \in Jobs, p \in Priorities, t \in Times : PushFresh(j, p, t)
  BY <1>0, <1>1, PushPuts DEF Abstract!Next
<1>2. CASE \E j \in Jobs : PushFull(j)
  <2>1. Items' = Items /\ UNCHANGED <<shutdown, now>> /\ Out' = None
    BY <1>2 DEF PushFull, Items, Live, Mapped, Out, Returns
  <2> QED BY <2>1, QuietStep
<1>3. CASE \E j \in Jobs : Remove(j)
  BY <1>0, <1>3, RemoveDrops DEF Abstract!Next
<1>4. CASE Shutdown
  BY <1>4 DEF Shutdown, Returns, Live, Mapped, Abstract!Next, Abstract!Close
<1>5. CASE \E c \in Consumers : PopStep(c)
  BY <1>5, PopImplements
<1>6. CASE Tick
  BY <1>6 DEF Tick, Returns, Live, Mapped, Abstract!Next, Abstract!Tick
<1>7. CASE UNCHANGED vars
  BY <1>7 DEF vars, Live, Mapped, Abstract!vars
<1> QED BY <1>1, <1>2, <1>3, <1>4, <1>5, <1>6, <1>7 DEF UseNext

(* Heap, tombstones, walks, waits and wake-ups together are a queue that   *)
(* hands out each job once per push, when it is due, the most urgent due   *)
(* one first, and none after remove() or shutdown() (ImplementsJobQueue).  *)
THEOREM QueueImplementsJobQueue == UseSafety => ImplementsJobQueue
<1>1. Init => Abstract!Init
  BY DEF Init, Abstract!Init, Live, Mapped
<1>2. Init => Single(Index)
  BY DEF Init, Single, Index
<1>3. Inv /\ Single(Index) /\ [UseNext]_vars => Single(Index)'
  BY UseKeepsSingle
<1>4. Inv /\ Single(Index) /\ [UseNext]_vars => [Abstract!Next]_(Abstract!vars)
  BY StepImplements
<1> QED BY <1>1, <1>2, <1>3, <1>4, UseInv, PTL
        DEF UseSafety, ImplementsJobQueue, Abstract!Spec
=============================================================================
