--------------------------- MODULE SchedulerQueue ----------------------------
(***************************************************************************)
(* The priority queue under the calls the scheduler makes: push, pop,      *)
(* remove and shutdown, nothing else (scheduler.py:168,232,316,385,528,    *)
(* 582).  The scheduler pushes a job that is not in the heap: submit()     *)
(* refuses an id that is in the job store, a retry pushes the job a worker *)
(* has popped, and a job removed by cancel_job() is in a terminal state.   *)
(* Under that discipline the queue is the JobQueue of its specification.   *)
(***************************************************************************)
EXTENDS PriorityQueue

PushFresh(j, p, t) ==
    /\ j \notin JobIds(heap)
    /\ Push(j, p, t)

UseNext ==
    \/ \E j \in Jobs, p \in Priorities, t \in Times : PushFresh(j, p, t)
    \/ \E j \in Jobs : PushFull(j)
    \/ \E j \in Jobs : Remove(j)
    \/ Shutdown
    \/ \E c \in Consumers : PopStep(c)
    \/ Tick

(* Workers call pop() in a loop for as long as they live, a Condition wait *)
(* returns when it is notified or its time has come, and time passes.      *)
Fairness == WF_vars(Tick) /\ \A c \in Consumers : WF_vars(PopStep(c))

UseSafety == Init /\ [][UseNext]_vars

UseSpec == UseSafety /\ Fairness

-----------------------------------------------------------------------------
(* The heap holds the newest entry of each job in the dictionary and       *)
(* nothing else: lazy deletion leaves no entry behind that remove(),       *)
(* contains() or len() do not know of.                                     *)
HeapExact == heap = {entry_map[j] : j \in Mapped}

Abstract == INSTANCE JobQueue WITH
    items  <- [j \in Jobs |-> IF j \in Live THEN entry_map[j] ELSE None],
    closed <- shutdown,
    out    <- IF ret.op = "pop" THEN ret.job ELSE None

(* The queue implements its specification: each job is handed out once per *)
(* push, when due, in order, and not after remove() or shutdown().         *)
ImplementsJobQueue == Abstract!Spec

(* A queued job is handed out in the end (or removed, or the queue shut    *)
(* down): no wake-up is lost for good, although notify() may pick a        *)
(* consumer whose deadline has passed, and a consumer sleeps until the top *)
(* entry is due whatever else becomes due before.                          *)
EveryJobServed == \A j \in Jobs : (j \in Live) ~> (j \notin Live \/ shutdown)

(* A pop with a timeout returns: not always by its deadline, since it goes *)
(* round its loop without looking at it while the top entry is not due,    *)
(* but in the end.                                                         *)
TimedPopReturns ==
    \A c \in Consumers :
        (pops[c].pc # "idle" /\ pops[c].deadline # None) ~> (pops[c].pc = "idle")

(* shutdown() gets every consumer out of pop(), a sleeping one too. *)
ShutdownReleases ==
    shutdown ~> (\A c \in Consumers : pops[c].pc = "idle")
=============================================================================
