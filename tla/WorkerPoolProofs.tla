--------------------------- MODULE WorkerPoolProofs ---------------------------
(***************************************************************************)
(* Proofs about WorkerPool and Workers, for any number of workers and any  *)
(* configurations.                                                         *)
(***************************************************************************)
EXTENDS WorkerPool, FiniteSetTheorems, TLAPS

Few == 0 .. MaxTasks

AtMostOne == 0 .. 1

Hand == [queued : Few, running : Few, done : AtMostOne]

(* Something of the worker goes on. *)
Active(w) == Threaded(w) \/ child[w]

(* What is so of each worker, whoever acts on it. *)
Body(w) ==
    /\ hand[w].queued + hand[w].running <= MaxTasks
    /\ child[w] => kind = "process"
    /\ loop[w] = "drain" => kind = "async"
    /\ cancel[w] => kind = "async" /\ Threaded(w)
    /\ ~Threaded(w) \/ (kind = "thread" /\ loop[w] # "run") => hand[w] = Nothing
    /\ state[w] = "STOPPED" /\ Active(w) => told[w]

Bodies ==
    /\ WorkersTypeOK
    /\ \A w \in Ids : Body(w)
    /\ ThreadsFinishJobs

LEMMA NothingIsHand == Nothing \in Hand /\ Nothing.queued + Nothing.running <= MaxTasks
BY WorkersAssumption DEF Nothing, Hand, Few, AtMostOne

(* The hands of one worker change. *)
LEMMA NewHand ==
    ASSUME hand \in [Ids -> Hand], NEW w \in Ids, NEW h \in Hand, hand' = [hand EXCEPT ![w] = h]
    PROVE  hand' \in [Ids -> Hand] /\ hand'[w] = h /\ \A v \in Ids \ {w} : hand'[v] = hand[v]
OBVIOUS

(* A worker acts on itself only. *)
Alone(w) ==
    /\ \A v \in Ids \ {w} :
          /\ state'[v] = state[v] /\ loop'[v] = loop[v] /\ told'[v] = told[v]
          /\ hand'[v] = hand[v] /\ child'[v] = child[v] /\ cancel'[v] = cancel[v]
    /\ config' = config

LEMMA Others ==
    ASSUME Bodies, NEW w \in Ids, Alone(w), WorkersTypeOK', Body(w)', ThreadsFinishJobs'
    PROVE  Bodies'
<1>1. ASSUME NEW v \in Ids \ {w} PROVE Body(v)'
  <2>1. Body(v) /\ kind' = kind
    BY DEF Bodies, Alone, kind
  <2>2. /\ state'[v] = state[v] /\ loop'[v] = loop[v] /\ told'[v] = told[v]
        /\ hand'[v] = hand[v] /\ child'[v] = child[v] /\ cancel'[v] = cancel[v]
    BY DEF Alone
  <2> QED BY <2>1, <2>2 DEF Body, Active, Threaded, Nothing
<1> QED BY <1>1 DEF Bodies

-----------------------------------------------------------------------------
(* Steps of a worker on its own: its state and place change. *)

(* What a step of w has to be shown to do. *)
Good(w) ==
    /\ Bodies'
    /\ \A v \in Ids : Active(v)' => Active(v) /\ (told[v] => told'[v])
    /\ \A v \in Ids : ~Active(v) => ~Active(v)' /\ state'[v] = state[v]

LEMMA Assembled ==
    ASSUME Bodies, NEW w \in Ids, Alone(w), WorkersTypeOK', ThreadsFinishJobs', Body(w)',
           Active(w), Active(w)' => (told[w] => told'[w])
    PROVE  Good(w)
<1>1. Bodies'
  BY Others
<1>2. \A v \in Ids \ {w} : (Active(v)' <=> Active(v)) /\ told'[v] = told[v] /\ state'[v] = state[v]
  BY DEF Alone, Active, Threaded
<1> QED BY <1>1, <1>2 DEF Good

LEMMA Polling == ASSUME Bodies, NEW w \in Ids, Poll(w) \/ PollNothing(w) \/ Drain(w) PROVE Good(w)
<1> USE DEF Bodies, WorkersTypeOK
<1>1. PICK p \in {"poll", "top", "drain"} :
         /\ loop' = [loop EXCEPT ![w] = p] /\ loop[w] \in {"top", "poll"}
         /\ p = "drain" => kind = "async"
         /\ UNCHANGED <<config, state, told, hand, child, cancel, crashes, lost>>
  BY DEF Poll, PollNothing, Drain
<1>2. WorkersTypeOK' /\ ThreadsFinishJobs' /\ kind' = kind /\ Alone(w)
  BY <1>1 DEF ThreadsFinishJobs, kind, Alone
<1>3. loop'[w] = p /\ Threaded(w) /\ Threaded(w)' /\ Active(w)
  BY <1>1 DEF Active, Threaded
<1>4. Body(w)'
  BY <1>1, <1>2, <1>3 DEF Body, Active, Nothing
<1> QED BY <1>1, <1>2, <1>3, <1>4, Assembled

(* The hands of w change, and maybe its state, to one that is not STOPPED. *)
LEMMA Handling ==
    ASSUME Bodies, NEW w \in Ids, NEW h \in Hand, hand' = [hand EXCEPT ![w] = h],
           NEW s \in WorkerState, state' = [state EXCEPT ![w] = s],
           NEW p \in {"top", "poll", "run", "drain", "ended"}, loop' = [loop EXCEPT ![w] = p],
           h.queued + h.running <= MaxTasks,
           Active(w), p = loop[w] \/ (Threaded(w) /\ p \in {"top", "run"}),
           p = "ended" \/ (kind = "thread" /\ p # "run") => h = Nothing,
           s # "STOPPED" \/ s = state[w],
           UNCHANGED <<config, told, child, cancel, crashes, lost>>
    PROVE  Good(w)
<1> USE DEF Bodies, WorkersTypeOK
<1>1. hand' \in [Ids -> Hand] /\ hand'[w] = h /\ \A v \in Ids \ {w} : hand'[v] = hand[v]
  BY NewHand DEF Hand, Few, AtMostOne
<1>2. WorkersTypeOK' /\ ThreadsFinishJobs' /\ kind' = kind /\ Alone(w)
  BY <1>1 DEF ThreadsFinishJobs, kind, Alone, Hand, Few, AtMostOne
<1>3. loop'[w] = p /\ state'[w] = s /\ (Threaded(w)' <=> Threaded(w)) /\ Active(w)'
  BY DEF Active, Threaded
<1>4. Body(w)'
  BY <1>1, <1>2, <1>3 DEF Body, Active, Threaded, Nothing
<1> QED BY <1>2, <1>4, Assembled

LEMMA Unmoved ==
    ASSUME Bodies, NEW w \in Ids
    PROVE  /\ state = [state EXCEPT ![w] = state[w]] /\ state[w] \in WorkerState
           /\ loop = [loop EXCEPT ![w] = loop[w]]
           /\ loop[w] \in {"top", "poll", "run", "drain", "ended"}
           /\ hand \in [Ids -> Hand] /\ hand[w] \in Hand
BY DEF Bodies, WorkersTypeOK, Hand, Few, AtMostOne

(* The numbers of jobs in hand. *)
LEMMA Fields ==
    ASSUME NEW h \in Hand
    PROVE  h.queued \in Few /\ h.running \in Few /\ h.done \in AtMostOne
BY DEF Hand

WithQueued(h, q) == [h EXCEPT !.queued = q]
WithRunning(h, r) == [h EXCEPT !.running = r]
WithDone(h, d) == [h EXCEPT !.done = d]
WithBoth(h, q, r) == [h EXCEPT !.queued = q, !.running = r]
WithResult(h, r, d) == [h EXCEPT !.running = r, !.done = d]

LEMMA SetQueued ==
    ASSUME NEW h \in Hand, NEW q \in Few
    PROVE  LET k == WithQueued(h, q) IN k \in Hand /\ k.queued = q /\ k.running = h.running
BY DEF Hand, WithQueued

LEMMA SetRunning ==
    ASSUME NEW h \in Hand, NEW r \in Few
    PROVE  LET k == WithRunning(h, r) IN k \in Hand /\ k.queued = h.queued /\ k.running = r
BY DEF Hand, WithRunning

LEMMA SetDone ==
    ASSUME NEW h \in Hand, NEW d \in AtMostOne
    PROVE  LET k == WithDone(h, d) IN k \in Hand /\ k.queued = h.queued /\ k.running = h.running
BY DEF Hand, WithDone

LEMMA SetBoth ==
    ASSUME NEW h \in Hand, NEW q \in Few, NEW r \in Few
    PROVE  LET k == WithBoth(h, q, r) IN k \in Hand /\ k.queued = q /\ k.running = r
BY Zenon DEF Hand, WithBoth

LEMMA SetResult ==
    ASSUME NEW h \in Hand, NEW r \in Few, NEW d \in AtMostOne
    PROVE  LET k == WithResult(h, r, d) IN k \in Hand /\ k.queued = h.queued /\ k.running = r
BY Zenon DEF Hand, WithResult

LEMMA TakingJob == ASSUME Bodies, NEW w \in Ids, TakeJob(w) PROVE Good(w)
<1> DEFINE h == hand[w]
<1>0. h \in Hand
  BY Unmoved
<1>1. /\ loop[w] = "poll" /\ h \in Hand /\ Active(w) /\ Threaded(w)
      /\ h.queued + h.running < MaxTasks /\ h.queued + h.running <= MaxTasks
      /\ UNCHANGED <<config, told, child, cancel, crashes, lost>>
      /\ MaxTasks \in Nat \ {0} /\ kind \in {"thread", "process", "async"}
  BY Unmoved, WorkersAssumption DEF TakeJob, Bodies, Body, Active, Threaded, WorkersTypeOK, kind
<1>2. h.queued \in Few /\ h.running \in Few /\ h.done \in AtMostOne
  BY <1>1, Fields
<1>3. CASE kind = "thread"
  <2> DEFINE k == WithRunning(h, 1)
  <2>1. hand' = [hand EXCEPT ![w].running = 1] /\ state' = [state EXCEPT ![w] = "BUSY"]
        /\ loop' = [loop EXCEPT ![w] = "run"]
    BY <1>3 DEF TakeJob
  <2>2. 1 \in Few
    BY <1>1 DEF Few
  <2>3. k \in Hand /\ k.queued = h.queued /\ k.running = 1
    BY <1>0, <2>2, SetRunning
  <2>4. hand' = [hand EXCEPT ![w] = k]
    BY <2>1 DEF WithQueued, WithRunning, WithDone, WithBoth, WithResult
  <2>5. k.queued + k.running <= MaxTasks
    BY <1>1, <1>2, <2>3 DEF Few
  <2> HIDE DEF k, h
  <2> QED BY <1>1, <2>1, <2>3, <2>4, <2>5, Handling DEF WorkerState
<1>4. CASE kind = "process"
  <2> DEFINE k == WithQueued(h, 1)
  <2>1. hand' = [hand EXCEPT ![w].queued = 1] /\ state' = [state EXCEPT ![w] = "BUSY"]
        /\ loop' = [loop EXCEPT ![w] = "top"]
    BY <1>4 DEF TakeJob
  <2>2. 1 \in Few
    BY <1>1 DEF Few
  <2>3. k \in Hand /\ k.queued = 1 /\ k.running = h.running
    BY <1>0, <2>2, SetQueued
  <2>4. hand' = [hand EXCEPT ![w] = k]
    BY <2>1 DEF WithQueued, WithRunning, WithDone, WithBoth, WithResult
  <2>5. k.queued + k.running <= MaxTasks
    BY <1>1, <1>2, <2>3 DEF Few
  <2> HIDE DEF k, h
  <2> QED BY <1>1, <1>4, <2>1, <2>3, <2>4, <2>5, Handling DEF WorkerState
<1>5. CASE kind = "async"
  <2> DEFINE k == WithQueued(h, h.queued + 1)
  <2>1. hand' = [hand EXCEPT ![w].queued = @ + 1] /\ loop' = [loop EXCEPT ![w] = "top"]
        /\ UNCHANGED state
    BY <1>5 DEF TakeJob
  <2>2. h.queued + 1 \in Few
    BY <1>1, <1>2 DEF Few
  <2>3. k \in Hand /\ k.queued = h.queued + 1 /\ k.running = h.running
    BY <1>0, <2>2, SetQueued
  <2>4. hand' = [hand EXCEPT ![w] = k]
    BY <2>1 DEF WithQueued, WithRunning, WithDone, WithBoth, WithResult
  <2>5. k.queued + k.running <= MaxTasks
    BY <1>1, <1>2, <2>3 DEF Few
  <2>6. state' = [state EXCEPT ![w] = state[w]] /\ state[w] \in WorkerState
    BY <2>1, Unmoved
  <2> HIDE DEF k, h
  <2> QED BY <1>1, <1>5, <2>1, <2>3, <2>4, <2>5, <2>6, Handling
<1> QED BY <1>1, <1>3, <1>4, <1>5

LEMMA Finishing == ASSUME Bodies, NEW w \in Ids, FinishThread(w) PROVE Good(w)
<1>1. /\ loop[w] = "run" /\ Threaded(w) /\ Active(w)
      /\ UNCHANGED <<config, told, child, cancel, crashes, lost>>
      /\ hand' = [hand EXCEPT ![w] = Nothing] /\ state' = [state EXCEPT ![w] = "IDLE"]
      /\ loop' = [loop EXCEPT ![w] = "top"]
  BY DEF FinishThread, Active, Threaded
<1> QED BY <1>1, NothingIsHand, Handling DEF WorkerState

LEMMA ChildWorks ==
    ASSUME Bodies, NEW w \in Ids, ChildBegin(w) \/ ChildDone(w) \/ HandleResult(w)
    PROVE  Good(w)
<1> DEFINE h == hand[w]
<1>0. h \in Hand
  BY Unmoved
<1>1. /\ kind = "process" /\ Active(w) /\ h \in Hand /\ h # Nothing
      /\ UNCHANGED <<config, loop, told, child, cancel, crashes, lost>>
      /\ h.queued + h.running <= MaxTasks /\ loop[w] # "ended" 
      /\ MaxTasks \in Nat \ {0}
  BY Unmoved, WorkersAssumption
     DEF ChildBegin, ChildDone, HandleResult, Bodies, Body, Active, Threaded, Nothing
<1>2. h.queued \in Few /\ h.running \in Few /\ h.done \in AtMostOne
  BY <1>1, Fields
<1>3. /\ loop' = [loop EXCEPT ![w] = loop[w]]
      /\ loop[w] \in {"top", "poll", "run", "drain", "ended"}
      /\ state = [state EXCEPT ![w] = state[w]] /\ state[w] \in WorkerState
  BY <1>1, Unmoved
<1>4. 0 \in Few /\ 1 \in Few /\ 0 \in AtMostOne /\ 1 \in AtMostOne
  BY <1>1 DEF Few, AtMostOne
<1>5. ASSUME ChildBegin(w) PROVE Good(w)
  <2> DEFINE k == WithBoth(h, 0, 1)
  <2>1. hand' = [hand EXCEPT ![w].queued = 0, ![w].running = 1] /\ state' = state
    BY <1>5 DEF ChildBegin
  <2>2. k \in Hand /\ k.queued = 0 /\ k.running = 1
    BY <1>0, <1>4, SetBoth
  <2>3. hand' = [hand EXCEPT ![w] = k]
    BY <2>1, Unmoved DEF WithQueued, WithRunning, WithDone, WithBoth, WithResult
  <2>4. k.queued + k.running <= MaxTasks
    BY <1>1, <2>2 DEF Few
  <2> HIDE DEF k, h
  <2> QED BY <1>1, <1>3, <2>1, <2>2, <2>3, <2>4, Handling
<1>6. ASSUME ChildDone(w) PROVE Good(w)
  <2> DEFINE k == WithResult(h, 0, 1)
  <2>1. hand' = [hand EXCEPT ![w].running = 0, ![w].done = 1] /\ state' = state
    BY <1>6 DEF ChildDone
  <2>2. k \in Hand /\ k.queued = h.queued /\ k.running = 0
    BY <1>0, <1>4, SetResult
  <2>3. hand' = [hand EXCEPT ![w] = k]
    BY <2>1, Unmoved DEF WithQueued, WithRunning, WithDone, WithBoth, WithResult
  <2>4. k.queued + k.running <= MaxTasks
    BY <1>2, <2>2 DEF Few
  <2> HIDE DEF k, h
  <2> QED BY <1>1, <1>3, <2>1, <2>2, <2>3, <2>4, Handling
<1>7. ASSUME HandleResult(w) PROVE Good(w)
  <2> DEFINE k == WithDone(h, 0)
  <2>1. hand' = [hand EXCEPT ![w].done = 0] /\ state' \in {state, [state EXCEPT ![w] = "IDLE"]}
    BY <1>7 DEF HandleResult
  <2>2. k \in Hand /\ k.queued = h.queued /\ k.running = h.running
    BY <1>0, <1>4, SetDone
  <2>3. hand' = [hand EXCEPT ![w] = k]
    BY <2>1, Unmoved DEF WithQueued, WithRunning, WithDone, WithBoth, WithResult
  <2>4. k.queued + k.running <= MaxTasks
    BY <1>1, <2>2 DEF Few
  <2>5. PICK s \in WorkerState : state' = [state EXCEPT ![w] = s] /\ s \in {"IDLE", state[w]}
    BY <1>3, <2>1 DEF WorkerState
  <2> HIDE DEF k, h
  <2> QED BY <1>1, <1>3, <2>2, <2>3, <2>4, <2>5, Handling
<1> QED BY <1>5, <1>6, <1>7

LEMMA Tasking == ASSUME Bodies, NEW w \in Ids, TaskBegin(w) \/ TaskEnd(w) PROVE Good(w)
<1> DEFINE h == hand[w]
<1>0. h \in Hand
  BY Unmoved
<1>1. /\ kind = "async" /\ Threaded(w) /\ Active(w) /\ h \in Hand
      /\ UNCHANGED <<config, loop, told, child, cancel, crashes, lost>>
      /\ h.queued + h.running <= MaxTasks /\ loop[w] # "ended"
      /\ MaxTasks \in Nat \ {0}
  BY Unmoved, WorkersAssumption DEF TaskBegin, TaskEnd, Bodies, Body, Active, Threaded
<1>2. h.queued \in Few /\ h.running \in Few /\ h.done \in AtMostOne
  BY <1>1, Fields
<1>3. /\ loop' = [loop EXCEPT ![w] = loop[w]]
      /\ loop[w] \in {"top", "poll", "run", "drain", "ended"}
  BY <1>1, Unmoved
<1>4. ASSUME TaskBegin(w) PROVE Good(w)
  <2> DEFINE k == WithBoth(h, h.queued - 1, h.running + 1)
  <2>1. /\ hand' = [hand EXCEPT ![w].queued = @ - 1, ![w].running = @ + 1] /\ h.queued > 0
        /\ state' = [state EXCEPT ![w] = "BUSY"]
    BY <1>4 DEF TaskBegin
  <2>2. h.queued - 1 \in Few /\ h.running + 1 \in Few
    BY <1>1, <1>2, <2>1 DEF Few
  <2>3. k \in Hand /\ k.queued = h.queued - 1 /\ k.running = h.running + 1
    BY <1>0, <2>2, SetBoth
  <2>4. hand' = [hand EXCEPT ![w] = k]
    BY <2>1, Unmoved DEF WithQueued, WithRunning, WithDone, WithBoth, WithResult
  <2>5. k.queued + k.running <= MaxTasks
    BY <1>1, <1>2, <2>3 DEF Few
  <2> HIDE DEF k, h
  <2> QED BY <1>1, <1>3, <2>1, <2>3, <2>4, <2>5, Handling DEF WorkerState
<1>5. ASSUME TaskEnd(w) PROVE Good(w)
  <2> DEFINE k == WithRunning(h, h.running - 1)
  <2>1. /\ hand' = [hand EXCEPT ![w].running = @ - 1] /\ h.running > 0
        /\ state' = [state EXCEPT ![w] = "IDLE"]
    BY <1>5 DEF TaskEnd
  <2>2. h.running - 1 \in Few
    BY <1>1, <1>2, <2>1 DEF Few
  <2>3. k \in Hand /\ k.queued = h.queued /\ k.running = h.running - 1
    BY <1>0, <2>2, SetRunning
  <2>4. hand' = [hand EXCEPT ![w] = k]
    BY <2>1, Unmoved DEF WithQueued, WithRunning, WithDone, WithBoth, WithResult
  <2>5. k.queued + k.running <= MaxTasks
    BY <1>1, <1>2, <2>3 DEF Few
  <2> HIDE DEF k, h
  <2> QED BY <1>1, <1>3, <2>1, <2>3, <2>4, <2>5, Handling DEF WorkerState
<1> QED BY <1>4, <1>5

(* The steps that end something. *)
LEMMA Ending ==
    ASSUME Bodies, NEW w \in Ids,
           ChildExit(w) \/ CancelTasks(w) \/ EndThread(w) \/ EndCoordinator(w) \/ EndDrain(w)
    PROVE  Good(w)
<1> USE DEF Bodies, WorkersTypeOK
<1>1. Nothing \in Hand /\ hand \in [Ids -> Hand] /\ hand[w] \in Hand /\ Body(w)
  BY NothingIsHand, Unmoved
<1>2. CASE ChildExit(w)
  <2>1. /\ kind = "process" /\ child[w] /\ told[w] /\ child' = [child EXCEPT ![w] = FALSE]
        /\ told' = [told EXCEPT ![w] = Threaded(w)]
        /\ UNCHANGED <<config, state, loop, hand, cancel, crashes, lost>>
    BY <1>2 DEF ChildExit
  <2>2. /\ WorkersTypeOK' /\ ThreadsFinishJobs' /\ kind' = kind /\ Alone(w)
        /\ child'[w] = FALSE /\ told'[w] = Threaded(w)
    BY <2>1 DEF Threaded, ThreadsFinishJobs, kind, Alone
  <2>3. Active(w) /\ (Active(w)' <=> Threaded(w)) /\ (Threaded(w)' <=> Threaded(w))
    BY <2>1, <2>2 DEF Active, Threaded
  <2>4. Body(w)'
    BY <1>1, <2>1, <2>2, <2>3 DEF Body, Nothing
  <2> QED BY <2>2, <2>3, <2>4, Assembled
<1>3. CASE CancelTasks(w)
  <2>1. /\ cancel[w] /\ cancel' = [cancel EXCEPT ![w] = FALSE]
        /\ state' = [state EXCEPT ![w] = IF hand[w].running > 0 THEN "IDLE" ELSE state[w]]
        /\ hand' = [hand EXCEPT ![w] = Nothing] /\ lost' = (lost \/ hand[w] # Nothing)
        /\ UNCHANGED <<config, loop, told, child, crashes>>
    BY <1>3 DEF CancelTasks, Lose
  <2>2. kind = "async" /\ Threaded(w) /\ Active(w)
    BY <1>1, <2>1 DEF Body, Active
  <2>3. hand' \in [Ids -> Hand] /\ hand'[w] = Nothing /\ \A v \in Ids \ {w} : hand'[v] = hand[v]
    BY <1>1, <2>1, NewHand
  <2>4. /\ state' \in [Ids -> WorkerState] /\ state'[w] \in {"IDLE", state[w]}
        /\ \A v \in Ids \ {w} : state'[v] = state[v]
    BY <2>1 DEF WorkerState
  <2>5. /\ WorkersTypeOK' /\ ThreadsFinishJobs' /\ kind' = kind /\ Alone(w) /\ ~cancel'[w]
        /\ Threaded(w)' /\ Active(w)'
    BY <2>1, <2>2, <2>3, <2>4
       DEF Hand, Few, AtMostOne, ThreadsFinishJobs, kind, Alone, Threaded, Active
  <2>6. Nothing' = Nothing /\ Nothing.queued + Nothing.running <= MaxTasks
    BY NothingIsHand DEF Nothing
  <2>7. Body(w)'
    BY <1>1, <2>1, <2>2, <2>3, <2>4, <2>5, <2>6 DEF Body, Active, Threaded
  <2> QED BY <2>1, <2>2, <2>5, <2>7, Assembled
<1>4. CASE EndThread(w) \/ EndCoordinator(w) \/ EndDrain(w)
  <2>1. /\ loop' = [loop EXCEPT ![w] = "ended"] /\ Threaded(w)
        /\ state' \in {state, [state EXCEPT ![w] = "STOPPED"]}
        /\ UNCHANGED <<config, child, crashes>>
        /\ kind # "process" => told' = [told EXCEPT ![w] = FALSE]
        /\ kind = "process" => told' = [told EXCEPT ![w] = child[w]]
        /\ kind = "process" => UNCHANGED state /\ told[w]
    BY <1>1, <1>4 DEF EndThread, EndCoordinator, EndDrain, Threaded, Body, MustEnd
  <2>2. ~child[w] \/ kind = "process"
    BY <1>1 DEF Body
  <2>3. hand' \in [Ids -> Hand] /\ hand'[w] = Nothing /\ \A v \in Ids \ {w} : hand'[v] = hand[v]
    <3>1. CASE UNCHANGED hand /\ hand[w] = Nothing
      BY <1>1, <3>1
    <3>2. CASE hand' = [hand EXCEPT ![w] = Nothing]
      BY <1>1, <3>2, NewHand
    <3> QED BY <1>4, <3>1, <3>2 DEF EndThread, EndCoordinator, EndDrain, Lose
  <2>4. /\ cancel' \in [Ids -> BOOLEAN] /\ \A v \in Ids \ {w} : cancel'[v] = cancel[v]
        /\ ~cancel'[w]
    <3>1. CASE UNCHANGED cancel /\ ~cancel[w]
      BY <3>1
    <3>2. CASE cancel' = [cancel EXCEPT ![w] = FALSE]
      BY <3>2
    <3> QED BY <1>1, <1>4, <3>1, <3>2 DEF EndThread, EndCoordinator, EndDrain, Body
  <2>5. lost' \in BOOLEAN /\ (kind = "thread" => lost' = lost)
    <3>1. CASE EndThread(w)
      <4>1. hand[w] = Nothing
        BY <1>1, <3>1 DEF EndThread, Body
      <4> QED BY <3>1, <4>1 DEF EndThread, Lose
    <3>2. CASE EndCoordinator(w)
      BY <3>2 DEF EndCoordinator, Lose
    <3>3. CASE EndDrain(w)
      BY <3>3 DEF EndDrain
    <3> QED BY <1>4, <3>1, <3>2, <3>3
  <2>6. /\ told' \in [Ids -> BOOLEAN] /\ \A v \in Ids \ {w} : told'[v] = told[v]
        /\ kind = "process" => told'[w] = child[w]
    BY <2>1 DEF WorkersTypeOK, kind, WorkersAssumption
  <2>7. /\ state' \in [Ids -> WorkerState] /\ \A v \in Ids \ {w} : state'[v] = state[v]
        /\ kind = "process" => state' = state
    BY <2>1 DEF WorkerState
  <2>8. /\ WorkersTypeOK' /\ ThreadsFinishJobs' /\ kind' = kind /\ Alone(w)
        /\ loop'[w] = "ended" /\ child'[w] = child[w]
    BY <2>1, <2>3, <2>4, <2>5, <2>6, <2>7
       DEF Hand, Few, AtMostOne, ThreadsFinishJobs, kind, Alone
  <2>9. ~Threaded(w)' /\ (Active(w)' <=> child[w]) /\ Active(w)
    BY <2>1, <2>8 DEF Threaded, Active
  <2>10. Active(w)' => told'[w]
    BY <2>2, <2>6, <2>9
  <2>11. Nothing' = Nothing /\ Nothing.queued + Nothing.running <= MaxTasks
    BY NothingIsHand DEF Nothing
  <2>12. Body(w)'
    BY <2>2, <2>3, <2>4, <2>8, <2>9, <2>10, <2>11 DEF Body
  <2> QED BY <2>8, <2>9, <2>10, <2>12, Assembled
<1> QED BY <1>2, <1>3, <1>4

(* A job's function ends more than itself. *)
LEMMA Crashing == ASSUME Bodies, NEW w \in Ids, Crash(w) PROVE Good(w)
<1> USE DEF Bodies, WorkersTypeOK
<1>1. /\ hand[w].running > 0 /\ crashes' \in 0 .. MaxCrashes
      /\ hand' = [hand EXCEPT ![w] = Nothing] /\ UNCHANGED <<config, lost>>
  BY WorkersAssumption DEF Crash
<1>2. Nothing \in Hand /\ hand \in [Ids -> Hand] /\ hand[w] \in Hand /\ Body(w)
  BY NothingIsHand, Unmoved
<1>3. Threaded(w) /\ Active(w)
  BY <1>1, <1>2 DEF Body, Active, Nothing
<1>4. hand' \in [Ids -> Hand] /\ hand'[w] = Nothing /\ \A v \in Ids \ {w} : hand'[v] = hand[v]
  BY <1>1, <1>2, NewHand
<1>5. Nothing' = Nothing /\ Nothing.queued + Nothing.running <= MaxTasks
  BY NothingIsHand DEF Nothing
<1>6. CASE kind = "process"
  <2>1. child' = [child EXCEPT ![w] = FALSE] /\ UNCHANGED <<state, loop, told, cancel>>
    BY <1>6 DEF Crash
  <2>2. /\ WorkersTypeOK' /\ ThreadsFinishJobs' /\ kind' = kind /\ Alone(w) /\ ~child'[w]
    BY <1>1, <1>4, <2>1 DEF Hand, Few, AtMostOne, ThreadsFinishJobs, kind, Alone
  <2>3. Body(w)'
    BY <1>2, <1>3, <1>4, <1>5, <2>1, <2>2 DEF Body, Active, Threaded
  <2> QED BY <1>3, <2>1, <2>2, <2>3, Assembled
<1>7. CASE kind # "process"
  <2>1. /\ state' = [state EXCEPT ![w] = IF kind = "thread" THEN "IDLE" ELSE "STOPPED"]
        /\ loop' = [loop EXCEPT ![w] = "ended"] /\ told' = [told EXCEPT ![w] = FALSE]
        /\ cancel' = [cancel EXCEPT ![w] = FALSE] /\ UNCHANGED child
    BY <1>7 DEF Crash
  <2>2. /\ WorkersTypeOK' /\ ThreadsFinishJobs' /\ kind' = kind /\ Alone(w)
        /\ loop'[w] = "ended" /\ ~cancel'[w] /\ child'[w] = child[w]
    BY <1>1, <1>4, <2>1 DEF Hand, Few, AtMostOne, ThreadsFinishJobs, kind, Alone, WorkerState
  <2>3. ~Threaded(w)' /\ ~Active(w)'
    BY <1>2, <1>7, <2>2 DEF Body, Active, Threaded
  <2>4. Body(w)'
    BY <1>2, <1>4, <1>5, <1>7, <2>2, <2>3 DEF Body
  <2> QED BY <1>3, <2>2, <2>3, <2>4, Assembled
<1> QED BY <1>6, <1>7

LEMMA Working == ASSUME Bodies, NEW w \in Ids, Work(w) \/ Crash(w) PROVE Good(w)
BY Polling, TakingJob, Finishing, ChildWorks, Tasking, Ending, Crashing DEF Work

-----------------------------------------------------------------------------
(* What the pool does to workers. *)

LEMMA Starting ==
    ASSUME Bodies, NEW S \in SUBSET Ids, \A w \in S : ~Active(w), Started(S)
    PROVE  /\ Bodies'
           /\ \A v \in Ids \ S : /\ Active(v)' <=> Active(v)
                                 /\ told'[v] = told[v] /\ state'[v] = state[v]
<1> USE DEF Bodies, WorkersTypeOK
<1>1. /\ state' = [w \in Ids |-> IF w \in S THEN "IDLE" ELSE state[w]]
      /\ loop' = [w \in Ids |-> IF w \in S THEN "top" ELSE loop[w]]
      /\ told' = [w \in Ids |-> told[w] /\ w \notin S]
      /\ child' = [w \in Ids |-> IF w \in S THEN kind = "process" ELSE child[w]]
      /\ UNCHANGED <<config, hand, cancel, crashes, lost>>
  BY DEF Started, StartLoop, StartChild
<1>2. state' \in [Ids -> WorkerState] /\ loop' \in [Ids -> {"ended", "top", "poll", "run", "drain"}]
  BY <1>1 DEF WorkerState
<1>3. told' \in [Ids -> BOOLEAN] /\ child' \in [Ids -> BOOLEAN]
  BY <1>1
<1>4. WorkersTypeOK' /\ ThreadsFinishJobs' /\ kind' = kind
  BY <1>1, <1>2, <1>3 DEF ThreadsFinishJobs, kind
<1>5. \A v \in Ids \ S : /\ told'[v] = told[v] /\ child'[v] = child[v]
                         /\ loop'[v] = loop[v] /\ state'[v] = state[v]
  BY <1>1
<1>6. \A v \in Ids \ S : (Active(v)' <=> Active(v)) /\ (Threaded(v)' <=> Threaded(v))
  BY <1>5 DEF Active, Threaded
<1>7. ASSUME NEW v \in Ids PROVE Body(v)'
  <2>1. Body(v) /\ hand'[v] = hand[v] /\ cancel'[v] = cancel[v] /\ Nothing' = Nothing
    BY <1>1 DEF Nothing
  <2>2. CASE v \in S
    <3>1. hand[v] = Nothing /\ ~cancel[v]
      BY <2>1, <2>2 DEF Body, Active
    <3>2. loop'[v] = "top" /\ state'[v] = "IDLE" /\ child'[v] = (kind = "process")
      BY <1>1, <2>2
    <3> QED BY <1>4, <2>1, <3>1, <3>2 DEF Body
  <2>3. CASE v \notin S
    BY <1>4, <1>5, <1>6, <2>1, <2>3 DEF Body
  <2> QED BY <2>2, <2>3
<1> QED BY <1>4, <1>5, <1>6, <1>7

LEMMA BeingCreated ==
    ASSUME Bodies, NEW S \in SUBSET Ids, \A w \in S : ~Active(w), Created(S)
    PROVE  /\ Bodies'
           /\ \A v \in Ids : (Active(v)' <=> Active(v)) /\ told'[v] = told[v]
           /\ \A v \in Ids \ S : state'[v] = state[v]
           /\ \A v \in S : state'[v] = "STOPPED"
<1> USE DEF Bodies, WorkersTypeOK
<1>1. /\ state' = [w \in Ids |-> IF w \in S THEN "STOPPED" ELSE state[w]]
      /\ UNCHANGED <<config, loop, told, hand, child, cancel, crashes, lost>>
  BY DEF Created
<1>2. WorkersTypeOK' /\ ThreadsFinishJobs' /\ kind' = kind
  BY <1>1 DEF ThreadsFinishJobs, kind, WorkerState
<1>3. \A v \in Ids : (Active(v)' <=> Active(v)) /\ (Threaded(v)' <=> Threaded(v))
  BY <1>1 DEF Active, Threaded
<1>4. ASSUME NEW v \in Ids PROVE Body(v)'
  BY <1>1, <1>2, <1>3 DEF Body, Nothing
<1> QED BY <1>1, <1>2, <1>3, <1>4

LEMMA BeingStopped ==
    ASSUME Bodies, NEW w \in Ids, NEW wait \in BOOLEAN, Stopped(w, wait)
    PROVE  /\ Bodies'
           /\ \A v \in Ids : Active(v)' => Active(v) /\ (told[v] => told'[v])
           /\ \A v \in Ids : ~Active(v) => ~Active(v)'
           /\ \A v \in Ids : state[v] = "STOPPED" => state'[v] = "STOPPED"
           /\ Active(w)' => told'[w]
<1> USE DEF Bodies, WorkersTypeOK
<1>1. Body(w) /\ UNCHANGED <<config, loop, hand, crashes, lost>> /\ kind' = kind
      /\ Nothing' = Nothing /\ Threaded(w)' = Threaded(w)
  BY DEF Stopped, kind, Nothing, Threaded
<1>2. CASE state[w] = "STOPPED"
  <2>1. UNCHANGED <<state, told, child, cancel>>
    BY <1>2 DEF Stopped
  <2>2. Bodies'
    <3>1. WorkersTypeOK' /\ ThreadsFinishJobs'
      BY <1>1, <2>1 DEF ThreadsFinishJobs
    <3>2. \A v \in Ids : Body(v)'
      BY <1>1, <2>1 DEF Body, Active, Threaded
    <3> QED BY <3>1, <3>2
  <2>3. Active(w) => told[w]
    BY <1>1, <1>2 DEF Body
  <2> QED BY <1>1, <2>1, <2>2, <2>3 DEF Active, Threaded
<1>3. CASE state[w] # "STOPPED"
  <2>1. /\ state' \in [Ids -> WorkerState] /\ \A v \in Ids \ {w} : state'[v] = state[v]
        /\ kind # "process" => state'[w] = "STOPPING"
    BY <1>3 DEF Stopped, StopThread, StopProcess, StopAsync, WorkerState
  <2>2. /\ child' \in [Ids -> BOOLEAN] /\ \A v \in Ids \ {w} : child'[v] = child[v]
        /\ child'[w] => child[w]
    BY <1>3 DEF Stopped, StopThread, StopProcess, StopAsync
  <2>3. /\ cancel' \in [Ids -> BOOLEAN] /\ \A v \in Ids \ {w} : cancel'[v] = cancel[v]
        /\ cancel'[w] => cancel[w] \/ (kind = "async" /\ Threaded(w))
    BY <1>3 DEF Stopped, StopThread, StopProcess, StopAsync
  <2>4. /\ told' \in [Ids -> BOOLEAN] /\ \A v \in Ids \ {w} : told'[v] = told[v]
        /\ Threaded(w) \/ child'[w] => told'[w]
    <3>1. CASE kind = "process"
      <4>1. told' = [told EXCEPT ![w] = Threaded(w) \/ child'[w]]
        BY <1>3, <3>1 DEF Stopped, StopProcess
      <4> QED BY <4>1, <2>2 DEF Threaded
    <3>2. CASE kind # "process"
      <4>1. told' = [told EXCEPT ![w] = Threaded(w)]
        BY <1>3, <3>2 DEF Stopped, StopThread, StopAsync
      <4>2. ~child'[w]
        BY <1>1, <2>2, <3>2 DEF Body
      <4> QED BY <4>1, <4>2 DEF Threaded
    <3> QED BY <3>1, <3>2
  <2>5. WorkersTypeOK' /\ ThreadsFinishJobs' /\ Alone(w)
    BY <1>1, <2>1, <2>2, <2>3, <2>4 DEF ThreadsFinishJobs, Alone
  <2>6. Active(w)' => told'[w] /\ Active(w)
    BY <1>1, <2>2, <2>4 DEF Active, Threaded
  <2>7. Body(w)'
    BY <1>1, <2>2, <2>3, <2>6 DEF Body
  <2>8. Bodies'
    BY <2>5, <2>7, Others
  <2>9. \A v \in Ids \ {w} : (Active(v)' <=> Active(v))
    BY <2>5 DEF Alone, Active, Threaded
  <2>10. \A v \in Ids : Active(v)' => Active(v) /\ (told[v] => told'[v])
    BY <2>4, <2>6, <2>9
  <2>11. \A v \in Ids : state[v] = "STOPPED" => state'[v] = "STOPPED"
    BY <1>3, <2>1
  <2> QED BY <2>6, <2>8, <2>9, <2>10, <2>11
<1> QED BY <1>2, <1>3

-----------------------------------------------------------------------------
(* The table. *)

(* The pool's own variables. *)
PoolTypes ==
    /\ running \in BOOLEAN /\ unchecked \in BOOLEAN /\ late \subseteq Ids
    /\ quit \subseteq {"scaler", "health"}
    /\ stopping \in [Gens -> {"no", "scaler", "health", "join", "stop"}]
    /\ scaler \in [Gens -> {"off", "wait", "up", "down"}]
    /\ wanted \in [Gens -> 0 .. config.max_workers]
    /\ health \in [Gens -> {"off", "wait", "restart", "create", "start", "remove"}]
    /\ toRestart \in [Gens -> SUBSET Ids] /\ toRemove \in [Gens -> SUBSET Ids]
    /\ fresh \in [Gens -> SUBSET Ids]
    /\ starts \in 0 .. config.starts
    /\ running => starts # 0

(* A replacement that is being created does nothing yet and is in the table,   *)
(* and no other checker has it on its lists.                                   *)
Replacing ==
    /\ \A g \in Gens : fresh[g] \subseteq workers /\ (fresh[g] # {} => health[g] = "start")
    /\ \A g \in Gens : \A w \in fresh[g] : state[w] = "STOPPED" /\ ~Active(w)
    /\ \A g, h \in Gens : \A w \in fresh[g] :
          w \notin toRestart[h] /\ w \notin toRemove[h] /\ (w \in fresh[h] => g = h)

(* Every stop() that was called has listed the workers. *)
Settled == ~running /\ \A g \in Gens : stopping[g] \notin {"scaler", "health", "join"}

(* No worker is forgotten; and when every stop() has listed the workers, those *)
(* still to be stopped are all that has not been told, but for late ones.      *)
Reaching ==
    /\ workers \subseteq Ids
    /\ toStop \subseteq workers
    /\ LockFree => toStop = {}
    /\ NoneForgotten
    /\ Settled => \A w \in Ids : Active(w) => told[w] \/ w \in toStop \/ w \in late

Tended == Replacing /\ Reaching

Minded == Bodies /\ Tended

LEMMA ConfigNumbers ==
    ASSUME WorkersTypeOK
    PROVE  /\ config.min_workers \in Nat /\ config.max_workers \in Nat
           /\ config.starts \in 0 .. MaxStarts /\ MaxStarts \in Nat
           /\ config.min_workers <= config.max_workers
BY PoolAssumption DEF WorkersTypeOK, PoolConfig

LEMMA NewOnes ==
    ASSUME NEW n, NEW S \in NewIds(n)
    PROVE  /\ S \in SUBSET Ids /\ S \cap workers = {} /\ Cardinality(S) = n
           /\ \A w \in S : ~Active(w)
           /\ \A w \in S : \A g \in Gens : w \notin toRestart[g] /\ w \notin toRemove[g]
BY DEF NewIds, Unused, Over, Active

(* The bodies of workers in a step that leaves them alone. *)
LEMMA SameBodies ==
    ASSUME Bodies, UNCHANGED workerVars
    PROVE  /\ Bodies' /\ kind' = kind
           /\ \A w \in Ids : /\ Active(w)' <=> Active(w)
                             /\ told'[w] = told[w] /\ state'[w] = state[w]
<1>1. UNCHANGED <<config, state, loop, told, hand, child, cancel, crashes, lost>>
  BY DEF workerVars
<1>2. Bodies'
  BY <1>1 DEF Bodies, WorkersTypeOK, Body, Active, Threaded, Nothing, kind, ThreadsFinishJobs
<1> QED BY <1>1, <1>2 DEF Active, Threaded, kind

(* Workers of S start; the rest go on, or end, or have been told to stop. *)
LEMMA ReachingStart ==
    ASSUME Tended, NEW S \in SUBSET Ids, workers' = workers \cup S,
           \A v \in Ids \ S : (Active(v)' <=> Active(v)) /\ told'[v] = told[v],
           UNCHANGED <<toStop, stopping>>,
           running' \/ (~running /\ late' = late \cup S)
    PROVE  Reaching'
<1> USE DEF Tended, Reaching
<1>1. NoneForgotten'
  BY DEF NoneForgotten, Active
<1>2. LockFree' = LockFree /\ (Settled' => Settled /\ late' = late \cup S)
  BY DEF LockFree, Settled
<1>3. Settled' => \A w \in Ids : Active(w)' => told'[w] \/ w \in toStop' \/ w \in late'
  BY <1>2
<1> QED BY <1>1, <1>2, <1>3

(* Workers go from the table when they have been told to stop. *)
LEMMA ReachingStop ==
    ASSUME Tended, workers' \subseteq workers,
           \A v \in Ids : Active(v)' => Active(v) /\ (told[v] => told'[v]),
           \A v \in workers \ workers' : Active(v)' => told'[v],
           toStop' \subseteq toStop, toStop' \subseteq workers',
           \A v \in toStop \ toStop' : Active(v)' => told'[v],
           LockFree' => LockFree \/ toStop' = {},
           Settled' => Settled /\ late' = late
    PROVE  Reaching'
<1> USE DEF Tended, Reaching
<1>1. NoneForgotten'
  BY DEF NoneForgotten, Active
<1>2. Settled' => \A w \in Ids : Active(w)' => told'[w] \/ w \in toStop' \/ w \in late'
  OBVIOUS
<1> QED BY <1>1, <1>2

(* Replacements are left alone. *)
LEMMA ReplacingKept ==
    ASSUME Tended, UNCHANGED fresh,
           \A g \in Gens : fresh[g] # {} => health'[g] = "start",
           \A g \in Gens : \A w \in fresh[g] :
              w \in workers' /\ state'[w] = "STOPPED" /\ ~Active(w)',
           \A g, h \in Gens : \A w \in fresh[g] : w \notin toRestart'[h] /\ w \notin toRemove'[h]
    PROVE  Replacing'
BY DEF Tended, Replacing

LEMMA FreshOnes ==
    ASSUME Tended, PoolTypes, NEW g \in Gens, NEW w \in fresh[g]
    PROVE  w \in Ids /\ w \in workers /\ state[w] = "STOPPED" /\ ~Active(w) /\ health[g] = "start"
BY DEF Tended, Replacing, PoolTypes

(* A step of a worker, or one in which only threads of the pool move on. *)
LEMMA TendedWork ==
    ASSUME Minded, PoolTypes, UNCHANGED <<workers, fresh, toStop>>,
           LockFree' => LockFree \/ toStop' = {},
           Settled' => Settled /\ late' = late,
           \A v \in Ids : Active(v)' => Active(v) /\ (told[v] => told'[v]),
           \A v \in Ids : state[v] = "STOPPED" /\ ~Active(v) => ~Active(v)' /\ state'[v] = "STOPPED",
           \A g \in Gens : fresh[g] # {} => health'[g] = "start",
           \A g, h \in Gens : \A w \in fresh[g] : w \notin toRestart'[h] /\ w \notin toRemove'[h]
    PROVE  Tended'
<1>1. Reaching'
  <2>1. \A v \in workers \ workers' : Active(v)' => told'[v]
    OBVIOUS
  <2>2. \A v \in toStop \ toStop' : Active(v)' => told'[v]
    OBVIOUS
  <2>3. toStop' \subseteq workers' /\ Tended
    BY DEF Minded, Tended, Reaching
  <2> QED BY <2>1, <2>2, <2>3, ReachingStop
<1>2. \A g \in Gens : \A w \in fresh[g] : w \in workers' /\ state'[w] = "STOPPED" /\ ~Active(w)'
  BY FreshOnes DEF Minded
<1>3. Replacing'
  BY <1>2, ReplacingKept DEF Minded
<1> QED BY <1>1, <1>3 DEF Tended

(* Lists of a checker that no replacement is on. *)
LEMMA ListsKept ==
    ASSUME Tended, \A h \in Gens : toRestart'[h] \subseteq toRestart[h] /\ toRemove'[h] \subseteq toRemove[h]
    PROVE  \A g, h \in Gens : \A w \in fresh[g] : w \notin toRestart'[h] /\ w \notin toRemove'[h]
BY DEF Tended, Replacing

LEMMA TendedQuiet ==
    ASSUME Minded, PoolTypes, UNCHANGED <<workerVars, workers, fresh, toStop>>,
           LockFree' => LockFree \/ toStop' = {},
           Settled' => Settled /\ late' = late,
           \A g \in Gens : health[g] = "start" => health'[g] = "start",
           \A g, h \in Gens : \A w \in fresh[g] : w \notin toRestart'[h] /\ w \notin toRemove'[h]
    PROVE  Minded'
<1>1. /\ Bodies'
      /\ \A w \in Ids : (Active(w)' <=> Active(w)) /\ told'[w] = told[w] /\ state'[w] = state[w]
  BY SameBodies DEF Minded
<1>2. \A g \in Gens : fresh[g] # {} => health'[g] = "start"
  BY DEF Minded, Tended, Replacing
<1>3. Tended'
  BY <1>1, <1>2, TendedWork
<1> QED BY <1>1, <1>3 DEF Minded

(* Where stop() and start() are does not change. *)
LEMMA SameStops ==
    ASSUME UNCHANGED <<running, stopping>>
    PROVE  LockFree' = LockFree /\ Settled' = Settled
BY DEF LockFree, Settled

(* A worker is stopped and taken from the table. *)
LEMMA TendedRemove ==
    ASSUME Minded, PoolTypes, NEW w \in Ids, \A g \in Gens : w \notin fresh[g],
           RemoveWorker(w), LockFree, UNCHANGED <<running, stopping, toStop, late, fresh>>,
           \A g \in Gens : health[g] = "start" => health'[g] = "start",
           \A h \in Gens : toRestart'[h] \subseteq toRestart[h] /\ toRemove'[h] \subseteq toRemove[h]
    PROVE  Minded'
<1>1. Stopped(w, FALSE) /\ workers' = workers \ {w}
  BY DEF RemoveWorker
<1>2. /\ Bodies'
      /\ \A v \in Ids : Active(v)' => Active(v) /\ (told[v] => told'[v])
      /\ \A v \in Ids : ~Active(v) => ~Active(v)'
      /\ \A v \in Ids : state[v] = "STOPPED" => state'[v] = "STOPPED"
      /\ Active(w)' => told'[w]
  BY <1>1, BeingStopped DEF Minded
<1>3. toStop = {} /\ toStop' = {} /\ Tended
  BY DEF Minded, Tended, Reaching
<1>4. Reaching'
  <2>1. \A v \in workers \ workers' : Active(v)' => told'[v]
    BY <1>1, <1>2
  <2>2. workers' \subseteq workers /\ toStop' \subseteq toStop /\ toStop' \subseteq workers'
    BY <1>1, <1>3
  <2>3. \A v \in toStop \ toStop' : Active(v)' => told'[v]
    BY <1>3
  <2> QED BY <1>2, <1>3, <2>1, <2>2, <2>3, SameStops, ReachingStop
<1>5. \A g \in Gens : \A v \in fresh[g] : v \in workers' /\ state'[v] = "STOPPED" /\ ~Active(v)'
  BY <1>1, <1>2, <1>3, FreshOnes
<1>6. \A g \in Gens : fresh[g] # {} => health'[g] = "start"
  BY <1>3 DEF Tended, Replacing
<1>7. Replacing'
  BY <1>3, <1>5, <1>6, ListsKept, ReplacingKept
<1> QED BY <1>2, <1>4, <1>7 DEF Minded, Tended

LEMMA TendedDown ==
    ASSUME Minded, PoolTypes, ScaleDown,
           UNCHANGED <<running, stopping, toStop, fresh, health, toRestart, toRemove>>
    PROVE  Minded'
<1>1. CASE \E w \in Idle : RemoveWorker(w)
  <2>1. PICK w \in Idle : RemoveWorker(w)
    BY <1>1
  <2>2. w \in Ids /\ \A g \in Gens : w \notin fresh[g]
    BY <2>1, FreshOnes DEF Idle, Minded, Tended, Reaching
  <2>3. LockFree /\ late' = late
    BY DEF ScaleDown
  <2> QED BY <2>1, <2>2, <2>3, TendedRemove
<1>2. CASE UNCHANGED <<workerVars, workers>>
  <2>1. late' = late /\ Tended
    BY DEF ScaleDown, Minded
  <2>2. LockFree' = LockFree /\ Settled' = Settled
    BY SameStops
  <2> QED BY <1>2, <2>1, <2>2, ListsKept, TendedQuiet
<1> QED BY <1>1, <1>2 DEF ScaleDown

(* Workers of S are put into the table and started. *)
LEMMA TendedSpawn ==
    ASSUME Minded, PoolTypes, NEW S \in SUBSET Ids, S \cap workers = {}, \A w \in S : ~Active(w),
           \A w \in S : \A g \in Gens : w \notin toRestart[g] /\ w \notin toRemove[g],
           workers' = workers \cup S, Started(S),
           UNCHANGED <<toStop, stopping, fresh, toRestart, toRemove>>,
           \A g \in Gens : health[g] = "start" => health'[g] = "start",
           running' \/ (~running /\ late' = late \cup S)
    PROVE  Minded'
<1>1. /\ Bodies'
      /\ \A v \in Ids \ S : /\ Active(v)' <=> Active(v)
                            /\ told'[v] = told[v] /\ state'[v] = state[v]
  BY Starting DEF Minded
<1>2. Reaching' /\ Tended
  BY <1>1, ReachingStart DEF Minded
<1>3. \A g \in Gens : \A w \in fresh[g] : w \in workers' /\ state'[w] = "STOPPED" /\ ~Active(w)'
  BY <1>1, <1>2, FreshOnes
<1>4. \A g \in Gens : fresh[g] # {} => health'[g] = "start"
  BY <1>2 DEF Tended, Replacing
<1>5. Replacing'
  BY <1>2, <1>3, <1>4, ListsKept, ReplacingKept
<1> QED BY <1>1, <1>2, <1>5 DEF Minded, Tended

LEMMA MindedInit == Init => Minded
<1> SUFFICES ASSUME Init PROVE Minded
  OBVIOUS
<1> USE DEF Init, WorkersInit
<1>1. Nothing \in Hand /\ Nothing.queued + Nothing.running <= MaxTasks
  BY NothingIsHand
<1>2. hand \in [Ids -> Hand] /\ \A w \in Ids : hand[w] = Nothing
  BY <1>1
<1>3. WorkersTypeOK
  <2>1. hand \in [Ids -> [queued : 0 .. MaxTasks, running : 0 .. MaxTasks, done : 0 .. 1]]
    BY <1>2 DEF Hand, Few, AtMostOne
  <2>2. crashes \in 0 .. MaxCrashes
    BY WorkersAssumption
  <2> HIDE DEF Init, WorkersInit
  <2>3. config \in Configs /\ state \in [Ids -> WorkerState] /\ lost \in BOOLEAN
    BY DEF Init, WorkersInit, WorkerState
  <2>4. /\ loop \in [Ids -> {"ended", "top", "poll", "run", "drain"}]
        /\ told \in [Ids -> BOOLEAN] /\ child \in [Ids -> BOOLEAN] /\ cancel \in [Ids -> BOOLEAN]
    BY DEF Init, WorkersInit
  <2> QED BY <2>1, <2>2, <2>3, <2>4 DEF WorkersTypeOK
<1>4. \A w \in Ids : ~Active(w) /\ ~Threaded(w) /\ ~child[w] /\ loop[w] = "ended" /\ ~cancel[w]
  BY DEF Active, Threaded
<1>5. Bodies
  BY <1>1, <1>2, <1>3, <1>4 DEF Bodies, Body, ThreadsFinishJobs
<1>6. Tended
  <2>1. Reaching
    BY <1>4 DEF Reaching, NoneForgotten, Active
  <2>2. \A g \in Gens : fresh[g] = {}
    OBVIOUS
  <2> QED BY <2>1, <2>2 DEF Tended, Replacing
<1> QED BY <1>5, <1>6 DEF Minded

(* A start() to come has no health checker yet. *)
Unstarted == \A g \in Gens : g > starts => health[g] = "off"

LEMMA MindedNext == ASSUME Minded, PoolTypes, Unstarted, [Next]_vars PROVE Minded'
<1>0. Bodies /\ Tended
  BY DEF Minded
<1>1. CASE Start
  <2>1. PICK S \in NewIds(config.min_workers) : workers' = workers \cup S /\ Started(S)
    BY <1>1 DEF Start
  <2>2. /\ running' /\ UNCHANGED <<toStop, stopping, fresh, toRestart, toRemove>>
        /\ health' = [health EXCEPT ![starts + 1] = "wait"]
    BY <1>1 DEF Start
  <2>3. ~running /\ starts < config.starts
    BY <1>1 DEF Start
  <2>4. PICK g \in Gens : g = starts + 1
    BY <1>0, <2>3, ConfigNumbers DEF Bodies, PoolTypes, Gens
  <2>5. CASE health[g] # "start"
    <3>1. \A h \in Gens : health[h] = "start" => health'[h] = "start"
      BY <2>2, <2>4, <2>5 DEF PoolTypes
    <3> QED BY <2>1, <2>2, <3>1, NewOnes, TendedSpawn
  <2>6. health[g] # "start"
    BY <2>4 DEF Unstarted, PoolTypes
  <2> QED BY <2>5, <2>6
<1>2. ASSUME NEW n, ScaleUp(n), UNCHANGED <<stopVars, healthVars>> PROVE Minded'
  <2>0. PICK m : \E S \in NewIds(m) : Spawn(S)
    BY <1>2 DEF ScaleUp
  <2>1. PICK S \in NewIds(m) : Spawn(S)
    BY <2>0
  <2>2. /\ workers' = workers \cup S /\ Started(S)
        /\ late' = IF running THEN late \ S ELSE late \cup S
    BY <2>1 DEF Spawn, Begun
  <2>3. UNCHANGED <<running, stopping, toStop, health, fresh, toRestart, toRemove>>
    BY <1>2 DEF stopVars, healthVars
  <2>4. running' \/ (~running /\ late' = late \cup S)
    BY <2>2, <2>3 DEF PoolTypes
  <2> QED BY <2>1, <2>2, <2>3, <2>4, NewOnes, TendedSpawn
<1>3. ASSUME ScaleDown, UNCHANGED <<stopVars, healthVars>> PROVE Minded'
  BY <1>3, TendedDown DEF stopVars, healthVars
<1>4. CASE Stop
  <2>1. /\ running /\ stopping' = [stopping EXCEPT ![starts] = "scaler"] /\ LockFree
        /\ UNCHANGED <<workerVars, workers, fresh, health, toStop, toRestart, toRemove>>
    BY <1>4 DEF Stop, healthVars
  <2>2. starts \in Gens
    BY <1>0, <2>1, ConfigNumbers DEF Bodies, PoolTypes, Gens
  <2>3. stopping'[starts] = "scaler"
    BY <2>1, <2>2 DEF PoolTypes
  <2>4. ~Settled'
    BY <2>2, <2>3 DEF Settled
  <2> QED BY <1>0, <2>1, <2>4, ListsKept, TendedQuiet
<1>5. ASSUME NEW g \in Gens, StopEvent(g) PROVE Minded'
  <2>1. /\ stopping' = [stopping EXCEPT ![g] = IF stopping[g] = "scaler" THEN "health" ELSE "join"]
        /\ UNCHANGED <<workerVars, workers, fresh, health, toStop, toRestart, toRemove>>
        /\ stopping[g] # "stop"
    BY <1>5 DEF StopEvent, healthVars
  <2>2. stopping'[g] \in {"health", "join"} /\ \A h \in Gens \ {g} : stopping'[h] = stopping[h]
    BY <2>1 DEF PoolTypes
  <2>3. ~Settled' /\ (LockFree' => LockFree)
    BY <2>1, <2>2 DEF Settled, LockFree
  <2> QED BY <1>0, <2>1, <2>3, ListsKept, TendedQuiet
<1>6. ASSUME NEW g \in Gens, StopJoin(g) PROVE Minded'
  <2>1. /\ stopping' = [stopping EXCEPT ![g] = "stop"] /\ toStop' = workers
        /\ UNCHANGED <<workerVars, workers, fresh, health, toRestart, toRemove>>
    BY <1>6 DEF StopJoin, healthVars
  <2>2. /\ Bodies'
        /\ \A w \in Ids : /\ Active(w)' <=> Active(w)
                          /\ told'[w] = told[w] /\ state'[w] = state[w]
    BY <1>0, <2>1, SameBodies
  <2>3. ~LockFree'
    BY <2>1 DEF LockFree, PoolTypes
  <2>4. NoneForgotten' /\ \A w \in Ids : Active(w)' => told'[w] \/ w \in toStop'
    BY <1>0, <2>1, <2>2 DEF Tended, Reaching, NoneForgotten, Active
  <2>5. Reaching'
    BY <1>0, <2>1, <2>3, <2>4 DEF Reaching, Tended
  <2>6. \A h \in Gens : \A w \in fresh[h] : w \in workers' /\ state'[w] = "STOPPED" /\ ~Active(w)'
    BY <1>0, <2>1, <2>2, FreshOnes
  <2>7. \A h \in Gens : fresh[h] # {} => health'[h] = "start"
    BY <1>0, <2>1 DEF Tended, Replacing
  <2>8. Replacing'
    BY <1>0, <2>1, <2>6, <2>7, ListsKept, ReplacingKept
  <2> QED BY <2>2, <2>5, <2>8 DEF Minded, Tended
<1>7. ASSUME NEW g \in Gens, StopReturn(g) PROVE Minded'
  <2>1. /\ stopping' = [stopping EXCEPT ![g] = "no"] /\ toStop = {} /\ stopping[g] = "stop"
        /\ UNCHANGED <<workerVars, workers, fresh, health, running, toStop, late, toRestart, toRemove>>
    BY <1>7 DEF StopReturn, healthVars
  <2>2. \A h \in Gens : stopping[h] \in {stopping'[h], "stop"}
    BY <2>1 DEF PoolTypes
  <2>3. Settled' => Settled
    BY <2>1, <2>2 DEF Settled
  <2> QED BY <1>0, <2>1, <2>3, ListsKept, TendedQuiet
<1>8. ASSUME NEW g \in Gens, NEW w \in Ids, NEW wait \in BOOLEAN, StopWorker(g, w, wait)
      PROVE  Minded'
  <2>1. /\ w \in toStop /\ Stopped(w, wait) /\ toStop' = toStop \ {w} /\ stopping[g] = "stop"
        /\ UNCHANGED <<workers, running, stopping, late, fresh, health, toRestart, toRemove>>
    BY <1>8 DEF StopWorker, healthVars
  <2>2. /\ Bodies'
        /\ \A v \in Ids : Active(v)' => Active(v) /\ (told[v] => told'[v])
        /\ \A v \in Ids : ~Active(v) => ~Active(v)'
        /\ \A v \in Ids : state[v] = "STOPPED" => state'[v] = "STOPPED"
        /\ Active(w)' => told'[w]
    BY <1>0, <2>1, BeingStopped
  <2>3. Settled' = Settled /\ ~LockFree'
    BY <2>1, SameStops DEF LockFree
  <2>4. \A v \in toStop \ toStop' : Active(v)' => told'[v]
    BY <2>1, <2>2
  <2>5. \A v \in workers \ workers' : Active(v)' => told'[v]
    BY <2>1
  <2>6. toStop' \subseteq workers' /\ toStop' \subseteq toStop
    BY <1>0, <2>1 DEF Tended, Reaching
  <2>7. Reaching'
    BY <1>0, <2>1, <2>2, <2>3, <2>4, <2>5, <2>6, ReachingStop
  <2>8. \A h \in Gens : \A v \in fresh[h] : v \in workers' /\ state'[v] = "STOPPED" /\ ~Active(v)'
    BY <1>0, <2>1, <2>2, FreshOnes
  <2>9. \A h \in Gens : fresh[h] # {} => health'[h] = "start"
    BY <1>0, <2>1 DEF Tended, Replacing
  <2>10. Replacing'
    BY <1>0, <2>1, <2>8, <2>9, ListsKept, ReplacingKept
  <2> QED BY <2>2, <2>7, <2>10 DEF Minded, Tended
<1>9. ASSUME NEW g \in Gens, ScalerDecide(g) \/ ScalerEnd(g) PROVE Minded'
  <2>1. /\ UNCHANGED <<workerVars, workers, fresh, toStop, running, stopping, late>>
        /\ UNCHANGED <<health, toRestart, toRemove>>
    BY <1>9 DEF ScalerDecide, ScalerEnd, healthVars, stopVars
  <2> QED BY <1>0, <2>1, SameStops, ListsKept, TendedQuiet
<1>10. ASSUME NEW g \in Gens, HealthCheck(g) PROVE Minded'
  <2>1. /\ UNCHANGED <<workerVars, workers, fresh, toStop, running, stopping, late>>
        /\ health' = [health EXCEPT ![g] = "restart"] /\ health[g] = "wait"
    BY <1>10 DEF HealthCheck, stopVars
  <2>2. PICK A, B \in SUBSET Ids : /\ toRestart' = [toRestart EXCEPT ![g] = A]
                                   /\ toRemove' = [toRemove EXCEPT ![g] = B]
                                   /\ \A w \in A \cup B : state[w] # "STOPPED"
    <3>1. PICK slow \in SUBSET {w \in workers : state[w] = "BUSY"} :
             toRestart' = [toRestart EXCEPT ![g] = {w \in workers : Dead(w)} \cup slow]
      BY <1>10 DEF HealthCheck
    <3>2. PICK old \in SUBSET Idle : toRemove' = [toRemove EXCEPT ![g] = old]
      BY <1>10 DEF HealthCheck
    <3>3. workers \subseteq Ids
      BY <1>0 DEF Tended, Reaching
    <3> DEFINE A == {w \in workers : Dead(w)} \cup slow
    <3>4. A \in SUBSET Ids /\ \A w \in A : state[w] # "STOPPED"
      BY <3>3 DEF Dead
    <3>5. old \in SUBSET Ids /\ \A w \in old : state[w] # "STOPPED"
      BY <3>3 DEF Idle
    <3>6. toRestart' = [toRestart EXCEPT ![g] = A]
      BY <3>1
    <3> HIDE DEF A
    <3>7. \A w \in A \cup old : state[w] # "STOPPED"
      BY <3>4, <3>5
    <3> QED BY <3>2, <3>4, <3>5, <3>6, <3>7
  <2>3. \A h \in Gens : health[h] = "start" => health'[h] = "start"
    BY <2>1 DEF PoolTypes
  <2>4. \A h \in Gens : toRestart'[h] \in {toRestart[h], A} /\ toRemove'[h] \in {toRemove[h], B}
    BY <2>2 DEF PoolTypes
  <2>5. \A k, h \in Gens : \A w \in fresh[k] : w \notin toRestart'[h] /\ w \notin toRemove'[h]
    <3> SUFFICES ASSUME NEW k \in Gens, NEW h \in Gens, NEW w \in fresh[k]
                 PROVE  w \notin toRestart'[h] /\ w \notin toRemove'[h]
      OBVIOUS
    <3>1. w \notin A /\ w \notin B
      BY <1>0, <2>2, FreshOnes
    <3>2. w \notin toRestart[h] /\ w \notin toRemove[h]
      BY <1>0 DEF Tended, Replacing
    <3> QED BY <2>4, <3>1, <3>2
  <2> QED BY <1>0, <2>1, <2>3, <2>5, SameStops, TendedQuiet
<1>11. ASSUME NEW g \in Gens, RestartsDone(g) \/ HealthDone(g) \/ HealthEnd(g) PROVE Minded'
  <2>1. /\ UNCHANGED <<workerVars, workers, fresh, toStop, running, stopping, late>>
        /\ UNCHANGED <<toRestart, toRemove>>
        /\ health[g] # "start" /\ \E h : health' = [health EXCEPT ![g] = h]
    BY <1>11 DEF RestartsDone, HealthDone, HealthEnd, stopVars
  <2>2. \A h \in Gens : health[h] = "start" => health'[h] = "start"
    BY <2>1 DEF PoolTypes
  <2> QED BY <1>0, <2>1, <2>2, SameStops, ListsKept, TendedQuiet
<1>12. ASSUME NEW g \in Gens, NEW w \in Ids, RestartRemove(g, w) \/ HealthRemove(g, w)
       PROVE  Minded'
  <2>1. /\ LockFree /\ UNCHANGED <<running, stopping, toStop, late, fresh>>
        /\ w \in toRestart[g] \/ w \in toRemove[g]
        /\ health' = health \/ (health[g] # "start" /\ health' = [health EXCEPT ![g] = "create"])
        /\ \/ toRestart' = [toRestart EXCEPT ![g] = toRestart[g] \ {w}] /\ toRemove' = toRemove
           \/ toRemove' = [toRemove EXCEPT ![g] = toRemove[g] \ {w}] /\ toRestart' = toRestart
        /\ RemoveWorker(w) \/ UNCHANGED <<workerVars, workers>>
    BY <1>12 DEF RestartRemove, HealthRemove, stopVars
  <2>2. \A h \in Gens : w \notin fresh[h]
    BY <1>0, <2>1 DEF Tended, Replacing
  <2>3. \A h \in Gens : toRestart'[h] \subseteq toRestart[h] /\ toRemove'[h] \subseteq toRemove[h]
    BY <2>1 DEF PoolTypes
  <2>4. \A h \in Gens : health[h] = "start" => health'[h] = "start"
    BY <2>1 DEF PoolTypes
  <2>5. CASE RemoveWorker(w)
    BY <2>1, <2>2, <2>3, <2>4, <2>5, TendedRemove
  <2>6. CASE UNCHANGED <<workerVars, workers>>
    BY <1>0, <2>1, <2>3, <2>4, <2>6, SameStops, ListsKept, TendedQuiet
  <2> QED BY <2>1, <2>5, <2>6
<1>13. ASSUME NEW g \in Gens, RestartCreate(g) PROVE Minded'
  <2>1. PICK S \in NewIds(1) : /\ Created(S) /\ workers' = workers \cup S
                               /\ fresh' = [fresh EXCEPT ![g] = S]
    BY <1>13 DEF RestartCreate
  <2>2. /\ health[g] = "create" /\ health' = [health EXCEPT ![g] = "start"]
        /\ UNCHANGED <<running, stopping, toStop, late, toRestart, toRemove>>
    BY <1>13 DEF RestartCreate, stopVars
  <2>3. /\ S \in SUBSET Ids /\ \A w \in S : ~Active(w) /\ w \notin workers
        /\ \A w \in S : \A h \in Gens : w \notin toRestart[h] /\ w \notin toRemove[h]
    BY <2>1, NewOnes
  <2>4. /\ Bodies'
        /\ \A v \in Ids : (Active(v)' <=> Active(v)) /\ told'[v] = told[v]
        /\ \A v \in Ids \ S : state'[v] = state[v]
        /\ \A v \in S : state'[v] = "STOPPED"
    BY <1>0, <2>1, <2>3, BeingCreated
  <2>5. Reaching'
    <3>1. NoneForgotten'
      BY <1>0, <2>1, <2>4 DEF Tended, Reaching, NoneForgotten, Active
    <3>2. Settled' = Settled /\ LockFree' = LockFree
      BY <2>2, SameStops
    <3>3. Settled' => \A v \in Ids : Active(v)' => told'[v] \/ v \in toStop' \/ v \in late'
      BY <1>0, <2>2, <2>4, <3>2 DEF Tended, Reaching
    <3> QED BY <1>0, <2>1, <2>2, <2>3, <3>1, <3>2, <3>3 DEF Tended, Reaching
  <2>6. fresh'[g] = S /\ \A h \in Gens \ {g} : fresh'[h] = fresh[h] /\ health'[h] = health[h]
    BY <2>1, <2>2 DEF PoolTypes
  <2>7. health'[g] = "start"
    BY <2>2 DEF PoolTypes
  <2>8. \A h \in Gens \ {g} : \A w \in fresh[h] : w \in workers /\ w \notin S
    BY <1>0, <2>3, FreshOnes
  <2>9. Replacing'
    <3>1. \A h \in Gens : fresh'[h] \subseteq workers' /\ (fresh'[h] # {} => health'[h] = "start")
      BY <1>0, <2>1, <2>6, <2>7 DEF Tended, Replacing
    <3>2. \A h \in Gens : \A w \in fresh'[h] : state'[w] = "STOPPED" /\ ~Active(w)'
      BY <1>0, <2>3, <2>4, <2>6, <2>8, FreshOnes
    <3>3. \A k, h \in Gens : \A w \in fresh'[k] :
             w \notin toRestart'[h] /\ w \notin toRemove'[h]
      BY <1>0, <2>2, <2>3, <2>6 DEF Tended, Replacing
    <3>4. \A k, h \in Gens : \A w \in fresh'[k] : w \in fresh'[h] => k = h
      BY <1>0, <2>6, <2>8 DEF Tended, Replacing
    <3> QED BY <3>1, <3>2, <3>3, <3>4 DEF Replacing
  <2> QED BY <2>4, <2>5, <2>9 DEF Minded, Tended
<1>14. ASSUME NEW g \in Gens, RestartStart(g) PROVE Minded'
  <2>1. /\ Started(fresh[g]) /\ fresh' = [fresh EXCEPT ![g] = {}]
        /\ health' = [health EXCEPT ![g] = "restart"]
        /\ late' = IF running THEN late \ fresh[g] ELSE late \cup fresh[g]
        /\ UNCHANGED <<workers, running, stopping, toStop, toRestart, toRemove>>
    BY <1>14 DEF RestartStart, stopVars, Begun
  <2>2. fresh[g] \in SUBSET Ids /\ (\A w \in fresh[g] : ~Active(w)) /\ workers' = workers \cup fresh[g]
    BY <1>0, <2>1, FreshOnes
  <2>3. /\ Bodies'
        /\ \A v \in Ids \ fresh[g] : /\ Active(v)' <=> Active(v)
                                     /\ told'[v] = told[v] /\ state'[v] = state[v]
    BY <1>0, <2>1, <2>2, Starting
  <2>4. running' \/ (~running /\ late' = late \cup fresh[g])
    BY <2>1 DEF PoolTypes
  <2>5. Reaching'
    BY <1>0, <2>1, <2>2, <2>3, <2>4, ReachingStart
  <2>6. fresh'[g] = {} /\ \A h \in Gens \ {g} : fresh'[h] = fresh[h] /\ health'[h] = health[h]
    BY <2>1 DEF PoolTypes
  <2>7. \A h \in Gens \ {g} : \A w \in fresh[h] : w \in Ids \ fresh[g]
    BY <1>0, FreshOnes DEF Tended, Replacing
  <2>8. Replacing'
    <3>1. \A h \in Gens : fresh'[h] \subseteq workers' /\ (fresh'[h] # {} => health'[h] = "start")
      BY <1>0, <2>1, <2>6 DEF Tended, Replacing
    <3>2. \A h \in Gens : \A w \in fresh'[h] : state'[w] = "STOPPED" /\ ~Active(w)'
      BY <1>0, <2>3, <2>6, <2>7, FreshOnes
    <3>3. \A k, h \in Gens : \A w \in fresh'[k] :
             w \notin toRestart'[h] /\ w \notin toRemove'[h] /\ (w \in fresh'[h] => k = h)
      BY <1>0, <2>1, <2>6 DEF Tended, Replacing
    <3> QED BY <3>1, <3>2, <3>3 DEF Replacing
  <2> QED BY <2>3, <2>5, <2>8 DEF Minded, Tended
<1>15. ASSUME NEW w \in Ids, Work(w) \/ Crash(w), UNCHANGED poolVars PROVE Minded'
  <2>1. Good(w)
    BY <1>0, <1>15, Working
  <2>2. /\ UNCHANGED <<workers, fresh, toStop, running, stopping, late>>
        /\ UNCHANGED <<health, toRestart, toRemove>>
    BY <1>15 DEF poolVars, stopVars, healthVars
  <2>3. \A g \in Gens : fresh[g] # {} => health'[g] = "start"
    BY <1>0, <2>2 DEF Tended, Replacing
  <2>4. \A v \in Ids : state[v] = "STOPPED" /\ ~Active(v) => ~Active(v)' /\ state'[v] = "STOPPED"
    BY <2>1 DEF Good
  <2>5. Tended'
    BY <1>0, <2>1, <2>2, <2>3, <2>4, SameStops, ListsKept, TendedWork DEF Good
  <2> QED BY <2>1, <2>5 DEF Good, Minded
<1>16. CASE UNCHANGED vars
  <2>1. /\ UNCHANGED <<workerVars, workers, fresh, toStop, running, stopping, late>>
        /\ UNCHANGED <<health, toRestart, toRemove>>
    BY <1>16 DEF vars, stopVars, healthVars
  <2> QED BY <1>0, <2>1, SameStops, ListsKept, TendedQuiet
<1>17. CASE CallScaleUp \/ CallScaleDown
  BY <1>2, <1>3, <1>17 DEF CallScaleUp, CallScaleDown
<1>18. ASSUME NEW g \in Gens, Stopping(g) PROVE Minded'
  BY <1>5, <1>6, <1>7, <1>8, <1>18 DEF Stopping
<1>19. ASSUME NEW g \in Gens, Scaler(g) PROVE Minded'
  BY <1>2, <1>3, <1>9, <1>19 DEF Scaler, ScalerUp, ScalerDown
<1>20. ASSUME NEW g \in Gens, Health(g) PROVE Minded'
  BY <1>10, <1>11, <1>12, <1>13, <1>14, <1>20 DEF Health
<1> QED BY <1>1, <1>4, <1>15, <1>16, <1>17, <1>18, <1>19, <1>20 DEF Next

-----------------------------------------------------------------------------
(* Types of the pool's own variables, and how many workers there are. *)

LEMMA Typed == Minded /\ PoolTypes => TypeOK
BY DEF Minded, Bodies, Tended, Reaching, PoolTypes, TypeOK

LEMMA SameConfig == ASSUME [Next]_vars PROVE config' = config
<1>1. ASSUME NEW w \in Ids, Work(w) \/ Crash(w) PROVE config' = config
  BY <1>1 DEF Work, Crash, Poll, PollNothing, TakeJob, FinishThread, ChildBegin, ChildDone,
     ChildExit, HandleResult, TaskBegin, TaskEnd, CancelTasks, EndThread, EndCoordinator,
     Drain, EndDrain
<1>2. ASSUME NEW S, Started(S) \/ Created(S) PROVE config' = config
  BY <1>2 DEF Started, Created
<1>3. ASSUME NEW w, NEW wait, Stopped(w, wait) PROVE config' = config
  BY <1>3 DEF Stopped
<1>4. ASSUME UNCHANGED workerVars PROVE config' = config
  BY <1>4 DEF workerVars
<1>5. CASE Start \/ CallScaleUp \/ CallScaleDown \/ Stop \/ \E g \in Gens : Stopping(g)
  BY <1>2, <1>3, <1>4, <1>5 DEF Start, CallScaleUp, CallScaleDown, Stop, Stopping, StopEvent, StopJoin,
     StopReturn, StopWorker, ScaleUp, Spawn, ScaleDown, RemoveWorker
<1>6. CASE \E g \in Gens : Scaler(g)
  BY <1>2, <1>3, <1>4, <1>6 DEF Scaler, ScalerDecide, ScalerUp, ScalerDown, ScalerEnd,
     ScaleUp, Spawn, ScaleDown, RemoveWorker
<1>7. CASE \E g \in Gens : Health(g)
  BY <1>2, <1>3, <1>4, <1>7 DEF Health, HealthCheck, RestartCreate, RestartStart, RestartsDone,
     RestartRemove, HealthRemove, HealthDone, HealthEnd, RemoveWorker
<1>8. CASE UNCHANGED vars
  BY <1>4, <1>8 DEF vars
<1> QED BY <1>1, <1>5, <1>6, <1>7, <1>8 DEF Next

(* What the pool's threads write into the functions of a start() number. *)
LEMMA PoolTypesNext == ASSUME Minded, PoolTypes, [Next]_vars PROVE PoolTypes'
<1> USE DEF PoolTypes
<1>1. /\ config' = config /\ config.starts \in Nat /\ config.max_workers \in Nat
      /\ workers \subseteq Ids
  BY SameConfig, ConfigNumbers DEF Minded, Bodies, Tended, Reaching
<1>2. CASE Start
  <2>1. starts' \in 0 .. config.starts /\ starts' # 0
    BY <1>1, <1>2 DEF Start
  <2>2. /\ running' = TRUE /\ quit' = {} /\ unchecked' \in BOOLEAN /\ late' \subseteq Ids
        /\ scaler' = [scaler EXCEPT ![starts + 1] = "wait"]
        /\ health' = [health EXCEPT ![starts + 1] = "wait"]
        /\ UNCHANGED <<stopping, wanted, toRestart, toRemove, fresh>>
    BY <1>2 DEF Start
  <2> QED BY <1>1, <2>1, <2>2
<1>3. CASE Stop
  <2>1. /\ stopping' = [stopping EXCEPT ![starts] = "scaler"] /\ running' = FALSE
        /\ UNCHANGED <<quit, starts, late, scalerVars, healthVars>>
    BY <1>3 DEF Stop
  <2> QED BY <1>1, <2>1 DEF scalerVars, healthVars
<1>4. ASSUME NEW g \in Gens, StopEvent(g) \/ StopJoin(g) \/ StopReturn(g) PROVE PoolTypes'
  <2>1. /\ \E p \in {"no", "health", "join", "stop"} : stopping' = [stopping EXCEPT ![g] = p]
        /\ late' \subseteq Ids /\ quit' \subseteq {"scaler", "health"}
        /\ UNCHANGED <<running, starts, scalerVars, healthVars>>
    BY <1>4 DEF StopEvent, StopJoin, StopReturn
  <2> QED BY <1>1, <2>1 DEF scalerVars, healthVars
<1>5. ASSUME NEW g \in Gens, NEW w \in Ids, NEW wait \in BOOLEAN, StopWorker(g, w, wait)
      PROVE  PoolTypes'
  BY <1>1, <1>5 DEF StopWorker, scalerVars, healthVars
<1>6. ASSUME NEW n, ScaleUp(n) \/ ScaleDown PROVE late' \subseteq Ids
  <2>1. CASE ScaleUp(n)
    <3>1. PICK m : \E S \in NewIds(m) : Spawn(S)
      BY <2>1 DEF ScaleUp
    <3> QED BY <3>1, NewOnes DEF Spawn, Begun
  <2>2. CASE ScaleDown
    BY <2>2 DEF ScaleDown
  <2> QED BY <1>6, <2>1, <2>2
<1>7. CASE CallScaleUp \/ CallScaleDown
  <2>1. late' \subseteq Ids /\ UNCHANGED <<stopVars, scalerVars, healthVars>>
    BY <1>6, <1>7 DEF CallScaleUp, CallScaleDown
  <2> QED BY <1>1, <2>1 DEF stopVars, scalerVars, healthVars
<1>8. ASSUME NEW g \in Gens, ScalerUp(g) \/ ScalerDown(g) \/ ScalerEnd(g) PROVE PoolTypes'
  <2>1. late' \subseteq Ids /\ UNCHANGED <<stopVars, healthVars>>
    BY <1>6, <1>8 DEF ScalerUp, ScalerDown, ScalerEnd
  <2>2. /\ \E p \in {"off", "wait"} : scaler' = [scaler EXCEPT ![g] = p]
        /\ wanted' = wanted \/ wanted' = [wanted EXCEPT ![g] = 0]
    BY <1>8 DEF ScalerUp, ScalerDown, ScalerEnd
  <2> QED BY <1>1, <2>1, <2>2 DEF stopVars, healthVars
<1>9. ASSUME NEW g \in Gens, ScalerDecide(g) PROVE PoolTypes'
  <2> DEFINE current == Cardinality({w \in workers : state[w] # "STOPPED"})
  <2>1. current \in Nat
    <3>1. IsFiniteSet({w \in workers : state[w] # "STOPPED"})
      BY <1>1, WorkersAssumption, FS_Subset
    <3> QED BY <3>1, FS_CardinalityType
  <2>2. /\ \/ wanted' = wanted
           \/ \E n \in 1 .. config.max_workers - current : wanted' = [wanted EXCEPT ![g] = n]
        /\ \E p \in {"up", "down"} : scaler' = [scaler EXCEPT ![g] = p]
        /\ UNCHANGED <<stopVars, healthVars, late>>
    BY <1>9 DEF ScalerDecide
  <2> HIDE DEF current
  <2>3. wanted' \in [Gens -> 0 .. config.max_workers]
    BY <1>1, <2>1, <2>2
  <2> QED BY <1>1, <2>2, <2>3 DEF stopVars, healthVars
<1>10. ASSUME NEW g \in Gens, HealthCheck(g) PROVE PoolTypes'
  <2>1. PICK A \in SUBSET workers, B \in SUBSET workers :
           toRestart' = [toRestart EXCEPT ![g] = A] /\ toRemove' = [toRemove EXCEPT ![g] = B]
    <3>1. PICK slow \in SUBSET workers :
             toRestart' = [toRestart EXCEPT ![g] = {w \in workers : Dead(w)} \cup slow]
      BY <1>10 DEF HealthCheck
    <3>2. PICK old \in SUBSET workers : toRemove' = [toRemove EXCEPT ![g] = old]
      BY <1>10 DEF HealthCheck, Idle
    <3> QED BY <3>1, <3>2
  <2>2. /\ health' = [health EXCEPT ![g] = "restart"]
        /\ UNCHANGED <<stopVars, scalerVars, fresh, unchecked, late>>
    BY <1>10 DEF HealthCheck
  <2> QED BY <1>1, <2>1, <2>2 DEF stopVars, scalerVars
<1>11. ASSUME NEW g \in Gens, RestartsDone(g) \/ HealthDone(g) \/ HealthEnd(g) PROVE PoolTypes'
  <2>1. /\ \E p \in {"remove", "wait", "off"} : health' = [health EXCEPT ![g] = p]
        /\ UNCHANGED <<stopVars, scalerVars, toRestart, toRemove, fresh, unchecked, late>>
    BY <1>11 DEF RestartsDone, HealthDone, HealthEnd
  <2> QED BY <1>1, <2>1 DEF stopVars, scalerVars
<1>12. ASSUME NEW g \in Gens, NEW w \in Ids, RestartRemove(g, w) \/ HealthRemove(g, w)
       PROVE  PoolTypes'
  <2>1. /\ health' = health \/ health' = [health EXCEPT ![g] = "create"]
        /\ toRestart' = toRestart \/ toRestart' = [toRestart EXCEPT ![g] = toRestart[g] \ {w}]
        /\ toRemove' = toRemove \/ toRemove' = [toRemove EXCEPT ![g] = toRemove[g] \ {w}]
        /\ UNCHANGED <<stopVars, scalerVars, fresh, unchecked, late>>
    BY <1>12 DEF RestartRemove, HealthRemove
  <2> QED BY <1>1, <2>1 DEF stopVars, scalerVars
<1>13. ASSUME NEW g \in Gens, RestartCreate(g) PROVE PoolTypes'
  <2>1. PICK S \in NewIds(1) : fresh' = [fresh EXCEPT ![g] = S]
    BY <1>13 DEF RestartCreate
  <2>2. /\ health' = [health EXCEPT ![g] = "start"] /\ unchecked' = TRUE
        /\ UNCHANGED <<stopVars, scalerVars, toRestart, toRemove, late>>
    BY <1>13 DEF RestartCreate
  <2> QED BY <1>1, <2>1, <2>2, NewOnes DEF stopVars, scalerVars
<1>14. ASSUME NEW g \in Gens, RestartStart(g) PROVE PoolTypes'
  <2>1. /\ health' = [health EXCEPT ![g] = "restart"] /\ fresh' = [fresh EXCEPT ![g] = {}]
        /\ late' \subseteq Ids
        /\ UNCHANGED <<stopVars, scalerVars, toRestart, toRemove, unchecked>>
    BY <1>14 DEF RestartStart, Begun
  <2> QED BY <1>1, <2>1 DEF stopVars, scalerVars
<1>15. CASE UNCHANGED poolVars
  BY <1>1, <1>15 DEF poolVars, stopVars, scalerVars, healthVars
<1>16. UNCHANGED vars => UNCHANGED poolVars
  BY DEF vars, poolVars
<1>17. ASSUME NEW g \in Gens, Stopping(g) PROVE PoolTypes'
  BY <1>4, <1>5, <1>17 DEF Stopping
<1>18. ASSUME NEW g \in Gens, Scaler(g) PROVE PoolTypes'
  BY <1>8, <1>9, <1>18 DEF Scaler
<1>19. ASSUME NEW g \in Gens, Health(g) PROVE PoolTypes'
  BY <1>10, <1>11, <1>12, <1>13, <1>14, <1>19 DEF Health
<1> QED BY <1>2, <1>3, <1>7, <1>15, <1>16, <1>17, <1>18, <1>19 DEF Next

LEMMA Counting ==
    ASSUME Minded
    PROVE  /\ IsFiniteSet(workers) /\ Size \in Nat
           /\ \A w \in Ids : Cardinality(workers \ {w}) = IF w \in workers THEN Size - 1 ELSE Size
<1>1. IsFiniteSet(workers)
  BY WorkersAssumption, FS_Subset DEF Minded, Tended, Reaching
<1> QED BY <1>1, FS_CardinalityType, FS_RemoveElement DEF Size

LEMMA CountingMore ==
    ASSUME Minded, NEW n, NEW S \in NewIds(n)
    PROVE  Cardinality(workers \cup S) = Size + n
<1>1. S \in SUBSET Ids /\ S \cap workers = {} /\ Cardinality(S) = n /\ IsFiniteSet(S)
  BY NewOnes, WorkersAssumption, FS_Subset
<1>2. Cardinality(workers \cup S) = Cardinality(workers) + Cardinality(S) - Cardinality(workers \cap S)
  BY <1>1, Counting, FS_Union
<1>3. Cardinality(workers \cap S) = 0
  BY <1>1, FS_EmptySet
<1> QED BY <1>1, <1>2, <1>3, Counting, FS_CardinalityType DEF Size

LEMMA Finite ==
    ASSUME NEW G \in SUBSET Gens
    PROVE  IsFiniteSet(G) /\ Cardinality(G) \in Nat
<1>1. IsFiniteSet(Gens)
  BY PoolAssumption, FS_Interval DEF Gens
<1> QED BY <1>1, FS_Subset, FS_CardinalityType

LEMMA CreatingCount == Creating \in SUBSET Gens /\ Cardinality(Creating) \in Nat
<1>1. Creating \in SUBSET Gens
  BY DEF Creating
<1> QED BY <1>1, Finite

(* Checkers that have dropped a worker and not replaced it. *)
LEMMA Dropped ==
    ASSUME PoolTypes, NEW g \in Gens
    PROVE  /\ Cardinality(Creating) \in Nat
           /\ g \notin Creating => Cardinality(Creating \cup {g}) = Cardinality(Creating) + 1
           /\ g \in Creating => Cardinality(Creating \ {g}) = Cardinality(Creating) - 1
<1>1. IsFiniteSet(Creating)
  BY CreatingCount, Finite
<1> QED BY <1>1, FS_CardinalityType, FS_AddElement, FS_RemoveElement

(* How many workers, and how many to be replaced, a step leaves. *)
LEMMA SizedBy ==
    ASSUME Minded, PoolTypes, SizeWithinLimits, config' = config, Size \in Nat, Size' \in Int,
           starts' = starts, unchecked' \in BOOLEAN, unchecked => unchecked',
           Cardinality(Creating) \in Nat, Cardinality(Creating') \in Nat,
           \/ Size' + Cardinality(Creating') >= Size + Cardinality(Creating)
           \/ Size' >= config.min_workers,
           Size' <= Size \/ Size' <= config.max_workers \/ unchecked'
    PROVE  SizeWithinLimits'
<1>1. config.min_workers \in Nat /\ config.max_workers \in Nat
  BY ConfigNumbers DEF Minded, Bodies
<1>2. Cardinality(Creating)' = Cardinality(Creating')
  OBVIOUS
<1> QED BY <1>1, <1>2 DEF SizeWithinLimits, PoolTypes

(* Steps that leave the table alone. *)
LEMMA SizedQuiet ==
    ASSUME Minded, PoolTypes, SizeWithinLimits, Unstarted, config' = config, workers' = workers,
           starts' = starts, unchecked' = unchecked,
           \/ health' = health
           \/ \E g \in Gens, p \in {"wait", "off", "restart", "remove", "start"} :
                 health[g] \notin {"create", "off"} /\ health' = [health EXCEPT ![g] = p]
    PROVE  (SizeWithinLimits /\ Unstarted)'
<1>1. Size' = Size /\ Size \in Nat
  BY Zenon, Counting DEF Size
<1>2. Creating' = Creating
  BY DEF Creating, PoolTypes
<1>3. Cardinality(Creating) \in Nat
  BY CreatingCount
<1>4. Unstarted'
  BY DEF Unstarted, PoolTypes
<1>5. SizeWithinLimits'
  BY <1>1, <1>2, <1>3, SizedBy DEF PoolTypes
<1> QED BY <1>4, <1>5

LEMMA SizedNext ==
    ASSUME Minded, PoolTypes, SizeWithinLimits, Unstarted, [Next]_vars
    PROVE  (SizeWithinLimits /\ Unstarted)'
<1> DEFINE Sized == SizeWithinLimits /\ Unstarted
<1>1. /\ config' = config /\ config.min_workers \in Nat /\ config.max_workers \in Nat
      /\ config.min_workers <= config.max_workers /\ Size \in Nat /\ starts \in Nat
      /\ PoolTypes' /\ Cardinality(Creating) \in Nat /\ WorkersTypeOK
  BY SameConfig, ConfigNumbers, Counting, PoolTypesNext, CreatingCount
     DEF Minded, Bodies, PoolTypes
<1>2. CASE Start
  <2>1. PICK S \in NewIds(config.min_workers) : workers' = workers \cup S
    BY <1>2 DEF Start
  <2>2. Cardinality(workers \cup S) = Size + config.min_workers
    BY <2>1, CountingMore
  <2>3. Size' = Size + config.min_workers
    BY Zenon, <2>1, <2>2 DEF Size
  <2>4. /\ starts' = starts + 1 /\ health' = [health EXCEPT ![starts + 1] = "wait"]
        /\ unchecked' = (unchecked \/ workers # {}) /\ starts < config.starts
    BY <1>2 DEF Start
  <2>5. starts + 1 \in Gens
    BY <1>1, <2>4, ConfigNumbers DEF Gens, PoolTypes
  <2>6. Creating' = Creating
    <3>1. health[starts + 1] = "off"
      BY <1>1, <2>5 DEF Unstarted
    <3> QED BY <2>4, <2>5, <3>1 DEF Creating, PoolTypes
  <2>7. ~unchecked' => Size' <= config.max_workers
    <3>1. workers = {} => Size = 0
      BY FS_EmptySet DEF Size
    <3>2. ~unchecked' => workers = {}
      BY Zenon, <2>4
    <3> QED BY <1>1, <2>3, <3>1, <3>2
  <2>8. SizeWithinLimits'
    BY <1>1, <2>3, <2>6, <2>7 DEF SizeWithinLimits
  <2>9. Unstarted'
    BY <1>1, <2>4, <2>5 DEF Unstarted, PoolTypes, Gens
  <2> QED BY <2>8, <2>9
<1>3. ASSUME NEW n \in Nat, ScaleUp(n), UNCHANGED <<stopVars, healthVars>> PROVE Sized'
  <2> DEFINE room == IF Size < config.max_workers THEN config.max_workers - Size ELSE 0
             m == IF n <= room THEN n ELSE room
  <2>1. PICK S \in NewIds(m) : Spawn(S)
    BY <1>3 DEF ScaleUp
  <2>2. workers' = workers \cup S /\ UNCHANGED <<health, unchecked, starts>>
    BY <1>3, <2>1 DEF Spawn, stopVars, healthVars
  <2>3. m \in Nat /\ (Size + m <= Size \/ Size + m <= config.max_workers)
    BY <1>1
  <2> HIDE DEF m
  <2>4. Cardinality(workers \cup S) = Size + m
    BY <2>1, CountingMore
  <2>5. Size' = Size + m /\ Creating' = Creating
    BY Zenon, <2>2, <2>4 DEF Size, Creating
  <2>6. Unstarted'
    BY <2>2 DEF Unstarted
  <2>7. SizeWithinLimits'
    BY <1>1, <2>2, <2>3, <2>5, SizedBy DEF PoolTypes
  <2> QED BY <2>6, <2>7
<1>4. ASSUME NEW w \in Ids, workers' = workers \ {w}, Size > config.min_workers,
             UNCHANGED <<unchecked, starts, health>>
      PROVE  Sized'
  <2>1. Cardinality(workers \ {w}) = IF w \in workers THEN Size - 1 ELSE Size
    BY Counting
  <2>2. Size' = (IF w \in workers THEN Size - 1 ELSE Size) /\ Creating' = Creating
    BY Zenon, <1>4, <2>1 DEF Size, Creating
  <2>3. Unstarted'
    BY <1>4 DEF Unstarted
  <2>4. SizeWithinLimits'
    BY <1>1, <1>4, <2>2, SizedBy DEF PoolTypes
  <2> QED BY <2>3, <2>4
<1>5. ASSUME ScaleDown, UNCHANGED <<stopVars, healthVars>> PROVE Sized'
  <2>1. UNCHANGED <<unchecked, starts, health>>
    BY <1>5 DEF stopVars, healthVars
  <2>2. CASE Size > config.min_workers /\ \E w \in Idle : RemoveWorker(w)
    <3>1. PICK w \in Ids : workers' = workers \ {w}
      BY <2>2 DEF Idle, Minded, Tended, Reaching, RemoveWorker
    <3> QED BY <1>4, <2>1, <2>2, <3>1
  <2>3. CASE workers' = workers
    BY <1>1, <2>1, <2>3, SizedQuiet
  <2> QED BY <1>5, <2>2, <2>3 DEF ScaleDown
<1>6. CASE CallScaleUp \/ CallScaleDown
  BY <1>3, <1>5, <1>6 DEF CallScaleUp, CallScaleDown
<1>7. ASSUME NEW g \in Gens, ScalerUp(g) \/ ScalerDown(g) PROVE Sized'
  <2>1. wanted[g] \in Nat
    BY <1>1 DEF PoolTypes
  <2> QED BY <1>3, <1>5, <1>7, <2>1 DEF ScalerUp, ScalerDown
<1>8. ASSUME NEW g \in Gens, Stopping(g) PROVE Sized'
  <2>1. UNCHANGED <<workers, starts, health, unchecked>>
    BY <1>8 DEF Stopping, StopEvent, StopJoin, StopReturn, StopWorker, healthVars
  <2> QED BY <1>1, <2>1, SizedQuiet
<1>9. CASE Stop
  BY <1>1, <1>9, SizedQuiet DEF Stop, healthVars
<1>10. ASSUME NEW g \in Gens, ScalerDecide(g) \/ ScalerEnd(g) PROVE Sized'
  BY <1>1, <1>10, SizedQuiet DEF ScalerDecide, ScalerEnd, stopVars, healthVars
<1>11. ASSUME NEW g \in Gens, HealthCheck(g) \/ RestartsDone(g) \/ HealthDone(g) \/ HealthEnd(g)
       PROVE  Sized'
  <2>1. /\ UNCHANGED <<workers, starts, unchecked>> /\ health[g] \notin {"create", "off"}
        /\ \E p \in {"wait", "off", "restart", "remove"} : health' = [health EXCEPT ![g] = p]
    BY <1>11 DEF HealthCheck, RestartsDone, HealthDone, HealthEnd, stopVars
  <2> QED BY <1>1, <2>1, SizedQuiet
<1>12. ASSUME NEW g \in Gens, RestartStart(g) PROVE Sized'
  <2>1. /\ UNCHANGED <<workers, starts, unchecked>> /\ health[g] = "start"
        /\ health' = [health EXCEPT ![g] = "restart"]
    BY <1>12 DEF RestartStart, stopVars
  <2> QED BY <1>1, <2>1, SizedQuiet
<1>13. ASSUME NEW g \in Gens, RestartCreate(g) PROVE Sized'
  <2>1. PICK S \in NewIds(1) : workers' = workers \cup S
    BY <1>13 DEF RestartCreate
  <2>2. Cardinality(workers \cup S) = Size + 1
    BY <2>1, CountingMore
  <2>3. Size' = Size + 1
    BY Zenon, <2>1, <2>2 DEF Size
  <2>4. /\ unchecked' = TRUE /\ health[g] = "create" /\ starts' = starts
        /\ health' = [health EXCEPT ![g] = "start"]
    BY <1>13 DEF RestartCreate, stopVars
  <2>5. Creating' = Creating \ {g} /\ g \in Creating
    BY <2>4 DEF Creating, PoolTypes
  <2>6. Cardinality(Creating') = Cardinality(Creating) - 1
    BY <1>1, <2>5, Dropped
  <2>7. Cardinality(Creating') \in Nat
    <3>1. Creating' \in SUBSET Gens
      BY <2>5, CreatingCount
    <3> QED BY <3>1, Finite
  <2>8. SizeWithinLimits'
    BY <1>1, <2>3, <2>4, <2>6, <2>7, SizedBy
  <2>9. Unstarted'
    BY <2>4 DEF Unstarted, PoolTypes
  <2> QED BY <2>8, <2>9
<1>14. ASSUME NEW g \in Gens, NEW w \in Ids, RestartRemove(g, w) PROVE Sized'
  <2>1. /\ workers' \in {workers, workers \ {w}} /\ health[g] = "restart"
        /\ health' = [health EXCEPT ![g] = "create"] /\ UNCHANGED <<starts, unchecked>>
    BY <1>14 DEF RestartRemove, RemoveWorker, stopVars
  <2>2. Cardinality(workers \ {w}) \in {Size - 1, Size} /\ Cardinality(workers) = Size
    BY Counting DEF Size
  <2>3. Size' \in {Size - 1, Size}
    BY Zenon, <2>1, <2>2 DEF Size
  <2>4. Creating' = Creating \cup {g} /\ g \notin Creating
    BY <2>1 DEF Creating, PoolTypes
  <2>5. Cardinality(Creating') = Cardinality(Creating) + 1
    BY <1>1, <2>4, Dropped
  <2>6. SizeWithinLimits'
    BY <1>1, <2>1, <2>3, <2>5, SizedBy DEF PoolTypes
  <2>7. Unstarted'
    BY <2>1 DEF Unstarted, PoolTypes
  <2> QED BY <2>6, <2>7
<1>15. ASSUME NEW g \in Gens, NEW w \in Ids, HealthRemove(g, w) PROVE Sized'
  <2>1. UNCHANGED <<unchecked, starts, health>>
    BY <1>15 DEF HealthRemove, stopVars
  <2>2. CASE workers' = workers \ {w} /\ Size > config.min_workers
    BY <1>4, <2>1, <2>2
  <2>3. CASE UNCHANGED workers
    BY <1>1, <2>1, <2>3, SizedQuiet
  <2> QED BY <1>15, <2>2, <2>3 DEF HealthRemove, RemoveWorker
<1>16. CASE UNCHANGED poolVars
  BY <1>1, <1>16, SizedQuiet DEF poolVars, stopVars, healthVars
<1>17. UNCHANGED vars => UNCHANGED poolVars
  BY DEF vars, poolVars
<1>18. ASSUME NEW g \in Gens, Scaler(g) PROVE Sized'
  BY <1>7, <1>10, <1>18 DEF Scaler
<1>19. ASSUME NEW g \in Gens, Health(g) PROVE Sized'
  BY <1>11, <1>12, <1>13, <1>14, <1>15, <1>19 DEF Health
<1> QED BY <1>2, <1>6, <1>8, <1>9, <1>16, <1>17, <1>18, <1>19 DEF Next

-----------------------------------------------------------------------------
Inv == Minded /\ PoolTypes /\ SizeWithinLimits /\ Unstarted

(* The invariant holds. *)
THEOREM InvHolds == Spec => []Inv
<1>1. Init => Inv
  <2> SUFFICES ASSUME Init PROVE Inv
    OBVIOUS
  <2>1. Minded
    BY MindedInit
  <2>2. config.max_workers \in Nat /\ config.starts \in Nat
    BY <2>1, ConfigNumbers DEF Minded, Bodies
  <2>3. PoolTypes
    <3>1. /\ running = FALSE /\ quit = {} /\ stopping = [g \in Gens |-> "no"]
          /\ scaler = [g \in Gens |-> "off"] /\ wanted = [g \in Gens |-> 0]
          /\ health = [g \in Gens |-> "off"] /\ toRestart = [g \in Gens |-> {}]
          /\ toRemove = [g \in Gens |-> {}] /\ fresh = [g \in Gens |-> {}]
          /\ starts = 0 /\ unchecked = FALSE /\ late = {}
      BY DEF Init
    <3>2. 0 \in 0 .. config.max_workers /\ 0 \in 0 .. config.starts
      BY <2>2
    <3> QED BY <3>1, <3>2 DEF PoolTypes
  <2>4. SizeWithinLimits /\ Unstarted
    <3>1. Size = 0
      BY FS_EmptySet DEF Init, Size
    <3> QED BY <2>1, <3>1, ConfigNumbers DEF Init, SizeWithinLimits, Unstarted, Minded, Bodies
  <2> QED BY <2>1, <2>3, <2>4 DEF Inv
<1>2. Inv /\ [Next]_vars => Inv'
  BY MindedNext, PoolTypesNext, SizedNext DEF Inv
<1> QED BY <1>1, <1>2, PTL DEF Spec, Safety

(* The variables keep their types (TypeOK). *)
THEOREM TypeCorrect == Spec => []TypeOK
<1>1. Inv => TypeOK
  BY Typed DEF Inv
<1> QED BY <1>1, InvHolds, PTL

(* A thread or child that goes on is in the table, or has been told to stop, *)
(* whoever replaces, removes and stops workers meanwhile (NoneForgotten).    *)
THEOREM NobodyIsForgotten == Spec => []NoneForgotten
<1>1. Inv => NoneForgotten
  BY DEF Inv, Minded, Tended, Reaching
<1> QED BY <1>1, InvHolds, PTL

(* When every stop() has returned and the pool is not started again, all     *)
(* that still runs has been told to stop, but for what a scale_up() or a     *)
(* background thread that outlasts stop()'s wait has started since the last  *)
(* listing of the workers (StopReachesAll).                                  *)
THEOREM StopIsComplete == Spec => []StopReachesAll
<1>1. Inv => StopReachesAll
  BY DEF Inv, Minded, Tended, Reaching, Settled, LockFree, Active, StopReachesAll
<1> QED BY <1>1, InvHolds, PTL

(* Stopping and shrinking a pool of threads loses no job (ThreadsFinishJobs).*)
THEOREM ThreadsLoseNothing == Spec => []ThreadsFinishJobs
<1>1. Inv => ThreadsFinishJobs
  BY DEF Inv, Minded, Bodies
<1> QED BY <1>1, InvHolds, PTL

(* The auto-scalers, callers and the removal of idle workers keep the size   *)
(* within the limits, on whatever each has decided before; only a            *)
(* replacement, or a start() over a table that is not empty, exceeds the     *)
(* maximum (SizeWithinLimits).                                               *)
THEOREM SizeKeepsToLimits == Spec => []SizeWithinLimits
<1>1. Inv => SizeWithinLimits
  BY DEF Inv
<1> QED BY <1>1, InvHolds, PTL
=============================================================================
