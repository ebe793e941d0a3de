--------------------------- MODULE SchedulerProofs ---------------------------
(***************************************************************************)
(* Proofs about Scheduler, for any number of jobs and workers, any queue   *)
(* size and any number of retries.                                         *)
(***************************************************************************)
EXTENDS Scheduler, TLAPS

(* A transition, and a step without one, keep the types. *)
LEMMA GotoTypes ==
    ASSUME TypeOK, NEW a \in Actors, held[a] \in Jobs, NEW p \in ActorPC \ {"pop"}, Goto(a, p)
    PROVE  /\ pc' \in [Actors -> ActorPC]
           /\ held' \in [Actors -> Jobs \cup {None}]
           /\ \A b \in Actors : held'[b] = None <=> pc'[b] \in {"idle", "pop"}
BY SchedulerAssumption DEF TypeOK, Goto, ActorPC

LEMMA TransitionTypes ==
    ASSUME TypeOK, NEW a \in Actors, held[a] \in Jobs, NEW target \in JobState,
           NEW next \in ActorPC \ {"pop"}, NEW raised \in ActorPC \ {"pop"},
           Transition(a, target, next, raised)
    PROVE  /\ state' \in [Jobs -> JobState]
           /\ store' \subseteq Jobs
           /\ pc' \in [Actors -> ActorPC]
           /\ held' \in [Actors -> Jobs \cup {None}]
           /\ \A b \in Actors : held'[b] = None <=> pc'[b] \in {"idle", "pop"}
BY GotoTypes DEF TypeOK, Transition, AddToStore

LEMMA DecideTypes ==
    ASSUME TypeOK, NEW a \in Actors, held[a] \in Jobs, Decide(a)
    PROVE  /\ attempt' \in [Jobs -> Nat]
           /\ pc' \in [Actors -> ActorPC]
           /\ held' \in [Actors -> Jobs \cup {None}]
           /\ \A b \in Actors : held'[b] = None <=> pc'[b] \in {"idle", "pop"}
<1>1. "retrying" \in ActorPC \ {"pop"} /\ "giveup" \in ActorPC \ {"pop"}
  BY DEF ActorPC
<1> QED BY <1>1, GotoTypes DEF TypeOK, Decide

LEMMA UnlockTypes ==
    ASSUME TypeOK, NEW a, Unlock(a)
    PROVE  /\ op' \in [pc : {"free", "submit", "cancel_remove", "cancel_commit", "fail"},
                       job : Jobs \cup {None}]
           /\ op'.job = None <=> op'.pc = "free"
BY DEF TypeOK, Unlock, Free

LEMMA StrandTypes ==
    ASSUME TypeOK, NEW a \in Actors, held[a] \in Jobs, NEW target, Strand(a, target)
    PROVE  stranded' \subseteq Jobs
BY DEF TypeOK, Strand

LEMMA InitTypes == Init => TypeOK
<1> SUFFICES ASSUME Init PROVE TypeOK
  OBVIOUS
<1>1. /\ op \in [pc : {"free", "submit", "cancel_remove", "cancel_commit", "fail"},
                 job : Jobs \cup {None}]
      /\ op.job = None <=> op.pc = "free"
  BY DEF Init, Free
<1>2. state \in [Jobs -> JobState] /\ pc \in [Actors -> ActorPC]
  BY DEF Init, Given, JobState, ActorPC
<1>3. /\ held \in [Actors -> Jobs \cup {None}]
      /\ \A a \in Actors : held[a] = None <=> pc[a] \in {"idle", "pop"}
  BY DEF Init
<1>4. attempt \in [Jobs -> Nat] /\ runs \in [Jobs -> Nat]
  BY DEF Init
<1> QED BY <1>1, <1>2, <1>3, <1>4 DEF Init, TypeOK

LEMMA ClientTypes == ASSUME TypeOK, Client PROVE TypeOK'
<1> USE DEF TypeOK
<1>1. ASSUME NEW j \in Jobs, Submit(j) PROVE TypeOK'
  BY <1>1, SchedulerAssumption DEF Submit, AddToStore, LockFree, Free, JobState, lost
<1>2. ASSUME SubmitPush PROVE TypeOK'
  BY <1>2, SchedulerAssumption DEF SubmitPush, DeleteFromStore, JobState, Free, lost
<1>3. ASSUME NEW j \in Jobs, Cancel(j) PROVE TypeOK'
  BY <1>3, SchedulerAssumption DEF Cancel, lost
<1>4. ASSUME CancelRemove PROVE TypeOK'
  BY <1>4 DEF CancelRemove, lost
<1>5. ASSUME CancelCommit PROVE TypeOK'
  BY <1>5 DEF CancelCommit, JobState, Free, lost
<1>6. ASSUME Start \/ Stop PROVE TypeOK'
  BY <1>6 DEF Start, Stop, lost
<1> QED BY <1>1, <1>2, <1>3, <1>4, <1>5, <1>6 DEF Client

LEMMA StepTypes == ASSUME TypeOK, NEW a \in Actors, Step(a) PROVE TypeOK'
<1> USE DEF TypeOK
<1>1. pc[a] \notin {"idle", "pop"} => held[a] \in Jobs
  OBVIOUS
<1>2. \A p \in {"begin", "schedule", "start", "unretry", "exec", "succeeded", "failed", "idle",
                "retrying", "rescheduling", "requeue", "giveup", "remote", "report_ok",
                "report_error", "stuck"} : p \in ActorPC \ {"pop"}
  BY DEF ActorPC
<1>3. Raised(a) \in ActorPC \ {"pop"}
  BY <1>2 DEF Raised
<1>4. CASE Poll(a) \/ PopJob(a) \/ PopNone(a)
  BY <1>4, SchedulerAssumption DEF Poll, PopJob, PopNone, Goto, ActorPC, lost
<1>5. ASSUME NEW j \in Jobs, CallRunJob(a, j) PROVE TypeOK'
  BY <1>5, SchedulerAssumption DEF CallRunJob, ActorPC, lost
<1>6. CASE Begin(a)
  <2>1. PICK p \in {"schedule", "start", "unretry", "exec"} : Goto(a, p)
    BY <1>6 DEF Begin
  <2> QED BY <1>1, <1>2, <1>6, <2>1, GotoTypes DEF Begin, lost
<1>7. CASE Prepare(a)
  <2>1. PICK t \in {"SCHEDULED", "RUNNING"}, p \in {"begin", "start", "exec"} :
           pc[a] \notin {"idle", "pop"} /\ Transition(a, t, p, "failed")
    BY <1>7 DEF Prepare
  <2>2. t \in JobState
    BY DEF JobState
  <2> QED BY <1>1, <1>2, <1>7, <2>1, <2>2, TransitionTypes DEF Prepare, lost
<1>8. CASE Execute(a)
  BY <1>1, <1>2, <1>8, GotoTypes DEF Execute, lost
<1>9. CASE Succeed(a)
  <2>1. "COMPLETED" \in JobState
    BY DEF JobState
  <2> QED BY <1>1, <1>2, <1>9, <2>1, TransitionTypes DEF Succeed, lost
<1>10. CASE DecideRetry(a)
  BY <1>1, <1>10, DecideTypes DEF DecideRetry, lost
<1>11. CASE Reschedule(a)
  <2>1. PICK t \in {"RETRYING", "SCHEDULED"}, p \in {"rescheduling", "requeue"} :
           pc[a] \notin {"idle", "pop"} /\ Transition(a, t, p, Raised(a)) /\ Strand(a, t)
    BY <1>11 DEF Reschedule
  <2>2. t \in JobState
    BY DEF JobState
  <2> QED BY <1>1, <1>2, <1>3, <1>11, <2>1, <2>2, TransitionTypes, StrandTypes, UnlockTypes
        DEF Reschedule
<1>12. CASE Requeue(a)
  BY <1>1, <1>2, <1>12, GotoTypes, UnlockTypes DEF Requeue, QueuePush
<1>13. CASE GiveUp(a)
  <2>1. "FAILED" \in JobState
    BY DEF JobState
  <2> QED BY <1>1, <1>2, <1>3, <1>13, <2>1, TransitionTypes, StrandTypes, UnlockTypes DEF GiveUp
<1>14. CASE RemoteRun(a)
  BY <1>1, <1>2, <1>14, GotoTypes DEF RemoteRun, lost
<1>15. CASE CompleteJob(a)
  <2>1. "COMPLETED" \in JobState
    BY DEF JobState
  <2>2. PICK p \in {"stuck", "report_error"} :
           pc[a] \notin {"idle", "pop"} /\ Transition(a, "COMPLETED", "idle", p)
    BY <1>15 DEF CompleteJob
  <2>3. Strand(a, "COMPLETED") \/ UNCHANGED stranded
    BY <1>15 DEF CompleteJob
  <2> QED BY <1>1, <1>2, <1>15, <2>1, <2>2, <2>3, TransitionTypes, StrandTypes DEF CompleteJob
<1>16. CASE FailJob(a)
  BY <1>1, <1>16, DecideTypes, SchedulerAssumption DEF FailJob, lost
<1> QED BY <1>4, <1>5, <1>6, <1>7, <1>8, <1>9, <1>10, <1>11, <1>12, <1>13, <1>14, <1>15, <1>16
        DEF Step, RunJob

LEMMA NextTypes == TypeOK /\ [Next]_vars => TypeOK'
<1>1. ASSUME TypeOK, UNCHANGED vars PROVE TypeOK'
  BY <1>1 DEF vars, lost, TypeOK
<1> QED BY <1>1, ClientTypes, StepTypes DEF Next

-----------------------------------------------------------------------------
(* Which jobs the store has: every queued one, every one a worker holds,   *)
(* and the one submit() is about to queue, which nobody else can touch.    *)
Accepted ==
    /\ queue \subseteq store
    /\ \A j \in Jobs \ store : state[j] = Given(j)
    /\ op.pc \in {"submit", "cancel_remove", "cancel_commit"} => op.job \in store
    /\ op.pc = "submit" =>
          /\ state[op.job] = "SCHEDULED" /\ op.job \notin Foreign
          /\ op.job \notin queue
          /\ \A a \in Actors : held[a] # op.job
    /\ \A a \in Workers \cup Remote : held[a] # None => held[a] \in store
    /\ \A a \in Actors : pc[a] = "requeue" => held[a] \in store

LEMMA InitAccepted == Init => Accepted
BY SchedulerAssumption DEF Init, Accepted, Free, Actors, Remote, Given

LEMMA Table ==
    \A t \in JobState :
       /\ CanTransition("PENDING", t) <=> t \in {"SCHEDULED", "CANCELLED"}
       /\ CanTransition("SCHEDULED", t) <=> t \in {"RUNNING", "CANCELLED"}
       /\ CanTransition("RUNNING", t) <=> t \in {"COMPLETED", "FAILED", "RETRYING", "TIMEOUT"}
       /\ CanTransition("RETRYING", t) <=> t \in {"SCHEDULED", "CANCELLED", "FAILED"}
       /\ \A s \in Terminal : ~CanTransition(s, t)
BY DEF CanTransition, ValidTransitions, JobState, Terminal

LEMMA ClientAccepted == ASSUME TypeOK, Accepted, Client PROVE Accepted'
<1> USE DEF TypeOK, Accepted
<1>1. ASSUME NEW j \in Jobs, Submit(j) PROVE Accepted'
  <2>1. j \in Foreign => ~CanTransition(state[j], "SCHEDULED")
    BY <1>1, Table DEF Submit, Stored, Given, JobState, Terminal
  <2> QED BY <1>1, <2>1, SchedulerAssumption
          DEF Submit, AddToStore, Stored, LockFree, Free, Actors, Remote
<1>2. ASSUME SubmitPush PROVE Accepted'
  BY <1>2, SchedulerAssumption DEF SubmitPush, DeleteFromStore, Free, Actors, Remote, Given
<1>3. ASSUME NEW j \in Jobs, Cancel(j) PROVE Accepted'
  BY <1>3, SchedulerAssumption DEF Cancel, Stored
<1>4. ASSUME CancelRemove PROVE Accepted'
  BY <1>4 DEF CancelRemove
<1>5. ASSUME CancelCommit PROVE Accepted'
  BY <1>5 DEF CancelCommit, Free
<1>6. ASSUME Start \/ Stop PROVE Accepted'
  BY <1>6 DEF Start, Stop
<1> QED BY <1>1, <1>2, <1>3, <1>4, <1>5, <1>6 DEF Client

LEMMA StepAccepted == ASSUME TypeOK, Accepted, NEW a \in Actors, Step(a) PROVE Accepted'
<1> USE DEF TypeOK, Accepted
<1>1. pc[a] \notin {"idle", "pop"} => held[a] \in Jobs
  OBVIOUS
<1>2. CASE Poll(a) \/ PopJob(a) \/ PopNone(a)
  BY <1>2, SchedulerAssumption DEF Poll, PopJob, PopNone, Goto, Actors, Remote
<1>3. ASSUME NEW j \in Jobs, CallRunJob(a, j) PROVE Accepted'
  BY <1>3, SchedulerAssumption DEF CallRunJob, Actors, Remote
<1>4. CASE Begin(a) \/ Execute(a) \/ RemoteRun(a) \/ DecideRetry(a)
  BY <1>1, <1>4, SchedulerAssumption DEF Begin, Execute, RemoteRun, DecideRetry, Decide, Goto, Actors, Remote
<1>5. CASE Prepare(a) \/ Succeed(a)
  BY <1>1, <1>5, SchedulerAssumption DEF Prepare, Succeed, Transition, AddToStore, Goto, Actors, Remote
<1>6. CASE Reschedule(a)
  BY <1>1, <1>6, SchedulerAssumption
     DEF Reschedule, Transition, AddToStore, Goto, Unlock, Raised, Free, Actors, Remote
<1>7. CASE Requeue(a)
  BY <1>1, <1>7, SchedulerAssumption DEF Requeue, QueuePush, Goto, Unlock, Free, Actors, Remote
<1>8. CASE GiveUp(a)
  BY <1>1, <1>8, SchedulerAssumption
     DEF GiveUp, Transition, AddToStore, Goto, Unlock, Raised, Free, Actors, Remote
<1>9. CASE CompleteJob(a)
  BY <1>1, <1>9, SchedulerAssumption DEF CompleteJob, Transition, AddToStore, Goto, Actors, Remote
<1>10. CASE FailJob(a)
  BY <1>1, <1>10, SchedulerAssumption DEF FailJob, Decide, Goto, Actors, Remote
<1> QED BY <1>2, <1>3, <1>4, <1>5, <1>6, <1>7, <1>8, <1>9, <1>10 DEF Step, RunJob

LEMMA NextAccepted == TypeOK /\ Accepted /\ [Next]_vars => Accepted'
<1>1. ASSUME Accepted, UNCHANGED vars PROVE Accepted'
  BY <1>1 DEF vars, lost, Accepted
<1> QED BY <1>1, ClientAccepted, StepAccepted DEF Next

-----------------------------------------------------------------------------
(* Custody, where no client calls run_job itself. *)
OneHolder ==
    /\ \A a \in Actors : held[a] \notin queue
    /\ \A a, b \in Actors : held[a] = held[b] /\ held[a] # None => a = b

LEMMA NextOneHolder ==
    ASSUME Callers = {}, TypeOK, Accepted, OneHolder, [Next]_vars
    PROVE  OneHolder'
<1> USE DEF TypeOK, OneHolder
<1>1. ASSUME NEW j \in Jobs, Submit(j) \/ Cancel(j) PROVE OneHolder'
  BY <1>1 DEF Submit, Cancel
<1>2. CASE SubmitPush
  BY <1>2 DEF SubmitPush, Accepted
<1>3. CASE CancelRemove \/ CancelCommit \/ Start \/ Stop
  BY <1>3 DEF CancelRemove, CancelCommit, Start, Stop
<1>4. ASSUME NEW a \in Actors, Poll(a) \/ PopJob(a) \/ PopNone(a) PROVE OneHolder'
  BY <1>4, SchedulerAssumption DEF Poll, PopJob, PopNone, Goto
<1>5. ASSUME NEW a \in Actors, NEW j \in Jobs, CallRunJob(a, j) PROVE OneHolder'
  BY <1>5 DEF CallRunJob
<1>6. ASSUME NEW a \in Actors, Begin(a) \/ Execute(a) \/ RemoteRun(a) \/ DecideRetry(a) \/ FailJob(a)
      PROVE  OneHolder'
  BY <1>6, SchedulerAssumption DEF Begin, Execute, RemoteRun, DecideRetry, FailJob, Decide, Goto
<1>7. ASSUME NEW a \in Actors,
             Prepare(a) \/ Succeed(a) \/ Reschedule(a) \/ GiveUp(a) \/ CompleteJob(a)
      PROVE  OneHolder'
  BY <1>7, SchedulerAssumption
     DEF Prepare, Succeed, Reschedule, GiveUp, CompleteJob, Transition, Goto
<1>8. ASSUME NEW a \in Actors, Requeue(a) PROVE OneHolder'
  BY <1>8, SchedulerAssumption DEF Requeue, QueuePush, Goto
<1>9. CASE UNCHANGED vars
  BY <1>9 DEF vars, lost
<1> QED BY <1>1, <1>2, <1>3, <1>4, <1>5, <1>6, <1>7, <1>8, <1>9 DEF Next, Client, Step, RunJob

(* A job that can still be run has been run at most once per retry. *)
Counted ==
    /\ \A j \in Jobs : runs[j] <= attempt[j] + 1 /\ attempt[j] <= MaxRetries
    /\ \A j \in queue \cup (Jobs \ store) : runs[j] <= attempt[j]
    /\ op.pc = "submit" => runs[op.job] <= attempt[op.job]
    /\ \A a \in Actors :
          pc[a] \notin {"idle", "pop", "succeeded", "failed", "giveup",
                        "report_ok", "report_error", "stuck"} =>
             runs[held[a]] <= attempt[held[a]]

LEMMA NextCounted ==
    ASSUME Callers = {}, TypeOK, Accepted, OneHolder, Counted, [Next]_vars
    PROVE  Counted'
<1> USE DEF TypeOK, Counted
<1>1. ASSUME NEW j \in Jobs, Submit(j) PROVE Counted'
  BY <1>1 DEF Submit, AddToStore, Stored
<1>2. ASSUME NEW j \in Jobs, Cancel(j) PROVE Counted'
  BY <1>2 DEF Cancel
<1>3. CASE SubmitPush
  BY <1>3 DEF SubmitPush, DeleteFromStore, Free
<1>4. CASE CancelRemove \/ CancelCommit
  BY <1>4 DEF CancelRemove, CancelCommit, Free
<1>5. CASE Start \/ Stop
  BY <1>5 DEF Start, Stop
<1>6. ASSUME NEW a \in Actors, Poll(a) \/ PopJob(a) \/ PopNone(a) PROVE Counted'
  BY <1>6, SchedulerAssumption DEF Poll, PopJob, PopNone, Goto
<1>7. ASSUME NEW a \in Actors, NEW j \in Jobs, CallRunJob(a, j) PROVE Counted'
  BY <1>7 DEF CallRunJob
<1>8. ASSUME NEW a \in Actors, Begin(a) PROVE Counted'
  BY <1>8 DEF Begin, Goto
<1>9. ASSUME NEW a \in Actors, Execute(a) \/ RemoteRun(a) PROVE Counted'
  <2>1. held[a] \in Jobs /\ held[a] \in store /\ held[a] \notin queue
    BY <1>9 DEF Execute, RemoteRun, Accepted, OneHolder, Actors, Remote
  <2> QED BY <1>9, <2>1 DEF Execute, RemoteRun, Goto, Accepted, OneHolder
<1>10. ASSUME NEW a \in Actors, DecideRetry(a) \/ FailJob(a) PROVE Counted'
  BY <1>10, SchedulerAssumption DEF DecideRetry, FailJob, Decide, ShouldRetry, Goto
<1>11. ASSUME NEW a \in Actors,
              Prepare(a) \/ Succeed(a) \/ Reschedule(a) \/ GiveUp(a) \/ CompleteJob(a)
      PROVE  Counted'
  BY <1>11, SchedulerAssumption
     DEF Prepare, Succeed, Reschedule, GiveUp, CompleteJob, Transition, AddToStore, Goto, Unlock,
         Raised, Free
<1>12. ASSUME NEW a \in Actors, Requeue(a) PROVE Counted'
  BY <1>12, SchedulerAssumption DEF Requeue, QueuePush, Goto, Unlock, Free
<1>13. CASE UNCHANGED vars
  BY <1>13 DEF vars, lost
<1> QED BY <1>1, <1>2, <1>3, <1>4, <1>5, <1>6, <1>7, <1>8, <1>9, <1>10, <1>11, <1>12, <1>13
        DEF Next, Client, Step, RunJob

(* A job that a cancellation took out of the queue is out of reach. *)
Unreachable ==
    \A j \in acked :
        /\ j \in store \ queue
        /\ op.pc = "submit" => op.job # j
        /\ \A a \in Actors : held[a] # j

LEMMA NextUnreachable ==
    ASSUME Callers = {}, TypeOK, Accepted, OneHolder, Unreachable, [Next]_vars
    PROVE  Unreachable'
<1> USE DEF TypeOK, Unreachable
<1>1. ASSUME NEW j \in Jobs, Submit(j) \/ Cancel(j) PROVE Unreachable'
  BY <1>1 DEF Submit, Cancel, AddToStore, Stored
<1>2. CASE SubmitPush
  BY <1>2 DEF SubmitPush, DeleteFromStore, Free
<1>3. CASE CancelRemove
  BY <1>3 DEF CancelRemove, OneHolder, Accepted
<1>4. CASE CancelCommit \/ Start \/ Stop
  BY <1>4 DEF CancelCommit, Start, Stop, Free
<1>5. ASSUME NEW a \in Actors, Poll(a) \/ PopJob(a) \/ PopNone(a) PROVE Unreachable'
  BY <1>5, SchedulerAssumption DEF Poll, PopJob, PopNone, Goto
<1>6. ASSUME NEW a \in Actors, NEW j \in Jobs, CallRunJob(a, j) PROVE Unreachable'
  BY <1>6 DEF CallRunJob
<1>7. ASSUME NEW a \in Actors, Begin(a) \/ Execute(a) \/ RemoteRun(a) \/ DecideRetry(a) \/ FailJob(a)
      PROVE  Unreachable'
  BY <1>7, SchedulerAssumption DEF Begin, Execute, RemoteRun, DecideRetry, FailJob, Decide, Goto
<1>8. ASSUME NEW a \in Actors,
             Prepare(a) \/ Succeed(a) \/ Reschedule(a) \/ GiveUp(a) \/ CompleteJob(a)
      PROVE  Unreachable'
  BY <1>8, SchedulerAssumption
     DEF Prepare, Succeed, Reschedule, GiveUp, CompleteJob, Transition, AddToStore, Goto, Unlock, Free
<1>9. ASSUME NEW a \in Actors, Requeue(a) PROVE Unreachable'
  BY <1>9, SchedulerAssumption DEF Requeue, QueuePush, Goto, Unlock, Free
<1>10. CASE UNCHANGED vars
  BY <1>10 DEF vars, lost
<1> QED BY <1>1, <1>2, <1>3, <1>4, <1>5, <1>6, <1>7, <1>8, <1>9, <1>10
        DEF Next, Client, Step, RunJob

(* Who answers for an unfinished job, whoever runs jobs: the queue, the    *)
(* call that holds the lock, or an actor that is at a point from which the *)
(* job cannot stay behind unfinished.                                      *)
Answers(a, j, points) == held[a] = j /\ pc[a] \in points

RemotePC == {"idle", "pop", "remote", "report_ok", "report_error", "retrying",
                  "rescheduling", "requeue", "giveup", "stuck"}

(* Where a remote worker is inside fail_job, and holds the lock. *)
FailPC == {"retrying", "rescheduling", "requeue", "giveup"}

FailLocked ==
    /\ \A a \in Remote :
          pc[a] \in RemotePC /\ (pc[a] \in FailPC => op.pc = "fail")
    /\ \A a, b \in Remote : pc[a] \in FailPC /\ pc[b] \in FailPC => a = b

Kept ==
    /\ FailLocked
    /\ \A j \in Jobs \ (dropped \cup stranded) :
          /\ state[j] = "SCHEDULED" =>
                \/ j \in queue
                \/ op.job = j /\ op.pc \in {"submit", "cancel_remove", "cancel_commit"}
                \/ \E a \in Actors : Answers(a, j, {"begin", "start", "requeue"})
                \/ \E a \in Remote : held[a] = j /\ pc[a] # "stuck"
          /\ state[j] = "RUNNING" =>
                \E a \in Actors : Answers(a, j, {"exec", "succeeded", "failed", "retrying", "giveup"})
          /\ state[j] = "RETRYING" => \E a \in Actors : Answers(a, j, {"rescheduling"})

LEMMA InitKept == Init => Kept
BY SchedulerAssumption DEF Init, Kept, FailLocked, FailPC, RemotePC, Given, Actors

LEMMA ClientKept == ASSUME TypeOK, Accepted, Kept, Client PROVE Kept'
<1> USE DEF TypeOK, Kept, FailLocked, FailPC, Answers, lost
<1>1. ASSUME NEW j \in Jobs, Submit(j) PROVE Kept'
  BY <1>1, SchedulerAssumption DEF Submit, LockFree, Free
<1>2. CASE SubmitPush
  BY <1>2, SchedulerAssumption DEF SubmitPush, Free
<1>3. ASSUME NEW j \in Jobs, Cancel(j) PROVE Kept'
  BY <1>3 DEF Cancel, LockFree, Free
<1>4. CASE CancelRemove
  BY <1>4 DEF CancelRemove
<1>5. CASE CancelCommit
  <2>1. op.job \in Jobs /\ "CANCELLED" \in JobState
    BY <1>5 DEF CancelCommit, JobState
  <2>2. \A j \in Jobs : state'[j] = IF j = op.job /\ CanTransition(state[j], "CANCELLED")
                                  THEN "CANCELLED" ELSE state[j]
    BY <1>5, <2>1 DEF CancelCommit
  <2> QED BY <1>5, <2>1, <2>2, Table DEF CancelCommit, Free
<1>6. CASE Start \/ Stop
  BY <1>6 DEF Start, Stop
<1> QED BY <1>1, <1>2, <1>3, <1>4, <1>5, <1>6 DEF Client

LEMMA StepKept == ASSUME TypeOK, Accepted, Kept, NEW a \in Actors, Step(a) PROVE Kept'
<1> USE DEF TypeOK, Kept, FailLocked, FailPC, Answers, lost
<1>1. /\ Workers \subseteq Actors /\ Remote \subseteq Actors
      /\ a \in Workers \cup Callers => a \notin Remote
      /\ None \notin Jobs
  BY SchedulerAssumption DEF Actors
<1>3. CASE Poll(a) \/ PopNone(a)
  BY <1>1, <1>3 DEF Poll, PopNone, Goto, RemotePC
<1>4. CASE PopJob(a)
  BY <1>1, <1>4 DEF PopJob, RemotePC
<1>5. ASSUME NEW j \in Jobs, CallRunJob(a, j) PROVE Kept'
  BY <1>1, <1>5 DEF CallRunJob
<1>6. CASE Begin(a)
  BY <1>1, <1>6 DEF Begin, Goto, RemotePC
<1>7. CASE Execute(a) \/ RemoteRun(a)
  BY <1>1, <1>7 DEF Execute, RemoteRun, Goto, RemotePC
<1>8. CASE DecideRetry(a)
  BY <1>1, <1>8 DEF DecideRetry, Decide, Goto, RemotePC
<1>9. CASE FailJob(a)
  BY <1>1, <1>9 DEF FailJob, Decide, Goto, LockFree, Free, RemotePC
<1>10. CASE Prepare(a)
  BY <1>1, <1>10, Table DEF Prepare, Transition, Goto, JobState, RemotePC
<1>11. CASE Succeed(a)
  BY <1>1, <1>11, Table DEF Succeed, Transition, Goto, JobState, RemotePC
<1>12. CASE Reschedule(a)
  BY <1>1, <1>12, Table
     DEF Reschedule, Strand, Transition, Goto, Unlock, Raised, Free, JobState, RemotePC
<1>13. CASE Requeue(a)
  BY <1>1, <1>13 DEF Requeue, QueuePush, Goto, Unlock, Free, RemotePC
<1>14. CASE GiveUp(a)
  BY <1>1, <1>14, Table
     DEF GiveUp, Strand, Transition, Goto, Unlock, Raised, Free, JobState, RemotePC
<1>15. CASE CompleteJob(a)
  BY <1>1, <1>15, Table DEF CompleteJob, Strand, Transition, Goto, JobState, RemotePC
<1> QED BY <1>3, <1>4, <1>5, <1>6, <1>7, <1>8, <1>9, <1>10, <1>11, <1>12, <1>13, <1>14, <1>15
        DEF Step, RunJob

LEMMA NextKept == TypeOK /\ Accepted /\ Kept /\ [Next]_vars => Kept'
<1>1. ASSUME Kept, UNCHANGED vars PROVE Kept'
  BY <1>1 DEF vars, lost, Kept, FailLocked, Answers
<1> QED BY <1>1, ClientKept, StepKept DEF Next

-----------------------------------------------------------------------------
(* The variables keep their types. *)
THEOREM TypeCorrect == Safety => []TypeOK
BY InitTypes, NextTypes, PTL DEF Safety

(* Of a job that submit() has not accepted no worker and no lock holder    *)
(* knows, and it is neither stored nor queued, whoever runs jobs.          *)
THEOREM AcceptedHolds == Safety => [](TypeOK /\ Accepted)
<1>1. Init => TypeOK /\ Accepted
  BY InitTypes, InitAccepted
<1>2. TypeOK /\ Accepted /\ [Next]_vars => (TypeOK /\ Accepted)'
  BY NextTypes, NextAccepted
<1> QED BY <1>1, <1>2, PTL DEF Safety

(* A job that submit() turned away, at once or in its rollback, has left   *)
(* nothing behind (RejectedLeavesNoTrace).                                 *)
THEOREM RejectionIsClean == Safety => []RejectedLeavesNoTrace
<1>1. TypeOK /\ Accepted => RejectedLeavesNoTrace
  BY DEF TypeOK, Accepted, RejectedLeavesNoTrace
<1> QED BY <1>1, AcceptedHolds, PTL

(* No step of any thread takes a job out of a terminal state               *)
(* (TerminalIsFinal): all go through the transition table, but for the     *)
(* rollback of submit(), and its job is SCHEDULED and nobody else's.       *)
THEOREM TerminalStatesAreFinal == Safety => TerminalIsFinal
<1> DEFINE Final == \A j \in Jobs : state[j] \in Terminal => state'[j] = state[j]
<1>1. TypeOK /\ Accepted /\ [Next]_vars => Final
  <2> SUFFICES ASSUME TypeOK, Accepted, [Next]_vars PROVE Final
    OBVIOUS
  <2> USE DEF TypeOK
  <2>1. ASSUME NEW a \in Actors, NEW t \in JobState, NEW p, NEW r, held[a] \in Jobs,
               Transition(a, t, p, r)
        PROVE  Final
    BY <2>1, Table DEF Transition, Terminal
  <2>2. {"SCHEDULED", "RUNNING", "COMPLETED", "FAILED", "RETRYING", "CANCELLED"} \subseteq JobState
    BY DEF JobState
  <2>3. CASE UNCHANGED state
    BY <2>3
  <2>4. ASSUME NEW j \in Jobs, Submit(j) PROVE Final
    BY <2>2, <2>4, Table DEF Submit, Terminal
  <2>5. CASE SubmitPush
    BY <2>5 DEF SubmitPush, Accepted, Terminal
  <2>6. CASE CancelCommit
    BY <2>2, <2>6, Table DEF CancelCommit, Terminal
  <2>7. ASSUME NEW a \in Actors,
               Prepare(a) \/ Succeed(a) \/ Reschedule(a) \/ GiveUp(a) \/ CompleteJob(a)
        PROVE  Final
    <3>1. held[a] \in Jobs
      BY <2>7 DEF Prepare, Succeed, Reschedule, GiveUp, CompleteJob
    <3> QED BY <2>1, <2>2, <2>7, <3>1 DEF Prepare, Succeed, Reschedule, GiveUp, CompleteJob
  <2>8. ASSUME NEW j \in Jobs, Cancel(j) PROVE UNCHANGED state
    BY <2>8 DEF Cancel
  <2>9. CASE CancelRemove \/ Start \/ Stop
    BY <2>3, <2>9 DEF CancelRemove, Start, Stop
  <2>10. ASSUME NEW a \in Actors,
                \/ Poll(a) \/ PopJob(a) \/ PopNone(a) \/ Begin(a) \/ Execute(a)
                \/ DecideRetry(a) \/ Requeue(a) \/ RemoteRun(a) \/ FailJob(a)
         PROVE  UNCHANGED state
    BY <2>10 DEF Poll, PopJob, PopNone, Begin, Execute, DecideRetry, Requeue, RemoteRun, FailJob
  <2>11. ASSUME NEW a \in Actors, NEW j \in Jobs, CallRunJob(a, j) PROVE UNCHANGED state
    BY <2>11 DEF CallRunJob
  <2>12. CASE UNCHANGED vars
    BY <2>3, <2>12 DEF vars, lost
  <2> QED BY <2>3, <2>4, <2>5, <2>6, <2>7, <2>8, <2>9, <2>10, <2>11, <2>12
          DEF Next, Client, Step, RunJob
<1>2. TypeOK /\ Accepted /\ [Next]_vars => [Final]_vars
  BY <1>1
<1> QED BY <1>2, AcceptedHolds, PTL DEF TerminalIsFinal, Safety

(* An unfinished job is lost in two ways only, whoever runs jobs: its      *)
(* retry finds the queue full, or the state machine refuses the report of  *)
(* the process or async worker that ran it (NoJobLost).                    *)
THEOREM NothingElseIsLost == Safety => []NoJobLost
<1>1. Init => TypeOK /\ Accepted /\ Kept
  BY InitTypes, InitAccepted, InitKept
<1>2. TypeOK /\ Accepted /\ Kept /\ [Next]_vars => (TypeOK /\ Accepted /\ Kept)'
  BY NextTypes, NextAccepted, NextKept
<1>3. TypeOK /\ Accepted /\ Kept => NoJobLost
  BY DEF Kept, Answers, NoJobLost, Actors
<1> QED BY <1>1, <1>2, <1>3, PTL DEF Safety

-----------------------------------------------------------------------------
(* The rest is about a scheduler whose jobs are run by workers only: a     *)
(* client that calls run_job on a queued job runs it beside a worker.      *)
Inv == TypeOK /\ Accepted /\ OneHolder /\ Counted /\ Unreachable

LEMMA InitInv == ASSUME Callers = {} PROVE Init => Inv
<1> SUFFICES ASSUME Init PROVE Inv
  OBVIOUS
<1>1. TypeOK /\ Accepted
  BY InitTypes, InitAccepted
<1>2. OneHolder /\ Unreachable
  BY SchedulerAssumption DEF Init, OneHolder, Unreachable
<1>3. Counted
  BY SchedulerAssumption DEF Init, Counted, Free
<1> QED BY <1>1, <1>2, <1>3 DEF Inv

(* The invariant holds where no client runs a job of its own beside the    *)
(* workers that pop them.                                                  *)
THEOREM InvHolds == ASSUME Callers = {} PROVE Safety => []Inv
<1>1. Init => Inv
  BY InitInv
<1>2. Inv /\ [Next]_vars => Inv'
  BY NextTypes, NextAccepted, NextOneHolder, NextCounted, NextUnreachable DEF Inv
<1> QED BY <1>1, <1>2, PTL DEF Safety

(* No job is in two hands, or in one and in the queue, and one that was    *)
(* taken out of the queue by a cancellation is in neither (Custody).       *)
THEOREM OneCustodian == ASSUME Callers = {} PROVE Safety => []Custody
<1>1. Inv => Custody
  BY DEF Inv, Accepted, OneHolder, Unreachable, Custody
<1>2. Safety => []Inv
  BY InvHolds
<1> QED BY <1>1, <1>2, PTL

(* A job that submit() or a retry pushes is not queued, nor was it taken   *)
(* out of the queue by a cancellation, so that the heap has no entry of    *)
(* it: the scheduler keeps to the discipline (PushFresh) under which       *)
(* SchedulerQueue implements its specification.                            *)
PushesAreFresh ==
    [][/\ SubmitPush => op.job \notin queue \cup acked
       /\ \A a \in Actors : Requeue(a) => held[a] \notin queue \cup acked]_vars

(* Where only workers run jobs, the pushes are fresh (PushesAreFresh). *)
THEOREM SchedulerKeepsTheDiscipline ==
    ASSUME Callers = {} PROVE Safety => PushesAreFresh
<1> DEFINE Fresh ==
       /\ SubmitPush => op.job \notin queue \cup acked
       /\ \A a \in Actors : Requeue(a) => held[a] \notin queue \cup acked
<1>1. Custody => Fresh
  BY DEF Custody, SubmitPush, Requeue
<1>2. Custody /\ [Next]_vars => [Fresh]_vars
  BY <1>1
<1>3. Safety => []Custody
  BY OneCustodian
<1> QED BY <1>2, <1>3, PTL DEF PushesAreFresh, Safety

(* A function is called once per attempt, and max_retries + 1 times at     *)
(* most (RunsBounded).                                                     *)
THEOREM RunsAreBounded == ASSUME Callers = {} PROVE Safety => []RunsBounded
<1>1. Inv => RunsBounded
  BY DEF Inv, Counted, RunsBounded
<1>2. Safety => []Inv
  BY InvHolds
<1> QED BY <1>1, <1>2, PTL

(* The function of a job that a cancellation took out of the queue is not  *)
(* called again (CancelHonoured).                                          *)
THEOREM CancellationHolds == ASSUME Callers = {} PROVE Safety => CancelHonoured
<1> DEFINE Quiet == \A j \in acked : runs'[j] = runs[j]
<1>1. Inv /\ [Next]_vars => Quiet
  <2> SUFFICES ASSUME Inv, [Next]_vars, NEW j \in acked PROVE runs'[j] = runs[j]
    OBVIOUS
  <2> USE DEF Inv, TypeOK
  <2>1. ASSUME NEW a \in Actors, Execute(a) \/ RemoteRun(a) PROVE runs'[j] = runs[j]
    BY <2>1 DEF Execute, RemoteRun, Unreachable
  <2>2. ASSUME NEW a \in Actors, Step(a) PROVE runs'[j] = runs[j]
    BY <2>1, <2>2
       DEF Step, RunJob, Poll, PopJob, PopNone, CallRunJob, Begin, Prepare, Succeed, DecideRetry,
           Reschedule, Requeue, GiveUp, CompleteJob, FailJob
  <2>3. CASE Client
    BY <2>3 DEF Client, Submit, SubmitPush, Cancel, CancelRemove, CancelCommit, Start, Stop
  <2>4. CASE UNCHANGED vars
    BY <2>4 DEF vars, lost
  <2> QED BY <2>2, <2>3, <2>4 DEF Next
<1>2. Inv /\ [Next]_vars => [Quiet]_vars
  BY <1>1
<1>3. Safety => []Inv
  BY InvHolds
<1> QED BY <1>2, <1>3, PTL DEF CancelHonoured, Safety
=============================================================================
