-------------------------- MODULE DAGExecutorProofs --------------------------
(***************************************************************************)
(* Proofs about DAGExecutor, for any number of jobs and any acyclic DAG.   *)
(***************************************************************************)
EXTENDS DAGExecutor, FiniteSetTheorems, TLAPS

LEMMA QueueJobsType ==
    ASSUME NEW x \in DAGExecution, NEW S \in SUBSET Jobs, NEW A \in SUBSET S
    PROVE  QueueJobs(x, S, A) \in DAGExecution
BY DEF QueueJobs, DAGExecution

LEMMA ToldType == \A x \in DAGExecution : x.told \in Nat /\ x.told + 1 \in Nat
BY DEF DAGExecution

LEMMA OutcomeType ==
    ASSUME NEW x \in DAGExecution, NEW n \in Nat, NEW S \in SUBSET Jobs
    PROVE  /\ [x EXCEPT !.status = "COMPLETED", !.told = n] \in DAGExecution
           /\ [x EXCEPT !.status = "FAILED", !.cancelled_jobs = S, !.told = n] \in DAGExecution
BY Zenon DEF DAGExecution

LEMMA FailDagType ==
    ASSUME NEW x \in DAGExecution PROVE FailDag(x) \in DAGExecution
<1>1. x.cancelled_jobs \cup Unfinished(x) \in SUBSET Jobs
  BY DEF Unfinished, DAGExecution
<1> QED BY Zenon, <1>1, ToldType, OutcomeType DEF FailDag

LEMMA CheckCompletionType ==
    ASSUME NEW x \in DAGExecution, NEW S \in SUBSET Jobs, NEW A \in SUBSET S
    PROVE  CheckCompletion(x, S, A) \in DAGExecution
BY Zenon, ToldType, OutcomeType, QueueJobsType, FailDagType DEF CheckCompletion

-----------------------------------------------------------------------------
(* What the report of job j does: of the jobs Q, which are new and ready   *)
(* once j is counted, it submits all, and A are accepted.                  *)
Report(j, Q, A) ==
    /\ Q \in SUBSET Jobs /\ A \in SUBSET Q
    /\ ex' \in DAGExecution
    /\ ex'.running_jobs = (ex.running_jobs \ {j}) \cup A
    /\ ex'.completed_jobs = ex.completed_jobs \cup (IF state[j] = "COMPLETED" THEN {j} ELSE {})
    /\ ex'.failed_jobs = ex.failed_jobs \cup (IF state[j] = "COMPLETED" THEN {} ELSE {j})
                         \cup (Q \ A)
    /\ \A d \in Q :
          /\ d # j
          /\ d \notin ex.running_jobs \cup ex.completed_jobs \cup ex.failed_jobs
                      \cup ex.cancelled_jobs
          /\ dag.deps[d] \subseteq ex'.completed_jobs
    /\ SubmitJobs(Q, A)
    /\ untold' = untold \ {j}
    /\ UNCHANGED <<dag, stopped, lost>>

(* What becomes of the outcome meanwhile: nothing, as a job is in flight   *)
(* or has just been submitted, or the DAG has ended before, ...            *)
Open(Q) ==
    /\ ex'.status = ex.status
    /\ ex'.cancelled_jobs = ex.cancelled_jobs
    /\ ex'.told = ex.told
    /\ ex'.running_jobs # {} \/ Q # {} \/ ex.status \in {"FAILED", "CANCELLED"}

(* ... or the DAG is complete, with nothing left that is ready, ... *)
Complete(Q) ==
    /\ Q = {}
    /\ ex'.status = "COMPLETED"
    /\ ex'.cancelled_jobs = ex.cancelled_jobs
    /\ ex'.told = ex.told + 1
    /\ ex'.running_jobs = {}
    /\ ex'.failed_jobs = {}
    /\ \/ TotalAccounted(ex') >= Cardinality(Jobs)
       \/ \A d \in Jobs \ (ex'.completed_jobs \cup ex'.cancelled_jobs) :
             ~(dag.deps[d] \subseteq ex'.completed_jobs)

(* ... or it fails. *)
Fail ==
    /\ ex.status \notin {"FAILED", "CANCELLED"}
    /\ ex'.status = "FAILED"
    /\ ex'.cancelled_jobs = ex.cancelled_jobs \cup (Jobs \ (ex'.completed_jobs \cup ex'.failed_jobs))
    /\ ex'.told = ex.told + 1
    /\ ex'.failed_jobs # {}

LEMMA SweepIs ==
    ASSUME NEW x \in DAGExecution
    PROVE  /\ Sweep(x) \in SUBSET Jobs
           /\ \A d \in Sweep(x) : IsJobReady(d, x)
           /\ x.running_jobs = {} /\ Sweep(x) = {} =>
                 \/ TotalAccounted(x) >= Cardinality(Jobs)
                 \/ \A d \in Jobs : ~IsJobReady(d, x)
BY DEF Sweep

(* _check_dag_completion, field by field: what z is, from x, when the sweep *)
(* has submitted S and A of them are accepted.                             *)
Checked(x, z, S, A) ==
    /\ z.running_jobs = x.running_jobs \cup A
    /\ z.completed_jobs = x.completed_jobs
    /\ z.failed_jobs = x.failed_jobs \cup (S \ A)
    /\ \/ /\ x.running_jobs # {} \/ S # {} \/ x.status \in {"FAILED", "CANCELLED"}
          /\ z.status = x.status
          /\ z.cancelled_jobs = x.cancelled_jobs
          /\ z.told = x.told
       \/ /\ S = {} /\ x.running_jobs = {} /\ x.failed_jobs = {}
          /\ z.status = "COMPLETED"
          /\ z.cancelled_jobs = x.cancelled_jobs
          /\ z.told = x.told + 1
       \/ /\ S = {} /\ x.failed_jobs # {}
          /\ x.status \notin {"FAILED", "CANCELLED"}
          /\ z.status = "FAILED"
          /\ z.cancelled_jobs = x.cancelled_jobs \cup Unfinished(x)
          /\ z.told = x.told + 1

LEMMA CheckCompletionIs ==
    ASSUME NEW x \in DAGExecution, NEW S \in SUBSET Jobs, NEW A \in SUBSET S,
           x.running_jobs # {} => S = {}
    PROVE  Checked(x, CheckCompletion(x, S, A), S, A)
<1> USE DEF Checked
<1>1. CASE x.running_jobs # {}
  BY <1>1 DEF CheckCompletion
<1>2. CASE x.running_jobs = {} /\ S # {}
  BY <1>2 DEF CheckCompletion, QueueJobs, DAGExecution
<1>3. CASE x.running_jobs = {} /\ S = {} /\ x.failed_jobs # {}
  BY <1>3 DEF CheckCompletion, FailDag, DAGExecution
<1>4. CASE x.running_jobs = {} /\ S = {} /\ x.failed_jobs = {}
  BY <1>4 DEF CheckCompletion, DAGExecution
<1> QED BY <1>1, <1>2, <1>3, <1>4

LEMMA CompleteReports ==
    ASSUME TypeOK, NEW j \in Jobs, OnJobComplete(j)
    PROVE  \E Q, A \in SUBSET Jobs : Report(j, Q, A) /\ (Open(Q) \/ Complete(Q) \/ Fail)
<1> DEFINE x == [ex EXCEPT !.running_jobs = @ \ {j}, !.completed_jobs = @ \cup {j}]
           S == {d \in Jobs : j \in dag.deps[d] /\ IsJobReady(d, x)}
<1> USE DEF TypeOK
<1>0. PICK A \in SUBSET S :
         \E B \in SUBSET Sweep(QueueJobs(x, S, A)) :
            /\ ex' = CheckCompletion(QueueJobs(x, S, A), Sweep(QueueJobs(x, S, A)), B)
            /\ SubmitJobs(S \cup Sweep(QueueJobs(x, S, A)), A \cup B)
  BY Zenon DEF OnJobComplete
<1> DEFINE y == QueueJobs(x, S, A)
           Q == S \cup Sweep(y)
<1>1. PICK B \in SUBSET Sweep(y) :
         ex' = CheckCompletion(y, Sweep(y), B) /\ SubmitJobs(Q, A \cup B)
  BY Zenon, <1>0
<1>2. state[j] = "COMPLETED" /\ untold' = untold \ {j} /\ UNCHANGED <<dag, stopped, lost>>
  BY DEF OnJobComplete
<1>3. /\ x \in DAGExecution
      /\ x.running_jobs = ex.running_jobs \ {j}
      /\ x.completed_jobs = ex.completed_jobs \cup {j}
      /\ x.failed_jobs = ex.failed_jobs
      /\ x.cancelled_jobs = ex.cancelled_jobs
      /\ x.status = ex.status
      /\ x.told = ex.told
  BY DEF DAGExecution
<1>4. S \in SUBSET Jobs /\ \A d \in S : IsJobReady(d, x)
  OBVIOUS
<1>5. /\ y \in DAGExecution
      /\ y.running_jobs = x.running_jobs \cup A
      /\ y.completed_jobs = x.completed_jobs
      /\ y.failed_jobs = x.failed_jobs \cup (S \ A)
      /\ y.cancelled_jobs = x.cancelled_jobs
      /\ y.status = x.status
      /\ y.told = x.told
  BY <1>3, <1>4, QueueJobsType DEF QueueJobs, DAGExecution
<1> HIDE DEF x, S, y
<1>6. /\ Sweep(y) \in SUBSET Jobs
      /\ \A d \in Sweep(y) : IsJobReady(d, y)
      /\ y.running_jobs = {} /\ Sweep(y) = {} =>
            \/ TotalAccounted(y) >= Cardinality(Jobs)
            \/ \A d \in Jobs : ~IsJobReady(d, y)
  BY <1>5, SweepIs
<1>7. ex' = CheckCompletion(y, Sweep(y), B) /\ SubmitJobs(Q, A \cup B)
  BY <1>1
<1>8. y.running_jobs # {} => Sweep(y) = {}
  BY DEF Sweep
<1>9. ex' \in DAGExecution
  BY <1>1, <1>5, <1>6, CheckCompletionType
<1>10. S \cap Sweep(y) = {}
  BY <1>5, <1>6 DEF IsJobReady
<1>11. Checked(y, ex', Sweep(y), B)
  BY Zenon, <1>1, <1>5, <1>6, <1>8, CheckCompletionIs
<1> USE DEF Checked
<1>12. \A d \in Q : /\ d # j
                    /\ d \notin ex.running_jobs \cup ex.completed_jobs \cup ex.failed_jobs
                               \cup ex.cancelled_jobs
                    /\ dag.deps[d] \subseteq ex'.completed_jobs
  BY <1>3, <1>4, <1>5, <1>6, <1>11 DEF IsJobReady
<1>13. Report(j, Q, A \cup B)
  <2>1. (S \ A) \cup (Sweep(y) \ B) = Q \ (A \cup B)
    BY <1>0, <1>1, <1>10
  <2>2. Q \in SUBSET Jobs /\ A \cup B \in SUBSET Q
    BY <1>0, <1>1, <1>4, <1>6
  <2> QED BY <1>2, <1>3, <1>5, <1>7, <1>9, <1>11, <1>12, <2>1, <2>2 DEF Report
<1>14. Open(Q) \/ Complete(Q) \/ Fail
  <2>1. CASE /\ y.running_jobs # {} \/ Sweep(y) # {} \/ y.status \in {"FAILED", "CANCELLED"}
             /\ ex'.status = y.status
             /\ ex'.cancelled_jobs = y.cancelled_jobs
             /\ ex'.told = y.told
    BY <2>1, <1>3, <1>5, <1>11 DEF Open
  <2>2. CASE /\ Sweep(y) = {} /\ y.running_jobs = {} /\ y.failed_jobs = {}
             /\ ex'.status = "COMPLETED"
             /\ ex'.cancelled_jobs = y.cancelled_jobs
             /\ ex'.told = y.told + 1
    <3>1. A = {} /\ B = {} /\ S = {}
      BY <1>0, <1>1, <1>5, <2>2
    <3>2. Q = {}
      BY <2>2, <3>1
    <3>3. ex'.running_jobs = {} /\ ex'.failed_jobs = {}
      BY <1>11, <2>2, <3>1
    <3>4. TotalAccounted(ex') = TotalAccounted(y)
      BY <1>11, <2>2, <3>3 DEF TotalAccounted
    <3>5. \A d \in Jobs \ (ex'.completed_jobs \cup ex'.cancelled_jobs) :
             dag.deps[d] \subseteq ex'.completed_jobs => IsJobReady(d, y)
      BY <1>11, <2>2 DEF IsJobReady
    <3> QED BY <1>3, <1>5, <1>6, <2>2, <3>2, <3>3, <3>4, <3>5 DEF Complete
  <2>3. CASE /\ Sweep(y) = {} /\ y.failed_jobs # {}
             /\ y.status \notin {"FAILED", "CANCELLED"}
             /\ ex'.status = "FAILED"
             /\ ex'.cancelled_jobs = y.cancelled_jobs \cup Unfinished(y)
             /\ ex'.told = y.told + 1
    BY <1>3, <1>5, <1>11, <2>3 DEF Fail, Unfinished
  <2> QED BY Zenon, <1>11, <2>1, <2>2, <2>3
<1> QED BY <1>13, <1>14, <1>4, <1>6, <1>1 DEF Report

LEMMA FailedReports ==
    ASSUME TypeOK, NEW j \in Jobs, OnJobFailed(j)
    PROVE  \E Q, A \in SUBSET Jobs : Report(j, Q, A) /\ (Open(Q) \/ Complete(Q) \/ Fail)
<1> DEFINE x == [ex EXCEPT !.running_jobs = @ \ {j}, !.failed_jobs = @ \cup {j}]
<1> USE DEF TypeOK
<1>1. /\ state[j] = "FAILED" /\ untold' = untold \ {j} /\ UNCHANGED <<dag, stopped, lost>>
      /\ IF dag.fail_fast
         THEN ex' = FailDag(x) /\ UNCHANGED <<state, submits>>
         ELSE \E B \in SUBSET Sweep(x) :
                 ex' = CheckCompletion(x, Sweep(x), B) /\ SubmitJobs(Sweep(x), B)
  BY Zenon DEF OnJobFailed
<1>2. /\ x \in DAGExecution
      /\ x.running_jobs = ex.running_jobs \ {j}
      /\ x.completed_jobs = ex.completed_jobs
      /\ x.failed_jobs = ex.failed_jobs \cup {j}
      /\ x.cancelled_jobs = ex.cancelled_jobs
      /\ x.status = ex.status
      /\ x.told = ex.told
  BY DEF DAGExecution
<1> HIDE DEF x
<1>3. CASE dag.fail_fast
  <2>1. ex' = FailDag(x) /\ UNCHANGED <<state, submits>> /\ ex' \in DAGExecution
    BY <1>1, <1>2, <1>3, FailDagType
  <2>2. Open({}) \/ Fail
    BY <1>2, <2>1 DEF FailDag, Unfinished, DAGExecution, Open, Fail
  <2>3. /\ ex'.running_jobs = x.running_jobs
        /\ ex'.completed_jobs = x.completed_jobs
        /\ ex'.failed_jobs = x.failed_jobs
    BY <1>2, <2>1 DEF FailDag, DAGExecution
  <2>4. SubmitJobs({}, {})
    BY <2>1 DEF SubmitJobs
  <2>5. Report(j, {}, {})
    BY <1>1, <1>2, <2>1, <2>3, <2>4 DEF Report
  <2> QED BY <2>2, <2>5
<1>4. CASE ~dag.fail_fast
  <2> DEFINE Q == Sweep(x)
  <2>1. PICK B \in SUBSET Q : ex' = CheckCompletion(x, Q, B) /\ SubmitJobs(Q, B)
    BY <1>1, <1>4
  <2>2. Q \in SUBSET Jobs /\ \A d \in Q : IsJobReady(d, x)
    BY <1>2, SweepIs
  <2>3. x.running_jobs # {} => Q = {}
    BY DEF Sweep
  <2>4. ex' \in DAGExecution /\ Checked(x, ex', Q, B)
    BY Zenon, <1>2, <2>1, <2>2, <2>3, CheckCompletionType, CheckCompletionIs
  <2> HIDE DEF Q
  <2>5. Report(j, Q, B)
    BY <1>1, <1>2, <2>1, <2>2, <2>4 DEF Report, Checked, IsJobReady
  <2>6. Open(Q) \/ Fail
    <3>1. x.running_jobs \subseteq ex'.running_jobs /\ x.failed_jobs # {}
      BY <1>2, <2>4 DEF Checked
    <3>2. CASE /\ x.running_jobs # {} \/ Q # {} \/ x.status \in {"FAILED", "CANCELLED"}
               /\ ex'.status = x.status
               /\ ex'.cancelled_jobs = x.cancelled_jobs
               /\ ex'.told = x.told
      BY <1>2, <3>1, <3>2 DEF Open
    <3>3. CASE /\ x.status \notin {"FAILED", "CANCELLED"}
               /\ ex'.status = "FAILED"
               /\ ex'.cancelled_jobs = x.cancelled_jobs \cup Unfinished(x)
               /\ ex'.told = x.told + 1
      BY <1>2, <2>4, <3>3 DEF Fail, Checked, Unfinished
    <3> QED BY Zenon, <2>4, <3>1, <3>2, <3>3 DEF Checked
  <2> QED BY <2>1, <2>2, <2>5, <2>6
<1> QED BY <1>3, <1>4

-----------------------------------------------------------------------------
(* A job is new, queued (or being run, or cancelled on its own), ended     *)
(* without the executor knowing, or counted: this is what ties the job     *)
(* states, which workers write, to the books of the executor.              *)
Phase(j) ==
    \/ /\ submits[j] = 0 /\ state[j] = "PENDING"
       /\ j \notin ex.running_jobs \cup ex.completed_jobs \cup ex.failed_jobs
    \/ /\ submits[j] = 1
       /\ \/ /\ j \in ex.running_jobs
             /\ j \notin ex.completed_jobs \cup ex.failed_jobs
             /\ \/ state[j] \in {"SCHEDULED", "RUNNING", "CANCELLED"} /\ j \notin untold
                \/ state[j] \in {"COMPLETED", "FAILED"} /\ j \in untold
          \/ /\ j \in ex.completed_jobs
             /\ j \notin ex.running_jobs \cup ex.failed_jobs \cup untold
             /\ state[j] = "COMPLETED"
          \/ /\ j \in ex.failed_jobs
             /\ j \notin ex.running_jobs \cup ex.completed_jobs \cup untold
             /\ state[j] \in {"FAILED", "PENDING"}

Phases == \A j \in Jobs : Phase(j)

(* What the status says of the books. *)
Status ==
    /\ ex.status = "PENDING" => \A j \in Jobs : submits[j] = 0
    /\ ex.status = "COMPLETED" => ex.running_jobs = {}
    /\ ex.status = "FAILED" => ex.failed_jobs # {}
    /\ ex.status \in {"FAILED", "CANCELLED"} =>
          Jobs \subseteq ex.completed_jobs \cup ex.failed_jobs \cup ex.cancelled_jobs

Outcome ==
    ~stopped =>
        /\ ex.status # "CANCELLED"
        /\ ex.status # "FAILED" => ex.cancelled_jobs = {}
        /\ ex.status = "COMPLETED" => ex.completed_jobs = Jobs
        /\ ex.told = IF ex.status \in {"COMPLETED", "FAILED"} THEN 1 ELSE 0

Inv == TypeOK /\ Phases /\ DependenciesFirst /\ Status /\ Outcome

LEMMA InitInv == Init => Inv
<1> SUFFICES ASSUME Init PROVE Inv
  OBVIOUS
<1>1. dag \in [deps : Shapes, fail_fast : BOOLEAN]
  BY DEF Init
<1>2. /\ ex \in DAGExecution
      /\ ex.status = "PENDING" /\ ex.told = 0
      /\ ex.running_jobs = {} /\ ex.completed_jobs = {}
      /\ ex.failed_jobs = {} /\ ex.cancelled_jobs = {}
  BY DEF Init, DAGExecution
<1>3. TypeOK
  BY <1>1, <1>2 DEF Init, TypeOK
<1>4. Phases /\ DependenciesFirst
  BY <1>2 DEF Init, Phases, Phase, DependenciesFirst, Started
<1>5. Status /\ Outcome
  BY <1>2 DEF Init, Status, Outcome
<1> QED BY <1>3, <1>4, <1>5 DEF Inv

(* The books agree because the phases do. *)
LEMMA PhasesAgree == TypeOK /\ Phases => BooksAgree
BY DEF TypeOK, DAGExecution, Phases, Phase, BooksAgree

(* A report of job j keeps the invariant. *)
LEMMA ReportTypes ==
    ASSUME Inv, NEW j \in Jobs, NEW Q \in SUBSET Jobs, NEW A \in SUBSET Jobs, Report(j, Q, A)
    PROVE  TypeOK'
<1> USE DEF Inv, TypeOK, Report, SubmitJobs
<1>1. \A d \in Q : state[d] = "PENDING"
  BY DEF Phases, Phase
<1>2. state' \in [Jobs -> {"PENDING", "SCHEDULED", "RUNNING", "COMPLETED", "FAILED", "CANCELLED"}]
  OBVIOUS
<1>3. submits' \in [Jobs -> Nat]
  OBVIOUS
<1>4. untold' \subseteq {k \in Jobs : state'[k] \in {"COMPLETED", "FAILED"}}
  BY <1>1
<1>5. lost' \subseteq {k \in Jobs : state'[k] \in {"SCHEDULED", "CANCELLED"}}
  OBVIOUS
<1> QED BY <1>2, <1>3, <1>4, <1>5

LEMMA ReportPhases ==
    ASSUME Inv, NEW j \in Jobs, NEW Q \in SUBSET Jobs, NEW A \in SUBSET Jobs, Report(j, Q, A),
           j \in untold
    PROVE  Phases' /\ DependenciesFirst'
<1> USE DEF Inv, TypeOK, Report
<1>1. \A d \in Q : Phase(d) /\ submits[d] = 0 /\ state[d] = "PENDING" /\ d \notin untold
  BY DEF Phases, Phase
<1>2. /\ \A d \in Jobs : state'[d] = IF d \in A THEN "SCHEDULED" ELSE state[d]
      /\ \A d \in Jobs : submits'[d] = IF d \in Q THEN submits[d] + 1 ELSE submits[d]
  BY DEF SubmitJobs
<1>3. ASSUME NEW d \in Jobs PROVE Phase(d)'
  <2> Phase(d)
    BY DEF Phases
  <2>1. CASE d \in Q
    BY <1>1, <1>2, <2>1 DEF Phase
  <2>2. CASE d = j
    BY <1>2, <2>2 DEF Phase
  <2>3. CASE d \notin Q /\ d # j
    BY <1>2, <2>3 DEF Phase
  <2> QED BY <2>1, <2>2, <2>3
<1>4. \A d \in ex'.completed_jobs : d \in Jobs /\ state[d] = "COMPLETED" /\ d \notin A
  BY <1>1 DEF Phases, Phase, DAGExecution
<1>5. ASSUME NEW d \in Jobs, state'[d] \in Started, NEW k \in dag'.deps[d]
      PROVE  state'[k] = "COMPLETED"
  <2>1. dag' = dag /\ k \in Jobs
    BY <1>5, DAGAssumption
  <2>2. CASE d \in A
    BY <1>2, <1>4, <1>5, <2>1, <2>2
  <2>3. CASE d \notin A
    BY <1>1, <1>2, <1>5, <2>1, <2>3 DEF DependenciesFirst, Started
  <2> QED BY <2>2, <2>3
<1> QED BY <1>3, <1>5 DEF Phases, DependenciesFirst

LEMMA ReportStatus ==
    ASSUME Inv, NEW j \in Jobs, NEW Q \in SUBSET Jobs, NEW A \in SUBSET Jobs, Report(j, Q, A),
           j \in untold, Open(Q) \/ Complete(Q) \/ Fail
    PROVE  Status'
<1> USE DEF Inv, TypeOK, Report, DAGExecution
<1>1. /\ ex.status # "PENDING" /\ ex.status # "COMPLETED"
      /\ j \in ex.running_jobs
  BY DEF Phases, Phase, Status
<1>2. CASE Open(Q)
  BY <1>1, <1>2 DEF Open, Status
<1>3. CASE Complete(Q)
  BY <1>1, <1>3 DEF Complete, Status
<1>4. CASE Fail
  BY <1>1, <1>4 DEF Fail, Status
<1> QED BY <1>2, <1>3, <1>4

(* Among any jobs of the DAG there is one that depends on none of them. *)
LEMMA SourceExists ==
    \A deps \in Shapes, S \in SUBSET Jobs : S # {} => \E d \in S : deps[d] \cap S = {}
BY DAGAssumption

LEMMA ReportOutcome ==
    ASSUME Inv, NEW j \in Jobs, NEW Q \in SUBSET Jobs, NEW A \in SUBSET Jobs, Report(j, Q, A),
           j \in untold, Open(Q) \/ Complete(Q) \/ Fail
    PROVE  Outcome'
<1> SUFFICES ASSUME ~stopped PROVE Outcome'
  BY DEF Report, Outcome
<1> USE DEF Inv, TypeOK, Report, DAGExecution
<1>1. /\ ex.status # "PENDING" /\ ex.status # "COMPLETED" /\ ex.status # "CANCELLED"
      /\ j \in ex.running_jobs
  BY DEF Phases, Phase, Status, Outcome
<1>2. CASE Open(Q)
  BY <1>1, <1>2 DEF Open, Outcome
<1>3. CASE Complete(Q)
  <2>1. ex.status = "RUNNING"
    BY <1>1, <1>3 DEF Complete, Status
  <2>2. ex.cancelled_jobs = {} /\ ex'.cancelled_jobs = {} /\ ex.told = 0
    BY <1>3, <2>1 DEF Complete, Outcome
  <2> DEFINE C == ex'.completed_jobs
  <2>3. C \in SUBSET Jobs
    OBVIOUS
  <2>4. C = Jobs
    <3>1. CASE TotalAccounted(ex') >= Cardinality(Jobs)
      <4>1. Cardinality(C) >= Cardinality(Jobs)
        <5>1. Cardinality({}) = 0 /\ IsFiniteSet(C) /\ Cardinality(C) \in Nat
          BY <2>3, FS_EmptySet, FS_Subset, FS_CardinalityType, DAGAssumption
        <5>2. ex'.failed_jobs = {} /\ ex'.cancelled_jobs = {}
          BY <1>3, <2>2 DEF Complete
        <5>3. TotalAccounted(ex') = Cardinality(C) + Cardinality({}) + Cardinality({})
          BY Zenon, <5>2 DEF TotalAccounted
        <5> HIDE DEF C
        <5> QED BY <3>1, <5>1, <5>3
      <4>2. /\ Cardinality(C) <= Cardinality(Jobs)
            /\ Cardinality(Jobs) = Cardinality(C) => Jobs = C
            /\ Cardinality(C) \in Nat /\ Cardinality(Jobs) \in Nat
        BY <2>3, FS_Subset, FS_CardinalityType, DAGAssumption
      <4> QED BY <4>1, <4>2
    <3>2. CASE \A d \in Jobs \ (C \cup ex'.cancelled_jobs) : ~(dag.deps[d] \subseteq C)
      <4>1. \A d \in Jobs \ C : dag.deps[d] \in SUBSET Jobs /\ dag.deps[d] \cap (Jobs \ C) # {}
        <5>1. dag.deps \in [Jobs -> SUBSET Jobs]
          BY DAGAssumption
        <5> QED BY <2>2, <3>2, <5>1
      <4>2. Jobs \ C # {} => \E d \in Jobs \ C : dag.deps[d] \cap (Jobs \ C) = {}
        <5> DEFINE D == dag.deps
                   U == Jobs \ C
        <5>1. D \in Shapes /\ U \in SUBSET Jobs
          OBVIOUS
        <5> HIDE DEF D, U
        <5>2. U # {} => \E d \in U : D[d] \cap U = {}
          BY <5>1, SourceExists
        <5> QED BY Zenon, <5>2 DEF D, U
      <4> QED BY <2>3, <4>1, <4>2
    <3> QED BY <1>3, <3>1, <3>2 DEF Complete
  <2> QED BY <1>3, <2>2, <2>4 DEF Complete, Outcome
<1>4. CASE Fail
  BY <1>1, <1>4 DEF Fail, Outcome
<1> QED BY <1>2, <1>3, <1>4

LEMMA ReportInv ==
    ASSUME Inv, NEW j \in Jobs, OnJobComplete(j) \/ OnJobFailed(j)
    PROVE  Inv'
<1>1. PICK Q \in SUBSET Jobs, A \in SUBSET Jobs :
         Report(j, Q, A) /\ (Open(Q) \/ Complete(Q) \/ Fail)
  BY CompleteReports, FailedReports DEF Inv
<1>2. j \in untold
  BY DEF OnJobComplete, OnJobFailed
<1> QED BY <1>1, <1>2, ReportTypes, ReportPhases, ReportStatus, ReportOutcome DEF Inv

-----------------------------------------------------------------------------
(* The other steps. *)

LEMMA StartInv == ASSUME Inv, StartDag PROVE Inv'
<1> USE DEF Inv, TypeOK
<1>1. PICK A \in SUBSET Roots :
         /\ ex' = QueueJobs([ex EXCEPT !.status = "RUNNING"], Roots, A)
         /\ SubmitJobs(Roots, A)
  BY DEF StartDag
<1>2. /\ ex.status = "PENDING"
      /\ UNCHANGED <<dag, untold, stopped, lost>>
      /\ Roots \in SUBSET Jobs
  BY DEF StartDag, Roots
<1>3. [ex EXCEPT !.status = "RUNNING"] \in DAGExecution
  BY DEF DAGExecution
<1>4. /\ ex' \in DAGExecution
      /\ ex'.status = "RUNNING"
      /\ ex'.running_jobs = ex.running_jobs \cup A
      /\ ex'.completed_jobs = ex.completed_jobs
      /\ ex'.failed_jobs = ex.failed_jobs \cup (Roots \ A)
      /\ ex'.cancelled_jobs = ex.cancelled_jobs
      /\ ex'.told = ex.told
  BY <1>1, <1>2, <1>3, QueueJobsType DEF QueueJobs, DAGExecution
<1>5. \A d \in Jobs : submits[d] = 0 /\ state[d] = "PENDING" /\ d \notin untold
  BY <1>2 DEF Status, Phases, Phase
<1>6. /\ state' = [d \in Jobs |-> IF d \in A THEN "SCHEDULED" ELSE "PENDING"]
      /\ submits' = [d \in Jobs |-> IF d \in Roots THEN 1 ELSE 0]
  BY <1>1, <1>5 DEF SubmitJobs
<1>7. TypeOK'
  BY <1>2, <1>4, <1>5, <1>6
<1>8. Phases'
  BY <1>1, <1>2, <1>4, <1>5, <1>6 DEF Phases, Phase
<1>9. DependenciesFirst'
  BY <1>1, <1>2, <1>6 DEF DependenciesFirst, Started, Roots
<1>10. Status' /\ Outcome'
  BY <1>2, <1>4 DEF Status, Outcome
<1> QED BY <1>7, <1>8, <1>9, <1>10

LEMMA CancelInv == ASSUME Inv, CancelDag PROVE Inv'
<1> USE DEF Inv, TypeOK
<1>1. /\ ex' \in DAGExecution
      /\ ex'.status = "CANCELLED"
      /\ ex'.running_jobs = ex.running_jobs
      /\ ex'.completed_jobs = ex.completed_jobs
      /\ ex'.failed_jobs = ex.failed_jobs
      /\ ex'.cancelled_jobs = ex.cancelled_jobs \cup Unfinished(ex)
  <2>1. ex.cancelled_jobs \cup Unfinished(ex) \in SUBSET Jobs
    BY DEF Unfinished, DAGExecution
  <2> QED BY <2>1 DEF CancelDag, DAGExecution
<1>2. /\ UNCHANGED <<dag, untold, submits, lost>>
      /\ stopped' = TRUE
      /\ state' = [j \in Jobs |-> IF j \in Unfinished(ex) /\ state[j] = "SCHEDULED"
                                  THEN "CANCELLED" ELSE state[j]]
  BY DEF CancelDag
<1>3. TypeOK'
  BY <1>1, <1>2
<1>4. Phases'
  BY <1>1, <1>2 DEF Phases, Phase
<1>5. DependenciesFirst'
  <2>1. dag.deps \in [Jobs -> SUBSET Jobs]
    BY DAGAssumption
  <2> QED BY <1>2, <2>1 DEF DependenciesFirst, Started
<1>6. Status' /\ Outcome'
  BY <1>1, <1>2 DEF Status, Outcome, Unfinished, DAGExecution
<1> QED BY <1>3, <1>4, <1>5, <1>6

(* A worker's or a client's step: one job changes its state, and not from  *)
(* COMPLETED.                                                              *)
LEMMA JobInv ==
    ASSUME Inv, NEW j \in Jobs,
           CancelJob(j) \/ StartJob(j) \/ RetryJob(j) \/ StrandJob(j) \/ EndJob(j)
    PROVE  Inv'
<1> USE DEF Inv, TypeOK, CancelJob, Queued, StartJob, RetryJob, StrandJob, EndJob
<1>1. TypeOK'
  OBVIOUS
<1>2. Phases'
  BY DEF Phases, Phase
<1>3. DependenciesFirst'
  <2>1. dag.deps \in [Jobs -> SUBSET Jobs]
    BY DAGAssumption
  <2>2. \A k \in Jobs : state'[k] \in Started => state[k] \in Started
    BY DEF Started
  <2>3. \A k \in Jobs : state[k] = "COMPLETED" => state'[k] = "COMPLETED"
    OBVIOUS
  <2> QED BY <2>1, <2>2, <2>3 DEF DependenciesFirst
<1>4. Status' /\ Outcome'
  BY DEF Status, Outcome
<1> QED BY <1>1, <1>2, <1>3, <1>4

LEMMA StepInv == Inv /\ [Next]_vars => Inv'
<1> SUFFICES ASSUME Inv, [Next]_vars PROVE Inv'
  OBVIOUS
<1>1. CASE UNCHANGED vars
  BY <1>1 DEF vars, Inv, TypeOK, Phases, Phase, DependenciesFirst, Status, Outcome
<1> QED BY <1>1, StartInv, CancelInv, ReportInv, JobInv DEF Next

(* The invariant holds, whatever workers, cancellations and refusals do. *)
THEOREM InvHolds == Spec => []Inv
<1>1. Safety => []Inv
  BY InitInv, StepInv, PTL DEF Safety
<1> QED BY <1>1, PTL DEF Spec

-----------------------------------------------------------------------------
(* The variables keep their types. *)
THEOREM TypeCorrect == Spec => []TypeOK
<1>1. Inv => TypeOK
  BY DEF Inv
<1> QED BY <1>1, InvHolds, PTL

(* A job is queued after all its dependencies have completed, in whatever  *)
(* order the reports of workers arrive (DependenciesFirst).                *)
THEOREM DependenciesComeFirst == Spec => []DependenciesFirst
<1>1. Inv => DependenciesFirst
  BY DEF Inv
<1> QED BY <1>1, InvHolds, PTL

(* _queue_job is called at most once for a job (QueuedOnce). *)
THEOREM NobodyQueuedTwice == Spec => []QueuedOnce
<1>1. Inv => QueuedOnce
  BY DEF Inv, TypeOK, Phases, Phase, QueuedOnce
<1> QED BY <1>1, InvHolds, PTL

(* The books of the executor and the job states agree (BooksAgree). *)
THEOREM BooksAlwaysAgree == Spec => []BooksAgree
<1>1. Inv => BooksAgree
  BY PhasesAgree DEF Inv
<1> QED BY <1>1, InvHolds, PTL

(* A DAG that nobody cancels is reported once, and truly (OutcomeTrue). *)
THEOREM OutcomeIsTrue == Spec => []OutcomeTrue
<1>1. Inv => OutcomeTrue
  BY DEF Inv, Status, Outcome, OutcomeTrue
<1> QED BY <1>1, InvHolds, PTL

(* After the end of the DAG no job of it is queued (NothingQueuedAfterEnd):*)
(* whoever reports then finds every job in the books, or finds that there  *)
(* is nobody left to report.                                               *)
THEOREM EndIsEnd == Spec => NothingQueuedAfterEnd
<1> DEFINE Still == ex.status \notin {"PENDING", "RUNNING"} =>
                       \A j \in Jobs : state[j] = "PENDING" => state'[j] = "PENDING"
<1>1. Inv /\ [Next]_vars => Still
  <2> SUFFICES ASSUME Inv, [Next]_vars, ex.status \notin {"PENDING", "RUNNING"},
                      NEW k \in Jobs, state[k] = "PENDING"
               PROVE  state'[k] = "PENDING"
    OBVIOUS
  <2> USE DEF Inv, TypeOK
  <2>1. ASSUME NEW j \in Jobs, OnJobComplete(j) \/ OnJobFailed(j)
        PROVE  state'[k] = "PENDING"
    <3>1. PICK Q \in SUBSET Jobs, A \in SUBSET Jobs :
             Report(j, Q, A) /\ (Open(Q) \/ Complete(Q) \/ Fail)
      BY <2>1, CompleteReports, FailedReports
    <3>2. j \in untold
      BY <2>1 DEF OnJobComplete, OnJobFailed
    <3>3. j \in ex.running_jobs /\ ex.status \in {"FAILED", "CANCELLED"}
      BY <3>2 DEF Phases, Phase, Status, DAGExecution
    <3>4. Q = {}
      BY <3>1, <3>3 DEF Report, Status
    <3>5. A = {}
      BY <3>1, <3>4 DEF Report
    <3> QED BY <3>1, <3>4, <3>5 DEF Report, SubmitJobs
  <2>2. CASE StartDag
    BY <2>2 DEF StartDag
  <2>3. CASE CancelDag
    BY <2>3 DEF CancelDag
  <2>4. ASSUME NEW j \in Jobs,
               CancelJob(j) \/ StartJob(j) \/ RetryJob(j) \/ StrandJob(j) \/ EndJob(j)
        PROVE  state'[k] = "PENDING"
    BY <2>4 DEF CancelJob, Queued, StartJob, RetryJob, StrandJob, EndJob
  <2>5. CASE UNCHANGED vars
    BY <2>5 DEF vars
  <2> QED BY <2>1, <2>2, <2>3, <2>4, <2>5 DEF Next
<1>2. Inv /\ [Next]_vars => [Still]_vars
  BY <1>1
<1>3. Spec => [][Next]_vars
  BY DEF Spec, Safety
<1> QED BY <1>2, <1>3, InvHolds, PTL DEF NothingQueuedAfterEnd

-----------------------------------------------------------------------------
(* A running DAG is never left without a next step: one of its jobs is in   *)
(* the queue, a worker has one or is due to report one.  The exceptions are *)
(* those of DagEnds.                                                        *)
NeverStalls ==
    ex.status = "RUNNING" =>
        \/ \E j \in Jobs : Queued(j) \/ state[j] = "RUNNING" \/ j \in untold
        \/ \E j \in Jobs : state[j] = "CANCELLED"
        \/ \E j \in lost : j \in ex.running_jobs
        \/ ex.running_jobs = {} /\ \E j \in ex.failed_jobs : state[j] = "PENDING"

(* A job is in flight, or a submission has been refused. *)
InFlight ==
    ex.status = "RUNNING" =>
        ex.running_jobs # {} \/ \E j \in ex.failed_jobs : state[j] = "PENDING"

LEMMA StartInFlight == ASSUME Inv, StartDag PROVE InFlight'
<1> USE DEF Inv, TypeOK
<1>1. PICK A \in SUBSET Roots :
         /\ ex' = QueueJobs([ex EXCEPT !.status = "RUNNING"], Roots, A)
         /\ SubmitJobs(Roots, A)
  BY DEF StartDag
<1>2. ex.status = "PENDING" /\ \A d \in Jobs : state[d] = "PENDING"
  BY DEF StartDag, Status, Phases, Phase
<1>3. /\ ex'.running_jobs = ex.running_jobs \cup A
      /\ ex'.failed_jobs = ex.failed_jobs \cup (Roots \ A)
  BY <1>1 DEF QueueJobs, DAGExecution
<1>4. PICK r \in Jobs : dag.deps[r] = {}
  <2>1. dag.deps \in Shapes /\ dag.deps \in [Jobs -> SUBSET Jobs] /\ Jobs \in SUBSET Jobs /\ Jobs # {}
    BY DAGAssumption
  <2>2. PICK r \in Jobs : dag.deps[r] \cap Jobs = {}
    BY <2>1, DAGAssumption
  <2> QED BY <2>1, <2>2
<1>5. r \in Roots
  BY <1>4 DEF Roots
<1>6. CASE A = {}
  BY <1>1, <1>2, <1>3, <1>5, <1>6 DEF SubmitJobs, InFlight
<1>7. CASE A # {}
  BY <1>3, <1>7 DEF InFlight
<1> QED BY <1>6, <1>7

LEMMA ReportInFlight ==
    ASSUME Inv, InFlight, NEW j \in Jobs, OnJobComplete(j) \/ OnJobFailed(j)
    PROVE  InFlight'
<1> SUFFICES ASSUME ex'.status = "RUNNING"
             PROVE  ex'.running_jobs # {} \/ \E d \in ex'.failed_jobs : state'[d] = "PENDING"
  BY DEF InFlight
<1> USE DEF Inv, TypeOK
<1>1. PICK Q \in SUBSET Jobs, A \in SUBSET Jobs :
         Report(j, Q, A) /\ (Open(Q) \/ Complete(Q) \/ Fail)
  BY CompleteReports, FailedReports
<1>2. Open(Q)
  BY <1>1 DEF Complete, Fail
<1>3. CASE ex'.running_jobs = {}
  <2>1. PICK d \in Q : d \notin A
    BY <1>1, <1>2, <1>3 DEF Open, Report
  <2>2. d \in ex'.failed_jobs /\ d \in Jobs /\ state'[d] = state[d]
    BY <1>1, <2>1 DEF Report, SubmitJobs
  <2>3. state[d] = "PENDING"
    BY <1>1, <2>1, <2>2 DEF Report, Phases, Phase
  <2> QED BY <2>2, <2>3
<1> QED BY <1>3

LEMMA JobInFlight ==
    ASSUME Inv, InFlight, NEW j \in Jobs,
           CancelJob(j) \/ StartJob(j) \/ RetryJob(j) \/ StrandJob(j) \/ EndJob(j)
    PROVE  InFlight'
<1>1. UNCHANGED ex /\ \A d \in Jobs : state[d] = "PENDING" => state'[d] = "PENDING"
  BY DEF Inv, TypeOK, CancelJob, Queued, StartJob, RetryJob, StrandJob, EndJob
<1>2. ex.failed_jobs \subseteq Jobs
  BY DEF Inv, TypeOK, DAGExecution
<1> QED BY <1>1, <1>2 DEF InFlight

(* No running DAG is stuck, however reports, refused submissions, retries  *)
(* and cancellations come, unless a job of it is cancelled on its own or   *)
(* lost, or refused submissions leave nothing in flight (NeverStalls).     *)
THEOREM NoDagStalls == Spec => []NeverStalls
<1>1. Init => InFlight
  BY DEF Init, InFlight
<1>2. Inv /\ InFlight /\ [Next]_vars => InFlight'
  <2>1. ASSUME Inv, CancelDag PROVE InFlight'
    BY <2>1 DEF CancelDag, Inv, TypeOK, DAGExecution, InFlight
  <2>2. ASSUME InFlight, UNCHANGED vars PROVE InFlight'
    BY <2>2 DEF InFlight, vars
  <2> QED BY <2>1, <2>2, StartInFlight, ReportInFlight, JobInFlight DEF Next
<1>3. Inv /\ InFlight => NeverStalls
  <2> SUFFICES ASSUME Inv, InFlight, ex.status = "RUNNING", NEW j \in ex.running_jobs
               PROVE  \/ Queued(j) \/ j \in lost
                      \/ state[j] \in {"RUNNING", "CANCELLED"} \/ j \in untold
    BY DEF InFlight, NeverStalls, Inv, TypeOK, DAGExecution
  <2> QED BY DEF Inv, TypeOK, DAGExecution, Phases, Phase, Queued
<1>4. Spec => Init /\ [][Next]_vars
  BY DEF Spec, Safety
<1> QED BY <1>1, <1>2, <1>3, <1>4, InvHolds, PTL

(* Each report counts one more job as completed or failed, and none is ever *)
(* taken back, so there are no more reports than jobs (ReportsRunOut).      *)
Counted == ex.completed_jobs \cup ex.failed_jobs

ReportsRunOut ==
    [][/\ Counted \subseteq Counted'
       /\ \A j \in Jobs : OnJobComplete(j) \/ OnJobFailed(j) => j \in Counted' \ Counted]_vars

(* Each job of the DAG is counted once, by one report or refusal, for good: *)
(* the reason why a DAG that never stalls ends.                             *)
THEOREM EachReportCounts == Spec => ReportsRunOut
<1> DEFINE Counts ==
       /\ Counted \subseteq Counted'
       /\ \A j \in Jobs : OnJobComplete(j) \/ OnJobFailed(j) => j \in Counted' \ Counted
<1>1. ASSUME Inv, NEW j \in Jobs, OnJobComplete(j) \/ OnJobFailed(j)
      PROVE  Counted \subseteq Counted' /\ j \in Counted' \ Counted
  <2>1. PICK Q \in SUBSET Jobs, A \in SUBSET Jobs : Report(j, Q, A)
    BY <1>1, CompleteReports, FailedReports DEF Inv
  <2>2. j \in untold
    BY <1>1 DEF OnJobComplete, OnJobFailed
  <2>3. j \notin Counted
    <3>1. Phase(j)
      BY <1>1 DEF Inv, Phases
    <3> QED BY <2>2, <3>1 DEF Phase, Counted
  <2> QED BY <2>1, <2>3 DEF Report, Counted
<1>2. Inv /\ [Next]_vars => [Counts]_vars
  <2> SUFFICES ASSUME Inv, Next PROVE Counts
    OBVIOUS
  <2>1. ASSUME NEW j \in Jobs,
               CancelJob(j) \/ StartJob(j) \/ RetryJob(j) \/ StrandJob(j) \/ EndJob(j)
        PROVE  Counted' = Counted
    BY <2>1 DEF CancelJob, StartJob, RetryJob, StrandJob, EndJob, Counted
  <2>2. ASSUME StartDag \/ CancelDag PROVE Counted \subseteq Counted'
    <3>1. CASE StartDag
      <4>1. PICK A \in SUBSET Roots : ex' = QueueJobs([ex EXCEPT !.status = "RUNNING"], Roots, A)
        BY <3>1 DEF StartDag
      <4>2. /\ ex'.completed_jobs = ex.completed_jobs
            /\ ex'.failed_jobs = ex.failed_jobs \cup (Roots \ A)
        BY <4>1 DEF QueueJobs, Inv, TypeOK, DAGExecution
      <4> QED BY <4>2 DEF Counted
    <3>2. CASE CancelDag
      <4>1. ex'.completed_jobs = ex.completed_jobs /\ ex'.failed_jobs = ex.failed_jobs
        BY <3>2 DEF CancelDag, Inv, TypeOK, DAGExecution
      <4> QED BY <4>1 DEF Counted
    <3> QED BY <2>2, <3>1, <3>2
  <2>3. Counted \subseteq Counted'
    BY <1>1, <2>1, <2>2 DEF Next
  <2> QED BY <1>1, <2>3
<1>3. Spec => [][Next]_vars
  BY DEF Spec, Safety
<1> QED BY <1>2, <1>3, InvHolds, PTL DEF ReportsRunOut
=============================================================================
