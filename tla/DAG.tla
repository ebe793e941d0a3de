--------------------------------- MODULE DAG ---------------------------------
(***************************************************************************)
(* DAG (core/dag.py): the dependency graph of a workflow and its           *)
(* algorithms.  A graph is built by add_node, add_edge, add_job and        *)
(* remove_edge, which keep two mirrored adjacency sets and the depends_on  *)
(* list of each job; cycles and self-loops may be built.                   *)
(* topological_sort (Kahn), get_execution_plan (levels) and has_cycle /    *)
(* find_cycle (depth-first search) are loops, one action per round: what   *)
(* they answer must be right whatever order Python iterates its sets in.   *)
(*                                                                         *)
(* Abstractions.  The deque of topological_sort is the set of its jobs:    *)
(* which comes first depends on the iteration order of sets.  depends_on   *)
(* is a set: add_edge keeps it free of duplicates.  A DAG has no lock; it  *)
(* is built and queried by one thread.                                     *)
(***************************************************************************)
EXTENDS Integers, FiniteSets, Sequences

CONSTANTS
    Jobs,
    None

ASSUME DAGAssumption == IsFiniteSet(Jobs) /\ None \notin Jobs

VARIABLES
    nodes,         \* keys of DAG.nodes and DAG.jobs
    dependencies,  \* node.dependencies
    dependents,    \* node.dependents
    depends_on,    \* job.depends_on
    call,          \* the algorithm that runs, or has returned
    in_degree,     \* topological_sort, get_execution_plan
    todo,          \* jobs with no dependency left; or still to be put in a level
    result,        \* the jobs sorted so far; the levels so far, as sets; or the
                   \* list find_cycle builds, before it is reversed
    color,         \* has_cycle, find_cycle
    parent,        \* find_cycle
    stack,         \* the jobs dfs() is in, innermost first
    unseen         \* dependents each dfs() has still to look at

graph == <<nodes, dependencies, dependents, depends_on>>
kahn  == <<in_degree, todo>>
dfs   == <<color, parent, stack, unseen>>
vars  == <<graph, call, result, kahn, dfs>>

Color == {"white", "gray", "black"}

Calls == {"none", "sort", "sorted", "unsortable", "plan", "planned", "unplannable",
          "search", "cycle", "listed", "acyclic"}

Working == {"sort", "plan", "search"}

TypeOK ==
    /\ nodes \subseteq Jobs
    /\ dependencies \in [Jobs -> SUBSET Jobs]
    /\ dependents \in [Jobs -> SUBSET Jobs]
    /\ depends_on \in [Jobs -> SUBSET Jobs]
    /\ call \in Calls
    /\ in_degree \in [Jobs -> Nat]
    /\ todo \subseteq nodes
    /\ result \in Seq(nodes \cup SUBSET nodes)
    /\ color \in [Jobs -> Color]
    /\ parent \in [Jobs -> nodes \cup {None}]
    /\ stack \in Seq(nodes)
    /\ unseen \in [Jobs -> SUBSET Jobs]

-----------------------------------------------------------------------------
NoJobs == [j \in Jobs |-> {}]

White == [j \in Jobs |-> "white"]

Orphans == [j \in Jobs |-> None]

Init ==
    /\ nodes = {}
    /\ dependencies = NoJobs
    /\ dependents = NoJobs
    /\ depends_on = NoJobs
    /\ call = "none" /\ result = <<>>
    /\ in_degree = [j \in Jobs |-> 0] /\ todo = {}
    /\ color = White /\ parent = Orphans /\ stack = <<>> /\ unseen = NoJobs

(* add_node; a second call for the same job does nothing. *)
AddNode(j) ==
    /\ call = "none"
    /\ j \notin nodes
    /\ nodes' = nodes \cup {j}
    /\ UNCHANGED <<dependencies, dependents, depends_on, call, result, kahn, dfs>>

(* Edges from each of fs to t. *)
Link(fs, t) ==
    /\ dependencies' = [dependencies EXCEPT ![t] = @ \cup fs]
    /\ dependents' = [j \in Jobs |-> IF j \in fs THEN dependents[j] \cup {t} ELSE dependents[j]]
    /\ depends_on' = [depends_on EXCEPT ![t] = @ \cup fs]

(* add_edge raises KeyError unless both ends are in the graph. *)
AddEdge(f, t) ==
    /\ call = "none"
    /\ {f, t} \subseteq nodes
    /\ Link({f}, t)
    /\ UNCHANGED <<nodes, call, result, kahn, dfs>>

(* add_job passes over dependencies that are not in the graph (yet). *)
AddJob(j, fs) ==
    /\ call = "none"
    /\ nodes' = nodes \cup {j}
    /\ Link(fs \cap nodes', j)
    /\ UNCHANGED <<call, result, kahn, dfs>>

(* DAGBuilder.add_job: add_node, then an edge from each dependency.  A key the *)
(* builder does not know raises, and the edges before it stay.                *)
BuilderAdd(j, fs) ==
    /\ call = "none"
    /\ nodes' = nodes \cup {j}
    /\ fs \subseteq nodes'
    /\ Link(fs, j)
    /\ UNCHANGED <<call, result, kahn, dfs>>

(* Mutant: one side of the edge stays. *)
RemoveEdgeHalf(f, t) ==
    /\ call = "none"
    /\ {f, t} \subseteq nodes
    /\ dependencies' = [dependencies EXCEPT ![t] = @ \ {f}]
    /\ depends_on' = [depends_on EXCEPT ![t] = @ \ {f}]
    /\ UNCHANGED <<nodes, dependents, call, result, kahn, dfs>>

RemoveEdge(f, t) ==
    /\ call = "none"
    /\ {f, t} \subseteq nodes
    /\ dependencies' = [dependencies EXCEPT ![t] = @ \ {f}]
    /\ dependents' = [dependents EXCEPT ![f] = @ \ {t}]
    /\ depends_on' = [depends_on EXCEPT ![t] = @ \ {f}]
    /\ UNCHANGED <<nodes, call, result, kahn, dfs>>

(* The caller has its answer. *)
Return ==
    /\ call \notin {"none"} \cup Working
    /\ call' = "none" /\ result' = <<>>
    /\ in_degree' = [j \in Jobs |-> 0] /\ todo' = {}
    /\ color' = White /\ parent' = Orphans /\ stack' = <<>> /\ unseen' = NoJobs
    /\ UNCHANGED graph

-----------------------------------------------------------------------------
(* topological_sort *)

Zero(S, degree) == {j \in S : degree[j] = 0}

InDegree == [j \in Jobs |-> Cardinality(dependencies[j])]

Sort ==
    /\ call = "none"
    /\ call' = "sort"
    /\ in_degree' = InDegree
    /\ todo' = Zero(nodes, InDegree)
    /\ result' = <<>>
    /\ UNCHANGED <<graph, dfs>>

(* Mutant: a dependent is queued whenever it is met. *)
SortRoundEager ==
    /\ call = "sort"
    /\ \E j \in todo :
          /\ result' = Append(result, j)
          /\ in_degree' = [d \in Jobs |-> IF d \in dependents[j] /\ in_degree[d] > 0
                                          THEN in_degree[d] - 1 ELSE in_degree[d]]
          /\ todo' = (todo \cup dependents[j]) \ {result'[i] : i \in DOMAIN result'}
    /\ UNCHANGED <<graph, call, dfs>>

(* popleft, and the dependents that have become free. *)
SortRound ==
    /\ call = "sort"
    /\ \E j \in todo :
          /\ result' = Append(result, j)
          /\ in_degree' = [d \in Jobs |-> IF d \in dependents[j] THEN in_degree[d] - 1
                                                                 ELSE in_degree[d]]
          /\ todo' = (todo \ {j}) \cup Zero(dependents[j], in_degree')
    /\ UNCHANGED <<graph, call, dfs>>

SortEnd ==
    /\ call = "sort"
    /\ todo = {}
    /\ call' = IF Len(result) = Cardinality(nodes) THEN "sorted" ELSE "unsortable"
    /\ UNCHANGED <<graph, result, kahn, dfs>>

-----------------------------------------------------------------------------
(* get_execution_plan; todo is `remaining`. *)

Plan ==
    /\ call = "none"
    /\ call' = "plan"
    /\ in_degree' = InDegree
    /\ todo' = nodes
    /\ result' = <<>>
    /\ UNCHANGED <<graph, dfs>>

PlanRound ==
    /\ call = "plan"
    /\ LET level == Zero(todo, in_degree)
       IN  /\ level # {}
           /\ result' = Append(result, level)
           /\ todo' = todo \ level
           /\ in_degree' = [d \in Jobs |->
                 IF d \in todo' THEN in_degree[d] - Cardinality({j \in level : d \in dependents[j]})
                                ELSE in_degree[d]]
    /\ UNCHANGED <<graph, call, dfs>>

(* Mutant: an empty level is not noticed, and the loop goes round again. *)
PlanEndDone ==
    /\ call = "plan"
    /\ Zero(todo, in_degree) = {}
    /\ call' = IF todo = {} THEN "planned" ELSE "plan"
    /\ UNCHANGED <<graph, result, kahn, dfs>>

PlanEnd ==
    /\ call = "plan"
    /\ \/ todo = {} /\ call' = "planned"
       \/ todo # {} /\ Zero(todo, in_degree) = {} /\ call' = "unplannable"
    /\ UNCHANGED <<graph, result, kahn, dfs>>

-----------------------------------------------------------------------------
(* has_cycle and find_cycle, whose searches are the same one.  The answer  *)
(* of has_cycle is "cycle"; find_cycle goes on to list the cycle.          *)

Search ==
    /\ call = "none"
    /\ call' = "search"
    /\ UNCHANGED <<graph, result, kahn, dfs>>

(* dfs(j) begins. *)
Enter(j) ==
    /\ color' = [color EXCEPT ![j] = "gray"]
    /\ stack' = <<j>> \o stack

(* The outer loop: the next white job, in any order. *)
SearchRoot(j) ==
    /\ call = "search"
    /\ stack = <<>>
    /\ j \in nodes /\ color[j] = "white"
    /\ Enter(j)
    /\ unseen' = [unseen EXCEPT ![j] = dependents[j]]
    /\ UNCHANGED <<graph, call, result, kahn, parent>>

(* dfs looks at a dependent: back edge, new job, or one that is done. *)
SearchNext(d) ==
    /\ call = "search"
    /\ stack # <<>>
    /\ d \in unseen[Head(stack)]
    /\ \/ color[d] = "gray" /\ call' = "cycle" /\ result' = <<d>> /\ UNCHANGED dfs
       \/ /\ color[d] = "white"
          /\ Enter(d)
          /\ parent' = [parent EXCEPT ![d] = Head(stack)]
          /\ unseen' = [unseen EXCEPT ![Head(stack)] = @ \ {d}, ![d] = dependents[d]]
          /\ UNCHANGED <<call, result>>
       \/ /\ color[d] = "black"
          /\ unseen' = [unseen EXCEPT ![Head(stack)] = @ \ {d}]
          /\ UNCHANGED <<call, result, color, parent, stack>>
    /\ UNCHANGED <<graph, kahn>>

(* dfs returns False. *)
SearchLeave ==
    /\ call = "search"
    /\ stack # <<>>
    /\ unseen[Head(stack)] = {}
    /\ color' = [color EXCEPT ![Head(stack)] = "black"]
    /\ stack' = Tail(stack)
    /\ UNCHANGED <<graph, call, result, kahn, parent, unseen>>

SearchEnd ==
    /\ call = "search"
    /\ stack = <<>>
    /\ \A j \in nodes : color[j] # "white"
    /\ call' = "acyclic"
    /\ UNCHANGED <<graph, result, kahn, dfs>>

(* find_cycle walks from the job the search came back to along parent, to  *)
(* that job again or to a root, and repeats the job at the end.            *)
ListCycle ==
    /\ call = "cycle"
    /\ LET current == parent[result[Len(result)]]
       IN  IF current \in {result[1], None}
           THEN call' = "listed" /\ result' = Append(result, result[1])
           ELSE UNCHANGED call /\ result' = Append(result, current)
    /\ UNCHANGED <<graph, kahn, dfs>>

-----------------------------------------------------------------------------
Build ==
    \/ \E j \in Jobs : AddNode(j)
    \/ \E f, t \in Jobs : AddEdge(f, t) \/ RemoveEdge(f, t)
    \/ \E j \in Jobs, fs \in SUBSET Jobs : AddJob(j, fs) \/ BuilderAdd(j, fs)

(* The rounds of the algorithm that has been called. *)
Work ==
    \/ SortRound \/ SortEnd
    \/ PlanRound \/ PlanEnd
    \/ \E j \in Jobs : SearchRoot(j) \/ SearchNext(j)
    \/ SearchLeave \/ SearchEnd \/ ListCycle

Next == Build \/ Sort \/ Plan \/ Search \/ Work \/ Return

(* A called function runs on. *)
Spec == Init /\ [][Next]_vars /\ WF_vars(Work)

-----------------------------------------------------------------------------
(* Properties *)

(* Each edge is recorded at both of its ends and in the job's depends_on,  *)
(* and both ends are in the graph, after any sequence of additions and     *)
(* removals: sorting walks one side and counts on the other.               *)
Mirrored ==
    /\ \A f, t \in Jobs : f \in dependencies[t] <=> t \in dependents[f]
    /\ depends_on = dependencies
    /\ \A j \in Jobs : dependencies[j] # {} => j \in nodes /\ dependencies[j] \subseteq nodes

(* What a cycle is: a set of jobs each of which waits for another of them. *)
Cyclic ==
    \E S \in SUBSET nodes : S # {} /\ \A j \in S : dependencies[j] \cap S # {}

(* topological_sort returns every job once, after all its dependencies, or *)
(* raises CyclicDependencyError, and does so exactly for cyclic graphs.    *)
SortRight ==
    /\ call = "sorted" =>
          /\ {result[i] : i \in DOMAIN result} = nodes
          /\ \A i \in DOMAIN result : dependencies[result[i]] \subseteq {result[k] : k \in 1 .. i - 1}
    /\ call = "sorted" => ~Cyclic
    /\ call = "unsortable" => Cyclic

(* get_execution_plan puts each job in the first level after those of all  *)
(* its dependencies, and raises exactly for cyclic graphs.                 *)
PlanRight ==
    /\ call = "planned" =>
          /\ ~Cyclic
          /\ \A j \in nodes : \E i \in DOMAIN result :
                /\ j \in result[i]
                /\ \A k \in DOMAIN result : j \in result[k] => k = i
                /\ dependencies[j] \subseteq UNION {result[k] : k \in 1 .. i - 1}
                /\ i > 1 => dependencies[j] \cap result[i - 1] # {}
    /\ call = "unplannable" => Cyclic

(* has_cycle, and with it validate() and submit_dag(), answers right.      *)
CycleRight ==
    /\ call = "cycle" => Cyclic
    /\ call = "acyclic" => ~Cyclic

(* The three algorithms agree with the definition of a cycle, and with     *)
(* each other, on every graph and for every order of iteration.            *)
AlgorithmsRight == SortRight /\ PlanRight /\ CycleRight

(* No algorithm loops for ever, cycles and self-loops included, nor does   *)
(* find_cycle while it lists what it found.                                *)
AlgorithmsReturn ==
    LET Busy == Working \cup {"cycle"} IN (call \in Busy) ~> (call \notin Busy)
=============================================================================
