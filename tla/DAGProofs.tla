------------------------------ MODULE DAGProofs ------------------------------
(***************************************************************************)
(* Proofs about DAG, for any finite set of jobs, any graph on them, cycles *)
(* and self-loops included, and any order of iteration.                    *)
(***************************************************************************)
EXTENDS DAG, FiniteSetTheorems, TLAPS

GraphOK ==
    /\ nodes \subseteq Jobs
    /\ dependencies \in [Jobs -> SUBSET Jobs]
    /\ dependents \in [Jobs -> SUBSET Jobs]
    /\ depends_on \in [Jobs -> SUBSET Jobs]
    /\ Mirrored

LEMMA LinkMirrors ==
    ASSUME GraphOK, NEW j \in Jobs, NEW fs \in SUBSET Jobs, Link(fs, j),
           nodes \subseteq nodes', nodes' \subseteq Jobs,
           fs # {} => j \in nodes', fs \subseteq nodes'
    PROVE  GraphOK'
BY DEF GraphOK, Mirrored, Link

LEMMA BuildMirrors == ASSUME GraphOK, Build PROVE GraphOK' /\ nodes \subseteq nodes'
<1>1. ASSUME NEW j \in Jobs, AddNode(j) PROVE GraphOK' /\ nodes \subseteq nodes'
  BY <1>1 DEF AddNode, GraphOK, Mirrored
<1>2. ASSUME NEW f \in Jobs, NEW t \in Jobs, AddEdge(f, t) PROVE GraphOK' /\ nodes \subseteq nodes'
  <2>1. /\ Link({f}, t) /\ nodes' = nodes /\ nodes \subseteq Jobs
        /\ t \in nodes' /\ {f} \subseteq nodes' /\ {f} \in SUBSET Jobs
    BY <1>2 DEF AddEdge, GraphOK
  <2> QED BY <2>1, LinkMirrors
<1>3. ASSUME NEW f \in Jobs, NEW t \in Jobs, RemoveEdge(f, t)
      PROVE  GraphOK' /\ nodes \subseteq nodes'
  BY <1>3 DEF RemoveEdge, GraphOK, Mirrored
<1>4. ASSUME NEW j \in Jobs, NEW fs \in SUBSET Jobs, AddJob(j, fs)
      PROVE  GraphOK' /\ nodes \subseteq nodes'
  <2>1. /\ Link(fs \cap nodes', j) /\ nodes' = nodes \cup {j} /\ nodes \subseteq Jobs
        /\ fs \cap nodes' \in SUBSET Jobs /\ fs \cap nodes' \subseteq nodes'
    BY <1>4 DEF AddJob, GraphOK
  <2> QED BY <2>1, LinkMirrors
<1>5. ASSUME NEW j \in Jobs, NEW fs \in SUBSET Jobs, BuilderAdd(j, fs)
      PROVE  GraphOK' /\ nodes \subseteq nodes'
  <2>1. /\ Link(fs, j) /\ nodes' = nodes \cup {j} /\ nodes \subseteq Jobs
        /\ fs \subseteq nodes'
    BY <1>5 DEF BuilderAdd, GraphOK
  <2> QED BY <2>1, LinkMirrors
<1> QED BY <1>1, <1>2, <1>3, <1>4, <1>5 DEF Build

LEMMA SameGraph == ASSUME GraphOK, UNCHANGED graph PROVE GraphOK'
BY DEF GraphOK, Mirrored, graph

-----------------------------------------------------------------------------
(* Sizes of sets of jobs. *)

LEMMA Sizes ==
    \A S \in SUBSET Jobs :
       IsFiniteSet(S) /\ Cardinality(S) \in Nat /\ (Cardinality(S) = 0 <=> S = {})
BY DAGAssumption, FS_Subset, FS_CardinalityType, FS_EmptySet

LEMMA LessOne ==
    \A S \in SUBSET Jobs, j \in Jobs :
       Cardinality(S \ {j}) = IF j \in S THEN Cardinality(S) - 1 ELSE Cardinality(S)
BY Sizes, FS_RemoveElement

LEMMA Disjoint ==
    ASSUME NEW S \in SUBSET Jobs, NEW T \in SUBSET S
    PROVE  Cardinality(S \ T) = Cardinality(S) - Cardinality(T)
<1>1. IsFiniteSet(S \ T) /\ IsFiniteSet(T) /\ Cardinality(S \ T) \in Nat /\ Cardinality(T) \in Nat
  BY Sizes
<1>2. Cardinality((S \ T) \cup T) =
         Cardinality(S \ T) + Cardinality(T) - Cardinality((S \ T) \cap T)
  BY <1>1, FS_Union
<1>3. (S \ T) \cup T = S /\ (S \ T) \cap T = {}
  OBVIOUS
<1>4. Cardinality(S) = Cardinality(S \ T) + Cardinality(T) - Cardinality({})
  BY Zenon, <1>2, <1>3
<1> QED BY <1>1, <1>4, FS_EmptySet

-----------------------------------------------------------------------------
(* Jobs each of which waits for another of them. *)
Ring(C) == C \in SUBSET nodes /\ \A j \in C : dependencies[j] \cap C # {}

(* No such job is among those of S. *)
OffRings(S) == \A C \in SUBSET nodes : Ring(C) => C \cap S = {}

LEMMA RingsAreCycles == Cyclic <=> \E C \in SUBSET nodes : C # {} /\ Ring(C)
BY DEF Cyclic, Ring

(* Jobs all of whose dependencies are off rings are off rings. *)
LEMMA OffRingsGrows ==
    ASSUME NEW S, NEW T, OffRings(S), \A j \in T : dependencies[j] \subseteq S
    PROVE  OffRings(S \cup T)
BY DEF OffRings, Ring

-----------------------------------------------------------------------------
(* topological_sort *)

Done == {result[i] : i \in DOMAIN result}

Sorting ==
    /\ result \in Seq(nodes)
    /\ Len(result) = Cardinality(Done)
    /\ \A j \in Jobs : in_degree[j] = Cardinality(dependencies[j] \ Done)
    /\ todo = {j \in nodes \ Done : dependencies[j] \subseteq Done}
    /\ \A i \in DOMAIN result : dependencies[result[i]] \subseteq {result[k] : k \in 1 .. i - 1}
    /\ OffRings(Done)

LEMMA SortBegins == ASSUME GraphOK, call = "none", Sort PROVE Sorting'
<1>1. result' = <<>> /\ Done' = {} /\ Len(result') = 0
  BY DEF Sort, Done
<1>2. \A j \in Jobs : in_degree'[j] = Cardinality(dependencies[j])
  BY DEF Sort, InDegree
<1>3. todo' = {j \in nodes : dependencies[j] = {}}
  BY Sizes DEF Sort, Zero, InDegree, GraphOK
<1>4. UNCHANGED <<nodes, dependencies>>
  BY DEF Sort, graph
<1>5. \A j \in Jobs : dependencies[j] \ {} = dependencies[j]
  OBVIOUS
<1> QED BY <1>1, <1>2, <1>3, <1>4, <1>5, FS_EmptySet DEF Sorting, OffRings

LEMMA SortGoesOn == ASSUME GraphOK, Sorting, SortRound PROVE Sorting'
<1> USE DEF GraphOK
<1>1. PICK j \in todo :
         /\ result' = Append(result, j)
         /\ in_degree' = [d \in Jobs |-> IF d \in dependents[j] THEN in_degree[d] - 1
                                                               ELSE in_degree[d]]
         /\ todo' = (todo \ {j}) \cup Zero(dependents[j], in_degree')
  BY DEF SortRound
<1>2. UNCHANGED <<nodes, dependencies, dependents>>
  BY DEF SortRound, graph
<1>3. j \in nodes /\ j \in Jobs /\ j \notin Done /\ dependencies[j] \subseteq Done
  BY <1>1 DEF Sorting
<1>4. /\ result' \in Seq(nodes) /\ Len(result') = Len(result) + 1
      /\ \A i \in 1 .. Len(result) : result'[i] = result[i]
      /\ result'[Len(result) + 1] = j
      /\ DOMAIN result' = 1 .. Len(result) + 1 /\ DOMAIN result = 1 .. Len(result)
      /\ Len(result) \in Nat
  BY <1>1, <1>3 DEF Sorting
<1>5. Done' = Done \cup {j} /\ Done \in SUBSET Jobs
  <2>1. Done \subseteq Done' /\ j \in Done'
    BY <1>4 DEF Done
  <2>2. Done' \subseteq Done \cup {j}
    BY <1>4 DEF Done
  <2>3. Done \in SUBSET Jobs
    BY DEF Done, Sorting
  <2> QED BY <2>1, <2>2, <2>3
<1>6. Len(result') = Cardinality(Done')
  <2>1. Cardinality(Done \cup {j}) = Cardinality(Done) + 1
    BY <1>3, <1>5, Sizes, FS_AddElement
  <2>2. Cardinality(Done') = Cardinality(Done) + 1
    BY Zenon, <1>5, <2>1
  <2> QED BY <1>4, <2>2 DEF Sorting
<1>7. \A d \in Jobs : d \in dependents[j] <=> j \in dependencies[d]
  BY <1>3 DEF Mirrored
<1>8. ASSUME NEW d \in Jobs PROVE in_degree'[d] = Cardinality(dependencies[d] \ Done')
  <2>1. dependencies[d] \ Done' = (dependencies[d] \ Done) \ {j} /\ dependencies[d] \ Done \in SUBSET Jobs
    BY <1>5
  <2>2. Cardinality(dependencies[d] \ Done') =
           IF j \in dependencies[d] \ Done THEN Cardinality(dependencies[d] \ Done) - 1
                                          ELSE Cardinality(dependencies[d] \ Done)
    BY <1>3, <2>1, LessOne
  <2> QED BY <1>1, <1>3, <1>7, <2>2 DEF Sorting
<1>9. \A d \in dependents[j] : in_degree'[d] = 0 <=> dependencies[d] \subseteq Done'
  <2> SUFFICES ASSUME NEW d \in dependents[j]
               PROVE  in_degree'[d] = 0 <=> dependencies[d] \subseteq Done'
    OBVIOUS
  <2>1. d \in Jobs /\ dependencies[d] \ Done' \in SUBSET Jobs
    BY <1>3
  <2>2. Cardinality(dependencies[d] \ Done') = 0 <=> dependencies[d] \ Done' = {}
    BY <2>1, Sizes
  <2> QED BY <1>8, <2>1, <2>2
<1>10. \A d \in Done : dependencies[d] \subseteq Done
  <2> SUFFICES ASSUME NEW i \in DOMAIN result PROVE dependencies[result[i]] \subseteq Done
    BY DEF Done
  <2>1. {result[k] : k \in 1 .. i - 1} \subseteq Done
    BY <1>4 DEF Done
  <2> QED BY <2>1 DEF Sorting
<1>11. todo' = {d \in nodes \ Done' : dependencies[d] \subseteq Done'}
  <2>1. Zero(dependents[j], in_degree') = {d \in dependents[j] : dependencies[d] \subseteq Done'}
    BY <1>9 DEF Zero
  <2>2. \A d \in dependents[j] : d \in Jobs /\ d \in nodes /\ d \notin Done /\ d # j
    BY <1>3, <1>7, <1>10 DEF Mirrored
  <2>3. \A d \in Jobs \ dependents[j] : dependencies[d] \subseteq Done' <=> dependencies[d] \subseteq Done
    BY <1>5, <1>7
  <2>4. \A d \in dependents[j] : ~(dependencies[d] \subseteq Done)
    BY <1>3, <1>7
  <2> QED BY <1>1, <1>3, <1>5, <2>1, <2>2, <2>3, <2>4 DEF Sorting
<1>12. ASSUME NEW i \in DOMAIN result'
       PROVE  dependencies[result'[i]] \subseteq {result'[k] : k \in 1 .. i - 1}
  <2>1. CASE i = Len(result) + 1
    BY <1>3, <1>4, <2>1 DEF Done
  <2>2. CASE i \in 1 .. Len(result)
    BY <1>4, <2>2 DEF Sorting
  <2> QED BY <1>4, <2>1, <2>2
<1>13. OffRings(Done)'
  <2>1. OffRings(Done \cup {j})
    BY <1>3, OffRingsGrows DEF Sorting
  <2> QED BY <1>2, <1>5, <2>1 DEF OffRings, Ring
<1> QED BY <1>2, <1>4, <1>6, <1>8, <1>11, <1>12, <1>13 DEF Sorting

LEMMA SortAnswers == ASSUME GraphOK, Sorting, SortEnd PROVE AlgorithmsRight'
<1> USE DEF GraphOK
<1>1. /\ todo = {} /\ UNCHANGED <<nodes, dependencies, result>>
      /\ call' = IF Len(result) = Cardinality(nodes) THEN "sorted" ELSE "unsortable"
  BY DEF SortEnd, graph
<1>2. Done \in SUBSET nodes
  BY DEF Done, Sorting
<1>3. CASE Len(result) = Cardinality(nodes)
  <2>1. Done = nodes
    <3>1. IsFiniteSet(nodes)
      BY Sizes
    <3> QED BY <1>2, <1>3, <3>1, FS_Subset DEF Sorting
  <2>2. ~Cyclic
    BY <2>1, RingsAreCycles DEF Sorting, OffRings
  <2>3. call' = "sorted" /\ ~Cyclic'
    BY <1>1, <1>3, <2>2 DEF Cyclic
  <2>4. /\ {result'[i] : i \in DOMAIN result'} = nodes'
        /\ \A i \in DOMAIN result' :
              dependencies'[result'[i]] \subseteq {result'[k] : k \in 1 .. i - 1}
    BY <1>1, <2>1 DEF Sorting, Done
  <2> QED BY <2>3, <2>4 DEF AlgorithmsRight, SortRight, PlanRight, CycleRight
<1>4. CASE Len(result) # Cardinality(nodes)
  <2>1. nodes \ Done # {}
    <3>1. SUFFICES ASSUME Done = nodes PROVE Cardinality(Done) = Cardinality(nodes)
      BY <1>2, <1>4 DEF Sorting
    <3> QED BY Zenon, <3>1
  <2>2. Ring(nodes \ Done)
    BY <1>1 DEF Sorting, Ring, Mirrored
  <2>3. Cyclic
    BY <2>1, <2>2, RingsAreCycles
  <2>4. call' = "unsortable" /\ Cyclic'
    BY <1>1, <1>4, <2>3 DEF Cyclic
  <2> QED BY <2>4 DEF AlgorithmsRight, SortRight, PlanRight, CycleRight
<1> QED BY <1>3, <1>4

-----------------------------------------------------------------------------
(* get_execution_plan *)

Above(r, i) == UNION {r[k] : k \in 1 .. i - 1}

Planning ==
    /\ result \in Seq(SUBSET nodes)
    /\ Above(result, Len(result) + 1) = nodes \ todo
    /\ todo \subseteq nodes
    /\ \A d \in todo : in_degree[d] = Cardinality(dependencies[d] \cap todo)
    /\ \A i \in DOMAIN result : \A j \in result[i] :
          /\ j \notin Above(result, i)
          /\ dependencies[j] \subseteq Above(result, i)
          /\ i > 1 => dependencies[j] \cap result[i - 1] # {}
    /\ result # <<>> =>
          \A d \in todo : dependencies[d] \cap todo = {} =>
             dependencies[d] \cap result[Len(result)] # {}
    /\ OffRings(nodes \ todo)

LEMMA PlanBegins == ASSUME GraphOK, call = "none", Plan PROVE Planning'
<1> USE DEF GraphOK
<1>1. /\ result' = <<>> /\ todo' = nodes /\ UNCHANGED <<nodes, dependencies>>
      /\ in_degree' = [j \in Jobs |-> Cardinality(dependencies[j])]
  BY DEF Plan, InDegree, graph
<1>2. Len(result') = 0 /\ Above(result', Len(result') + 1) = {} /\ nodes' \ todo' = {}
  <2>1. Len(result') = 0 /\ nodes' \ todo' = {}
    BY <1>1
  <2>2. \A k \in Int : k \notin 1 .. (Len(result') + 1) - 1
    BY <2>1
  <2> QED BY <2>1, <2>2 DEF Above
<1>3. \A d \in nodes : dependencies[d] \cap nodes = dependencies[d]
  BY DEF Mirrored
<1>4. \A d \in todo' : in_degree'[d] = Cardinality(dependencies'[d] \cap todo')
  BY <1>1, <1>3
<1>5. OffRings(nodes \ todo)'
  BY <1>2 DEF OffRings
<1> QED BY <1>1, <1>2, <1>4, <1>5 DEF Planning

LEMMA PlanGoesOn == ASSUME GraphOK, Planning, PlanRound PROVE Planning'
<1> USE DEF GraphOK
<1> DEFINE level == Zero(todo, in_degree)
<1>1. /\ level # {}
      /\ result' = Append(result, level)
      /\ todo' = todo \ level
      /\ in_degree' = [d \in Jobs |->
            IF d \in todo' THEN in_degree[d] - Cardinality({j \in level : d \in dependents[j]})
                           ELSE in_degree[d]]
      /\ UNCHANGED <<nodes, dependencies, dependents>>
  BY DEF PlanRound, graph
<1>2. level \in SUBSET todo /\ todo \in SUBSET Jobs
  BY DEF Zero, Planning
<1>3. \A d \in todo : d \in level <=> dependencies[d] \cap todo = {}
  <2> SUFFICES ASSUME NEW d \in todo PROVE d \in level <=> dependencies[d] \cap todo = {}
    OBVIOUS
  <2>1. dependencies[d] \cap todo \in SUBSET Jobs
    BY <1>2
  <2> QED BY <2>1, Sizes DEF Zero, Planning
<1> HIDE DEF level
<1>4. /\ result' \in Seq(SUBSET nodes) /\ Len(result') = Len(result) + 1
      /\ \A i \in 1 .. Len(result) : result'[i] = result[i]
      /\ result'[Len(result) + 1] = level
      /\ DOMAIN result' = 1 .. Len(result) + 1 /\ DOMAIN result = 1 .. Len(result)
      /\ Len(result) \in Nat
  BY <1>1, <1>2 DEF Planning
<1>5. \A i \in 1 .. Len(result) + 1 : Above(result', i) = Above(result, i)
  <2> SUFFICES ASSUME NEW i \in 1 .. Len(result) + 1 PROVE Above(result', i) = Above(result, i)
    OBVIOUS
  <2>1. \A k \in 1 .. i - 1 : result'[k] = result[k]
    BY <1>4
  <2> QED BY <2>1 DEF Above
<1>6. Above(result', Len(result') + 1) = Above(result, Len(result) + 1) \cup level
  <2> DEFINE n == Len(result)
  <2>1. 1 .. (n + 2) - 1 = (1 .. (n + 1) - 1) \cup {n + 1}
    BY <1>4
  <2>2. Above(result', n + 1) = Above(result, n + 1)
    BY <1>4, <1>5
  <2>3. Above(result', n + 2) = Above(result', n + 1) \cup result'[n + 1]
    BY <2>1 DEF Above
  <2> QED BY <1>4, <2>2, <2>3
<1>7. Above(result', Len(result') + 1) = nodes' \ todo'
  BY <1>1, <1>2, <1>6 DEF Planning
<1>8. ASSUME NEW d \in todo' PROVE in_degree'[d] = Cardinality(dependencies'[d] \cap todo')
  <2>1. d \in todo /\ d \in Jobs
    BY <1>1, <1>2
  <2> DEFINE D == dependencies[d] \cap todo
             L == {j \in level : d \in dependents[j]}
  <2>2. L \in SUBSET D
    BY <1>2, <2>1 DEF Mirrored
  <2>3. D \in SUBSET Jobs
    BY <1>2
  <2>4. dependencies[d] \cap todo' = D \ L
    BY <1>1, <1>2, <2>1 DEF Mirrored
  <2>5. in_degree'[d] = Cardinality(D) - Cardinality(L)
    BY <1>1, <2>1 DEF Planning
  <2> HIDE DEF D, L
  <2>6. Cardinality(D \ L) = Cardinality(D) - Cardinality(L)
    BY <2>2, <2>3, Disjoint
  <2>7. Cardinality(dependencies'[d] \cap todo') = Cardinality(D \ L)
    BY Zenon, <1>1, <2>4
  <2> QED BY <2>5, <2>6, <2>7
<1>9. ASSUME NEW i \in DOMAIN result', NEW j \in result'[i]
      PROVE  /\ j \notin Above(result', i)
             /\ dependencies'[j] \subseteq Above(result', i)
             /\ i > 1 => dependencies'[j] \cap result'[i - 1] # {}
  <2>1. CASE i \in 1 .. Len(result)
    <3>1. j \in result[i] /\ Above(result', i) = Above(result, i)
          /\ (i > 1 => result'[i - 1] = result[i - 1])
      BY <1>4, <1>5, <2>1
    <3> QED BY <1>1, <1>4, <2>1, <3>1, <1>5 DEF Planning
  <2>2. CASE i = Len(result) + 1
    <3>1. /\ j \in level /\ j \in todo /\ dependencies[j] \cap todo = {}
          /\ Above(result', i) = nodes \ todo
      BY <1>2, <1>3, <1>4, <1>5, <2>2 DEF Planning
    <3>2. dependencies[j] \subseteq nodes
      BY <1>2, <3>1 DEF Mirrored
    <3>3. i > 1 => (result # <<>> /\ result'[i - 1] = result[Len(result)])
      BY <1>4, <2>2
    <3> QED BY <1>1, <3>1, <3>2, <3>3 DEF Planning
  <2> QED BY <1>4, <2>1, <2>2
<1>10. ASSUME NEW d \in todo', dependencies'[d] \cap todo' = {}
       PROVE  dependencies'[d] \cap result'[Len(result')] # {}
  BY <1>1, <1>2, <1>3, <1>4, <1>10
<1>11. OffRings(nodes \ todo)'
  <2>1. \A j \in level : dependencies[j] \subseteq nodes \ todo
    BY <1>2, <1>3 DEF Mirrored
  <2>2. OffRings((nodes \ todo) \cup level)
    BY <2>1, OffRingsGrows DEF Planning
  <2>3. (nodes \ todo) \cup level = nodes' \ todo'
    BY <1>1, <1>2 DEF Planning
  <2> QED BY <1>1, <2>2, <2>3 DEF OffRings, Ring
<1>12. todo' \subseteq nodes'
  BY <1>1 DEF Planning
<1>13. \A d \in todo' : in_degree'[d] = Cardinality(dependencies'[d] \cap todo')
  BY <1>8
<1>14. \A i \in DOMAIN result' : \A j \in result'[i] :
          /\ j \notin Above(result', i)
          /\ dependencies'[j] \subseteq Above(result', i)
          /\ i > 1 => dependencies'[j] \cap result'[i - 1] # {}
  BY <1>9
<1>15. result' # <<>> =>
          \A d \in todo' : dependencies'[d] \cap todo' = {} =>
             dependencies'[d] \cap result'[Len(result')] # {}
  BY <1>10
<1>16. result' \in Seq(SUBSET nodes')
  BY <1>1, <1>4
<1> QED BY <1>7, <1>11, <1>12, <1>13, <1>14, <1>15, <1>16 DEF Planning

LEMMA PlanAnswers == ASSUME GraphOK, Planning, PlanEnd PROVE AlgorithmsRight'
<1> USE DEF GraphOK
<1>1. UNCHANGED <<nodes, dependencies, result>>
  BY DEF PlanEnd, graph
<1>2. CASE todo = {} /\ call' = "planned"
  <2>1. ~Cyclic
    BY <1>2, RingsAreCycles DEF Planning, OffRings
  <2>2. ASSUME NEW j \in nodes
        PROVE  \E i \in DOMAIN result :
                  /\ j \in result[i]
                  /\ \A k \in DOMAIN result : j \in result[k] => k = i
                  /\ dependencies[j] \subseteq UNION {result[k] : k \in 1 .. i - 1}
                  /\ i > 1 => dependencies[j] \cap result[i - 1] # {}
    <3>1. PICK i \in 1 .. (Len(result) + 1) - 1 : j \in result[i]
      BY <1>2 DEF Planning, Above
    <3>2. i \in DOMAIN result /\ DOMAIN result = 1 .. Len(result) /\ Len(result) \in Nat
      BY <3>1 DEF Planning
    <3>3. ASSUME NEW k \in DOMAIN result, j \in result[k] PROVE k = i
      <4>1. CASE k < i
        <5>1. k \in 1 .. i - 1
          BY <3>2, <4>1
        <5> QED BY <3>1, <3>2, <3>3, <5>1 DEF Planning, Above
      <4>2. CASE i < k
        <5>1. i \in 1 .. k - 1
          BY <3>2, <4>2
        <5> QED BY <3>1, <3>2, <3>3, <5>1 DEF Planning, Above
      <4> QED BY <3>2, <4>1, <4>2
    <3> QED BY <3>1, <3>2, <3>3 DEF Planning, Above
  <2>3. ~Cyclic'
    BY <1>1, <2>1 DEF Cyclic
  <2> QED BY <1>1, <1>2, <2>2, <2>3 DEF AlgorithmsRight, SortRight, PlanRight, CycleRight
<1>3. CASE todo # {} /\ Zero(todo, in_degree) = {} /\ call' = "unplannable"
  <2>1. ASSUME NEW d \in todo PROVE dependencies[d] \cap todo # {}
    <3>1. dependencies[d] \cap todo \in SUBSET Jobs
      BY DEF Planning
    <3> QED BY <1>3, <3>1, Sizes DEF Zero, Planning
  <2>2. Ring(todo)
    BY <2>1 DEF Ring, Planning
  <2>3. Cyclic'
    BY <1>1, <1>3, <2>2, RingsAreCycles DEF Planning, Cyclic
  <2> QED BY <1>3, <2>3 DEF AlgorithmsRight, SortRight, PlanRight, CycleRight
<1> QED BY <1>2, <1>3 DEF PlanEnd
-----------------------------------------------------------------------------
(* has_cycle and find_cycle *)

Black == {j \in Jobs : color[j] = "black"}

(* The stack is the gray jobs, each a dependent of the one that entered it.    *)
(* Of a gray job the dependents already seen are black, but for the one        *)
(* entered last; those of a black job are all black; and no ring is all black. *)
Searching ==
    /\ color \in [Jobs -> Color]
    /\ unseen \in [Jobs -> SUBSET Jobs]
    /\ stack \in Seq(nodes)
    /\ \A j \in Jobs : color[j] = "gray" <=> \E i \in DOMAIN stack : stack[i] = j
    /\ \A i, k \in DOMAIN stack : stack[i] = stack[k] => i = k
    /\ \A i \in DOMAIN stack :
          /\ i > 1 => stack[i - 1] \in dependents[stack[i]]
          /\ unseen[stack[i]] \subseteq dependents[stack[i]]
          /\ \A d \in dependents[stack[i]] \ unseen[stack[i]] :
                d \in Black \/ (i > 1 /\ d = stack[i - 1])
    /\ \A j \in Black : dependents[j] \subseteq Black
    /\ \A C \in SUBSET nodes : C # {} /\ Ring(C) => ~(C \subseteq Black)

LEMMA SearchBegins ==
    ASSUME GraphOK, color = White, stack = <<>>, unseen = NoJobs, Search
    PROVE  Searching'
<1>1. UNCHANGED <<nodes, dependencies, dependents, color, unseen, stack>>
  BY DEF Search, graph, dfs
<1>2. color' \in [Jobs -> Color] /\ Black' = {} /\ \A j \in Jobs : color'[j] = "white"
  BY <1>1 DEF White, Color, Black
<1>3. unseen' \in [Jobs -> SUBSET Jobs] /\ stack' \in Seq(nodes') /\ DOMAIN stack' = {}
  BY <1>1 DEF NoJobs
<1> QED BY <1>2, <1>3 DEF Searching

(* What entering a job does to the stack. *)
LEMMA Entering ==
    ASSUME GraphOK, Searching, NEW j \in nodes, Enter(j)
    PROVE  /\ stack' \in Seq(nodes) /\ Len(stack') = Len(stack) + 1 /\ Len(stack) \in Nat
           /\ DOMAIN stack' = 1 .. Len(stack) + 1 /\ DOMAIN stack = 1 .. Len(stack)
           /\ stack'[1] = j
           /\ \A i \in 1 .. Len(stack) : stack'[i + 1] = stack[i]
           /\ \A i \in DOMAIN stack' \ {1} :
                 i - 1 \in DOMAIN stack /\ stack'[i] = stack[i - 1]
BY DEF Enter, Searching

(* A white job is entered; the others keep what they had, but for the one that *)
(* has just seen it.                                                           *)
LEMMA SearchEnters ==
    ASSUME GraphOK, Searching, NEW j \in nodes, color[j] = "white", Enter(j),
           UNCHANGED <<nodes, dependencies, dependents>>,
           unseen' \in [Jobs -> SUBSET Jobs], unseen'[j] = dependents[j],
           \A k \in Jobs \ {j} : unseen'[k] = IF stack # <<>> /\ k = stack[1]
                                              THEN unseen[k] \ {j} ELSE unseen[k],
           stack # <<>> => j \in unseen[stack[1]]
    PROVE  Searching'
<1> USE DEF GraphOK
<1>1. /\ stack' \in Seq(nodes) /\ Len(stack') = Len(stack) + 1 /\ Len(stack) \in Nat
      /\ DOMAIN stack' = 1 .. Len(stack) + 1 /\ DOMAIN stack = 1 .. Len(stack)
      /\ stack'[1] = j
      /\ \A i \in 1 .. Len(stack) : stack'[i + 1] = stack[i]
      /\ \A i \in DOMAIN stack' \ {1} :
            i - 1 \in DOMAIN stack /\ stack'[i] = stack[i - 1]
  BY Entering
<1>2. /\ color' = [color EXCEPT ![j] = "gray"] /\ color \in [Jobs -> Color] /\ j \in Jobs
      /\ color' \in [Jobs -> Color] /\ Black' = Black /\ j \notin Black
  BY DEF Enter, Searching, Color, Black
<1>3. \A i \in DOMAIN stack : stack[i] \in Jobs /\ stack[i] # j /\ stack[i] \in nodes
  BY <1>1, <1>2 DEF Searching
<1>4. ASSUME NEW k \in Jobs
      PROVE  color'[k] = "gray" <=> \E i \in DOMAIN stack' : stack'[i] = k
  <2>1. CASE k = j
    BY <1>1, <1>2, <2>1
  <2>2. CASE k # j
    <3>1. color'[k] = "gray" <=> \E i \in DOMAIN stack : stack[i] = k
      BY <1>2, <2>2 DEF Searching
    <3>2. (\E i \in DOMAIN stack : stack[i] = k) => \E i \in DOMAIN stack' : stack'[i] = k
      <4> SUFFICES ASSUME NEW i \in DOMAIN stack, stack[i] = k
                   PROVE  \E m \in DOMAIN stack' : stack'[m] = k
        OBVIOUS
      <4>1. i + 1 \in DOMAIN stack' /\ stack'[i + 1] = k
        BY <1>1
      <4> QED BY <4>1
    <3>3. (\E i \in DOMAIN stack' : stack'[i] = k) => \E i \in DOMAIN stack : stack[i] = k
      BY <1>1, <2>2
    <3> QED BY <3>1, <3>2, <3>3
  <2> QED BY <2>1, <2>2
<1>5. ASSUME NEW i \in DOMAIN stack', NEW k \in DOMAIN stack', stack'[i] = stack'[k]
      PROVE  i = k
  <2>1. i = 1 <=> k = 1
    BY <1>1, <1>3, <1>5
  <2>2. CASE i # 1
    <3>1. i - 1 \in DOMAIN stack /\ k - 1 \in DOMAIN stack /\ stack[i - 1] = stack[k - 1]
      BY <1>1, <1>5, <2>1, <2>2
    <3>2. i - 1 = k - 1
      BY <3>1 DEF Searching
    <3> QED BY <1>1, <3>2
  <2> QED BY <2>1, <2>2
<1>6. ASSUME NEW i \in DOMAIN stack'
      PROVE  /\ i > 1 => stack'[i - 1] \in dependents'[stack'[i]]
             /\ unseen'[stack'[i]] \subseteq dependents'[stack'[i]]
             /\ \A d \in dependents'[stack'[i]] \ unseen'[stack'[i]] :
                   d \in Black' \/ (i > 1 /\ d = stack'[i - 1])
  <2>1. CASE i = 1
    BY <1>1, <2>1
  <2>2. CASE i = 2
    <3>1. stack # <<>> /\ 1 \in DOMAIN stack /\ stack'[2] = stack[1] /\ stack'[i - 1] = j
      BY <1>1, <2>2
    <3>2. /\ unseen[stack[1]] \subseteq dependents[stack[1]]
          /\ \A d \in dependents[stack[1]] \ unseen[stack[1]] : d \in Black
      BY <3>1 DEF Searching
    <3>3. unseen'[stack[1]] = unseen[stack[1]] \ {j}
      BY <1>3, <3>1
    <3> QED BY <1>2, <2>2, <3>1, <3>2, <3>3
  <2>3. CASE i > 2
    <3>1. /\ i - 1 \in DOMAIN stack /\ i - 1 > 1 /\ i - 2 \in DOMAIN stack /\ 1 \in DOMAIN stack
          /\ stack'[i] = stack[i - 1] /\ stack'[i - 1] = stack[(i - 1) - 1]
      BY <1>1, <2>3
    <3>2. stack[i - 1] # stack[1]
      BY <3>1 DEF Searching
    <3>3. unseen'[stack[i - 1]] = unseen[stack[i - 1]]
      BY <1>3, <3>1, <3>2
    <3>4. /\ stack[(i - 1) - 1] \in dependents[stack[i - 1]]
          /\ unseen[stack[i - 1]] \subseteq dependents[stack[i - 1]]
          /\ \A d \in dependents[stack[i - 1]] \ unseen[stack[i - 1]] :
                d \in Black \/ d = stack[(i - 1) - 1]
      BY <3>1 DEF Searching
    <3>5. dependents' = dependents /\ i > 1
      BY <2>3, <1>1
    <3>6. unseen'[stack'[i]] = unseen[stack[i - 1]]
      BY <3>1, <3>3
    <3> QED BY Zenon, <1>2, <3>1, <3>4, <3>5, <3>6
  <2> QED BY <1>1, <2>1, <2>2, <2>3
<1>7. \A k \in Black' : dependents'[k] \subseteq Black'
  BY <1>2 DEF Searching
<1>8. \A C \in SUBSET nodes' : C # {} /\ Ring(C)' => ~(C \subseteq Black')
  BY <1>2 DEF Searching, Ring
<1>9. stack' \in Seq(nodes')
  BY <1>1
<1> QED BY <1>2, <1>4, <1>5, <1>6, <1>7, <1>8, <1>9 DEF Searching

LEMMA SearchBacks ==
    ASSUME GraphOK, Searching, stack # <<>>, NEW d \in unseen[Head(stack)], color[d] = "gray"
    PROVE  Cyclic
<1> USE DEF GraphOK
<1>1. /\ 1 \in DOMAIN stack /\ DOMAIN stack = 1 .. Len(stack) /\ Len(stack) \in Nat
      /\ Head(stack) = stack[1] /\ \A i \in DOMAIN stack : stack[i] \in nodes
  BY DEF Searching
<1>2. d \in dependents[stack[1]] /\ d \in Jobs
  BY <1>1 DEF Searching
<1>3. PICK m \in DOMAIN stack : stack[m] = d
  BY <1>2 DEF Searching
<1> DEFINE C == {stack[i] : i \in 1 .. m}
<1>4. ASSUME NEW j \in C PROVE dependencies[j] \cap C # {}
  <2>1. PICK i \in 1 .. m : j = stack[i]
    OBVIOUS
  <2>2. CASE i = m
    <3>1. stack[1] \in C /\ stack[1] \in dependencies[j]
      BY <1>1, <1>2, <1>3, <2>1, <2>2 DEF Mirrored
    <3> QED BY <3>1
  <2>3. CASE i # m
    <3>1. i + 1 \in DOMAIN stack /\ i + 1 \in 1 .. m /\ i + 1 > 1 /\ (i + 1) - 1 = i
      BY <1>1, <1>3, <2>1, <2>3
    <3>2. stack[i] \in dependents[stack[i + 1]] /\ stack[i] \in Jobs /\ stack[i + 1] \in Jobs
      BY <1>1, <3>1 DEF Searching
    <3>3. stack[i + 1] \in C /\ stack[i + 1] \in dependencies[j]
      BY <2>1, <3>1, <3>2 DEF Mirrored
    <3> QED BY <3>3
  <2> QED BY <2>2, <2>3
<1>5. C \in SUBSET nodes /\ stack[1] \in C
  BY <1>1, <1>3
<1> QED BY <1>4, <1>5 DEF Cyclic

LEMMA SearchGoesOn ==
    ASSUME GraphOK, Searching,
           (\E j \in Jobs : SearchRoot(j) \/ SearchNext(j)) \/ SearchLeave
    PROVE  /\ call' = "search" => Searching'
           /\ call' # "search" => call' = "cycle" /\ AlgorithmsRight'
<1> USE DEF GraphOK
<1>1. ASSUME NEW j \in Jobs, SearchRoot(j) PROVE Searching' /\ call' = "search"
  <2>1. /\ stack = <<>> /\ j \in nodes /\ color[j] = "white" /\ Enter(j)
        /\ unseen' = [unseen EXCEPT ![j] = dependents[j]]
        /\ UNCHANGED <<nodes, dependencies, dependents, call>> /\ call = "search"
    BY <1>1 DEF SearchRoot, graph
  <2>2. unseen' \in [Jobs -> SUBSET Jobs] /\ unseen'[j] = dependents[j]
    BY <2>1 DEF Searching
  <2>3. \A k \in Jobs \ {j} : unseen'[k] = IF stack # <<>> /\ k = stack[1]
                                            THEN unseen[k] \ {j} ELSE unseen[k]
    BY <2>1 DEF Searching
  <2>4. Searching'
    BY <2>1, <2>2, <2>3, SearchEnters
  <2> QED BY <2>1, <2>4
<1>2. ASSUME NEW d \in Jobs, SearchNext(d)
      PROVE  /\ call' = "search" => Searching'
             /\ call' # "search" => call' = "cycle" /\ AlgorithmsRight'
  <2>1. /\ stack # <<>> /\ d \in unseen[Head(stack)] /\ call = "search"
        /\ UNCHANGED <<nodes, dependencies, dependents>>
    BY <1>2 DEF SearchNext, graph
  <2>2. /\ Head(stack) = stack[1] /\ 1 \in DOMAIN stack /\ stack[1] \in Jobs
        /\ stack[1] \in nodes /\ d \in dependents[stack[1]] /\ d \in nodes
    BY <2>1 DEF Searching, Mirrored
  <2>3. CASE color[d] = "gray" /\ call' = "cycle"
    <3>1. Cyclic
      BY <2>1, <2>3, SearchBacks
    <3>2. Cyclic'
      BY <2>1, <3>1 DEF Cyclic
    <3> QED BY <2>3, <3>2 DEF AlgorithmsRight, SortRight, PlanRight, CycleRight
  <2>4. CASE /\ color[d] = "white" /\ Enter(d)
             /\ unseen' = [unseen EXCEPT ![Head(stack)] = @ \ {d}, ![d] = dependents[d]]
             /\ UNCHANGED call
    <3>1. unseen' \in [Jobs -> SUBSET Jobs] /\ unseen'[d] = dependents[d]
      BY <2>4 DEF Searching
    <3>2. \A k \in Jobs \ {d} : unseen'[k] = IF stack # <<>> /\ k = stack[1]
                                              THEN unseen[k] \ {d} ELSE unseen[k]
      <4>1. unseen' = [unseen EXCEPT ![stack[1]] = @ \ {d}, ![d] = dependents[d]]
        BY Zenon, <2>2, <2>4
      <4>2. unseen \in [Jobs -> SUBSET Jobs]
        BY DEF Searching
      <4> QED BY <2>1, <2>2, <4>1, <4>2
    <3>3. Searching'
      BY <2>1, <2>2, <2>4, <3>1, <3>2, SearchEnters
    <3> QED BY <2>1, <2>4, <3>3
  <2>5. CASE /\ color[d] = "black"
             /\ unseen' = [unseen EXCEPT ![Head(stack)] = @ \ {d}]
             /\ UNCHANGED <<call, color, stack>>
    <3>1. unseen' \in [Jobs -> SUBSET Jobs] /\ Black' = Black /\ d \in Black
      BY <2>2, <2>5 DEF Searching, Black
    <3>2. \A i \in DOMAIN stack :
             unseen'[stack[i]] = IF i = 1 THEN unseen[stack[i]] \ {d} ELSE unseen[stack[i]]
      <4>1. unseen' = [unseen EXCEPT ![stack[1]] = @ \ {d}]
        BY Zenon, <2>2, <2>5
      <4>2. \A i \in DOMAIN stack : stack[i] \in Jobs /\ (stack[i] = stack[1] <=> i = 1)
        BY <2>2 DEF Searching
      <4>3. unseen \in [Jobs -> SUBSET Jobs]
        BY DEF Searching
      <4> QED BY <2>2, <4>1, <4>2, <4>3
    <3>3. ASSUME NEW i \in DOMAIN stack'
          PROVE  /\ i > 1 => stack'[i - 1] \in dependents'[stack'[i]]
                 /\ unseen'[stack'[i]] \subseteq dependents'[stack'[i]]
                 /\ \A e \in dependents'[stack'[i]] \ unseen'[stack'[i]] :
                       e \in Black' \/ (i > 1 /\ e = stack'[i - 1])
      BY <2>1, <2>5, <3>1, <3>2 DEF Searching
    <3>4. \A C \in SUBSET nodes' : C # {} /\ Ring(C)' => ~(C \subseteq Black')
      BY <2>1, <3>1 DEF Searching, Ring
    <3>5. Searching'
      BY <2>1, <2>5, <3>1, <3>3, <3>4 DEF Searching
    <3> QED BY <2>1, <2>5, <3>5
  <2> QED BY <1>2, <2>3, <2>4, <2>5 DEF SearchNext, dfs
<1>3. ASSUME SearchLeave PROVE Searching' /\ call' = "search"
  <2> DEFINE j == Head(stack)
  <2>1. /\ stack # <<>> /\ unseen[j] = {} /\ color' = [color EXCEPT ![j] = "black"]
        /\ stack' = Tail(stack) /\ UNCHANGED <<nodes, dependencies, dependents, unseen, call>>
        /\ call = "search"
    BY <1>3 DEF SearchLeave, graph
  <2>2. /\ j = stack[1] /\ 1 \in DOMAIN stack /\ j \in nodes /\ j \in Jobs
        /\ stack' \in Seq(nodes) /\ Len(stack) \in Nat /\ DOMAIN stack = 1 .. Len(stack)
        /\ DOMAIN stack' = 1 .. Len(stack) - 1
        /\ \A i \in 1 .. Len(stack) - 1 : stack'[i] = stack[i + 1]
        /\ color \in [Jobs -> Color]
    BY <2>1 DEF Searching
  <2> HIDE DEF j
  <2>3. color' \in [Jobs -> Color] /\ Black' = Black \cup {j}
    BY <2>1, <2>2 DEF Black, Color
  <2>4. color[j] = "gray" /\ j \notin Black
    BY <2>2 DEF Searching, Black
  <2>5. dependents[j] \subseteq Black
    BY <2>1, <2>2 DEF Searching
  <2>6. ASSUME NEW k \in Jobs
        PROVE  color'[k] = "gray" <=> \E i \in DOMAIN stack' : stack'[i] = k
    <3>1. ASSUME NEW i \in DOMAIN stack', stack'[i] = k PROVE color'[k] = "gray"
      <4>1. i + 1 \in DOMAIN stack /\ i + 1 # 1 /\ stack[i + 1] = k
        BY <2>2, <3>1
      <4>2. k # j /\ color[k] = "gray"
        BY <2>2, <4>1 DEF Searching
      <4> QED BY <2>1, <2>2, <4>2
    <3>2. ASSUME color'[k] = "gray" PROVE \E i \in DOMAIN stack' : stack'[i] = k
      <4>1. k # j /\ color[k] = "gray"
        BY <2>1, <2>2, <3>2
      <4>2. PICK i \in DOMAIN stack : stack[i] = k
        BY <4>1 DEF Searching
      <4>3. i # 1 /\ i - 1 \in DOMAIN stack' /\ stack'[i - 1] = stack[(i - 1) + 1] /\ (i - 1) + 1 = i
        BY <2>2, <4>1, <4>2
      <4> QED BY <4>2, <4>3
    <3> QED BY <3>1, <3>2
  <2>7. ASSUME NEW i \in DOMAIN stack', NEW k \in DOMAIN stack', stack'[i] = stack'[k]
        PROVE  i = k
    <3>1. i + 1 \in DOMAIN stack /\ k + 1 \in DOMAIN stack /\ stack[i + 1] = stack[k + 1]
      BY <2>2, <2>7
    <3>2. i + 1 = k + 1
      BY <3>1 DEF Searching
    <3> QED BY <2>2, <3>2
  <2>8. ASSUME NEW i \in DOMAIN stack'
        PROVE  /\ i > 1 => stack'[i - 1] \in dependents'[stack'[i]]
               /\ unseen'[stack'[i]] \subseteq dependents'[stack'[i]]
               /\ \A d \in dependents'[stack'[i]] \ unseen'[stack'[i]] :
                     d \in Black' \/ (i > 1 /\ d = stack'[i - 1])
    <3>1. i + 1 \in DOMAIN stack /\ i + 1 > 1 /\ (i + 1) - 1 = i /\ stack'[i] = stack[i + 1]
      BY <2>2
    <3>2. /\ stack[i] \in dependents[stack[i + 1]]
          /\ unseen[stack[i + 1]] \subseteq dependents[stack[i + 1]]
          /\ \A d \in dependents[stack[i + 1]] \ unseen[stack[i + 1]] :
                d \in Black \/ d = stack[i]
      BY <3>1 DEF Searching
    <3>3. /\ dependents'[stack'[i]] = dependents[stack[i + 1]]
          /\ unseen'[stack'[i]] = unseen[stack[i + 1]]
      BY <2>1, <3>1
    <3>4. CASE i = 1
      BY <2>2, <2>3, <3>2, <3>3, <3>4
    <3>5. CASE i > 1
      <4>1. stack'[i - 1] = stack[i]
        BY <2>2, <3>5
      <4> QED BY Zenon, <2>3, <3>2, <3>3, <3>5, <4>1
    <3> QED BY <2>2, <3>4, <3>5
  <2>9. \A k \in Black' : dependents'[k] \subseteq Black'
    BY <2>1, <2>3, <2>5 DEF Searching
  <2>10. ASSUME NEW C \in SUBSET nodes, C # {}, Ring(C), C \subseteq Black \cup {j} PROVE FALSE
    <3>1. j \in C
      BY <2>10 DEF Searching
    <3>2. PICK d \in dependencies[j] : d \in C
      BY <2>10, <3>1 DEF Ring
    <3>3. d \in Jobs /\ j \in dependents[d]
      BY <2>2, <3>2 DEF Mirrored
    <3>4. d \notin Black
      BY <2>4, <3>3 DEF Searching
    <3>5. d # j
      BY <2>4, <2>5, <3>3
    <3> QED BY <2>10, <3>2, <3>4, <3>5
  <2>11. \A C \in SUBSET nodes' : C # {} /\ Ring(C)' => ~(C \subseteq Black')
    BY <2>1, <2>3, <2>10 DEF Ring
  <2>12. stack' \in Seq(nodes') /\ unseen' \in [Jobs -> SUBSET Jobs]
    BY <2>1, <2>2 DEF Searching
  <2>13. Searching'
    BY <2>3, <2>6, <2>7, <2>8, <2>9, <2>11, <2>12 DEF Searching
  <2> QED BY <2>1, <2>13
<1> QED BY <1>1, <1>2, <1>3

LEMMA SearchAnswers == ASSUME GraphOK, Searching, SearchEnd PROVE AlgorithmsRight'
<1> USE DEF GraphOK
<1>1. /\ stack = <<>> /\ call' = "acyclic" /\ UNCHANGED <<nodes, dependencies>>
      /\ \A j \in nodes : color[j] # "white"
  BY DEF SearchEnd, graph
<1>2. nodes \subseteq Black
  BY <1>1 DEF Searching, Color, Black
<1>3. ~Cyclic
  BY <1>2, RingsAreCycles DEF Searching
<1>4. ~Cyclic'
  BY <1>1, <1>3 DEF Cyclic
<1> QED BY <1>1, <1>4 DEF AlgorithmsRight, SortRight, PlanRight, CycleRight

-----------------------------------------------------------------------------
(* All algorithms, one at a time. *)

Inv ==
    /\ GraphOK
    /\ call = "none" => color = White /\ stack = <<>> /\ unseen = NoJobs
    /\ call = "sort" => Sorting
    /\ call = "plan" => Planning
    /\ call = "search" => Searching
    /\ AlgorithmsRight

(* The invariant holds, whatever graph is built and whichever algorithms are *)
(* called on it.                                                             *)
THEOREM InvHolds == Spec => []Inv
<1> USE DEF Inv
<1>1. Init => Inv
  BY DEF Init, GraphOK, Mirrored, NoJobs, AlgorithmsRight, SortRight, PlanRight, CycleRight
<1>2. Inv /\ [Next]_vars => Inv'
  <2> SUFFICES ASSUME Inv, [Next]_vars PROVE Inv'
    OBVIOUS
  <2>1. CASE Build
    <3>1. GraphOK'
      BY <2>1, BuildMirrors
    <3>2. call = "none" /\ call' = "none" /\ UNCHANGED <<color, stack, unseen>>
      BY <2>1 DEF Build, AddNode, AddEdge, RemoveEdge, AddJob, BuilderAdd, dfs
    <3> QED BY <3>1, <3>2 DEF AlgorithmsRight, SortRight, PlanRight, CycleRight
  <2>2. CASE ~Build
    <3>1. CASE Sort
      <4>1. UNCHANGED graph /\ call = "none" /\ call' = "sort"
        BY <3>1 DEF Sort
      <4> QED BY <3>1, <4>1, SameGraph, SortBegins
              DEF AlgorithmsRight, SortRight, PlanRight, CycleRight
    <3>2. CASE Plan
      <4>1. UNCHANGED graph /\ call = "none" /\ call' = "plan"
        BY <3>2 DEF Plan
      <4> QED BY <3>2, <4>1, SameGraph, PlanBegins
              DEF AlgorithmsRight, SortRight, PlanRight, CycleRight
    <3>3. CASE Search
      <4>1. UNCHANGED graph /\ call = "none" /\ call' = "search"
        BY <3>3 DEF Search
      <4> QED BY <3>3, <4>1, SameGraph, SearchBegins
              DEF AlgorithmsRight, SortRight, PlanRight, CycleRight
    <3>4. CASE Return
      <4>1. UNCHANGED graph /\ call' = "none" /\ color' = White /\ stack' = <<>> /\ unseen' = NoJobs
        BY <3>4 DEF Return
      <4> QED BY <4>1, SameGraph DEF AlgorithmsRight, SortRight, PlanRight, CycleRight, White, NoJobs
    <3>5. CASE SortRound
      <4>1. UNCHANGED graph /\ call = "sort" /\ call' = "sort"
        BY <3>5 DEF SortRound
      <4> QED BY <3>5, <4>1, SameGraph, SortGoesOn
              DEF AlgorithmsRight, SortRight, PlanRight, CycleRight
    <3>6. CASE SortEnd
      <4>1. UNCHANGED graph /\ call = "sort" /\ call' \in {"sorted", "unsortable"}
        BY <3>6 DEF SortEnd
      <4> QED BY <3>6, <4>1, SameGraph, SortAnswers
    <3>7. CASE PlanRound
      <4>1. UNCHANGED graph /\ call = "plan" /\ call' = "plan"
        BY <3>7 DEF PlanRound
      <4> QED BY <3>7, <4>1, SameGraph, PlanGoesOn
              DEF AlgorithmsRight, SortRight, PlanRight, CycleRight
    <3>8. CASE PlanEnd
      <4>1. UNCHANGED graph /\ call = "plan" /\ call' \in {"planned", "unplannable"}
        BY <3>8 DEF PlanEnd
      <4> QED BY <3>8, <4>1, SameGraph, PlanAnswers
    <3>9. CASE (\E j \in Jobs : SearchRoot(j) \/ SearchNext(j)) \/ SearchLeave
      <4>1. UNCHANGED graph /\ call = "search"
        BY <3>9 DEF SearchRoot, SearchNext, SearchLeave
      <4>2. /\ call' = "search" => Searching'
            /\ call' # "search" => call' = "cycle" /\ AlgorithmsRight'
        BY <3>9, <4>1, SearchGoesOn
      <4>3. GraphOK'
        BY <4>1, SameGraph
      <4> QED BY <4>2, <4>3 DEF AlgorithmsRight, SortRight, PlanRight, CycleRight
    <3>10. CASE SearchEnd
      <4>1. UNCHANGED graph /\ call = "search" /\ call' = "acyclic"
        BY <3>10 DEF SearchEnd
      <4> QED BY <3>10, <4>1, SameGraph, SearchAnswers
    <3>11. CASE ListCycle
      <4>1. UNCHANGED graph /\ call = "cycle" /\ call' \in {"cycle", "listed"}
        BY <3>11 DEF ListCycle
      <4>2. Cyclic'
        BY <4>1 DEF AlgorithmsRight, CycleRight, Cyclic, graph
      <4> QED BY <4>1, <4>2, SameGraph DEF AlgorithmsRight, SortRight, PlanRight, CycleRight
    <3>12. CASE UNCHANGED vars
      <4>1. UNCHANGED <<graph, call, result, in_degree, todo, color, parent, stack, unseen>>
        BY <3>12 DEF vars, kahn, dfs
      <4>2. UNCHANGED <<nodes, dependencies, dependents, depends_on>>
        BY <4>1 DEF graph
      <4>3. GraphOK'
        BY <4>1, SameGraph
      <4>4. AlgorithmsRight'
        BY <4>1, <4>2 DEF AlgorithmsRight, SortRight, PlanRight, CycleRight, Cyclic
      <4>5. /\ OffRings(Done) => OffRings(Done)'
            /\ OffRings(nodes \ todo) => OffRings(nodes \ todo)'
            /\ UNCHANGED <<Done, Black>>
            /\ \A C : Ring(C)' <=> Ring(C)
        BY <4>1, <4>2 DEF OffRings, Ring, Done, Black
      <4>6. call' = "sort" => Sorting'
        BY <4>1, <4>2, <4>5 DEF Sorting
      <4>7. call' = "plan" => Planning'
        BY <4>1, <4>2, <4>5 DEF Planning
      <4>8. call' = "search" => Searching'
        BY <4>1, <4>2, <4>5 DEF Searching
      <4>9. call' = "none" => color' = White /\ stack' = <<>> /\ unseen' = NoJobs
        BY <4>1 DEF White, NoJobs
      <4> QED BY <4>3, <4>4, <4>6, <4>7, <4>8, <4>9
    <3> QED BY <2>2, <3>1, <3>2, <3>3, <3>4, <3>5, <3>6, <3>7, <3>8, <3>9, <3>10, <3>11, <3>12
            DEF Next, Work
  <2> QED BY <2>1, <2>2
<1> QED BY <1>1, <1>2, PTL DEF Spec

(* Each edge is recorded at both of its ends and in depends_on, and both ends *)
(* are in the graph, after any sequence of additions and removals.            *)
THEOREM EdgesMirrored == Spec => []Mirrored
<1>1. Inv => Mirrored
  BY DEF Inv, GraphOK
<1> QED BY <1>1, InvHolds, PTL

(* topological_sort, get_execution_plan and has_cycle answer right on every  *)
(* graph, cyclic or not, for every order in which Python iterates its sets.  *)
THEOREM EveryAnswerIsRight == Spec => []AlgorithmsRight
<1>1. Inv => AlgorithmsRight
  BY DEF Inv
<1> QED BY <1>1, InvHolds, PTL

-----------------------------------------------------------------------------
(* What find_cycle lists.  The parent of each job on the stack is the job   *)
(* below it, that of a root is None.                                        *)
Parents ==
    /\ parent \in [Jobs -> Jobs \cup {None}]
    /\ \A j \in Jobs : color[j] = "white" => parent[j] = None
    /\ \A i \in DOMAIN stack : parent[stack[i]] = IF i < Len(stack) THEN stack[i + 1] ELSE None

(* The jobs listed so far are a stretch of the stack, downwards. *)
Listing ==
    /\ Parents
    /\ stack \in Seq(nodes)
    /\ \A i, k \in DOMAIN stack : stack[i] = stack[k] => i = k
    /\ \A i \in DOMAIN stack : i > 1 => stack[i - 1] \in dependents[stack[i]]
    /\ result \in Seq(nodes) /\ Len(result) >= 1
    /\ \E k \in DOMAIN stack :
          /\ k + Len(result) - 1 \in DOMAIN stack
          /\ \A i \in DOMAIN result : result[i] = stack[k + i - 1]

(* What find_cycle returns (reversed): each job depends on the next one, up *)
(* to the job the search started from, and the first is repeated at the     *)
(* end.  Whether that job depends on the first nobody has looked at: the    *)
(* list need not be a cycle.                                                *)
ListIsPath ==
    call = "listed" =>
        /\ Len(result) >= 2 /\ result[Len(result)] = result[1]
        /\ \A i \in 1 .. Len(result) - 2 : result[i + 1] \in dependencies[result[i]]

LInv ==
    /\ Inv
    /\ call \in {"none", "search"} => Parents
    /\ call = "cycle" => Listing
    /\ ListIsPath

LEMMA ParentsKept ==
    ASSUME GraphOK, Searching, Parents,
           (\E j \in Jobs : SearchRoot(j) \/ SearchNext(j)) \/ SearchLeave
    PROVE  Parents'
<1> USE DEF GraphOK
<1>1. ASSUME NEW j \in nodes, color[j] = "white", Enter(j),
             parent' = [parent EXCEPT ![j] = IF stack = <<>> THEN None ELSE stack[1]]
      PROVE  Parents'
  <2>1. /\ stack' \in Seq(nodes) /\ Len(stack') = Len(stack) + 1 /\ Len(stack) \in Nat
        /\ DOMAIN stack' = 1 .. Len(stack) + 1 /\ DOMAIN stack = 1 .. Len(stack)
        /\ stack'[1] = j
        /\ \A i \in 1 .. Len(stack) : stack'[i + 1] = stack[i]
        /\ \A i \in DOMAIN stack' \ {1} :
              i - 1 \in DOMAIN stack /\ stack'[i] = stack[i - 1]
    BY <1>1, Entering
  <2>2. \A i \in DOMAIN stack : stack[i] \in Jobs /\ stack[i] # j
    BY <1>1, <2>1 DEF Searching
  <2>3. stack = <<>> <=> Len(stack) = 0
    BY DEF Searching
  <2>4. parent' \in [Jobs -> Jobs \cup {None}] /\ j \in Jobs
    BY <1>1, <2>1, <2>2, <2>3 DEF Parents
  <2>5. \A k \in Jobs : color'[k] = "white" => parent'[k] = None
    BY <1>1, <2>4 DEF Parents, Enter, Searching, Color
  <2>6. ASSUME NEW i \in DOMAIN stack'
        PROVE  parent'[stack'[i]] = IF i < Len(stack') THEN stack'[i + 1] ELSE None
    <3>1. CASE i = 1
      <4>1. parent'[j] = IF stack = <<>> THEN None ELSE stack[1]
        BY <1>1, <2>4 DEF Parents
      <4> QED BY <2>1, <2>3, <3>1, <4>1
    <3>2. CASE i # 1
      <4> DEFINE m == i - 1
      <4>1. m \in DOMAIN stack /\ stack'[i] = stack[m] /\ m \in Nat
        BY <2>1, <3>2
      <4>2. (m < Len(stack) <=> i < Len(stack')) /\ (i < Len(stack') => stack'[i + 1] = stack[m + 1])
        BY <2>1, <3>2
      <4> HIDE DEF m
      <4>3. stack[m] \in Jobs /\ stack[m] # j
        BY <2>2, <4>1
      <4>4. parent'[stack[m]] = parent[stack[m]]
        BY <1>1, <4>3 DEF Parents
      <4>5. parent[stack[m]] = IF m < Len(stack) THEN stack[m + 1] ELSE None
        BY <4>1 DEF Parents
      <4> QED BY <4>1, <4>2, <4>4, <4>5
    <3> QED BY <3>1, <3>2
  <2> QED BY <2>4, <2>5, <2>6 DEF Parents
<1>2. ASSUME NEW j \in Jobs, SearchRoot(j) PROVE Parents'
  <2>1. j \in nodes /\ stack = <<>> /\ color[j] = "white" /\ Enter(j) /\ UNCHANGED parent
    BY <1>2 DEF SearchRoot
  <2>2. parent[j] = None /\ parent \in [Jobs -> Jobs \cup {None}]
    BY <2>1 DEF Parents
  <2>3. parent' = [parent EXCEPT ![j] = None]
    BY <2>1, <2>2
  <2> QED BY <1>1, <2>1, <2>3
<1>3. ASSUME NEW d \in Jobs, SearchNext(d) PROVE Parents'
  <2>1. /\ stack # <<>> /\ Head(stack) = stack[1] /\ 1 \in DOMAIN stack
        /\ d \in unseen[stack[1]] /\ d \in nodes
    BY <1>3 DEF SearchNext, Searching, Mirrored
  <2>2. CASE UNCHANGED <<color, parent, stack>>
    BY <2>2 DEF Parents
  <2>3. CASE color[d] = "white" /\ Enter(d) /\ parent' = [parent EXCEPT ![d] = Head(stack)]
    BY <1>1, <2>1, <2>3
  <2> QED BY <1>3, <2>2, <2>3 DEF SearchNext, dfs
<1>4. CASE SearchLeave
  <2>1. /\ stack # <<>> /\ color' = [color EXCEPT ![Head(stack)] = "black"]
        /\ stack' = Tail(stack) /\ UNCHANGED parent
    BY <1>4 DEF SearchLeave
  <2>2. /\ Len(stack) \in Nat /\ DOMAIN stack = 1 .. Len(stack)
        /\ DOMAIN stack' = 1 .. Len(stack) - 1 /\ Len(stack') = Len(stack) - 1
        /\ \A i \in 1 .. Len(stack) - 1 : stack'[i] = stack[i + 1]
    BY <2>1 DEF Searching
  <2>3. \A k \in Jobs : color'[k] = "white" => color[k] = "white"
    BY <2>1 DEF Searching
  <2>4. ASSUME NEW i \in DOMAIN stack'
        PROVE  parent'[stack'[i]] = IF i < Len(stack') THEN stack'[i + 1] ELSE None
    <3>1. /\ i + 1 \in DOMAIN stack /\ stack'[i] = stack[i + 1]
          /\ i < Len(stack') => stack'[i + 1] = stack[(i + 1) + 1]
          /\ i < Len(stack') <=> i + 1 < Len(stack)
      BY <2>2
    <3>2. parent[stack[i + 1]] = IF i + 1 < Len(stack) THEN stack[(i + 1) + 1] ELSE None
      BY <3>1 DEF Parents
    <3> QED BY <2>1, <3>1, <3>2
  <2> QED BY <2>1, <2>3, <2>4 DEF Parents
<1> QED BY <1>2, <1>3, <1>4

(* A back edge: the walk begins at a job on the stack. *)
LEMMA ListBegins ==
    ASSUME GraphOK, Searching, Parents, NEW d \in Jobs, SearchNext(d), call' = "cycle"
    PROVE  Listing'
<1>1. /\ d \in unseen[Head(stack)] /\ stack # <<>> /\ color[d] = "gray"
      /\ result' = <<d>> /\ UNCHANGED <<color, parent, stack, nodes, dependents>>
  BY DEF SearchNext, dfs, graph
<1>2. PICK k \in DOMAIN stack : stack[k] = d
  BY <1>1 DEF Searching
<1>3. d \in nodes /\ result' \in Seq(nodes) /\ Len(result') = 1 /\ DOMAIN result' = {1} /\ result'[1] = d
  BY <1>1, <1>2 DEF Searching
<1>4. k \in Nat /\ k + 1 - 1 = k
  BY <1>2 DEF Searching
<1>5. Parents'
  BY <1>1 DEF Parents
<1> QED BY <1>1, <1>2, <1>3, <1>4, <1>5 DEF Listing, Searching

(* The walk goes one job down the stack, or ends at its bottom. *)
LEMMA ListGoesOn ==
    ASSUME GraphOK, Listing, ListCycle
    PROVE  /\ call' = "cycle" => Listing' /\ \E c \in nodes \ Done : result' = Append(result, c)
           /\ call' # "cycle" => call' = "listed" /\ ListIsPath'
<1> USE DEF GraphOK
<1> DEFINE n == Len(result)
           current == parent[result[n]]
<1>1. /\ UNCHANGED <<nodes, dependencies, dependents, color, parent, stack>>
      /\ IF current \in {result[1], None}
         THEN call' = "listed" /\ result' = Append(result, result[1])
         ELSE call' = "cycle" /\ result' = Append(result, current)
  BY DEF ListCycle, graph, dfs
<1>2. PICK k \in DOMAIN stack :
         /\ k + n - 1 \in DOMAIN stack
         /\ \A i \in DOMAIN result : result[i] = stack[k + i - 1]
  BY DEF Listing
<1>3. /\ n \in Nat /\ n >= 1 /\ DOMAIN result = 1 .. n /\ result \in Seq(nodes)
      /\ Len(stack) \in Nat /\ DOMAIN stack = 1 .. Len(stack) /\ stack \in Seq(nodes)
  BY DEF Listing
<1> HIDE DEF n
<1>4. k \in Nat /\ k >= 1 /\ result[n] = stack[k + n - 1] /\ result[1] \in nodes
  BY <1>2, <1>3
<1>5. current = IF k + n - 1 < Len(stack) THEN stack[k + n] ELSE None
  <2>1. (k + n - 1) + 1 = k + n
    BY <1>3
  <2> QED BY <1>2, <1>4, <2>1 DEF Listing, Parents
<1>6. CASE current \notin {result[1], None}
  <2>1. k + n \in DOMAIN stack /\ current = stack[k + n] /\ current \in nodes
    BY <1>2, <1>3, <1>4, <1>5, <1>6
  <2>2. current \notin Done
    <3> SUFFICES ASSUME NEW i \in DOMAIN result, result[i] = current PROVE FALSE
      BY DEF Done
    <3>1. stack[k + i - 1] = stack[k + n] /\ k + i - 1 \in DOMAIN stack /\ k + i - 1 # k + n
      BY <1>2, <1>3, <1>4, <2>1
    <3> QED BY <2>1, <3>1 DEF Listing
  <2>3. /\ result' \in Seq(nodes) /\ Len(result') = n + 1 /\ DOMAIN result' = 1 .. n + 1
        /\ \A i \in 1 .. n : result'[i] = result[i]
        /\ result'[n + 1] = current
    <3>1. result' = Append(result, current)
      BY <1>1, <1>6
    <3> HIDE DEF current
    <3> QED BY <1>3, <2>1, <3>1 DEF n
  <2>4. \A i \in DOMAIN result' : result'[i] = stack[k + i - 1]
    BY <1>2, <1>3, <1>4, <2>1, <2>3
  <2>5. k + Len(result') - 1 \in DOMAIN stack /\ Len(result') >= 1
    BY <1>3, <1>4, <2>1, <2>3
  <2>6. Parents'
    BY <1>1 DEF Listing, Parents
  <2>7. Listing'
    BY <1>1, <1>2, <2>3, <2>4, <2>5, <2>6 DEF Listing
  <2> QED BY <1>1, <1>6, <2>1, <2>2, <2>7
<1>7. CASE current \in {result[1], None}
  <2>1. /\ Len(result') = n + 1 /\ result'[n + 1] = result[1]
        /\ \A i \in 1 .. n : result'[i] = result[i]
    BY <1>1, <1>3, <1>4, <1>7 DEF n
  <2>2. ASSUME NEW i \in 1 .. n - 1 PROVE result[i + 1] \in dependencies[result[i]]
    <3>1. /\ k + i \in DOMAIN stack /\ k + i > 1 /\ (k + i) - 1 \in DOMAIN stack
          /\ i \in DOMAIN result /\ i + 1 \in DOMAIN result /\ k + (i + 1) - 1 = k + i
          /\ k + i - 1 = (k + i) - 1
      BY <1>2, <1>3, <1>4
    <3>2. result[i] = stack[(k + i) - 1] /\ result[i + 1] = stack[k + i]
      BY <1>2, <3>1
    <3>3. stack[(k + i) - 1] \in dependents[stack[k + i]]
      BY <3>1 DEF Listing
    <3>4. stack[k + i] \in Jobs /\ stack[(k + i) - 1] \in Jobs
      BY <1>3, <3>1
    <3> QED BY <3>2, <3>3, <3>4 DEF Mirrored
  <2>3. \A i \in 1 .. Len(result') - 2 : i \in 1 .. n - 1 /\ i \in 1 .. n /\ i + 1 \in 1 .. n
    BY <1>3, <2>1
  <2> QED BY <1>1, <1>3, <1>7, <2>1, <2>2, <2>3 DEF ListIsPath
<1> QED BY <1>1, <1>6, <1>7

(* The invariant with the parent links holds as well. *)
THEOREM LInvHolds == Spec => []LInv
<1>1. Init => Parents /\ ListIsPath
  BY DEF Init, Parents, Orphans, ListIsPath
<1>2. Inv /\ LInv /\ [Next]_vars /\ Inv' => LInv'
  <2> SUFFICES ASSUME LInv, [Next]_vars, Inv' PROVE LInv'
    OBVIOUS
  <2> USE DEF LInv
  <2>1. GraphOK /\ (call = "search" => Searching)
    BY DEF Inv
  <2>2. CASE Build \/ Sort \/ Plan \/ Search
    <3>1. /\ call = "none" /\ call' \in {"none", "sort", "plan", "search"}
          /\ UNCHANGED <<color, parent, stack>>
      BY <2>2 DEF Build, AddNode, AddEdge, RemoveEdge, AddJob, BuilderAdd, Sort, Plan, Search, dfs
    <3> QED BY <3>1 DEF Parents, ListIsPath
  <2>3. CASE Return
    <3>1. call' = "none" /\ color' = White /\ parent' = Orphans /\ stack' = <<>>
      BY <2>3 DEF Return
    <3> QED BY <3>1 DEF Parents, Orphans, ListIsPath
  <2>4. CASE SortRound \/ SortEnd \/ PlanRound \/ PlanEnd \/ SearchEnd
    <3>1. call' \notin {"none", "search", "cycle", "listed"}
      BY <2>4 DEF SortRound, SortEnd, PlanRound, PlanEnd, SearchEnd
    <3> QED BY <3>1 DEF ListIsPath
  <2>5. CASE (\E j \in Jobs : SearchRoot(j) \/ SearchNext(j)) \/ SearchLeave
    <3>1. call = "search" /\ call' \in {"search", "cycle"}
      BY <2>5 DEF SearchRoot, SearchNext, SearchLeave
    <3>2. Parents'
      BY <2>1, <2>5, <3>1, ParentsKept
    <3>3. ASSUME call' = "cycle" PROVE Listing'
      <4>1. PICK d \in Jobs : SearchNext(d)
        BY <2>5, <3>1, <3>3 DEF SearchRoot, SearchLeave
      <4> QED BY <2>1, <3>1, <3>3, <4>1, ListBegins
    <3> QED BY <3>1, <3>2, <3>3 DEF ListIsPath
  <2>6. CASE ListCycle
    <3>1. call = "cycle"
      BY <2>6 DEF ListCycle
    <3> QED BY <2>1, <2>6, <3>1, ListGoesOn DEF ListIsPath
  <2>7. CASE UNCHANGED vars
    <3>1. UNCHANGED <<nodes, dependencies, dependents, call, result, color, parent, stack>>
      BY <2>7 DEF vars, graph, dfs
    <3> QED BY <3>1 DEF Parents, Listing, ListIsPath
  <2> QED BY <2>2, <2>3, <2>4, <2>5, <2>6, <2>7 DEF Next, Work
<1>3. Spec => []Inv
  BY InvHolds
<1>4. Init => (Inv => LInv)
  BY <1>1 DEF Init, LInv
<1> QED BY <1>2, <1>3, <1>4, PTL DEF Spec

(* What find_cycle returns is a path of dependencies (ListIsPath). *)
THEOREM FindCycleListsAPath == Spec => []ListIsPath
<1>1. LInv => ListIsPath
  BY DEF LInv
<1> QED BY <1>1, LInvHolds, PTL

-----------------------------------------------------------------------------
(* No algorithm loops for ever.  What the one that runs has still to do:    *)
(* jobs to sort or to list; jobs to put in a level; jobs to enter and to    *)
(* leave, and edges to look at.                                             *)
Left ==
    CASE call \in {"sort", "cycle"} -> <<nodes \ Done>>
      [] call = "plan"   -> <<todo>>
      [] call = "search" ->
            <<{j \in Jobs : color[j] = "white"},
              {j \in Jobs : color[j] # "black"},
              {e \in Jobs \X Jobs :
                 e[2] \in IF color[e[1]] = "white" THEN dependents[e[1]] ELSE unseen[e[1]]}>>
      [] OTHER -> <<>>

Shrinks ==
    /\ \A i \in DOMAIN Left : Left'[i] \subseteq Left[i]
    /\ \E i \in DOMAIN Left : Left'[i] # Left[i]

(* Each round of an algorithm but its last leaves less to do than it found: *)
(* of some of these finite sets less, of none more.                         *)
RoundsRunOut ==
    /\ [](\A i \in DOMAIN Left : IsFiniteSet(Left[i]))
    /\ [][(call \in Working \cup {"cycle"} /\ call' = call) => Shrinks]_vars

LEMMA AppendDone ==
    ASSUME NEW S, result \in Seq(S), NEW j \in S, result' = Append(result, j)
    PROVE  Done' = Done \cup {j}
<1>1. /\ DOMAIN result' = 1 .. Len(result) + 1 /\ DOMAIN result = 1 .. Len(result)
      /\ \A i \in 1 .. Len(result) : result'[i] = result[i]
      /\ result'[Len(result) + 1] = j /\ Len(result) \in Nat
  OBVIOUS
<1>2. Done \subseteq Done' /\ j \in Done'
  BY <1>1 DEF Done
<1>3. Done' \subseteq Done \cup {j}
  BY <1>1 DEF Done
<1> QED BY <1>2, <1>3

LEMMA LeftIsFinite == Inv => \A i \in DOMAIN Left : IsFiniteSet(Left[i])
<1> SUFFICES ASSUME Inv, NEW i \in DOMAIN Left PROVE IsFiniteSet(Left[i])
  OBVIOUS
<1>1. CASE call \in {"sort", "cycle"}
  <2>1. Left[i] = nodes \ Done
    BY <1>1 DEF Left
  <2> QED BY <2>1, Sizes DEF Inv, GraphOK
<1>2. CASE call = "plan"
  <2>1. Left[i] = todo
    BY <1>2 DEF Left
  <2> QED BY <1>2, <2>1, Sizes DEF Inv, GraphOK, Planning
<1>3. CASE call = "search"
  <2>1. Left[i] \subseteq Jobs \/ Left[i] \subseteq Jobs \X Jobs
    <3>1. DOMAIN Left = 1 .. 3
      BY <1>3 DEF Left
    <3>2. Left[1] \subseteq Jobs /\ Left[2] \subseteq Jobs /\ Left[3] \subseteq Jobs \X Jobs
      BY <1>3 DEF Left
    <3> QED BY <3>1, <3>2
  <2>2. IsFiniteSet(Jobs \X Jobs)
    BY DAGAssumption, FS_Product
  <2> QED BY <2>1, <2>2, DAGAssumption, FS_Subset
<1>4. CASE call \notin {"sort", "cycle", "plan", "search"}
  <2>1. DOMAIN Left = {}
    BY <1>4 DEF Left
  <2> QED BY <2>1
<1> QED BY <1>1, <1>2, <1>3, <1>4

LEMMA SearchRunsOut ==
    ASSUME GraphOK, Searching, call = "search", call' = "search",
           (\E j \in Jobs : SearchRoot(j) \/ SearchNext(j)) \/ SearchLeave
    PROVE  Shrinks
<1> USE DEF GraphOK
<1> DEFINE White1 == {j \in Jobs : color[j] = "white"}
           Open   == {j \in Jobs : color[j] # "black"}
           Look(j) == IF color[j] = "white" THEN dependents[j] ELSE unseen[j]
           Edges  == {e \in Jobs \X Jobs : e[2] \in Look(e[1])}
<1>1. Left = <<White1, Open, Edges>> /\ Left' = <<White1', Open', Edges'>>
  BY Zenon DEF Left
<1>2. ASSUME White1' \subseteq White1, Open' \subseteq Open,
             \A j \in Jobs : Look(j)' \subseteq Look(j),
             \/ \E j \in Jobs : j \in White1 \ White1' \/ j \in Open \ Open'
             \/ \E j, d \in Jobs : d \in Look(j) /\ d \notin Look(j)'
      PROVE  Shrinks
  <2>1. Edges' \subseteq Edges
    BY <1>2
  <2>2. White1' # White1 \/ Open' # Open \/ Edges' # Edges
    <3>1. ASSUME NEW j \in Jobs, NEW d \in Jobs, d \in Look(j), d \notin Look(j)'
          PROVE  <<j, d>> \in Edges /\ <<j, d>> \notin Edges'
      BY <3>1
    <3> QED BY <1>2, <3>1
  <2> HIDE DEF White1, Open, Edges, Look
  <2>3. DOMAIN Left = {1, 2, 3}
    BY <1>1
  <2> QED BY <1>1, <1>2, <2>1, <2>2, <2>3 DEF Shrinks
<1>3. color \in [Jobs -> Color] /\ unseen \in [Jobs -> SUBSET Jobs]
  BY DEF Searching
<1>4. ASSUME NEW j \in Jobs, SearchRoot(j)
      PROVE  /\ White1' \subseteq White1 /\ Open' \subseteq Open
             /\ \A k \in Jobs : Look(k)' \subseteq Look(k)
             /\ j \in White1 \ White1'
  BY <1>3, <1>4 DEF SearchRoot, Enter, graph
<1>5. ASSUME NEW d \in Jobs, SearchNext(d)
      PROVE  /\ White1' \subseteq White1 /\ Open' \subseteq Open
             /\ \A k \in Jobs : Look(k)' \subseteq Look(k)
             /\ \/ d \in White1 \ White1'
                \/ \E j \in Jobs : d \in Look(j) /\ d \notin Look(j)'
  <2>1. /\ stack # <<>> /\ Head(stack) = stack[1] /\ stack[1] \in Jobs
        /\ d \in unseen[Head(stack)] /\ color[Head(stack)] = "gray"
        /\ UNCHANGED dependents
    BY <1>5 DEF SearchNext, Searching, graph
  <2> DEFINE h == Head(stack)
  <2>2. h \in Jobs /\ d \in unseen[h] /\ color[h] = "gray"
    BY <2>1
  <2>3. CASE color[d] = "white" /\ Enter(d)
             /\ unseen' = [unseen EXCEPT ![h] = @ \ {d}, ![d] = dependents[d]]
    <3> HIDE DEF h
    <3> QED BY <1>3, <2>1, <2>2, <2>3 DEF Enter
  <2>4. CASE color[d] = "black" /\ unseen' = [unseen EXCEPT ![h] = @ \ {d}] /\ UNCHANGED color
    <3> HIDE DEF h
    <3>1. \E j \in Jobs : d \in Look(j) /\ d \notin Look(j)'
      <4>1. PICK j \in Jobs : j = h
        BY <2>2
      <4>2. d \in Look(j) /\ d \notin Look(j)'
        BY <1>3, <2>2, <2>4, <4>1
      <4> QED BY <4>2
    <3> QED BY <1>3, <2>1, <2>2, <2>4, <3>1
  <2> QED BY <1>5, <2>3, <2>4 DEF SearchNext
<1>6. ASSUME SearchLeave
      PROVE  /\ White1' \subseteq White1 /\ Open' \subseteq Open
             /\ \A k \in Jobs : Look(k)' \subseteq Look(k)
             /\ \E j \in Jobs : j \in Open \ Open'
  <2> DEFINE h == Head(stack)
  <2>1. /\ h \in Jobs /\ color[h] = "gray" /\ color' = [color EXCEPT ![h] = "black"]
        /\ UNCHANGED <<dependents, unseen>>
    BY <1>6 DEF SearchLeave, Searching, graph
  <2> HIDE DEF h
  <2> QED BY <1>3, <2>1
<1> HIDE DEF White1, Open, Edges, Look
<1> QED BY <1>2, <1>4, <1>5, <1>6

(* Sorting, planning and the search run out of work, and so does the walk   *)
(* that lists a cycle (RoundsRunOut): the reason why they return.           *)
THEOREM NoEndlessLoop == Spec => RoundsRunOut
<1> DEFINE Round == (call \in Working \cup {"cycle"} /\ call' = call) => Shrinks
<1>1. LInv /\ Next => Round
  <2> SUFFICES ASSUME LInv, Next, call \in Working \cup {"cycle"}, call' = call
               PROVE  Shrinks
    OBVIOUS
  <2>1. GraphOK
    BY DEF LInv, Inv
  <2>2. CASE SortRound
    <3>1. PICK j \in todo : result' = Append(result, j)
      BY <2>2 DEF SortRound
    <3>2. call = "sort" /\ Sorting /\ UNCHANGED nodes
      BY <2>2 DEF SortRound, LInv, Inv, graph
    <3>3. j \in nodes /\ j \notin Done /\ result \in Seq(nodes)
      BY <3>2, <3>1 DEF Sorting
    <3>4. Done' = Done \cup {j}
      BY <3>1, <3>3, AppendDone
    <3>5. Left = <<nodes \ Done>> /\ Left' = <<nodes \ (Done \cup {j})>>
      BY <3>2, <3>4 DEF Left
    <3> QED BY <3>3, <3>5 DEF Shrinks
  <2>3. CASE PlanRound
    <3>1. call = "plan" /\ Zero(todo, in_degree) # {} /\ todo' = todo \ Zero(todo, in_degree)
      BY <2>3 DEF PlanRound
    <3>2. Left = <<todo>> /\ Left' = <<todo'>>
      BY <3>1 DEF Left
    <3>3. Zero(todo, in_degree) \subseteq todo
      BY DEF Zero
    <3> QED BY <3>1, <3>2, <3>3 DEF Shrinks
  <2>4. CASE (\E j \in Jobs : SearchRoot(j) \/ SearchNext(j)) \/ SearchLeave
    <3>1. call = "search" /\ Searching
      BY <2>4 DEF SearchRoot, SearchNext, SearchLeave, LInv, Inv
    <3> QED BY <2>1, <2>4, <3>1, SearchRunsOut
  <2>5. CASE ListCycle
    <3>1. call = "cycle" /\ Listing /\ UNCHANGED nodes
      BY <2>5 DEF ListCycle, LInv, graph
    <3>2. PICK c \in nodes \ Done : result' = Append(result, c)
      BY <2>1, <2>5, <3>1, ListGoesOn
    <3>3. Done' = Done \cup {c}
      BY <3>1, <3>2, AppendDone DEF Listing
    <3>4. Left = <<nodes \ Done>> /\ Left' = <<nodes \ (Done \cup {c})>>
      BY <3>1, <3>3 DEF Left
    <3> QED BY <3>2, <3>4 DEF Shrinks
  <2>6. CASE SortEnd \/ PlanEnd \/ SearchEnd
    BY <2>6 DEF SortEnd, PlanEnd, SearchEnd
  <2>7. CASE Build \/ Sort \/ Plan \/ Search \/ Return
    BY <2>7 DEF Build, AddNode, AddEdge, RemoveEdge, AddJob, BuilderAdd, Sort, Plan, Search, Return,
                Working
  <2> QED BY <2>2, <2>3, <2>4, <2>5, <2>6, <2>7 DEF Next, Work
<1>2. LInv /\ [Next]_vars => [Round]_vars
  BY <1>1
<1>3. LInv => \A i \in DOMAIN Left : IsFiniteSet(Left[i])
  BY LeftIsFinite DEF LInv
<1> QED BY <1>2, <1>3, LInvHolds, PTL DEF RoundsRunOut, Spec
=============================================================================
