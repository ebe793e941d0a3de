------------------------ MODULE DeadLetterQueueProofs ------------------------
(***************************************************************************)
(* Proofs about DeadLetterQueue, for any number of jobs, clients, letters  *)
(* and any capacity.                                                       *)
(***************************************************************************)
EXTENDS DeadLetterQueue, FiniteSetTheorems, WellFoundedInduction, TLAPS

LEMMA InitTypes == Init => TypeOK
BY DEF Init, TypeOK

(* What a removal leaves of the entries and of the index. *)
LEMMA WithoutType ==
    ASSUME NEW idx \in [Jobs -> Nat \cup {None}], NEW removed
    PROVE  /\ Without(idx, removed) \in [Jobs -> Nat \cup {None}]
           /\ \A j \in Jobs : Without(idx, removed)[j] =
                 IF \E e \in removed : e.job = j THEN None ELSE idx[j]
BY DEF Without

LEMMA StepTypes == TypeOK /\ [Next]_vars => TypeOK'
<1> SUFFICES ASSUME TypeOK, [Next]_vars PROVE TypeOK'
  OBVIOUS
<1> USE DEF TypeOK
<1>1. ASSUME NEW j \in Jobs, Add(j) PROVE TypeOK'
  <2>1. PICK expired \in Expirable(entries \ Evicted) :
          /\ entries' = ((entries \ Evicted) \ expired)
                        \cup {[id |-> nextId, job |-> j, status |-> "PENDING"]}
          /\ index' = Without([Without(index, Evicted) EXCEPT ![j] = nextId], expired)
          /\ ended' = ended \cup Ids(Evicted \cup expired)
    BY <1>1 DEF Add
  <2>2. [id |-> nextId, job |-> j, status |-> "PENDING"] \in Entry
    BY DEF Entry
  <2>3. Evicted \subseteq entries /\ expired \subseteq entries
    BY <2>1 DEF Evicted, Expirable
  <2>4. Ids(Evicted \cup expired) \subseteq Nat
    BY <2>3 DEF Ids, Entry
  <2>5. [Without(index, Evicted) EXCEPT ![j] = nextId] \in [Jobs -> Nat \cup {None}]
    BY WithoutType
  <2>6. index' \in [Jobs -> Nat \cup {None}]
    BY <2>1, <2>5, WithoutType
  <2>7. entries' \subseteq Entry /\ ended' \subseteq Nat
    BY <2>1, <2>2, <2>4
  <2>8. /\ nextId' \in Nat \ {0} /\ taken' = taken
        /\ state' \in [Jobs -> {"SCHEDULED", "FAILED", "PENDING"}]
    BY <1>1 DEF Add
  <2> QED BY <2>6, <2>7, <2>8
<1>2. ASSUME NEW e \in entries, Remove(e)
      PROVE  /\ entries' \subseteq Entry
             /\ index' \in [Jobs -> Nat \cup {None}]
             /\ ended' \subseteq Nat
  <2>1. e.id \in Nat
    BY DEF Entry
  <2>2. index' \in [Jobs -> Nat \cup {None}]
    BY <1>2, WithoutType DEF Remove
  <2> QED BY <1>2, <2>1, <2>2 DEF Remove
<1>3. ASSUME NEW j \in Jobs, SubmitReturned(j) PROVE TypeOK'
  BY <1>3 DEF SubmitReturned
<1>4. ASSUME NEW e \in entries, Discard(e) \/ Resolve(e) PROVE TypeOK'
  BY <1>2, <1>4 DEF Discard, Resolve
<1>5. ASSUME NEW e \in entries, ResolveKeep(e) PROVE TypeOK'
  BY <1>5 DEF ResolveKeep, Entry
<1>6. ASSUME NEW e \in entries, RequeueReturn(e) PROVE TypeOK'
  BY <1>2, <1>6 DEF RequeueReturn
<1>7. ASSUME NEW e \in entries, NEW c \in Clients, RequeueTake(c, e) PROVE TypeOK'
  <2>1. [e EXCEPT !.status = "REQUEUED"] \in Entry
    BY DEF Entry
  <2> QED BY <1>7, <2>1, WithoutType DEF RequeueTake
<1>8. ASSUME NEW c \in Clients, RequeueAccepted(c) \/ RequeueRefused(c) PROVE TypeOK'
  <2>1. taken[c] \in Entry
    BY <1>8 DEF RequeueAccepted, RequeueRefused, Out
  <2>2. taken[c].id \in Nat /\ taken[c].job \in Jobs
    BY <2>1 DEF Entry
  <2> QED BY <1>8, <2>1, <2>2 DEF RequeueAccepted, RequeueRefused
<1>9. ASSUME CleanupExpired PROVE TypeOK'
  <2>1. PICK expired \in Expirable(entries) :
          /\ entries' = entries \ expired
          /\ index' = Without(index, expired)
          /\ ended' = ended \cup Ids(expired)
          /\ UNCHANGED <<nextId, state, taken>>
    BY <1>9 DEF CleanupExpired
  <2>2. Ids(expired) \subseteq Nat
    BY <2>1 DEF Expirable, Ids, Entry
  <2> QED BY <2>1, <2>2, WithoutType
<1>10. CASE UNCHANGED vars
  BY <1>10 DEF vars
<1> QED BY <1>1, <1>3, <1>4, <1>5, <1>6, <1>7, <1>8, <1>9, <1>10 DEF Next

(* The fields of the dead letter queue keep their types. *)
THEOREM TypeCorrect == Spec => []TypeOK
BY InitTypes, StepTypes, PTL DEF Spec

-----------------------------------------------------------------------------
(* The inductive invariant: what makes IndexAgrees and DeadOrAlive last is *)
(* that a job has one letter, and that a letter in the hands of a          *)
(* requeue() says so.                                                      *)
OneLetter ==
    /\ \A e, f \in entries : e.job = f.job => e = f
    /\ \A c \in Clients : Out(c) => taken[c].status = "REQUEUED"

Placed == OneLetter /\ IndexAgrees /\ DeadOrAlive

(* Taking letters out leaves the rest in agreement, and the jobs of these  *)
(* letters without any.                                                    *)
LEMMA RemovalPlaced ==
    ASSUME TypeOK, OneLetter, IndexAgrees,
           NEW S \in SUBSET entries,
           entries' = entries \ S, index' = Without(index, S)
    PROVE  /\ IndexAgrees'
           /\ \A e, f \in entries' : e.job = f.job => e = f
           /\ \A e \in S, f \in entries' : f.job # e.job
<1>1. \A j \in Jobs : index'[j] = IF \E e \in S : e.job = j THEN None ELSE index[j]
  BY WithoutType DEF TypeOK
<1>2. \A e \in entries : e.job \in Jobs
  BY DEF TypeOK, Entry
<1>3. \A e \in S, f \in entries' : f.job # e.job
  BY DEF OneLetter
<1>4. \A e \in entries' : index'[e.job] = e.id
  BY <1>1, <1>2, <1>3 DEF IndexAgrees
<1>5. ASSUME NEW j \in Jobs, index'[j] # None
      PROVE  \E e \in entries' : e.job = j /\ e.id = index'[j]
  BY <1>1, <1>5 DEF IndexAgrees
<1> QED BY <1>3, <1>4, <1>5 DEF IndexAgrees, OneLetter

LEMMA InitPlaced == Init => Placed
BY DEF Init, Placed, OneLetter, IndexAgrees, DeadOrAlive, Out

LEMMA StepPlaced == TypeOK /\ Placed /\ [Next]_vars => Placed'
<1> SUFFICES ASSUME TypeOK, Placed, [Next]_vars PROVE Placed'
  OBVIOUS
<1>a. /\ \A e \in entries : e.job \in Jobs /\ e.id \in Nat
      /\ \A c \in Clients : Out(c) => taken[c] \in Entry /\ taken[c].job \in Jobs
  BY DEF TypeOK, Entry, Out
<1>b. OneLetter /\ IndexAgrees /\ DeadOrAlive
  BY DEF Placed
<1>1. ASSUME NEW j \in Jobs, Add(j) PROVE Placed'
  <2> DEFINE new == [id |-> nextId, job |-> j, status |-> "PENDING"]
  <2>1. PICK expired \in Expirable(entries \ Evicted) :
          /\ entries' = ((entries \ Evicted) \ expired) \cup {new}
          /\ index' = Without([Without(index, Evicted) EXCEPT ![j] = nextId], expired)
    BY <1>1 DEF Add
  <2> DEFINE gone == Evicted \cup expired
  <2>2. gone \subseteq entries
    BY <2>1 DEF Evicted, Expirable
  <2>3. entries' = (entries \ gone) \cup {new}
    BY <2>1
  <2>4. \A e \in entries : e.job # j
    BY <1>1, <1>b DEF Add, DeadOrAlive
  <2>5. [Without(index, Evicted) EXCEPT ![j] = nextId] \in [Jobs -> Nat \cup {None}]
    BY WithoutType DEF TypeOK
  <2>6. \A i \in Jobs : index'[i] =
           IF i = j THEN nextId
           ELSE IF \E e \in gone : e.job = i THEN None ELSE index[i]
    <3>1. \A i \in Jobs : Without(index, Evicted)[i] =
             IF \E e \in Evicted : e.job = i THEN None ELSE index[i]
      BY WithoutType DEF TypeOK
    <3>2. \A i \in Jobs : [Without(index, Evicted) EXCEPT ![j] = nextId][i] =
             IF i = j THEN nextId ELSE Without(index, Evicted)[i]
      BY WithoutType DEF TypeOK
    <3>3. \A i \in Jobs : index'[i] =
             IF \E e \in expired : e.job = i THEN None
             ELSE [Without(index, Evicted) EXCEPT ![j] = nextId][i]
      BY <2>1, <2>5, WithoutType
    <3>4. \A e \in expired : e.job # j
      BY <2>2, <2>4
    <3> QED BY <3>1, <3>2, <3>3, <3>4
  <2>7. new.job = j /\ new.id = nextId /\ new.status = "PENDING"
    OBVIOUS
  <2>8. \A e \in gone, f \in entries \ gone : f.job # e.job
    BY <1>b, <2>2 DEF OneLetter
  <2> HIDE DEF new, gone
  <2>9. \A e \in entries' : index'[e.job] = e.id
    BY <1>a, <1>b, <2>3, <2>4, <2>6, <2>7, <2>8 DEF IndexAgrees
  <2>10. ASSUME NEW i \in Jobs, index'[i] # None
         PROVE  \E e \in entries' : e.job = i /\ e.id = index'[i]
    <3>1. CASE i = j
      BY <2>3, <2>6, <2>7, <3>1
    <3>2. CASE i # j
      <4>1. index'[i] = index[i] /\ \A e \in gone : e.job # i
        BY <2>6, <2>10, <3>2
      <4>2. PICK e \in entries : e.job = i /\ e.id = index[i]
        BY <1>b, <2>10, <4>1 DEF IndexAgrees
      <4>3. e \in entries'
        BY <2>3, <4>1, <4>2
      <4> QED BY <4>1, <4>2, <4>3
    <3> QED BY <3>1, <3>2
  <2>11. IndexAgrees'
    BY <2>9, <2>10 DEF IndexAgrees
  <2>12. taken' = taken /\ state' = [state EXCEPT ![j] = "FAILED"]
    BY <1>1 DEF Add
  <2>13. \A c \in Clients : Out(c) => taken[c].job # j
    BY <1>1, <1>b DEF Add, DeadOrAlive
  <2>14. OneLetter'
    BY <1>b, <2>3, <2>4, <2>7, <2>12 DEF OneLetter, Out
  <2>15. \A i \in Jobs : state'[i] = IF i = j THEN "FAILED" ELSE state[i]
    BY <2>12 DEF TypeOK
  <2>16. DeadOrAlive'
    BY <1>a, <1>b, <2>3, <2>7, <2>12, <2>13, <2>15 DEF DeadOrAlive, Out
  <2> QED BY <2>11, <2>14, <2>16 DEF Placed
<1>2. ASSUME NEW e \in entries, Remove(e)
      PROVE  /\ IndexAgrees'
             /\ \A f, g \in entries' : f.job = g.job => f = g
             /\ \A f \in entries' : f.job # e.job
  BY <1>2, <1>b, RemovalPlaced DEF Remove
<1>3. ASSUME NEW j \in Jobs, SubmitReturned(j) PROVE Placed'
  <2>1. \A i \in Jobs : state'[i] = IF i = j THEN "SCHEDULED" ELSE state[i]
    BY <1>3 DEF SubmitReturned, TypeOK
  <2> QED BY <1>3, <1>a, <1>b, <2>1
          DEF SubmitReturned, Placed, OneLetter, IndexAgrees, DeadOrAlive, Out
<1>4. ASSUME NEW e \in entries, Discard(e) \/ Resolve(e) PROVE Placed'
  BY <1>4, <1>2, <1>b DEF Discard, Resolve, Remove, Placed, OneLetter, DeadOrAlive, Out
<1>5. ASSUME NEW e \in entries, ResolveKeep(e) PROVE Placed'
  <2> DEFINE kept == [e EXCEPT !.status = "RESOLVED"]
  <2>1. kept.job = e.job /\ kept.id = e.id /\ kept.status = "RESOLVED"
    BY DEF TypeOK, Entry
  <2>2. entries' = (entries \ {e}) \cup {kept} /\ UNCHANGED <<index, state, taken>>
    BY <1>5 DEF ResolveKeep
  <2> HIDE DEF kept
  <2>3. OneLetter'
    BY <1>b, <2>1, <2>2 DEF OneLetter, Out
  <2>4. IndexAgrees'
    <3>1. \A f \in entries' : index'[f.job] = f.id
      BY <1>b, <2>1, <2>2 DEF IndexAgrees
    <3>2. ASSUME NEW j \in Jobs, index'[j] # None
          PROVE  \E f \in entries' : f.job = j /\ f.id = index'[j]
      <4>1. PICK f \in entries : f.job = j /\ f.id = index[j]
        BY <1>b, <2>2, <3>2 DEF IndexAgrees
      <4> QED BY <2>1, <2>2, <4>1
    <3> QED BY <3>1, <3>2 DEF IndexAgrees
  <2>5. DeadOrAlive'
    BY <1>b, <2>1, <2>2 DEF DeadOrAlive, Out
  <2> QED BY <2>3, <2>4, <2>5 DEF Placed
<1>6. ASSUME NEW e \in entries, RequeueReturn(e) PROVE Placed'
  <2>1. \A i \in Jobs : state'[i] = IF i = e.job THEN "PENDING" ELSE state[i]
    BY <1>6 DEF RequeueReturn, TypeOK
  <2>2. taken' = taken /\ Remove(e) /\ entries' \subseteq entries
    BY <1>6 DEF RequeueReturn, Remove
  <2>3. DeadOrAlive'
    BY <1>2, <1>a, <1>b, <2>1, <2>2 DEF DeadOrAlive, Out
  <2> QED BY <1>2, <1>b, <2>2, <2>3 DEF Placed, OneLetter, Out
<1>7. ASSUME NEW e \in entries, NEW c \in Clients, RequeueTake(c, e) PROVE Placed'
  <2> DEFINE out == [e EXCEPT !.status = "REQUEUED"]
  <2>1. out.job = e.job /\ out.status = "REQUEUED"
    BY DEF TypeOK, Entry
  <2>2. /\ \A i \in Jobs : state'[i] = IF i = e.job THEN "PENDING" ELSE state[i]
        /\ \A d \in Clients : taken'[d] = IF d = c THEN out ELSE taken[d]
        /\ entries' \subseteq entries
    BY <1>7 DEF RequeueTake, TypeOK
  <2>3. /\ IndexAgrees'
        /\ \A f, g \in entries' : f.job = g.job => f = g
        /\ \A f \in entries' : f.job # e.job
    BY <1>7, <1>b, RemovalPlaced DEF RequeueTake
  <2> HIDE DEF out
  <2>4. OneLetter'
    BY <1>b, <2>1, <2>2, <2>3 DEF OneLetter, Out
  <2>5. DeadOrAlive'
    <3>1. \A f \in entries' : state'[f.job] # "SCHEDULED" /\
             (f.status = "PENDING" => state'[f.job] = "FAILED")
      BY <1>a, <1>b, <2>2, <2>3 DEF DeadOrAlive
    <3>2. \A d \in Clients : Out(d) => taken[d].job # e.job
      BY <1>b DEF DeadOrAlive
    <3>3. ASSUME NEW d \in Clients, Out(d)'
          PROVE  /\ state'[taken'[d].job] = "PENDING"
                 /\ \A f \in entries' : f.job # taken'[d].job
                 /\ \A g \in Clients : Out(g)' /\ taken'[g].job = taken'[d].job => d = g
      <4>1. CASE d = c
        <5>1. taken'[d].job = e.job
          BY <2>1, <2>2, <4>1
        <5>2. \A g \in Clients : Out(g)' /\ taken'[g].job = e.job => d = g
          BY <2>2, <3>2, <4>1 DEF Out
        <5> QED BY <1>a, <2>2, <2>3, <5>1, <5>2
      <4>2. CASE d # c
        <5>1. taken'[d] = taken[d] /\ Out(d) /\ taken[d].job # e.job
          BY <2>2, <3>2, <3>3, <4>2 DEF Out
        <5>2. \A g \in Clients : Out(g)' /\ taken'[g].job = taken[d].job => d = g
          BY <1>b, <2>1, <2>2, <5>1 DEF Out, DeadOrAlive
        <5> QED BY <1>a, <1>b, <2>2, <5>1, <5>2 DEF DeadOrAlive
      <4> QED BY <4>1, <4>2
    <3> QED BY <3>1, <3>3 DEF DeadOrAlive
  <2> QED BY <2>3, <2>4, <2>5 DEF Placed
<1>8. ASSUME NEW c \in Clients, RequeueAccepted(c) PROVE Placed'
  <2>1. Out(c) /\ UNCHANGED <<entries, index>>
    BY <1>8 DEF RequeueAccepted
  <2>2. /\ \A i \in Jobs : state'[i] = IF i = taken[c].job THEN "SCHEDULED" ELSE state[i]
        /\ \A d \in Clients : taken'[d] = IF d = c THEN NoEntry ELSE taken[d]
    BY <1>8 DEF RequeueAccepted, TypeOK
  <2> QED BY <1>a, <1>b, <2>1, <2>2 DEF Placed, OneLetter, IndexAgrees, DeadOrAlive, Out
<1>9. ASSUME NEW c \in Clients, RequeueRefused(c) PROVE Placed'
  <2>1. /\ Out(c)
        /\ entries' = entries \cup {taken[c]}
        /\ state' = state
        /\ \A i \in Jobs : index'[i] = IF i = taken[c].job THEN taken[c].id ELSE index[i]
        /\ \A d \in Clients : taken'[d] = IF d = c THEN NoEntry ELSE taken[d]
    BY <1>9 DEF RequeueRefused, TypeOK
  <2>2. \A e \in entries : e.job # taken[c].job
    BY <1>b, <2>1 DEF DeadOrAlive
  <2>3. OneLetter'
    BY <1>b, <2>1, <2>2 DEF OneLetter, Out
  <2>4. IndexAgrees'
    <3>1. \A e \in entries' : index'[e.job] = e.id
      BY <1>a, <1>b, <2>1, <2>2 DEF IndexAgrees
    <3>2. ASSUME NEW j \in Jobs, index'[j] # None
          PROVE  \E e \in entries' : e.job = j /\ e.id = index'[j]
      BY <1>b, <2>1, <3>2 DEF IndexAgrees
    <3> QED BY <3>1, <3>2 DEF IndexAgrees
  <2>5. DeadOrAlive'
    BY <1>a, <1>b, <2>1, <2>2 DEF OneLetter, DeadOrAlive, Out
  <2> QED BY <2>3, <2>4, <2>5 DEF Placed
<1>10. ASSUME CleanupExpired PROVE Placed'
  <2>1. PICK expired \in Expirable(entries) :
          /\ entries' = entries \ expired
          /\ index' = Without(index, expired)
          /\ UNCHANGED <<nextId, state, taken>>
    BY <1>10 DEF CleanupExpired
  <2>2. expired \subseteq entries
    BY DEF Expirable
  <2>3. IndexAgrees' /\ \A f, g \in entries' : f.job = g.job => f = g
    BY <1>b, <2>1, <2>2, RemovalPlaced
  <2> QED BY <1>b, <2>1, <2>3 DEF Placed, OneLetter, DeadOrAlive, Out
<1>11. CASE UNCHANGED vars
  BY <1>11, <1>b DEF vars, Placed, OneLetter, IndexAgrees, DeadOrAlive, Out
<1> QED BY <1>1, <1>3, <1>4, <1>5, <1>6, <1>7, <1>8, <1>9, <1>10, <1>11 DEF Next

(* The entries and the index by job agree, for any sequence of operations. *)
THEOREM TheIndexAgrees == Spec => []IndexAgrees
<1>1. Placed => IndexAgrees
  BY DEF Placed
<1> QED BY <1>1, InitTypes, StepTypes, InitPlaced, StepPlaced, PTL DEF Spec

(* A job with a dead letter is in no scheduler, and no two calls of        *)
(* requeue() submit the same job.                                          *)
THEOREM NoJobIsDeadAndAlive == Spec => []DeadOrAlive
<1>1. Placed => DeadOrAlive
  BY DEF Placed
<1> QED BY <1>1, InitTypes, StepTypes, InitPlaced, StepPlaced, PTL DEF Spec

-----------------------------------------------------------------------------
LEMMA StepAccounted == TypeOK /\ LettersAccounted /\ [Next]_vars => LettersAccounted'
<1> SUFFICES ASSUME TypeOK, LettersAccounted, [Next]_vars PROVE LettersAccounted'
  OBVIOUS
<1> DEFINE Held == {taken[c].id : c \in {d \in Clients : Out(d)}}
<1>a. 1 .. nextId - 1 = Ids(entries) \cup ended \cup Held
  BY DEF LettersAccounted
<1> DEFINE Goal == 1 .. nextId' - 1 = Ids(entries') \cup ended' \cup Held'
<1>b. SUFFICES Goal
  BY DEF LettersAccounted, Ids
<1>1. ASSUME NEW j \in Jobs, Add(j) PROVE Goal
  <2> DEFINE new == [id |-> nextId, job |-> j, status |-> "PENDING"]
  <2>1. PICK expired \in Expirable(entries \ Evicted) :
          /\ entries' = ((entries \ Evicted) \ expired) \cup {new}
          /\ ended' = ended \cup Ids(Evicted \cup expired)
    BY <1>1 DEF Add
  <2>2. Evicted \subseteq entries /\ expired \subseteq entries
    BY DEF Evicted, Expirable
  <2>3. new.id = nextId
    OBVIOUS
  <2> HIDE DEF new
  <2>4. Ids(entries') \cup ended' = Ids(entries) \cup ended \cup {nextId}
    BY <2>1, <2>2, <2>3 DEF Ids
  <2>5. nextId' = nextId + 1 /\ Held' = Held /\ nextId \in Nat \ {0}
    BY <1>1 DEF Add, Out, TypeOK
  <2>6. 1 .. nextId' - 1 = (1 .. nextId - 1) \cup {nextId}
    <3>1. 1 <= nextId
      BY DEF TypeOK
    <3> QED BY <2>5, <3>1
  <2> QED BY <1>a, <2>4, <2>5, <2>6
<1>2. ASSUME NEW e \in entries, Remove(e)
      PROVE  Ids(entries') \cup ended' = Ids(entries) \cup ended
  BY <1>2 DEF Remove, Ids
<1>3. ASSUME UNCHANGED <<entries, nextId, taken, ended>> PROVE Goal
  BY <1>3, <1>a DEF Out, Ids
<1>4. ASSUME NEW e \in entries, Discard(e) \/ Resolve(e) \/ RequeueReturn(e) PROVE Goal
  <2>1. Remove(e) /\ nextId' = nextId /\ Held' = Held
    BY <1>4 DEF Discard, Resolve, RequeueReturn, Out
  <2> QED BY <1>a, <1>2, <2>1
<1>5. ASSUME NEW e \in entries, ResolveKeep(e) PROVE Goal
  <2>1. [e EXCEPT !.status = "RESOLVED"].id = e.id
    BY DEF TypeOK, Entry
  <2>2. Ids(entries') = Ids(entries)
    BY <1>5, <2>1 DEF ResolveKeep, Ids
  <2>3. nextId' = nextId /\ ended' = ended /\ Held' = Held
    BY <1>5 DEF ResolveKeep, Out
  <2> QED BY <1>a, <2>2, <2>3
<1>6. ASSUME NEW e \in entries, NEW c \in Clients, RequeueTake(c, e) PROVE Goal
  <2> DEFINE out == [e EXCEPT !.status = "REQUEUED"]
  <2>1. out.id = e.id /\ out # NoEntry
    BY DEF TypeOK, Entry, NoEntry
  <2>2. \A d \in Clients : taken'[d] = IF d = c THEN out ELSE taken[d]
    BY <1>6 DEF RequeueTake, TypeOK
  <2> HIDE DEF out
  <2>3. Held' = Held \cup {e.id}
    BY <1>6, <2>1, <2>2 DEF RequeueTake, Out
  <2>4. Ids(entries') \cup {e.id} = Ids(entries)
    BY <1>6 DEF RequeueTake, Ids
  <2>5. nextId' = nextId /\ ended' = ended
    BY <1>6 DEF RequeueTake
  <2> QED BY <1>a, <2>3, <2>4, <2>5
<1>7. ASSUME NEW c \in Clients, RequeueAccepted(c) \/ RequeueRefused(c) PROVE Goal
  <2>1. \A d \in Clients : taken'[d] = IF d = c THEN NoEntry ELSE taken[d]
    BY <1>7 DEF RequeueAccepted, RequeueRefused, TypeOK
  <2>2. Held' \cup {taken[c].id} = Held
    BY <1>7, <2>1 DEF RequeueAccepted, RequeueRefused, Out
  <2>3. nextId' = nextId
    BY <1>7 DEF RequeueAccepted, RequeueRefused
  <2>4. Ids(entries') \cup ended' = Ids(entries) \cup ended \cup {taken[c].id}
    BY <1>7 DEF RequeueAccepted, RequeueRefused, Ids
  <2> QED BY <1>a, <2>2, <2>3, <2>4
<1>8. ASSUME CleanupExpired PROVE Goal
  <2>1. PICK expired \in Expirable(entries) :
          /\ entries' = entries \ expired
          /\ ended' = ended \cup Ids(expired)
          /\ UNCHANGED <<nextId, state, taken>>
    BY <1>8 DEF CleanupExpired
  <2>2. Ids(entries') \cup ended' = Ids(entries) \cup ended
    BY <2>1 DEF Expirable, Ids
  <2>3. nextId' = nextId /\ Held' = Held
    BY <2>1 DEF Out
  <2> QED BY <1>a, <2>2, <2>3
<1>9. ASSUME NEW j \in Jobs, SubmitReturned(j) PROVE Goal
  BY <1>3, <1>9 DEF SubmitReturned
<1>10. CASE UNCHANGED vars
  BY <1>3, <1>10 DEF vars
<1> HIDE DEF Goal
<1> QED BY <1>1, <1>4, <1>5, <1>6, <1>7, <1>8, <1>9, <1>10 DEF Next

(* No dead letter gets lost, whatever calls of requeue() fail. *)
THEOREM AllLettersAccounted == Spec => []LettersAccounted
<1>1. Init => LettersAccounted
  BY DEF Init, LettersAccounted, Ids, Out
<1> QED BY <1>1, InitTypes, StepTypes, StepAccounted, PTL DEF Spec

-----------------------------------------------------------------------------
(* A nonempty set of letters has an oldest one, so a full queue evicts.    *)
LEMMA OldestExists ==
    ASSUME NEW S \in SUBSET Entry, S # {}
    PROVE  \E e \in S : \A f \in S : e.id <= f.id
<1>1. Ids(S) \subseteq Nat /\ Ids(S) # {}
  BY DEF Ids, Entry
<1>2. PICK m \in Ids(S) : \A k \in Ids(S) : ~ (<<k, m>> \in OpToRel(<, Nat))
  BY <1>1, NatLessThanWellFounded, WFMin
<1>3. ASSUME NEW k \in Ids(S) PROVE m <= k
  <2>1. ~ (k < m)
    <3> SUFFICES ASSUME k < m PROVE <<k, m>> \in OpToRel(<, Nat)
      BY <1>2
    <3>1. <<k, m>> \in Nat \X Nat /\ <<k, m>>[1] < <<k, m>>[2]
      BY <1>1
    <3> QED BY <3>1, Zenon DEF OpToRel
  <2> QED BY <1>1, <2>1
<1>4. PICK e \in S : e.id = m
  BY DEF Ids
<1> QED BY <1>3, <1>4 DEF Ids

Idle == {c \in Clients : ~Out(c)}

(* The set of letters is finite, and within its bound. *)
Bounded == IsFiniteSet(entries) /\ SizeBounded

LEMMA OneMore ==
    ASSUME NEW S, NEW x, IsFiniteSet(S)
    PROVE  /\ IsFiniteSet(S \cup {x})
           /\ Cardinality(S \cup {x}) \in Nat
           /\ Cardinality(S \cup {x}) <= Cardinality(S) + 1
<1>1. IsFiniteSet(S \cup {x}) /\ Cardinality(S) \in Nat
  BY FS_AddElement, FS_CardinalityType
<1>2. Cardinality(S \cup {x}) = Cardinality(S) \/ Cardinality(S \cup {x}) = Cardinality(S) + 1
  BY FS_AddElement
<1> QED BY <1>1, <1>2

LEMMA OneForAnother ==
    ASSUME NEW S, NEW x \in S, NEW y, IsFiniteSet(S)
    PROVE  /\ IsFiniteSet((S \ {x}) \cup {y})
           /\ Cardinality((S \ {x}) \cup {y}) \in Nat
           /\ Cardinality((S \ {x}) \cup {y}) <= Cardinality(S)
<1> DEFINE T == S \ {x}
           U == T \cup {y}
<1>1. IsFiniteSet(T) /\ Cardinality(T) = Cardinality(S) - 1
  BY FS_RemoveElement
<1> HIDE DEF T
<1>2. IsFiniteSet(U) /\ Cardinality(U) \in Nat /\ Cardinality(U) <= Cardinality(T) + 1
  BY <1>1, OneMore
<1> HIDE DEF U
<1>3. Cardinality(U) <= Cardinality(S)
  BY <1>1, <1>2, FS_CardinalityType
<1> QED BY <1>2, <1>3 DEF U, T

LEMMA FewerLetters ==
    ASSUME TypeOK, Bounded, IsFiniteSet(entries'),
           Cardinality(entries') <= Cardinality(entries),
           Idle \subseteq Idle'
    PROVE  Bounded'
<1>1. IsFiniteSet(Idle) /\ IsFiniteSet(Idle')
  BY DeadLetterAssumption, FS_Subset DEF Idle
<1>2. Cardinality(Idle) <= Cardinality(Idle')
  BY <1>1, FS_Subset
<1>3. /\ Cardinality(entries) \in Nat /\ Cardinality(entries') \in Nat
      /\ Cardinality(Idle) \in Nat /\ Cardinality(Idle') \in Nat
  BY <1>1, FS_CardinalityType DEF Bounded
<1>4. MaxEntries # 0 => Cardinality(entries') <= MaxEntries + Cardinality(Idle')
  BY <1>2, <1>3, DeadLetterAssumption DEF Bounded, SizeBounded, Idle
<1> QED BY <1>4 DEF Bounded, SizeBounded, Idle

LEMMA StepBounded == TypeOK /\ Bounded /\ [Next]_vars => Bounded'
<1> SUFFICES ASSUME TypeOK, Bounded, [Next]_vars PROVE Bounded'
  OBVIOUS
<1>a. IsFiniteSet(entries) /\ Cardinality(entries) \in Nat
  BY FS_CardinalityType DEF Bounded
<1>b. IsFiniteSet(Idle) /\ Cardinality(Idle) \in Nat
  BY DeadLetterAssumption, FS_Subset, FS_CardinalityType DEF Idle
<1>1. ASSUME NEW j \in Jobs, Add(j) PROVE Bounded'
  <2> DEFINE new == [id |-> nextId, job |-> j, status |-> "PENDING"]
  <2>1. PICK expired \in Expirable(entries \ Evicted) :
          entries' = ((entries \ Evicted) \ expired) \cup {new}
    BY <1>1 DEF Add
  <2> HIDE DEF new
  <2>2. Idle' = Idle
    BY <1>1 DEF Add, Idle, Out
  <2>3. IsFiniteSet(entries')
    BY <1>a, <2>1, FS_Difference, FS_AddElement
  <2>4. CASE Full
    <3>1. entries # {}
      BY <1>a, <2>4, FS_EmptySet, DeadLetterAssumption DEF Full
    <3>2. PICK e \in entries : e \in Evicted
      BY <2>4, <3>1, OldestExists DEF Evicted, TypeOK
    <3>3. entries' \subseteq (entries \ {e}) \cup {new}
      BY <2>1, <3>2
    <3>5. /\ IsFiniteSet((entries \ {e}) \cup {new})
          /\ Cardinality((entries \ {e}) \cup {new}) \in Nat
          /\ Cardinality((entries \ {e}) \cup {new}) <= Cardinality(entries)
      BY <1>a, OneForAnother
    <3>6. Cardinality(entries') <= Cardinality((entries \ {e}) \cup {new})
      BY <3>3, <3>5, FS_Subset
    <3>7. Cardinality(entries') <= Cardinality(entries)
      BY <1>a, <2>3, <3>5, <3>6, FS_CardinalityType
    <3> QED BY <2>2, <2>3, <3>7, FewerLetters
  <2>5. CASE ~Full
    <3>1. entries' \subseteq entries \cup {new}
      BY <2>1
    <3>2. /\ IsFiniteSet(entries \cup {new})
          /\ Cardinality(entries \cup {new}) \in Nat
          /\ Cardinality(entries \cup {new}) <= Cardinality(entries) + 1
      BY <1>a, OneMore
    <3>3. Cardinality(entries') <= Cardinality(entries \cup {new})
      BY <3>1, <3>2, FS_Subset
    <3>4. MaxEntries # 0 => Cardinality(entries') <= MaxEntries
      BY <1>a, <2>3, <2>5, <3>2, <3>3, FS_CardinalityType, DeadLetterAssumption DEF Full
    <3>5. MaxEntries # 0 => Cardinality(entries') <= MaxEntries + Cardinality(Idle')
      BY <1>b, <2>2, <2>3, <3>4, FS_CardinalityType, DeadLetterAssumption
    <3> QED BY <2>3, <3>5 DEF Bounded, SizeBounded, Idle
  <2> QED BY <2>4, <2>5
<1>2. ASSUME entries' \subseteq entries, Idle \subseteq Idle' PROVE Bounded'
  BY <1>2, <1>a, FS_Subset, FewerLetters
<1>3. ASSUME NEW j \in Jobs, SubmitReturned(j) PROVE Bounded'
  BY <1>2, <1>3 DEF SubmitReturned, Idle, Out
<1>4. ASSUME NEW e \in entries, Discard(e) \/ Resolve(e) \/ RequeueReturn(e) PROVE Bounded'
  BY <1>2, <1>4 DEF Discard, Resolve, RequeueReturn, Remove, Idle, Out
<1>5. ASSUME NEW e \in entries, ResolveKeep(e) PROVE Bounded'
  <2> DEFINE kept == [e EXCEPT !.status = "RESOLVED"]
  <2>1. entries' = (entries \ {e}) \cup {kept} /\ Idle' = Idle
    BY <1>5 DEF ResolveKeep, Idle, Out
  <2> HIDE DEF kept
  <2>3. /\ IsFiniteSet(entries')
        /\ Cardinality(entries') <= Cardinality(entries)
    BY <1>a, <2>1, OneForAnother
  <2> QED BY <2>1, <2>3, FewerLetters
<1>6. ASSUME NEW e \in entries, NEW c \in Clients, RequeueTake(c, e) PROVE Bounded'
  <2>1. [e EXCEPT !.status = "REQUEUED"] # NoEntry
    BY DEF TypeOK, Entry, NoEntry
  <2>2. Idle' = Idle \ {c} /\ c \in Idle
    BY <1>6, <2>1 DEF RequeueTake, Idle, Out, TypeOK
  <2>3. Cardinality(Idle') = Cardinality(Idle) - 1
    BY <1>b, <2>2, FS_RemoveElement
  <2>4. /\ IsFiniteSet(entries')
        /\ Cardinality(entries') = Cardinality(entries) - 1
    BY <1>6, <1>a, FS_RemoveElement DEF RequeueTake
  <2>5. MaxEntries # 0 => Cardinality(entries') <= MaxEntries + Cardinality(Idle')
    BY <1>a, <1>b, <2>3, <2>4, DeadLetterAssumption DEF Bounded, SizeBounded, Idle
  <2> QED BY <2>4, <2>5 DEF Bounded, SizeBounded, Idle
<1>7. ASSUME NEW c \in Clients, RequeueAccepted(c) PROVE Bounded'
  <2>1. Idle \subseteq Idle'
    BY <1>7 DEF RequeueAccepted, Idle, Out, TypeOK
  <2> QED BY <1>2, <1>7, <2>1 DEF RequeueAccepted
<1>8. ASSUME NEW c \in Clients, RequeueRefused(c) PROVE Bounded'
  <2>1. Idle' = Idle \cup {c} /\ c \notin Idle
    BY <1>8 DEF RequeueRefused, Idle, Out, TypeOK
  <2>2. Cardinality(Idle') = Cardinality(Idle) + 1
    BY <1>b, <2>1, FS_AddElement
  <2>3. /\ IsFiniteSet(entries')
        /\ Cardinality(entries') <= Cardinality(entries) + 1
    BY <1>8, <1>a, OneMore DEF RequeueRefused
  <2>4. Cardinality(entries') \in Nat
    BY <2>3, FS_CardinalityType
  <2>5. MaxEntries # 0 => Cardinality(entries') <= MaxEntries + Cardinality(Idle')
    BY <1>a, <1>b, <2>2, <2>3, <2>4, DeadLetterAssumption DEF Bounded, SizeBounded, Idle
  <2> QED BY <2>3, <2>5 DEF Bounded, SizeBounded, Idle
<1>9. ASSUME CleanupExpired PROVE Bounded'
  BY <1>2, <1>9 DEF CleanupExpired, Idle, Out
<1>10. CASE UNCHANGED vars
  BY <1>2, <1>10 DEF vars, Idle, Out
<1> QED BY <1>1, <1>3, <1>4, <1>5, <1>6, <1>7, <1>8, <1>9, <1>10 DEF Next

(* The queue exceeds max_entries by no more than the letters that refused  *)
(* requeues put back, one for each client.                                 *)
THEOREM SizeIsBounded == Spec => []SizeBounded
<1>1. Init => Bounded
  <2>1. IsFiniteSet({c \in Clients : ~Out(c)})
    BY DeadLetterAssumption, FS_Subset
  <2> QED BY <2>1, FS_EmptySet, FS_CardinalityType, DeadLetterAssumption
          DEF Init, Bounded, SizeBounded
<1>2. Bounded => SizeBounded
  BY DEF Bounded
<1> QED BY <1>1, <1>2, InitTypes, StepTypes, StepBounded, PTL DEF Spec
=============================================================================
