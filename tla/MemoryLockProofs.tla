--------------------------- MODULE MemoryLockProofs ---------------------------
(***************************************************************************)
(* Proofs about MemoryLock, for any clients, owners, leases and timeouts.  *)
(***************************************************************************)
EXTENDS MemoryLock, TLAPS

Given == [left : -1 .. Forever, ended : {"no", "late", "released", "forced"}]

Entered == [owner : Owners, left : -1 .. Forever]

(* A lease that left the table late had run out. *)
LateIsOver == \A c \in Clients : lease[c].ended = "late" => lease[c].left = -1

Inv == TypeOK /\ LateIsOver

-----------------------------------------------------------------------------
LEMMA LeaseFields ==
    ASSUME NEW l \in Given \cup {Blank}
    PROVE  /\ l.left \in -1 .. Forever
           /\ l.ended \in {"no", "late", "released", "forced", "none"}
           /\ l.ended = "none" <=> l = Blank
           /\ l = Blank => l.left = -1
BY MemoryLockAssumption DEF Given, Blank, Forever

LEMMA TableFields ==
    ASSUME TypeOK
    PROVE  /\ Held => table \in Entered /\ table.owner \in Owners /\ table.left \in -1 .. Forever
           /\ ~Held => table.owner = None /\ table.left = -1
           /\ \A c \in Clients : Linked(c) =>
                 Held /\ table.owner = Owner[c] /\ table.left = lease[c].left
BY MemoryLockAssumption DEF TypeOK, Held, Free, Entered

LEMMA UntilType == \A ttl \in 0 .. MaxTtl : Until(ttl) \in 0 .. Forever
BY MemoryLockAssumption DEF Until, Forever

LEMMA PassedType ==
    \A l \in -1 .. Forever : Passed(l) \in -1 .. Forever /\ (l = -1 => Passed(l) = -1)
BY MemoryLockAssumption DEF Passed, Forever

(* What ending the entry does to the leases. *)
LEMMA EndedLeases ==
    ASSUME Inv, NEW how \in {"late", "released", "forced"}, how = "late" => (Held => Expired)
    PROVE  /\ Ended(how) \in [Clients -> Given \cup {Blank}]
           /\ \A c \in Clients :
                 /\ Ended(how)[c].ended # "no"
                 /\ Ended(how)[c].ended = "late" => Ended(how)[c].left = -1
                 /\ Ended(how)[c].left = lease[c].left
                 /\ Ended(how)[c] = Blank <=> lease[c] = Blank
                 /\ ~Linked(c) => Ended(how)[c] = lease[c]
                 /\ Linked(c) /\ how # "late" /\ ~Expired => Ended(how)[c].ended = how
<1> DEFINE E == Ended(how)
<1>1. E = [c \in Clients |->
             IF Linked(c) THEN [lease[c] EXCEPT !.ended = IF Expired THEN "late" ELSE how]
             ELSE lease[c]]
  BY DEF Ended
<1>2. lease \in [Clients -> Given \cup {Blank}]
  BY DEF Inv, TypeOK, Given
<1>3. ASSUME NEW c \in Clients
      PROVE  /\ E[c] \in Given \cup {Blank}
             /\ E[c].ended # "no"
             /\ E[c].ended = "late" => E[c].left = -1
             /\ E[c].left = lease[c].left
             /\ E[c] = Blank <=> lease[c] = Blank
             /\ ~Linked(c) => E[c] = lease[c]
             /\ Linked(c) /\ how # "late" /\ ~Expired => E[c].ended = how
  <2>1. CASE Linked(c)
    <3>1. lease[c] \in Given /\ lease[c] # Blank
      BY <1>2, <2>1 DEF Linked, Blank
    <3>2. E[c] = [lease[c] EXCEPT !.ended = IF Expired THEN "late" ELSE how]
      BY <1>1, <2>1
    <3>3. /\ E[c] \in Given /\ E[c].left = lease[c].left
          /\ E[c].ended = IF Expired THEN "late" ELSE how
      BY <3>1, <3>2 DEF Given
    <3>4. Held /\ table.left = lease[c].left /\ table.left \in -1 .. Forever
      BY <2>1, TableFields DEF Inv
    <3>5. Expired => lease[c].left = -1
      BY <3>4 DEF Expired
    <3>6. E[c] # Blank
      BY <3>3, LeaseFields
    <3> QED BY <2>1, <3>1, <3>3, <3>4, <3>5, <3>6
  <2>2. CASE ~Linked(c)
    <3>1. E[c] = lease[c]
      BY <1>1, <2>2
    <3> QED BY <1>2, <2>2, <3>1 DEF Inv, LateIsOver, Linked
  <2> QED BY <2>1, <2>2
<1> QED BY <1>1, <1>3

(* What writing the expiry of the entry does to the leases. *)
LEMMA RenewedLeases ==
    ASSUME Inv, NEW left \in -1 .. Forever
    PROVE  /\ Renewed(left) \in [Clients -> Given \cup {Blank}]
           /\ \A c \in Clients :
                 /\ Renewed(left)[c].ended = lease[c].ended
                 /\ Renewed(left)[c] = Blank <=> lease[c] = Blank
                 /\ Renewed(left)[c].left = IF Linked(c) THEN left ELSE lease[c].left
<1> DEFINE E == Renewed(left)
<1>1. E = [c \in Clients |-> IF Linked(c) THEN [lease[c] EXCEPT !.left = left] ELSE lease[c]]
  BY DEF Renewed
<1>2. lease \in [Clients -> Given \cup {Blank}]
  BY DEF Inv, TypeOK, Given
<1>3. ASSUME NEW c \in Clients
      PROVE  /\ E[c] \in Given \cup {Blank}
             /\ E[c].ended = lease[c].ended
             /\ E[c] = Blank <=> lease[c] = Blank
             /\ E[c].left = IF Linked(c) THEN left ELSE lease[c].left
  <2>1. CASE Linked(c)
    <3>1. lease[c] \in Given /\ lease[c] # Blank
      BY <1>2, <2>1 DEF Linked, Blank
    <3>2. E[c] = [lease[c] EXCEPT !.left = left]
      BY <1>1, <2>1
    <3>3. E[c] \in Given /\ E[c].left = left /\ E[c].ended = lease[c].ended
      BY <3>1, <3>2 DEF Given
    <3>4. E[c] # Blank
      BY <3>1, <3>3 DEF Given, Blank
    <3> QED BY <2>1, <3>1, <3>3, <3>4
  <2>2. CASE ~Linked(c)
    BY <1>1, <1>2, <2>2
  <2> QED BY <2>1, <2>2
<1> QED BY <1>1, <1>3

(* What it takes to be in the invariant after a step. *)
LEMMA NextInv ==
    ASSUME table' \in Entered \cup {Free},
           pc' \in [Clients -> {"out", "try", "wait", "in"}],
           patience' \in [Clients -> 0 .. MaxTimeout],
           lease' \in [Clients -> Given \cup {Blank}],
           \A c \in Clients :
              /\ lease'[c] = Blank <=> pc'[c] # "in"
              /\ lease'[c].ended = "no" => table' = [owner |-> Owner[c], left |-> lease'[c].left]
              /\ lease'[c].ended = "late" => lease'[c].left = -1
    PROVE  Inv'
BY DEF Inv, TypeOK, LateIsOver, Given, Entered, Linked

LEMMA InitInv == Init => Inv
<1> SUFFICES ASSUME Init PROVE Inv
  OBVIOUS
<1>1. TypeOK
  BY MemoryLockAssumption DEF Init, TypeOK, Blank, Linked, Free
<1>2. LateIsOver
  BY DEF Init, LateIsOver, Blank
<1> QED BY <1>1, <1>2 DEF Inv

LEMMA StepInv == Inv /\ [Next]_vars => Inv'
<1> SUFFICES ASSUME Inv, [Next]_vars PROVE Inv'
  OBVIOUS
<1>a. /\ table \in Entered \cup {Free}
      /\ pc \in [Clients -> {"out", "try", "wait", "in"}]
      /\ patience \in [Clients -> 0 .. MaxTimeout]
      /\ lease \in [Clients -> Given \cup {Blank}]
      /\ \A c \in Clients :
            /\ lease[c] = Blank <=> pc[c] # "in"
            /\ lease[c].ended = "no" => table = [owner |-> Owner[c], left |-> lease[c].left]
            /\ lease[c].ended = "late" => lease[c].left = -1
  BY DEF Inv, TypeOK, LateIsOver, Given, Entered, Linked
<1>b. 0 \in 0 .. MaxTimeout /\ -1 \in -1 .. Forever
  BY MemoryLockAssumption DEF Forever
<1>1. ASSUME Tick PROVE Inv'
  <2>1. table' = IF Held THEN [table EXCEPT !.left = Passed(@)] ELSE table
    BY <1>1 DEF Tick
  <2>2. table' \in Entered \cup {Free}
    BY <1>a, <2>1, TableFields, PassedType DEF Inv, Entered
  <2>3. ASSUME NEW c \in Clients
        PROVE  /\ lease'[c] \in Given \cup {Blank}
               /\ lease'[c] = Blank <=> lease[c] = Blank
               /\ lease'[c].ended = lease[c].ended
               /\ lease'[c].left = Passed(lease[c].left)
    <3>1. lease'[c] = [lease[c] EXCEPT !.left = Passed(@)]
      BY <1>1 DEF Tick
    <3>2. CASE lease[c] = Blank
      BY <1>b, <3>1, <3>2, PassedType DEF Blank
    <3>3. CASE lease[c] \in Given
      <4>1. Passed(lease[c].left) \in -1 .. Forever
        BY <3>3, PassedType DEF Given
      <4>2. /\ lease'[c] \in Given /\ lease'[c].ended = lease[c].ended
            /\ lease'[c].left = Passed(lease[c].left)
        BY <3>1, <3>3, <4>1 DEF Given
      <4>3. lease'[c] # Blank /\ lease[c] # Blank
        BY <3>3, <4>2 DEF Given, Blank
      <4> QED BY <4>2, <4>3
    <3> QED BY <1>a, <3>2, <3>3
  <2>4. lease' \in [Clients -> Given \cup {Blank}]
    BY <1>1, <2>3 DEF Tick
  <2>5. ASSUME NEW c \in Clients, lease'[c].ended = "no"
        PROVE  table' = [owner |-> Owner[c], left |-> lease'[c].left]
    <3>1. Held /\ table = [owner |-> Owner[c], left |-> lease[c].left]
      BY <1>a, <2>3, <2>5, TableFields DEF Linked, Inv
    <3> QED BY <2>1, <2>3, <3>1
  <2>6. \A c \in Clients : lease'[c].ended = "late" => lease'[c].left = -1
    BY <1>a, <1>b, <2>3, PassedType
  <2>7. patience' \in [Clients -> 0 .. MaxTimeout]
    <3>1. patience' = [c \in Clients |-> IF patience[c] = 0 THEN 0 ELSE patience[c] - 1]
      BY <1>1 DEF Tick
    <3>2. \A c \in Clients :
             (IF patience[c] = 0 THEN 0 ELSE patience[c] - 1) \in 0 .. MaxTimeout
      <4> TAKE c \in Clients
      <4>1. patience[c] \in 0 .. MaxTimeout
        BY <1>a
      <4> QED BY <4>1, MemoryLockAssumption
    <3> QED BY <3>1, <3>2
  <2>8. pc' = pc
    BY <1>1 DEF Tick
  <2> QED BY <1>a, <2>2, <2>3, <2>4, <2>5, <2>6, <2>7, <2>8, NextInv
<1>2. ASSUME NEW c \in Clients, Call(c) \/ Refuse(c) \/ WaitEnd(c) PROVE Inv'
  <2>1. table' = table /\ lease' = lease /\ pc[c] # "in" /\ pc'[c] # "in"
    BY <1>2, <1>a DEF Call, Refuse, WaitEnd
  <2>2. \A d \in Clients : pc'[d] = "in" <=> pc[d] = "in"
    BY <1>2, <1>a, <2>1 DEF Call, Refuse, WaitEnd
  <2>3. /\ pc' \in [Clients -> {"out", "try", "wait", "in"}]
        /\ patience' \in [Clients -> 0 .. MaxTimeout]
    BY <1>2, <1>a DEF Call, Refuse, WaitEnd
  <2> QED BY <1>a, <2>1, <2>2, <2>3, NextInv
<1>3. ASSUME NEW c \in Clients, NEW until \in -1 .. Forever,
             pc[c] = "try", Obtain(c, until),
             NEW E \in [Clients -> Given \cup {Blank}],
             lease' = [E EXCEPT ![c] = [left |-> until, ended |-> "no"]],
             \A d \in Clients :
                /\ E[d] = Blank <=> lease[d] = Blank
                /\ E[d].ended = "no" => table' = [owner |-> Owner[d], left |-> E[d].left]
                /\ E[d].ended = "late" => E[d].left = -1
      PROVE  Inv'
  <2> DEFINE mine == [left |-> until, ended |-> "no"]
  <2>1. /\ mine \in Given /\ mine # Blank /\ mine.left = until /\ mine.ended = "no"
    BY DEF Given, Blank
  <2> HIDE DEF mine
  <2>2. lease' \in [Clients -> Given \cup {Blank}]
    BY <1>3, <2>1 DEF mine
  <2>3. \A d \in Clients : lease'[d] = IF d = c THEN mine ELSE E[d]
    BY <1>3 DEF mine
  <2>4. table' = [owner |-> Owner[c], left |-> until] /\ table' \in Entered
    BY <1>3, MemoryLockAssumption DEF Obtain, Entered
  <2>5. /\ \A d \in Clients : pc'[d] = IF d = c THEN "in" ELSE pc[d]
        /\ pc' \in [Clients -> {"out", "try", "wait", "in"}]
        /\ patience' \in [Clients -> 0 .. MaxTimeout]
    BY <1>3, <1>a, <1>b DEF Obtain
  <2>6. ASSUME NEW d \in Clients
        PROVE  /\ lease'[d] = Blank <=> pc'[d] # "in"
               /\ lease'[d].ended = "no" => table' = [owner |-> Owner[d], left |-> lease'[d].left]
               /\ lease'[d].ended = "late" => lease'[d].left = -1
    BY <1>3, <1>a, <2>1, <2>3, <2>4, <2>5
  <2> QED BY <2>2, <2>4, <2>5, <2>6, NextInv
<1>4. ASSUME NEW c \in Clients, Take(c) PROVE Inv'
  <2>1. PICK ttl \in 0 .. MaxTtl :
          /\ Obtain(c, Until(ttl))
          /\ lease' = [Ended("late") EXCEPT ![c] = [left |-> Until(ttl), ended |-> "no"]]
    BY <1>4 DEF Take
  <2>2. Until(ttl) \in -1 .. Forever
    BY UntilType
  <2>3. Held => Expired
    BY <1>4 DEF Take
  <2> QED BY <1>3, <1>4, <2>1, <2>2, <2>3, EndedLeases DEF Take
<1>5. ASSUME NEW c \in Clients, Reenter(c) PROVE Inv'
  <2>1. PICK ttl \in 0 .. MaxTtl :
          LET left == IF ttl = 0 THEN table.left ELSE ttl
          IN  /\ Obtain(c, left)
              /\ lease' = [Renewed(left) EXCEPT ![c] = [left |-> left, ended |-> "no"]]
    BY <1>5 DEF Reenter
  <2> DEFINE left == IF ttl = 0 THEN table.left ELSE ttl
  <2>2. left \in -1 .. Forever
    BY <1>5, TableFields, MemoryLockAssumption DEF Reenter, Inv, Forever
  <2>3. Obtain(c, left) /\ lease' = [Renewed(left) EXCEPT ![c] = [left |-> left, ended |-> "no"]]
    BY <2>1
  <2> HIDE DEF left
  <2>4. table' = [owner |-> Owner[c], left |-> left] /\ pc[c] = "try"
    BY <1>5, <2>3 DEF Obtain, Reenter
  <2>5. \A d \in Clients : Linked(d) => Owner[d] = Owner[c]
    BY <1>5, TableFields DEF Reenter, Inv
  <2>6. \A d \in Clients :
           /\ Renewed(left)[d].ended = "no" =>
                 table' = [owner |-> Owner[d], left |-> Renewed(left)[d].left]
           /\ Renewed(left)[d].ended = "late" => Renewed(left)[d].left = -1
    BY <1>a, <2>2, <2>4, <2>5, RenewedLeases DEF Linked
  <2> QED BY <1>3, <2>2, <2>3, <2>4, <2>6, RenewedLeases
<1>6. ASSUME table' = Free, pc' = pc, patience' = patience,
             NEW how \in {"late", "released", "forced"},
             how = "late" => (Held => Expired), lease' = Ended(how)
      PROVE  Inv'
  <2>1. \A c \in Clients :
           /\ lease'[c] = Blank <=> pc'[c] # "in"
           /\ lease'[c].ended # "no"
           /\ lease'[c].ended = "late" => lease'[c].left = -1
    BY <1>a, <1>6, EndedLeases
  <2>2. lease' \in [Clients -> Given \cup {Blank}]
    BY <1>6, EndedLeases
  <2> QED BY <1>a, <1>6, <2>1, <2>2, NextInv
<1>7. ASSUME NEW c \in Clients, Extend(c) PROVE Inv'
  <2>1. CASE Expired /\ table' = Free /\ lease' = Ended("late")
    BY <1>6, <1>7, <2>1 DEF Extend
  <2>2. ASSUME NEW ttl \in 0 .. MaxTtl,
               table' = [table EXCEPT !.left = Until(ttl)],
               lease' = Renewed(Until(ttl))
        PROVE  Inv'
    <3>1. Until(ttl) \in -1 .. Forever
      BY UntilType
    <3>2. table \in Entered
      BY <1>7, TableFields DEF Extend, Inv
    <3>3. table' = [owner |-> table.owner, left |-> Until(ttl)] /\ table' \in Entered
      BY <2>2, <3>1, <3>2 DEF Entered
    <3>4. \A d \in Clients :
             /\ lease'[d] = Blank <=> pc[d] # "in"
             /\ lease'[d].ended = "no" => table' = [owner |-> Owner[d], left |-> lease'[d].left]
             /\ lease'[d].ended = "late" => lease'[d].left = -1
      <4> TAKE d \in Clients
      <4>1. /\ lease'[d].ended = lease[d].ended
            /\ lease'[d] = Blank <=> lease[d] = Blank
            /\ lease'[d].left = IF Linked(d) THEN Until(ttl) ELSE lease[d].left
        BY <2>2, <3>1, RenewedLeases
      <4>2. Linked(d) => table.owner = Owner[d]
        BY TableFields DEF Inv
      <4> QED BY <1>a, <3>3, <4>1, <4>2 DEF Linked
    <3>5. lease' \in [Clients -> Given \cup {Blank}]
      BY <2>2, <3>1, RenewedLeases
    <3>6. pc' = pc /\ patience' = patience
      BY <1>7 DEF Extend
    <3> QED BY <1>a, <3>3, <3>4, <3>5, <3>6, NextInv
  <2> QED BY <1>7, <2>1, <2>2 DEF Extend
<1>8. ASSUME NEW c \in Clients, Release(c) PROVE Inv'
  <2>1. /\ \A d \in Clients : pc'[d] = IF d = c THEN "out" ELSE pc[d]
        /\ pc' \in [Clients -> {"out", "try", "wait", "in"}]
        /\ patience' = patience
    BY <1>8, <1>a DEF Release
  <2>2. Blank.ended = "none" /\ Blank.left = -1
    BY DEF Blank
  <2>3. CASE Held /\ table.owner = Owner[c]
    <3>1. table' = Free /\ lease' = [Ended("released") EXCEPT ![c] = Blank]
      BY <1>8, <2>3 DEF Release
    <3>2. lease' \in [Clients -> Given \cup {Blank}]
      BY <3>1, EndedLeases
    <3>3. \A d \in Clients : lease'[d] = IF d = c THEN Blank ELSE Ended("released")[d]
      BY <3>1, EndedLeases
    <3>4. \A d \in Clients :
             /\ lease'[d] = Blank <=> pc'[d] # "in"
             /\ lease'[d].ended # "no"
             /\ lease'[d].ended = "late" => lease'[d].left = -1
      BY <1>a, <2>1, <2>2, <3>3, EndedLeases
    <3> QED BY <1>a, <2>1, <3>1, <3>2, <3>4, NextInv
  <2>4. CASE ~(Held /\ table.owner = Owner[c])
    <3>1. table' = table /\ lease' = [lease EXCEPT ![c] = Blank]
      BY <1>8, <2>4 DEF Release
    <3>2. lease' \in [Clients -> Given \cup {Blank}]
      BY <1>a, <3>1
    <3>3. \A d \in Clients : lease'[d] = IF d = c THEN Blank ELSE lease[d]
      BY <1>a, <3>1
    <3> QED BY <1>a, <2>1, <2>2, <3>1, <3>2, <3>3, NextInv
  <2> QED BY <2>3, <2>4
<1>9. ASSUME ForceRelease \/ Look \/ CleanupExpired PROVE Inv'
  BY <1>6, <1>9 DEF ForceRelease, Look, CleanupExpired, Drop
<1>10. CASE UNCHANGED vars
  BY <1>a, <1>10, NextInv DEF vars
<1> QED BY <1>1, <1>2, <1>4, <1>5, <1>7, <1>8, <1>9, <1>10 DEF Next, Attempt

(* The lock manager keeps its types, and the leases and the table agree.   *)
THEOREM TypeCorrect == Spec => []TypeOK
<1>1. Inv => TypeOK
  BY DEF Inv
<1> QED BY <1>1, InitInv, StepInv, PTL DEF Spec, Safety

-----------------------------------------------------------------------------
(* Two leases that have time left and were not taken away are both the one *)
(* in the table, so they have its owner.                                   *)
THEOREM LeasesExclude == Spec => []Exclusive
<1>1. Inv => Exclusive
  <2> SUFFICES ASSUME Inv, NEW c \in Clients, NEW d \in Clients,
                      Usable(c), Usable(d), Owner[c] # Owner[d],
                      {lease[c].ended, lease[d].ended} \cap {"released", "forced"} = {}
               PROVE  FALSE
    BY DEF Exclusive
  <2>1. ASSUME NEW e \in {c, d} PROVE lease[e].ended = "no"
    <3>1. lease[e] \in Given \cup {Blank} /\ lease[e].left >= 0
      BY DEF Inv, TypeOK, Given, Usable
    <3>2. lease[e].ended # "late"
      BY <3>1 DEF Inv, LateIsOver
    <3>3. lease[e].ended # "none"
      BY <3>1, LeaseFields
    <3> QED BY <3>1, <3>2, <3>3, LeaseFields
  <2> QED BY <2>1, TableFields DEF Inv, Linked
<1> QED BY <1>1, InitInv, StepInv, PTL DEF Spec, Safety

(* No extension and no other use by the same owner revives a lease that    *)
(* has expired.                                                            *)
THEOREM NoLeaseRevives == Spec => NoRevival
<1>1. ASSUME Inv, [Next]_vars, NEW c \in Clients, pc[c] = "in", ~Usable(c)
      PROVE  pc'[c] = "out" \/ lease'[c].left < 0
  <2>1. /\ lease[c] \in Given \cup {Blank}
        /\ lease[c].left = -1
    BY <1>1, LeaseFields, MemoryLockAssumption DEF Inv, TypeOK, Given, Usable, Forever
  <2>2. Linked(c) => Expired
    BY <1>1, <2>1, TableFields DEF Inv, Expired
  <2>3. CASE Tick
    <3>1. lease'[c] = [lease[c] EXCEPT !.left = Passed(@)]
      BY <2>3 DEF Tick
    <3>2. lease'[c].left = Passed(lease[c].left)
      BY <2>1, <3>1 DEF Given, Blank
    <3> QED BY <2>1, <3>2 DEF Passed
  <2>4. ASSUME NEW d \in Clients, Call(d) \/ Refuse(d) \/ WaitEnd(d)
        PROVE  lease'[c].left < 0
    BY <2>1, <2>4 DEF Call, Refuse, WaitEnd
  <2>5. ASSUME NEW d \in Clients, Take(d) PROVE lease'[c].left < 0
    <3>1. PICK ttl \in 0 .. MaxTtl :
             lease' = [Ended("late") EXCEPT ![d] = [left |-> Until(ttl), ended |-> "no"]]
      BY <2>5 DEF Take
    <3>2. d # c
      BY <1>1, <2>5 DEF Take
    <3>3. lease'[c] = Ended("late")[c]
      BY <3>1, <3>2
    <3> QED BY <1>1, <2>1, <2>5, <3>3, EndedLeases DEF Take
  <2>6. ASSUME NEW d \in Clients, Reenter(d) PROVE lease'[c].left < 0
    <3> DEFINE left(ttl) == IF ttl = 0 THEN table.left ELSE ttl
    <3>1. PICK ttl \in 0 .. MaxTtl :
             lease' = [Renewed(left(ttl)) EXCEPT ![d] = [left |-> left(ttl), ended |-> "no"]]
      BY <2>6 DEF Reenter
    <3>2. left(ttl) \in -1 .. Forever
      BY <1>1, <2>6, TableFields, MemoryLockAssumption DEF Reenter, Inv, Forever
    <3> HIDE DEF left
    <3>3. d # c
      BY <1>1, <2>6 DEF Reenter
    <3>4. lease'[c] = Renewed(left(ttl))[c] /\ ~Linked(c)
      <4>1. Renewed(left(ttl)) \in [Clients -> Given \cup {Blank}]
        BY <1>1, <3>2, RenewedLeases
      <4>2. ~Linked(c)
        BY <2>2, <2>6 DEF Reenter
      <4> QED BY <3>1, <3>3, <4>1, <4>2
    <3> QED BY <1>1, <2>1, <3>2, <3>4, RenewedLeases
  <2>7. ASSUME NEW how \in {"late", "released", "forced"}, how = "late" => (Held => Expired)
        PROVE  Ended(how)[c].left < 0
    BY <1>1, <2>1, <2>7, EndedLeases
  <2>8. ASSUME NEW d \in Clients, Extend(d) PROVE lease'[c].left < 0
    <3>1. CASE Expired
      BY <2>7, <2>8, <3>1 DEF Extend
    <3>2. CASE ~Expired
      <4>1. PICK ttl \in 0 .. MaxTtl : lease' = Renewed(Until(ttl))
        BY <2>8, <3>2 DEF Extend
      <4>2. Until(ttl) \in -1 .. Forever
        BY UntilType
      <4> QED BY <1>1, <2>1, <2>2, <3>2, <4>1, <4>2, RenewedLeases
    <3> QED BY <3>1, <3>2
  <2>9. ASSUME NEW d \in Clients, Release(d) PROVE pc'[c] = "out" \/ lease'[c].left < 0
    <3>1. CASE d = c
      BY <1>1, <2>9, <3>1 DEF Release, Inv, TypeOK
    <3>2. CASE d # c
      <4>1. lease'[c] = Ended("released")[c] \/ lease'[c] = lease[c]
        <5>1. Ended("released") \in [Clients -> Given \cup {Blank}]
          BY <1>1, EndedLeases
        <5>2. lease \in [Clients -> Given \cup {Blank}]
          BY <1>1 DEF Inv, TypeOK, Given
        <5> QED BY <2>9, <3>2, <5>1, <5>2 DEF Release
      <4> QED BY <2>1, <2>7, <4>1
    <3> QED BY <3>1, <3>2
  <2>10. ASSUME ForceRelease \/ Look \/ CleanupExpired PROVE lease'[c].left < 0
    BY <2>7, <2>10 DEF ForceRelease, Look, CleanupExpired, Drop
  <2>11. CASE UNCHANGED vars
    BY <2>1, <2>11 DEF vars
  <2> QED BY <1>1, <2>3, <2>4, <2>5, <2>6, <2>8, <2>9, <2>10, <2>11 DEF Next, Attempt
<1>2. Inv /\ [Next]_vars =>
         [\A c \in Clients :
             pc[c] = "in" /\ ~Usable(c) => pc'[c] = "out" \/ lease'[c].left < 0]_vars
  BY <1>1
<1> QED BY <1>2, InitInv, StepInv, PTL DEF Spec, Safety, NoRevival

-----------------------------------------------------------------------------
(* The lock goes from one owner to another only when the first one's lease *)
(* is over: the lock manager implements Lease.                             *)
THEOREM ImplementsTheLease == Safety => ImplementsLease
<1> DEFINE holds == IF Held /\ table.left >= 0 THEN table.owner ELSE None
<1>1. Init => Abstract!Init
  BY DEF Init, Abstract!Init, Held, Free
<1>2. ASSUME Inv, [Next]_vars PROVE [Abstract!Next]_holds
  <2>a. /\ Held => table \in Entered /\ table.owner \in Owners /\ table.left \in -1 .. Forever
        /\ \A o \in Owners : o # None
    BY <1>2, TableFields, MemoryLockAssumption DEF Inv
  <2>1. CASE holds' = None
    BY <2>1 DEF Abstract!Next, Abstract!End
  <2>2. ASSUME holds' # None PROVE holds' = holds \/ (holds = None /\ holds' \in Owners)
    <3>1. CASE Tick
      <4>1. table' = IF Held THEN [table EXCEPT !.left = Passed(@)] ELSE table
        BY <3>1 DEF Tick
      <4>2. Held /\ table' = [table EXCEPT !.left = Passed(@)]
        BY <2>2, <4>1 DEF Held
      <4>3. table'.owner = table.owner /\ table'.left = Passed(table.left)
        BY <2>a, <4>2 DEF Entered
      <4>4. table.left # -1
        BY <2>2, <4>3 DEF Passed
      <4> QED BY <2>a, <2>2, <4>2, <4>3, <4>4, MemoryLockAssumption DEF Forever
    <3>2. ASSUME NEW c \in Clients, Take(c) PROVE holds = None /\ holds' \in Owners
      <4>1. table'.owner = Owner[c] /\ Owner[c] \in Owners
        BY <3>2, MemoryLockAssumption DEF Take, Obtain
      <4> QED BY <2>2, <3>2, <2>a, <4>1, MemoryLockAssumption DEF Take, Expired, Forever
    <3>3. ASSUME NEW c \in Clients, Reenter(c) PROVE holds' = holds
      <4>1. table'.owner = Owner[c] /\ table.owner = Owner[c] /\ Held /\ ~Expired
        BY <3>3 DEF Reenter, Obtain
      <4> QED BY <2>a, <2>2, <4>1, MemoryLockAssumption DEF Expired, Forever
    <3>4. ASSUME NEW c \in Clients, Extend(c) PROVE holds' = holds
      <4>1. CASE table' = Free
        BY <2>2, <4>1 DEF Held
      <4>2. CASE table' # Free
        <5>1. PICK ttl \in 0 .. MaxTtl : table' = [table EXCEPT !.left = Until(ttl)]
          BY <3>4, <4>2 DEF Extend
        <5>2. Held /\ ~Expired /\ table'.owner = table.owner
          BY <2>a, <3>4, <4>2, <5>1 DEF Extend, Entered
        <5> QED BY <2>a, <2>2, <5>2, MemoryLockAssumption DEF Expired, Forever
      <4> QED BY <4>1, <4>2
    <3>5. ASSUME table' = table \/ table' = Free PROVE holds' = holds
      BY <2>2, <3>5 DEF Held
    <3>6. ASSUME NEW c \in Clients, Release(c) PROVE holds' = holds
      BY <3>5, <3>6 DEF Release
    <3>7. ASSUME NEW c \in Clients, Call(c) \/ Refuse(c) \/ WaitEnd(c) PROVE holds' = holds
      BY <3>5, <3>7 DEF Call, Refuse, WaitEnd
    <3>8. ASSUME ForceRelease \/ Look \/ CleanupExpired PROVE holds' = holds
      BY <3>5, <3>8 DEF ForceRelease, Look, CleanupExpired, Drop
    <3>9. CASE UNCHANGED vars
      BY <3>5, <3>9 DEF vars
    <3> HIDE DEF holds
    <3> QED BY <1>2, <3>1, <3>2, <3>3, <3>4, <3>6, <3>7, <3>8, <3>9 DEF Next, Attempt
  <2>3. ASSUME holds' # None PROVE [Abstract!Next]_holds
    BY <2>2, <2>3 DEF Abstract!Next, Abstract!Grant
  <2> QED BY <2>1, <2>3
<1> QED BY <1>1, <1>2, InitInv, StepInv, PTL DEF Safety, ImplementsLease, Abstract!Spec
=============================================================================
