---------------------------- MODULE RedlockProofs ----------------------------
(***************************************************************************)
(* Proofs about Redlock, for any servers, clients, managers and times.     *)
(***************************************************************************)
EXTENDS Redlock, FiniteSetTheorems, TLAPS

PC == {"out", "set", "undo", "retry", "grant", "in", "extend", "release"}

Acquiring == {"set", "undo", "retry"}

Key == [owner : Owners, left : 1 .. Ttl]

LEMMA SetupFacts ==
    ASSUME setup \in Setups
    PROVE  /\ setup.manager \in [Clients -> [servers : SUBSET Servers, owner : Owners]]
           /\ Ttl \in Nat /\ Drift \in Nat /\ Early \in Nat
           /\ Early < Drift /\ Drift <= Ttl /\ Calls \subseteq 0 .. Ttl
           /\ TooLate \in Nat
           /\ \A c \in Clients :
                 /\ Mine(c) \in SUBSET Servers /\ IsFiniteSet(Mine(c))
                 /\ Owner(c) \in Owners /\ Owner(c) # None
<1>1. /\ setup.manager \in [Clients -> [servers : SUBSET Servers, owner : Owners]]
      /\ Ttl \in Nat /\ Drift \in Nat /\ Early \in Nat
      /\ Early < Drift /\ Drift <= Ttl /\ Calls \subseteq 0 .. Ttl
  BY RedlockAssumption DEF Ttl, Drift, Early, Calls
<1>2. TooLate \in Nat
  BY <1>1 DEF TooLate
<1>3. ASSUME NEW c \in Clients
      PROVE  /\ Mine(c) \in SUBSET Servers /\ IsFiniteSet(Mine(c))
             /\ Owner(c) \in Owners /\ Owner(c) # None
  <2>1. Mine(c) \in SUBSET Servers /\ Owner(c) \in Owners
    BY <1>1 DEF Mine, Owner
  <2> QED BY <2>1, FS_Subset, RedlockAssumption
<1> QED BY <1>1, <1>2, <1>3

(* The definitions that depend on the setup only do not change. *)
LEMMA SetupStays ==
    ASSUME setup' = setup
    PROVE  /\ Ttl' = Ttl /\ Drift' = Drift /\ Early' = Early /\ TooLate' = TooLate
           /\ \A c \in Clients : Mine(c)' = Mine(c) /\ Owner(c)' = Owner(c)
BY DEF Ttl, Drift, Early, TooLate, Mine, Owner

LEMMA InitTypes == Init => TypeOK
<1> SUFFICES ASSUME Init PROVE TypeOK
  OBVIOUS
<1>1. setup \in Setups /\ Ttl \in Nat /\ Drift \in Nat /\ TooLate \in Nat
  BY SetupFacts DEF Init
<1> QED BY <1>1 DEF Init, TypeOK

LEMMA StepTypes == TypeOK /\ [Next]_vars => TypeOK'
<1> SUFFICES ASSUME TypeOK, [Next]_vars PROVE TypeOK'
  OBVIOUS
<1>a. /\ setup \in Setups
      /\ key \in [Servers -> Key \cup {Absent}]
      /\ pc \in [Clients -> PC]
      /\ ttl \in [Clients -> 0 .. Ttl]
      /\ todo \in [Clients -> SUBSET Servers]
      /\ got \in [Clients -> SUBSET Servers]
      /\ age \in [Clients -> 0 .. TooLate]
      /\ left \in [Clients -> -1 .. Ttl]
      /\ pause \in [Clients -> 0 .. Drift]
      /\ weakened \in [Clients -> BOOLEAN]
      /\ \A c \in Clients : todo[c] \cup got[c] \subseteq Mine(c)
      /\ \A c \in Clients : pc[c] \in Acquiring => ttl[c] > 0
  BY DEF TypeOK, Key, PC, Acquiring
<1>b. /\ Ttl \in Nat /\ Drift \in Nat /\ Early \in Nat /\ TooLate \in Nat
      /\ Drift <= Ttl /\ Drift > 0 /\ Calls \subseteq 0 .. Ttl
      /\ \A c \in Clients : Mine(c) \in SUBSET Servers /\ Owner(c) \in Owners
  BY <1>a, SetupFacts
<1>c. ASSUME setup' = setup,
             key' \in [Servers -> Key \cup {Absent}],
             pc' \in [Clients -> PC],
             ttl' \in [Clients -> 0 .. Ttl],
             todo' \in [Clients -> SUBSET Servers],
             got' \in [Clients -> SUBSET Servers],
             age' \in [Clients -> 0 .. TooLate],
             left' \in [Clients -> -1 .. Ttl],
             pause' \in [Clients -> 0 .. Drift],
             weakened' \in [Clients -> BOOLEAN],
             \A c \in Clients : todo'[c] \cup got'[c] \subseteq Mine(c),
             \A c \in Clients : pc'[c] \in Acquiring => ttl'[c] > 0
      PROVE  TypeOK'
  <2>1. setup' \in Setups
    BY <1>a, <1>c
  <2>2. key' \in [Servers -> [owner : Owners, left : 1 .. Ttl'] \cup {Absent}]
    BY <1>c, SetupStays DEF Key
  <2>3. \A c \in Clients : todo'[c] \cup got'[c] \subseteq Mine(c)'
    BY <1>c, SetupStays
  <2> QED BY <1>c, <2>1, <2>2, <2>3, SetupStays DEF TypeOK, PC, Acquiring
<1>1. ASSUME Tick PROVE TypeOK'
  <2>1. PICK fast \in SUBSET {s \in Servers : key[s].left \in 2 .. Early + 1} :
          key' = [s \in Servers |->
                     IF key[s].left <= 1 \/ s \in fast THEN Absent
                     ELSE [key[s] EXCEPT !.left = @ - 1]]
    BY <1>1 DEF Tick
  <2>2. ASSUME NEW s \in Servers, ~(key[s].left <= 1)
        PROVE  [key[s] EXCEPT !.left = @ - 1] \in Key
    <3>1. key[s] \in Key
      BY <1>a, <2>2 DEF Absent
    <3> QED BY <1>b, <2>2, <3>1 DEF Key
  <2>3. key' \in [Servers -> Key \cup {Absent}]
    BY <2>1, <2>2
  <2>4. age' \in [Clients -> 0 .. TooLate]
    <3>1. \A c \in Clients : age[c] \in Nat /\ age[c] <= TooLate
      BY <1>a, <1>b
    <3> QED BY <1>1, <1>b, <3>1 DEF Tick
  <2>5. left' \in [Clients -> -1 .. Ttl]
    <3>1. \A c \in Clients : left[c] \in Int /\ left[c] >= -1 /\ left[c] <= Ttl
      BY <1>a, <1>b
    <3> QED BY <1>1, <1>b, <3>1 DEF Tick
  <2>6. pause' \in [Clients -> 0 .. Drift]
    <3>1. \A c \in Clients : pause[c] \in Nat /\ pause[c] <= Drift
      BY <1>a, <1>b
    <3> QED BY <1>1, <1>b, <3>1 DEF Tick
  <2> QED BY <1>1, <1>a, <1>c, <2>3, <2>4, <2>5, <2>6 DEF Tick
<1>2. ASSUME NEW c \in Clients, NEW loop \in PC, Enter(c, loop)
      PROVE  /\ pc' \in [Clients -> PC]
             /\ todo' \in [Clients -> SUBSET Servers]
             /\ got' \in [Clients -> SUBSET Servers]
             /\ age' \in [Clients -> 0 .. TooLate]
             /\ \A d \in Clients : todo'[d] \cup got'[d] \subseteq Mine(d)
  BY <1>2, <1>a, <1>b DEF Enter
<1>3. ASSUME NEW c \in Clients, NEW next \in PC, Leave(c, next)
      PROVE  /\ pc' \in [Clients -> PC]
             /\ todo' \in [Clients -> SUBSET Servers]
             /\ got' \in [Clients -> SUBSET Servers]
             /\ age' \in [Clients -> 0 .. TooLate]
             /\ \A d \in Clients : todo'[d] \cup got'[d] \subseteq Mine(d)
  BY <1>3, <1>a, <1>b DEF Leave
<1>4. ASSUME NEW c \in Clients, NEW s \in Servers, Pass(c, s), UNCHANGED got \/ Heard(c, s)
      PROVE  /\ setup' = setup /\ pc' = pc /\ ttl' = ttl /\ age' = age /\ left' = left
             /\ pause' = pause
             /\ todo' \in [Clients -> SUBSET Servers]
             /\ got' \in [Clients -> SUBSET Servers]
             /\ \A d \in Clients : todo'[d] \cup got'[d] \subseteq Mine(d)
  <2>1. s \in Mine(c)
    BY <1>4, <1>a DEF Pass, Visits
  <2>2. \A d \in Clients : todo'[d] \subseteq todo[d] /\ got'[d] \subseteq got[d] \cup (IF d = c THEN {s} ELSE {})
    BY <1>4, <1>a DEF Pass, Heard
  <2>3. /\ todo' \in [Clients -> SUBSET Servers]
        /\ got' \in [Clients -> SUBSET Servers]
    BY <1>4, <1>a DEF Pass, Heard
  <2> QED BY <1>4, <1>a, <2>1, <2>2, <2>3 DEF Pass
<1>5. ASSUME NEW c \in Clients, NEW t \in 1 .. Ttl, Attempt(c, t) PROVE TypeOK'
  <2>1. ttl' \in [Clients -> 0 .. Ttl] /\ weakened' \in [Clients -> BOOLEAN]
    BY <1>5, <1>a DEF Attempt
  <2>2. \A d \in Clients : pc'[d] \in Acquiring => ttl'[d] > 0
    BY <1>5, <1>a, <1>b DEF Attempt, Enter
  <2> QED BY <1>5, <1>2, <1>a, <1>c, <2>1, <2>2 DEF Attempt, PC
<1>6. ASSUME NEW c \in Clients, NEW s \in Servers, SetKey(c, s) PROVE TypeOK'
  <2>1. key[s] = Absent => ttl[c] > 0
    BY <1>6, <1>a DEF SetKey, Acquiring
  <2>2. key' \in [Servers -> Key \cup {Absent}]
    <3>1. ttl[c] \in Nat /\ ttl[c] <= Ttl
      BY <1>a, <1>b
    <3>2. ttl[c] > 0 => [owner |-> Owner(c), left |-> ttl[c]] \in Key
      BY <1>b, <3>1 DEF Key
    <3> QED BY <1>6, <1>a, <2>1, <3>2 DEF SetKey
  <2>3. weakened' = weakened /\ Pass(c, s) /\ (UNCHANGED got \/ Heard(c, s))
    BY <1>6 DEF SetKey
  <2> QED BY <1>4, <1>a, <1>c, <2>2, <2>3
<1>7. ASSUME NEW c \in Clients, NEW next \in PC \ Acquiring, NEW v \in -1 .. Ttl, Learns(c, next, v)
      PROVE  TypeOK'
  <2>1. /\ ttl' \in [Clients -> 0 .. Ttl] /\ left' \in [Clients -> -1 .. Ttl]
        /\ pause' \in [Clients -> 0 .. Drift]
    BY <1>7, <1>a, <1>b DEF Learns
  <2>2. \A d \in Clients : pc'[d] \in Acquiring => ttl'[d] > 0
    BY <1>7, <1>a DEF Learns, Leave
  <2> QED BY <1>7, <1>3, <1>a, <1>c, <2>1, <2>2 DEF Learns
<1>21. ASSUME NEW c \in Clients PROVE Validity(c) \in Int /\ Validity(c) <= Ttl
  <2>1. age[c] \in Nat /\ ttl[c] \in Nat /\ ttl[c] <= Ttl
    BY <1>a, <1>b
  <2> QED BY <1>b, <2>1 DEF Validity
<1>8. ASSUME NEW c \in Clients, Acquired(c) PROVE TypeOK'
  <2>1. Validity(c) \in -1 .. Ttl
    BY <1>8, <1>b, <1>21 DEF Acquired
  <2> QED BY <1>8, <1>7, <2>1 DEF Acquired, PC, Acquiring
<1>22. ASSUME NEW c \in Clients, Granted(c) PROVE TypeOK'
  <2>1. pc' \in [Clients -> PC]
    BY <1>22, <1>a DEF Granted, PC
  <2> QED BY <1>22, <1>a, <1>c, <2>1 DEF Granted, Acquiring
<1>9. ASSUME NEW c \in Clients, NotAcquired(c) PROVE TypeOK'
  <2>1. CASE Enter(c, "undo")
    BY <1>9, <1>2, <1>a, <1>c, <2>1 DEF NotAcquired, PC, Enter, Leave, Acquiring
  <2>2. CASE Leave(c, "retry")
    BY <1>9, <1>3, <1>a, <1>c, <2>2 DEF NotAcquired, PC, Enter, Leave, Acquiring
  <2> QED BY <1>9, <2>1, <2>2 DEF NotAcquired
<1>10. ASSUME NEW c \in Clients, NEW s \in Servers, DeleteKey(c, s) PROVE TypeOK'
  <2>1. key' \in [Servers -> Key \cup {Absent}]
    BY <1>10, <1>a DEF DeleteKey
  <2>2. weakened' \in [Clients -> BOOLEAN]
    BY <1>10, <1>a DEF DeleteKey, Weakens
  <2>3. Pass(c, s) /\ UNCHANGED got
    BY <1>10 DEF DeleteKey
  <2> QED BY <1>4, <1>a, <1>c, <2>1, <2>2, <2>3
<1>11. ASSUME NEW c \in Clients, Undone(c) PROVE TypeOK'
  BY <1>11, <1>3, <1>a, <1>c DEF Undone, PC, Leave, Acquiring
<1>12. ASSUME NEW c \in Clients, Gone(c) PROVE TypeOK'
  <2>1. /\ pc' \in [Clients -> PC]
        /\ todo' \in [Clients -> SUBSET Servers]
        /\ got' \in [Clients -> SUBSET Servers]
        /\ age' \in [Clients -> 0 .. TooLate]
        /\ ttl' \in [Clients -> 0 .. Ttl]
        /\ left' \in [Clients -> -1 .. Ttl]
        /\ pause' \in [Clients -> 0 .. Drift]
        /\ weakened' \in [Clients -> BOOLEAN]
        /\ setup' = setup /\ key' = key
    BY <1>12, <1>a, <1>b DEF Gone, PC
  <2>2. \A d \in Clients : todo'[d] \cup got'[d] \subseteq Mine(d)
    BY <1>12, <1>a DEF Gone
  <2>3. \A d \in Clients : pc'[d] \in Acquiring => ttl'[d] > 0
    BY <1>12, <1>a DEF Gone, Acquiring
  <2> QED BY <1>a, <1>c, <2>1, <2>2, <2>3
<1>13. ASSUME NEW c \in Clients, Extend(c) PROVE TypeOK'
  <2>1. ttl' \in [Clients -> 0 .. Ttl]
    BY <1>13, <1>a, <1>b DEF Extend
  <2> QED BY <1>13, <1>2, <1>a, <1>c, <2>1 DEF Extend, PC, Enter, Acquiring
<1>14. ASSUME NEW c \in Clients, NEW s \in Servers, ExtendKey(c, s) PROVE TypeOK'
  <2>1. key' \in [Servers -> Key \cup {Absent}]
    <3>1. ttl[c] # 0 => [owner |-> Owner(c), left |-> ttl[c]] \in Key
      BY <1>a, <1>b DEF Key
    <3>2. CASE key[s].owner = Owner(c)
      BY <1>14, <1>a, <3>1, <3>2 DEF ExtendKey
    <3>3. CASE key[s].owner # Owner(c)
      BY <1>14, <1>a, <3>3 DEF ExtendKey
    <3> QED BY <3>2, <3>3
  <2>2. weakened' \in [Clients -> BOOLEAN]
    BY <1>14, <1>a DEF ExtendKey, Weakens
  <2>3. Pass(c, s) /\ (UNCHANGED got \/ Heard(c, s))
    BY <1>14 DEF ExtendKey
  <2> QED BY <1>4, <1>a, <1>c, <2>1, <2>2, <2>3
<1>15. ASSUME NEW c \in Clients, Extended(c) PROVE TypeOK'
  <2>1. CASE Majority(c) /\ Validity(c) > left[c]
    <3>1. left[c] \in Int /\ left[c] >= -1
      BY <1>a, <1>b
    <3>2. Validity(c) \in -1 .. Ttl
      BY <1>b, <1>21, <2>1, <3>1
    <3> QED BY <1>15, <1>7, <2>1, <3>2 DEF Extended, PC, Acquiring, Leave
  <2>2. CASE ~(Majority(c) /\ Validity(c) > left[c])
    <3>1. ttl' \in [Clients -> 0 .. Ttl]
      BY <1>15, <1>a, <1>b, <2>2 DEF Extended
    <3> QED BY <1>15, <1>3, <1>a, <1>c, <2>2, <3>1 DEF Extended, PC, Acquiring, Leave
  <2> QED BY <2>1, <2>2
<1>16. ASSUME NEW c \in Clients, Release(c) PROVE TypeOK'
  <2>1. left' \in [Clients -> -1 .. Ttl] /\ pause' \in [Clients -> 0 .. Drift]
    BY <1>16, <1>a, <1>b DEF Release
  <2> QED BY <1>16, <1>2, <1>a, <1>c, <2>1 DEF Release, PC, Enter, Acquiring
<1>17. ASSUME NEW s \in Servers, ForceRelease(s) PROVE TypeOK'
  <2>1. key' \in [Servers -> Key \cup {Absent}]
    BY <1>17, <1>a DEF ForceRelease
  <2>2. weakened' \in [Clients -> BOOLEAN]
    BY <1>17, <1>a DEF ForceRelease, Weakens
  <2> QED BY <1>17, <1>a, <1>c, <2>1, <2>2 DEF ForceRelease
<1>18. ASSUME NEW c \in Clients, NEW s \in Servers, Unheard(c, s) PROVE TypeOK'
  BY <1>18, <1>4, <1>a, <1>c DEF Unheard
<1>19. CASE UNCHANGED vars
  BY <1>19, <1>a, <1>c DEF vars
<1>23. ASSUME NEW c \in Clients, Retry(c) \/ Acquire(c) PROVE TypeOK'
  <2>1. ttl[c] \in Nat /\ ttl[c] <= Ttl
    BY <1>a, <1>b
  <2>2. CASE Retry(c)
    BY <1>5, <1>a, <1>b, <2>1, <2>2 DEF Retry, Acquiring
  <2>3. CASE Acquire(c)
    <3>1. PICK t \in Calls \ {0} : Attempt(c, t)
      BY <2>3 DEF Acquire
    <3>2. t \in 1 .. Ttl
      BY <1>b, <3>1
    <3> QED BY <1>5, <3>1, <3>2
  <2> QED BY <1>23, <2>2, <2>3
<1>20. ASSUME NEW c \in Clients, Step(c) PROVE TypeOK'
  BY <1>20, <1>23, <1>6, <1>8, <1>9, <1>10, <1>11, <1>12, <1>14, <1>15, <1>18, <1>22
     DEF Step, GiveUp, Released
<1> QED BY <1>1, <1>23, <1>12, <1>13, <1>16, <1>17, <1>19, <1>20
       DEF Next, Crash

(* The servers' keys, the clients' loops and the clocks keep their types.  *)
THEOREM TypeCorrect == Spec => []TypeOK
BY InitTypes, StepTypes, PTL DEF Spec

-----------------------------------------------------------------------------
(* The inductive invariant.  While a loop of SET or of the extend script   *)
(* is under way and its time is not up, each server that has answered      *)
(* keeps the key for at least the ttl less the time since the start: a     *)
(* fast clock takes Early ticks, and drift allows for more.                *)
Counts(c) ==
    pc[c] \in {"set", "extend"} /\ ~weakened[c] /\ Validity(c) >= 0 =>
        \A s \in got[c] : key[s].owner = Owner(c) /\ key[s].left >= ttl[c] - age[c]

Backs(c, Q) ==
    /\ Q \in Majorities(Mine(c))
    /\ \A s \in Q : key[s].owner = Owner(c) /\ key[s].left >= left[c] + Drift - pause[c]

(* Between the two readings of the clock the keys must do already. *)
Relies(c) ==
    pc[c] \in {"grant", "in", "extend"} /\ left[c] >= 0 /\ Punctual(c) /\ ~weakened[c]

Sound(c) == Counts(c) /\ (Relies(c) => \E Q \in SUBSET Servers : Backs(c, Q))

Inv == \A c \in Clients : Sound(c)

LEMMA KeyFacts ==
    ASSUME TypeOK, NEW s \in Servers
    PROVE  /\ key[s].left \in Int /\ key[s].left <= Ttl
           /\ key[s] # Absent => key[s] \in Key
           /\ key[s].owner # None => key[s] # Absent
           /\ key[s] = Absent => key[s].owner = None
<1>1. Ttl \in Nat /\ key[s] \in Key \cup {Absent}
  BY SetupFacts DEF TypeOK, Key
<1> QED BY <1>1 DEF Key, Absent

LEMMA ClientFacts ==
    ASSUME TypeOK, NEW c \in Clients
    PROVE  /\ age[c] \in Nat /\ age[c] <= TooLate /\ TooLate = Ttl - Drift + 1
           /\ ttl[c] \in Nat /\ ttl[c] <= Ttl /\ pause[c] \in Nat /\ pause[c] <= Drift
           /\ left[c] \in Int /\ left[c] >= -1 /\ left[c] <= Ttl
           /\ got[c] \subseteq Mine(c) /\ Mine(c) \subseteq Servers /\ todo[c] \subseteq Servers
           /\ weakened[c] \in BOOLEAN /\ pc[c] \in PC
           /\ Ttl \in Nat /\ Drift \in Nat /\ Early \in Nat /\ TooLate \in Nat
           /\ Early < Drift /\ Drift <= Ttl /\ Owner(c) # None
           /\ Validity(c) \in Int /\ Validity(c) = ttl[c] - age[c] - Drift
<1>1. /\ Ttl \in Nat /\ Drift \in Nat /\ Early \in Nat /\ TooLate \in Nat
      /\ Early < Drift /\ Drift <= Ttl /\ Owner(c) # None /\ Mine(c) \subseteq Servers
  BY SetupFacts DEF TypeOK
<1>2. /\ age[c] \in Nat /\ age[c] <= TooLate
      /\ ttl[c] \in Nat /\ ttl[c] <= Ttl /\ pause[c] \in Nat /\ pause[c] <= Drift
      /\ left[c] \in Int /\ left[c] >= -1 /\ left[c] <= Ttl
  BY <1>1 DEF TypeOK
<1>3. /\ got[c] \subseteq Mine(c) /\ todo[c] \subseteq Servers
      /\ weakened[c] \in BOOLEAN /\ pc[c] \in PC
  BY DEF TypeOK, PC
<1> QED BY <1>1, <1>2, <1>3 DEF TooLate, Validity

LEMMA KeyTimes ==
    ASSUME TypeOK, TypeOK', setup' = setup, NEW s \in Servers
    PROVE  key[s].left \in Int /\ key'[s].left \in Int
<1>1. Ttl \in Nat /\ Ttl' = Ttl
  BY SetupStays, SetupFacts DEF TypeOK
<1>2. key'[s] \in [owner : Owners, left : 1 .. Ttl] \cup {Absent}
  BY <1>1 DEF TypeOK
<1> QED BY <1>1, <1>2, KeyFacts DEF Absent

(* What backs a lease still does when nobody deletes the client's keys. *)
LEMMA StillBacked ==
    ASSUME TypeOK, TypeOK', NEW c \in Clients, Sound(c), setup' = setup,
           Relies(c)' => Relies(c), left'[c] = left[c], pause'[c] = pause[c],
           \A s \in Servers : key[s].owner = Owner(c) =>
               key'[s].owner = Owner(c) /\ key'[s].left >= key[s].left
    PROVE  Relies(c)' => (\E Q \in SUBSET Servers : Backs(c, Q))'
<1> SUFFICES ASSUME Relies(c)' PROVE \E Q \in SUBSET Servers : Backs(c, Q)'
  OBVIOUS
<1>a. Drift' = Drift /\ Mine(c)' = Mine(c) /\ Owner(c)' = Owner(c)
  BY SetupStays
<1>b. Drift \in Nat /\ left[c] \in Int /\ pause[c] \in Int
  BY ClientFacts
<1>1. PICK Q \in SUBSET Servers : Backs(c, Q)
  BY DEF Sound
<1>2. ASSUME NEW s \in Q PROVE key'[s].owner = Owner(c) /\ key'[s].left >= left[c] + Drift - pause[c]
  <2>1. key[s].left \in Int /\ key'[s].left \in Int
    BY KeyTimes
  <2> QED BY <1>b, <1>1, <2>1 DEF Backs
<1>3. Q \in Majorities(Mine(c)')
  BY <1>a, <1>1 DEF Backs
<1> QED BY <1>a, <1>2, <1>3 DEF Backs, Majorities

(* A step that leaves c and its keys alone, or that weakens them. *)
LEMMA Undisturbed ==
    ASSUME TypeOK, TypeOK', NEW c \in Clients, Sound(c), setup' = setup,
           pc'[c] = pc[c], ttl'[c] = ttl[c], age'[c] = age[c], left'[c] = left[c],
           pause'[c] = pause[c],
           got'[c] \subseteq got[c], weakened[c] => weakened'[c],
           weakened'[c] \/ \A s \in Servers : key[s].owner = Owner(c) =>
                            key'[s].owner = Owner(c) /\ key'[s].left >= key[s].left
    PROVE  Sound(c)'
<1>a. Early' = Early /\ Drift' = Drift /\ Owner(c)' = Owner(c) /\ Validity(c)' = Validity(c)
  BY SetupStays DEF Validity
<1>b. ttl[c] \in Nat /\ age[c] \in Int /\ got[c] \subseteq Servers
  BY ClientFacts
<1>1. Counts(c)'
  <2> SUFFICES ASSUME pc[c] \in {"set", "extend"}, ~weakened'[c], Validity(c) >= 0,
                      NEW s \in got'[c]
               PROVE  key'[s].owner = Owner(c) /\ key'[s].left >= ttl[c] - age[c]
    BY <1>a DEF Counts
  <2>1. key[s].owner = Owner(c) /\ key[s].left >= ttl[c] - age[c] /\ s \in Servers
    BY <1>b DEF Sound, Counts
  <2>2. key[s].left \in Int /\ key'[s].left \in Int
    BY <2>1, KeyTimes
  <2> QED BY <1>b, <2>1, <2>2
<1>2. CASE weakened'[c]
  BY <1>1, <1>2 DEF Sound, Relies
<1>3. CASE ~weakened'[c]
  <2>1. Relies(c)' => Relies(c)
    BY <1>a, <1>3 DEF Relies, Punctual
  <2> QED BY <1>1, <1>3, <2>1, StillBacked DEF Sound
<1> QED BY <1>2, <1>3

(* A client that leaves its loops, or enters one, with its keys untouched. *)
LEMMA Forgets ==
    ASSUME TypeOK, TypeOK', NEW c \in Clients, Sound(c), setup' = setup, key' = key,
           got'[c] = {}, left'[c] = left[c], pause'[c] = pause[c], Relies(c)' => Relies(c)
    PROVE  Sound(c)'
<1>1. Counts(c)'
  BY DEF Counts
<1>2. \A s \in Servers : key[s].left >= key[s].left
  BY KeyTimes
<1>3. Relies(c)' => (\E Q \in SUBSET Servers : Backs(c, Q))'
  BY <1>2, StillBacked
<1> QED BY <1>1, <1>3 DEF Sound

(* A majority of answers is a majority of the manager's servers. *)
LEMMA AnswersAreMajority ==
    ASSUME TypeOK, NEW c \in Clients, Majority(c)
    PROVE  got[c] \in Majorities(Mine(c))
<1>1. got[c] \subseteq Mine(c) /\ IsFiniteSet(Mine(c))
  BY SetupFacts DEF TypeOK
<1>2. IsFiniteSet(got[c])
  BY <1>1, FS_Subset
<1>3. Cardinality(got[c]) \in Nat /\ Cardinality(Mine(c)) \in Nat
  BY <1>1, <1>2, FS_CardinalityType
<1>4. Cardinality(got[c]) >= Cardinality(Mine(c)) \div 2 + 1
  BY DEF Majority, Quorum
<1>5. 2 * Cardinality(got[c]) > Cardinality(Mine(c))
  BY <1>3, <1>4
<1> QED BY <1>1, <1>5 DEF Majorities

(* A client that starts to rely on what the loop has counted. *)
LEMMA NewlyBacked ==
    ASSUME TypeOK, NEW c \in Clients, Sound(c), Majority(c), NEW next,
           pc[c] \in {"set", "extend"}, next \notin {"set", "extend"},
           Validity(c) >= 0, Learns(c, next, Validity(c))
    PROVE  Sound(c)'
<1>a. Drift' = Drift /\ Mine(c)' = Mine(c) /\ Owner(c)' = Owner(c)
  BY SetupStays DEF Learns
<1>b. /\ age[c] \in Nat /\ ttl[c] \in Nat /\ Drift \in Nat /\ got[c] \subseteq Servers
      /\ Validity(c) = ttl[c] - age[c] - Drift
  BY ClientFacts
<1>c. /\ pc'[c] = next /\ left'[c] = Validity(c) /\ pause'[c] = 0
      /\ weakened' = weakened /\ key' = key
  BY DEF Learns, Leave, TypeOK
<1>1. Counts(c)'
  BY <1>c DEF Counts
<1>2. ASSUME ~weakened[c], NEW Q, Q = got[c] PROVE Backs(c, Q)'
  <2>1. \A s \in Q : key[s].owner = Owner(c) /\ key[s].left >= ttl[c] - age[c]
    BY <1>b, <1>2 DEF Sound, Counts
  <2>2. \A s \in Q : key[s].left \in Int
    BY <1>b, <1>2, KeyFacts
  <2>3. \A s \in Q : key'[s].owner = Owner(c)' /\ key'[s].left >= left'[c] + Drift' - pause'[c]
    BY <1>a, <1>b, <1>c, <2>1, <2>2
  <2>4. Q \in Majorities(Mine(c)')
    BY <1>a, <1>2, AnswersAreMajority
  <2> QED BY <2>3, <2>4 DEF Backs, Majorities
<1>3. Relies(c)' => ~weakened[c]
  BY <1>c DEF Relies
<1> QED BY <1>1, <1>2, <1>3, <1>b DEF Sound

(* What c writes to s lasts as long as what is there. *)
Longer(c, s) == key[s] # Absent => ttl[c] # 0 /\ key[s].left <= ttl[c]

LEMMA InitInv == Init => Inv
BY DEF Init, Inv, Sound, Counts, Relies

(* A server takes c's key, or extends it, and may say so. *)
LEMMA OneMoreAnswer ==
    ASSUME TypeOK, TypeOK', NEW c \in Clients, NEW s \in Servers, Sound(c),
           Pass(c, s), Heard(c, s), weakened[c] => weakened'[c],
           \/ weakened'[c]
           \/ /\ ttl[c] # 0 => key'[s].owner = Owner(c) /\ key'[s].left = ttl[c]
              /\ key[s].owner = Owner(c) => ttl[c] # 0 /\ key[s].left <= ttl[c],
           \A t \in Servers \ {s} : key'[t] = key[t]
    PROVE  Sound(c)'
<1>a. /\ setup' = setup /\ pc' = pc /\ ttl' = ttl /\ age' = age /\ left' = left
      /\ pause' = pause
  BY DEF Pass
<1>b. Early' = Early /\ Drift' = Drift /\ Owner(c)' = Owner(c) /\ Validity(c)' = Validity(c)
  BY <1>a, SetupStays DEF Validity
<1>c. /\ ttl[c] \in Nat /\ age[c] \in Nat /\ got[c] \subseteq Servers
      /\ Drift \in Nat /\ Early \in Nat /\ Early < Drift
      /\ Validity(c) = ttl[c] - age[c] - Drift
  BY ClientFacts
<1>0. CASE weakened'[c]
  BY <1>0 DEF Sound, Counts, Relies
<1>d. CASE ~weakened'[c]
  <2>1. got'[c] \subseteq got[c] \cup {s}
    <3>1. got \in [Clients -> SUBSET Servers]
      BY DEF TypeOK
    <3> QED BY <3>1 DEF Heard
  <2>2. Counts(c)'
    <3> SUFFICES ASSUME pc[c] \in {"set", "extend"}, Validity(c) >= 0, NEW t \in got'[c]
                 PROVE  key'[t].owner = Owner(c) /\ key'[t].left >= ttl[c] - age[c]
      BY <1>a, <1>b DEF Counts
    <3>1. CASE t = s
      BY <1>c, <1>d, <3>1
    <3>2. CASE t # s
      BY <1>c, <1>d, <2>1, <3>2 DEF Sound, Counts
    <3> QED BY <3>1, <3>2
  <2>3. \A t \in Servers : key[t].owner = Owner(c) =>
            key'[t].owner = Owner(c) /\ key'[t].left >= key[t].left
    <3>1. \A t \in Servers : key[t].left \in Int
      BY KeyFacts
    <3> QED BY <1>c, <1>d, <3>1
  <2>4. Relies(c)' => Relies(c)
    BY <1>a, <1>b, <1>d DEF Relies, Punctual
  <2>5. Relies(c)' => (\E Q \in SUBSET Servers : Backs(c, Q))'
    BY <1>a, <2>3, <2>4, StillBacked
  <2> QED BY <2>2, <2>5 DEF Sound
<1> QED BY <1>0, <1>d

(* Time passes: what a lease relies on is no key that a server drops. *)
LEMMA TickInv == ASSUME TypeOK, TypeOK', Inv, Tick PROVE Inv'
<1> SUFFICES ASSUME NEW c \in Clients PROVE Sound(c)'
  BY DEF Inv
<1>a. /\ setup' = setup /\ pc' = pc /\ ttl' = ttl /\ got' = got /\ weakened' = weakened
      /\ age'[c] = IF pc[c] \in {"set", "extend"} /\ age[c] < TooLate
                   THEN age[c] + 1 ELSE age[c]
      /\ left'[c] = IF pc[c] # "grant" /\ left[c] >= 0 THEN left[c] - 1 ELSE left[c]
      /\ pause'[c] = IF pc[c] = "grant" THEN IF pause[c] < Drift THEN pause[c] + 1 ELSE Drift
                     ELSE IF left[c] > 0 THEN pause[c] ELSE 0
  BY DEF Tick
<1>b. /\ Early' = Early /\ Drift' = Drift
      /\ Mine(c)' = Mine(c) /\ Owner(c)' = Owner(c)
  BY <1>a, SetupStays
<1>c. /\ age[c] \in Nat /\ age[c] <= TooLate /\ TooLate = Ttl - Drift + 1 /\ left[c] \in Int
      /\ left[c] >= -1 /\ ttl[c] \in Nat /\ ttl[c] <= Ttl /\ pause[c] \in Nat
      /\ got[c] \subseteq Servers
      /\ Ttl \in Nat /\ Drift \in Nat /\ Early \in Nat /\ Early < Drift /\ Drift <= Ttl
  BY ClientFacts
<1>d. Sound(c)
  BY DEF Inv
<1>1. ASSUME NEW s \in Servers, key[s].owner = Owner(c), key[s].left >= Early + 2
      PROVE  key'[s].owner = Owner(c) /\ key'[s].left = key[s].left - 1
  <2>1. key[s].left \in Int
    BY KeyFacts
  <2>2. PICK fast \in SUBSET {t \in Servers : key[t].left \in 2 .. Early + 1} :
          key' = [t \in Servers |->
                     IF key[t].left <= 1 \/ t \in fast THEN Absent
                     ELSE [key[t] EXCEPT !.left = @ - 1]]
    BY DEF Tick
  <2>3. s \notin fast /\ ~(key[s].left <= 1)
    BY <1>1, <1>c, <2>1, <2>2
  <2>4. key[s] # Absent
    BY <2>3, <2>1 DEF Absent
  <2>5. key[s] \in Key
    BY <2>4, KeyFacts
  <2>6. key'[s] = [key[s] EXCEPT !.left = @ - 1]
    BY <2>2, <2>3
  <2> QED BY <1>1, <2>5, <2>6 DEF Key
<1>2. Counts(c)'
  <2> SUFFICES ASSUME pc[c] \in {"set", "extend"}, ~weakened[c], Validity(c)' >= 0,
                      NEW s \in got[c]
               PROVE  key'[s].owner = Owner(c) /\ key'[s].left >= ttl[c] - age'[c]
    BY <1>a, <1>b DEF Counts
  <2>1. ttl[c] - age'[c] - Drift >= 0
    BY <1>a, <1>b DEF Validity
  <2>2. age'[c] = age[c] + 1 /\ ttl[c] - age[c] >= Drift + 1
    BY <1>a, <1>c, <2>1
  <2>3. key[s].owner = Owner(c) /\ key[s].left >= ttl[c] - age[c] /\ s \in Servers
    BY <1>c, <1>d, <2>2 DEF Sound, Counts, Validity
  <2>4. key[s].left \in Int
    BY <2>3, KeyFacts
  <2>5. key[s].left >= Early + 2
    BY <1>c, <2>2, <2>3, <2>4
  <2> QED BY <1>1, <1>c, <2>2, <2>3, <2>4, <2>5
<1>3. ASSUME Relies(c)' PROVE \E Q \in SUBSET Servers : Backs(c, Q)'
  <2>0. /\ pc[c] \in {"grant", "in", "extend"} /\ ~weakened[c]
        /\ left'[c] >= 0 /\ pause'[c] + Early < Drift
    BY <1>3, <1>a, <1>b DEF Relies, Punctual
  <2>1. /\ left[c] - pause[c] - 1 = left'[c] - pause'[c]
        /\ left[c] >= 0 /\ pause[c] + Early < Drift /\ left[c] - pause[c] + Drift >= Early + 2
    BY <1>a, <1>c, <2>0
  <2>2. PICK Q \in SUBSET Servers : Backs(c, Q)
    BY <1>d, <2>0, <2>1 DEF Sound, Relies, Punctual
  <2>3. ASSUME NEW s \in Q
        PROVE  key'[s].owner = Owner(c) /\ key'[s].left >= left'[c] + Drift - pause'[c]
    <3>1. key[s].left \in Int /\ key[s].owner = Owner(c) /\ key[s].left >= left[c] + Drift - pause[c]
      BY <2>2, KeyFacts DEF Backs
    <3>2. key[s].left >= Early + 2
      BY <1>c, <2>1, <3>1
    <3>3. left'[c] \in Int /\ pause'[c] \in Int
      BY <1>a, <1>c
    <3> QED BY <1>1, <1>c, <2>1, <3>1, <3>2, <3>3
  <2>4. Q \in Majorities(Mine(c)')
    BY <1>b, <2>2 DEF Backs
  <2> QED BY <1>b, <2>3, <2>4 DEF Backs, Majorities
<1> QED BY <1>2, <1>3 DEF Sound

LEMMA StepInv == ASSUME TypeOK, TypeOK', Inv, [Next]_vars PROVE Inv'
<1>a. \A c \in Clients : Sound(c)
  BY DEF Inv
<1>b. /\ got \in [Clients -> SUBSET Servers] /\ todo \in [Clients -> SUBSET Servers]
      /\ pc \in [Clients -> PC] /\ age \in [Clients -> 0 .. TooLate]
      /\ left \in [Clients -> -1 .. Ttl] /\ weakened \in [Clients -> BOOLEAN]
      /\ key \in [Servers -> Key \cup {Absent}]
      /\ ttl \in [Clients -> 0 .. Ttl] /\ pause \in [Clients -> 0 .. Drift]
  BY DEF TypeOK, Key, PC
<1>c. \A s \in Servers : key[s].left \in Int /\ key[s].left >= key[s].left
  BY KeyFacts
<1>d. \A c \in Clients : Owner(c) # None
  BY ClientFacts
<1>1. CASE Tick
  BY <1>1, TickInv
(* The others, when the keys do not change. *)
<1>2. ASSUME NEW c \in Clients, NEW d \in Clients, d # c, setup' = setup, key' = key,
             pc'[d] = pc[d], ttl'[d] = ttl[d], age'[d] = age[d], left'[d] = left[d],
             pause'[d] = pause[d], got'[d] = got[d], weakened'[d] = weakened[d]
      PROVE  Sound(d)'
  BY <1>2, <1>a, <1>c, Undisturbed
<1>3. ASSUME NEW c \in Clients, NEW t, Attempt(c, t) PROVE Inv'
  <2> SUFFICES ASSUME NEW d \in Clients PROVE Sound(d)'
    BY DEF Inv
  <2>1. CASE d = c
    BY <1>3, <1>a, <1>b, <2>1, Forgets DEF Attempt, Enter, Relies
  <2>2. CASE d # c
    BY <1>3, <1>2, <1>b, <2>2 DEF Attempt, Enter
  <2> QED BY <2>1, <2>2
<1>4. ASSUME NEW c \in Clients, NEW s \in Servers, Pass(c, s), UNCHANGED <<key, got, weakened>>
      PROVE  Inv'
  <2> SUFFICES ASSUME NEW d \in Clients PROVE Sound(d)'
    BY DEF Inv
  <2> QED BY <1>4, <1>a, <1>c, Undisturbed DEF Pass
(* c's key on s is new, or lasts for another time. *)
<1>5. ASSUME NEW c \in Clients, NEW s \in Servers, NEW v, Pass(c, s), Heard(c, s),
             key' = [key EXCEPT ![s] = v],
             ttl[c] # 0 => v.owner = Owner(c) /\ v.left = ttl[c],
             key[s] = Absent \/ key[s].owner = Owner(c),
             \A d \in Clients : weakened[d] => weakened'[d],
             \A d \in Clients : \/ weakened'[d]
                               \/ pc[d] = "out"
                               \/ Owner(d) # Owner(c)
                               \/ Longer(c, s),
             pc[c] # "out"
      PROVE  Inv'
  <2> SUFFICES ASSUME NEW d \in Clients PROVE Sound(d)'
    BY DEF Inv
  <2>1. key'[s] = v /\ \A t \in Servers \ {s} : key'[t] = key[t]
    BY <1>5, <1>b
  <2>2. CASE d = c
    <3>1. key[s].owner = Owner(c) => key[s] # Absent
      BY <1>d, KeyFacts
    <3> QED BY <1>5, <1>a, <2>1, <2>2, <3>1, OneMoreAnswer DEF Longer
  <2>3. CASE d # c
    <3>1. /\ setup' = setup /\ pc' = pc /\ ttl' = ttl /\ age' = age /\ left' = left
          /\ pause' = pause /\ got'[d] = got[d]
          /\ weakened[d] => weakened'[d]
      BY <1>5, <1>b, <2>3 DEF Pass, Heard
    <3>2. CASE weakened'[d]
      BY <1>a, <3>1, <3>2, Undisturbed
    <3>3. CASE pc[d] = "out"
      BY <3>1, <3>3 DEF Sound, Counts, Relies
    <3>4. CASE ~weakened'[d] /\ pc[d] # "out"
      <4>1. ASSUME NEW t \in Servers, key[t].owner = Owner(d)
            PROVE  key'[t].owner = Owner(d) /\ key'[t].left >= key[t].left
        <5>1. key[t] # Absent
          BY <1>d, <4>1, KeyFacts
        <5>2. ttl[c] \in Nat
          BY ClientFacts
        <5>3. CASE t = s
          <6>1. Owner(d) = Owner(c)
            BY <1>5, <4>1, <5>1, <5>3
          <6>2. ttl[c] # 0 /\ key[s].left <= ttl[c]
            BY <1>5, <3>4, <5>1, <5>3, <6>1 DEF Longer
          <6>3. key'[s].owner = Owner(c) /\ key'[s].left = ttl[c]
            BY <1>5, <2>1, <6>2
          <6> QED BY <1>c, <5>2, <5>3, <6>1, <6>2, <6>3
        <5>4. CASE t # s
          BY <1>c, <2>1, <4>1, <5>4
        <5> QED BY <5>3, <5>4
      <4> QED BY <1>a, <3>1, <4>1, Undisturbed
    <3> QED BY <3>2, <3>3, <3>4
  <2> QED BY <2>2, <2>3
<1>6. ASSUME NEW c \in Clients, NEW s \in Servers, SetKey(c, s) PROVE Inv'
  <2>1. CASE key[s] = Absent
    <3>1. PICK v : v = [owner |-> Owner(c), left |-> ttl[c]]
      OBVIOUS
    <3>2. key' = [key EXCEPT ![s] = v] /\ v.owner = Owner(c) /\ v.left = ttl[c]
      BY <1>6, <2>1, <3>1 DEF SetKey
    <3>3. Pass(c, s) /\ Heard(c, s) /\ weakened' = weakened /\ pc[c] # "out"
      BY <1>6, <2>1 DEF SetKey
    <3>4. Longer(c, s)
      BY <2>1 DEF Longer
    <3> QED BY <1>5, <2>1, <3>2, <3>3, <3>4
  <2>2. CASE key[s] # Absent
    BY <1>6, <1>4, <2>2 DEF SetKey
  <2> QED BY <2>1, <2>2
<1>7. ASSUME NEW c \in Clients, NEW s \in Servers, ExtendKey(c, s) PROVE Inv'
  <2>1. CASE key[s].owner = Owner(c)
    <3>1. key[s] \in Key /\ key[s] # Absent
      BY <1>d, <2>1, KeyFacts
    <3>2. PICK v : v = IF ttl[c] = 0 THEN Absent ELSE [owner |-> Owner(c), left |-> ttl[c]]
      OBVIOUS
    <3>3. /\ key' = [key EXCEPT ![s] = v]
          /\ ttl[c] # 0 => v.owner = Owner(c) /\ v.left = ttl[c]
      BY <1>7, <2>1, <3>2 DEF ExtendKey
    <3>4. /\ Pass(c, s) /\ Heard(c, s) /\ pc[c] = "extend"
          /\ Weakens(Owner(c), IF ttl[c] < key[s].left THEN Clients ELSE {})
      BY <1>7, <2>1 DEF ExtendKey
    <3>5. ASSUME NEW d \in Clients
          PROVE  /\ weakened[d] => weakened'[d]
                 /\ \/ weakened'[d]
                    \/ pc[d] = "out"
                    \/ Owner(d) # Owner(c)
                    \/ Longer(c, s)
      <4>1. ~(ttl[c] < key[s].left) => Longer(c, s)
        <5>1. key[s].left \in Int /\ key[s].left >= 1 /\ ttl[c] \in Nat
          BY <3>1, ClientFacts DEF Key
        <5> QED BY <5>1 DEF Longer
      <4> QED BY <1>b, <3>4, <4>1 DEF Weakens
    <3> QED BY <1>5, <2>1, <3>3, <3>4, <3>5
  <2>2. CASE key[s].owner # Owner(c)
    BY <1>7, <1>4, <2>2 DEF ExtendKey
  <2> QED BY <2>1, <2>2
<1>20. ASSUME NEW c \in Clients, NEW next, NEW v, Learns(c, next, v),
              NEW d \in Clients, d # c
       PROVE  Sound(d)'
  BY <1>20, <1>2, <1>b DEF Learns, Leave
<1>8. ASSUME NEW c \in Clients, Acquired(c) PROVE Inv'
  <2> SUFFICES ASSUME NEW d \in Clients PROVE Sound(d)'
    BY DEF Inv
  <2>1. CASE d = c
    <3>1. /\ Majority(c) /\ pc[c] = "set" /\ Validity(c) > 0
          /\ Learns(c, "grant", Validity(c))
      BY <1>8 DEF Acquired
    <3>2. Validity(c) >= 0
      BY <3>1, ClientFacts
    <3> QED BY <1>a, <2>1, <3>1, <3>2, NewlyBacked
  <2>2. CASE d # c
    BY <1>8, <1>20, <2>2 DEF Acquired
  <2> QED BY <2>1, <2>2
<1>21. ASSUME NEW c \in Clients, Granted(c) PROVE Inv'
  <2> SUFFICES ASSUME NEW d \in Clients PROVE Sound(d)'
    BY DEF Inv
  <2>1. CASE d = c
    <3>1. /\ setup' = setup /\ key' = key /\ got'[c] = got[c] /\ left'[c] = left[c]
          /\ pause'[c] = pause[c] /\ weakened' = weakened /\ pc[c] = "grant" /\ pc'[c] = "in"
      BY <1>21, <1>b DEF Granted
    <3>2. Counts(c)'
      BY <3>1 DEF Counts
    <3>3. Relies(c)' => Relies(c)
      BY <3>1, SetupStays DEF Relies, Punctual
    <3> QED BY <1>a, <1>c, <2>1, <3>1, <3>2, <3>3, StillBacked DEF Sound
  <2>2. CASE d # c
    BY <1>21, <1>2, <1>b, <2>2 DEF Granted
  <2> QED BY <2>1, <2>2
<1>9. ASSUME NEW c \in Clients, NotAcquired(c) PROVE Inv'
  <2> SUFFICES ASSUME NEW d \in Clients PROVE Sound(d)'
    BY DEF Inv
  <2>1. CASE d = c
    BY <1>9, <1>a, <1>b, <2>1, Forgets DEF NotAcquired, Enter, Leave, Relies
  <2>2. CASE d # c
    BY <1>9, <1>2, <1>b, <2>2 DEF NotAcquired, Enter, Leave
  <2> QED BY <2>1, <2>2
(* A key goes: whoever else uses the name of its owner is weakened. *)
<1>10. ASSUME NEW c \in Clients, NEW s \in Servers, DeleteKey(c, s) PROVE Inv'
  <2>1. CASE key[s].owner # Owner(c)
    BY <1>10, <1>4, <2>1 DEF DeleteKey
  <2>2. CASE key[s].owner = Owner(c)
    <3> SUFFICES ASSUME NEW d \in Clients PROVE Sound(d)'
      BY DEF Inv
    <3>1. /\ pc[c] \in {"undo", "release"} /\ setup' = setup /\ pc' = pc /\ age' = age
          /\ ttl' = ttl /\ pause' = pause /\ left' = left /\ got' = got /\ key' = [key EXCEPT ![s] = Absent]
          /\ weakened'[d] = (weakened[d] \/ (d \in Clients \ {c} /\ Owner(d) = Owner(c)
                                            /\ pc[d] # "out"))
      BY <1>10, <2>2 DEF DeleteKey, Pass, Weakens
    <3>2. CASE d = c \/ pc[d] = "out"
      BY <3>1, <3>2 DEF Sound, Counts, Relies
    <3>3. CASE d # c /\ pc[d] # "out"
      <4>1. weakened[d] => weakened'[d]
        BY <3>1
      <4>2. CASE Owner(d) = Owner(c)
        BY <1>a, <3>1, <3>3, <4>1, <4>2, Undisturbed
      <4>3. CASE Owner(d) # Owner(c)
        <5>1. \A t \in Servers : key[t].owner = Owner(d) =>
                  key'[t].owner = Owner(d) /\ key'[t].left >= key[t].left
          BY <1>b, <1>c, <2>2, <3>1, <4>3
        <5> QED BY <1>a, <3>1, <4>1, <5>1, Undisturbed
      <4> QED BY <4>2, <4>3
    <3> QED BY <3>2, <3>3
  <2> QED BY <2>1, <2>2
<1>11. ASSUME NEW s \in Servers, ForceRelease(s) PROVE Inv'
  <2> SUFFICES ASSUME NEW d \in Clients PROVE Sound(d)'
    BY DEF Inv
  <2>1. /\ setup' = setup /\ pc' = pc /\ age' = age
        /\ ttl' = ttl /\ pause' = pause /\ left' = left /\ got' = got /\ key' = [key EXCEPT ![s] = Absent]
        /\ weakened'[d] = (weakened[d] \/ (d \in Clients /\ Owner(d) = key[s].owner
                                          /\ pc[d] # "out"))
    BY <1>11 DEF ForceRelease, Weakens
  <2>2. CASE pc[d] = "out"
    BY <2>1, <2>2 DEF Sound, Counts, Relies
  <2>3. CASE pc[d] # "out" /\ Owner(d) = key[s].owner
    BY <1>a, <2>1, <2>3, Undisturbed
  <2>4. CASE Owner(d) # key[s].owner
    <3>1. \A t \in Servers : key[t].owner = Owner(d) =>
              key'[t].owner = Owner(d) /\ key'[t].left >= key[t].left
      BY <1>b, <1>c, <2>1, <2>4
    <3> QED BY <1>a, <2>1, <3>1, Undisturbed
  <2> QED BY <2>2, <2>3, <2>4
<1>12. ASSUME NEW c \in Clients, Undone(c) PROVE Inv'
  <2> SUFFICES ASSUME NEW d \in Clients PROVE Sound(d)'
    BY DEF Inv
  <2>1. CASE d = c
    BY <1>12, <1>a, <1>b, <2>1, Forgets DEF Undone, Leave, Relies
  <2>2. CASE d # c
    BY <1>12, <1>2, <1>b, <2>2 DEF Undone, Leave
  <2> QED BY <2>1, <2>2
<1>13. ASSUME NEW c \in Clients, Gone(c) PROVE Inv'
  <2> SUFFICES ASSUME NEW d \in Clients PROVE Sound(d)'
    BY DEF Inv
  <2>1. CASE d = c
    BY <1>13, <1>b, <2>1 DEF Gone, Sound, Counts, Relies
  <2>2. CASE d # c
    BY <1>13, <1>2, <1>b, <2>2 DEF Gone
  <2> QED BY <2>1, <2>2
<1>14. ASSUME NEW c \in Clients, Extend(c) PROVE Inv'
  <2> SUFFICES ASSUME NEW d \in Clients PROVE Sound(d)'
    BY DEF Inv
  <2>1. CASE d = c
    <3>1. Relies(c)' => Relies(c)
      BY <1>14, <1>b, SetupStays DEF Extend, Enter, Relies, Punctual
    <3> QED BY <1>14, <1>a, <1>b, <2>1, <3>1, Forgets DEF Extend, Enter
  <2>2. CASE d # c
    BY <1>14, <1>2, <1>b, <2>2 DEF Extend, Enter
  <2> QED BY <2>1, <2>2
<1>15. ASSUME NEW c \in Clients, Extended(c) PROVE Inv'
  <2> SUFFICES ASSUME NEW d \in Clients PROVE Sound(d)'
    BY DEF Inv
  <2>1. CASE Majority(c) /\ Validity(c) > left[c]
    <3>1. pc[c] = "extend" /\ Learns(c, "in", Validity(c))
      BY <1>15, <2>1 DEF Extended
    <3>2. Validity(c) >= 0
      BY <2>1, ClientFacts
    <3>3. CASE d = c
      BY <1>a, <2>1, <3>1, <3>2, <3>3, NewlyBacked
    <3>4. CASE d # c
      BY <1>20, <3>1, <3>4
    <3> QED BY <3>3, <3>4
  <2>2. CASE ~(Majority(c) /\ Validity(c) > left[c])
    <3>1. CASE d = c
      <4>1. Relies(c)' => Relies(c)
        BY <1>15, <1>b, <2>2, SetupStays DEF Extended, Leave, Relies, Punctual
      <4> QED BY <1>15, <1>a, <1>b, <2>2, <3>1, <4>1, Forgets DEF Extended, Leave
    <3>2. CASE d # c
      BY <1>15, <1>2, <1>b, <2>2, <3>2 DEF Extended, Leave
    <3> QED BY <3>1, <3>2
  <2> QED BY <2>1, <2>2
<1>16. ASSUME NEW c \in Clients, Release(c) PROVE Inv'
  <2> SUFFICES ASSUME NEW d \in Clients PROVE Sound(d)'
    BY DEF Inv
  <2>1. CASE d = c
    BY <1>16, <1>b, <2>1 DEF Release, Enter, Sound, Counts, Relies
  <2>2. CASE d # c
    BY <1>16, <1>2, <1>b, <2>2 DEF Release, Enter
  <2> QED BY <2>1, <2>2
<1>17. CASE UNCHANGED vars
  <2> SUFFICES ASSUME NEW d \in Clients PROVE Sound(d)'
    BY DEF Inv
  <2> QED BY <1>17, <1>a, <1>c, Undisturbed DEF vars
<1>18. ASSUME NEW c \in Clients, Step(c) PROVE Inv'
  BY <1>18, <1>3, <1>4, <1>6, <1>7, <1>8, <1>9, <1>10, <1>12, <1>13, <1>15, <1>21
     DEF Step, Unheard, Retry, GiveUp, Released
<1> QED BY <1>1, <1>3, <1>11, <1>13, <1>14, <1>16, <1>17, <1>18
       DEF Next, Acquire, Crash

LEMMA InvHolds == Spec => [](TypeOK /\ Inv)
<1>1. Init => TypeOK /\ Inv
  BY InitTypes, InitInv
<1>2. TypeOK /\ Inv /\ [Next]_vars => TypeOK' /\ Inv'
  BY StepTypes, StepInv
<1> QED BY <1>1, <1>2, PTL DEF Spec

(* The key of a client that relies on the lock is on a majority of its     *)
(* servers for longer than its lease.                                      *)
THEOREM LeasesAreBacked == Spec => []Backed
<1>1. Inv => Backed
  BY DEF Inv, Sound, Relies, Usable, Backs, Backed
<1> QED BY <1>1, InvHolds, PTL

(* Two majorities that meet do so on a server whose key has one owner.     *)
THEOREM MajoritiesExclude == Spec => []Exclusive
<1>1. Backed => Exclusive
  <2> SUFFICES ASSUME Backed, NEW c \in Clients, NEW d \in Clients,
                      Usable(c), Usable(d), MajoritiesMeet(c, d)
               PROVE  Owner(c) = Owner(d)
    BY DEF Exclusive
  <2>1. PICK P \in Majorities(Mine(c)) : \A s \in P : key[s].owner = Owner(c)
    BY DEF Backed
  <2>2. PICK Q \in Majorities(Mine(d)) : \A s \in Q : key[s].owner = Owner(d)
    BY DEF Backed
  <2> QED BY <2>1, <2>2 DEF MajoritiesMeet
<1> QED BY <1>1, LeasesAreBacked, PTL

-----------------------------------------------------------------------------
(* Refinement: the holder is the owner of whoever relies on the lock.      *)
Holder == IF (\E c \in Clients : Usable(c)) /\ AllMeet
          THEN Owner(CHOOSE c \in Clients : Usable(c)) ELSE None

HolderKnown ==
    /\ Holder \in Owners \cup {None}
    /\ Holder # None <=> AllMeet /\ \E c \in Clients : Usable(c)
    /\ AllMeet => \A c \in Clients : Usable(c) => Holder = Owner(c)

LEMMA HolderFacts == TypeOK /\ Exclusive => HolderKnown
<1> SUFFICES ASSUME TypeOK, Exclusive PROVE HolderKnown
  OBVIOUS
<1>1. \A c \in Clients : Owner(c) \in Owners /\ Owner(c) # None
  BY SetupFacts DEF TypeOK
<1>2. CASE ~((\E c \in Clients : Usable(c)) /\ AllMeet)
  BY <1>1, <1>2 DEF Holder, HolderKnown
<1>3. CASE (\E c \in Clients : Usable(c)) /\ AllMeet
  <2> DEFINE h == CHOOSE c \in Clients : Usable(c)
  <2>1. h \in Clients /\ Usable(h)
    BY <1>3
  <2>2. Holder = Owner(h)
    BY <1>3 DEF Holder
  <2>3. \A c \in Clients : Usable(c) => Owner(c) = Owner(h)
    BY <1>3, <2>1 DEF AllMeet, Exclusive
  <2> QED BY <1>1, <1>3, <2>1, <2>2, <2>3 DEF HolderKnown
<1> QED BY <1>2, <1>3

LEMMA SetupKept == [Next]_vars => setup' = setup
BY DEF Next, vars, Step, Tick, ForceRelease, Acquire, Attempt, SetKey, DeleteKey,
       ExtendKey, Unheard, Pass, Acquired, Granted, Learns, NotAcquired, Undone, Retry,
       GiveUp, Gone, Extended, Released, Extend, Release, Crash

(* Only one client at a time begins to rely on the lock, and then nobody   *)
(* who did before ceases to.                                               *)
LEMMA OneBegins ==
    ASSUME TypeOK, [Next]_vars
    PROVE  \/ \A c \in Clients : Usable(c)' => Usable(c)
           \/ \A c \in Clients : Usable(c) => Usable(c)'
<1>b. /\ pc \in [Clients -> PC] /\ weakened \in [Clients -> BOOLEAN]
      /\ left \in [Clients -> -1 .. Ttl] /\ pause \in [Clients -> 0 .. Drift]
  BY DEF TypeOK, PC
<1>c. /\ \A c \in Clients : left[c] \in Int /\ pause[c] \in Nat /\ Validity(c) \in Int
      /\ Clients # {} => Drift \in Nat /\ Early \in Nat /\ Early < Drift
  BY ClientFacts
<1>d. Drift' = Drift /\ Early' = Early
  BY SetupKept, SetupStays
<1>1. ASSUME Tick PROVE \A c \in Clients : Usable(c)' => Usable(c)
  BY <1>1, <1>c, <1>d DEF Tick, Usable, Punctual
<1>2. ASSUME NEW s \in Servers, ForceRelease(s) PROVE \A c \in Clients : Usable(c)' => Usable(c)
  BY <1>2, <1>d DEF ForceRelease, Weakens, Usable, Punctual
<1>3. ASSUME NEW c \in Clients, NEW t, Attempt(c, t), pc[c] \in {"out", "retry"}
      PROVE  \A d \in Clients : Usable(d)' => Usable(d)
  BY <1>3, <1>b, <1>d DEF Attempt, Enter, Usable, Punctual
<1>4. ASSUME NEW c \in Clients, NEW s \in Servers,
             SetKey(c, s) \/ DeleteKey(c, s) \/ ExtendKey(c, s) \/ Unheard(c, s)
      PROVE  \A d \in Clients : Usable(d)' => Usable(d)
  BY <1>4, <1>d DEF SetKey, DeleteKey, ExtendKey, Unheard, Pass, Weakens, Usable, Punctual
<1>5. ASSUME NEW c \in Clients, Granted(c)
      PROVE  \A d \in Clients : Usable(d) => Usable(d)'
  BY <1>5, <1>b, <1>d DEF Granted, Usable, Punctual
<1>11. ASSUME NEW c \in Clients, Acquired(c)
       PROVE  \A d \in Clients : Usable(d)' => Usable(d)
  BY <1>11, <1>b, <1>d DEF Acquired, Learns, Leave, Usable, Punctual
<1>6. ASSUME NEW c \in Clients, NotAcquired(c) \/ Undone(c)
      PROVE  \A d \in Clients : Usable(d)' => Usable(d)
  BY <1>6, <1>b, <1>d DEF NotAcquired, Undone, Enter, Leave, Usable, Punctual
<1>7. ASSUME NEW c \in Clients, Gone(c)
      PROVE  \A d \in Clients : Usable(d)' => Usable(d)
  BY <1>7, <1>b, <1>d DEF Gone, Usable, Punctual
<1>8. ASSUME NEW c \in Clients, Extend(c) \/ Release(c)
      PROVE  \A d \in Clients : Usable(d)' => Usable(d)
  BY <1>8, <1>b, <1>d DEF Extend, Release, Enter, Usable, Punctual
<1>9. ASSUME NEW c \in Clients, Extended(c)
      PROVE  \A d \in Clients : Usable(d) => Usable(d)'
  <2>1. left[c] >= 0 /\ Punctual(c) => left'[c] >= 0 /\ Punctual(c)'
    BY <1>9, <1>b, <1>c, <1>d DEF Extended, Learns, Punctual
  <2>2. \A d \in Clients \ {c} : left'[d] = left[d] /\ pc'[d] = pc[d] /\ pause'[d] = pause[d]
    BY <1>9, <1>b DEF Extended, Learns, Leave
  <2>3. pc'[c] = "in" /\ weakened' = weakened
    BY <1>9, <1>b DEF Extended, Learns, Leave
  <2> QED BY <1>d, <2>1, <2>2, <2>3 DEF Usable, Punctual
<1>10. CASE UNCHANGED vars
  BY <1>10, <1>d DEF vars, Usable, Punctual
<1> QED BY <1>1, <1>2, <1>3, <1>4, <1>5, <1>6, <1>7, <1>8, <1>9, <1>10, <1>11
       DEF Next, Step, Acquire, Retry, GiveUp, Released, Crash

LEMMA StepRefines ==
    ASSUME TypeOK, TypeOK', Exclusive, Exclusive', [Next]_vars
    PROVE  [Abstract!Next]_Holder
<1>1. AllMeet' <=> AllMeet
  <2>1. setup' = setup
    BY SetupKept
  <2>2. \A c \in Clients : Mine(c)' = Mine(c)
    BY <2>1 DEF Mine
  <2> QED BY <2>2 DEF AllMeet, MajoritiesMeet
<1>2. \A c \in Clients : Owner(c)' = Owner(c)
  <2>1. setup' = setup
    BY SetupKept
  <2> QED BY <2>1 DEF Owner
<1>3. HolderKnown
  BY HolderFacts
<1>4. HolderKnown'
  BY HolderFacts, PTL
<1>5. \/ \A c \in Clients : Usable(c)' => Usable(c)
      \/ \A c \in Clients : Usable(c) => Usable(c)'
  BY OneBegins
<1>6. CASE Holder = None
  BY <1>4, <1>6 DEF HolderKnown, Abstract!Next, Abstract!Grant, Holder
<1>7. CASE Holder # None /\ Holder' # None
  <2>1. PICK c \in Clients : Usable(c) /\ Usable(c)'
    BY <1>3, <1>4, <1>5, <1>7 DEF HolderKnown
  <2>2. Holder' = Holder
    BY <1>1, <1>2, <1>3, <1>4, <1>7, <2>1 DEF HolderKnown
  <2> QED BY <2>2
<1>8. CASE Holder # None /\ Holder' = None
  BY <1>8 DEF Abstract!Next, Abstract!End, Holder
<1> QED BY <1>6, <1>7, <1>8

(* Where any two majorities meet, the servers together are a Lease.        *)
THEOREM ImplementsTheLease == Spec => ImplementsLease
<1>1. Init => Abstract!Init
  BY DEF Init, Abstract!Init, Usable
<1>2. TypeOK /\ TypeOK' /\ Exclusive /\ Exclusive' /\ [Next]_vars => [Abstract!Next]_Holder
  BY StepRefines
<1> QED BY <1>1, <1>2, TypeCorrect, MajoritiesExclude, PTL
       DEF Spec, ImplementsLease, Abstract!Spec, Holder
=============================================================================
