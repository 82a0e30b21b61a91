---------------------------- MODULE RulesProofs ----------------------------
(***************************************************************************)
(* Theorems about the rules of play, for every quest, threshold, foe, item *)
(* incident and plan: Story (the quest has no dead end, and the rules of   *)
(* the route hold however it is chosen), Combat (a fight ends as what it   *)
(* was, an item cannot hold an enemy down, and a turn reports what was     *)
(* held) and World (no time is created or lost, an incident has its        *)
(* consequences once, and deadlines are kept).                             *)
(***************************************************************************)
EXTENDS Story, Combat, World, FiniteSetTheorems, TLAPS

(* A set of naturals that is not empty has a least element.                *)
LEMMA LeastIs ==
  ASSUME NEW S \in SUBSET Nat, S # {}
  PROVE  \E x \in S : \A y \in S : x <= y
<1> DEFINE Below == {S \cap 0..n : n \in S}
<1>1. Below \subseteq FiniteSubsetsOf(S) /\ Below # {}
  <2>1. ASSUME NEW n \in S PROVE IsFiniteSet(S \cap 0..n)
    <3>1. IsFiniteSet(0..n) /\ S \cap 0..n \in SUBSET (0..n)
      BY FS_Interval
    <3> QED BY ONLY <3>1, FS_Subset
  <2> QED BY <2>1 DEF FiniteSubsetsOf
<1>2. PICK low \in Below : \A b \in Below : <<b, low>> \notin StrictSubsetOrdering(S)
  BY <1>1, FS_StrictSubsetOrderingWellFounded, WFMin
<1>3. PICK x \in S : low = S \cap 0..x
  OBVIOUS
<1>4. \A y \in S : x <= y
  <2> SUFFICES ASSUME NEW y \in S, y < x PROVE FALSE
    OBVIOUS
  <2> DEFINE b == S \cap 0..y
  <2>1. b \in Below /\ b \subseteq low /\ x \in low /\ x \notin b
    BY <1>3
  <2>2. <<b, low>> \in StrictSubsetOrdering(S)
    BY <2>1, <1>1 DEF StrictSubsetOrdering, FiniteSubsetsOf
  <2> QED BY <1>2, <2>1, <2>2
<1> QED BY <1>4

(* The longest time that the end of a run looks at is there.               *)
LEMMA LongestIs == Longest \in Nat
<1> DEFINE B == Budgets \union {MinTurns}
<1> DEFINE Above == {n \in Nat : \A m \in B : m <= n}
<1>1. B \subseteq Nat /\ B # {}
  BY StoryAssumption
<1>2. Above # {} /\ Above \in SUBSET Nat
  <2>1. PICK n \in Budgets \union {0} : Budgets \subseteq 1..n
    BY StoryAssumption
  <2>2. MinTurns \in Nat /\ n \in Nat
    BY StoryAssumption
  <2>3. n + MinTurns \in Above
    BY <2>1, <2>2
  <2> QED BY <2>3
<1>3. PICK top \in Above : \A y \in Above : top <= y
  BY <1>2, LeastIs
<1>4. top \in B
  <2> SUFFICES ASSUME top \notin B PROVE FALSE
    OBVIOUS
  <2>1. \A m \in B : m <= top /\ m # top /\ m \in Nat
    BY <1>1
  <2>2. top # 0
    BY <2>1, <1>1
  <2>3. top - 1 \in Above
    BY <2>1, <2>2
  <2> QED BY <2>3, <1>3
<1>5. \E n \in B : \A m \in B : m <= n
  BY <1>3, <1>4
<1> HIDE DEF B
<1>6. (CHOOSE n \in B : \A m \in B : m <= n) \in Nat
  BY <1>5, <1>1
<1> QED BY <1>6 DEF Longest, B

(* The stage that follows is one of the quest's, and a transition of this  *)
(* stage whose condition is met leaves it.                                 *)
LEMMA NextStageIs ==
  ASSUME NEW s \in Stages, NEW known
  PROVE  /\ NextStage(s, known) \in Stages
         /\ \A i \in DOMAIN Transitions :
              Transitions[i].from = s /\ Met(Transitions[i], known) => NextStage(s, known) # s
<1> DEFINE ready == {i \in DOMAIN Transitions :
                       Transitions[i].from = s /\ Met(Transitions[i], known)}
<1>1. CASE ready = {}
  BY <1>1 DEF NextStage
<1>2. CASE ready # {}
  <2> DEFINE first == CHOOSE i \in ready : \A j \in ready : i <= j
  <2>1. ready \in SUBSET Nat
    BY StoryAssumption
  <2>2. \E i \in ready : \A j \in ready : i <= j
    BY <1>2, <2>1, LeastIs
  <2>3. first \in ready
    BY <2>2
  <2>4. NextStage(s, known) = Transitions[first].to
    BY <1>2 DEF NextStage
  <2>5. Transitions[first].to \in Stages \ {s}
    BY <2>3, StoryAssumption
  <2> QED BY <2>4, <2>5
<1> QED BY <1>1, <1>2

(* A transition that misses nothing is made.                               *)
LEMMA NothingMissing ==
  ASSUME NEW i \in DOMAIN Transitions, NEW known, Missing(Transitions[i], known) = {}
  PROVE  Met(Transitions[i], known)
<1> DEFINE t == Transitions[i]
<1> DEFINE groups == {g \in t.any : ~ g \subseteq known}
<1> HIDE DEF t
<1>1. t.all \subseteq known
  BY DEF Missing, t
<1>2. groups = {}
  <2> SUFFICES ASSUME NEW g \in groups PROVE FALSE
    OBVIOUS
  <2>1. PICK x \in g : x \notin known
    OBVIOUS
  <2> HIDE DEF groups
  <2>2. x \in (UNION groups) \ known
    BY <2>1
  <2>3. (UNION {h \in t.any : ~ h \subseteq known}) \ known = {}
    BY <1>1 DEF Missing, t
  <2> QED BY <2>2, <2>3 DEF groups
<1>3. t.alt \subseteq known
  BY <1>1, <1>2 DEF Missing, t
<1> QED BY <1>1, <1>2, <1>3 DEF Met, t

(* A hint is a fact not known yet. A stage before the last that has none   *)
(* is left.                                                                *)
LEMMA HintedIs ==
  ASSUME NEW s \in Stages, NEW known
  PROVE  /\ Hinted(s, known) \subseteq Facts \ known
         /\ s # Last /\ Hinted(s, known) = {} => NextStage(s, known) # s
<1> DEFINE lacking == {i \in DOMAIN Transitions :
                         Transitions[i].from = s /\ Missing(Transitions[i], known) # {}}
<1>1. CASE lacking = {}
  <2>1. Hinted(s, known) = {}
    BY <1>1 DEF Hinted
  <2>2. ASSUME s # Last PROVE NextStage(s, known) # s
    <3>1. PICK i \in DOMAIN Transitions : Transitions[i].from = s
      BY <2>2, StoryAssumption
    <3>2. Missing(Transitions[i], known) = {}
      BY <1>1, <3>1
    <3> QED BY <3>1, <3>2, NothingMissing, NextStageIs
  <2> QED BY <2>1, <2>2
<1>2. CASE lacking # {}
  <2> DEFINE first == CHOOSE i \in lacking : \A j \in lacking : i <= j
  <2>1. lacking \in SUBSET Nat
    BY StoryAssumption
  <2>2. \E i \in lacking : \A j \in lacking : i <= j
    BY <1>2, <2>1, LeastIs
  <2>3. first \in lacking
    BY <2>2
  <2>4. Hinted(s, known) = Missing(Transitions[first], known)
    BY <1>2 DEF Hinted
  <2> HIDE DEF first
  <2> DEFINE t == Transitions[first]
  <2>5. t.all \subseteq Facts /\ t.alt \subseteq Facts /\ UNION t.any \subseteq Facts
    BY <2>3, StoryAssumption
  <2> HIDE DEF t
  <2>6. Missing(t, known) \subseteq Facts \ known
    <3> DEFINE groups == {g \in t.any : ~ g \subseteq known}
    <3>1. UNION groups \subseteq UNION t.any
      OBVIOUS
    <3>2. Missing(t, known) \in {t.all \ known, (UNION groups) \ known, t.alt \ known}
      BY ONLY DEF Missing
    <3> HIDE DEF groups
    <3> QED BY ONLY <2>5, <3>1, <3>2
  <2> QED BY <2>3, <2>4, <2>6 DEF t
<1> QED BY <1>1, <1>2

(* What a turn makes of the quest: its stage and facts stay in range, no   *)
(* fact is forgotten, the age is that of the stage; and if nothing came of *)
(* it, the stage is the last or too young for a hint to be a fact.         *)
LEMMA ProgressIs ==
  ASSUME TypeOK, NEW found \in SUBSET (Facts \ facts), NEW a \in Nat, NEW p \in Progress(found, a)
  PROVE  /\ p.stage \in Stages /\ p.facts \subseteq Facts
         /\ p.age = IF p.stage # stage THEN 0 ELSE a
         /\ p.stage = stage /\ p.facts = facts /\ stage # Last => a < Stale + Hints - 1
<1> DEFINE known == facts \union found
<1> DEFINE next == NextStage(stage, known)
<1>0. stage \in Stages /\ known \subseteq Facts /\ facts \subseteq known
  BY DEF TypeOK
<1>1. next \in Stages
  BY <1>0, NextStageIs
<1>6. Stale \in Nat /\ Hints \in Nat /\ a \in Nat
  BY StoryAssumption
<1>2. CASE next # stage
  <2>1. p = [stage |-> next, facts |-> known, age |-> 0]
    BY <1>2 DEF Progress
  <2> QED BY <1>0, <1>1, <1>2, <2>1
<1>3. CASE next = stage /\ (a < Stale + Hints - 1 \/ found # {} \/ Hinted(stage, known) = {})
  <2>1. p = [stage |-> stage, facts |-> known, age |-> a]
    BY <1>3, <1>6 DEF Progress
  <2>2. Hinted(stage, known) = {} => stage = Last
    BY <1>0, <1>3, HintedIs
  <2>3. known = facts => found = {}
    OBVIOUS
  <2> QED BY <1>0, <1>3, <2>1, <2>2, <2>3
<1>4. CASE next = stage /\ ~(a < Stale + Hints - 1 \/ found # {} \/ Hinted(stage, known) = {})
  <2>1. PICK f \in Hinted(stage, known) :
          p = [stage |-> NextStage(stage, known \union {f}), facts |-> known \union {f},
               age |-> IF NextStage(stage, known \union {f}) # stage THEN 0 ELSE a]
    BY <1>4, <1>6 DEF Progress, Told
  <2>2. f \in Facts \ known
    BY <1>0, HintedIs
  <2>3. NextStage(stage, known \union {f}) \in Stages
    BY <1>0, NextStageIs
  <2> QED BY <1>0, <2>1, <2>2, <2>3
<1> QED BY <1>2, <1>3, <1>4
-----------------------------------------------------------------------------
\* The types

(* The minimum of two numbers.                                             *)
LEMMA AtMostIs ==
  ASSUME NEW n \in Nat, NEW m \in Nat
  PROVE  AtMost(n, m) \in 0..m /\ (AtMost(n, m) = n \/ AtMost(n, m) = m)
  BY DEF AtMost

(* The age of a stage is cut off where nobody looks further, and no turn   *)
(* makes it less.                                                          *)
LEMMA LaterIs ==
  ASSUME NEW n \in 0..(Stale + Hints + Closing), NEW ticks \in Nat
  PROVE  /\ Later(n, ticks) \in 0..(Stale + Hints + Closing)
         /\ n <= Later(n, ticks)
         /\ Later(n, ticks) < Stale + Hints - 1 => Later(n, ticks) = n + ticks
  BY StoryAssumption DEF Later, AtMost

(* What a story arc is made of.                                            *)
Arcs == [route : Routes \union {None}, commitment : 0..Lock, betrayals : 0..Betrayals]

(* A route that is taken or left is taken by a switch, which the old       *)
(* commitment and the betrayals so far allow.                              *)
LEMMA SwitchedIs ==
  ASSUME NEW a \in Arcs, NEW r \in Routes
  PROVE  /\ Switched(a, r) \in Arcs
         /\ Switched(a, r).route # a.route =>
              /\ Switched(a, r).route = r /\ Switched(a, r).commitment = 0
              /\ a.commitment < Lock /\ a.betrayals < Betrayals
              /\ a.route # None => Switched(a, r).betrayals = a.betrayals + 1
<1>1. /\ a.route \in Routes \union {None} /\ a.commitment \in 0..Lock
      /\ a.betrayals \in 0..Betrayals
  BY DEF Arcs
<1>2. CASE CanSwitch(a)
  <2>1. a.commitment < Lock /\ a.betrayals < Betrayals
    BY <1>1, <1>2, StoryAssumption DEF CanSwitch
  <2>2. Switched(a, r) = [route |-> r, commitment |-> 0,
                          betrayals |-> IF a.route # None THEN a.betrayals + 1 ELSE a.betrayals]
    BY <1>2 DEF Switched
  <2> QED BY <1>1, <2>1, <2>2, StoryAssumption DEF Arcs
<1>3. CASE ~CanSwitch(a)
  BY <1>3 DEF Switched
<1> QED BY <1>2, <1>3

(* A commitment never exceeds the lock, and no route changes with it.      *)
LEMMA CommittedIs ==
  ASSUME NEW a \in Arcs, NEW d \in Nat
  PROVE  /\ Committed(a, d) \in Arcs
         /\ Committed(a, d).route = a.route /\ Committed(a, d).betrayals = a.betrayals
         /\ a.commitment = 0 /\ d = 2 => Committed(a, d).commitment < Lock
<1>1. /\ a.route \in Routes \union {None} /\ a.commitment \in 0..Lock
      /\ a.betrayals \in 0..Betrayals
  BY DEF Arcs
<1>2. Committed(a, d) = [route |-> a.route, commitment |-> AtMost(a.commitment + d, Lock),
                         betrayals |-> a.betrayals]
  BY DEF Committed, Arcs
<1>3. AtMost(a.commitment + d, Lock) \in 0..Lock
  BY <1>1, StoryAssumption DEF AtMost
<1>4. AtMost(0 + 2, Lock) < Lock
  BY StoryAssumption DEF AtMost
<1> QED BY <1>1, <1>2, <1>3, <1>4 DEF Arcs

(* The arc after a step is one, and every change of its route obeys the    *)
(* rules.                                                                  *)
Turned(a, b) ==
  a.route # None /\ b.route # a.route =>
    /\ b.route # None /\ a.commitment < Lock
    /\ b.betrayals = a.betrayals + 1 /\ b.betrayals <= Betrayals
    /\ b.commitment < Lock

(* What a choice makes of the arc.                                         *)
LEMMA ArcStep ==
  ASSUME TypeOK, [Next]_vars
  PROVE  arc' \in Arcs /\ Turned(arc, arc')
<1>0. arc \in Arcs /\ Turned(arc, arc)
  BY DEF TypeOK, Arcs, Turned
<1>1. CASE Act
  <2>1. CASE arc.route # None
    <3>1. PICK d \in 0..Lock : arc' = Committed(arc, d)
      BY <1>1, <2>1 DEF Act, ArcAfter
    <3>2. d \in Nat
      BY StoryAssumption
    <3> QED BY <1>0, <3>1, <3>2, CommittedIs DEF Turned
  <2>2. CASE arc.route = None
    <3>1. arc' = arc \/ \E r \in Routes : arc' = Switched(arc, r)
      BY <1>1, <2>2 DEF Act, ArcAfter
    <3> QED BY <1>0, <2>2, <3>1, SwitchedIs DEF Turned
  <2> QED BY <2>1, <2>2
<1>2. ASSUME NEW r \in Routes, Commit(r) PROVE arc' \in Arcs /\ Turned(arc, arc')
  <2> DEFINE mid == Switched(arc, r)
  <2>1. /\ mid \in Arcs
        /\ mid.route # arc.route =>
             /\ mid.route = r /\ mid.commitment = 0
             /\ arc.commitment < Lock /\ arc.betrayals < Betrayals
             /\ arc.route # None => mid.betrayals = arc.betrayals + 1
    BY <1>0, SwitchedIs
  <2>2. arc' = Committed(mid, 2)
    BY <1>2 DEF Commit
  <2> HIDE DEF mid
  <2>3. /\ arc' \in Arcs
        /\ arc'.route = mid.route /\ arc'.betrayals = mid.betrayals
        /\ mid.commitment = 0 => arc'.commitment < Lock
    BY <2>1, <2>2, CommittedIs
  <2>4. r # None /\ arc.betrayals \in Nat /\ Betrayals \in Nat
    BY <1>0, StoryAssumption DEF Arcs
  <2> QED BY <2>1, <2>3, <2>4 DEF Turned
<1>3. CASE Wait
  BY <1>0, <1>3 DEF Wait
<1>4. CASE Defeat
  BY <1>0, <1>4 DEF Defeat
<1>5. ASSUME NEW there \in {"hub", "location", "fight"}, Go(there)
      PROVE  arc' \in Arcs /\ Turned(arc, arc')
  BY <1>0, <1>5 DEF Go
<1>6. CASE Freeze
  BY <1>0, <1>6 DEF Freeze
<1>7. CASE UNCHANGED vars
  BY <1>0, <1>7 DEF vars
<1> QED BY <1>1, <1>2, <1>3, <1>4, <1>5, <1>6, <1>7 DEF Next, Turn

(* The initial state is well typed.                                        *)
LEMMA TypeInit == Init => TypeOK
<1> SUFFICES ASSUME Init PROVE TypeOK
  OBVIOUS
<1>1. 0 \in 0..Lock /\ 0 \in 0..Betrayals /\ 0 \in 0..(Stale + Hints + Closing)
      /\ 0 \in 0..Longest /\ First \in Stages
  BY StoryAssumption, LongestIs
<1>2. arc \in [route : Routes \union {None}, commitment : 0..Lock, betrayals : 0..Betrayals]
  BY <1>1 DEF Init
<1> QED BY <1>1, <1>2 DEF Init, TypeOK

(* The clocks of a turn.                                                   *)
LEMMA TurnsStep ==
  ASSUME TypeOK, NEW n \in Nat, Turns(n)
  PROVE  turn' \in 0..Longest /\ seed' = seed
  BY LongestIs DEF Turns, TypeOK, AtMost

(* A turn that is no action leaves the quest alone.                        *)
LEMMA ElsewhereStep ==
  ASSUME TypeOK, NEW n \in Nat, Elsewhere(n)
  PROVE  /\ turn' \in 0..Longest /\ age' \in 0..(Stale + Hints + Closing) /\ age <= age'
         /\ UNCHANGED <<stage, facts, idle, open, seed, beat>>
  BY TurnsStep, LaterIs DEF Elsewhere, TypeOK, quest

(* An action gives the quest what ProgressIs says, and counts as idle only *)
(* while the stage is too young for a hint to be a fact.                   *)
LEMMA ActStep ==
  ASSUME TypeOK, Act
  PROVE  /\ turn' \in 0..Longest /\ seed' = seed
         /\ stage' \in Stages /\ facts' \subseteq Facts
         /\ age' \in 0..(Stale + Hints + Closing)
         /\ \/ idle' = 0
            \/ idle' = idle + 1 /\ age' = age + 1 /\ age' < Stale + Hints - 1
<1>1. PICK found \in {S \in SUBSET (Facts \ facts) : Cardinality(S) <= 2} :
        \E p \in Progress(found, Later(age, 1)) :
          /\ stage' = p.stage /\ facts' = p.facts /\ age' = p.age
          /\ idle' = IF p.stage = stage /\ p.facts = facts /\ stage # Last THEN idle + 1 ELSE 0
  BY DEF Act
<1> DEFINE a == Later(age, 1)
<1>2. PICK p \in Progress(found, a) :
        /\ stage' = p.stage /\ facts' = p.facts /\ age' = p.age
        /\ idle' = IF p.stage = stage /\ p.facts = facts /\ stage # Last THEN idle + 1 ELSE 0
  BY <1>1
<1>3. /\ a \in 0..(Stale + Hints + Closing)
      /\ a < Stale + Hints - 1 => a = age + 1
  BY LaterIs DEF TypeOK
<1>4. a \in Nat /\ 0 \in 0..(Stale + Hints + Closing)
  BY <1>3, StoryAssumption
<1> HIDE DEF a
<1>5. /\ p.stage \in Stages /\ p.facts \subseteq Facts
      /\ p.age = IF p.stage # stage THEN 0 ELSE a
      /\ p.stage = stage /\ p.facts = facts /\ stage # Last => a < Stale + Hints - 1
  BY <1>4, ProgressIs
<1>6. turn' \in 0..Longest /\ seed' = seed
  BY TurnsStep DEF Act
<1> QED BY <1>2, <1>3, <1>4, <1>5, <1>6

(* Every step keeps the types: one case per action.                        *)
LEMMA TypeStep == TypeOK /\ [Next]_vars => TypeOK'
<1> SUFFICES ASSUME TypeOK, [Next]_vars PROVE TypeOK'
  OBVIOUS
<1>0. arc' \in [route : Routes \union {None}, commitment : 0..Lock, betrayals : 0..Betrayals]
  BY ArcStep DEF Arcs
<1>1. CASE Act
  <2>1. idle' \in Nat
    BY <1>1, ActStep DEF TypeOK
  <2>2. open' \in BOOLEAN /\ over' \in BOOLEAN /\ beat' \in BOOLEAN /\ place' = place
    BY <1>1 DEF TypeOK, Act, Closed, Resolved, ActsOver
  <2> QED BY <1>0, <1>1, <2>1, <2>2, ActStep DEF TypeOK
<1>2. ASSUME NEW r \in Routes, Commit(r) PROVE TypeOK'
  BY <1>0, <1>2, ElsewhereStep DEF TypeOK, Commit
<1>3. CASE Wait
  BY <1>0, <1>3, ElsewhereStep DEF TypeOK, Wait
<1>4. CASE Defeat
  BY <1>0, <1>4, ElsewhereStep DEF TypeOK, Defeat
<1>5. ASSUME NEW there \in {"hub", "location", "fight"}, Go(there) PROVE TypeOK'
  BY <1>0, <1>5, ElsewhereStep DEF TypeOK, Go
<1>6. CASE Freeze
  BY <1>0, <1>6 DEF TypeOK, Freeze, quest
<1>7. CASE UNCHANGED vars
  BY <1>0, <1>7 DEF TypeOK, vars, quest
<1> QED BY <1>1, <1>2, <1>3, <1>4, <1>5, <1>6, <1>7 DEF Next, Turn

(* Every state is well typed.                                              *)
THEOREM StoryTypes == Spec => []TypeOK
<1> QED BY TypeInit, TypeStep, PTL DEF Spec

(* The rules of the route hold for every number of betrayals and every     *)
(* lock above the commitment that CanSwitch allows.                        *)
THEOREM RouteIsKept == Spec => RouteKept
<1>1. TypeOK /\ [Next]_vars => [arc.route # None /\ arc'.route # arc.route =>
       /\ arc'.route # None /\ arc.commitment < Lock
       /\ arc'.betrayals = arc.betrayals + 1 /\ arc'.betrayals <= Betrayals
       /\ arc'.commitment < Lock]_vars
  BY ArcStep DEF Turned
<1> QED BY <1>1, StoryTypes, PTL DEF Spec, RouteKept

-----------------------------------------------------------------------------
\* No dead end

(* Actions that brought nothing are as old as the stage at most, and the   *)
(* stage was young at the last of them.                                    *)
Young == idle <= age /\ idle < Stale + Hints - 1

(* Every step keeps it.                                                    *)
LEMMA YoungStep == TypeOK /\ Young /\ [Next]_vars => Young'
<1> SUFFICES ASSUME TypeOK, Young, [Next]_vars PROVE Young'
  OBVIOUS
<1>0. Stale + Hints - 1 \in Nat \ {0} /\ age \in Nat /\ idle \in Nat
  BY StoryAssumption DEF TypeOK
<1>1. CASE Act
  <2>1. age' \in Nat
    BY <1>1, ActStep
  <2> QED BY <1>0, <1>1, <2>1, ActStep DEF Young
<1>2. ASSUME NEW n \in Nat, Elsewhere(n) PROVE Young'
  <2>1. age' \in Nat /\ age <= age' /\ idle' = idle
    BY <1>2, ElsewhereStep
  <2> QED BY <1>0, <2>1 DEF Young
<1>3. ASSUME UNCHANGED <<idle, age>> PROVE Young'
  BY <1>3 DEF Young
<1> QED BY <1>1, <1>2, <1>3 DEF Next, Turn, Commit, Wait, Go, Defeat, Freeze, vars, quest

(* The quest has no dead end, whatever its transitions ask for.            *)
THEOREM QuestHasNoDeadEnd == Spec => []NeverStuck
<1>1. Init => Young
  BY StoryAssumption DEF Init, Young
<1>2. Young => NeverStuck
  BY DEF Young, NeverStuck
<1> QED BY <1>1, <1>2, StoryTypes, YoungStep, PTL DEF Spec

-----------------------------------------------------------------------------
(* The kit: which item a hint stands for.                                  *)

(* The values of the items have a greatest one.                            *)
LEMMA ValuesBounded == \E m \in Nat : \A i \in Items : Value[i] <= m
<1> DEFINE Bounded(S) == \E m \in Nat : \A i \in S : Value[i] <= m
<1> SUFFICES ASSUME ~ Bounded(Items) PROVE FALSE
  OBVIOUS
<1> DEFINE Bad == {S \in FiniteSubsetsOf(Items) : ~ Bounded(S)}
<1>1. IsFiniteSet(Items) /\ \A i \in Items : Value[i] \in Nat
  BY CombatAssumption
<1>2. Bad \subseteq FiniteSubsetsOf(Items) /\ Items \in Bad
  BY <1>1 DEF FiniteSubsetsOf
<1>3. PICK low \in Bad : \A b \in Bad : <<b, low>> \notin StrictSubsetOrdering(Items)
  BY <1>2, <1>1, FS_StrictSubsetOrderingWellFounded, WFMin
<1>4. PICK x \in low : TRUE
  <2>1. CASE low = {}
    <3>1. Bounded({})
      BY 0 \in Nat
    <3> QED BY <2>1, <3>1
  <2> QED BY <2>1
<1>5. low \subseteq Items /\ IsFiniteSet(low) /\ x \in Items
  BY <1>3, <1>4 DEF FiniteSubsetsOf
<1>6. low \ {x} \in FiniteSubsetsOf(Items)
  BY <1>5, FS_Subset DEF FiniteSubsetsOf
<1>7. <<low \ {x}, low>> \in StrictSubsetOrdering(Items)
  BY <1>4, <1>5, <1>6 DEF StrictSubsetOrdering, FiniteSubsetsOf
<1>8. Bounded(low \ {x})
  BY <1>3, <1>6, <1>7
<1>9. PICK m \in Nat : \A i \in low \ {x} : Value[i] <= m
  BY <1>8
<1>10. \A i \in low : Value[i] <= m + Value[x]
  BY <1>1, <1>4, <1>5, <1>9
<1>11. Bounded(low)
  BY <1>1, <1>5, <1>10
<1> QED BY <1>3, <1>11

(* Of some items one has the least slot.                                   *)
LEMMA FirstSlot ==
  ASSUME NEW S \in SUBSET Items, S # {}
  PROVE  \E i \in S : \A j \in S : Slot[i] <= Slot[j]
<1> DEFINE slots == {Slot[i] : i \in S}
<1>1. slots \in SUBSET Nat /\ slots # {}
  BY CombatAssumption
<1>2. PICK n \in slots : \A m \in slots : n <= m
  BY <1>1, LeastIs
<1> QED BY <1>2

(* Of some items one is the best: the greatest value, and among those the  *)
(* least slot.                                                             *)
LEMMA BestItem ==
  ASSUME NEW S \in SUBSET Items, S # {}
  PROVE  \E i \in S : \A j \in S :
           Value[j] < Value[i] \/ (Value[j] = Value[i] /\ Slot[i] <= Slot[j])
<1>1. \A i \in Items : Value[i] \in Nat /\ Slot[i] \in Nat
  BY CombatAssumption
<1> DEFINE Above == {m \in Nat : \A i \in S : Value[i] <= m}
<1>2. Above \in SUBSET Nat /\ Above # {}
  BY ValuesBounded
<1>3. PICK top \in Above : \A m \in Above : top <= m
  BY <1>2, LeastIs
<1> DEFINE Best == {i \in S : Value[i] = top}
<1>4. Best # {}
  <2> SUFFICES ASSUME Best = {} PROVE FALSE
    OBVIOUS
  <2>1. \A i \in S : Value[i] < top /\ Value[i] \in Nat
    BY <1>1, <1>3
  <2>2. PICK i \in S : TRUE
    OBVIOUS
  <2>3. top - 1 \in Above
    BY <2>1, <2>2
  <2> QED BY <1>3, <2>3
<1>5. PICK i \in Best : \A j \in Best : Slot[i] <= Slot[j]
  BY <1>4, FirstSlot
<1>6. \A j \in S : Value[j] < Value[i] \/ (Value[j] = Value[i] /\ Slot[i] <= Slot[j])
  BY <1>1, <1>3, <1>5
<1> QED BY <1>5, <1>6

(* A unit that uses an item uses one that is held.                         *)
LEMMA ItemForIs ==
  ASSUME NEW b, NEW h, Held(b) # {}
  PROVE  ItemFor(b, h) \in Held(b)
<1>1. Held(b) \in SUBSET Items /\ Wanted(b, h) \subseteq Held(b)
  BY DEF Held, Wanted
<1>2. CASE Wanted(b, h) # {}
  <2>1. \E i \in Wanted(b, h) : \A j \in Wanted(b, h) :
          Value[j] < Value[i] \/ (Value[j] = Value[i] /\ Slot[i] <= Slot[j])
    BY <1>1, <1>2, BestItem
  <2>2. ItemFor(b, h) \in Wanted(b, h)
    BY <1>2, <2>1 DEF ItemFor
  <2> QED BY <1>1, <2>2
<1>3. CASE Wanted(b, h) = {}
  <2>1. \E i \in Held(b) : \A j \in Held(b) : Slot[i] <= Slot[j]
    BY <1>1, FirstSlot
  <2> QED BY <1>3, <2>1 DEF ItemFor
<1> QED BY <1>2, <1>3

-----------------------------------------------------------------------------
(* The battle a turn works on.                                             *)

(* The statuses left of an enemy, an enemy, and a battle in which at most  *)
(* n of every item are used up.                                            *)
Lefts == [Statuses -> 0..3]
FoeRecords == [hp : Nat, dist : 0..MaxDistance, left : Lefts]
Battles(n) ==
  [hp : 0..MaxHp, stamina : 0..MaxStamina, foe : [Foes -> FoeRecords],
   bag : [Items -> 0..MaxQty], outcome : Outcomes, removed : [Items -> 0..n],
   missed : SUBSET Foes, thrown : SUBSET Foes]

(* What holds of an enemy x that was y when the turn began and at which    *)
(* nothing was thrown: an item stunned it only when it was not immune.     *)
Spared(x, y) ==
  x.hp > 0 =>
    /\ y.hp > 0 /\ x.left["STUN"] \in {0, 1}
    /\ x.left["STUN"] = 1 => x.left["STUN_IMMUNE"] = 0
    /\ x.left["STUN_IMMUNE"] = y.left["STUN_IMMUNE"]

(* The battle during the player's units: the player stands, the items are  *)
(* in the bag or used up, and the enemies are as Spared says.              *)
Struck(b, n) ==
  /\ b \in Battles(n)
  /\ b.hp > 0 /\ b.outcome = "ONGOING" /\ b.missed = {}
  /\ \A i \in Items : b.bag[i] + b.removed[i] = bag[i]
  /\ \A f \in Foes \ (tangled \union b.thrown) : Spared(b.foe[f], foe[f])

(* A battle whose fields but the enemies, the hit points and the stamina   *)
(* are those of a battle of the player's units is one too.                 *)
LEMMA StruckKept ==
  ASSUME NEW n \in Nat, NEW b, Struck(b, n), NEW x \in Battles(n), x.hp > 0,
         x.outcome = b.outcome, x.missed = b.missed, x.bag = b.bag, x.removed = b.removed,
         b.thrown \subseteq x.thrown,
         \A f \in Foes \ (tangled \union x.thrown) : Spared(x.foe[f], foe[f])
  PROVE  Struck(x, n)
BY DEF Struck

(* A battle with other enemies.                                            *)
WithFoes(b, e) == [b EXCEPT !.foe = e]

(* What stays of a battle that gets other enemies.                         *)
LEMMA WithFoesIs ==
  ASSUME NEW n \in Nat, NEW b \in Battles(n), NEW e \in [Foes -> FoeRecords]
  PROVE  LET x == WithFoes(b, e) IN
         /\ x \in Battles(n) /\ x.foe = e
         /\ x.hp = b.hp /\ x.stamina = b.stamina /\ x.outcome = b.outcome /\ x.missed = b.missed
         /\ x.bag = b.bag /\ x.removed = b.removed /\ x.thrown = b.thrown
BY DEF WithFoes, Battles

(* Stamina that comes back.                                                *)
LEMMA RestedKeeps ==
  ASSUME NEW n \in Nat, NEW b, Struck(b, n), NEW m \in Nat
  PROVE  Struck(Rested(b, m), n)
<1> DEFINE x == Rested(b, m)
<1>1. b \in Battles(n) /\ b.stamina \in 0..MaxStamina /\ MaxStamina \in Nat
  BY CombatAssumption DEF Struck, Battles
<1>2. Least(MaxStamina, b.stamina + m) \in 0..MaxStamina
  BY <1>1 DEF Least
<1>3. x \in Battles(n) /\ x = [b EXCEPT !.stamina = Least(MaxStamina, b.stamina + m)]
  BY <1>1, <1>2 DEF Rested, Battles
<1>4. /\ x.hp = b.hp /\ x.outcome = b.outcome /\ x.missed = b.missed /\ x.bag = b.bag
      /\ x.removed = b.removed /\ x.thrown = b.thrown /\ x.foe = b.foe
  BY <1>1, <1>3 DEF Battles
<1>5. x.hp > 0 /\ \A f \in Foes \ (tangled \union x.thrown) : Spared(x.foe[f], foe[f])
  BY <1>4 DEF Struck
<1> HIDE DEF x
<1>6. Struck(x, n)
  BY <1>3, <1>4, <1>5, StruckKept
<1> QED BY <1>6 DEF x

(* The enemies of a battle may be replaced by ones that are no worse.      *)
LEMMA FoesReplaced ==
  ASSUME NEW n \in Nat, NEW b, Struck(b, n), NEW e \in [Foes -> FoeRecords],
         \A f \in Foes \ (tangled \union b.thrown) : Spared(e[f], foe[f])
  PROVE  Struck(WithFoes(b, e), n)
<1> DEFINE x == WithFoes(b, e)
<1>1. b \in Battles(n)
  BY DEF Struck
<1>2. x \in Battles(n)
  BY <1>1, WithFoesIs
<1>3. /\ x.hp = b.hp /\ x.outcome = b.outcome /\ x.missed = b.missed /\ x.bag = b.bag
      /\ x.removed = b.removed /\ x.thrown = b.thrown /\ x.foe = e
  BY <1>1, WithFoesIs
<1>4. x.hp > 0 /\ \A f \in Foes \ (tangled \union x.thrown) : Spared(x.foe[f], foe[f])
  BY <1>3 DEF Struck
<1> HIDE DEF x
<1>5. Struck(x, n)
  BY <1>2, <1>3, <1>4, StruckKept
<1> QED BY <1>5 DEF x

(* A status that lasts: the enemy's other fields and statuses stay.        *)
LEMMA LastingIs ==
  ASSUME NEW n \in Nat, NEW b \in Battles(n), NEW f \in Foes, NEW s \in Statuses, NEW m \in 0..3
  PROVE  \E e \in [Foes -> FoeRecords] :
           /\ Lasting(b, f, s, m) = WithFoes(b, e)
           /\ \A g \in Foes \ {f} : e[g] = b.foe[g]
           /\ e[f].hp = b.foe[f].hp
           /\ e[f].left[s] = Most(b.foe[f].left[s], m)
           /\ \A t \in Statuses \ {s} : e[f].left[t] = b.foe[f].left[t]
<1> DEFINE y == b.foe[f]
           v == Most(y.left[s], m)
           l == [y.left EXCEPT ![s] = v]
           z == [y EXCEPT !.left = l]
           e == [b.foe EXCEPT ![f] = z]
<1>1. b.foe \in [Foes -> FoeRecords] /\ y \in FoeRecords /\ y.left \in Lefts
  BY DEF Battles, FoeRecords
<1>2. v \in 0..3
  BY <1>1 DEF Lefts, Most
<1>3. l \in Lefts
  BY <1>1, <1>2 DEF Lefts
<1>4. z \in FoeRecords /\ z.hp = y.hp /\ z.left = l
  BY <1>1, <1>3 DEF FoeRecords
<1>5. e \in [Foes -> FoeRecords] /\ e[f] = z /\ \A g \in Foes \ {f} : e[g] = b.foe[g]
  BY <1>1, <1>4
<1>6. Lasting(b, f, s, m) = WithFoes(b, e)
  BY DEF Lasting, WithFoes
<1>7. l[s] = v /\ \A t \in Statuses \ {s} : l[t] = y.left[t]
  BY <1>1 DEF Lefts
<1>8. /\ e[f].hp = b.foe[f].hp
      /\ e[f].left[s] = Most(b.foe[f].left[s], m)
      /\ \A t \in Statuses \ {s} : e[f].left[t] = b.foe[f].left[t]
  BY <1>4, <1>5, <1>7
<1> HIDE DEF e
<1> QED BY <1>5, <1>6, <1>8

(* Something thrown: the enemy it tangles is no longer spared.             *)
LEMMA ThrownKeeps ==
  ASSUME NEW n \in Nat, NEW b, Struck(b, n), NEW f \in Foes,
         NEW c \in {"NONE"} \union DOMAIN Improvised, NEW x \in Thrown(b, f, c)
  PROVE  Struck(x, n)
<1>1. CASE x = b
  BY <1>1
<1>2. CASE x # b
  <2>1. c \in {"STUN", "DOT"} /\ b.foe[f].hp # 0
    BY <1>2 DEF Thrown, Improvised
  <2>2. x = [Lasting(b, f, c, Improvised[c]) EXCEPT !.thrown = @ \union {f}]
    BY <1>2, <2>1 DEF Thrown
  <2>3. c \in Statuses /\ Improvised[c] \in 0..3 /\ b \in Battles(n)
    BY <2>1 DEF Statuses, Improvised, Struck
  <2>4. PICK e \in [Foes -> FoeRecords] :
          /\ Lasting(b, f, c, Improvised[c]) = WithFoes(b, e)
          /\ \A g \in Foes \ {f} : e[g] = b.foe[g]
    BY <2>3, LastingIs
  <2> DEFINE y == WithFoes(b, e)
  <2>y. /\ y \in Battles(n) /\ y.foe = e
        /\ y.hp = b.hp /\ y.stamina = b.stamina /\ y.outcome = b.outcome /\ y.missed = b.missed
        /\ y.bag = b.bag /\ y.removed = b.removed /\ y.thrown = b.thrown
    BY <2>3, WithFoesIs
  <2>z. x = [y EXCEPT !.thrown = @ \union {f}]
    BY <2>2, <2>4
  <2> HIDE DEF y
  <2>5. /\ x \in Battles(n) /\ x.foe = e /\ x.thrown = b.thrown \union {f}
        /\ x.hp = b.hp /\ x.outcome = b.outcome /\ x.missed = b.missed
        /\ x.bag = b.bag /\ x.removed = b.removed
    BY <2>y, <2>z DEF Battles
  <2>6. \A g \in Foes \ (tangled \union x.thrown) : Spared(x.foe[g], foe[g])
    BY <2>4, <2>5 DEF Struck
  <2>7. x.hp > 0
    BY <2>5 DEF Struck
  <2> QED BY <2>5, <2>6, <2>7, StruckKept
<1> QED BY <1>1, <1>2

(* An attack, with or without something thrown.                            *)
LEMMA AttackKeeps ==
  ASSUME NEW n \in Nat, NEW b, Struck(b, n), NEW f \in Foes,
         NEW c \in {"NONE"} \union DOMAIN Improvised, NEW x \in Attack(b, f, c)
  PROVE  Struck(x, n)
<1>1. CASE x = b
  BY <1>1
<1>2. CASE x # b
  <2>1. b.foe \in [Foes -> FoeRecords] /\ b.foe[f] \in FoeRecords /\ b.foe[f].hp \in Nat
    BY DEF Struck, Battles, FoeRecords
  <2>2. PICK k \in 0..(b.foe[f].hp - 1) : x \in Thrown([b EXCEPT !.foe[f].hp = k], f, c)
    BY <1>2 DEF Attack
  <2> DEFINE z == [b.foe[f] EXCEPT !.hp = k]
             e == [b.foe EXCEPT ![f] = z]
  <2>3. k \in Nat /\ k < b.foe[f].hp
    BY <2>1, <2>2
  <2>4. z \in FoeRecords /\ z.hp = k /\ z.left = b.foe[f].left
    BY <2>1, <2>3 DEF FoeRecords
  <2>5. e \in [Foes -> FoeRecords] /\ e[f] = z /\ \A g \in Foes \ {f} : e[g] = b.foe[g]
    BY <2>1, <2>4
  <2>6. [b EXCEPT !.foe[f].hp = k] = WithFoes(b, e)
    BY DEF WithFoes
  <2> HIDE DEF e, z
  <2>7. \A g \in Foes \ (tangled \union b.thrown) : Spared(e[g], foe[g])
    <3> SUFFICES ASSUME NEW g \in Foes \ (tangled \union b.thrown) PROVE Spared(e[g], foe[g])
      OBVIOUS
    <3>1. Spared(b.foe[g], foe[g])
      BY DEF Struck
    <3>2. CASE g = f
      BY <3>1, <3>2, <2>1, <2>3, <2>4, <2>5 DEF Spared
    <3>3. CASE g # f
      BY <3>1, <3>3, <2>5
    <3> QED BY <3>2, <3>3
  <2>8. Struck(WithFoes(b, e), n)
    BY <2>5, <2>7, FoesReplaced
  <2> QED BY <2>2, <2>6, <2>8, ThrownKeeps
<1> QED BY <1>1, <1>2

(* An enemy that comes closer or falls back only changes its distance.     *)
LEMMA StepIs ==
  ASSUME NEW x \in FoeRecords, NEW y \in {Closer(x), Farther(x)}
  PROVE  y \in FoeRecords /\ y.hp = x.hp /\ y.left = x.left
<1>1. x.dist \in 0..MaxDistance /\ MaxDistance \in Nat
  BY CombatAssumption DEF FoeRecords
<1>2. Most(0, x.dist - 1) \in 0..MaxDistance /\ Least(MaxDistance, x.dist + 1) \in 0..MaxDistance
  BY <1>1 DEF Most, Least
<1> DEFINE near == Most(0, x.dist - 1)
           far == Least(MaxDistance, x.dist + 1)
<1>3. Closer(x) = [x EXCEPT !.dist = near] /\ Farther(x) = [x EXCEPT !.dist = far]
  BY DEF Closer, Farther
<1> HIDE DEF near, far
<1>4. near \in 0..MaxDistance /\ far \in 0..MaxDistance
  BY <1>2 DEF near, far
<1> QED BY <1>3, <1>4 DEF FoeRecords

(* A step: only distances change.                                          *)
LEMMA MoveKeeps ==
  ASSUME NEW n \in Nat, NEW b, Struck(b, n), NEW d
  PROVE  Struck(Move(b, d), n)
<1> DEFINE y(f) == b.foe[f]
           z(f) == IF y(f).hp = 0 THEN y(f) ELSE IF d = "FORWARD" THEN Closer(y(f)) ELSE Farther(y(f))
           e == [f \in Foes |-> z(f)]
<1>1. \A f \in Foes : y(f) \in FoeRecords
  BY DEF Struck, Battles
<1>3. \A f \in Foes : z(f) \in FoeRecords /\ z(f).hp = y(f).hp /\ z(f).left = y(f).left
  BY <1>1, StepIs
<1>4. Move(b, d) = WithFoes(b, e)
  BY DEF Move, WithFoes
<1> HIDE DEF z
<1>5. e \in [Foes -> FoeRecords]
  BY <1>3
<1>6. \A f \in Foes \ (tangled \union b.thrown) : Spared(e[f], foe[f])
  <2> SUFFICES ASSUME NEW f \in Foes \ (tangled \union b.thrown) PROVE Spared(e[f], foe[f])
    OBVIOUS
  <2>1. Spared(b.foe[f], foe[f])
    BY DEF Struck
  <2>2. e[f].hp = b.foe[f].hp /\ e[f].left = b.foe[f].left
    BY <1>3
  <2> QED BY <2>1, <2>2 DEF Spared
<1> QED BY <1>4, <1>5, <1>6, FoesReplaced

(* The surroundings turned on the enemies: only their hit points go down.  *)
LEMMA EnvironmentKeeps ==
  ASSUME NEW n \in Nat, NEW b, Struck(b, n), NEW x \in Environment(b)
  PROVE  Struck(x, n)
<1> DEFINE y(f) == b.foe[f]
<1>1. PICK m \in [Foes -> UNION {0..FoeHp[f] : f \in Foes}] :
        /\ \A f \in Foes : m[f] <= Most(0, y(f).hp - 1)
        /\ x = [b EXCEPT !.foe = [f \in Foes |-> [@[f] EXCEPT !.hp = m[f]]]]
  BY DEF Environment
<1> DEFINE z(f) == [y(f) EXCEPT !.hp = m[f]]
           e == [f \in Foes |-> z(f)]
<1>2. \A f \in Foes : y(f) \in FoeRecords /\ y(f).hp \in Nat
  BY DEF Struck, Battles, FoeRecords
<1>3. \A f \in Foes : m[f] \in Nat
  <2> SUFFICES ASSUME NEW f \in Foes PROVE m[f] \in Nat
    OBVIOUS
  <2>1. m[f] \in UNION {0..FoeHp[g] : g \in Foes}
    BY <1>1
  <2>2. PICK g \in Foes : m[f] \in 0..FoeHp[g]
    BY <2>1
  <2> QED BY <2>2
<1>4. \A f \in Foes : m[f] <= y(f).hp
  <2> SUFFICES ASSUME NEW f \in Foes PROVE m[f] <= y(f).hp
    OBVIOUS
  <2>1. m[f] \in Nat /\ y(f).hp \in Nat /\ m[f] <= Most(0, y(f).hp - 1)
    BY <1>1, <1>2, <1>3
  <2> QED BY <2>1 DEF Most
<1>5. \A f \in Foes : z(f) \in FoeRecords /\ z(f).hp = m[f] /\ z(f).left = y(f).left
  BY <1>2, <1>3 DEF FoeRecords
<1>6. x = WithFoes(b, e)
  BY <1>1 DEF WithFoes
<1> HIDE DEF z
<1>7. e \in [Foes -> FoeRecords]
  BY <1>5
<1>8. \A f \in Foes \ (tangled \union b.thrown) : Spared(e[f], foe[f])
  <2> SUFFICES ASSUME NEW f \in Foes \ (tangled \union b.thrown) PROVE Spared(e[f], foe[f])
    OBVIOUS
  <2>1. Spared(b.foe[f], foe[f])
    BY DEF Struck
  <2>2. e[f].hp = m[f] /\ e[f].left = b.foe[f].left
    BY <1>5
  <2>3. m[f] \in Nat /\ b.foe[f].hp \in Nat /\ m[f] <= b.foe[f].hp
    BY <1>2, <1>3, <1>4
  <2> QED BY <2>1, <2>2, <2>3 DEF Spared
<1> QED BY <1>6, <1>7, <1>8, FoesReplaced

(* An item that is used up leaves the bag.                                 *)
LEMMA ConsumedKeeps ==
  ASSUME NEW n \in Nat, NEW b, Struck(b, n), NEW i \in Held(b)
  PROVE  Struck(Consumed(b, i), n + 1)
<1> DEFINE p == [b.bag EXCEPT ![i] = @ - 1]
           r == [b.removed EXCEPT ![i] = @ + 1]
           x == [b EXCEPT !.bag = p, !.removed = r]
<1>1. i \in Items /\ b.bag \in [Items -> 0..MaxQty] /\ b.removed \in [Items -> 0..n] /\ b.bag[i] > 0
  BY DEF Struck, Battles, Held
<1>2. b.bag[i] - 1 \in 0..MaxQty /\ b.removed[i] + 1 \in 0..(n + 1) /\ MaxQty \in Nat
  BY <1>1, CombatAssumption
<1>3. p \in [Items -> 0..MaxQty] /\ p[i] = b.bag[i] - 1 /\ \A j \in Items \ {i} : p[j] = b.bag[j]
  BY <1>1, <1>2
<1>4. r \in [Items -> 0..(n + 1)] /\ r[i] = b.removed[i] + 1 /\ \A j \in Items \ {i} : r[j] = b.removed[j]
  BY <1>1, <1>2
<1>5. \A j \in Items : p[j] + r[j] = bag[j]
  <2> SUFFICES ASSUME NEW j \in Items PROVE p[j] + r[j] = bag[j]
    OBVIOUS
  <2>1. b.bag[j] + b.removed[j] = bag[j] /\ b.bag[j] \in Nat /\ b.removed[j] \in Nat
    BY <1>1 DEF Struck
  <2>2. CASE j = i
    BY <2>1, <2>2, <1>3, <1>4
  <2>3. CASE j # i
    BY <2>1, <2>3, <1>3, <1>4
  <2> QED BY <2>2, <2>3
<1>6. Consumed(b, i) = x
  BY DEF Consumed
<1> HIDE DEF p, r
<1>7. /\ x \in Battles(n + 1) /\ x.bag = p /\ x.removed = r /\ x.foe = b.foe /\ x.hp = b.hp
      /\ x.outcome = b.outcome /\ x.missed = b.missed /\ x.thrown = b.thrown
  BY <1>3, <1>4 DEF Struck, Battles
<1> HIDE DEF x
<1>8. x.hp > 0 /\ x.outcome = "ONGOING" /\ x.missed = {}
  BY <1>7 DEF Struck
<1>9. \A j \in Items : x.bag[j] + x.removed[j] = bag[j]
  BY <1>5, <1>7
<1>10. \A f \in Foes \ (tangled \union x.thrown) : Spared(x.foe[f], foe[f])
  BY <1>7 DEF Struck
<1>11. Struck(x, n + 1)
  BY <1>7, <1>8, <1>9, <1>10 DEF Struck
<1> QED BY <1>6, <1>11

(* An item's status: a stun reaches only an enemy that is not immune.      *)
LEMMA ApplyStatusKeeps ==
  ASSUME NEW n \in Nat, NEW b, Struck(b, n), NEW f \in Alive(b), NEW s \in {"STUN", "DOT"},
         NEW x \in ApplyStatus(b, f, s)
  PROVE  Struck(x, n)
<1>1. CASE x = b
  BY <1>1
<1>2. CASE x # b
  <2>1. x = Lasting(b, f, s, Duration[s]) /\ ~ (s = "STUN" /\ b.foe[f].left["STUN_IMMUNE"] > 0)
    BY <1>2 DEF ApplyStatus
  <2>2. s \in Statuses /\ Duration[s] \in 0..3 /\ b \in Battles(n) /\ f \in Foes
    BY DEF Statuses, Duration, Struck, Alive
  <2>3. PICK e \in [Foes -> FoeRecords] :
          /\ x = WithFoes(b, e)
          /\ \A g \in Foes \ {f} : e[g] = b.foe[g]
          /\ e[f].hp = b.foe[f].hp
          /\ e[f].left[s] = Most(b.foe[f].left[s], Duration[s])
          /\ \A t \in Statuses \ {s} : e[f].left[t] = b.foe[f].left[t]
    BY <2>1, <2>2, LastingIs
  <2>4. \A g \in Foes \ (tangled \union b.thrown) : Spared(e[g], foe[g])
    <3> SUFFICES ASSUME NEW g \in Foes \ (tangled \union b.thrown) PROVE Spared(e[g], foe[g])
      OBVIOUS
    <3>1. Spared(b.foe[g], foe[g])
      BY DEF Struck
    <3>2. CASE g # f
      BY <3>1, <3>2, <2>3
    <3>3. CASE g = f
      <4>1. b.foe[f] \in FoeRecords /\ b.foe[f].left \in [Statuses -> 0..3]
        BY <2>2 DEF Battles, FoeRecords, Lefts
      <4>2. "STUN" \in Statuses /\ "STUN_IMMUNE" \in Statuses /\ "DOT" \in Statuses
        BY DEF Statuses
      <4>3. e[f].left["STUN_IMMUNE"] = b.foe[f].left["STUN_IMMUNE"]
        BY <2>3, <4>2
      <4>4. CASE s = "DOT"
        <5>1. e[f].left["STUN"] = b.foe[f].left["STUN"]
          BY <2>3, <4>2, <4>4
        <5> QED BY <5>1, <4>3, <2>3, <3>1, <3>3 DEF Spared
      <4>5. CASE s = "STUN"
        <5>1. b.foe[f].left["STUN_IMMUNE"] \in 0..3 /\ ~ b.foe[f].left["STUN_IMMUNE"] > 0
          BY <2>1, <4>1, <4>2, <4>5
        <5>2. b.foe[f].left["STUN_IMMUNE"] = 0
          BY <5>1
        <5>3. e[f].left["STUN"] = Most(b.foe[f].left["STUN"], 1) /\ b.foe[f].left["STUN"] \in 0..3
          BY <2>3, <4>1, <4>2, <4>5 DEF Duration
        <5>4. b.foe[f].left["STUN"] \in {0, 1} => e[f].left["STUN"] = 1
          BY <5>3 DEF Most
        <5> QED BY <5>2, <5>4, <4>3, <2>3, <3>1, <3>3 DEF Spared
      <4> QED BY <4>4, <4>5
    <3> QED BY <3>2, <3>3
  <2> QED BY <2>3, <2>4, FoesReplaced
<1> QED BY <1>1, <1>2

(* What an item does.                                                      *)
LEMMA ItemEffectKeeps ==
  ASSUME NEW n \in Nat, NEW b, Struck(b, n), NEW i \in Items, NEW x \in ItemEffect(b, i)
  PROVE  Struck(x, n)
<1>1. Effect[i] \in {"HEAL_HP", "RESTORE_STAMINA", "FLEE_BONUS", "APPLY_STATUS"} /\ Value[i] \in Nat
  BY CombatAssumption DEF ItemHints
<1>2. CASE Effect[i] = "HEAL_HP"
  <2> DEFINE v == Least(MaxHp, b.hp + Value[i])
  <2>1. x = [b EXCEPT !.hp = v]
    BY <1>2 DEF ItemEffect
  <2>2. b \in Battles(n) /\ b.hp \in 0..MaxHp /\ b.hp > 0 /\ MaxHp \in Nat \ {0}
    BY CombatAssumption DEF Struck, Battles
  <2>3. v \in 0..MaxHp /\ v > 0
    BY <1>1, <2>2 DEF Least
  <2> HIDE DEF v
  <2>4. /\ x \in Battles(n) /\ x.hp = v /\ x.outcome = b.outcome /\ x.missed = b.missed
        /\ x.bag = b.bag /\ x.removed = b.removed /\ x.thrown = b.thrown /\ x.foe = b.foe
    BY <2>1, <2>2, <2>3 DEF Battles
  <2>5. x.hp > 0 /\ \A f \in Foes \ (tangled \union x.thrown) : Spared(x.foe[f], foe[f])
    BY <2>3, <2>4 DEF Struck
  <2> QED BY <2>4, <2>5, StruckKept
<1>3. CASE Effect[i] = "RESTORE_STAMINA"
  <2>1. x = Rested(b, Value[i])
    BY <1>3 DEF ItemEffect
  <2> QED BY <2>1, <1>1, RestedKeeps
<1>4. CASE Effect[i] = "FLEE_BONUS"
  BY <1>4 DEF ItemEffect
<1>5. CASE Effect[i] = "APPLY_STATUS"
  <2>1. x = b \/ \E f \in Alive(b), s \in {"STUN", "DOT"} : x \in ApplyStatus(b, f, s)
    BY <1>5 DEF ItemEffect
  <2> QED BY <2>1, ApplyStatusKeeps
<1> QED BY <1>1, <1>2, <1>3, <1>4, <1>5

(* A battle after so many items is one after more.                         *)
LEMMA StruckMore ==
  ASSUME NEW n \in Nat, NEW b, Struck(b, n)
  PROVE  Struck(b, n + 1)
<1>1. b \in Battles(n)
  BY DEF Struck
<1>2. 0..n \subseteq 0..(n + 1)
  OBVIOUS
<1>3. b \in Battles(n + 1)
  BY <1>1, <1>2 DEF Battles
<1> QED BY <1>3 DEF Struck

(* A unit that uses an item takes one from the bag.                        *)
LEMMA UseItemKeeps ==
  ASSUME NEW n \in Nat, NEW b, Struck(b, n), NEW h, NEW x \in UseItem(b, h)
  PROVE  Struck(x, n + 1)
<1>1. CASE Held(b) = {}
  <2>1. x = Rested(b, 1) /\ 1 \in Nat
    BY <1>1 DEF UseItem
  <2> QED BY <2>1, RestedKeeps, StruckMore
<1>2. CASE Held(b) # {}
  <2> DEFINE i == ItemFor(b, h)
  <2>1. i \in Held(b) /\ i \in Items
    BY <1>2, ItemForIs DEF Held
  <2>2. x \in ItemEffect(Consumed(b, i), i)
    BY <1>2 DEF UseItem
  <2>3. Struck(Consumed(b, i), n + 1) /\ n + 1 \in Nat
    BY <2>1, ConsumedKeeps
  <2> QED BY <2>1, <2>2, <2>3, ItemEffectKeeps
<1> QED BY <1>1, <1>2

(* The acts of a player's unit.                                            *)
LEMMA UnitIs ==
  ASSUME NEW u \in Units
  PROVE  /\ u.act \in {"ATTACK", "DEFEND", "MOVE", "USE_ITEM", "ENV", "EVADE", "FLEE", "LOOK"}
         /\ u.act = "ATTACK" => u.on \in Foes
BY DEF Units

(* A unit of the player uses up at most one item.                          *)
LEMMA PlayerUnitKeeps ==
  ASSUME NEW n \in Nat, NEW b, Struck(b, n), NEW u \in Units,
         NEW c \in {"NONE"} \union DOMAIN Improvised, NEW x \in PlayerUnit(b, u, c)
  PROVE  Struck(x, n + 1)
<1>1. CASE u.act = "ATTACK"
  <2>1. x \in Attack(b, u.on, c) /\ u.on \in Foes
    BY <1>1, UnitIs DEF PlayerUnit
  <2> QED BY <2>1, AttackKeeps, StruckMore
<1>2. CASE u.act = "DEFEND"
  <2>1. x = Rested(b, 1) /\ 1 \in Nat
    BY <1>2 DEF PlayerUnit
  <2> QED BY <2>1, RestedKeeps, StruckMore
<1>3. CASE u.act = "MOVE"
  <2>1. x = Move(b, u.on)
    BY <1>3 DEF PlayerUnit
  <2> QED BY <2>1, MoveKeeps, StruckMore
<1>4. CASE u.act = "USE_ITEM"
  <2>1. x \in UseItem(b, u.on)
    BY <1>4 DEF PlayerUnit
  <2> QED BY <2>1, UseItemKeeps
<1>5. CASE u.act = "ENV"
  <2>1. x \in Environment(b)
    BY <1>5 DEF PlayerUnit
  <2> QED BY <2>1, EnvironmentKeeps, StruckMore
<1>6. CASE u.act \in {"EVADE", "FLEE", "LOOK"}
  <2>1. x = b
    BY <1>6 DEF PlayerUnit
  <2> QED BY <2>1, StruckMore
<1> QED BY <1>1, <1>2, <1>3, <1>4, <1>5, <1>6, UnitIs

(* A plan is one unit or two.                                              *)
LEMMA PlanIs ==
  ASSUME NEW plan \in Plans
  PROVE  /\ Len(plan) \in {1, 2} /\ plan[1] \in Units
         /\ Len(plan) = 2 => plan[2] \in Units
BY CombatAssumption

(* The player's units use up at most two items.                            *)
LEMMA PlayerUnitsKeep ==
  ASSUME NEW b, Struck(b, 0), NEW plan \in Plans,
         NEW c \in {"NONE"} \union DOMAIN Improvised, NEW x \in PlayerUnits(b, plan, c)
  PROVE  Struck(x, 2)
<1>1. 0 \in Nat /\ 1 \in Nat /\ 0 + 1 = 1 /\ 1 + 1 = 2 /\ 1 # 2
  OBVIOUS
<1>2. CASE Len(plan) = 1
  <2>1. x \in PlayerUnit(b, plan[1], c)
    BY <1>2 DEF PlayerUnits
  <2>2. Struck(x, 0 + 1)
    BY <1>1, <2>1, PlanIs, PlayerUnitKeeps
  <2> QED BY ONLY <1>1, <2>2, StruckMore
<1>3. CASE Len(plan) = 2
  <2> DEFINE d == IF plan[1].act = "ATTACK" THEN "NONE" ELSE c
  <2>1. PICK y \in PlayerUnit(b, plan[1], c) : x \in PlayerUnit(y, plan[2], d)
    BY <1>1, <1>3 DEF PlayerUnits
  <2>2. Struck(y, 0 + 1)
    BY <1>1, <2>1, PlanIs, PlayerUnitKeeps
  <2>3. Struck(y, 1) /\ plan[2] \in Units /\ d \in {"NONE"} \union DOMAIN Improvised
    BY <1>1, <1>3, <2>2, PlanIs
  <2> HIDE DEF d
  <2>4. Struck(x, 1 + 1)
    BY <1>1, <2>1, <2>3, PlayerUnitKeeps
  <2> QED BY <1>1, <2>4
<1> QED BY <1>2, <1>3, PlanIs

-----------------------------------------------------------------------------
(* The enemies, and the end of the turn.                                   *)

(* What a turn may have come to, with the hit points and the enemies it    *)
(* then has.                                                               *)
Outcome(b) ==
  /\ b.outcome \in {"ONGOING", "VICTORY", "DEFEAT", "FLEE_SUCCESS"}
  /\ b.outcome = "DEFEAT" <=> b.hp = 0
  /\ b.outcome = "VICTORY" => Alive(b) = {}
  /\ b.outcome \in {"ONGOING", "FLEE_SUCCESS"} => Alive(b) # {}

(* The enemies a turn threw nothing at, before the tick.                   *)
Calm(b) == \A f \in Foes \ (tangled \union b.thrown) : Spared(b.foe[f], foe[f])

(* The battle before the enemies act.                                      *)
Weighed(b) ==
  /\ b \in Battles(2) /\ Outcome(b) /\ Calm(b)
  /\ b.hp > 0 /\ b.missed = {}
  /\ \A i \in Items : b.removed[i] <= bag[i]

(* The battle after the enemies acted: the stunned ones missed the turn.   *)
Answered(b) ==
  /\ b \in Battles(2) /\ Outcome(b) /\ Calm(b)
  /\ \A f \in b.missed : b.foe[f].hp > 0 /\ b.foe[f].left["STUN"] > 0
  /\ b.outcome = "ONGOING" =>
       \A f \in Foes : b.foe[f].hp > 0 /\ b.foe[f].left["STUN"] > 0 => f \in b.missed
  /\ \A i \in Items : b.removed[i] <= bag[i]

(* What a turn that goes on leaves of the immunity of an enemy it threw    *)
(* nothing at, and which enemies it let miss their turn.                   *)
Yields(b) ==
  \A f \in Foes \ (tangled \union b.thrown) :
    /\ f \in b.missed => foe[f].hp > 0 /\ foe[f].left["STUN_IMMUNE"] = 0
    /\ b.outcome = "ONGOING" /\ b.foe[f].hp > 0 =>
         /\ foe[f].hp > 0 /\ b.foe[f].left["STUN"] = 0
         /\ b.foe[f].left["STUN_IMMUNE"] =
              IF f \in b.missed THEN 2 ELSE Most(0, foe[f].left["STUN_IMMUNE"] - 1)

(* The battle as a turn leaves it.                                         *)
Settled(b) ==
  /\ b \in Battles(2) /\ Outcome(b) /\ Yields(b)
  /\ \A i \in Items : b.removed[i] <= bag[i]

(* A battle with another outcome.                                          *)
WithOutcome(b, o) == [b EXCEPT !.outcome = o]

(* What stays of a battle that gets another outcome.                       *)
LEMMA WithOutcomeIs ==
  ASSUME NEW b \in Battles(2), NEW o \in Outcomes
  PROVE  LET x == WithOutcome(b, o) IN
         /\ x \in Battles(2) /\ x.outcome = o
         /\ x.hp = b.hp /\ x.foe = b.foe /\ x.missed = b.missed
         /\ x.bag = b.bag /\ x.removed = b.removed /\ x.thrown = b.thrown
         /\ Alive(x) = Alive(b)
BY DEF WithOutcome, Battles, Alive

(* A battle of the player's units, looked at: over when no enemy stands.   *)
LEMMA DecidedWeighs ==
  ASSUME NEW b, Struck(b, 2)
  PROVE  Weighed(Decided(b))
<1>1. b \in Battles(2) /\ b.outcome = "ONGOING" /\ b.hp > 0 /\ b.missed = {} /\ Calm(b)
  BY DEF Struck, Calm
<1>2. \A i \in Items : b.removed[i] <= bag[i]
  <2> SUFFICES ASSUME NEW i \in Items PROVE b.removed[i] <= bag[i]
    OBVIOUS
  <2>1. b.bag[i] \in 0..MaxQty /\ b.removed[i] \in 0..2 /\ b.bag[i] + b.removed[i] = bag[i]
    BY DEF Struck, Battles
  <2>2. MaxQty \in Nat
    BY CombatAssumption
  <2> QED BY <2>1, <2>2
<1>3. CASE Alive(b) = {}
  <2> DEFINE x == WithOutcome(b, "VICTORY")
  <2>1. Decided(b) = x
    BY <1>1, <1>3 DEF Decided, WithOutcome
  <2>2. "VICTORY" \in Outcomes
    BY DEF Outcomes
  <2>3. /\ x \in Battles(2) /\ x.outcome = "VICTORY" /\ x.hp = b.hp /\ x.foe = b.foe
        /\ x.missed = b.missed /\ x.removed = b.removed /\ x.thrown = b.thrown /\ Alive(x) = Alive(b)
    BY <1>1, <2>2, WithOutcomeIs
  <2> HIDE DEF x
  <2>4. Outcome(x) /\ Calm(x)
    BY <1>1, <1>3, <2>3 DEF Outcome, Calm, Battles
  <2>5. Weighed(x)
    BY <1>1, <1>2, <2>3, <2>4 DEF Weighed
  <2> QED BY <2>1, <2>5
<1>4. CASE Alive(b) # {}
  <2>1. Decided(b) = b
    BY <1>4 DEF Decided
  <2>2. Outcome(b)
    BY <1>1, <1>4 DEF Outcome, Battles
  <2> QED BY <1>1, <1>2, <2>1, <2>2 DEF Weighed
<1> QED BY <1>3, <1>4

(* A flight that succeeds leaves the enemies standing.                     *)
LEMMA FledWeighs ==
  ASSUME NEW b, Weighed(b), NEW plan, NEW x \in Fled(b, plan)
  PROVE  Weighed(x)
<1>1. CASE x = b
  BY <1>1
<1>2. CASE x # b
  <2>1. b.outcome = "ONGOING" /\ x = WithOutcome(b, "FLEE_SUCCESS")
    BY <1>2 DEF Fled, WithOutcome
  <2>2. b \in Battles(2) /\ "FLEE_SUCCESS" \in Outcomes
    BY DEF Weighed, Outcomes
  <2>3. /\ x \in Battles(2) /\ x.outcome = "FLEE_SUCCESS" /\ x.hp = b.hp /\ x.foe = b.foe
        /\ x.missed = b.missed /\ x.removed = b.removed /\ x.thrown = b.thrown /\ Alive(x) = Alive(b)
    BY <2>1, <2>2, WithOutcomeIs
  <2>4. b.hp > 0 /\ b.hp \in 0..MaxHp /\ MaxHp \in Nat
    BY CombatAssumption DEF Weighed, Battles
  <2>5. Outcome(x) /\ Calm(x)
    BY <2>1, <2>3, <2>4 DEF Weighed, Outcome, Calm
  <2> QED BY <2>3, <2>5 DEF Weighed
<1> QED BY <1>1, <1>2

(* The enemies: they move, and the stunned ones are those that miss.       *)
LEMMA EnemyPhaseIs ==
  ASSUME NEW b \in Battles(2), NEW x \in EnemyPhase(b)
  PROVE  /\ x \in Battles(2) /\ x.hp <= b.hp
         /\ x.outcome = b.outcome /\ x.removed = b.removed /\ x.thrown = b.thrown
         /\ x.missed = Stunned(b)
         /\ \A f \in Foes : x.foe[f].hp = b.foe[f].hp /\ x.foe[f].left = b.foe[f].left
<1> DEFINE acting == Alive(b) \ Stunned(b)
           does(f) == IF f \in acting THEN Intent(b, f) ELSE "NONE"
           z(f) == IF does(f) = "FORWARD" THEN Closer(b.foe[f])
                   ELSE IF does(f) = "BACK" THEN Farther(b.foe[f]) ELSE b.foe[f]
           e == [f \in Foes |-> z(f)]
           moved == [b EXCEPT !.missed = Stunned(b), !.foe = e]
<1>1. \A f \in Foes : z(f) \in FoeRecords /\ z(f).hp = b.foe[f].hp /\ z(f).left = b.foe[f].left
  <2>1. \A f \in Foes : b.foe[f] \in FoeRecords
    BY DEF Battles
  <2> HIDE DEF does
  <2> QED BY <2>1, StepIs
<1>2. x = moved \/ \E k \in 0..b.hp : x = [moved EXCEPT !.hp = k]
  BY DEF EnemyPhase
<1> HIDE DEF z
<1>3. e \in [Foes -> FoeRecords] /\ \A f \in Foes : e[f] = z(f)
  BY <1>1
<1>4. Stunned(b) \in SUBSET Foes
  BY DEF Stunned, Alive
<1>5. b.hp \in 0..MaxHp /\ MaxHp \in Nat
  BY CombatAssumption DEF Battles
<1> HIDE DEF e
<1>6. /\ moved \in Battles(2) /\ moved.hp = b.hp /\ moved.outcome = b.outcome
      /\ moved.removed = b.removed /\ moved.thrown = b.thrown
      /\ moved.missed = Stunned(b) /\ moved.foe = e
  BY <1>3, <1>4 DEF Battles
<1> HIDE DEF moved
<1>7. /\ x \in Battles(2) /\ x.hp <= b.hp
      /\ x.outcome = b.outcome /\ x.removed = b.removed /\ x.thrown = b.thrown
      /\ x.missed = Stunned(b) /\ x.foe = e
  <2>1. CASE x = moved
    BY <1>5, <1>6, <2>1
  <2>2. CASE \E k \in 0..b.hp : x = [moved EXCEPT !.hp = k]
    <3>1. PICK k \in 0..b.hp : x = [moved EXCEPT !.hp = k]
      BY <2>2
    <3>2. k \in 0..MaxHp /\ k <= b.hp
      BY <1>5
    <3> QED BY <1>6, <3>1, <3>2 DEF Battles
  <2> QED BY <1>2, <2>1, <2>2
<1> QED BY <1>1, <1>3, <1>7

(* The enemies' phase, and what becomes of a player at no hit points.      *)
LEMMA ResistedAnswers ==
  ASSUME NEW b, Weighed(b), NEW x \in Resisted(b)
  PROVE  Answered(x)
<1>1. b \in Battles(2) /\ b.missed = {}
  BY DEF Weighed
<1>2. CASE b.outcome # "ONGOING"
  <2>1. x = b
    BY <1>2 DEF Resisted
  <2> QED BY <1>1, <1>2, <2>1 DEF Weighed, Answered
<1>3. CASE b.outcome = "ONGOING"
  <2>1. PICK y \in EnemyPhase(b) : x \in Downed(y)
    BY <1>3 DEF Resisted
  <2>2. /\ y \in Battles(2) /\ y.outcome = "ONGOING" /\ y.removed = b.removed /\ y.thrown = b.thrown
        /\ y.missed = Stunned(b)
        /\ \A f \in Foes : y.foe[f].hp = b.foe[f].hp /\ y.foe[f].left = b.foe[f].left
    BY <1>1, <1>3, <2>1, EnemyPhaseIs
  <2>3. PICK z : /\ z \in Battles(2) /\ x = z /\ z.outcome \in {"ONGOING", "DEFEAT"}
                 /\ z.outcome = "DEFEAT" <=> z.hp = 0
                 /\ z.removed = b.removed /\ z.thrown = b.thrown /\ z.missed = Stunned(b)
                 /\ z.foe = y.foe
    <3>1. y.hp \in 0..MaxHp /\ 1 \in 0..MaxHp
      BY <2>2, CombatAssumption DEF Battles
    <3>2. CASE y.hp > 0
      <4>1. x = y /\ y.hp # 0
        BY <2>1, <3>2 DEF Downed
      <4> QED BY <2>2, <4>1
    <3>3. CASE ~ y.hp > 0
      <4>1. y.hp = 0
        BY <3>1, <3>3
      <4>2. CASE x = [y EXCEPT !.hp = 1]
        <5>1. /\ x \in Battles(2) /\ x.outcome = "ONGOING" /\ x.hp = 1
              /\ x.removed = y.removed /\ x.thrown = y.thrown /\ x.missed = y.missed /\ x.foe = y.foe
          BY <2>2, <3>1, <4>2 DEF Battles
        <5> QED BY <2>2, <5>1
      <4>3. CASE x = [y EXCEPT !.outcome = "DEFEAT"]
        <5>1. x = WithOutcome(y, "DEFEAT") /\ "DEFEAT" \in Outcomes
          BY <4>3 DEF WithOutcome, Outcomes
        <5>2. /\ x \in Battles(2) /\ x.outcome = "DEFEAT" /\ x.hp = y.hp
              /\ x.removed = y.removed /\ x.thrown = y.thrown /\ x.missed = y.missed /\ x.foe = y.foe
          BY <2>2, <5>1, WithOutcomeIs
        <5> QED BY <2>2, <4>1, <5>2
      <4> QED BY <2>1, <3>3, <4>2, <4>3 DEF Downed
    <3> QED BY <3>2, <3>3
  <2>4. \A f \in Foes : x.foe[f].hp = b.foe[f].hp /\ x.foe[f].left = b.foe[f].left
    BY <2>2, <2>3
  <2>5. Alive(x) = Alive(b) /\ Alive(b) # {}
    BY <1>3, <2>4 DEF Alive, Weighed, Outcome
  <2>6. Outcome(x)
    BY <2>3, <2>5 DEF Outcome
  <2>7. Calm(x)
    BY <2>3, <2>4 DEF Weighed, Calm, Spared
  <2>8. \A f \in x.missed : x.foe[f].hp > 0 /\ x.foe[f].left["STUN"] > 0
    BY <2>3, <2>4 DEF Stunned, Alive
  <2>9. \A f \in Foes : x.foe[f].hp > 0 /\ x.foe[f].left["STUN"] > 0 => f \in x.missed
    BY <2>3, <2>4 DEF Stunned, Alive
  <2>10. \A i \in Items : x.removed[i] <= bag[i]
    BY <2>3 DEF Weighed
  <2> QED BY <2>3, <2>6, <2>7, <2>8, <2>9, <2>10 DEF Answered
<1> QED BY <1>2, <1>3

(* An enemy after the tick.                                                *)
LEMMA TickFoeIs ==
  ASSUME NEW x \in FoeRecords
  PROVE  LET y == TickFoe(x) IN
         /\ y \in FoeRecords
         /\ x.hp = 0 => y.hp = 0
         /\ y.hp > 0 =>
              /\ x.hp > 0
              /\ y.left["STUN"] = Most(0, x.left["STUN"] - 1)
              /\ y.left["STUN_IMMUNE"] =
                   IF x.left["STUN"] = 1 THEN 2 ELSE Most(0, x.left["STUN_IMMUNE"] - 1)
<1>1. x.hp \in Nat /\ x.left \in Lefts
  BY DEF FoeRecords
<1>2. CASE x.hp = 0
  BY <1>1, <1>2 DEF TickFoe
<1>3. CASE x.hp # 0
  <2> DEFINE l == TickLeft(x.left)
             h == IF x.left["DOT"] > 0 THEN x.hp - 1 ELSE x.hp
             y == [x EXCEPT !.hp = h, !.left = l]
  <2>1. h \in Nat
    BY <1>1, <1>3
  <2>2. \A s \in Statuses : x.left[s] \in 0..3 /\ Most(0, x.left[s] - 1) \in 0..3
    BY <1>1 DEF Lefts, Most
  <2>3. l \in Lefts
    BY <2>2 DEF TickLeft, Lefts
  <2>4. /\ l["STUN"] = Most(0, x.left["STUN"] - 1)
        /\ l["STUN_IMMUNE"] = IF x.left["STUN"] = 1 THEN 2 ELSE Most(0, x.left["STUN_IMMUNE"] - 1)
    BY DEF TickLeft, Statuses
  <2>5. TickFoe(x) = y
    BY <1>3 DEF TickFoe
  <2>6. x.hp > 0
    BY <1>1, <1>3
  <2> HIDE DEF l, h
  <2>7. y \in FoeRecords /\ y.left = l /\ y.hp = h
    BY <2>1, <2>3 DEF FoeRecords
  <2> HIDE DEF y
  <2> QED BY <1>3, <2>4, <2>5, <2>6, <2>7
<1> QED BY <1>2, <1>3

(* The tick of the statuses and a last look settle the turn.               *)
LEMMA TickSettles ==
  ASSUME NEW b, Answered(b)
  PROVE  Settled(Decided(Tick(b)))
<1>1. b \in Battles(2) /\ b.foe \in [Foes -> FoeRecords] /\ Outcome(b) /\ Calm(b)
  BY DEF Answered, Battles
<1>a. \A f \in Foes \ (tangled \union b.thrown) :
        f \in b.missed => foe[f].hp > 0 /\ foe[f].left["STUN_IMMUNE"] = 0
  <2> SUFFICES ASSUME NEW f \in Foes \ (tangled \union b.thrown), f \in b.missed
               PROVE  foe[f].hp > 0 /\ foe[f].left["STUN_IMMUNE"] = 0
    OBVIOUS
  <2>1. b.foe[f].hp > 0 /\ b.foe[f].left["STUN"] > 0
    BY DEF Answered
  <2>2. Spared(b.foe[f], foe[f])
    BY <1>1 DEF Calm
  <2> QED BY <2>1, <2>2 DEF Spared
<1>2. CASE b.outcome \in {"DEFEAT", "FLEE_SUCCESS"}
  <2>1. Tick(b) = b /\ Decided(b) = b
    BY <1>2 DEF Tick, Decided
  <2>2. Yields(b)
    BY <1>2, <1>a DEF Yields
  <2> QED BY <2>1, <2>2 DEF Answered, Settled
<1>3. CASE b.outcome \in {"ONGOING", "VICTORY"}
  <2> DEFINE e == [f \in Foes |-> TickFoe(b.foe[f])]
             y == WithFoes(b, e)
  <2>1. Tick(b) = y
    BY <1>3 DEF Tick, WithFoes
  <2>2. e \in [Foes -> FoeRecords] /\ \A f \in Foes : e[f] = TickFoe(b.foe[f])
    BY <1>1, TickFoeIs
  <2> HIDE DEF e
  <2>3. /\ y \in Battles(2) /\ y.foe = e /\ y.hp = b.hp /\ y.outcome = b.outcome
        /\ y.missed = b.missed /\ y.removed = b.removed /\ y.thrown = b.thrown
    BY <1>1, <2>2, WithFoesIs
  <2> HIDE DEF y
  <2>4. Alive(y) \subseteq Alive(b)
    <3> SUFFICES ASSUME NEW f \in Foes, y.foe[f].hp > 0 PROVE b.foe[f].hp > 0
      BY DEF Alive
    <3> QED BY <1>1, <2>2, <2>3, TickFoeIs
  <2>5. \A f \in Foes \ (tangled \union y.thrown) :
          y.outcome = "ONGOING" /\ y.foe[f].hp > 0 =>
            /\ foe[f].hp > 0 /\ y.foe[f].left["STUN"] = 0
            /\ y.foe[f].left["STUN_IMMUNE"] =
                 IF f \in y.missed THEN 2 ELSE Most(0, foe[f].left["STUN_IMMUNE"] - 1)
    <3> SUFFICES ASSUME NEW f \in Foes \ (tangled \union y.thrown),
                        y.outcome = "ONGOING", y.foe[f].hp > 0
                 PROVE  /\ foe[f].hp > 0 /\ y.foe[f].left["STUN"] = 0
                        /\ y.foe[f].left["STUN_IMMUNE"] =
                             IF f \in y.missed THEN 2 ELSE Most(0, foe[f].left["STUN_IMMUNE"] - 1)
      OBVIOUS
    <3> DEFINE x == b.foe[f]
    <3>1. x \in FoeRecords /\ y.foe[f] = TickFoe(x)
      BY <1>1, <2>2, <2>3
    <3>2. /\ x.hp > 0
          /\ y.foe[f].left["STUN"] = Most(0, x.left["STUN"] - 1)
          /\ y.foe[f].left["STUN_IMMUNE"] =
               IF x.left["STUN"] = 1 THEN 2 ELSE Most(0, x.left["STUN_IMMUNE"] - 1)
      BY <3>1, TickFoeIs
    <3>3. Spared(x, foe[f])
      BY <1>1, <2>3 DEF Calm
    <3>4. /\ foe[f].hp > 0 /\ x.left["STUN"] \in {0, 1}
          /\ x.left["STUN_IMMUNE"] = foe[f].left["STUN_IMMUNE"]
      BY <3>2, <3>3 DEF Spared
    <3>5. f \in y.missed <=> x.left["STUN"] > 0
      BY <2>3, <3>2 DEF Answered
    <3>6. Most(0, x.left["STUN"] - 1) = 0
      BY <3>4 DEF Most
    <3>7. x.left["STUN"] > 0 <=> x.left["STUN"] = 1
      BY <3>4
    <3> HIDE DEF x
    <3> QED BY <3>2, <3>4, <3>5, <3>6, <3>7
  <2>6. Yields(y)
    BY <1>a, <2>3, <2>5 DEF Yields
  <2>7. \A i \in Items : y.removed[i] <= bag[i]
    BY <2>3 DEF Answered
  <2>8. CASE y.outcome = "ONGOING" /\ Alive(y) = {}
    <3> DEFINE x == WithOutcome(y, "VICTORY")
    <3>1. Decided(y) = x /\ "VICTORY" \in Outcomes
      BY <2>8 DEF Decided, WithOutcome, Outcomes
    <3>2. /\ x \in Battles(2) /\ x.outcome = "VICTORY" /\ x.hp = y.hp /\ x.foe = y.foe
          /\ x.missed = y.missed /\ x.removed = y.removed /\ x.thrown = y.thrown /\ Alive(x) = Alive(y)
      BY <2>3, <3>1, WithOutcomeIs
    <3> HIDE DEF x
    <3>3. Outcome(x)
      BY <1>1, <2>3, <2>8, <3>2 DEF Outcome
    <3>4. Yields(x)
      BY <2>6, <3>2 DEF Yields
    <3>5. Settled(x)
      BY <2>7, <3>2, <3>3, <3>4 DEF Settled
    <3> QED BY <2>1, <3>1, <3>5
  <2>9. CASE ~ (y.outcome = "ONGOING" /\ Alive(y) = {})
    <3>1. Decided(y) = y
      BY <2>9 DEF Decided
    <3>2. Outcome(y)
      BY <1>1, <1>3, <2>3, <2>4, <2>9 DEF Outcome
    <3> QED BY <2>1, <2>3, <2>6, <2>7, <3>1, <3>2 DEF Settled
  <2> QED BY <2>8, <2>9
<1>4. b.outcome \in {"DEFEAT", "FLEE_SUCCESS"} \/ b.outcome \in {"ONGOING", "VICTORY"}
  BY <1>1 DEF Outcome
<1> QED BY <1>2, <1>3, <1>4

-----------------------------------------------------------------------------
(* The fights of a run.                                                    *)

(* The inductive invariant: besides the types and the outcomes, an enemy   *)
(* nothing was thrown at is not stunned between turns, and what is left of *)
(* its immunity makes up for the turns it has not had yet.                 *)
Recovering ==
  scene = "fight" =>
    \A f \in Foes \ tangled :
      foe[f].hp > 0 =>
        /\ foe[f].left["STUN"] = 0
        /\ foe[f].left["STUN_IMMUNE"] + since[f] >= 2

CombatInv == CombatTypeOK /\ OutcomeFits /\ Recovering

(* The battle a turn of the fight starts with.                             *)
LEMMA BattleStruck ==
  ASSUME CombatInv, scene = "fight", NEW plan \in Plans
  PROVE  Struck(Battle(plan), 0)
<1> DEFINE v == Most(0, stamina - StaminaCost(plan))
<1>1. /\ hp \in 0..MaxHp /\ stamina \in 0..MaxStamina /\ MaxStamina \in Nat
      /\ foe \in [Foes -> FoeRecords] /\ bag \in [Items -> 0..MaxQty] /\ hp > 0
  BY CombatAssumption DEF CombatInv, CombatTypeOK, OutcomeFits, FoeRecords, Lefts
<1>2. StaminaCost(plan) \in Nat
  BY PlanIs DEF StaminaCost
<1>3. v \in 0..MaxStamina
  BY <1>1, <1>2 DEF Most
<1>4. NoneUsed \in [Items -> 0..0] /\ \A i \in Items : NoneUsed[i] = 0
  BY DEF NoneUsed
<1> DEFINE b == [hp |-> hp, stamina |-> v, foe |-> foe, bag |-> bag, outcome |-> "ONGOING",
                 removed |-> NoneUsed, missed |-> {}, thrown |-> {}]
<1>5. Battle(plan) = b
  BY DEF Battle
<1> HIDE DEF v
<1>6. b \in Battles(0)
  BY <1>1, <1>3, <1>4 DEF Battles, Outcomes
<1>7. \A f \in Foes \ (tangled \union b.thrown) : Spared(b.foe[f], foe[f])
  BY DEF CombatInv, Recovering, Spared
<1>8. \A i \in Items : b.bag[i] + b.removed[i] = bag[i]
  BY <1>1, <1>4
<1>9. b.hp > 0 /\ b.outcome = "ONGOING" /\ b.missed = {}
  BY <1>1
<1> HIDE DEF b
<1>10. Struck(b, 0)
  BY <1>6, <1>7, <1>8, <1>9 DEF Struck
<1> QED BY <1>5, <1>10

(* However a turn falls out, it leaves the battle settled.                 *)
LEMMA ResolutionsSettle ==
  ASSUME CombatInv, scene = "fight", NEW plan \in Plans,
         NEW c \in {"NONE"} \union DOMAIN Improvised, NEW abstract,
         NEW b \in Resolutions(plan, c, abstract)
  PROVE  Settled(b)
<1> DEFINE struck == IF abstract THEN {Battle(plan)} ELSE PlayerUnits(Battle(plan), plan, c)
<1>1. PICK z \in struck :
        \E y \in Fled(Decided(z), plan) : \E x \in Resisted(y) : b = Decided(Tick(x))
  BY DEF Resolutions
<1>a. PICK y \in Fled(Decided(z), plan) : \E x \in Resisted(y) : b = Decided(Tick(x))
  BY <1>1
<1>b. PICK x \in Resisted(y) : b = Decided(Tick(x))
  BY <1>a
<1>2. Struck(Battle(plan), 0)
  BY BattleStruck
<1>3. Struck(z, 2)
  <2>1. CASE z = Battle(plan)
    <3>1. 0 \in Nat /\ 1 \in Nat /\ 0 + 1 = 1 /\ 1 + 1 = 2
      OBVIOUS
    <3>2. Struck(z, 0 + 1)
      BY ONLY <1>2, <2>1, <3>1, StruckMore
    <3>3. Struck(z, 1 + 1)
      BY ONLY <3>1, <3>2, StruckMore
    <3> QED BY <3>1, <3>3
  <2>2. CASE z \in PlayerUnits(Battle(plan), plan, c)
    BY <1>2, <2>2, PlayerUnitsKeep
  <2> QED BY <1>1, <2>1, <2>2
<1>4. Weighed(Decided(z))
  BY <1>3, DecidedWeighs
<1>5. Weighed(y)
  BY <1>a, <1>4, FledWeighs
<1>6. Answered(x)
  BY <1>b, <1>5, ResistedAnswers
<1> QED BY <1>b, <1>6, TickSettles

(* What a turn of the fight leaves, and what its result says.              *)
LEMMA CombatTurnKeeps ==
  ASSUME CombatInv, NEW plan \in Plans, NEW c \in {"NONE"} \union DOMAIN Improvised,
         NEW abstract, CombatTurn(plan, c, abstract)
  PROVE  /\ CombatInv'
         /\ \A f \in last'.missed \ tangled' : since[f] = 2
         /\ \A i \in Items : last'.removed[i] <= bag[i]
<1>1. PICK b \in Resolutions(plan, c, abstract), loot \in {{}} \union {{i} : i \in Loot} :
        CommitTurn(b, loot)
  BY DEF CombatTurn
<1>2. scene = "fight" /\ Settled(b)
  BY ResolutionsSettle DEF CombatTurn
<1>3. b \in Battles(2) /\ Outcome(b) /\ Yields(b) /\ \A i \in Items : b.removed[i] <= bag[i]
  BY <1>2 DEF Settled
<1>4. /\ hp' = b.hp /\ stamina' = b.stamina /\ foe' = b.foe /\ bag' = Inventory(b, loot)
      /\ last' = [outcome |-> b.outcome, removed |-> b.removed, missed |-> b.missed]
      /\ since' = [f \in Foes |-> IF f \in b.missed THEN 0 ELSE Least(2, since[f] + 1)]
      /\ tangled' = tangled \union b.thrown
      /\ scene' = CASE b.outcome = "ONGOING" -> "fight" [] b.outcome = "DEFEAT" -> "over"
                    [] OTHER -> "away"
  BY <1>1 DEF CommitTurn
<1>5. /\ hp \in 0..MaxHp /\ bag \in [Items -> 0..MaxQty] /\ MaxQty \in Nat
      /\ since \in [Foes -> 0..2] /\ tangled \subseteq Foes
      /\ foe \in [Foes -> FoeRecords]
  BY CombatAssumption DEF CombatInv, CombatTypeOK, FoeRecords, Lefts
<1>6. CombatTypeOK'
  <2>1. hp' \in 0..MaxHp /\ stamina' \in 0..MaxStamina /\ tangled' \subseteq Foes
    BY <1>3, <1>4, <1>5 DEF Battles
  <2>2. foe' \in [Foes -> [hp : Nat, dist : 0..MaxDistance, left : [Statuses -> 0..3]]]
    BY <1>3, <1>4 DEF Battles, FoeRecords, Lefts
  <2>3. bag' \in [Items -> 0..MaxQty]
    <3>1. \A i \in Items : bag[i] \in 0..MaxQty /\ Least(MaxQty, bag[i] + 1) \in 0..MaxQty
      BY <1>5 DEF Least
    <3> QED BY <1>4, <3>1 DEF Inventory
  <2>4. last' \in [outcome : Outcomes, removed : [Items -> 0..2], missed : SUBSET Foes]
    BY <1>3, <1>4 DEF Battles
  <2>5. since' \in [Foes -> 0..2]
    <3>1. \A f \in Foes : Least(2, since[f] + 1) \in 0..2
      BY <1>5 DEF Least
    <3> QED BY <1>4, <3>1
  <2>6. scene' \in {"away", "fight", "over"}
    BY <1>3, <1>4 DEF Outcome
  <2> QED BY <2>1, <2>2, <2>3, <2>4, <2>5, <2>6 DEF CombatTypeOK
<1>7. OutcomeFits'
  <2>1. {f \in Foes : foe'[f].hp > 0} = Alive(b)
    BY <1>4 DEF Alive
  <2>2. last'.outcome = b.outcome
    BY <1>4
  <2>3. b.hp \in 0..MaxHp /\ MaxHp \in Nat /\ (b.hp = 0 <=> ~ b.hp > 0)
    BY <1>3, CombatAssumption DEF Battles
  <2>4. /\ scene' = "fight" <=> b.outcome = "ONGOING"
        /\ scene' = "over" <=> b.outcome = "DEFEAT"
    BY <1>3, <1>4 DEF Outcome
  <2> QED BY <1>3, <1>4, <2>1, <2>2, <2>3, <2>4 DEF OutcomeFits, Outcome
<1>8. Recovering'
  <2> SUFFICES ASSUME scene' = "fight", NEW f \in Foes \ tangled', foe'[f].hp > 0
               PROVE  /\ foe'[f].left["STUN"] = 0
                      /\ foe'[f].left["STUN_IMMUNE"] + since'[f] >= 2
    BY DEF Recovering
  <2>1. b.outcome = "ONGOING"
    BY <1>3, <1>4 DEF Outcome
  <2>2. f \in Foes \ (tangled \union b.thrown) /\ b.foe[f].hp > 0
    BY <1>4
  <2>3. /\ foe[f].hp > 0 /\ b.foe[f].left["STUN"] = 0
        /\ b.foe[f].left["STUN_IMMUNE"] =
             IF f \in b.missed THEN 2 ELSE Most(0, foe[f].left["STUN_IMMUNE"] - 1)
    BY <1>3, <2>1, <2>2 DEF Yields
  <2>4. foe[f].left["STUN_IMMUNE"] + since[f] >= 2
    BY <1>2, <2>2, <2>3 DEF CombatInv, Recovering
  <2>5. foe[f].left["STUN_IMMUNE"] \in 0..3 /\ since[f] \in 0..2
    BY <1>5, <2>2 DEF FoeRecords, Lefts, Statuses
  <2>6. since'[f] = IF f \in b.missed THEN 0 ELSE Least(2, since[f] + 1)
    BY <1>4, <2>2
  <2>7. CASE f \in b.missed
    BY <1>4, <2>3, <2>6, <2>7
  <2>8. CASE f \notin b.missed
    <3>1. Most(0, foe[f].left["STUN_IMMUNE"] - 1) + Least(2, since[f] + 1) >= 2
      BY <2>4, <2>5 DEF Most, Least
    <3> QED BY <1>4, <2>3, <2>6, <2>8, <3>1
  <2> QED BY <2>7, <2>8
<1>9. \A f \in last'.missed \ tangled' : since[f] = 2
  <2> SUFFICES ASSUME NEW f \in last'.missed \ tangled' PROVE since[f] = 2
    OBVIOUS
  <2>1. f \in b.missed /\ f \in Foes \ (tangled \union b.thrown)
    BY <1>3, <1>4 DEF Battles
  <2>2. foe[f].hp > 0 /\ foe[f].left["STUN_IMMUNE"] = 0
    BY <1>3, <2>1 DEF Yields
  <2>3. 0 + since[f] >= 2 /\ since[f] \in 0..2
    BY <1>2, <1>5, <2>1, <2>2 DEF CombatInv, Recovering
  <2> QED BY <2>3
<1>10. \A i \in Items : last'.removed[i] <= bag[i]
  BY <1>3, <1>4
<1> QED BY <1>6, <1>7, <1>8, <1>9, <1>10 DEF CombatInv

(* Nothing is missed and nothing is used up in a step that is no turn.     *)
LEMMA QuietIs ==
  ASSUME CombatTypeOK, last' = Quiet
  PROVE  /\ last' \in [outcome : Outcomes, removed : [Items -> 0..2], missed : SUBSET Foes]
         /\ last'.outcome = "NONE" /\ last'.missed = {}
         /\ \A i \in Items : last'.removed[i] <= bag[i]
<1>1. NoneUsed \in [Items -> 0..2] /\ \A i \in Items : NoneUsed[i] = 0 /\ bag[i] \in 0..MaxQty
  BY DEF NoneUsed, CombatTypeOK
<1>2. \A i \in Items : NoneUsed[i] <= bag[i]
  BY <1>1
<1> HIDE DEF NoneUsed
<1> QED BY <1>1, <1>2 DEF Quiet, Outcomes

(* The steps between the turns of a fight.                                 *)
LEMMA OthersKeep ==
  ASSUME CombatInv, Deny \/ Enter \/ Rest
  PROVE  CombatInv' /\ last' = Quiet
<1>1. CombatTypeOK /\ OutcomeFits /\ Recovering
  BY DEF CombatInv
<1>2. last' = Quiet
  BY DEF Deny, Enter, Rest
<1>3. /\ last' \in [outcome : Outcomes, removed : [Items -> 0..2], missed : SUBSET Foes]
      /\ last'.outcome = "NONE"
  BY <1>1, <1>2, QuietIs
<1>4. CASE Deny
  <2>1. scene' = scene /\ hp' = hp /\ stamina' = stamina /\ foe' = foe /\ bag' = bag
        /\ since' = since /\ tangled' = tangled
    BY <1>4 DEF Deny
  <2>2. CombatTypeOK'
    BY <1>1, <1>3, <2>1 DEF CombatTypeOK
  <2>3. OutcomeFits' /\ Recovering'
    BY <1>1, <1>3, <2>1 DEF OutcomeFits, Recovering
  <2> QED BY <1>2, <2>2, <2>3 DEF CombatInv
<1>5. CASE Enter
  <2>1. /\ scene = "away" /\ scene' = "fight" /\ hp' = hp /\ stamina' = stamina /\ bag' = bag
        /\ since' = [f \in Foes |-> 2] /\ tangled' = {}
    BY <1>5 DEF Enter
  <2>2. PICK E \in (SUBSET Foes) \ {{}}, at \in [Foes -> Starts] :
          foe' = [f \in Foes |-> [hp |-> IF f \in E THEN FoeHp[f] ELSE 0, dist |-> at[f],
                                  left |-> NoneLeft]]
    BY <1>5 DEF Enter
  <2>3. \A f \in Foes : FoeHp[f] \in Nat /\ FoeHp[f] > 0 /\ at[f] \in 0..MaxDistance
    <3>1. \A f \in Foes : FoeHp[f] \in Nat \ {0} /\ at[f] \in Starts
      BY CombatAssumption
    <3>2. \A n \in Nat \ {0} : n > 0
      OBVIOUS
    <3> QED BY <3>1, <3>2, CombatAssumption
  <2>4. NoneLeft \in [Statuses -> 0..3] /\ NoneLeft["STUN"] = 0 /\ NoneLeft["STUN_IMMUNE"] = 0
    BY DEF NoneLeft, Statuses
  <2>5. /\ foe' \in [Foes -> [hp : Nat, dist : 0..MaxDistance, left : [Statuses -> 0..3]]]
        /\ \A f \in Foes : /\ foe'[f].hp = IF f \in E THEN FoeHp[f] ELSE 0
                           /\ foe'[f].left = NoneLeft
    BY <2>2, <2>3, <2>4
  <2>6. CombatTypeOK'
    BY <1>1, <1>3, <2>1, <2>5 DEF CombatTypeOK
  <2>7. hp' > 0 /\ {f \in Foes : foe'[f].hp > 0} # {}
    <3>1. hp # 0 /\ hp \in 0..MaxHp
      BY <1>1, <2>1 DEF OutcomeFits, CombatTypeOK
    <3>2. PICK f \in Foes : f \in E
      BY <2>2
    <3> QED BY <2>1, <2>3, <2>5, <3>1, <3>2
  <2>8. OutcomeFits'
    BY <1>3, <2>1, <2>7 DEF OutcomeFits
  <2>9. Recovering'
    BY <2>1, <2>4, <2>5 DEF Recovering
  <2> QED BY <1>2, <2>6, <2>8, <2>9 DEF CombatInv
<1>6. CASE Rest
  <2>1. /\ scene = "away" /\ scene' = "away" /\ foe' = foe /\ bag' = bag
        /\ since' = since /\ tangled' = tangled
    BY <1>6 DEF Rest
  <2>2. PICK n \in {1, 2} : stamina' = Least(MaxStamina, stamina + n)
    BY <1>6 DEF Rest
  <2>3. stamina \in 0..MaxStamina /\ MaxStamina \in Nat /\ hp \in 0..MaxHp /\ MaxHp \in Nat
    BY <1>1, CombatAssumption DEF CombatTypeOK
  <2>4. stamina' \in 0..MaxStamina
    BY <2>2, <2>3 DEF Least
  <2>5. hp' \in hp..MaxHp /\ hp # 0
    BY <1>1, <1>6, <2>1 DEF Rest, OutcomeFits
  <2>6. hp' \in 0..MaxHp /\ hp' # 0
    BY <2>3, <2>5
  <2>7. CombatTypeOK'
    BY <1>1, <1>3, <2>1, <2>4, <2>6 DEF CombatTypeOK
  <2>8. OutcomeFits' /\ Recovering'
    BY <1>3, <2>1, <2>6 DEF OutcomeFits, Recovering
  <2> QED BY <1>2, <2>7, <2>8 DEF CombatInv
<1> QED BY <1>4, <1>5, <1>6

(* The inductive invariant holds at the start and is kept by every step.   *)
LEMMA CombatInvInit == CombatInit => CombatInv
<1> SUFFICES ASSUME CombatInit PROVE CombatInv
  OBVIOUS
<1>1. /\ scene = "away" /\ hp = MaxHp /\ stamina = MaxStamina /\ bag \in Packs
      /\ foe = [f \in Foes |-> [hp |-> 0, dist |-> 0, left |-> NoneLeft]]
      /\ last = Quiet /\ since = [f \in Foes |-> 2] /\ tangled = {}
  BY DEF CombatInit
<1>2. /\ MaxHp \in Nat \ {0} /\ MaxStamina \in Nat /\ MaxDistance \in Nat
      /\ Packs \subseteq [Items -> 0..MaxQty]
  BY CombatAssumption
<1>3. foe \in [Foes -> [hp : Nat, dist : 0..MaxDistance, left : [Statuses -> 0..3]]]
  BY <1>1, <1>2 DEF NoneLeft
<1>4. NoneUsed \in [Items -> 0..2]
  BY DEF NoneUsed
<1>5. last \in [outcome : Outcomes, removed : [Items -> 0..2], missed : SUBSET Foes]
      /\ last.outcome = "NONE"
  BY <1>1, <1>4 DEF Quiet, Outcomes
<1>6. CombatTypeOK
  BY <1>1, <1>2, <1>3, <1>5 DEF CombatTypeOK
<1>7. OutcomeFits /\ Recovering
  BY <1>1, <1>2, <1>5 DEF OutcomeFits, Recovering
<1> QED BY <1>6, <1>7 DEF CombatInv

(* What every step of a run's fights does.                                 *)
LEMMA CombatStep ==
  ASSUME CombatInv, CombatNext
  PROVE  /\ CombatInv'
         /\ \A f \in last'.missed \ tangled' : since[f] = 2
         /\ \A i \in Items : last'.removed[i] <= bag[i]
<1>1. CASE Choose
  BY <1>1, CombatTurnKeeps DEF Choose
<1>2. CASE Improvise
  BY <1>2, CombatTurnKeeps DEF Improvise
<1>3. CASE Wish
  BY <1>3, CombatTurnKeeps DEF Wish
<1>4. CASE Deny \/ Enter \/ Rest
  <2>1. CombatInv' /\ last' = Quiet
    BY <1>4, OthersKeep
  <2> QED BY <2>1, QuietIs DEF CombatInv
<1> QED BY <1>1, <1>2, <1>3, <1>4 DEF CombatNext

(* A step that changes nothing keeps the invariant.                        *)
LEMMA CombatStutter == ASSUME CombatInv, UNCHANGED combatVars PROVE CombatInv'
<1>1. /\ scene' = scene /\ hp' = hp /\ stamina' = stamina /\ foe' = foe /\ bag' = bag
      /\ last' = last /\ since' = since /\ tangled' = tangled
  BY DEF combatVars
<1>2. CombatTypeOK'
  BY <1>1 DEF CombatInv, CombatTypeOK
<1>3. OutcomeFits' /\ Recovering'
  BY <1>1 DEF CombatInv, OutcomeFits, Recovering
<1> QED BY <1>2, <1>3 DEF CombatInv

(* The inductive invariant holds in every fight.                           *)
THEOREM CombatInvHolds == CombatSpec => []CombatInv
<1>1. CombatInv /\ [CombatNext]_combatVars => CombatInv'
  BY CombatStep, CombatStutter
<1> QED BY <1>1, CombatInvInit, PTL DEF CombatSpec

(* The state of every fight has its types: hit points and stamina stay     *)
(* within their limits whatever the units, the enemies and the items do.   *)
THEOREM CombatTyped == CombatSpec => []CombatTypeOK
<1>1. CombatInv => CombatTypeOK
  BY DEF CombatInv
<1> QED BY <1>1, CombatInvHolds, PTL

(* A fight goes on only while both sides stand and ends as what it was,    *)
(* for any foes, personalities, items and plans.                           *)
THEOREM FightsEndAsTheyWere == CombatSpec => []OutcomeFits
<1>1. CombatInv => OutcomeFits
  BY DEF CombatInv
<1> QED BY <1>1, CombatInvHolds, PTL

(* However many items are used on an enemy, it misses no turn before it    *)
(* had two since the last one it missed.                                   *)
THEOREM StunsYield == CombatSpec => ItemStunYields
<1>1. CombatInv /\ [CombatNext]_combatVars
        => [\A f \in last'.missed \ tangled' : since[f] = 2]_combatVars
  BY CombatStep
<1> QED BY <1>1, CombatInvHolds, PTL DEF CombatSpec, ItemStunYields

(* What a turn reports as used up was in the bag when it began, with two   *)
(* units that ask for the same item too.                                   *)
THEOREM ReportsWhatWasHeld == CombatSpec => UsedWereHeld
<1>1. CombatInv /\ [CombatNext]_combatVars
        => [\A i \in Items : last'.removed[i] <= bag[i]]_combatVars
  BY CombatStep
<1> QED BY <1>1, CombatInvHolds, PTL DEF CombatSpec, UsedWereHeld
(* ----------------------------------------------------------------------- *)
(* The world, for every map, list of incidents and scale.                  *)

\* The clock at the end of the turn in progress, and the incidents whose
\* impacts it has still to apply.
Until == IF action = AtRest THEN clock ELSE clock + action.left
Waiting == IF action = AtRest THEN {} ELSE {action.impacts[a] : a \in DOMAIN action.impacts}
Over(k) == incidents[k].outcome # "open"

\* The clock is what the turns were charged, less what the turn in progress
\* has still to take.
TimeInv ==
  /\ day = DayOf(clock) /\ phase = PhaseOf(clock)
  /\ action = AtRest => timePhase = MirrorOf(phase) /\ safety = SafetyOf(heat)
  /\ Until <= MaxClock
  /\ AccrualTurns * Until + accrual = AccrualTurns * paid + talks

\* What waits has ended and waits once; what ended and does not wait has had
\* its consequences; a turn that pays has looked at the deadlines when no tick
\* is left.
CityInv ==
  /\ overdue => day >= SoftDeadline
  /\ \A j, k \in DOMAIN incidents : incidents[j].id = incidents[k].id => j = k
  /\ action # AtRest =>
       /\ ~runOver
       /\ action.step = "apply" => action.left = 0
       /\ \A a \in DOMAIN action.impacts :
            action.impacts[a] \in DOMAIN incidents /\ Over(action.impacts[a])
       /\ \A a, b \in DOMAIN action.impacts : action.impacts[a] = action.impacts[b] => a = b
       /\ action.pays /\ action.left = 0 => \A k \in Open(incidents) : incidents[k].deadline > clock
  /\ ~runOver =>
       /\ \A i \in Incidents :
            applied[i] = IF \E k \in DOMAIN incidents \ Waiting : incidents[k].id = i /\ Over(k) THEN 1 ELSE 0
       /\ \A f : f \in flags <=> f \in deeds \/
            \E k \in DOMAIN incidents \ Waiting :
               Over(k) /\ f \in Def[incidents[k].id].impact[incidents[k].outcome].flags

WorldInv == WorldTypeOK /\ TimeInv /\ CityInv

(* Division with a rest.                                                   *)
LEMMA Divided ==
  ASSUME NEW m \in Nat, NEW n \in Nat \ {0}
  PROVE  /\ m \div n \in Nat /\ m % n \in 0..(n - 1)
         /\ m = n * (m \div n) + (m % n)
OBVIOUS

LEMMA DayHasTicks == TicksPerDay \in Nat \ {0}
<1>1. \A k \in 1..4 : Durations[k] \in Nat \ {0}
  BY WorldAssumption
<1> QED BY <1>1 DEF TicksPerDay, EndOf

(* Days follow the clock.                                                  *)
LEMMA DaysPass ==
  ASSUME NEW c \in Nat, NEW d \in Nat, c <= d
  PROVE  DayOf(c) \in Nat /\ DayOf(d) \in Nat /\ DayOf(c) <= DayOf(d)
<1> DEFINE T == TicksPerDay
           x == c \div T
           y == d \div T
<1>1. T \in Nat \ {0}
  BY DayHasTicks
<1>2. /\ x \in Nat /\ c % T \in 0..(T - 1) /\ c = T * x + (c % T)
      /\ y \in Nat /\ d % T \in 0..(T - 1) /\ d = T * y + (d % T)
  BY <1>1, Divided
<1> HIDE DEF T, x, y
<1>3. x <= y
  <2> SUFFICES ASSUME y + 1 <= x PROVE FALSE
    BY <1>2
  <2>1. PICK z \in Nat : x = y + 1 + z
    <3>1. x - (y + 1) \in Nat /\ x = y + 1 + (x - (y + 1))
      BY <1>2
    <3> QED BY <3>1
  <2>2. T * x = T * y + T + T * z /\ T * z \in Nat /\ T * y \in Nat
    BY <1>1, <1>2, <2>1
  <2> QED BY <1>1, <1>2, <2>2
<1> QED BY <1>2, <1>3 DEF DayOf, x, y, T

LEMMA PhaseIs ==
  ASSUME NEW c \in Nat
  PROVE  PhaseOf(c) \in PhaseNames
<1> DEFINE t == c % TicksPerDay
           In(k) == t < EndOf(k) /\ \A j \in 1..(k - 1) : t >= EndOf(j)
<1>1. t \in Nat /\ t < EndOf(4)
  <2>1. TicksPerDay \in Nat \ {0} /\ TicksPerDay = EndOf(4)
    BY DayHasTicks DEF TicksPerDay
  <2>2. t \in 0..(TicksPerDay - 1)
    BY <2>1, Divided
  <2> QED BY <2>1, <2>2
<1>2. \A k \in 1..4 : EndOf(k) \in Nat
  <2>1. \A k \in 1..4 : Durations[k] \in Nat \ {0}
    BY WorldAssumption
  <2> QED BY <2>1 DEF EndOf
<1>3. \E k \in 1..4 : In(k)
  <2> HIDE DEF t
  <2>1. CASE t < EndOf(1)
    BY <2>1
  <2>2. CASE t >= EndOf(1) /\ t < EndOf(2)
    <3>1. In(2)
      BY <2>2
    <3> QED BY <3>1
  <2>3. CASE t >= EndOf(1) /\ t >= EndOf(2) /\ t < EndOf(3)
    <3>1. \A j \in 1..2 : j = 1 \/ j = 2
      OBVIOUS
    <3>2. In(3)
      BY <2>3, <3>1
    <3> QED BY <3>2
  <2>4. CASE t >= EndOf(1) /\ t >= EndOf(2) /\ t >= EndOf(3)
    <3>1. \A j \in 1..3 : j = 1 \/ j = 2 \/ j = 3
      OBVIOUS
    <3>2. In(4)
      BY <2>4, <3>1, <1>1
    <3> QED BY <3>2
  <2>5. \A k \in 1..3 : EndOf(k) \in Nat
    BY <1>2
  <2> QED BY <1>1, <2>1, <2>2, <2>3, <2>4, <2>5
<1>4. (CHOOSE k \in 1..4 : In(k)) \in 1..4
  BY <1>3
<1>5. \A k \in 1..4 : Phases[k] \in PhaseNames
  BY DEF Phases, PhaseNames
<1> QED BY <1>4, <1>5 DEF PhaseOf

LEMMA FirstHour == DayOf(0) = 1 /\ PhaseOf(0) = "DAWN"
<1>1. \A k \in 1..4 : Durations[k] \in Nat \ {0}
  BY WorldAssumption
<1>2. TicksPerDay \in Nat \ {0}
  BY DayHasTicks
<1>3. 0 \div TicksPerDay = 0 /\ 0 % TicksPerDay = 0
  BY <1>2
<1>4. 0 < EndOf(1) /\ EndOf(1) \in Nat
  BY <1>1 DEF EndOf
<1>5. \A k \in 1..4 :
        (0 < EndOf(k) /\ \A j \in 1..(k - 1) : 0 >= EndOf(j)) <=> k = 1
  BY <1>4
<1>6. (CHOOSE k \in 1..4 : 0 < EndOf(k) /\ \A j \in 1..(k - 1) : 0 >= EndOf(j)) = 1
  BY <1>5
<1>7. PhaseOf(0) = Phases[1]
  BY <1>3, <1>6 DEF PhaseOf
<1> QED BY <1>3, <1>7 DEF DayOf, Phases

LEMMA Clamped ==
  ASSUME NEW n \in Int, NEW high \in Nat
  PROVE  Clamp(n, 0, high) \in 0..high
BY DEF Clamp

LEMMA HeatIsHeated ==
  ASSUME heat \in 0..HeatScale.max, NEW d \in Int
  PROVE  Heated(d) \in 0..HeatScale.max
<1>1. HeatScale.max \in Nat /\ HeatScale.clamp \in Int
  BY WorldAssumption
<1>2. Clamp(d, -HeatScale.clamp, HeatScale.clamp) \in Int
  BY <1>1 DEF Clamp
<1>3. heat + Clamp(d, -HeatScale.clamp, HeatScale.clamp) \in Int
  BY <1>1, <1>2
<1> QED BY <1>1, <1>3, Clamped DEF Heated

\* The incidents of the definitions: what a tick and a deadline leave.
LEMMA PressedIs ==
  ASSUME NEW inc \in Incident, inc.stage \in DOMAIN Def[inc.id].stages, NEW d \in Int
  PROVE  LET new == Expired(Pressed(inc), d)
         IN  /\ new \in Incident /\ new.id = inc.id /\ new.stage = inc.stage
             /\ new.deadline = inc.deadline
             /\ inc.outcome # "open" => new = inc
             /\ new.outcome = "open" => d < new.deadline
<1> DEFINE s == Def[inc.id].stages[inc.stage]
           p == [inc EXCEPT !.pressure = Clamp(@ + s.perTick, 0, 100)]
           q == [p EXCEPT !.outcome = Resolution(p)]
<1>1. inc.id \in Incidents /\ Def[inc.id].stages \in Seq(IncidentStages)
  BY WorldAssumption DEF Incident
<1>2. s \in IncidentStages
  BY <1>1
<1>3. s.perTick \in Int
  BY <1>2 DEF IncidentStages
<1>4. inc.pressure + s.perTick \in Int
  BY <1>3 DEF Incident
<1>5. Clamp(inc.pressure + s.perTick, 0, 100) \in 0..100
  BY <1>4, Clamped
<1> HIDE DEF s
<1>6. p \in Incident /\ p.id = inc.id /\ p.stage = inc.stage /\ p.deadline = inc.deadline
      /\ p.outcome = inc.outcome
  BY <1>5 DEF Incident
<1> HIDE DEF p
<1>7. Resolution(p) \in IncidentOutcomes \union {"open"}
  BY DEF Resolution, IncidentOutcomes
<1>8. q \in Incident /\ q.id = inc.id /\ q.stage = inc.stage /\ q.deadline = inc.deadline
  BY <1>6, <1>7 DEF Incident
<1> DEFINE r == Pressed(inc)
<1>9. r \in Incident /\ r.id = inc.id /\ r.stage = inc.stage /\ r.deadline = inc.deadline
      /\ (inc.outcome # "open" => r = inc)
  BY <1>8 DEF Pressed, p, s
<1> HIDE DEF q, r
<1>10. Expired(r, d).deadline = r.deadline /\ Expired(r, d).id = r.id /\ Expired(r, d).stage = r.stage
       /\ Expired(r, d) \in Incident
       /\ (r.outcome # "open" => Expired(r, d) = r)
       /\ (Expired(r, d).outcome = "open" => ~(d >= r.deadline))
  BY <1>9 DEF Expired, Incident, IncidentOutcomes
<1>11. r.deadline \in Int
  BY <1>9 DEF Incident
<1> QED BY <1>9, <1>10, <1>11 DEF r

LEMMA SafetyIs ==
  ASSUME NEW h
  PROVE  SafetyOf(h) \in {"SAFE", "ALERT", "DANGER"}
BY DEF SafetyOf

LEMMA ImpactedIs ==
  ASSUME NEW inc \in Incident, inc.stage \in DOMAIN Def[inc.id].stages, NEW result \in Results
  PROVE  LET new == Impacted(inc, result)
         IN  /\ new \in Incident /\ new.id = inc.id /\ new.outcome = inc.outcome
             /\ new.deadline = inc.deadline /\ new.stage \in DOMAIN Def[inc.id].stages
<1> DEFINE s == Def[inc.id].stages[inc.stage]
           top == Len(Def[inc.id].stages)
           control == CASE result = "SUCCESS" -> Clamp(inc.control + s.reward, 0, 100)
                        [] result = "PARTIAL" -> Clamp(inc.control + s.reward \div 2, 0, 100)
                        [] result = "FAIL" -> Clamp(inc.control - s.penalty, 0, 100)
           onTo == IF control >= 50 /\ inc.stage < top THEN inc.stage + 1 ELSE inc.stage
<1>1. inc.id \in Incidents /\ Def[inc.id].stages \in Seq(IncidentStages)
  BY WorldAssumption DEF Incident
<1>2. s \in IncidentStages /\ top \in Nat /\ DOMAIN Def[inc.id].stages = 1..top
  BY <1>1
<1>3. s.reward \in Int /\ s.penalty \in Int
  BY <1>2 DEF IncidentStages
<1>4. s.reward \div 2 \in Int /\ inc.control \in Int
  BY <1>3 DEF Incident
<1> HIDE DEF s, top
<1>5. control \in 0..100
  <2>1. CASE result = "SUCCESS"
    <3>1. inc.control + s.reward \in Int
      BY <1>3, <1>4
    <3> QED BY <2>1, <3>1, Clamped
  <2>2. CASE result = "PARTIAL"
    <3>1. inc.control + s.reward \div 2 \in Int
      BY <1>4
    <3> QED BY <2>2, <3>1, Clamped
  <2>3. CASE result = "FAIL"
    <3>1. inc.control - s.penalty \in Int
      BY <1>3, <1>4
    <3> QED BY <2>3, <3>1, Clamped
  <2> QED BY <2>1, <2>2, <2>3 DEF Results
<1> HIDE DEF control
<1>6. inc.stage \in 1..top /\ onTo \in 1..top /\ onTo \in Nat \ {0}
  BY <1>2 DEF Incident
<1>7. Impacted(inc, result) = [inc EXCEPT !.control = control, !.stage = onTo]
  BY DEF Impacted, control, s, top, Incident
<1> HIDE DEF onTo
<1> QED BY <1>2, <1>5, <1>6, <1>7 DEF Incident

\* What the steps of a turn start from.
Numbers ==
  /\ clock \in Nat /\ accrual \in Nat /\ talks \in Nat /\ paid \in Nat
  /\ MaxClock \in Nat /\ AccrualTurns \in Nat \ {0} /\ SoftDeadline \in Int
  /\ DayOf(clock) \in Nat /\ Until \in Nat

LEMMA FactsHold ==
  ASSUME WorldInv
  PROVE  Numbers
<1>1. clock \in Nat /\ accrual \in Nat /\ talks \in Nat /\ paid \in Nat
      /\ MaxClock \in Nat /\ AccrualTurns \in Nat \ {0} /\ SoftDeadline \in Int
  BY WorldAssumption DEF WorldInv, WorldTypeOK
<1>2. DayOf(clock) \in Nat
  BY <1>1, DaysPass
<1>3. Until \in Nat
  BY <1>1 DEF WorldInv, WorldTypeOK, Until
<1> QED BY <1>1, <1>2, <1>3 DEF Numbers

LEMMA WorldInitInv ==
  ASSUME WorldInit
  PROVE  WorldInv
<1>0. PICK n \in 0..2 : \E f \in [1..n -> Eligible] :
        /\ \A j, k \in 1..n : f[j] = f[k] => j = k
        /\ incidents = [k \in 1..n |-> Runtime(f[k], 0)]
  BY DEF WorldInit
<1>1. PICK f \in [1..n -> Eligible] :
        /\ \A j, k \in 1..n : f[j] = f[k] => j = k
        /\ incidents = [k \in 1..n |-> Runtime(f[k], 0)]
  BY <1>0
<1>2. \A k \in 1..n : f[k] \in Incidents
  BY DEF Eligible
<1>3. \A k \in 1..n : /\ incidents[k] \in Incident /\ incidents[k].id = f[k]
                      /\ incidents[k].stage = 1 /\ incidents[k].outcome = "open"
  <2> SUFFICES ASSUME NEW k \in 1..n
               PROVE  /\ Runtime(f[k], 0) \in Incident /\ Runtime(f[k], 0).id = f[k]
                      /\ Runtime(f[k], 0).stage = 1 /\ Runtime(f[k], 0).outcome = "open"
    BY <1>1
  <2>1. f[k] \in Incidents /\ 0 + Def[f[k]].deadline \in Int
    BY <1>2, WorldAssumption
  <2> QED BY <2>1 DEF Runtime, Incident, IncidentOutcomes
<1>4. DOMAIN incidents = 1..n /\ n \in Nat
  BY <1>1
<1>5. incidents \in Seq(Incident)
  BY <1>1, <1>3, <1>4
<1>6. \A k \in DOMAIN incidents : incidents[k].stage \in DOMAIN Def[incidents[k].id].stages
  <2> SUFFICES ASSUME NEW k \in 1..n PROVE 1 \in DOMAIN Def[f[k]].stages
    BY <1>3, <1>4
  <2>1. Def[f[k]].stages \in Seq(IncidentStages) /\ Def[f[k]].stages # <<>>
    BY <1>2, WorldAssumption
  <2> QED BY <2>1
<1>7. WorldTypeOK
  <2>1. "DAWN" \in PhaseNames
    <3>1. Phases[1] \in PhaseNames
      BY DEF PhaseNames, Phases
    <3> QED BY <3>1 DEF Phases
  <2>2. MaxClock \in Nat /\ MaxTalks \in Nat /\ MaxCombats \in Nat /\ HeatScale.start \in 0..HeatScale.max
    BY WorldAssumption
  <2>3. /\ clock \in 0..MaxClock /\ day \in Nat /\ phase \in PhaseNames /\ timePhase \in {"DAY", "NIGHT"}
        /\ accrual \in Nat /\ talks \in 0..MaxTalks /\ paid \in Nat
    BY <2>1, <2>2 DEF WorldInit
  <2>4. /\ flags \in SUBSET STRING /\ deeds \in SUBSET STRING /\ overdue \in BOOLEAN /\ runOver \in BOOLEAN
        /\ applied \in [Incidents -> Nat]
    BY DEF WorldInit
  <2>5. /\ heat \in 0..HeatScale.max /\ safety \in {"SAFE", "ALERT", "DANGER"}
        /\ where \in Locations \union {Hub} /\ fighting \in BOOLEAN /\ window \in 0..MaxCombats
        /\ action = AtRest
    <3>1. safety \in {"SAFE", "ALERT", "DANGER"}
      BY SafetyIs DEF WorldInit
    <3>2. where = Hub /\ fighting = FALSE /\ window = 0 /\ action = AtRest /\ heat = HeatScale.start
      BY DEF WorldInit
    <3>3. window \in 0..MaxCombats
      BY ONLY <2>2, <3>2
    <3>5. fighting \in BOOLEAN /\ where \in Locations \union {Hub}
      BY ONLY <3>2
    <3>4. heat \in 0..HeatScale.max
      BY ONLY <2>2, <3>2
    <3> QED BY <3>1, <3>2, <3>3, <3>4, <3>5
  <2> QED BY <1>5, <1>6, <2>3, <2>4, <2>5 DEF WorldTypeOK
<1>8. TimeInv
  <2>1. /\ day = DayOf(clock) /\ phase = PhaseOf(clock)
    BY FirstHour DEF WorldInit
  <2>2. timePhase = MirrorOf(phase) /\ safety = SafetyOf(heat)
    BY DEF WorldInit, MirrorOf
  <2>3. Until = 0
    BY DEF WorldInit, Until
  <2>4. MaxClock \in Nat /\ AccrualTurns \in Nat
    BY WorldAssumption
  <2>5. clock = 0 /\ accrual = 0 /\ paid = 0 /\ talks = 0
    BY DEF WorldInit
  <2> QED BY <2>1, <2>2, <2>3, <2>4, <2>5 DEF TimeInv
<1>9. CityInv
  <2>1. \A j, k \in 1..n : f[j] = f[k] => j = k
    BY <1>1
  <2>2. action = AtRest /\ flags = {} /\ deeds = {} /\ applied = [i \in Incidents |-> 0] /\ ~overdue
    BY DEF WorldInit
  <2>3. \A k \in DOMAIN incidents : ~Over(k)
    BY <1>3, <1>4 DEF Over
  <2> QED BY <1>3, <1>4, <2>1, <2>2, <2>3 DEF CityInv
<1> QED BY <1>7, <1>8, <1>9 DEF WorldInv

(* Ticks that are charged and ticks that talk is paid with.                *)
LEMMA BooksAdd ==
  ASSUME NEW A \in Nat \ {0}, NEW c \in Nat, NEW a \in Nat, NEW p \in Nat, NEW t \in Nat,
         NEW n \in Nat, A * c + a = A * p + t
  PROVE  /\ a \div A \in Nat /\ a % A \in Nat
         /\ A * (c + (n + a \div A)) + (a % A) = A * (p + n) + t
<1> DEFINE q == a \div A
           r == a % A
<1>1. q \in Nat /\ r \in Nat /\ a = A * q + r
  BY Divided
<1> HIDE DEF q, r
<1>2. A * (c + (n + q)) = A * c + A * n + A * q /\ A * (p + n) = A * p + A * n
  BY <1>1
<1>3. A * c \in Nat /\ A * n \in Nat /\ A * q \in Nat /\ A * p \in Nat
  BY <1>1
<1>4. A * (c + (n + q)) + r = A * (p + n) + t
  BY <1>1, <1>2, <1>3
<1> QED BY <1>1, <1>4 DEF q, r

(* Between turns nothing but the clock may move past the incidents.        *)
LEMMA CityStays ==
  ASSUME WorldInv, action = AtRest, UNCHANGED <<city, action>>, clock' \in Nat, clock <= clock',
         day' = DayOf(clock')
  PROVE  CityInv'
<1>1. Numbers /\ CityInv /\ day = DayOf(clock)
  BY FactsHold DEF WorldInv, TimeInv
<1>2. DayOf(clock) <= DayOf(clock') /\ DayOf(clock') \in Nat /\ DayOf(clock) \in Nat
  BY <1>1, DaysPass DEF Numbers
<1>3. overdue' => day' >= SoftDeadline
  <2>1. overdue => day >= SoftDeadline
    BY <1>1 DEF CityInv
  <2>2. overdue' = overdue /\ SoftDeadline \in Int
    BY <1>1 DEF city, Numbers
  <2> QED BY <1>1, <1>2, <2>1, <2>2
<1>4. /\ incidents' = incidents /\ flags' = flags /\ deeds' = deeds /\ runOver' = runOver /\ applied' = applied
      /\ action' = AtRest /\ Waiting' = Waiting
  BY DEF city, Waiting
<1>5. \A k : Over(k)' <=> Over(k)
  BY <1>4 DEF Over
<1>6. AtRest' = AtRest
  BY DEF AtRest
<1> QED BY <1>1, <1>3, <1>4, <1>5, <1>6 DEF CityInv

\* The part of the invariant about what a turn that takes no tick may change.
SpotOK ==
  /\ heat \in 0..HeatScale.max /\ safety = SafetyOf(heat)
  /\ where \in Locations \union {Hub} /\ fighting \in BOOLEAN /\ window \in 0..MaxCombats

LEMMA SpotIs ==
  ASSUME WorldInv, action = AtRest
  PROVE  SpotOK
BY DEF WorldInv, WorldTypeOK, TimeInv, SpotOK

LEMMA MirrorIs ==
  ASSUME NEW p
  PROVE  MirrorOf(p) \in {"DAY", "NIGHT"}
BY DEF MirrorOf

(* A handler that moves the clock at most, and the talk put aside with it. *)
LEMMA BetweenTurns ==
  ASSUME WorldInv, action = AtRest, UNCHANGED <<city, action>>,
         clock' \in 0..MaxClock, clock <= clock', day' = DayOf(clock'), phase' = PhaseOf(clock'),
         timePhase' = MirrorOf(phase'), accrual' \in Nat, paid' \in Nat, talks' = talks,
         AccrualTurns * clock' + accrual' = AccrualTurns * paid' + talks', SpotOK'
  PROVE  WorldInv'
<1>1. Numbers
  BY FactsHold
<1>2. clock' \in Nat
  BY <1>1 DEF Numbers
<1>3. CityInv'
  BY <1>2, CityStays
<1>4. TimeInv'
  <2>1. action' = AtRest /\ AtRest' = AtRest
    BY DEF AtRest
  <2>2. clock' <= MaxClock
    BY <1>1, <1>2 DEF Numbers
  <2>3. safety' = SafetyOf(heat')
    BY DEF SpotOK
  <2> QED BY <2>1, <2>2, <2>3 DEF TimeInv, Until
<1>5. WorldTypeOK'
  <2>1. DayOf(clock') \in Nat /\ PhaseOf(clock') \in PhaseNames
    BY <1>1, <1>2, PhaseIs, DaysPass DEF Numbers
  <2>2. timePhase' \in {"DAY", "NIGHT"} /\ safety' \in {"SAFE", "ALERT", "DANGER"}
    BY MirrorIs, SafetyIs DEF SpotOK
  <2>3. /\ clock' \in 0..MaxClock /\ day' \in Nat /\ phase' \in PhaseNames
        /\ accrual' \in Nat /\ talks' \in 0..MaxTalks /\ paid' \in Nat
    BY <2>1 DEF WorldInv, WorldTypeOK
  <2>4. /\ incidents' \in Seq(Incident)
        /\ \A k \in DOMAIN incidents' : incidents'[k].stage \in DOMAIN Def[incidents'[k].id].stages
        /\ flags' \in SUBSET STRING /\ deeds' \in SUBSET STRING /\ overdue' \in BOOLEAN /\ runOver' \in BOOLEAN
        /\ applied' \in [Incidents -> Nat]
    BY DEF WorldInv, WorldTypeOK, city
  <2>5. action' = AtRest /\ AtRest' = AtRest
    BY DEF AtRest
  <2> QED BY <2>2, <2>3, <2>4, <2>5 DEF WorldTypeOK, SpotOK
<1> QED BY <1>3, <1>4, <1>5 DEF WorldInv

LEMMA TravelIs ==
  ASSUME WorldInv, action = AtRest, NEW ticks \in Nat, Travel(ticks)
  PROVE  /\ UNCHANGED <<city, action>> /\ clock' \in 0..MaxClock /\ clock <= clock'
         /\ day' = DayOf(clock') /\ phase' = PhaseOf(clock') /\ timePhase' = MirrorOf(phase')
         /\ accrual' \in Nat /\ paid' \in Nat /\ talks' = talks
         /\ AccrualTurns * clock' + accrual' = AccrualTurns * paid' + talks'
<1>1. Numbers
  BY FactsHold
<1>2. AccrualTurns * clock + accrual = AccrualTurns * paid + talks
  BY DEF WorldInv, TimeInv, Until
<1>3. /\ Due \in Nat /\ accrual % AccrualTurns \in Nat
      /\ AccrualTurns * (clock + (ticks + Due)) + (accrual % AccrualTurns)
           = AccrualTurns * (paid + ticks) + talks
  BY <1>1, <1>2, BooksAdd DEF Numbers, Due
<1>4. clock' = clock + (ticks + Due) /\ clock' <= MaxClock
  <2>1. clock + ticks + Due = clock + (ticks + Due)
    BY <1>1, <1>3 DEF Numbers
  <2> QED BY <2>1 DEF Travel
<1>5. accrual' = accrual % AccrualTurns /\ paid' = paid + ticks /\ talks' = talks
  BY DEF Travel
<1>6. clock' \in 0..MaxClock /\ clock <= clock' /\ accrual' \in Nat /\ paid' \in Nat
  BY <1>1, <1>3, <1>4, <1>5 DEF Numbers
<1>7. AccrualTurns * clock' + accrual' = AccrualTurns * paid' + talks'
  BY <1>3, <1>4, <1>5
<1> QED BY <1>6, <1>7 DEF Travel

LEMMA HandlersKeep ==
  ASSUME WorldInv, action = AtRest, WorldTurn,
         ~(\E d \in HeatDeltas, result \in Results :
           Talk(d, result) \/ \E cost \in {1, 2} : Spend(cost, d, result))
  PROVE  WorldInv'
<1>1. Numbers /\ SpotOK
  BY FactsHold, SpotIs
<1>2. /\ HeatScale.max \in Nat /\ HeatScale.decay \in Int /\ HeatScale.combat \in Int
      /\ HeatDeltas \subseteq Int /\ HeatScale.cool \subseteq Int /\ MaxCombats \in Nat
  BY WorldAssumption
<1>3. heat \in Int
  BY <1>1, <1>2 DEF SpotOK
<1>4. ASSUME NEW l \in Locations, HubToLocation(l) PROVE WorldInv'
  <2>1. Travel(1)
    BY <1>4 DEF HubToLocation
  <2>2. SpotOK'
    BY <1>1, <1>4 DEF SpotOK, HubToLocation, Travel
  <2> QED BY <2>1, <2>2, TravelIs, BetweenTurns
<1>5. ASSUME NEW l \in Locations, MoveTo(l) PROVE WorldInv'
  <2>1. Travel(2)
    BY <1>5 DEF MoveTo
  <2>2. SpotOK'
    BY <1>1, <1>5 DEF SpotOK, MoveTo, Travel
  <2> QED BY <2>1, <2>2, TravelIs, BetweenTurns
<1>6. ASSUME ReturnToHub PROVE WorldInv'
  <2>1. Travel(1)
    BY <1>6 DEF ReturnToHub
  <2>2. heat' \in 0..HeatScale.max
    <3>1. heat - HeatScale.decay \in Int
      BY <1>2, <1>3
    <3> QED BY <1>2, <1>6, <3>1, Clamped DEF ReturnToHub
  <2>3. window' \in 0..MaxCombats
    BY <1>2, <1>6 DEF ReturnToHub
  <2>4. SpotOK'
    BY <1>1, <1>6, <2>2, <2>3 DEF SpotOK, ReturnToHub, Travel
  <2> QED BY <2>1, <2>4, TravelIs, BetweenTurns
<1>7. ASSUME UNCHANGED <<hours, books, city, action>>, timePhase' = MirrorOf(phase), SpotOK'
      PROVE  WorldInv'
  <2>1. /\ clock' = clock /\ day' = day /\ phase' = phase /\ accrual' = accrual /\ paid' = paid
        /\ talks' = talks
    BY <1>7 DEF hours, books
  <2>2. day = DayOf(clock) /\ phase = PhaseOf(clock) /\ clock \in 0..MaxClock
    BY DEF WorldInv, TimeInv, WorldTypeOK
  <2>3. AccrualTurns * clock + accrual = AccrualTurns * paid + talks
    BY DEF WorldInv, TimeInv, Until
  <2>4. clock <= clock' /\ accrual' \in Nat /\ paid' \in Nat
    BY <1>1, <2>1 DEF Numbers
  <2> QED BY <1>7, <2>1, <2>2, <2>3, <2>4, BetweenTurns
<1>8. timePhase = MirrorOf(phase)
  BY DEF WorldInv, TimeInv
<1>9. ASSUME NEW d \in HeatScale.cool, CoolDown(d) PROVE WorldInv'
  <2>1. heat' \in 0..HeatScale.max
    <3>1. heat - d \in Int
      BY <1>2, <1>3
    <3> QED BY <1>2, <1>9, <3>1, Clamped DEF CoolDown
  <2>2. SpotOK'
    BY <1>1, <1>9, <2>1 DEF SpotOK, CoolDown, spot
  <2> QED BY <1>7, <1>8, <1>9, <2>2 DEF CoolDown, time
<1>10. ASSUME NEW d \in HeatDeltas, StartCombat(d) PROVE WorldInv'
  <2>1. heat' \in 0..HeatScale.max
    <3>1. heat \in 0..HeatScale.max /\ d \in Int
      BY <1>1, <1>2 DEF SpotOK
    <3> QED BY <3>1, <1>10, HeatIsHeated DEF StartCombat
  <2>2. window' \in 0..MaxCombats
    BY <1>1, <1>2, <1>10 DEF StartCombat, SpotOK
  <2>3. SpotOK'
    BY <1>1, <1>10, <2>1, <2>2 DEF SpotOK, StartCombat
  <2> QED BY <1>7, <1>10, <2>3 DEF StartCombat
<1>11. ASSUME EndCombat PROVE WorldInv'
  <2>1. heat' \in 0..HeatScale.max
    <3>1. heat \in 0..HeatScale.max
      BY <1>1 DEF SpotOK
    <3> QED BY <3>1, <1>2, <1>11, HeatIsHeated DEF EndCombat
  <2>2. SpotOK'
    BY <1>1, <1>11, <2>1 DEF SpotOK, EndCombat
  <2> QED BY <1>7, <1>8, <1>11, <2>2 DEF EndCombat, time
<1> QED BY <1>4, <1>5, <1>6, <1>9, <1>10, <1>11 DEF WorldTurn

\* A turn in progress, as its steps need it.
LEMMA InTurn ==
  ASSUME WorldInv, action # AtRest
  PROVE  /\ action \in [step : {"tick", "apply"}, left : Nat, pays : BOOLEAN, from : PhaseNames,
                      result : Results, impacts : Seq(Nat)]
         /\ ~runOver /\ Until = clock + action.left
         /\ Waiting = {action.impacts[a] : a \in DOMAIN action.impacts}
BY DEF WorldInv, WorldTypeOK, CityInv, Waiting, Until

LEMMA BeginKeeps ==
  ASSUME WorldInv, action = AtRest, ~runOver, NEW pays \in BOOLEAN, NEW n \in Nat, NEW d \in HeatDeltas,
         NEW result \in Results, pays => n # 0, Begin(pays, n, d, result),
         accrual' \in Nat, talks' \in 0..MaxTalks, paid' \in Nat, clock + n <= MaxClock,
         AccrualTurns * (clock + n) + accrual' = AccrualTurns * paid' + talks'
  PROVE  WorldInv'
<1>1. Numbers /\ SpotOK
  BY FactsHold, SpotIs
<1>2. /\ clock' = clock /\ day' = day /\ phase' = phase /\ timePhase' = timePhase /\ safety' = safety
      /\ where' = where /\ fighting' = fighting /\ window' = window
      /\ incidents' = incidents /\ overdue' = overdue /\ runOver' = runOver
      /\ applied' = applied
  BY DEF Begin, hours, mirrors, spot, city
<1>10. PICK new \in FlagsSet(result) : flags' = flags \union new /\ deeds' = deeds \union new
  BY DEF Begin
<1>11. new \in SUBSET STRING
  BY <1>10, WorldAssumption DEF FlagsSet
<1>3. action' = [step |-> "tick", left |-> n, pays |-> pays, from |-> phase, result |-> result,
                 impacts |-> <<>>]
  BY DEF Begin
<1>4. action'.step = "tick" /\ action'.left = n /\ action'.impacts = <<>> /\ action'.pays = pays
  BY <1>3
<1>5. action' # AtRest /\ AtRest' = AtRest
  BY <1>4 DEF AtRest
<1>6. heat' \in 0..HeatScale.max
  <2>1. d \in Int /\ heat \in 0..HeatScale.max
    BY <1>1, WorldAssumption DEF SpotOK
  <2> QED BY <2>1, HeatIsHeated DEF Begin
<1>7. WorldTypeOK'
  <2>1. action' \in [step : {"tick", "apply"}, left : Nat, pays : BOOLEAN, from : PhaseNames,
                   result : Results, impacts : Seq(Nat)]
    <3>1. phase \in PhaseNames /\ <<>> \in Seq(Nat)
      BY DEF WorldInv, WorldTypeOK
    <3> QED BY <1>3, <3>1
  <2>2. WorldTypeOK
    BY DEF WorldInv
  <2>3. /\ clock' \in 0..MaxClock /\ day' \in Nat /\ phase' \in PhaseNames
        /\ timePhase' \in {"DAY", "NIGHT"}
    BY <1>2, <2>2 DEF WorldTypeOK
  <2>4. /\ incidents' \in Seq(Incident)
        /\ \A k \in DOMAIN incidents' : incidents'[k].stage \in DOMAIN Def[incidents'[k].id].stages
        /\ flags' \in SUBSET STRING /\ deeds' \in SUBSET STRING /\ overdue' \in BOOLEAN /\ runOver' \in BOOLEAN
        /\ applied' \in [Incidents -> Nat]
    BY <1>2, <1>10, <1>11, <2>2 DEF WorldTypeOK
  <2>5. /\ safety' \in {"SAFE", "ALERT", "DANGER"}
        /\ where' \in Locations \union {Hub} /\ fighting' \in BOOLEAN /\ window' \in 0..MaxCombats
    BY <1>2, <2>2 DEF WorldTypeOK
  <2> QED BY <1>6, <2>1, <2>3, <2>4, <2>5 DEF WorldTypeOK
<1>8. TimeInv'
  <2>1. Until' = clock + n
    BY <1>2, <1>4, <1>5 DEF Until
  <2>2. day' = DayOf(clock') /\ phase' = PhaseOf(clock')
    BY <1>2 DEF WorldInv, TimeInv
  <2> QED BY <1>5, <2>1, <2>2 DEF TimeInv
<1>9. CityInv'
  <2>1. DOMAIN action'.impacts = {}
    BY <1>4
  <2>2. Waiting = {}
    BY DEF Waiting
  <2>3. Waiting' = {}
    BY <1>5, <2>1 DEF Waiting
  <2>4. overdue' => day' >= SoftDeadline
    BY <1>2 DEF WorldInv, CityInv
  <2>5. \A j, k \in DOMAIN incidents' : incidents'[j].id = incidents'[k].id => j = k
    BY <1>2 DEF WorldInv, CityInv
  <2>6. /\ \A i \in Incidents : applied'[i] =
             IF \E k \in DOMAIN incidents' \ Waiting' : incidents'[k].id = i /\ Over(k)' THEN 1 ELSE 0
        /\ \A f : f \in flags' <=> f \in deeds' \/
             \E k \in DOMAIN incidents' \ Waiting' :
               Over(k)' /\ f \in Def[incidents'[k].id].impact[incidents'[k].outcome].flags
    <3>1. /\ \A i \in Incidents : applied[i] =
               IF \E k \in DOMAIN incidents \ Waiting : incidents[k].id = i /\ Over(k) THEN 1 ELSE 0
          /\ \A f : f \in flags <=> f \in deeds \/
               \E k \in DOMAIN incidents \ Waiting :
                 Over(k) /\ f \in Def[incidents[k].id].impact[incidents[k].outcome].flags
      BY DEF WorldInv, CityInv
    <3> QED BY <1>2, <1>10, <2>2, <2>3, <3>1 DEF Over
  <2>7. /\ ~runOver' /\ (action'.step = "apply" => action'.left = 0)
        /\ ~(action'.pays /\ action'.left = 0)
    BY <1>2, <1>4
  <2> QED BY <2>1, <2>4, <2>5, <2>6, <2>7 DEF CityInv
<1> QED BY <1>7, <1>8, <1>9 DEF WorldInv

LEMMA TalkKeeps ==
  ASSUME WorldInv, action = AtRest, ~runOver, NEW d \in HeatDeltas, NEW result \in Results,
         Talk(d, result)
  PROVE  WorldInv'
<1>1. Numbers
  BY FactsHold
<1>2. AccrualTurns * clock + accrual = AccrualTurns * paid + talks /\ clock <= MaxClock
  BY DEF WorldInv, TimeInv, Until
<1>3. accrual' = accrual + 1 /\ talks' = talks + 1 /\ paid' = paid /\ talks < MaxTalks
  BY DEF Talk
<1>4. accrual' \in Nat /\ paid' \in Nat /\ talks' \in 0..MaxTalks
  <2>1. MaxTalks \in Nat
    BY WorldAssumption
  <2> QED BY <1>1, <1>3, <2>1 DEF Numbers
<1>5. clock + 0 = clock
  BY ONLY <1>1 DEF Numbers
<1>6. AccrualTurns * clock + accrual' = AccrualTurns * paid' + talks'
  <2> DEFINE x == AccrualTurns * clock
             y == AccrualTurns * paid
  <2>1. x \in Nat /\ y \in Nat
    BY <1>1 DEF Numbers
  <2>2. x + accrual = y + talks
    BY <1>2
  <2> HIDE DEF x, y
  <2>3. x + (accrual + 1) = y + (talks + 1)
    BY <1>1, <2>1, <2>2 DEF Numbers
  <2> QED BY <1>3, <2>3 DEF x, y
<1> QED BY <1>2, <1>4, <1>5, <1>6, BeginKeeps DEF Talk

LEMMA SpendKeeps ==
  ASSUME WorldInv, action = AtRest, ~runOver, NEW d \in HeatDeltas, NEW cost \in {1, 2},
         NEW result \in Results, Spend(cost, d, result)
  PROVE  WorldInv'
<1>1. Numbers
  BY FactsHold
<1>2. AccrualTurns * clock + accrual = AccrualTurns * paid + talks
  BY DEF WorldInv, TimeInv, Until
<1>3. accrual' = accrual % AccrualTurns /\ talks' = talks /\ paid' = paid + cost
  BY DEF Spend
<1>4. cost \in Nat
  OBVIOUS
<1>5. /\ Due \in Nat /\ accrual % AccrualTurns \in Nat
      /\ AccrualTurns * (clock + (cost + Due)) + (accrual % AccrualTurns)
           = AccrualTurns * (paid + cost) + talks
  BY <1>1, <1>2, <1>4, BooksAdd DEF Numbers, Due
<1>6. clock + (cost + Due) <= MaxClock /\ cost + Due \in Nat /\ cost + Due # 0
  <2>1. clock + cost + Due = clock + (cost + Due)
    BY <1>1, <1>4, <1>5 DEF Numbers
  <2>2. cost + Due \in Nat /\ cost + Due # 0
    BY <1>5
  <2> QED BY <2>1, <2>2 DEF Spend
<1>7. accrual' \in Nat /\ paid' \in Nat /\ talks' \in 0..MaxTalks
  <2>1. talks \in 0..MaxTalks
    BY DEF WorldInv, WorldTypeOK
  <2> QED BY <1>1, <1>3, <1>4, <1>5, <2>1 DEF Numbers
<1>8. AccrualTurns * (clock + (cost + Due)) + accrual' = AccrualTurns * paid' + talks'
  BY <1>3, <1>5
<1> QED BY <1>6, <1>7, <1>8, BeginKeeps DEF Spend

\* What the steps of a turn do not touch.
LEMMA TypesIn ==
  ASSUME WorldInv
  PROVE  /\ clock \in 0..MaxClock /\ day \in Nat /\ phase \in PhaseNames
         /\ timePhase \in {"DAY", "NIGHT"}
         /\ accrual \in Nat /\ talks \in 0..MaxTalks /\ paid \in Nat
         /\ incidents \in Seq(Incident)
         /\ \A k \in DOMAIN incidents : /\ incidents[k] \in Incident
                                        /\ incidents[k].stage \in DOMAIN Def[incidents[k].id].stages
         /\ flags \in SUBSET STRING /\ deeds \in SUBSET STRING /\ overdue \in BOOLEAN /\ runOver \in BOOLEAN
         /\ applied \in [Incidents -> Nat]
         /\ heat \in 0..HeatScale.max /\ safety \in {"SAFE", "ALERT", "DANGER"}
         /\ where \in Locations \union {Hub} /\ fighting \in BOOLEAN /\ window \in 0..MaxCombats
<1>1. WorldTypeOK
  BY DEF WorldInv
<1>2. \A k \in DOMAIN incidents : incidents[k] \in Incident
  <2>1. incidents \in Seq(Incident)
    BY <1>1 DEF WorldTypeOK
  <2> QED BY <2>1
<1> QED BY <1>1, <1>2 DEF WorldTypeOK

LEMMA ImpactKeeps ==
  ASSUME WorldInv, action # AtRest, Impact
  PROVE  WorldInv'
<1>1. /\ clock' = clock /\ day' = day /\ phase' = phase /\ timePhase' = timePhase /\ safety' = safety
      /\ accrual' = accrual /\ talks' = talks /\ paid' = paid /\ heat' = heat
      /\ where' = where /\ fighting' = fighting /\ window' = window
      /\ flags' = flags /\ deeds' = deeds /\ overdue' = overdue /\ runOver' = runOver /\ applied' = applied
  BY DEF Impact, time, hours, books, spot
<1>2. action' = [action EXCEPT !.step = "apply"] /\ action.left = 0
  BY DEF Impact
<1>3. /\ action' \in [step : {"tick", "apply"}, left : Nat, pays : BOOLEAN, from : PhaseNames,
                    result : Results, impacts : Seq(Nat)]
      /\ action'.left = action.left /\ action'.impacts = action.impacts /\ action'.pays = action.pays
      /\ action'.step = "apply"
  BY <1>2, InTurn
<1>4. action' # AtRest /\ AtRest' = AtRest
  BY <1>3 DEF AtRest
<1>5. /\ incidents' \in Seq(Incident) /\ DOMAIN incidents' = DOMAIN incidents
      /\ \A j \in DOMAIN incidents :
           /\ incidents'[j].id = incidents[j].id /\ incidents'[j].outcome = incidents[j].outcome
           /\ incidents'[j].deadline = incidents[j].deadline
           /\ incidents'[j].stage \in DOMAIN Def[incidents'[j].id].stages
  <2>1. CASE incidents' = incidents
    BY <2>1, TypesIn
  <2>2. ASSUME NEW k \in Relevant, incidents' = [incidents EXCEPT ![k] = Impacted(@, action.result)]
        PROVE  <1>5!:
    <3>1. k \in DOMAIN incidents
      BY DEF Relevant, Open
    <3>0. action.result \in Results
      BY InTurn
    <3> DEFINE new == Impacted(incidents[k], action.result)
    <3>2. /\ new \in Incident /\ new.id = incidents[k].id /\ new.outcome = incidents[k].outcome
          /\ new.deadline = incidents[k].deadline /\ new.stage \in DOMAIN Def[incidents[k].id].stages
      BY <3>0, <3>1, TypesIn, ImpactedIs
    <3> HIDE DEF new
    <3>3. incidents' = [incidents EXCEPT ![k] = new]
      BY <2>2 DEF new
    <3>4. incidents \in Seq(Incident)
      BY TypesIn
    <3>5. incidents' \in Seq(Incident) /\ DOMAIN incidents' = DOMAIN incidents
      BY <3>1, <3>2, <3>3, <3>4
    <3>6. \A j \in DOMAIN incidents : incidents'[j] = IF j = k THEN new ELSE incidents[j]
      BY <3>3
    <3> QED BY <3>2, <3>5, <3>6, TypesIn
  <2>3. \/ incidents' = incidents
        \/ \E k \in Relevant : incidents' = [incidents EXCEPT ![k] = Impacted(@, action.result)]
    BY DEF Impact
  <2> QED BY <2>1, <2>2, <2>3
<1>6. WorldTypeOK'
  BY <1>1, <1>3, <1>5, TypesIn DEF WorldTypeOK
<1>7. TimeInv'
  <2>1. Until' = Until
    BY <1>1, <1>3, <1>4 DEF Until
  <2>2. TimeInv
    BY DEF WorldInv
  <2> QED BY <1>1, <1>4, <2>1, <2>2 DEF TimeInv
<1>8. CityInv'
  <2>1. CityInv
    BY DEF WorldInv
  <2>2. Waiting' = Waiting
    BY <1>3, <1>4 DEF Waiting
  <2>3. \A j \in DOMAIN incidents : Over(j)' <=> Over(j)
    BY <1>5 DEF Over
  <2>4. overdue' => day' >= SoftDeadline
    BY <1>1, <2>1 DEF CityInv
  <2>5. \A j, k \in DOMAIN incidents' : incidents'[j].id = incidents'[k].id => j = k
    BY <1>5, <2>1 DEF CityInv
  <2>6. \A a \in DOMAIN action'.impacts :
          action'.impacts[a] \in DOMAIN incidents' /\ incidents'[action'.impacts[a]].outcome # "open"
    BY <1>3, <1>5, <2>1 DEF CityInv, Over
  <2>7. \A a, b \in DOMAIN action'.impacts : action'.impacts[a] = action'.impacts[b] => a = b
    BY <1>3, <2>1 DEF CityInv
  <2>8. action'.pays /\ action'.left = 0 => \A k \in Open(incidents') : incidents'[k].deadline > clock'
    <3>1. \A k \in Open(incidents') : k \in Open(incidents) /\ incidents'[k].deadline = incidents[k].deadline
      BY <1>5 DEF Open
    <3> QED BY <1>1, <1>3, <3>1, <2>1 DEF CityInv
  <2>9. ~runOver' => \A i \in Incidents : applied'[i] =
             IF \E k \in DOMAIN incidents' \ Waiting' : incidents'[k].id = i /\ Over(k)' THEN 1 ELSE 0
    BY <1>1, <1>5, <2>1, <2>2, <2>3 DEF CityInv
  <2>10. ~runOver' => \A f : f \in flags' <=> f \in deeds' \/
             \E k \in DOMAIN incidents' \ Waiting' :
               Over(k)' /\ f \in Def[incidents'[k].id].impact[incidents'[k].outcome].flags
    BY <1>1, <1>5, <2>1, <2>2, <2>3 DEF CityInv
  <2>11. ~runOver' /\ action'.left = 0
    BY <1>1, <1>2, <1>3, InTurn
  <2> QED BY <2>4, <2>5, <2>6, <2>7, <2>8, <2>9, <2>10, <2>11 DEF CityInv, Over
<1> QED BY <1>6, <1>7, <1>8 DEF WorldInv

LEMMA ApplyKeeps ==
  ASSUME WorldInv, action # AtRest, ApplyPatch
  PROVE  WorldInv'
<1> DEFINE h == Head(action.impacts)
           inc == incidents[h]
           impact == Def[inc.id].impact[inc.outcome]
<1>1. /\ clock' = clock /\ day' = day /\ phase' = phase /\ timePhase' = timePhase /\ safety' = safety
      /\ accrual' = accrual /\ talks' = talks /\ paid' = paid /\ incidents' = incidents
      /\ where' = where /\ fighting' = fighting /\ window' = window
      /\ overdue' = overdue /\ runOver' = runOver /\ deeds' = deeds
  BY DEF ApplyPatch, time, hours, books, spot
<1>2. /\ heat' = Clamp(heat + impact.heat, 0, HeatScale.max) /\ flags' = flags \union impact.flags
      /\ applied' = [applied EXCEPT ![inc.id] = @ + 1]
      /\ action' = [action EXCEPT !.impacts = Tail(@)] /\ action.impacts # <<>>
  BY DEF ApplyPatch
<1>3. /\ action.impacts \in Seq(Nat) /\ h = action.impacts[1] /\ 1 \in DOMAIN action.impacts
      /\ Tail(action.impacts) \in Seq(Nat)
      /\ \A a \in DOMAIN Tail(action.impacts) :
           a + 1 \in DOMAIN action.impacts /\ Tail(action.impacts)[a] = action.impacts[a + 1]
      /\ \A a \in DOMAIN action.impacts : a # 1 =>
           a - 1 \in DOMAIN Tail(action.impacts) /\ Tail(action.impacts)[a - 1] = action.impacts[a]
  <2>1. action.impacts \in Seq(Nat) /\ action.impacts # <<>>
    BY <1>2, InTurn
  <2> QED BY ONLY <2>1
<1>4. /\ action' \in [step : {"tick", "apply"}, left : Nat, pays : BOOLEAN, from : PhaseNames,
                    result : Results, impacts : Seq(Nat)]
      /\ action'.left = action.left /\ action'.impacts = Tail(action.impacts) /\ action'.pays = action.pays
      /\ action'.step = action.step
  BY <1>2, <1>3, InTurn
<1>5. action' # AtRest /\ AtRest' = AtRest
  BY <1>4, InTurn DEF AtRest
<1>6. CityInv
  BY DEF WorldInv
<1>7. h \in DOMAIN incidents /\ Over(h) /\ h \in Waiting
  BY <1>3, <1>6, InTurn DEF CityInv
<1>8. inc \in Incident /\ inc.id \in Incidents /\ inc.outcome \in IncidentOutcomes
  BY <1>7, TypesIn DEF Incident, Over
<1>9. impact.heat \in Int /\ impact.flags \in SUBSET STRING /\ deeds \in SUBSET STRING
  <2>1. impact \in Consequences
    BY <1>8, WorldAssumption
  <2> QED BY <2>1, TypesIn DEF Consequences
<1>10. \A k : k \in Waiting' <=> k \in Waiting /\ k # h
  <2> SUFFICES ASSUME NEW k PROVE k \in Waiting' <=> k \in Waiting /\ k # h
    OBVIOUS
  <2>1. k \in Waiting' <=> \E a \in DOMAIN Tail(action.impacts) : Tail(action.impacts)[a] = k
    BY <1>4, <1>5 DEF Waiting
  <2>2. k \in Waiting <=> \E a \in DOMAIN action.impacts : action.impacts[a] = k
    BY InTurn
  <2>3. ASSUME NEW a \in DOMAIN Tail(action.impacts) PROVE Tail(action.impacts)[a] # h
    <3>1. /\ a + 1 \in DOMAIN action.impacts /\ Tail(action.impacts)[a] = action.impacts[a + 1]
          /\ a \in Nat /\ a # 0
      BY <1>3
    <3>2. a + 1 # 1
      BY <3>1
    <3> QED BY <1>3, <1>6, <3>1, <3>2 DEF CityInv
  <2> QED BY <1>3, <2>1, <2>2, <2>3
<1>11. \A k : Over(k)' <=> Over(k)
  BY <1>1 DEF Over
<1> HIDE DEF h
<1>12. WorldTypeOK'
  <2>1. heat' \in 0..HeatScale.max
    <3>0. HeatScale.max \in Nat /\ heat \in 0..HeatScale.max
      BY TypesIn, WorldAssumption
    <3>1. heat + impact.heat \in Int /\ HeatScale.max \in Nat
      BY ONLY <1>9, <3>0
    <3> QED BY <1>2, <3>1, Clamped
  <2>2. flags' \in SUBSET STRING /\ deeds' \in SUBSET STRING
    BY <1>1, <1>2, <1>9, TypesIn
  <2>3. applied' \in [Incidents -> Nat]
    BY <1>2, <1>8, TypesIn
  <2>4. /\ clock' \in 0..MaxClock /\ day' \in Nat /\ phase' \in PhaseNames
        /\ timePhase' \in {"DAY", "NIGHT"}
        /\ accrual' \in Nat /\ talks' \in 0..MaxTalks /\ paid' \in Nat
    BY <1>1, TypesIn
  <2>5. /\ incidents' \in Seq(Incident)
        /\ \A k \in DOMAIN incidents' : incidents'[k].stage \in DOMAIN Def[incidents'[k].id].stages
        /\ overdue' \in BOOLEAN /\ runOver' \in BOOLEAN
        /\ safety' \in {"SAFE", "ALERT", "DANGER"}
        /\ where' \in Locations \union {Hub} /\ fighting' \in BOOLEAN /\ window' \in 0..MaxCombats
    BY <1>1, TypesIn
  <2> QED BY <1>4, <2>1, <2>2, <2>3, <2>4, <2>5 DEF WorldTypeOK
<1>13. TimeInv'
  <2>1. Until' = Until
    BY <1>1, <1>4, <1>5 DEF Until
  <2>2. TimeInv
    BY DEF WorldInv
  <2> QED BY <1>1, <1>5, <2>1, <2>2 DEF TimeInv
<1>14. CityInv'
  <2>1. overdue' => day' >= SoftDeadline
    BY <1>1, <1>6 DEF CityInv
  <2>2. \A j, k \in DOMAIN incidents : incidents[j].id = incidents[k].id => j = k
    BY <1>6 DEF CityInv
  <2>3. \A a \in DOMAIN action'.impacts :
          action'.impacts[a] \in DOMAIN incidents' /\ incidents'[action'.impacts[a]].outcome # "open"
    BY <1>1, <1>3, <1>4, <1>6 DEF CityInv, Over
  <2>4. \A a, b \in DOMAIN action'.impacts : action'.impacts[a] = action'.impacts[b] => a = b
    <3> SUFFICES ASSUME NEW a \in DOMAIN action'.impacts, NEW b \in DOMAIN action'.impacts,
                        action'.impacts[a] = action'.impacts[b]
                 PROVE  a = b
      OBVIOUS
    <3>1. action.impacts[a + 1] = action.impacts[b + 1] /\ a \in Nat /\ b \in Nat
          /\ a + 1 \in DOMAIN action.impacts /\ b + 1 \in DOMAIN action.impacts
      BY <1>3, <1>4
    <3>2. a + 1 = b + 1
      BY <1>6, <3>1 DEF CityInv
    <3> QED BY <3>1, <3>2
  <2>5. action'.pays /\ action'.left = 0 => \A k \in Open(incidents') : incidents'[k].deadline > clock'
    BY <1>1, <1>4, <1>6 DEF CityInv, Open
  <2>6. ~runOver' /\ (action'.step = "apply" => action'.left = 0)
    BY <1>1, <1>4, <1>6, InTurn DEF CityInv
  <2>7. \A i \in Incidents : applied'[i] =
             IF \E k \in DOMAIN incidents \ Waiting' : incidents[k].id = i /\ Over(k) THEN 1 ELSE 0
    <3> SUFFICES ASSUME NEW i \in Incidents
                 PROVE  applied'[i] = IF \E k \in DOMAIN incidents \ Waiting' : incidents[k].id = i /\ Over(k)
                                        THEN 1 ELSE 0
      OBVIOUS
    <3>1. applied[i] = IF \E k \in DOMAIN incidents \ Waiting : incidents[k].id = i /\ Over(k) THEN 1 ELSE 0
      BY <1>6, InTurn DEF CityInv
    <3>2. CASE i = inc.id
      <4>1. ~\E k \in DOMAIN incidents \ Waiting : incidents[k].id = i /\ Over(k)
        BY <1>7, <2>2, <3>2
      <4>2. h \in DOMAIN incidents \ Waiting' /\ incidents[h].id = i /\ Over(h)
        BY <1>7, <1>10, <3>2
      <4>3. applied'[i] = 1
        <5>1. applied[i] = 0
          BY <3>1, <4>1
        <5>2. applied'[i] = applied[i] + 1
          BY <1>2, <3>2, TypesIn
        <5> QED BY ONLY <5>1, <5>2
      <4> QED BY <4>2, <4>3
    <3>3. CASE i # inc.id
      <4>1. applied'[i] = applied[i]
        BY <1>2, <3>3, TypesIn
      <4>2. (\E k \in DOMAIN incidents \ Waiting' : incidents[k].id = i /\ Over(k))
              <=> (\E k \in DOMAIN incidents \ Waiting : incidents[k].id = i /\ Over(k))
        BY <1>7, <1>10, <3>3
      <4> QED BY <3>1, <4>1, <4>2
    <3> QED BY <3>2, <3>3
  <2>8. \A f : f \in flags' <=> f \in deeds' \/
             \E k \in DOMAIN incidents \ Waiting' :
               Over(k) /\ f \in Def[incidents[k].id].impact[incidents[k].outcome].flags
    <3> SUFFICES ASSUME NEW f
                 PROVE  f \in flags' <=> f \in deeds' \/
                          \E k \in DOMAIN incidents \ Waiting' :
                            Over(k) /\ f \in Def[incidents[k].id].impact[incidents[k].outcome].flags
      OBVIOUS
    <3>1. f \in flags <=> f \in deeds \/ \E k \in DOMAIN incidents \ Waiting :
                            Over(k) /\ f \in Def[incidents[k].id].impact[incidents[k].outcome].flags
      BY <1>6, InTurn DEF CityInv
    <3>2. f \in flags' <=> f \in flags \/ f \in impact.flags
      BY <1>2
    <3> QED BY <1>1, <1>7, <1>10, <3>1, <3>2
  <2>9. /\ \A j, k \in DOMAIN incidents' : incidents'[j].id = incidents'[k].id => j = k
        /\ \A i \in Incidents : applied'[i] =
             IF \E k \in DOMAIN incidents' \ Waiting' : incidents'[k].id = i /\ Over(k)' THEN 1 ELSE 0
        /\ \A f : f \in flags' <=> f \in deeds' \/
             \E k \in DOMAIN incidents' \ Waiting' :
               Over(k)' /\ f \in Def[incidents'[k].id].impact[incidents'[k].outcome].flags
    BY <1>1, <1>11, <2>2, <2>7, <2>8
  <2> QED BY <2>1, <2>3, <2>4, <2>5, <2>6, <2>9 DEF CityInv, Over
<1> QED BY <1>12, <1>13, <1>14 DEF WorldInv

LEMMA SettleKeeps ==
  ASSUME WorldInv, action # AtRest, Settle
  PROVE  /\ WorldInv'
         /\ action.pays =>
              /\ \A k \in Open(incidents') : incidents'[k].deadline > clock'
              /\ Open(incidents') # {} => overdue' = (day' >= SoftDeadline)
<1>1. /\ clock' = clock /\ day' = day /\ phase' = phase /\ accrual' = accrual /\ talks' = talks
      /\ paid' = paid /\ flags' = flags /\ deeds' = deeds /\ applied' = applied /\ heat' = heat
      /\ where' = where /\ fighting' = fighting /\ window' = window
  BY DEF Settle, hours, books, spot
<1>2. timePhase' = MirrorOf(phase) /\ safety' = SafetyOf(heat) /\ action' = AtRest /\ AtRest' = AtRest
  BY DEF Settle, AtRest
<1>3. Numbers /\ CityInv /\ TimeInv
  BY FactsHold DEF WorldInv
<1>4. action.impacts = <<>> /\ action.left = 0 /\ ~runOver
  BY <1>3, InTurn DEF Settle, CityInv
<1>5. Waiting = {} /\ Waiting' = {}
  <2>1. DOMAIN action.impacts = {}
    BY <1>4
  <2> QED BY <1>2, <2>1, InTurn DEF Waiting
<1>6. Until' = Until
  <2>1. clock + 0 = clock
    BY ONLY <1>3 DEF Numbers
  <2> QED BY <1>1, <1>2, <1>4, <2>1, InTurn DEF Until
<1>7. TimeInv'
  BY <1>1, <1>2, <1>3, <1>6 DEF TimeInv
<1>8. overdue => day >= SoftDeadline
  BY <1>3 DEF CityInv
<1>9. day \in Nat /\ SoftDeadline \in Int
  BY <1>3, TypesIn DEF Numbers
<1>10. overdue' \in BOOLEAN /\ (overdue' => day' >= SoftDeadline) /\ runOver' \in BOOLEAN
  <2>1. Late \in BOOLEAN /\ (Late => day >= SoftDeadline)
    BY <1>8, <1>9 DEF Late
  <2>2. \/ overdue' = Late \/ overdue' = (Late \/ day >= SoftDeadline)
    BY DEF Settle, Ending
  <2>3. runOver' \in BOOLEAN
    BY DEF Settle, Ending
  <2>4. CASE overdue' = Late
    BY <1>1, <2>1, <2>3, <2>4
  <2>5. CASE overdue' = (Late \/ day >= SoftDeadline)
    BY <1>1, <2>1, <2>3, <2>5
  <2> QED BY <2>2, <2>4, <2>5
\* What becomes of the list.
<1> DEFINE Same == \A j \in DOMAIN incidents :
                     /\ incidents'[j].outcome = incidents[j].outcome
                     /\ incidents'[j].deadline = incidents[j].deadline
           AllOver == runOver' /\ \A j \in DOMAIN incidents : incidents'[j].outcome # "open"
<1>11. /\ incidents' \in Seq(Incident) /\ DOMAIN incidents' = DOMAIN incidents
       /\ \A j \in DOMAIN incidents : /\ incidents'[j].id = incidents[j].id
                                      /\ incidents'[j].stage \in DOMAIN Def[incidents'[j].id].stages
       /\ Same \/ AllOver
  <2>1. CASE incidents' = incidents
    BY <2>1, TypesIn
  <2>2. ASSUME NEW k \in Open(incidents), NEW b \in Clues,
               incidents' = [incidents EXCEPT ![k].control = Clamp(@ + b, 0, 100)]
        PROVE  <1>11!:
    <3> DEFINE new == [incidents[k] EXCEPT !.control = Clamp(@ + b, 0, 100)]
    <3>1. k \in DOMAIN incidents /\ incidents[k] \in Incident
      BY TypesIn DEF Open
    <3>2. Clamp(incidents[k].control + b, 0, 100) \in 0..100
      <4>0. b \in Int
        BY WorldAssumption
      <4>1. b \in Int /\ incidents[k].control \in Int
        BY <3>1, <4>0 DEF Incident
      <4>2. incidents[k].control + b \in Int
        BY ONLY <4>1
      <4> QED BY <4>2, Clamped
    <3>3. /\ new \in Incident /\ new.id = incidents[k].id /\ new.outcome = incidents[k].outcome
          /\ new.deadline = incidents[k].deadline /\ new.stage = incidents[k].stage
      BY <3>1, <3>2 DEF Incident
    <3>4. incidents' = [incidents EXCEPT ![k] = new]
      BY <2>2
    <3> HIDE DEF new
    <3>5. incidents \in Seq(Incident)
      BY TypesIn
    <3>6. incidents' \in Seq(Incident) /\ DOMAIN incidents' = DOMAIN incidents
      BY <3>1, <3>3, <3>4, <3>5
    <3>7. \A j \in DOMAIN incidents : incidents'[j] = IF j = k THEN new ELSE incidents[j]
      BY <3>4
    <3> QED BY <3>3, <3>6, <3>7, TypesIn
  <2>3. ASSUME incidents' = AllContained, runOver' = TRUE PROVE <1>11!:
    <3>1. /\ DOMAIN incidents' = DOMAIN incidents
          /\ \A k \in DOMAIN incidents : incidents'[k] =
               IF incidents[k].outcome = "open"
                 THEN [incidents[k] EXCEPT !.control = 100, !.outcome = "CONTAINED"] ELSE incidents[k]
      BY <2>3 DEF AllContained, Open
    <3>2. ASSUME NEW k \in DOMAIN incidents
          PROVE  /\ incidents'[k] \in Incident /\ incidents'[k].id = incidents[k].id
                 /\ incidents'[k].stage = incidents[k].stage /\ incidents'[k].outcome # "open"
      <4>1. incidents[k] \in Incident
        BY TypesIn
      <4>2. CASE incidents[k].outcome = "open"
        <5> DEFINE new == [incidents[k] EXCEPT !.control = 100, !.outcome = "CONTAINED"]
        <5>1. new \in Incident /\ new.id = incidents[k].id /\ new.stage = incidents[k].stage
              /\ new.outcome = "CONTAINED"
          <6>1. 100 \in 0..100 /\ "CONTAINED" \in IncidentOutcomes \union {"open"}
            BY DEF IncidentOutcomes
          <6>2. [incidents[k] EXCEPT !.control = 100] \in Incident
            BY <4>1, <6>1 DEF Incident
          <6> QED BY <4>1, <6>1, <6>2 DEF Incident
        <5>2. incidents'[k] = new
          BY <3>1, <4>2
        <5> HIDE DEF new
        <5> QED BY <5>1, <5>2
      <4>3. CASE incidents[k].outcome # "open"
        BY <3>1, <4>1, <4>3
      <4> QED BY <4>2, <4>3
    <3>3. incidents' \in Seq(Incident)
      <4>1. incidents \in Seq(Incident)
        BY TypesIn
      <4>2. Len(incidents) \in Nat /\ DOMAIN incidents = 1..Len(incidents)
        BY <4>1
      <4>3. incidents' = [k \in 1..Len(incidents) |-> incidents'[k]]
        BY <2>3, <4>2 DEF AllContained
      <4> QED BY <3>2, <4>2, <4>3
    <3> QED BY <2>3, <3>1, <3>2, <3>3, TypesIn
  <2>4. \/ incidents' = incidents
        \/ \E k \in Open(incidents), b \in Clues :
             incidents' = [incidents EXCEPT ![k].control = Clamp(@ + b, 0, 100)]
        \/ incidents' = AllContained /\ runOver' = TRUE
    BY DEF Settle, Informed
  <2> QED BY <2>1, <2>2, <2>3, <2>4
<1> HIDE DEF Same, AllOver
<1>12. WorldTypeOK'
  <2>1. timePhase' \in {"DAY", "NIGHT"} /\ safety' \in {"SAFE", "ALERT", "DANGER"}
    BY <1>2, MirrorIs, SafetyIs
  <2>2. /\ clock' \in 0..MaxClock /\ day' \in Nat /\ phase' \in PhaseNames
        /\ accrual' \in Nat /\ talks' \in 0..MaxTalks /\ paid' \in Nat
        /\ flags' \in SUBSET STRING /\ deeds' \in SUBSET STRING /\ applied' \in [Incidents -> Nat] /\ heat' \in 0..HeatScale.max
        /\ where' \in Locations \union {Hub} /\ fighting' \in BOOLEAN /\ window' \in 0..MaxCombats
    BY <1>1, TypesIn
  <2>3. /\ incidents' \in Seq(Incident)
        /\ \A k \in DOMAIN incidents' : incidents'[k].stage \in DOMAIN Def[incidents'[k].id].stages
    BY <1>11
  <2> QED BY <1>2, <1>10, <2>1, <2>2, <2>3 DEF WorldTypeOK
<1>13. CityInv'
  <2>1. \A j, k \in DOMAIN incidents' : incidents'[j].id = incidents'[k].id => j = k
    BY <1>3, <1>11 DEF CityInv
  <2>2. ~runOver' => /\ \A i \in Incidents : applied'[i] =
                          IF \E k \in DOMAIN incidents' \ Waiting' :
                               incidents'[k].id = i /\ incidents'[k].outcome # "open" THEN 1 ELSE 0
                     /\ \A f : f \in flags' <=> f \in deeds' \/
                          \E k \in DOMAIN incidents' \ Waiting' :
                            /\ incidents'[k].outcome # "open"
                            /\ f \in Def[incidents'[k].id].impact[incidents'[k].outcome].flags
    <3> SUFFICES ASSUME Same
                 PROVE  /\ \A i \in Incidents : applied'[i] =
                             IF \E k \in DOMAIN incidents' :
                                  incidents'[k].id = i /\ incidents'[k].outcome # "open" THEN 1 ELSE 0
                        /\ \A f : f \in flags' <=> f \in deeds' \/
                             \E k \in DOMAIN incidents' :
                               /\ incidents'[k].outcome # "open"
                               /\ f \in Def[incidents'[k].id].impact[incidents'[k].outcome].flags
      BY <1>5, <1>11 DEF AllOver
    <3>1. \A i \in Incidents : applied[i] =
            IF \E k \in DOMAIN incidents : incidents[k].id = i /\ incidents[k].outcome # "open" THEN 1 ELSE 0
      BY <1>3, <1>4, <1>5 DEF CityInv, Over
    <3>2. \A f : f \in flags <=> f \in deeds \/
            \E k \in DOMAIN incidents :
              /\ incidents[k].outcome # "open"
              /\ f \in Def[incidents[k].id].impact[incidents[k].outcome].flags
      BY <1>3, <1>4, <1>5 DEF CityInv, Over
    <3>3. \A k \in DOMAIN incidents :
            incidents'[k].id = incidents[k].id /\ incidents'[k].outcome = incidents[k].outcome
      BY <1>11 DEF Same
    <3>4. DOMAIN incidents' = DOMAIN incidents
      BY <1>11
    <3> QED BY <1>1, <3>1, <3>2, <3>3, <3>4
  <2> QED BY <1>2, <1>10, <2>1, <2>2 DEF CityInv, Over
<1>14. ASSUME action.pays
       PROVE  /\ \A k \in Open(incidents') : incidents'[k].deadline > clock'
              /\ Open(incidents') # {} => overdue' = (day' >= SoftDeadline)
  <2>1. \A k \in Open(incidents) : incidents[k].deadline > clock
    BY <1>3, <1>4, <1>14 DEF CityInv
  <2>2. AllOver => Open(incidents') = {}
    BY <1>11 DEF AllOver, Open
  <2>3. CASE Same
    <3>1. \A k \in Open(incidents') : k \in Open(incidents) /\ incidents'[k].deadline = incidents[k].deadline
      BY <1>11, <2>3 DEF Same, Open
    <3>2. ASSUME Open(incidents') # {} PROVE overdue' = (day' >= SoftDeadline)
      <4>1. Open(incidents) # {}
        BY <3>1, <3>2
      <4>2. incidents' # AllContained
        <5>1. PICK k \in Open(incidents') : TRUE
          BY <3>2
        <5>2. k \in Open(incidents) /\ k \in DOMAIN incidents
          BY <3>1, <5>1 DEF Open
        <5>3. AllContained[k] = [incidents[k] EXCEPT !.control = 100, !.outcome = "CONTAINED"]
          BY <5>2 DEF AllContained
        <5>4. AllContained[k].outcome = "CONTAINED"
          <6>1. incidents[k] \in Incident
            BY <5>2, TypesIn
          <6> QED BY <5>3, <6>1 DEF Incident
        <5>5. incidents'[k].outcome = "open"
          BY <5>1 DEF Open
        <5> QED BY <5>4, <5>5
      <4>3. overdue' = (Late \/ day >= SoftDeadline)
        BY <4>1, <4>2 DEF Settle, Ending
      <4>4. Late => day >= SoftDeadline
        BY <1>8, <1>9 DEF Late
      <4> QED BY <1>1, <4>3, <4>4
    <3> QED BY <1>1, <2>1, <3>1, <3>2
  <2> QED BY <1>11, <2>2, <2>3
<1> QED BY <1>7, <1>12, <1>13, <1>14 DEF WorldInv

\* Two sequences one after the other.
LEMMA Joined ==
  ASSUME NEW S, NEW q \in Seq(S), NEW n \in Nat, NEW r \in [1..n -> S]
  PROVE  /\ q \o r \in Seq(S) /\ DOMAIN (q \o r) = 1..(Len(q) + n) /\ Len(q) \in Nat
         /\ DOMAIN q = 1..Len(q)
         /\ \A a \in 1..Len(q) : (q \o r)[a] = q[a]
         /\ \A a \in 1..n : (q \o r)[Len(q) + a] = r[a]
<1>1. r \in Seq(S) /\ Len(r) = n
  OBVIOUS
<1> QED BY <1>1

LEMMA TickKeeps ==
  ASSUME WorldInv, action # AtRest, WorldTick
  PROVE  WorldInv'
<1> DEFINE list == [k \in DOMAIN incidents |-> Expired(Pressed(incidents[k]), clock + 1)]
<1>1. /\ timePhase' = timePhase /\ safety' = safety /\ accrual' = accrual /\ talks' = talks
      /\ paid' = paid /\ flags' = flags /\ deeds' = deeds /\ overdue' = overdue /\ runOver' = runOver
      /\ applied' = applied /\ heat' = heat
      /\ where' = where /\ fighting' = fighting /\ window' = window
  BY DEF WorldTick, Round, mirrors, books, spot
<1>2. /\ action.step = "tick" /\ action.left > 0 /\ clock' = clock + 1 /\ day' = DayOf(clock')
      /\ phase' = PhaseOf(clock') /\ incidents' \in Spawned(list, clock')
  BY DEF WorldTick, Round
<1>3. PICK n \in 0..Len(list) : \E report \in [1..n -> Ended(list)] :
        /\ Reports(list, report)
        /\ action' = [action EXCEPT !.left = @ - 1, !.impacts = action.impacts \o report]
  BY DEF WorldTick, Round
<1>4. PICK report \in [1..n -> Ended(list)] :
        /\ Reports(list, report)
        /\ action' = [action EXCEPT !.left = @ - 1, !.impacts = action.impacts \o report]
  BY <1>3
<1>5. Numbers /\ CityInv /\ TimeInv
  BY FactsHold DEF WorldInv
<1>6. incidents \in Seq(Incident) /\ Len(incidents) \in Nat /\ DOMAIN incidents = 1..Len(incidents)
  BY TypesIn
\* The list after the tick.
<1>7. \A k \in DOMAIN incidents :
        /\ list[k] \in Incident /\ list[k].id = incidents[k].id /\ list[k].stage = incidents[k].stage
        /\ incidents[k].outcome # "open" => list[k] = incidents[k]
        /\ list[k].outcome = "open" => list[k].deadline > clock + 1
  <2> SUFFICES ASSUME NEW k \in DOMAIN incidents
               PROVE  /\ list[k] \in Incident /\ list[k].id = incidents[k].id
                      /\ list[k].stage = incidents[k].stage
                      /\ incidents[k].outcome # "open" => list[k] = incidents[k]
                      /\ list[k].outcome = "open" => list[k].deadline > clock + 1
    OBVIOUS
  <2> DEFINE new == Expired(Pressed(incidents[k]), clock + 1)
  <2>1. clock + 1 \in Int /\ incidents[k] \in Incident
        /\ incidents[k].stage \in DOMAIN Def[incidents[k].id].stages
    BY <1>5, TypesIn DEF Numbers
  <2>2. /\ new \in Incident /\ new.id = incidents[k].id /\ new.stage = incidents[k].stage
        /\ incidents[k].outcome # "open" => new = incidents[k]
        /\ new.outcome = "open" => clock + 1 < new.deadline
    BY <2>1, PressedIs
  <2>3. list[k] = new
    OBVIOUS
  <2> HIDE DEF new, list
  <2>4. new.deadline \in Int
    BY <2>2 DEF Incident
  <2> QED BY <2>1, <2>2, <2>3, <2>4
<1>8. list \in Seq(Incident) /\ DOMAIN list = DOMAIN incidents /\ Len(list) = Len(incidents)
  BY <1>6, <1>7
<1> HIDE DEF list
<1>9. clock' \in Nat /\ clock <= clock' /\ n \in Nat
  BY <1>2, <1>5, <1>8, <1>6 DEF Numbers
<1>10. \/ incidents' = list
       \/ \E i \in Incidents : i \notin Known(list) /\ incidents' = Append(list, Runtime(i, clock'))
  BY <1>2 DEF Spawned
<1>11. /\ incidents' \in Seq(Incident)
       /\ \A j \in DOMAIN incidents : j \in DOMAIN incidents' /\ incidents'[j] = list[j]
       /\ \A j \in DOMAIN incidents' : j \notin DOMAIN incidents =>
            /\ j = Len(incidents) + 1
            /\ incidents'[j].outcome = "open" /\ incidents'[j].deadline > clock'
            /\ incidents'[j].stage = 1
            /\ \A k \in DOMAIN incidents : incidents'[j].id # incidents[k].id
  <2>1. CASE incidents' = list
    BY <1>8, <2>1
  <2>2. ASSUME NEW i \in Incidents, i \notin Known(list), incidents' = Append(list, Runtime(i, clock'))
        PROVE  <1>11!:
    <3>1. Def[i].deadline \in Nat \ {0}
      BY WorldAssumption
    <3>2. clock' + Def[i].deadline \in Int /\ clock' + Def[i].deadline > clock'
      BY <1>9, <3>1
    <3> DEFINE new == Runtime(i, clock')
    <3>3. /\ new \in Incident /\ new.id = i /\ new.stage = 1 /\ new.outcome = "open"
          /\ new.deadline > clock'
      BY <3>2 DEF Runtime, Incident, IncidentOutcomes
    <3> HIDE DEF new
    <3>4. incidents' = Append(list, new)
      BY <2>2 DEF new
    <3>5. /\ incidents' \in Seq(Incident) /\ DOMAIN incidents' = 1..(Len(list) + 1)
          /\ \A j \in 1..Len(list) : incidents'[j] = list[j]
          /\ incidents'[Len(list) + 1] = new
      BY <1>8, <3>3, <3>4
    <3>6. \A k \in DOMAIN incidents : incidents[k].id # i
      BY <1>7, <1>8, <2>2 DEF Known
    <3>7. \A j \in 1..(Len(incidents) + 1) : j \in 1..Len(incidents) \/ j = Len(incidents) + 1
      BY <1>6
    <3>8. \A j \in 1..Len(incidents) : j \in 1..(Len(incidents) + 1)
      BY <1>6
    <3> QED BY <1>6, <1>8, <3>3, <3>5, <3>6, <3>7, <3>8
  <2> QED BY <1>10, <2>1, <2>2
\* What waits after the tick.
<1>12. action \in [step : {"tick", "apply"}, left : Nat, pays : BOOLEAN, from : PhaseNames,
                 result : Results, impacts : Seq(Nat)]
  BY InTurn
<1>13. \A k : k \in Ended(list) <=>
         k \in DOMAIN incidents /\ incidents[k].outcome = "open" /\ list[k].outcome # "open"
  BY <1>8 DEF Ended, Open
<1>14. report \in [1..n -> Nat] /\ action.impacts \in Seq(Nat)
  <2>1. \A k \in Ended(list) : k \in Nat
    BY <1>6, <1>13
  <2> QED BY <1>12, <2>1
<1> DEFINE m == Len(action.impacts)
           new == action.impacts \o report
<1>15. /\ new \in Seq(Nat) /\ DOMAIN new = 1..(m + n) /\ m \in Nat /\ DOMAIN action.impacts = 1..m
       /\ \A a \in 1..m : new[a] = action.impacts[a]
       /\ \A a \in 1..n : new[m + a] = report[a]
  BY <1>9, <1>14, Joined
<1>16. /\ action' \in [step : {"tick", "apply"}, left : Nat, pays : BOOLEAN, from : PhaseNames,
                     result : Results, impacts : Seq(Nat)]
       /\ action'.left = action.left - 1 /\ action'.impacts = new /\ action'.pays = action.pays
       /\ action'.step = "tick"
  <2>1. action.left - 1 \in Nat
    BY <1>2, <1>12
  <2> QED BY <1>2, <1>4, <1>12, <1>15, <2>1
<1> HIDE DEF new, m
<1>17. action' # AtRest /\ AtRest' = AtRest
  BY <1>16 DEF AtRest
<1>18. \A a \in 1..(m + n) : a \in 1..m \/ \E b \in 1..n : a = m + b
  <2> SUFFICES ASSUME NEW a \in 1..(m + n), a \notin 1..m PROVE \E b \in 1..n : a = m + b
    OBVIOUS
  <2>1. a - m \in 1..n /\ a = m + (a - m)
    BY <1>9, <1>15
  <2> QED BY <2>1
<1>19. \A b \in 1..n : m + b \in 1..(m + n)
  BY <1>9, <1>15
<1>20. \A a \in 1..m : a \in 1..(m + n)
  BY <1>9, <1>15
<1>21. \A k : k \in Waiting' <=> k \in Waiting \/ k \in Ended(list)
  <2> SUFFICES ASSUME NEW k PROVE k \in Waiting' <=> k \in Waiting \/ k \in Ended(list)
    OBVIOUS
  <2>1. k \in Waiting' <=> \E a \in 1..(m + n) : new[a] = k
    BY <1>15, <1>16, <1>17 DEF Waiting
  <2>2. k \in Waiting <=> \E a \in 1..m : action.impacts[a] = k
    BY <1>15, InTurn
  <2>3. k \in Ended(list) <=> \E b \in 1..n : report[b] = k
    BY <1>4 DEF Reports
  <2> QED BY <1>15, <1>18, <1>19, <1>20, <2>1, <2>2, <2>3
<1>22. \A k \in Waiting : k \in DOMAIN incidents /\ incidents[k].outcome # "open"
  BY <1>5, InTurn DEF CityInv, Over
<1>23. \A a, b \in 1..n : report[a] = report[b] => a = b
  <2> SUFFICES ASSUME NEW a \in 1..n, NEW b \in 1..n, report[a] = report[b], a < b PROVE FALSE
    BY <1>9
  <2>1. Reported(list, report[a], report[b])
    BY <1>4 DEF Reports
  <2>2. report[a] < report[a]
    BY <2>1 DEF Reported
  <2>3. report[a] \in Nat
    BY <1>14
  <2> QED BY <2>2, <2>3
<1>24. WorldTypeOK'
  <2>1. clock' \in 0..MaxClock /\ day' \in Nat /\ phase' \in PhaseNames
    <3>1. DayOf(clock') \in Nat /\ PhaseOf(clock') \in PhaseNames
      BY <1>9, PhaseIs, DaysPass
    <3>2. clock + action.left <= MaxClock /\ action.left \in Nat
      BY <1>5, <1>12, InTurn DEF TimeInv
    <3>3. clock' <= MaxClock
      BY <1>2, <1>5, <3>2 DEF Numbers
    <3> QED BY <1>2, <1>5, <1>9, <3>1, <3>3 DEF Numbers
  <2>2. \A k \in DOMAIN incidents' : incidents'[k].stage \in DOMAIN Def[incidents'[k].id].stages
    <3> SUFFICES ASSUME NEW k \in DOMAIN incidents'
                 PROVE  incidents'[k].stage \in DOMAIN Def[incidents'[k].id].stages
      OBVIOUS
    <3>1. CASE k \in DOMAIN incidents
      BY <1>7, <1>11, <3>1, TypesIn
    <3>2. CASE k \notin DOMAIN incidents
      <4>1. incidents'[k] \in Incident /\ incidents'[k].stage = 1
        BY <1>11, <3>2
      <4>2. Def[incidents'[k].id].stages \in Seq(IncidentStages) /\ Def[incidents'[k].id].stages # <<>>
        BY <4>1, WorldAssumption DEF Incident
      <4> QED BY <4>1, <4>2
    <3> QED BY <3>1, <3>2
  <2>3. /\ timePhase' \in {"DAY", "NIGHT"} /\ safety' \in {"SAFE", "ALERT", "DANGER"}
        /\ accrual' \in Nat /\ talks' \in 0..MaxTalks /\ paid' \in Nat
        /\ flags' \in SUBSET STRING /\ deeds' \in SUBSET STRING /\ applied' \in [Incidents -> Nat] /\ heat' \in 0..HeatScale.max
        /\ overdue' \in BOOLEAN /\ runOver' \in BOOLEAN
        /\ where' \in Locations \union {Hub} /\ fighting' \in BOOLEAN /\ window' \in 0..MaxCombats
    BY <1>1, TypesIn
  <2> QED BY <1>11, <1>16, <2>1, <2>2, <2>3 DEF WorldTypeOK
<1>25. TimeInv'
  <2>1. Until' = clock + 1 + (action.left - 1)
    BY <1>2, <1>16, <1>17 DEF Until
  <2>2. Until = clock + action.left /\ action.left \in Nat
    BY <1>12, InTurn
  <2>3. Until' = Until
    <3>1. clock \in Nat
      BY <1>5 DEF Numbers
    <3> QED BY ONLY <2>1, <2>2, <3>1
  <2> QED BY <1>1, <1>2, <1>5, <1>17, <2>3 DEF TimeInv
<1>26. CityInv'
  <2>1. overdue' => day' >= SoftDeadline
    <3>1. overdue => DayOf(clock) >= SoftDeadline
      BY <1>5 DEF CityInv, TimeInv
    <3>2. DayOf(clock) <= DayOf(clock') /\ DayOf(clock) \in Nat /\ DayOf(clock') \in Nat
      BY <1>5, <1>9, DaysPass DEF Numbers
    <3> QED BY <1>1, <1>2, <1>5, <3>1, <3>2 DEF Numbers
  <2>2. \A j, k \in DOMAIN incidents' : incidents'[j].id = incidents'[k].id => j = k
    <3>1. \A j \in DOMAIN incidents : incidents'[j].id = incidents[j].id
      BY <1>7, <1>11
    <3>2. \A j, k \in DOMAIN incidents : incidents[j].id = incidents[k].id => j = k
      BY <1>5 DEF CityInv
    <3> QED BY <1>11, <3>1, <3>2
  <2>3. \A k \in Waiting' : k \in DOMAIN incidents' /\ incidents'[k].outcome # "open"
    BY <1>7, <1>11, <1>13, <1>21, <1>22
  <2>4. \A a \in DOMAIN action'.impacts : action'.impacts[a] \in DOMAIN incidents'
                                        /\ incidents'[action'.impacts[a]].outcome # "open"
    <3>1. Waiting' = {action'.impacts[a] : a \in DOMAIN action'.impacts}
      BY <1>17 DEF Waiting
    <3> QED BY <2>3, <3>1
  <2>5. \A a, b \in DOMAIN action'.impacts : action'.impacts[a] = action'.impacts[b] => a = b
    <3>1. DOMAIN action'.impacts = 1..(m + n) /\ action'.impacts = new
      BY <1>15, <1>16
    <3>2. \A a, b \in 1..m : new[a] = new[b] => a = b
      BY <1>5, <1>15 DEF CityInv
    <3>3. \A a \in 1..m, b \in 1..n : new[a] # new[m + b]
      <4>1. \A a \in 1..m : new[a] \in Waiting
        BY <1>15, InTurn
      <4>2. \A b \in 1..n : new[m + b] \in Ended(list)
        BY <1>15
      <4> QED BY <1>13, <1>22, <4>1, <4>2
    <3>4. \A a, b \in 1..n : new[m + a] = new[m + b] => m + a = m + b
      BY <1>15, <1>23
    <3> QED BY <1>18, <3>1, <3>2, <3>3, <3>4
  <2>6. action'.pays /\ action'.left = 0 => \A k \in Open(incidents') : incidents'[k].deadline > clock'
    <3>1. \A k \in DOMAIN incidents' : incidents'[k].outcome = "open" => incidents'[k].deadline > clock'
      BY <1>2, <1>7, <1>11
    <3> QED BY <3>1 DEF Open
  <2>7. \A k : k \in DOMAIN incidents' /\ k \notin Waiting' /\ incidents'[k].outcome # "open"
           <=> k \in DOMAIN incidents /\ k \notin Waiting /\ incidents[k].outcome # "open"
    BY <1>7, <1>11, <1>13, <1>21
  <2>8. \A k \in DOMAIN incidents : incidents[k].outcome # "open" => incidents'[k] = incidents[k]
    BY <1>7, <1>11
  <2>9. \A i \in Incidents : applied'[i] =
          IF \E k \in DOMAIN incidents' \ Waiting' : incidents'[k].id = i /\ incidents'[k].outcome # "open"
            THEN 1 ELSE 0
    <3> SUFFICES ASSUME NEW i \in Incidents
                 PROVE  (\E k \in DOMAIN incidents' \ Waiting' :
                           incidents'[k].id = i /\ incidents'[k].outcome # "open")
                          <=> \E k \in DOMAIN incidents \ Waiting : incidents[k].id = i /\ Over(k)
      BY <1>1, <1>5, InTurn DEF CityInv
    <3> QED BY <2>7, <2>8 DEF Over
  <2>10. \A f : f \in flags' <=> f \in deeds' \/
           \E k \in DOMAIN incidents' \ Waiting' :
             /\ incidents'[k].outcome # "open"
             /\ f \in Def[incidents'[k].id].impact[incidents'[k].outcome].flags
    <3> SUFFICES ASSUME NEW f
                 PROVE  (\E k \in DOMAIN incidents' \ Waiting' :
                           /\ incidents'[k].outcome # "open"
                           /\ f \in Def[incidents'[k].id].impact[incidents'[k].outcome].flags)
                          <=> \E k \in DOMAIN incidents \ Waiting :
                                Over(k) /\ f \in Def[incidents[k].id].impact[incidents[k].outcome].flags
      BY <1>1, <1>5, InTurn DEF CityInv
    <3> QED BY <2>7, <2>8 DEF Over
  <2>11. ~runOver' /\ action'.step = "tick"
    BY <1>1, <1>16, InTurn
  <2> QED BY <2>1, <2>2, <2>4, <2>5, <2>6, <2>9, <2>10, <2>11 DEF CityInv, Over
<1> QED BY <1>24, <1>25, <1>26 DEF WorldInv

LEMMA NextKeepsWorld ==
  ASSUME WorldInv, [WorldNext]_worldVars
  PROVE  WorldInv'
<1>1. CASE UNCHANGED worldVars
  <2>1. /\ clock' = clock /\ day' = day /\ phase' = phase /\ timePhase' = timePhase
        /\ transition' = transition /\ accrual' = accrual /\ talks' = talks /\ paid' = paid
        /\ incidents' = incidents /\ flags' = flags /\ deeds' = deeds /\ overdue' = overdue /\ runOver' = runOver
        /\ applied' = applied /\ heat' = heat /\ safety' = safety /\ where' = where
        /\ fighting' = fighting /\ window' = window /\ action' = action
    BY <1>1 DEF worldVars, time, hours, books, city, spot
  <2>2. WorldTypeOK'
    <3>1. AtRest' = AtRest
      BY DEF AtRest
    <3> QED BY <2>1, <3>1 DEF WorldInv, WorldTypeOK
  <2>3. TimeInv'
    <3>1. Until' = Until /\ AtRest' = AtRest
      BY <2>1 DEF Until, AtRest
    <3> QED BY <2>1, <3>1 DEF WorldInv, TimeInv
  <2>4. CityInv'
    <3>1. Waiting' = Waiting /\ AtRest' = AtRest
      BY <2>1 DEF Waiting, AtRest
    <3> QED BY <2>1, <3>1 DEF WorldInv, CityInv, Over, Open
  <2> QED BY <2>2, <2>3, <2>4 DEF WorldInv
<1>2. CASE ~runOver /\ action = AtRest /\ WorldTurn
  <2>1. CASE \E d \in HeatDeltas, result \in Results :
                Talk(d, result) \/ \E cost \in {1, 2} : Spend(cost, d, result)
    BY <1>2, <2>1, TalkKeeps, SpendKeeps
  <2>2. CASE ~(\E d \in HeatDeltas, result \in Results :
           Talk(d, result) \/ \E cost \in {1, 2} : Spend(cost, d, result))
    BY <1>2, <2>2, HandlersKeep
  <2> QED BY <2>1, <2>2
<1>3. CASE action # AtRest /\ GoOn
  BY <1>3, TickKeeps, ImpactKeeps, ApplyKeeps, SettleKeeps DEF GoOn
<1> QED BY <1>1, <1>2, <1>3 DEF WorldNext

THEOREM WorldInvHolds == WorldSpec => []WorldInv
<1>1. WorldInit => WorldInv
  BY WorldInitInv
<1>2. WorldInv /\ [WorldNext]_worldVars => WorldInv'
  BY NextKeepsWorld
<1> QED BY <1>1, <1>2, PTL DEF WorldSpec

(* The types of the world.                                                 *)
THEOREM WorldTyped == WorldSpec => []WorldTypeOK
<1>1. WorldInv => WorldTypeOK
  BY DEF WorldInv
<1> QED BY <1>1, WorldInvHolds, PTL

(* No time is created or lost, and what is stored twice agrees between the *)
(* turns, for every length of the phases, however much talk makes a tick.  *)
THEOREM TimeIsKept == WorldSpec => []TimeKept
<1>1. WorldInv => TimeKept
  BY DEF WorldInv, TimeInv, TimeKept, Until
<1> QED BY <1>1, WorldInvHolds, PTL

(* Every incident has the consequences of its outcome once, whatever       *)
(* incidents there are and however many end in a turn.                     *)
THEOREM IncidentsEndOnce == WorldSpec => []ConsequencesApplied
<1>1. ASSUME WorldInv PROVE ConsequencesApplied
  <2> DEFINE ov == DOMAIN incidents \ Open(incidents)
  <2>1. CityInv
    BY <1>1 DEF WorldInv
  <2>2. \A k : k \in ov <=> k \in DOMAIN incidents /\ Over(k)
    BY DEF Open, Over
  <2>3. \A j, k \in DOMAIN incidents : incidents[j].id = incidents[k].id => j = k
    BY <2>1 DEF CityInv
  <2>4. ASSUME action = AtRest, ~runOver
        PROVE  /\ \A i \in Incidents : applied[i] = IF \E k \in ov : incidents[k].id = i THEN 1 ELSE 0
               /\ flags = deeds \union UNION {Def[incidents[k].id].impact[incidents[k].outcome].flags : k \in ov}
    <3>1. Waiting = {}
      BY <2>4 DEF Waiting
    <3>2. \A f : f \in flags <=> f \in deeds \/
            \E k \in DOMAIN incidents :
              Over(k) /\ f \in Def[incidents[k].id].impact[incidents[k].outcome].flags
      BY <2>1, <2>4, <3>1 DEF CityInv
    <3>3. \A i \in Incidents :
            applied[i] = IF \E k \in DOMAIN incidents : incidents[k].id = i /\ Over(k) THEN 1 ELSE 0
      BY <2>1, <2>4, <3>1 DEF CityInv
    <3>4. \A i \in Incidents : applied[i] = IF \E k \in ov : incidents[k].id = i THEN 1 ELSE 0
      BY <2>2, <3>3
    <3>5. \A f : f \in flags <=> f \in deeds \/
            f \in deeds \union UNION {Def[incidents[k].id].impact[incidents[k].outcome].flags : k \in ov}
      BY <2>2, <3>2
    <3> QED BY <3>4, <3>5
  <2> QED BY <2>3, <2>4 DEF ConsequencesApplied
<1> QED BY <1>1, WorldInvHolds, PTL

(* Every turn that pays for time looks at all deadlines, and at the one of *)
(* the main arc, whatever the definitions say.                             *)
THEOREM DeadlinesAreKept == WorldSpec => DeadlinesKept
<1>1. ASSUME WorldInv, [WorldNext]_worldVars
      PROVE  [action # AtRest /\ action' = AtRest /\ action.pays =>
                /\ \A k \in Open(incidents') : incidents'[k].deadline > clock'
                /\ Open(incidents') # {} => overdue' = (day' >= SoftDeadline)]_worldVars
  <2>1. CASE UNCHANGED worldVars
    BY <2>1
  <2> SUFFICES ASSUME WorldNext, action # AtRest, action' = AtRest, action.pays
               PROVE  /\ \A k \in Open(incidents') : incidents'[k].deadline > clock'
                      /\ Open(incidents') # {} => overdue' = (day' >= SoftDeadline)
    BY <1>1, <2>1
  <2>2. GoOn
    BY DEF WorldNext
  <2>3. action \in [step : {"tick", "apply"}, left : Nat, pays : BOOLEAN, from : PhaseNames,
                  result : Results, impacts : Seq(Nat)]
    BY <1>1, InTurn
  <2>4. ~WorldTick
    <3> SUFFICES ASSUME WorldTick PROVE action' # AtRest
      OBVIOUS
    <3>1. action.step = "tick" /\ \E q : action' = [action EXCEPT !.left = @ - 1, !.impacts = q]
      BY DEF WorldTick, Round
    <3>2. action'.step = "tick"
      BY <2>3, <3>1
    <3> QED BY <3>2 DEF AtRest
  <2>5. ~ApplyPatch
    <3> SUFFICES ASSUME ApplyPatch PROVE action' # AtRest
      OBVIOUS
    <3>1. action.step = "apply" /\ action' = [action EXCEPT !.impacts = Tail(@)]
      BY DEF ApplyPatch
    <3>2. action'.step = "apply"
      BY <2>3, <3>1
    <3> QED BY <3>2 DEF AtRest
  <2>6. ~Impact
    <3> SUFFICES ASSUME Impact PROVE action' # AtRest
      OBVIOUS
    <3>1. action' = [action EXCEPT !.step = "apply"]
      BY DEF Impact
    <3>2. action'.step = "apply"
      BY <2>3, <3>1
    <3> QED BY <3>2 DEF AtRest
  <2>7. Settle
    BY <2>2, <2>4, <2>5, <2>6 DEF GoOn
  <2> QED BY <1>1, <2>7, SettleKeeps
<1> QED BY <1>1, WorldInvHolds, PTL DEF WorldSpec, DeadlinesKept
=============================================================================
