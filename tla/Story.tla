------------------------------- MODULE Story -------------------------------
(***************************************************************************)
(* The main plot of a run: the stages of the quest and the facts that lead *)
(* from one to the next (quest-progression.service.ts and                  *)
(* processQuestProgression), the route of the arc (arc.service.ts) and the *)
(* end of the run: checkEndingConditions, or checkAutonomousEnding for an  *)
(* AUTONOMOUS run from the moment its plot seed is there. What the player  *)
(* does, which fact is found and how the world moves is left open; a turn  *)
(* is one step.                                                            *)
(*                                                                         *)
(* Thresholds are compared with differences of turn numbers, so the model  *)
(* counts turns only as far as the last threshold. Hints are text and left *)
(* out; a hint that becomes a fact is not.                                 *)
(***************************************************************************)
EXTENDS Naturals, Sequences, FiniteSets

CONSTANTS
  Stages, First, Last,  \* quest.json states; the last is S5_RESOLVE in the code
  Transitions,          \* stateTransitions in their order: [from, to, all, any, alt]
  Facts,
  Routes, None,         \* routes of the arc; no route
  Lock, Betrayals,      \* COMMITMENT_LOCK, MAX_BETRAYALS
  Stale, Hints,          \* STALE_THRESHOLD, AUTO_DISCOVER_THRESHOLD
  Closing, MinTurns,    \* turns of the last stage; MIN_TURNS_FOR_NATURAL, which
                        \*   MIN_AUTONOMOUS_END_TURNS equals
  Budgets               \* turns that the three acts of a plot seed have in all

ASSUME StoryAssumption ==
  /\ {First, Last} \subseteq Stages /\ First # Last /\ None \notin Routes
  /\ DOMAIN Transitions \subseteq Nat
  /\ \A i \in DOMAIN Transitions :
       LET t == Transitions[i]
       IN  /\ t.from \in Stages \ {Last} /\ t.to \in Stages \ {t.from}
           /\ t.all \subseteq Facts /\ t.alt \subseteq Facts
           /\ t.any \subseteq SUBSET Facts
  /\ \A s \in Stages \ {Last} : \E i \in DOMAIN Transitions : Transitions[i].from = s
  /\ Lock \in Nat /\ Lock > 2 /\ Betrayals \in Nat
  /\ Budgets \subseteq Nat \ {0} /\ \E n \in Budgets \union {0} : Budgets \subseteq 1..n
  /\ Stale \in Nat \ {0} /\ Hints \in Nat \ {0} /\ Closing \in Nat /\ MinTurns \in Nat

VARIABLES
  stage, facts,     \* questState, discoveredQuestFacts
  age, turn,        \* turns since questStateSinceTurn, or of the run before it is set; turnNo
  arc,              \* arcState: currentRoute, commitment, betrayalCount
  open,             \* an active incident is not resolved
  seed,             \* the turns of the acts of plotSeed, 0 while there is none
  place, over,
  idle,             \* history: actions in a row that brought the quest no further
                    \*   before its last stage
  beat              \* history: turns over with every action, so that one is no stutter
quest == <<stage, facts, idle>>
vars == <<quest, age, turn, arc, open, seed, place, over, beat>>

-----------------------------------------------------------------------------
\* The quest

\* checkTransition: one condition of a transition.
Met(t, known) ==
  /\ t.all \subseteq known
  /\ t.any = {} \/ \E g \in t.any : g \subseteq known
  /\ t.all # {} \/ t.any # {} \/ t.alt = {} \/ t.alt \cap known # {}

\* checkTransition: the stage after this one, one step at a time.
NextStage(s, known) ==
  LET ready == {i \in DOMAIN Transitions :
                  Transitions[i].from = s /\ Met(Transitions[i], known)}
  IN  IF ready = {} THEN s
      ELSE Transitions[CHOOSE i \in ready : \A j \in ready : i <= j].to

\* getStaleHint: the facts one of which is hinted at; none if a transition has
\* no fact that is missing.
Missing(t, known) ==
  LET groups == {g \in t.any : ~ g \subseteq known}
  IN  IF t.all \ known # {} THEN t.all \ known
      ELSE IF groups # {} THEN (UNION groups) \ known
      ELSE t.alt \ known

\* Mutation of Hinted: only facts that a transition requires are hinted at.
HintedRequired(s, known) ==
  UNION {Transitions[i].all \ known : i \in {n \in DOMAIN Transitions : Transitions[n].from = s}}

Hinted(s, known) ==
  LET lacking == {i \in DOMAIN Transitions :
                    Transitions[i].from = s /\ Missing(Transitions[i], known) # {}}
  IN  IF lacking = {} THEN {}
      ELSE Missing(Transitions[CHOOSE i \in lacking : \A j \in lacking : i <= j], known)

AtMost(n, m) == IF n < m THEN n ELSE m

\* The counters know no more than the thresholds ask for.
Later(n, ticks) == AtMost(n + ticks, Stale + Hints + Closing)

\* From the third turn of hints on the hinted fact itself is found.
Told(known, a) ==
  {LET new == NextStage(stage, known \union {f})
   IN  [stage |-> new, facts |-> known \union {f}, age |-> IF new # stage THEN 0 ELSE a] :
     f \in Hinted(stage, known)}

\* What processQuestProgression makes of the facts found this turn, when a is
\* the age of the stage: a transition; else, if nothing was found for long, a
\* hint, and at last its fact.
Progress(found, a) ==
  LET known == facts \union found
      next == NextStage(stage, known)
  IN  IF next # stage
      THEN {[stage |-> next, facts |-> known, age |-> 0]}
      ELSE IF a < Stale + Hints - 1 \/ found # {} \/ Hinted(stage, known) = {}
      THEN {[stage |-> stage, facts |-> known, age |-> a]}
      ELSE Told(known, a)

-----------------------------------------------------------------------------
\* The route

CanSwitch(a) == a.commitment <= 2 /\ a.betrayals < Betrayals

Committed(a, delta) == [a EXCEPT !.commitment = AtMost(@ + delta, Lock)]

\* Mutation of Switched: the commitment to the old route counts for the new.
SwitchedKeeps(a, r) ==
  IF ~CanSwitch(a) THEN a
  ELSE [a EXCEPT !.route = r, !.betrayals = IF a.route # None THEN @ + 1 ELSE @]

\* switchRoute
Switched(a, r) ==
  IF ~CanSwitch(a) THEN a
  ELSE [route |-> r, commitment |-> 0,
        betrayals |-> IF a.route # None THEN a.betrayals + 1 ELSE a.betrayals]

\* An action deepens the commitment to a route; its event may bring the first.
ArcAfter ==
  IF arc.route # None THEN {Committed(arc, d) : d \in 0..Lock}
  ELSE {arc} \union {Switched(arc, r) : r \in Routes}

-----------------------------------------------------------------------------
\* Turns

\* createRun: an incident is there from the beginning.
Init ==
  /\ stage = First /\ facts = {} /\ idle = 0 /\ beat = FALSE
  /\ age = 0 /\ turn = 0
  /\ arc = [route |-> None, commitment |-> 0, betrayals |-> 0]
  /\ open = TRUE /\ seed = 0 /\ place = "hub" /\ over = FALSE

\* The longest the end of a run looks at.
Longest == CHOOSE n \in Budgets \union {MinTurns} : \A m \in Budgets \union {MinTurns} : m <= n

Turns(n) == turn' = AtMost(turn + n, Longest) /\ seed' = seed

\* A turn that is no action at a place, or n of them.
Elsewhere(n) == Turns(n) /\ age' = Later(age, n) /\ UNCHANGED <<quest, open, beat>>

\* Mutation of Closed: the incidents are closed at one turn, not from it on.
ClosedOnce(active) == open' = (active /\ ~(stage' = Last /\ age' = Closing /\ turn' >= MinTurns))

\* The late last stage resolves what is open, not before MIN_TURNS_FOR_NATURAL.
Closed(active) == open' = (active /\ ~(stage' = Last /\ age' >= Closing /\ turn' >= MinTurns))

\* checkEndingConditions: no open incident.
Resolved == turn' >= MinTurns /\ ~open'

\* checkAutonomousEnding: a meter of the pack is critical, or the acts are over.
ActsOver(critical) == turn' >= MinTurns /\ (critical \/ turn' >= seed)

\* handleLocationTurn: an action. An event and an NPC may each give a fact.
\* The world resolves incidents and brings new ones before the quest looks.
Act ==
  /\ place = "location"
  /\ Turns(1) /\ arc' \in ArcAfter /\ beat' = ~beat
  /\ \E found \in {S \in SUBSET (Facts \ facts) : Cardinality(S) <= 2} :
       \E p \in Progress(found, Later(age, 1)) :
         /\ stage' = p.stage /\ facts' = p.facts /\ age' = p.age
         /\ idle' = IF p.stage = stage /\ p.facts = facts /\ stage # Last THEN idle + 1 ELSE 0
  /\ \E active \in BOOLEAN : Closed(active)
  /\ \E critical \in BOOLEAN : over' = IF seed = 0 THEN Resolved ELSE ActsOver(critical)
  /\ UNCHANGED place

\* handleHubTurn, arc_commit_*: the route is switched to, if it can be, and
\* the commitment is raised.
Commit(r) ==
  /\ place = "hub"
  /\ arc' = Committed(Switched(arc, r), 2)
  /\ Elsewhere(1) /\ UNCHANGED <<place, over>>

\* Any other choice at the hub, or a round of a fight.
Wait ==
  /\ place \in {"hub", "fight"}
  /\ Elsewhere(1) /\ UNCHANGED <<arc, place, over>>

\* A change of the scene takes the turn that causes it and the arrival.
Go(there) ==
  /\ there \in (CASE place = "hub" -> {"location"}
                  [] place = "location" -> {"hub", "location", "fight"}
                  [] place = "fight" -> {"location"})
  /\ place' = there
  /\ Elsewhere(2) /\ UNCHANGED <<arc, over>>

Defeat ==
  /\ place = "fight" /\ over' = TRUE
  /\ Elsewhere(1) /\ UNCHANGED <<arc, place>>

\* generatePlotSeedAsync: in an AUTONOMOUS pack, once, at any time.
Freeze ==
  /\ seed = 0 /\ seed' \in Budgets
  /\ UNCHANGED <<quest, age, turn, arc, open, place, over, beat>>

Turn ==
  \/ Act \/ Wait \/ Defeat
  \/ \E r \in Routes : Commit(r)
  \/ \E there \in {"hub", "location", "fight"} : Go(there)

Next == ~over /\ (Turn \/ Freeze)

Spec == Init /\ [][Next]_vars

-----------------------------------------------------------------------------
\* Properties

TypeOK ==
  /\ stage \in Stages /\ facts \subseteq Facts /\ idle \in Nat
  /\ age \in 0..(Stale + Hints + Closing) /\ turn \in 0..Longest
  /\ arc \in [route : Routes \union {None}, commitment : 0..Lock, betrayals : 0..Betrayals]
  /\ open \in BOOLEAN /\ seed \in Budgets \union {0} /\ place \in {"hub", "location", "fight"}
  /\ over \in BOOLEAN /\ beat \in BOOLEAN

\* The quest has no dead end: before the last stage a player who acts learns
\* something or gets to the next stage in fewer than Stale + Hints - 1 actions,
\* whatever he does and however a transition asks for its facts.
NeverStuck == stage # Last => idle < Stale + Hints - 1

\* A player who keeps acting reaches the end of the run, even if he contains
\* no incident and no meter gets critical: the places that know the minimal
\* length of a run never wait for each other, and a plot seed that comes in the
\* middle of it, even when the acts are over, takes no end away.
ActorsFinish == ([]<><<Act>>_vars) => <>over

\* A route once taken is left only for another, at most Betrayals times, never
\* after the commitment was locked, and no change of mind is final: the new
\* commitment is short of the lock ("잠금 3 직전, 배신 여지는 유지").
RouteKept ==
  [][arc.route # None /\ arc'.route # arc.route =>
       /\ arc'.route # None /\ arc.commitment < Lock
       /\ arc'.betrayals = arc.betrayals + 1 /\ arc'.betrayals <= Betrayals
       /\ arc'.commitment < Lock]_vars
=============================================================================
