------------------------------- MODULE World -------------------------------
(***************************************************************************)
(* The simulated world of a run: the clock and the cycle of the day, the   *)
(* incidents, the heat of the city and the safety derived from it          *)
(* (world-tick.service.ts, incident-management.service.ts, heat.service.ts,*)
(* world-state.service.ts), with the handlers of turns.service.ts,         *)
(* hub-turn.service.ts and combat-turn.service.ts that drive them.  The    *)
(* world is part of runState, which one turn reads and writes as a whole:  *)
(* nobody sees the steps of a turn (the ticks, the player's action, the    *)
(* impacts of what ended) before it is at its end.  Tension, reputation,   *)
(* the pack's meters, the signal feed and an incident's suspicion,         *)
(* security and progress read this state and never change it: they are     *)
(* left out.                                                               *)
(***************************************************************************)
EXTENDS Integers, Sequences, FiniteSets

CONSTANTS
  Locations, Incidents,
  Def,           \* IncidentDef of each incident
  Hub,
  NoTransition,  \* no phase transition
  Durations,     \* ticks of DAWN, DAY, DUSK and NIGHT: 2, 4, 2, 4 in the code
  AccrualTurns,  \* turns of talk that make a tick, 6 in the code
  SoftDeadline,  \* day of the main arc's soft deadline, 14 in the code
  HeatScale,     \* numbers of heat.service.ts and world-state.service.ts
  HeatDeltas,    \* heatDelta of a resolved action
  EventFlags,    \* the flag_ tags of an event, {} for one without
  Clues,         \* controlBonus of a fact, 0 for a turn that finds none
  MaxOpen,       \* open incidents at a time, 3 in the code
  MaxCombats,    \* fights between two visits of the hub, 3 in the code
  MaxClock, MaxTalks    \* bounds: the clock, the turns of talk

IncidentOutcomes == {"CONTAINED", "ESCALATED", "EXPIRED"}
Phases == <<"DAWN", "DAY", "DUSK", "NIGHT">>
PhaseNames == {Phases[k] : k \in 1..4}

\* The ticks of the day until the end of its k-th phase.
EndOf(k) ==
  LET ends == <<Durations[1], Durations[1] + Durations[2],
                Durations[1] + Durations[2] + Durations[3],
                Durations[1] + Durations[2] + Durations[3] + Durations[4]>>
  IN  ends[k]
TicksPerDay == EndOf(4)

Consequences == [heat : Int, flags : SUBSET STRING]
IncidentStages == [perTick : Int, reward : Int, penalty : Int]

ASSUME WorldAssumption ==
  /\ Durations \in [1..4 -> Nat \ {0}]
  /\ AccrualTurns \in Nat \ {0} /\ MaxOpen \in Nat /\ SoftDeadline \in Int
  /\ Hub \notin Locations
  /\ HeatScale.start \in 0..HeatScale.max /\ HeatScale.max \in Nat
  /\ {HeatScale.clamp, HeatScale.decay, HeatScale.combat} \subseteq Int
  /\ EventFlags \subseteq SUBSET STRING
  /\ HeatScale.cool \union HeatDeltas \union Clues \subseteq Int
  /\ MaxCombats \in Nat /\ MaxClock \in Nat /\ MaxTalks \in Nat
  /\ \A i \in Incidents :
       /\ Def[i].loc \in Locations /\ Def[i].deadline \in Nat \ {0}
       /\ Def[i].stages \in Seq(IncidentStages) \ {<<>>}
       /\ \A o \in IncidentOutcomes : Def[i].impact[o] \in Consequences

VARIABLES
  clock, day, phase,
  timePhase,     \* the two-valued mirror of phase that older code reads
  transition,    \* recentPhaseTransition
  accrual,       \* dialogueTickAccrual
  incidents,     \* activeIncidents, in the order they appeared
  flags,
  heat, safety,  \* hubHeat, hubSafety
  overdue,       \* mainArcClock.triggered
  runOver,       \* RUN_ENDED, by the ending of a pack that is not AUTONOMOUS
  where,         \* where the player is
  fighting,      \* inside a combat sub-node of the place
  window,        \* combatWindowCount
  action,        \* the player's action in progress
  talks, paid,   \* history: turns of talk, ticks that turns were charged
  deeds,         \* history: the flags that actions set by their success
  applied        \* history: how often the impact of an incident was applied

hours == <<clock, day, phase>>
books == <<accrual, talks, paid>>
mirrors == <<timePhase, transition, safety>>
time == <<hours, timePhase, transition, books>>
city == <<incidents, flags, deeds, overdue, runOver, applied>>
spot == <<where, fighting, window>>
worldVars == <<time, city, heat, safety, spot, action>>

-----------------------------------------------------------------------------
\* The clock

\* advancePhaseV2: the phase in whose part of the day the tick falls.
PhaseOf(c) ==
  LET t == c % TicksPerDay
  IN  Phases[CHOOSE k \in 1..4 : t < EndOf(k) /\ \A j \in 1..(k - 1) : t >= EndOf(j)]
DayOf(c) == c \div TicksPerDay + 1
MirrorOf(p) == IF p \in {"DAWN", "DAY"} THEN "DAY" ELSE "NIGHT"
Transition(from, to) == IF to = from THEN NoTransition ELSE <<from, to>>

Clamp(n, low, high) == IF n < low THEN low ELSE IF n > high THEN high ELSE n
SafetyOf(h) ==
  IF h < HeatScale.alert THEN "SAFE" ELSE IF h < HeatScale.danger THEN "ALERT" ELSE "DANGER"

\* applyHeatDelta: one cause moves the heat by a limited amount.
Heated(d) ==
  Clamp(heat + Clamp(d, -HeatScale.clamp, HeatScale.clamp), 0, HeatScale.max)

\* The ticks that talk has accrued, due with the next turn that takes time.
Due == accrual \div AccrualTurns

-----------------------------------------------------------------------------
\* Incidents

Runtime(i, c) ==
  [id |-> i, stage |-> 1, control |-> 0, pressure |-> 0,
   deadline |-> c + Def[i].deadline, outcome |-> "open"]

Open(list) == {k \in DOMAIN list : list[k].outcome = "open"}
Known(list) == {list[k].id : k \in DOMAIN list}

\* checkResolution
Resolution(inc) ==
  IF inc.control >= Def[inc.id].controlAt THEN "CONTAINED"
  ELSE IF inc.pressure >= Def[inc.id].pressureAt THEN "ESCALATED" ELSE "open"

\* tickAllIncidents for one incident.
Pressed(inc) ==
  IF inc.outcome # "open" THEN inc
  ELSE LET p == [inc EXCEPT !.pressure =
                   Clamp(@ + Def[inc.id].stages[inc.stage].perTick, 0, 100)]
       IN  [p EXCEPT !.outcome = Resolution(p)]

\* checkDeadline, for what the pressure and the control left open.
Expired(inc, c) ==
  IF inc.outcome = "open" /\ c >= inc.deadline THEN [inc EXCEPT !.outcome = "EXPIRED"] ELSE inc

\* trySpawnIncident.  The chance, the weights and the reputation an incident
\* asks for only decide which of the eligible ones appears, if any.
Spawned(list, c) ==
  IF Cardinality(Open(list)) >= MaxOpen THEN {list}
  ELSE {list} \union
       {Append(list, Runtime(i, c)) :
          i \in {j \in Incidents \ Known(list) :
                   /\ Def[j].minDay <= DayOf(c) /\ DayOf(c) <= Def[j].maxDay
                   /\ Def[j].minHeat <= heat
                   /\ Def[j].needs \subseteq flags}}

\* The incidents that ended in a tick, by their places in the list: their
\* impacts are collected, those of the deadlines first.
Ended(list) == Open(incidents) \ Open(list)
Reported(list, j, k) ==
  IF list[j].outcome = "EXPIRED" <=> list[k].outcome = "EXPIRED" THEN j < k
  ELSE list[j].outcome = "EXPIRED"
Reports(list, report) ==
  /\ \A k \in Ended(list) : \E a \in DOMAIN report : report[a] = k
  /\ \A a, b \in DOMAIN report : a < b => Reported(list, report[a], report[b])

\* applyImpact: the outcome of the player's action moves the control, and an
\* incident under control enters its next stage.
Impacted(inc, result) ==
  LET def == Def[inc.id].stages[inc.stage]
      control == CASE result = "SUCCESS" -> Clamp(inc.control + def.reward, 0, 100)
                   [] result = "PARTIAL" -> Clamp(inc.control + def.reward \div 2, 0, 100)
                   [] result = "FAIL" -> Clamp(inc.control - def.penalty, 0, 100)
  IN  [inc EXCEPT !.control = control,
                  !.stage = IF control >= 50 /\ @ < Len(Def[inc.id].stages) THEN @ + 1 ELSE @]

\* findRelevantIncident: any open incident of the place, by the affordances of
\* its stage.
Relevant == {k \in Open(incidents) : Def[incidents[k].id].loc = where}

-----------------------------------------------------------------------------
\* Turns

Eligible == {i \in Incidents : Def[i].minDay <= 1 /\ Def[i].minHeat <= HeatScale.start}

Results == {"SUCCESS", "PARTIAL", "FAIL"}

\* resolveResult.flagsSet: an action that succeeds sets the flags of its event.
FlagsSet(result) == IF result = "SUCCESS" THEN EventFlags ELSE {{}}

AtRest == [step |-> "none"]

\* createRun: two of the incidents that are eligible are there from the
\* beginning, or the only one.
WorldInit ==
  /\ clock = 0 /\ day = 1 /\ phase = "DAWN" /\ timePhase = "DAY" /\ transition = NoTransition
  /\ accrual = 0 /\ talks = 0 /\ paid = 0
  /\ \E n \in 0..2 : \E f \in [1..n -> Eligible] :
       /\ \A j, k \in 1..n : f[j] = f[k] => j = k
       /\ n = 2 \/ \A i \in Eligible : \E k \in 1..n : f[k] = i
       /\ incidents = [k \in 1..n |-> Runtime(f[k], 0)]
  /\ flags = {} /\ deeds = {} /\ overdue = FALSE /\ runOver = FALSE /\ applied = [i \in Incidents |-> 0]
  /\ heat = HeatScale.start /\ safety = SafetyOf(HeatScale.start)
  /\ where = Hub /\ fighting = FALSE /\ window = 0 /\ action = AtRest

\* An action at a place, with the heat it makes and the flags it sets, on its
\* way to n ticks: what appears in them may already need those flags.
Begin(pays, n, d, result) ==
  /\ where \in Locations /\ ~fighting
  /\ action' = [step |-> "tick", left |-> n, pays |-> pays, from |-> phase, result |-> result,
                impacts |-> <<>>]
  /\ heat' = Heated(d)
  /\ \E new \in FlagsSet(result) : flags' = flags \union new /\ deeds' = deeds \union new
  /\ UNCHANGED <<hours, mirrors, incidents, overdue, runOver, applied, spot>>

\* A turn of talk stops the clock: its time is put aside.
Talk(d, result) ==
  /\ talks < MaxTalks
  /\ accrual' = accrual + 1 /\ talks' = talks + 1 /\ paid' = paid
  /\ Begin(FALSE, 0, d, result)

\* Any other turn takes a tick, a rest two, and pays for the talk before it.
Spend(cost, d, result) ==
  /\ clock + cost + Due <= MaxClock
  /\ accrual' = accrual % AccrualTurns /\ paid' = paid + cost /\ talks' = talks
  /\ Begin(TRUE, cost + Due, d, result)

\* One round of the loop of preStepTick: pressure, the deadlines at d, a new
\* incident; the impacts of what ended wait, after those there are.
Round(d, impacts) ==
  /\ action.step = "tick" /\ action.left > 0
  /\ clock' = clock + 1 /\ day' = DayOf(clock') /\ phase' = PhaseOf(clock')
  /\ LET list == [k \in DOMAIN incidents |-> Expired(Pressed(incidents[k]), d)]
     IN  /\ \E n \in 0..Len(list) : \E report \in [1..n -> Ended(list)] :
              /\ Reports(list, report)
              /\ action' = [action EXCEPT !.left = @ - 1, !.impacts = impacts \o report]
         /\ incidents' \in Spawned(list, clock')
  /\ UNCHANGED <<mirrors, books, flags, deeds, overdue, runOver, applied, heat, spot>>

\* Mutation of WorldTick: the impacts of the last round replace those before it.
TickForgets == Round(clock + 1, <<>>)

\* Mutation of WorldTick: the deadlines are looked at before the clock moves.
TickLate == Round(clock, action.impacts)

WorldTick == Round(clock + 1, action.impacts)

\* The outcome of the action changes the incident it is relevant to.
Impact ==
  /\ action.step = "tick" /\ action.left = 0
  /\ IF Relevant = {} THEN incidents' = incidents
     ELSE \E k \in Relevant : incidents' = [incidents EXCEPT ![k] = Impacted(@, action.result)]
  /\ action' = [action EXCEPT !.step = "apply"]
  /\ UNCHANGED <<time, flags, deeds, overdue, runOver, applied, heat, safety, spot>>

\* postStepTick applies the impacts in the order they came in,
ApplyPatch ==
  /\ action.step = "apply" /\ action.impacts # <<>>
  /\ LET inc == incidents[Head(action.impacts)]
         impact == Def[inc.id].impact[inc.outcome]
     IN  /\ heat' = Clamp(heat + impact.heat, 0, HeatScale.max)
         /\ flags' = flags \union impact.flags
         /\ applied' = [applied EXCEPT ![inc.id] = @ + 1]
  /\ action' = [action EXCEPT !.impacts = Tail(@)]
  /\ UNCHANGED <<time, incidents, deeds, overdue, runOver, safety, spot>>

\* processQuestProgression: a fact the turn found brings incidents under control.
Informed ==
  {incidents} \union
  {[incidents EXCEPT ![k].control = Clamp(@ + b, 0, 100)] : k \in Open(incidents), b \in Clues}

\* processQuestProgression late in its last stage: what is open counts as
\* contained, without an impact, and so the run ends with this turn.
AllContained ==
  [k \in DOMAIN incidents |->
     IF k \in Open(incidents) THEN [incidents[k] EXCEPT !.control = 100, !.outcome = "CONTAINED"]
     ELSE incidents[k]]

\* postStepTick notices the soft deadline when it is past.
Late == overdue \/ day > SoftDeadline

\* postStepTick and checkEndingConditions: with every incident resolved the run
\* ends, unless it is younger than MIN_TURNS_FOR_NATURAL; a run that never had
\* one ends after the soft deadline, which is noticed while incidents are open.
Ending ==
  IF Open(incidents) = {} /\ incidents # <<>> THEN runOver' \in BOOLEAN /\ overdue' = Late
  ELSE runOver' = (Late /\ incidents = <<>>) /\ overdue' = (Late \/ day >= SoftDeadline)

\* and derives the rest; the turn ends.
Settle ==
  /\ action.step = "apply" /\ action.impacts = <<>>
  /\ \/ incidents' \in Informed /\ Ending
     \/ Open(incidents) # {} /\ incidents' = AllContained /\ runOver' = TRUE /\ overdue' = Late
  /\ timePhase' = MirrorOf(phase) /\ transition' = Transition(action.from, phase)
  /\ safety' = SafetyOf(heat)
  /\ action' = AtRest
  /\ UNCHANGED <<hours, books, flags, deeds, applied, heat, spot>>

\* Mutation of Travel: the talk that is paid for stays on the account.
TravelKeepsTalk(ticks) ==
  /\ clock + ticks + Due <= MaxClock
  /\ clock' = clock + ticks + Due /\ day' = DayOf(clock') /\ phase' = PhaseOf(clock')
  /\ timePhase' = MirrorOf(phase') /\ transition' = Transition(phase, phase')
  /\ accrual' = accrual /\ paid' = paid + ticks
  /\ UNCHANGED <<talks, city, fighting, action>>

\* advanceClockForTravel: time passes, and no incident moves with it.
Travel(ticks) ==
  /\ clock + ticks + Due <= MaxClock
  /\ clock' = clock + ticks + Due /\ day' = DayOf(clock') /\ phase' = PhaseOf(clock')
  /\ timePhase' = MirrorOf(phase') /\ transition' = Transition(phase, phase')
  /\ accrual' = accrual % AccrualTurns /\ paid' = paid + ticks
  /\ UNCHANGED <<talks, city, fighting, action>>

HubToLocation(l) ==
  /\ where = Hub
  /\ where' = l
  /\ Travel(1)
  /\ UNCHANGED <<heat, safety, window>>

MoveTo(l) ==
  /\ where \in Locations \ {l} /\ ~fighting
  /\ where' = l
  /\ Travel(2)
  /\ UNCHANGED <<heat, safety, window>>

\* returnToHub
ReturnToHub ==
  /\ where \in Locations /\ ~fighting
  /\ where' = Hub /\ window' = 0
  /\ heat' = Clamp(heat - HeatScale.decay, 0, HeatScale.max) /\ safety' = SafetyOf(heat')
  /\ Travel(1)

\* resolveByAlly and, when the gold is there, resolveByCost.
CoolDown(d) ==
  /\ where = Hub
  /\ heat' = Clamp(heat - d, 0, HeatScale.max) /\ safety' = SafetyOf(heat')
  /\ UNCHANGED <<time, city, spot, action>>

\* applyCombatTransition: the turn ends where the fight begins.
StartCombat(d) ==
  /\ where \in Locations /\ ~fighting /\ window < MaxCombats
  /\ fighting' = TRUE /\ window' = window + 1
  /\ heat' = Heated(d) /\ safety' = SafetyOf(heat')
  /\ timePhase' = MirrorOf(phase)
  /\ UNCHANGED <<hours, transition, books, city, where, action>>

\* Victory or flight leads back to the place; a defeat ends the run.
EndCombat ==
  /\ fighting
  /\ fighting' = FALSE
  /\ heat' = Heated(HeatScale.combat) /\ safety' = SafetyOf(heat')
  /\ UNCHANGED <<time, city, where, window, action>>

\* A turn begins, and a turn of the place goes on.
WorldTurn ==
  \/ \E l \in Locations : HubToLocation(l) \/ MoveTo(l)
  \/ \E d \in HeatDeltas : StartCombat(d)
  \/ \E d \in HeatDeltas, result \in Results :
       Talk(d, result) \/ \E cost \in {1, 2} : Spend(cost, d, result)
  \/ \E d \in HeatScale.cool : CoolDown(d)
  \/ ReturnToHub
  \/ EndCombat

GoOn == WorldTick \/ Impact \/ ApplyPatch \/ Settle

WorldNext == ~runOver /\ IF action = AtRest THEN WorldTurn ELSE GoOn

WorldSpec == WorldInit /\ [][WorldNext]_worldVars

-----------------------------------------------------------------------------
\* Properties

Incident ==
  [id : Incidents, stage : Nat \ {0}, control : 0..100, pressure : 0..100, deadline : Int,
   outcome : IncidentOutcomes \union {"open"}]

WorldTypeOK ==
  /\ clock \in 0..MaxClock /\ day \in Nat /\ phase \in PhaseNames /\ timePhase \in {"DAY", "NIGHT"}
  /\ accrual \in Nat /\ talks \in 0..MaxTalks /\ paid \in Nat
  /\ incidents \in Seq(Incident)
  /\ \A k \in DOMAIN incidents : incidents[k].stage \in DOMAIN Def[incidents[k].id].stages
  /\ flags \in SUBSET STRING /\ deeds \in SUBSET STRING
  /\ overdue \in BOOLEAN /\ runOver \in BOOLEAN
  /\ applied \in [Incidents -> Nat]
  /\ heat \in 0..HeatScale.max /\ safety \in {"SAFE", "ALERT", "DANGER"}
  /\ where \in Locations \union {Hub} /\ fighting \in BOOLEAN /\ window \in 0..MaxCombats
  /\ action # AtRest =>
       action \in [step : {"tick", "apply"}, left : Nat, pays : BOOLEAN, from : PhaseNames,
                 result : Results, impacts : Seq(Nat)]

\* What is stored twice agrees after every turn, whichever handler played it:
\* the day and the phase with the clock, the old time of day with the phase,
\* the safety of the city with its heat. And no mix of talk, actions and travel
\* creates or loses time: the clock and the talk put aside add up to what the
\* turns were charged and talked.
TimeKept ==
  action = AtRest =>
    /\ day = DayOf(clock) /\ phase = PhaseOf(clock)
    /\ timePhase = MirrorOf(phase)
    /\ safety = SafetyOf(heat)
    /\ AccrualTurns * clock + accrual = AccrualTurns * paid + talks

\* An incident ends once: its impact is applied exactly once, however many
\* ticks the turn took in which it ended, and it never appears again. The
\* flags of the world are those of the outcomes reached and those its actions
\* set by their success: whichever of the two wrote last, none of the other's
\* is lost and none is there without a cause. Only the ending of the run
\* itself closes incidents without a consequence.
ConsequencesApplied ==
  LET over == DOMAIN incidents \ Open(incidents)
  IN  /\ \A j, k \in DOMAIN incidents : incidents[j].id = incidents[k].id => j = k
      /\ action = AtRest /\ ~runOver =>
           /\ \A i \in Incidents : applied[i] = IF \E k \in over : incidents[k].id = i THEN 1 ELSE 0
           /\ flags = deeds \union UNION {Def[incidents[k].id].impact[incidents[k].outcome].flags : k \in over}

\* A turn that pays for time leaves no incident open past its deadline, even
\* when travel or paid talk jumped over it; and while one is open, the turn
\* notices on the day of the soft deadline of the main arc that it is there.
DeadlinesKept ==
  [][action # AtRest /\ action' = AtRest /\ action.pays =>
       /\ \A k \in Open(incidents') : incidents'[k].deadline > clock'
       /\ Open(incidents') # {} => overdue' = (day' >= SoftDeadline)]_worldVars

=============================================================================
