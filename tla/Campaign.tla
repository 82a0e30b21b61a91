------------------------------ MODULE Campaign ------------------------------
(***************************************************************************)
(* A player's journey through scenarios: createCampaign, createRun, the    *)
(* end of a run with saveScenarioResult, and abortRun, each a sequence of  *)
(* statements without a transaction around them. A campaign carries over   *)
(* what its runs leave behind; the carried state is read, merged and       *)
(* written back whole. The stats a hero plays with are the player's, one   *)
(* row for all games.                                                      *)
(*                                                                         *)
(* Of a carried state the model keeps the results of completed scenarios,  *)
(* the identity, the stats and the bonus earned by completions; gold,      *)
(* items, NPCs and reputation are merged by the same statement. The        *)
(* results are a set: their order tells only which one the prologue        *)
(* mentions.                                                               *)
(*                                                                         *)
(* Who plays is asked for, stored with a run and carried over as a persona *)
(* of three parts, because a later run takes each from elsewhere:          *)
(*   hero    gender, action bonuses, trait effects;                        *)
(*   name    name, portrait, trait; a request may leave them out;          *)
(*   preset  presetId with the theme of the protagonist and what NPCs      *)
(*           think of the preset; only a first run needs one.              *)
(***************************************************************************)
EXTENDS Integers, Sequences, FiniteSets

CONSTANTS
  Scenarios,        \* the number of scenario packs; 1 is DEFAULT_SCENARIO_ID
  Heroes,           \* heroes with a name and a preset each
  Requests,         \* requests that may be in flight together
  Settings          \* the circumstances to consider, records of
                    \*   careful  the player waits for an answer before the next request
                    \*   single   and starts no game while another is open
                    \*   others   games outside a campaign are played too
                    \*   omits    parts of a persona that requests may leave out
                    \*   faults   bound on crashes and failed merges
                    \*   campaigns, runs   bounds on their number

None == "none"

ASSUME CampaignAssumption ==
  /\ Scenarios \in Nat \ {0}
  /\ None \notin Heroes
  /\ \A s \in Settings : s.careful \in BOOLEAN /\ s.single \in BOOLEAN /\ s.omits \subseteq {"name", "preset"}

VARIABLES
  setting,          \* one of Settings; it never changes
  campaigns,        \* campaigns: [status, carry]
  runs,             \* run_sessions: [campaign, scenario, who, status]; no campaign is 0,
                    \*   no scenarioId is 0
  profile,          \* player_profiles.permanentStats: [hero, bonus] or None
  req,              \* createCampaign and createRun calls
  ending,           \* per run, the turn that ends it: [pc, carry, stats]
  aborting,         \* runs whose abortRun has passed its check
  faults

vars == <<setting, campaigns, runs, profile, req, ending, aborting, faults>>

NoStats == [hero |-> None, bonus |-> 0]

Nobody == [hero |-> None, name |-> None, preset |-> None]

\* emptyCarryOver, also for the null of a new campaign
NoCarry == [done |-> {}, who |-> Nobody, stats |-> NoStats, bonus |-> 0]

Idle == [pc |-> "idle", campaign |-> 0, scenario |-> 0, who |-> Nobody, carry |-> NoCarry]

Playing == [pc |-> "playing", carry |-> NoCarry, stats |-> NoStats]

Init ==
  /\ setting \in Settings
  /\ campaigns = <<>> /\ runs = <<>>
  /\ profile = NoStats
  /\ req = [r \in Requests |-> Idle]
  /\ ending = <<>>
  /\ aborting = {}
  /\ faults = 0

-----------------------------------------------------------------------------

Active(i) == runs[i].status = "ACTIVE"

RunsOf(c) == {i \in DOMAIN runs : runs[i].campaign = c}

ActiveIn(c) == {i \in RunsOf(c) : Active(i)}

Completed(carry) == {d.scenario : d \in carry.done}

Merging(i) == ending[i].pc \in {"campaign", "run", "stats", "write"}

AtWork(i) == ending[i].pc = "end" \/ Merging(i)

\* Nothing of the player is in flight.
Quiet ==
  /\ \A r \in Requests : req[r].pc = "idle"
  /\ \A i \in DOMAIN runs : ~AtWork(i)
  /\ aborting = {}

MayAsk == setting.careful => Quiet

At(r, label) == req[r].pc = label

Goto(r, label) == req' = [req EXCEPT ![r].pc = label]

Answer(r) == req' = [req EXCEPT ![r] = Idle]

-----------------------------------------------------------------------------
(* createCampaign.                                                         *)

Archive(r) ==
  /\ At(r, "idle") /\ MayAsk
  /\ Len(campaigns) + Cardinality({q \in Requests : At(q, "journey")}) < setting.campaigns
  /\ campaigns' = [c \in DOMAIN campaigns |->
                     [status |-> "COMPLETED", carry |-> campaigns[c].carry]]
  /\ Goto(r, "journey")
  /\ UNCHANGED <<runs, profile, ending, aborting, faults>>

InsertCampaign(r) ==
  /\ At(r, "journey")
  /\ campaigns' = Append(campaigns, [status |-> "ACTIVE", carry |-> NoCarry])
  /\ Answer(r)
  /\ UNCHANGED <<runs, profile, ending, aborting, faults>>

-----------------------------------------------------------------------------
(* createRun.                                                              *)

Creating == {r \in Requests : req[r].pc \notin {"idle", "journey"}}

\* Who may be asked for: some hero, without the parts the request leaves out.
Personas ==
  {[hero   |-> h,
    name   |-> IF "name" \in out THEN None ELSE h,
    preset |-> IF "preset" \in out THEN None ELSE h] : h \in Heroes, out \in SUBSET setting.omits}

\* Campaign 0 is a game of its own, without the checks; scenario 0 is a request
\* that names none.
Ask(r, c, s, who) ==
  /\ At(r, "idle") /\ MayAsk
  /\ Len(runs) + Cardinality(Creating) < setting.runs
  /\ setting.single => \A i \in DOMAIN runs : ~Active(i)
  /\ c = 0 => setting.others /\ s = 0
  /\ req' = [req EXCEPT ![r] = [Idle EXCEPT !.pc = IF c = 0 THEN "stats" ELSE "guard",
                                            !.campaign = c, !.scenario = s, !.who = who]]
  /\ UNCHANGED <<campaigns, runs, profile, ending, aborting, faults>>

\* Mutation of Guard: no check for an open run.
GuardNothing(r) ==
  /\ At(r, "guard")
  /\ Goto(r, "carry")
  /\ UNCHANGED <<campaigns, runs, profile, ending, aborting, faults>>

\* activeInCampaign
Guard(r) ==
  /\ At(r, "guard")
  /\ IF ActiveIn(req[r].campaign) # {} THEN Answer(r) ELSE Goto(r, "carry")
  /\ UNCHANGED <<campaigns, runs, profile, ending, aborting, faults>>

ReadCarry(r) ==
  /\ At(r, "carry")
  /\ req' = [req EXCEPT ![r].carry = campaigns[req[r].campaign].carry, ![r].pc = "check"]
  /\ UNCHANGED <<campaigns, runs, profile, ending, aborting, faults>>

\* Mutation of Check: any named scenario is accepted.
CheckNothing(r) ==
  /\ At(r, "check")
  /\ Goto(r, "stats")
  /\ UNCHANGED <<campaigns, runs, profile, ending, aborting, faults>>

\* activeScenarioId: the scenario of some open run.
Open(c) ==
  IF ActiveIn(c) = {} THEN {0} ELSE {runs[i].scenario : i \in ActiveIn(c)}

\* resolveNextScenarioId: the first pack that is AVAILABLE, or none.
NextScenario(c, open) ==
  LET free == (1..Scenarios) \ (Completed(campaigns[c].carry) \union {open})
  IN  IF free = {} THEN 0 ELSE CHOOSE s \in free : \A t \in free : s <= t

\* getScenarioStatus reads the carried state again; only COMPLETED refuses. Its
\* reads of the campaign and of the open run are one step here: what the second
\* adds for a request without a scenario, one that names it reaches as well.
Check(r) ==
  LET c == req[r].campaign  s == req[r].scenario
  IN  /\ At(r, "check")
      /\ IF s \in Completed(campaigns[c].carry)
           THEN Answer(r)
           ELSE \E next \in IF s # 0 THEN {s} ELSE {NextScenario(c, o) : o \in Open(c)} :
                  req' = [req EXCEPT ![r].pc = "stats", ![r].scenario = next]
      /\ UNCHANGED <<campaigns, runs, profile, ending, aborting, faults>>

IsFirst(carry) == carry.done = {}

\* A part that is missing is taken from the other persona.
Or(part, other) == IF part # None THEN part ELSE other

\* effGender, mergedActionBonuses, traitEffects, characterName, portrait and trait
\* of a later run: the carried identity is preferred, and what it lacks is taken
\* from the request. With the preset it is the other way round.
HeroOf(carry, asked) ==
  IF IsFirst(carry) \/ carry.who = Nobody THEN asked
  ELSE [hero   |-> carry.who.hero,
        name   |-> Or(carry.who.name, asked.name),
        preset |-> Or(asked.preset, carry.who.preset)]

\* presetStats: the stats of the preset, or those carried over and the bonuses.
StatsOf(carry, asked) ==
  IF IsFirst(carry)
    THEN [hero |-> asked.hero, bonus |-> 0]
    ELSE [hero |-> carry.stats.hero, bonus |-> carry.stats.bonus + carry.bonus]

\* A first run needs a preset.
Complete(r) == IsFirst(req[r].carry) => req[r].who.preset # None

\* A preset, a trait or a user that is missing or unknown is refused before
\* anything is written.
Refuse(r) ==
  /\ At(r, "stats")
  /\ Answer(r)
  /\ UNCHANGED <<campaigns, runs, profile, ending, aborting, faults>>

\* Mutation of WriteProfile: an existing row is kept.
WriteProfileOnce(r) ==
  /\ At(r, "stats") /\ Complete(r)
  /\ profile' = IF profile = NoStats THEN StatsOf(req[r].carry, req[r].who) ELSE profile
  /\ Goto(r, "insert")
  /\ UNCHANGED <<campaigns, runs, ending, aborting, faults>>

WriteProfile(r) ==
  /\ At(r, "stats") /\ Complete(r)
  /\ profile' = StatsOf(req[r].carry, req[r].who)
  /\ Goto(r, "insert")
  /\ UNCHANGED <<campaigns, runs, ending, aborting, faults>>

\* Mutation of InsertRun: the persona of the request.
InsertRunAsAsked(r) ==
  /\ At(r, "insert")
  /\ runs' = Append(runs, [campaign |-> req[r].campaign, scenario |-> req[r].scenario,
                           who |-> req[r].who, status |-> "ACTIVE"])
  /\ ending' = Append(ending, Playing)
  /\ Answer(r)
  /\ UNCHANGED <<campaigns, profile, aborting, faults>>

\* One transaction: the run, its first node, its memory and its first turn.
InsertRun(r) ==
  /\ At(r, "insert")
  /\ runs' = Append(runs, [campaign |-> req[r].campaign, scenario |-> req[r].scenario,
                           who |-> HeroOf(req[r].carry, req[r].who), status |-> "ACTIVE"])
  /\ ending' = Append(ending, Playing)
  /\ Answer(r)
  /\ UNCHANGED <<campaigns, profile, aborting, faults>>

-----------------------------------------------------------------------------
(* The end of a run and saveScenarioResult.                                *)

Phase(i, label) == ending[i].pc = label

Step(i, label) == ending' = [ending EXCEPT ![i].pc = label]

\* The merge is over: nothing of it is tried again.
Over(i) == ending' = [ending EXCEPT ![i] = [Playing EXCEPT !.pc = "over"]]

\* A turn that will end the run has read it as active.
LastTurn(i) ==
  /\ Phase(i, "playing") /\ Active(i) /\ MayAsk
  /\ Step(i, "end")
  /\ UNCHANGED <<campaigns, runs, profile, req, aborting, faults>>

\* The UPDATE does not look at the status again.
End(i) ==
  /\ Phase(i, "end")
  /\ runs' = [runs EXCEPT ![i].status = "ENDED"]
  /\ IF runs[i].campaign = 0 THEN Over(i) ELSE Step(i, "campaign")
  /\ UNCHANGED <<campaigns, profile, req, aborting, faults>>

\* Mutation of MergeReadCampaign: only an active campaign takes results.
MergeReadActive(i) ==
  /\ Phase(i, "campaign")
  /\ LET c == campaigns[runs[i].campaign]
     IN  IF c.status = "ACTIVE"
           THEN ending' = [ending EXCEPT ![i].pc = "run", ![i].carry = c.carry]
           ELSE Over(i)
  /\ UNCHANGED <<campaigns, runs, profile, req, aborting, faults>>

MergeReadCampaign(i) ==
  /\ Phase(i, "campaign")
  /\ ending' = [ending EXCEPT ![i].pc = "run",
                              ![i].carry = campaigns[runs[i].campaign].carry]
  /\ UNCHANGED <<campaigns, runs, profile, req, aborting, faults>>

\* Only a run that reads RUN_ENDED is merged.
MergeReadRun(i) ==
  /\ Phase(i, "run")
  /\ IF runs[i].status = "ENDED" THEN Step(i, "stats") ELSE Over(i)
  /\ UNCHANGED <<campaigns, runs, profile, req, aborting, faults>>

\* finalStats
MergeReadStats(i) ==
  /\ Phase(i, "stats")
  /\ ending' = [ending EXCEPT ![i].pc = "write", ![i].stats = profile]
  /\ UNCHANGED <<campaigns, runs, profile, req, aborting, faults>>

\* buildScenarioResult: a run without a scenario counts as the default one.
Result(i) ==
  [scenario |-> IF runs[i].scenario = 0 THEN 1 ELSE runs[i].scenario, run |-> i]

\* dedupedCompleted: a result of the same scenario is replaced.
WithResult(done, i) ==
  {d \in done : d.scenario # Result(i).scenario} \union {Result(i)}

\* Mutation of Merged: the bonus is given for every result.
MergedAlways(i) ==
  LET prev == ending[i].carry
  IN  [done  |-> WithResult(prev.done, i),
       who   |-> IF prev.who # Nobody THEN prev.who ELSE runs[i].who,
       stats |-> ending[i].stats,
       bonus |-> prev.bonus + 1]

\* mergeCarryOver: the identity is that of the first completion, the bonus is
\* given once per scenario.
Merged(i) ==
  LET prev == ending[i].carry
  IN  [done  |-> WithResult(prev.done, i),
       who   |-> IF prev.who # Nobody THEN prev.who ELSE runs[i].who,
       stats |-> ending[i].stats,
       bonus |-> prev.bonus + IF Result(i).scenario \in Completed(prev) THEN 0 ELSE 1]

\* carryOverState is written whole, without a comparison.
MergeWrite(i) ==
  /\ Phase(i, "write")
  /\ campaigns' = [campaigns EXCEPT ![runs[i].campaign].carry = Merged(i)]
  /\ Over(i)
  /\ UNCHANGED <<runs, profile, req, aborting, faults>>

\* saveCampaignResultIfNeeded swallows an error of the merge.
MergeFails(i) ==
  /\ Merging(i)
  /\ faults < setting.faults
  /\ faults' = faults + 1
  /\ Over(i)
  /\ UNCHANGED <<campaigns, runs, profile, req, aborting>>

-----------------------------------------------------------------------------

AbortCheck(i) ==
  /\ Active(i) /\ i \notin aborting /\ MayAsk
  /\ aborting' = aborting \union {i}
  /\ UNCHANGED <<campaigns, runs, profile, req, ending, faults>>

\* The UPDATE does not look at the status again.
AbortWrite(i) ==
  /\ i \in aborting
  /\ aborting' = aborting \ {i}
  /\ runs' = [runs EXCEPT ![i].status = "ABORTED"]
  /\ UNCHANGED <<campaigns, profile, req, ending, faults>>

\* What was in flight is gone; nothing takes it up again.
Crash ==
  /\ ~Quiet
  /\ faults < setting.faults
  /\ faults' = faults + 1
  /\ req' = [r \in Requests |-> Idle]
  /\ ending' = [i \in DOMAIN ending |->
                  CASE Phase(i, "end") -> Playing
                    [] Merging(i) -> [Playing EXCEPT !.pc = "over"]
                    [] OTHER -> ending[i]]
  /\ aborting' = {}
  /\ UNCHANGED <<campaigns, runs, profile>>

Next ==
  /\ UNCHANGED setting
  /\ \/ \E r \in Requests :
          \/ Archive(r) \/ InsertCampaign(r)
          \/ \E c \in 0..Len(campaigns), s \in 0..Scenarios, who \in Personas : Ask(r, c, s, who)
          \/ Guard(r) \/ ReadCarry(r) \/ Check(r) \/ Refuse(r) \/ WriteProfile(r) \/ InsertRun(r)
     \/ \E i \in DOMAIN runs :
          \/ LastTurn(i) \/ End(i)
          \/ MergeReadCampaign(i) \/ MergeReadRun(i) \/ MergeReadStats(i) \/ MergeWrite(i)
          \/ MergeFails(i)
          \/ AbortCheck(i) \/ AbortWrite(i)
     \/ Crash

Spec == Init /\ [][Next]_vars

-----------------------------------------------------------------------------

Stats == [hero : Heroes \union {None}, bonus : Nat]

\* The parts of a persona need not be those of one hero.
Mixtures == [hero : Heroes, name : Heroes \union {None}, preset : Heroes \union {None}]

Carries == [done : SUBSET [scenario : 1..Scenarios, run : Nat],
            who : Mixtures \union {Nobody}, stats : Stats, bonus : Nat]

\* Types.
TypeOK ==
  /\ setting \in Settings
  /\ campaigns \in Seq([status : {"ACTIVE", "COMPLETED"}, carry : Carries])
  /\ runs \in Seq([campaign : 0..Len(campaigns), scenario : 0..Scenarios, who : Mixtures,
                   status : {"ACTIVE", "ENDED", "ABORTED"}])
  /\ profile \in Stats
  /\ req \in [Requests -> [pc : {"idle", "journey", "guard", "carry", "check", "stats", "insert"},
                          campaign : 0..Len(campaigns), scenario : 0..Scenarios,
                          who : Mixtures \union {Nobody}, carry : Carries]]
  /\ ending \in Seq([pc : {"playing", "end", "campaign", "run", "stats", "write", "over"},
                     carry : Carries, stats : Stats])
  /\ DOMAIN ending = DOMAIN runs
  /\ aborting \subseteq DOMAIN runs
  /\ faults \in Nat

\* A run is played by the hero of the journey.
Plays(i, carry) ==
  /\ runs[i].who.hero = carry.who.hero
  /\ carry.who.name # None => runs[i].who.name = carry.who.name

(* There is no way back: for a player who waits for answers, whatever      *)
(* crashes and however games are mixed, a campaign has one open run at     *)
(* most, no open run plays a scenario its campaign holds as completed, and *)
(* one campaign at most is active (ScenarioStatus "COMPLETED: 완주 — 재진입  *)
(* 불가", the guard of createRun, "단일 활성 캠페인 불변식"). A run without  *)
(* a scenario is exempt: see the README.                                   *)
NoWayBack ==
  setting.careful =>
    /\ \A c \in DOMAIN campaigns : \A i, j \in ActiveIn(c) : i = j
    /\ \A c \in DOMAIN campaigns : \A i \in ActiveIn(c) :
         runs[i].scenario \notin Completed(campaigns[c].carry)
    /\ \A c, d \in DOMAIN campaigns :
         campaigns[c].status = "ACTIVE" /\ campaigns[d].status = "ACTIVE" => c = d

(* What is achieved is carried over, once: a campaign's bonus is one per   *)
(* completed scenario and no scenario is listed twice, also when several   *)
(* runs of it end at once (mergeCarryOver "중복 가드", "완주 1회당 1회"). If  *)
(* the player waits and nothing fails, the scenario of every ended run is  *)
(* completed, in archived campaigns too, and an abandoned run is no        *)
(* completion (abortRun "캠페인 머지는 하지 않는다").                        *)
Carried ==
  /\ \A c \in DOMAIN campaigns :
       LET carry == campaigns[c].carry
       IN  /\ carry.bonus = Cardinality(Completed(carry))
           /\ \A d, e \in carry.done : d.scenario = e.scenario => d = e
           /\ \A d \in carry.done :
                /\ runs[d.run].campaign = c
                /\ d = Result(d.run)
                /\ setting.careful => runs[d.run].status = "ENDED"
  /\ (setting.careful /\ Quiet /\ faults = 0) =>
       \A i \in DOMAIN runs :
         (runs[i].status = "ENDED" /\ runs[i].campaign # 0) =>
           Result(i).scenario \in Completed(campaigns[runs[i].campaign].carry)

(* One hero makes the whole journey: for a player who waits, whatever the  *)
(* later requests ask for, the run that is open in a campaign with a       *)
(* completed scenario, and every completed run, are played by the hero of  *)
(* the first completion, under its name if it had one (CarryOverState      *)
(* .identity "첫 완주 시 확정 후 불변"). The preset is no part of this: that *)
(* of a later request is applied. If no other game was started meanwhile,  *)
(* the hero plays with the own stats, raised at least by the bonus of      *)
(* every completion.                                                       *)
OneHero ==
  setting.careful =>
    /\ \A c \in DOMAIN campaigns :
         LET carry == campaigns[c].carry
         IN  /\ \A d \in carry.done : Plays(d.run, carry)
             /\ carry.done # {} => \A i \in ActiveIn(c) : Plays(i, carry)
    /\ setting.single => \A i \in DOMAIN runs :
         Active(i) =>
           /\ profile.hero = runs[i].who.hero
           /\ runs[i].campaign # 0 => profile.bonus >= campaigns[runs[i].campaign].carry.bonus
=============================================================================
