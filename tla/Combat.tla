------------------------------- MODULE Combat -------------------------------
(***************************************************************************)
(* The fights of a run: CombatService.resolveCombatTurn with StatusService *)
(* and EnemyAiService, as handleCombatTurn calls them and commits what     *)
(* they return, and the battle that insertCombatSubNode sets up.           *)
(*                                                                         *)
(* A roll may fall either way and a hit may cost any number of hit points, *)
(* so statistics, equipment and the statuses that only change them         *)
(* (WEAKEN, FORTIFY, the angle of an attack) are left out.  Of the         *)
(* instances of one status an enemy has, the one that lasts longest stands *)
(* for all: the code only asks whether there is one.  BLEED and POISON are *)
(* one status, "DOT".                                                      *)
(***************************************************************************)
EXTENDS Integers, Sequences, FiniteSets

CONSTANTS
  Foes, Personality, FoeHp,
  MaxHp, MaxStamina,
  MaxDistance,         \* the last of DISTANCE_ORDER: 4 in the code
  Starts,              \* the distances at which an encounter may place a foe
  Items,               \* the consumables with a combat effect
  Effect, Value,       \* what an item does, and how much of it
  Slot,                \* the item's place in the inventory
  Packs,               \* the inventories a run may start with
  Loot,                \* the consumables of the drop table
  MaxQty,              \* bound: how many of one item a run may hold
  Plans,               \* the sequences of one or two units a player may ask for
  NoFoe

ItemHints == {"HEAL_HP", "RESTORE_STAMINA", "FLEE_BONUS", "APPLY_STATUS", "NONE"}
Units ==
  [act : {"ATTACK"}, on : Foes] \union [act : {"USE_ITEM"}, on : ItemHints]
    \union [act : {"MOVE"}, on : {"FORWARD", "BACK"}]
    \union [act : {"DEFEND", "EVADE", "FLEE", "LOOK", "ENV"}, on : {NoFoe}]

ASSUME CombatAssumption ==
  /\ Personality \in [Foes -> {"AGGRESSIVE", "TACTICAL", "SNIPER", "COWARDLY", "BERSERK"}]
  /\ FoeHp \in [Foes -> Nat \ {0}] /\ MaxHp \in Nat \ {0}
  /\ MaxStamina \in Nat /\ MaxDistance \in Nat /\ MaxQty \in Nat
  /\ Starts \subseteq 0..MaxDistance /\ Starts # {}
  /\ Effect \in [Items -> ItemHints \ {"NONE"}] /\ Value \in [Items -> Nat]
  /\ IsFiniteSet(Items) /\ Packs \subseteq [Items -> 0..MaxQty] /\ Loot \subseteq Items
  /\ Slot \in [Items -> Nat] /\ NoFoe \notin Foes
  /\ Plans \subseteq {s \in Seq(Units) : Len(s) \in {1, 2}}

VARIABLES
  scene,      \* "away" between fights, "fight", "over" after a defeat
  hp, stamina,
  foe,        \* per foe: hit points, distance, turns left of each status
  bag,        \* runState.inventory
  last,       \* what the last turn's serverResult says
  since,      \* history: the turns a foe had since it last missed one, up to 2
  tangled     \* history: the foes something was thrown at in this fight
combatVars == <<scene, hp, stamina, foe, bag, last, since, tangled>>

Outcomes == {"NONE", "ONGOING", "VICTORY", "DEFEAT", "FLEE_SUCCESS"}
Statuses == {"STUN", "STUN_IMMUNE", "DOT"}
Duration == [STUN |-> 1, STUN_IMMUNE |-> 2, DOT |-> 3]      \* baseDuration
Improvised == [STUN |-> 2, DOT |-> 3]                       \* applyPropStatusEffects

NoneLeft == [s \in Statuses |-> 0]
NoneUsed == [i \in Items |-> 0]
Quiet == [outcome |-> "NONE", removed |-> NoneUsed, missed |-> {}]

Least(a, b) == IF a < b THEN a ELSE b
Most(a, b) == IF a > b THEN a ELSE b

CombatInit ==
  /\ scene = "away" /\ hp = MaxHp /\ stamina = MaxStamina
  /\ foe = [f \in Foes |-> [hp |-> 0, dist |-> 0, left |-> NoneLeft]]
  /\ bag \in Packs
  /\ last = Quiet /\ since = [f \in Foes |-> 2] /\ tangled = {}

-----------------------------------------------------------------------------
(* What the player's units do to a battle b, a record of the variables and *)
(* of what the turn has done so far: sets of the battles that may result.  *)

Alive(b) == {f \in Foes : b.foe[f].hp > 0}
Lasting(b, f, s, n) == [b EXCEPT !.foe[f].left[s] = Most(@, n)]

Rested(b, n) == [b EXCEPT !.stamina = Least(MaxStamina, @ + n)]

\* applyPropStatusEffects: whatever the enemy is immune to.
Thrown(b, f, c) ==
  IF c = "NONE" \/ b.foe[f].hp = 0 THEN {b}
  ELSE {[Lasting(b, f, c, Improvised[c]) EXCEPT !.thrown = @ \union {f}]}
         \union (IF c = "STUN" THEN {b} ELSE {})

Attack(b, f, c) ==
  IF b.foe[f].hp = 0 THEN {b}
  ELSE {b} \union UNION {Thrown([b EXCEPT !.foe[f].hp = n], f, c) : n \in 0..(b.foe[f].hp - 1)}

Closer(x) == [x EXCEPT !.dist = Most(0, @ - 1)]
Farther(x) == [x EXCEPT !.dist = Least(MaxDistance, @ + 1)]

Move(b, d) ==
  [b EXCEPT !.foe = [f \in Foes |->
     IF @[f].hp = 0 THEN @[f] ELSE IF d = "FORWARD" THEN Closer(@[f]) ELSE Farther(@[f])]]

\* Environment: every living enemy loses a share of its hit points.
Environment(b) ==
  {[b EXCEPT !.foe = [f \in Foes |-> [@[f] EXCEPT !.hp = n[f]]]] :
     n \in {m \in [Foes -> UNION {0..FoeHp[f] : f \in Foes}] :
              \A f \in Foes : m[f] <= Most(0, b.foe[f].hp - 1)}}

\* Mutation of Held: the inventory as the turn found it.
HeldBefore(b) == {i \in Items : bag[i] > 0}

Held(b) == {i \in Items : b.bag[i] > 0}

\* resolveItemFromHint: the best item with the effect the hint stands for, or
\* else the first usable one.
Wanted(b, h) == {i \in Held(b) : Effect[i] = h}
ItemFor(b, h) ==
  IF Wanted(b, h) # {}
  THEN CHOOSE i \in Wanted(b, h) :
         \A j \in Wanted(b, h) :
           Value[j] < Value[i] \/ (Value[j] = Value[i] /\ Slot[i] <= Slot[j])
  ELSE CHOOSE i \in Held(b) : \A j \in Held(b) : Slot[i] <= Slot[j]

Consumed(b, i) == [b EXCEPT !.bag[i] = @ - 1, !.removed[i] = @ + 1]

\* tryApplyStatus: a stun needs a target without immunity.
ApplyStatus(b, f, s) ==
  IF s = "STUN" /\ b.foe[f].left["STUN_IMMUNE"] > 0 THEN {b}
  ELSE {b, Lasting(b, f, s, Duration[s])}

ItemEffect(b, i) ==
  CASE Effect[i] = "HEAL_HP" -> {[b EXCEPT !.hp = Least(MaxHp, @ + Value[i])]}
    [] Effect[i] = "RESTORE_STAMINA" -> {Rested(b, Value[i])}
    [] Effect[i] = "FLEE_BONUS" -> {b}
    [] Effect[i] = "APPLY_STATUS" ->
         {b} \union UNION {ApplyStatus(b, f, s) : f \in Alive(b), s \in {"STUN", "DOT"}}

\* Nothing to use: the unit's stamina is given back, even when none was paid.
UseItem(b, h) ==
  IF Held(b) = {} THEN {Rested(b, 1)}
  ELSE LET i == ItemFor(b, h) IN ItemEffect(Consumed(b, i), i)

\* applyPlayerUnit
PlayerUnit(b, u, c) ==
  CASE u.act = "ATTACK" -> Attack(b, u.on, c)
    [] u.act = "DEFEND" -> {Rested(b, 1)}
    [] u.act = "MOVE" -> {Move(b, u.on)}
    [] u.act = "USE_ITEM" -> UseItem(b, u.on)
    [] u.act = "ENV" -> Environment(b)
    [] u.act \in {"EVADE", "FLEE", "LOOK"} -> {b}

\* The units in order; what is thrown goes with the first attack.
PlayerUnits(b, plan, c) ==
  LET Later(x) == IF plan[1].act = "ATTACK" THEN "NONE" ELSE c
      First == PlayerUnit(b, plan[1], c)
  IN IF Len(plan) = 1 THEN First
     ELSE UNION {PlayerUnit(x, plan[2], Later(x)) : x \in First}

-----------------------------------------------------------------------------
(* The enemies and the end of the turn.                                    *)

Stunned(b) == {f \in Alive(b) : b.foe[f].left["STUN"] > 0}

\* EnemyAiService.selectActions: its one unit of the turn.
Weak(b, f) == 10 * b.foe[f].hp < 3 * FoeHp[f]
Intent(b, f) ==
  LET d == b.foe[f].dist IN
  CASE Personality[f] \in {"AGGRESSIVE", "BERSERK"} -> IF d > 0 THEN "FORWARD" ELSE "ATTACK"
    [] Personality[f] = "TACTICAL" -> IF d > 1 THEN "FORWARD" ELSE "ATTACK"
    [] Personality[f] = "SNIPER" -> IF d < 2 THEN "BACK" ELSE "ATTACK"
    [] Personality[f] = "COWARDLY" ->
         IF Weak(b, f) /\ d < 3 THEN "BACK" ELSE IF d <= 1 THEN "ATTACK" ELSE "DEFEND"

\* The order of the enemies changes nothing that is modelled: a unit moves the
\* enemy itself or costs the player hit points.
EnemyPhase(b) ==
  LET acting == Alive(b) \ Stunned(b)
      does(f) == IF f \in acting THEN Intent(b, f) ELSE "NONE"
      moved == [b EXCEPT !.missed = Stunned(b),
                         !.foe = [f \in Foes |->
                           IF does(f) = "FORWARD" THEN Closer(@[f])
                           ELSE IF does(f) = "BACK" THEN Farther(@[f])
                           ELSE @[f]]]
  IN IF \E f \in Foes : does(f) = "ATTACK"
     THEN {[moved EXCEPT !.hp = n] : n \in 0..b.hp} ELSE {moved}

\* A player at no hit points stands up again with one, or is down.
Downed(b) ==
  IF b.hp > 0 THEN {b} ELSE {[b EXCEPT !.hp = 1], [b EXCEPT !.outcome = "DEFEAT"]}

\* Mutation of TickLeft: the immunity lasts one turn less.
TickShort(left) ==
  [s \in Statuses |->
     IF s = "STUN_IMMUNE" /\ left["STUN"] = 1 THEN 1 ELSE Most(0, left[s] - 1)]

\* tickStatuses of one enemy: the damage of its statuses, then their last turns.
\* A stun that ends leaves the enemy immune.
TickLeft(left) ==
  [s \in Statuses |->
     IF s = "STUN_IMMUNE" /\ left["STUN"] = 1 THEN 2 ELSE Most(0, left[s] - 1)]

\* The damage over time is the same at every turn of a status: one point here.
TickFoe(x) ==
  IF x.hp = 0 THEN x
  ELSE [x EXCEPT !.hp = IF x.left["DOT"] > 0 THEN @ - 1 ELSE @, !.left = TickLeft(@)]

Tick(b) ==
  IF b.outcome \in {"ONGOING", "VICTORY"}
  THEN [b EXCEPT !.foe = [f \in Foes |-> TickFoe(@[f])]] ELSE b

\* Mutation of Decided: an enemy that bleeds still counts as standing.
DecidedEarly(b) ==
  IF b.outcome = "ONGOING" /\ \A f \in Foes : b.foe[f].hp = 0 /\ b.foe[f].left["DOT"] = 0
  THEN [b EXCEPT !.outcome = "VICTORY"] ELSE b

\* The end of the battle, looked at after the units and again after the tick
\* (which costs the player nothing: nobody applies a status to them but FORTIFY).
Decided(b) == IF b.outcome = "ONGOING" /\ Alive(b) = {} THEN [b EXCEPT !.outcome = "VICTORY"] ELSE b

\* FLEE and the avoidance of a fight, a roll each.
Fled(b, plan) ==
  IF b.outcome = "ONGOING" /\ \E i \in DOMAIN plan : plan[i].act = "FLEE"
  THEN {b, [b EXCEPT !.outcome = "FLEE_SUCCESS"]} ELSE {b}

Resisted(b) == IF b.outcome = "ONGOING" THEN UNION {Downed(x) : x \in EnemyPhase(b)} ELSE {b}

-----------------------------------------------------------------------------
\* buildPlan: one point of stamina per combat unit, none for looking about.
StaminaCost(plan) == IF plan[1].act = "LOOK" THEN 0 ELSE Len(plan)

\* The battle as a record, the stamina of the plan paid.
Battle(plan) ==
  [hp |-> hp, stamina |-> Most(0, stamina - StaminaCost(plan)), foe |-> foe, bag |-> bag,
   outcome |-> "ONGOING", removed |-> NoneUsed, missed |-> {}, thrown |-> {}]

\* resolveCombatTurn: an abstract wish costs the turn, and its units do nothing.
Resolutions(plan, c, abstract) ==
  LET struck == IF abstract THEN {Battle(plan)} ELSE PlayerUnits(Battle(plan), plan, c)
  IN {Decided(Tick(x)) :
        x \in UNION {Resisted(y) : y \in UNION {Fled(Decided(z), plan) : z \in struck}}}

\* What handleCombatTurn commits: it adds the items a victory pays to the
\* inventory of the run, and never takes out the ones the turn removed.
Inventory(b, loot) ==
  [i \in Items |-> IF b.outcome = "VICTORY" /\ i \in loot THEN Least(MaxQty, bag[i] + 1) ELSE bag[i]]

CommitTurn(b, loot) ==
  /\ hp' = b.hp /\ stamina' = b.stamina /\ foe' = b.foe
  /\ bag' = Inventory(b, loot)
  /\ last' = [outcome |-> b.outcome, removed |-> b.removed, missed |-> b.missed]
  /\ since' = [f \in Foes |-> IF f \in b.missed THEN 0 ELSE Least(2, since[f] + 1)]
  /\ tangled' = tangled \union b.thrown
  /\ scene' = CASE b.outcome = "ONGOING" -> "fight"
                [] b.outcome = "DEFEAT" -> "over"
                [] OTHER -> "away"

\* The drop table of a victory: at most one item here.
CombatTurn(plan, c, abstract) ==
  /\ scene = "fight"
  /\ \E b \in Resolutions(plan, c, abstract) :
       \E loot \in {{}} \union {{i} : i \in Loot} :
         /\ b.outcome # "VICTORY" => loot = {}
         /\ CommitTurn(b, loot)

\* A button, a sentence that names at most two actions and something to throw,
\* a sentence that asks for the impossible, and one the policy refuses.
Choose == \E plan \in Plans : CombatTurn(plan, "NONE", FALSE)
Improvise == \E plan \in Plans, c \in DOMAIN Improvised :
  (\E i \in DOMAIN plan : plan[i].act = "ATTACK") /\ CombatTurn(plan, c, FALSE)
Wish == \E plan \in Plans : CombatTurn(plan, "NONE", TRUE)
Deny ==
  /\ scene = "fight"
  /\ last' = Quiet
  /\ UNCHANGED <<scene, hp, stamina, foe, bag, since, tangled>>

\* insertCombatSubNode, initBattleState: the foes of the encounter are whole.
Enter ==
  /\ scene = "away"
  /\ scene' = "fight"
  /\ last' = Quiet /\ since' = [f \in Foes |-> 2] /\ tangled' = {}
  /\ \E E \in (SUBSET Foes) \ {{}}, at \in [Foes -> Starts] :
       foe' = [f \in Foes |-> [hp |-> IF f \in E THEN FoeHp[f] ELSE 0, dist |-> at[f], left |-> NoneLeft]]
  /\ UNCHANGED <<hp, stamina, bag>>

\* RestNodeService: a tenth or a quarter of the hit points, one or two of stamina.
Rest ==
  /\ scene = "away"
  /\ \E n \in {1, 2} : stamina' = Least(MaxStamina, stamina + n)
  /\ \E n \in hp..MaxHp : hp' = n
  /\ last' = Quiet
  /\ UNCHANGED <<scene, foe, bag, since, tangled>>

CombatNext == Choose \/ Improvise \/ Wish \/ Deny \/ Enter \/ Rest

CombatSpec == CombatInit /\ [][CombatNext]_combatVars

-----------------------------------------------------------------------------
\* The state has its types; hit points and stamina stay within their limits.
CombatTypeOK ==
  /\ scene \in {"away", "fight", "over"}
  /\ hp \in 0..MaxHp /\ stamina \in 0..MaxStamina
  /\ foe \in [Foes -> [hp : Nat, dist : 0..MaxDistance, left : [Statuses -> 0..3]]]
  /\ bag \in [Items -> 0..MaxQty]
  /\ last \in [outcome : Outcomes, removed : [Items -> 0..2], missed : SUBSET Foes]
  /\ since \in [Foes -> 0..2] /\ tangled \subseteq Foes

\* A fight goes on only while both sides stand, and ends as what it was: with no
\* enemy left, with a player who is down, or with a player who got away alive.
OutcomeFits ==
  LET standing == {f \in Foes : foe[f].hp > 0} IN
  /\ scene = "fight" => hp > 0 /\ standing # {}
  /\ last.outcome = "VICTORY" => hp > 0 /\ standing = {}
  /\ last.outcome = "FLEE_SUCCESS" => hp > 0 /\ standing # {}
  /\ scene = "over" <=> hp = 0

\* Items cannot hold an enemy down: one that nothing was thrown at misses a turn
\* only when it had at least two turns since the last one it missed.
ItemStunYields ==
  [][\A f \in last'.missed \ tangled' : since[f] = 2]_combatVars

\* A turn reports no more of an item used up than the run held before it.
UsedWereHeld ==
  [][\A i \in Items : last'.removed[i] <= bag[i]]_combatVars
=============================================================================
