# Formal models of graymar-server

TLA+ models of the server of a text role-playing game (NestJS, PostgreSQL through
Drizzle, LLM narration), translated from `src/src`. Two things are hard here. Each HTTP
request is a chain of `await`ed SQL statements with (almost) no transaction around it, a
worker in the same process rewrites the rows of the requests, and money (points) is taken
before the work is done. And a run is a long sequence of turns whose rules (fights, clock and
incidents, quest, equipment) live in a dozen services that change one `runState`. The models
are about both: interleavings of statements, and long plays.

## 1. Inventory

| Component | State it keeps | Operations | Interacts with | What is hard | What makes it correct |
|---|---|---|---|---|---|
| Point ledger (`points/`) | `users.points`, `point_transactions`, `redeem_codes`, `code_redemptions` | chargeTurn, refundTurn, redeem, grantSignupBonus, adjustPoints, createCode | called by submitTurn, the LLM worker, register, admin | concurrent transactions at READ COMMITTED, a price that changes at restart | balance = ledger, never negative; one charge and one refund per action; a refund returns what was paid; codes within quota |
| Turn submission (`turns/`) | `turns`, `run_sessions`, `node_instances` | submitTurn and its handlers (HUB, LOCATION, COMBAT, EQUIP, DAG), retryLlm | points, node transitions, campaigns, worker (`wake`) | duplicates and concurrent submissions, full overwrite of `runState`, crash between statements | contiguous turn log, no lost action, charged iff played, run always playable |
| Node transitions (`engine/nodes`) | `node_instances`, `currentNodeIndex` | transitionToLocation, transitionToHub, insertCombatSubNode, returnFromCombat, DAG transitions | called by the handlers | eight statements, no transaction | exactly one scene is active |
| Run lifecycle (`runs/`) | `run_sessions` | createRun, abortRun, generatePlotSeedAsync, reads | writes the rows the handlers write | background generator, check-then-write | plot seed frozen, aborted runs not merged |
| Campaign (`campaigns/`) | campaign rows, `player_profiles` | createCampaign, choice of a scenario, saveScenarioResult | called by createRun and at the end of a run | carried state read, merged, written back whole; guards that are reads | no way back into a completed scenario, an ended run is merged once, one hero |
| LLM worker (`llm/llm-worker`) | `turns.llm_*`, run-state patches | poll, processTurn, recovery, wake | takes turns from submissions, refunds, patches `runState` | overlapping polls, locks that go stale, restarts, retries | one LLM call at a time per turn, every turn ends DONE or FAILED, FAILED is refunded |
| LLM caller (`llm/llm-caller`) | none | call, callStream | worker, parsers | retry, fallback, broken streams | the text is delivered once |
| DAG turns (`turns/dag-turn`) | as turn submission | handleDagNodeTurn, transitions along a planned graph | points, nodes | as turn submission | the run follows the graph to its end |
| Party (`party/`) | parties, members, participants, votes, party turn actions, timers in memory | create/join/leave/kick/disband, ready, start; vote; submit action, resolve; invite, leave dungeon; rewards | submitTurn, runs, SSE streams | read-then-write everywhere, timers lost at restart, several members acting at once | member limit, one resolution per turn and per vote, no ballot lost, no double reward |
| Combat engine (`engine/combat`, `engine/status`) | the battle state, passed in and out | resolve a turn | COMBAT handler | order of units, enemies, statuses and outcome | the outcome fits the battle, nobody is held for ever, nothing is used that was not held |
| World simulation (`engine/hub/world-*`, `heat`, `incident-*`) | clock, day, phase, incidents, heat, flags in `runState` | tick, travel, talk, applyImpact, cool down | every handler | six handlers change what is derived from each other; ticks in jumps | no time lost, consequences once, deadlines |
| Quest, arc and ending (`quest-progression`, `arc`, `ending-generator`) | stage, facts, route in `runState` | discover, advance, hint, commit to a route, end | LOCATION and HUB handlers, world | thresholds in several places, content in several forms | never stuck, the run can end, routes change as allowed |
| Rewards, inventory, shop (`engine/rewards`, `engine/hub/shop`, `runs/`) | bag, worn gear, gold, fees, stock in `runState` | buy, equip, unequip, use, rewards | EQUIP/SHOP handlers, requests that take no turn | whole `runState` written without claiming a turn | items neither lost nor doubled, gold accounted for |
| Memory (`memory-collector`, `memory-integration`, the worker) | `node_memories`, `run_memories`, patches of `runState` | collect, finalize a visit, patch, narrate | handlers and worker | two writers of the same rows, no unique key | committed turns stay, visits are told once |
| Intent parsing, prompts, content, images, admin, HTTP | text, static content, files | - | - | - | outside the protocol |

## 2. Modules

| Module | Contents |
|---|---|
| `PointAccount` | what the point system promises: accounts, charges, refunds, codes; no transactions, no table |
| `Points` | `points.service.ts`; implements `PointAccount` (`ImplementsAccount`) |
| `PointsProofs` | theorems about `Points`, with the refinement |
| `TurnLog` | what a run promises about its history |
| `TurnPipeline` | `submitTurn`, its handlers, abort, plot-seed generator, crash; implements `TurnLog` (`KeepsHistory`) |
| `TurnPipelineProofs` | theorems about `TurnPipeline`, with the refinement |
| `Narration` | what a committed turn promises its player about the narration |
| `LlmWorker` | the worker's queue; implements `Narration` (`DeliversNarration`) |
| `LlmWorkerProofs` | theorems about `LlmWorker`, with the steps of the refinement, and about `RunMemory` |
| `PartyVote` | `vote.service.ts`: proposals, ballots, expiry |
| `PartyVoteProofs` | theorems about `PartyVote` |
| `PartyTurn` | `party-turn.service.ts`: submissions, the turn's timer, absent members, resolution |
| `Party` | `party.service.ts`, `lobby.service.ts`, `run-participants.service.ts`: membership, lobby, who takes part in the run |
| `PartyProofs` | theorems about `PartyTurn` and `Party` |
| `Campaign` | `campaigns.service.ts` with createRun, the end of a run and abortRun |
| `CampaignProofs` | theorems about `Campaign` |
| `RunMemory` | who writes `runState`, `node_memories` and `run_memories`, handlers and worker together |
| `Combat` | a fight, turn by turn (`combat.service.ts`, `status.service.ts`, `enemy-ai.service.ts`, the COMBAT handler) |
| `World` | clock, incidents, heat and the handlers that drive them |
| `Story` | quest stages and facts, the arc's route, the end of a run |
| `RulesProofs` | theorems about `Story`, `Combat` and `World` |
| `Belongings` | equipment, consumables, gold, fees and shop, with the requests that take no turn |
| `BelongingsProofs` | theorems about `Belongings` |
| `MCPoints`, `MCTurnPipeline`, `MCLlmWorker`, `MCPartyVote`, `MCParty`, `MCCampaign`, `MCRunMemory`, `MCCombat`, `MCWorld`, `MCStory`, `MCBelongings` | model values and small sets for TLC |

How they compose: `TurnPipeline` has the statements of a turn, with the rules' outcome as the
choice of a plan; `Combat`, `World`, `Story` and `Belongings` are those rules, with a turn as one
step (`Combat`, `Story`) or in the order of its statements (`World`; `Belongings`, where other requests come between); `RunMemory` joins the
turns of `TurnPipeline` with the tasks of `LlmWorker` over the stores both write; `Campaign` joins
the runs of a player. Each module names what it leaves to another.

Operators whose comment begins with "Mutation of" or "Mutant" are faulty variants of the
definition that follows them (a dropped condition, a stale read). They are not part of a specification: with
one of them in the place of the original, TLC finds the property violated that guards
that line of code.

### Points

A transaction is two steps: `Begin...` are its reads (early returns are its guards),
`Commit...`/`Fail...` its writes. This grain is what READ COMMITTED gives here: the first
write locks the `users` row (or, for `redeem`, meets the unique indexes and the `redeem_codes` row),
and a concurrent writer waits for that lock, so everything from the first write to COMMIT
is one step with respect to other writers, while the reads before may be stale. `points` is
`users.points`; `ledger` the rows of `point_transactions` in commit order; `Post` is the pair
UPDATE users / INSERT row with `point_tx_ref_uq`; `config` the environment read at start.
`Restart` drops open transactions and may change prices. The `ADMIN` rows are bounded by
`MaxAdjustments`; nothing else grows without bound.

### TurnPipeline

A request is a program counter (`pc`), its locals (`key`, `paid` = didCharge, `seen` = the
run as read, `picked` = the node index computed by a transition) and `todo`, the statements
its handler has left. `Plan` lists the statements of each handler in the code's order (`Commit`, `Move`, `Return`, ... per method):
`insert`/`save` are the two of `commitTurnRecord`; `endNode`, `pickNode`, `insert...`,
`pointRun`, `enter`, `saveEnter` those of a transition; `combatTurn`, `combatEnd` and
`combatDeny` the single transaction of `commitCombatTurn`; `endRun`, `merge` those of an
ending. The rules of the game choose the plan (`Dispatch`), so all their outcomes are
covered. `effects` abstracts `runState` to the set of actions whose result it contains: a
write of the whole state read at submission is `seen.effects` plus the own action, which
makes a lost update visible. `plot` has three values because the merge expression of
`commitTurnRecord` writes the JSON `null` when there is no seed. Unique indexes are the guards
of the inserts; `Conflict` is the 23505, which leaves through the catch of `submitTurn`.

`expect` is the client's `expectedNextTurnNo`, fixed when a key is first sent: the client
repeats an action under the same key and number. Assumed: statements fail only on unique
indexes, and handlers throw only before their first statement. The errors this leaves out
are listed as hazards.

### LlmWorker

`llm`, `lock`, `own` are `llm_status`, `llm_locked_at` and `llm_lock_owner`; a poll is its
three awaits (`PollReset`, `PollCount`, `PollSelect`) and one `Claim` per selected turn,
which run in parallel. `phase` of a task: `call` up to the DONE update, `after` the rest of
`processTurnInner`, `refund` between FAILED and the refund. `Fail` from `after` is an
exception thrown after DONE, which the outer catch turns into FAILED. `Age` is the clock
passing the lock timeout; with `SlowCalls = FALSE` it does not pass while a turn's call is
running. `Key` maps an arrival turn to the charge key of the action that caused it.

### PartyVote

`row` is the table, `req` the requests: `Propose`, `InsertVote`, `Arm` are createVote,
`ReadVote`, `Tally`, `Resolve`, `Move` are castVote, resolveVote and executeMove, `Fire` and
`Expire` the expiry timer. `Tally` writes the counts and voters of the row *as it was read*
(`WithBallot`): two ballots that read the same row leave one. Both of these counts are then compared with the
majority, yes first, whatever the ballot said (`Verdict`, `vote.service.ts:172-183`): a no that read a pending
row on which yes has its majority already (its request has not come to resolveVote, or a crash came first, or the party
has one member) approves, perhaps again, and moves the party; a yes may reject in the same way. `consent` and `against` remember who
had a ballot counted, whether or not a later write dropped it; they make lost ballots visible
and no guard reads them. The number of members at the proposal is any from 1 to
`Cardinality(Users)`, since members come and go. Resolving has no condition on the
status, as in the code.

What reading and checking showed: two consents that read the same row are counted as one, so three
of four may agree and the vote still expire; a vote proposed in a party of one
has its majority at once but nothing resolves it, so it expires; the arrival is broadcast even when
the move's turn was refused (`Move` chooses `moved` freely and always sets `arrived`); after a
restart a pending vote has no timer, and while nobody settles it by ballots no other vote can be
proposed. The last is why the properties about timers say `restarts = 0`.

### PartyTurn

`proc` holds the submissions (`Reqs`) and the runs of handleTimeout (`Clocks`); either may go on
to a resolution. The `pc` names the next awaited statement:

| `pc` | code |
|---|---|
| `ensure`, `start` | submitPartyAction, ensureTurnTimer |
| `auto`, `autoInsert` | autoSubmitForAiMembers, a member at a time |
| `check`, `insert`, `tally`, `complete` | submitAction |
| `due`, `fill` | handleTimeout |
| `resolve`, `submit`, `failed`, `delete`, `committed`, `chain` | resolveTurn |

`rows` are the rows of party_turn_actions, `used[t]` the members whose actions were combined into
the committed turn `t`, `timer` and `armed` the run's entry in `timers` and whether it is still to
fire, `ai` the set aiControlled. submitTurn is modelled by what its caller sees: `Commit`, `Repeat` (the key
of the turn is there already) or `SubmitFails`; `TurnPipeline` is its detailed model. The
members are constant. Left out: the end of the run and its rewards, broadcasts, and the warning five
seconds before the timeout.

Four behaviours of the code shape the properties:

* The INSERT of an automatic action meets the unique index when the member submits at that
  moment (`FillConflict`). handleTimeout is called with `void`, and Node 22, which CI uses
  (`.github/workflows/ci.yml`), ends the process at a rejection nobody handles: `crashed`.
* clearTimer clears the timer the run has *now*; a slow handler of turn t may clear that of t+1. Hence
  `Undisturbed` in `DeadlineResolves`.
* A resolution that fails deletes the turn's actions. While another resolution of that turn is
  at work this can delete rows of a committed turn, or leave that one only part of the actions.
  Hence `failures = 0` in `EveryoneActs`.
* After such a failure the turn has no timer until somebody submits again.

Both party modules describe one process. `ecosystem.config.cjs` configures a PM2 cluster of two: there
timers, absent members and SSE connections are per process, and `ensureTurnTimer` of the other process
starts a second timer. That is not modelled.

### Party

Every request of `party.service.ts`, `lobby.service.ts` and `run-participants.service.ts` is a
process whose statements are steps (`Step`); what it read stays in its record. `members` is a
sequence because leaders are handed over by `joined_at`. `part` and `listed` are the two records of
who takes part in a run, followed for the users in `Watched`. `ToggleReady` and `AbortRun` are one
statement after their checks and so single actions.

Most checks of this component are reads, and two requests about the same party or user do break
them. `exposed` remembers for which users and parties that happened; the properties are about the others, at
every moment and next to any traffic in other parties. What overlap and order do in the code: a user in
two parties, a party with more than `maxMembers` rows or without a leader; `abortRun` leaves the
party IN_DUNGEON (`party.controller.ts:394`); a late join turns an IN_DUNGEON party FULL; `endDungeon`
reopens a party that was disbanded meanwhile; a crash between IN_DUNGEON and the run's creation leaves a dungeon without a run;
who rejoins after leaving a dungeon meets the unique index after the membership is stored.
Rewards are not modelled: `participantState.gold` is never written after the insert, so `leaveDungeon`
settles nothing; equal rolls go to the first though the comment says they are rolled again.

### Campaign

Who plays is asked for, stored and carried over as a persona of three parts, `hero` (gender, action bonuses, trait
effects), `name` (name, portrait, trait) and `preset` (`presetId`, the protagonist's theme, what NPCs think of the preset).
A request may leave the last two out; only a first run needs a preset (`Complete`). A later run (`HeroOf`) takes the hero from the
carried identity, the name too unless that has none and the request has one, but the preset from the request if it names one.
The comments at `runs.service.ts:172` (a later preset is ignored) and `:648` (the carried preset is kept)
say otherwise, while `:174`, `:382`, `:649` and `:693` use it: therefore `OneHero` claims hero and name, and not the preset.

Actions are the statements of createCampaign (`Archive`, `InsertCampaign`), createRun (`Guard`,
`ReadCarry`, `Check`, `WriteProfile`, `InsertRun`), the end of a run (`LastTurn`, `End`, `Merge...`) and
abortRun. `setting` chooses the circumstances of a behaviour once: `OneByOne` (with a crash or a failed merge),
`Mixed` (several games open, the player waits for answers), `Hasty` (requests overlap).
`profile` is the player's one row of permanent stats, which every createRun overwrites.

The conditions of the properties are what the code does not guard: overlapping createRuns pass the guard for
an open run; merges of two runs of a campaign at the same time lose a completion; two overlapping
createCampaigns leave two active ones; a game started elsewhere replaces the stats that the next
merge reads. The completed scenarios of a carried state are a set (`completedScenarios` is a list whose order decides only
which result the prologue mentions). Independently of interleavings, bonuses compound: `finalStats` is taken from stats
that contain them, `statBonuses` is added again by every later createRun (against "완주 1회당 1회",
`campaigns.service.ts:405`), and the `bonusStats` of a later request are added too (`runs.service.ts:241`; left out), so `OneHero` claims the bonus as a lower bound only. With all scenarios completed, a createRun without `scenarioId`
makes a run whose result replaces the default scenario's; `NoWayBack` exempts it. A lost fight is
merged with 0 HP, with which the next scenario begins.

### RunMemory

`hand` is the one submission at work (the client waits), `task[t]` the worker's processing of turn
t; both take their statements one by one. `run` is what of `runState` has two owners, `rows` and `memory` are the tables.
A handler writes the `runState` it read at submission; the worker patches it with compare-and-set (`Patch`,
given up after `Attempts` conflicts); structuredMemory has no comparison, node_memories no unique
key. `answers` fixes, per behaviour, what the model's answers contain, and so which writers meet.

Consequences that the properties except, each reached by the model: two rows for one visit (`Split`), writers of one column that
overlap (`overlapped`), a visit told twice after a restart. Also seen: a turn's commit overwrites marks stored while it
was handled; the second UPDATE of a transition reverts newer beats; the FIRST_VISIT milestone repeats after pruning;
`saveLocationVisitSummary` (`turns.service.ts:6118`) is never called.

### Combat

A turn is one step: `Choose` (an offered choice), `Wish` and `Improvise` (free text), `Deny`;
`Enter` sets a battle up, `Rest` restores stamina. `Battle` threads a record through the phases
of resolveCombatTurn in their order: the player's units, the enemies by speed, the fall of the player, ticks, the
outcome. A roll falls either way and a hit costs any number of hit points, so statistics and
equipment are left out. `bag` is `runState.inventory`, which only `CommitTurn` changes.

Seen: an item used up stays in `runState.inventory`, because only `itemsAdded` is merged
(`combat-turn.service.ts:516`), although `combat.service.spec.ts:599` asks for its consumption to be recorded; an
unknown `use_item_X` uses the first consumable; a refused use refunds stamina that was not paid
(`:1043`); improvised statuses skip immunity and stacking; a choice is not compared with those
offered; every fight starts its random numbers anew from the run's seed.

### World

A turn of a place is a chain of steps that nobody else sees, since one turn reads and writes the whole world: it begins (`Talk`, `Spend`),
`WorldTick` is one round of the loop of preStepTick (pressure, deadlines, a new incident), `Impact` is applyImpact, `ApplyPatch` applies
one of the impacts that the ticks collected, and `Settle` is the rest of postStepTick with the quest's hand on incidents
(`Informed`, `AllContained`) and checkEndingConditions (`Ending`). `action` is the turn in progress: the properties speak of the
world between turns. Everything else (travel, fights, cooling down) is one step. `Talk` puts time
aside that the next `Spend`, `Travel` or return pays. An action that succeeds sets the flags of its event before the ticks
(`FlagsSet` in `Begin`, `turns.service.ts:4361`), so what appears in them may need those flags already; which events there are is
content, hence the constant `EventFlags`. A fight that breaks out leaves before that (`StartCombat`). `paid`, `talks`, `applied` and `deeds`
(the flags that actions set) are history for the properties.

Seen: a deferred effect that is due is removed without being applied (`turns.service.ts:3550`);
`recentPhaseTransition` is rewritten only by turns that take time, and the prompt ignores its `atClock`; FAIL
with a control of 50 or more still enters the next stage; `contact_ally` is free and unlimited. The soft deadline
ends only a run that never had an incident.

### Story

`Progress` is processQuestProgression: a transition (`NextStage`, the first whose condition is
`Met`), or after `Stale` turns without a fact a hint, and from the `Hints`-th turn of hints the
hinted fact itself (`Told`). Where the code takes the first missing fact of a group the model takes any,
since groups are sets. `Switched`, `Committed` and `ArcAfter` are the arc; `Closed` is the last stage that
closes incidents. A run ends by `Resolved` (checkEndingConditions), or, from the moment its plot seed is there (`Freeze`, an
AUTONOMOUS pack; `seed` holds the turns of the seed's acts, 0 before), by `ActsOver` (checkAutonomousEnding), with the
meters of the pack left open. Turn numbers are only compared with thresholds, so the
counters stop at the last one: play is unbounded. `idle` and `beat` are history.

Seen: the code counts turns, not hints, so a fact may be given without a hint before
("힌트 3회 반복", `turns.service.ts:1724`); alternativeFacts are ignored in a transition that has
required facts; after two betrayals or a lock, `arc_commit` still announces the refused route and
deepens the old one (`hub-turn.service.ts:89`), and repeating a route counts as a betrayal; an
automatic transition sends no signal; the last stage's name is fixed in the code. The validator of plot
seeds lets an act without a `turnBudget`, or with one that is a string, pass (`undefined <= 0` is false,
`plot-seed-validator.ts:165`), and does not look at the acts' numbers its comment names; the acts of such a seed
may be over too soon, or never. `StoryAssumption` has the budgets positive, as the prompt asks for them and the fallback seed has them.

### Belongings

A request is a process: a turn reads the run, works on a copy, claims its number (`InsertTurn`) and writes
(`UpdateRun`); the requests of `runs.service.ts` that take no turn write `runState` unconditionally
(`Write`), as does the second UPDATE of an equipment turn (`UpdateAgain`). `ops` in `row` are the requests whose effect the stored
state has; `got`, `income` and `cost` what the player came by and spent. The bag is the number of times each
instance is in it: no code looks at its order, but for EQUIP without a target, which takes any item.

`Refused` are the instances that `equip` returns unchanged with null: without a slot, no equipment, or legendary and not a
relic (`equipment.service.ts:35-50`). The request without a turn refuses them before (`ApiRequest`). An equipment turn does not look
at the answer and takes them out of the bag all the same (`Drop`, `equip-shop-turn.service.ts:299-309`): they are neither in the bag nor worn. `lost` holds them,
and `Accounted` excepts them and says that nothing else is lost. The kit is worn by slot without asking `equip` (`Start`).

Seen: the turn that loses such an item reports it worn; a potion
at full HP is wasted; the first half of a shop's stock never changes; defeat in combat and abort settle no
pending fee.

## 3. Runs

| Run | Bounds | Shows |
|---|---|---|
| `points` | 2 users, 1 key, 1 code with one place, 2 open transactions, prices 1 and 2, one correction of -1 | `BooksAgree` and the ledger's other invariants, the refinement of `PointAccount` |
| `turns` | *Overlapping*: 2 requests in flight, 3 actions, all handlers but EQUIP, an abort, a crash. *Waiting*: one client, 4 actions, all handlers, autonomous pack with its generator | the log has no gap, no effect is lost, charges match turns, history is kept, the run stays playable, only failed turns are refunded |
| `worker` | 3 turns (one an arrival), 2 polls, 3 tasks, limit 2, 1 retry, 1 restart | `OneCall`, `RunningIsWorked`, `FailedIsRefunded` and, with fairness, `DeliversNarration` |
| `votes` | 3 users, 1 vote, 2 requests, 1 restart | `MajorityIsReal`, `TimersFit` and, with fairness, `VoteEnds` |
| `party_turns` | 2 members, 1 submission and 1 timeout at a time, 2 turns, 1 failure, 1 restart | `EveryoneActs` and, with fairness, `DeadlineResolves` |
| `party` | 3 users, 2 parties of two places, 2 requests, 1 run, one user followed into it | `MembersFit`, `RestingPartyAgrees`, `ParticipantsListed` |
| `campaign` | 2 scenarios, 2 heroes, requests with and without name and preset, 2 at a time, up to 3 runs in up to 2 campaigns, up to 1 failure | `NoWayBack`, `Carried`, `OneHero` |
| `memory` | 4 turns, 2 of them narrated at a time, 2 attempts of a patch, 1 restart, three casts of texts | `RunStateKept`, `VisitsRemembered` |
| `combat` | 2 enemies (4 hit points, coward; 1, sniper), 3 items, distances 0 to 2, 2 HP, 1 stamina | `OutcomeFits`, `ItemStunYields`, `UsedWereHeld` |
| `world` | 2 places, 3 incidents, a day of 5 ticks, talk 2:1, 6 ticks, 2 turns of talk, events with and without a flag, soft deadline on day 2 | `TimeKept`, `ConsequencesApplied`, `DeadlinesKept` |
| `story` | 4 stages, 4 facts, 2 routes, all thresholds as in the code, any number of turns | `NeverStuck`, `RouteKept`, `ActorsFinish` |
| `belongings` | 2 requests at a time, 3 in all, 3 items, one of them refused by `equip`, 2 slots, stock of 2, gold 2 | `Accounted`, `TurnsKeepTurns` |

Why the bounds are enough. *Points*: every hazard is a conflict of two transactions on one
reference, one balance or one quota; two open transactions, a second user and a price change
show all of them. *Turns*: races are between a pair of requests; a third action follows the race,
and a fourth of the waiting client goes from HUB to LOCATION to COMBAT and on. *Worker*: two
polls are the smallest overlap (timer and `wake`), three turns exceed the limit of two.
*Votes*: a majority of three needs two ballots, so two requests show both that they are counted
together and that one is lost. Votes are independent but for the rule that
one is pending at a time. *Party turns*: one submission races the timeout and both resolve; two turns show
what a handler of the first does to the second's timer. Two submissions at a time and
liveness do not fit in a run; `NobodyIsLeftOut` covers them, and more, for safety.
*Party*: the races are between two requests about a place or a leader; two parties show one user in
both; the constraint `FewExposed` stops behaviours in which most of the users have overlapped,
about which nothing is claimed. *Campaign*: two scenarios are an order, three runs a repetition or an overlap of
two merges. *Memory*: an arrival, two actions and the end of the visit with the narrations of any two in flight; every
cast of texts makes another pair of writers meet. The prunings of full budgets are not reached. *Combat*: `MaxHp`, hit points and
distances are the least at which each phase can end the fight and be survived. *World*: a rest with talk spans three ticks, in
which the first incident ends and opens the way for another, and a deadline falls inside a journey. *Story*: the quest has each
form of condition, a branch and a fact that is already known; the deepest play takes 19 steps to saturate; a seed of 17 turns outlasts the least length of a run, and may come when they are over. *Belongings*: two
writers and a reader of what they left.

In `world` the heat is counted in tens and a day has 5 ticks instead of 12: the properties relate these
numbers to each other and say nothing of their size.

Deadlock is not checked where the system really stops: keys are consumed, a run ends,
all turns are narrated, a vote is settled, the last turn is played, a bound on turns or requests is reached. It is checked for Points.

The type invariant of a module is its `TypeOK`; TLC checked those that no run lists during
development (`TypeOK` of PartyVote and PartyTurn is also proved). The run `points` checks its own, because it says that no
balance is negative.

Fairness is used in `worker`, `votes` and `party_turns`. In `worker` the interval timer and the event loop run every poll and
every task on, every provider call has a timeout and so returns, and the clock makes
locks stale (weak fairness of `PollNext`, `TaskNext`, `Age`). Commits, retries and restarts
are not fair. In the party modules a handler takes its next statement (`Continue`) and a timer fires
(`Fire`, `Clock`): the event loop runs continuations and due timers. No member, vote or
restart is fair, so a turn ends by its timer however long the members think. Liveness is
checked without symmetry. `Story` assumes no fairness: `ActorsFinish` is about a player who keeps acting
(`[]<><<Act>>_vars` is its premise), and a player who only travels need not finish.

### What reading and checking showed beside this

No run expects a violation; these behaviours were met while modelling, and the properties are stated around them.

* Turns: a copy that charged can lose the insert to one that did not (`charged: false`) and then refunds a
  played turn; the guard `didCharge` covers the other order only. `abortRun` updates unconditionally, so a run that ended and was merged meanwhile
  becomes RUN_ABORTED. A plot seed frozen between the two UPDATEs of a transition is overwritten.
* Worker: slots are counted before claims, so overlapping polls exceed the limit.
* Party turns: the action of a member who submits while handleTimeout inserts meets its INSERT; the timeout ends, and with it
  the process, and the turn is not resolved.
* LLM caller (not modelled): after a broken stream callStream yields the whole text again after the part already
  sent; callLight accepts an empty answer.

## 4. Proofs

`PointsProofs` is checked by TLAPS for any users, keys, codes, quotas, prices and
any number of open transactions, from the four assumptions on the constants in `Points`.

* `TypeCorrect`: `[]TypeOK`, in particular no balance is ever negative. `TypeOK` is not
  inductive: a refund posts the negation of a SPEND row, so `IInv` adds `SpendsAreDebits` (the
  delta of a SPEND row is at most 0), which makes a refund's amount natural.
* `CacheIsLedger`, `LedgerIsChain` (together `BooksAlwaysAgree`), `EffectsOnce`: `users.points` is the last `balanceAfter`
  of its user, the rows chain, and no reference occurs twice. Their argument is `LedgerStep`: every
  step either posts one row under a legal amount or changes neither balances nor ledger; the
  three invariants together are inductive under a posting because the new row is the
  user's last, its `balanceAfter` is the old balance plus its delta, and `Post` requires its
  reference to be new.
* `RefundsAreExact`: a refund's amount is read in one step and posted in a later one, so
  `RefundInv` adds `OpenRefunds`: what an open refund has read is still the price of a charge
  in the ledger. It stays so because rows are only appended (`LedgerGrows`).
* `QuotaIsKept`: `CodeInv` adds that the redemptions of a code are finitely many, which
  `Cardinality` needs.
* `ImplementsThePromise`: under the conjunction of these invariants
  every posting commit is one operation of `PointAccount` and every other step a stutter. The
  price in the refinement mapping is read from the ledger; `PriceStable` shows, from
  `EffectsOnce`, that later rows do not change it.

`PartyVoteProofs` holds for any users, votes and requests in flight; `VoteAssumption` says
only that the users are finitely many.

* `DecisionsAreReal`: `MajorityIsReal` says nothing of rows and requests on the way, so `BallotInv`
  adds that the counts of a row, and of every copy of a row a request has read, are *backed*
  (`Backed`): they are the sizes of the sets of its voters who were counted with a yes and with a no. A lost update
  replaces a backed row by another backed row, because consent and against only grow;
  that is why losing ballots never makes a majority.
* `PendingStaysWatched`, `SettledStaysDone` (together `TimersAlwaysFit`): `WatchInv` says what each request owes the vote it holds:
  the one before `Arm` the timer, the one after an approval the move.

`PartyProofs`, on `PartyTurn`, holds for any members, submissions, timeouts, turns, failures and restarts.

* `PartyTurnTypes`: every handler's turn is a turn of the party.
* `NobodyIsLeftOut`: `InTimeInv` says that no handler or timer is ahead of the run (at the hub none
  has the next turn): a resolution that submitTurn refuses, though nothing failed, is of a turn
  already played, and `CheckCommitted` leaves its rows alone. `ActionsInv` says that, while nothing has failed, a handler at
  `complete`, `resolve` or `submit` has the actions of all members of its turn: `Tally` counted
  them or `Filled` has inserted the missing ones, and rows only grow, because no handler gets
  to `DeleteActions`.

`PartyProofs`, on `Party`, holds for any users, parties, requests and runs; `MembershipAssumption` says that a party has room for two at least and
that the marks for nobody and for no party are neither.

* The invariant says what a party that is not exposed owes the one request at work on it: `Handled` for status, leader and rows
  at each label, `Following` for the participants and their list. At most labels (`Plain`) the party is as at rest (`Sound`,
  `Told`); between two statements that belong together (`setLeader`, `deleteRow`, `markFull`, `writeEnd`, `insertParticipants`, `unlist`) it is what the second one
  needs of the first. Without a request it is at rest, which is `RestingPartiesAgree` and `ParticipantsAreListed`.
* `MembershipsFit`: `Single` adds that a user without overlapping requests has no party at all while a request is on its way to give them one
  (`Beginning`), and `Newborn` that only the creator knows a party without a leader. `InsertMember` never sees a stale count: `insertMember` holds
  the number of rows, since nobody else is at work.
* Every statement of a request is an `Advance` (it changes one party, goes on about the same party and user, and leaves what the next label needs), and
  every `Advance` keeps the invariant (`AdvanceKeeps`); the starts of requests do (`StartKeeps`), since the leftover rows they delete are in parties that are
  exposed. The exposed are part of the statement, as in the run: about them the code promises less.

`TurnPipelineProofs` holds for any requests, keys, settings, nodes and crashes (`TurnsAssumption` says only
that keys are not the two marks used beside them).

* `TurnTypes`: `Shape` adds to `TypeOK` what a request holds at each label: a key, a charge, a node, and an *orderly* plan.
  `Orderly` is what the invariants need of the statements a handler has left (the commit comes once, `save` follows
  `insert`, a node is picked before it is inserted); every `Plan` has it and so has every rest of one.
* `LogHasNoGap`: `Logged` says where each request stands in the log: its turn is there once it has committed, the save that
  is outstanding is of one request only (`Pending`), and until then nobody else gets a number, because all who read the run
  before have the number that is taken.
* `HistoryIsKept`: `KeepsHistory`, the refinement of `TurnLog`: every insert is one operation of it and every other step a stutter.
* `ChargesHold`, `RefundsAreFair`: a charge has its turn, its refund or a request that holds it; for a player who waits
  (`Alone`: one request at work, whose key is fresh until it commits) the request that refunds has no turn.
* `ResultsAreKept`: `Kept` adds that the snapshot of a request holds the results of every turn up to the number it has
  read (`Informed`); whoever read less does not get a number. Its hypothesis `EquipWaits` (EQUIP turns of players who wait) excludes what the
  code does not guard: the second UPDATE of an EQUIP turn is not tied to a number. The settings of the run satisfy it.
* `RunStaysPlayable`: `Playable` speaks of a run at rest. `Playing` says what holds of its nodes at every statement of every
  handler (`Phase`: what is ended, what is inserted, where the run points), that every fight is over a LOCATION
  (`Grounded`), and, from `Current`, that the conflict which would leave a transition half done does not occur.

`LlmWorkerProofs`, on `LlmWorker`, holds for any turns, polls, tasks, limits, retries and restarts.

* `ClaimIsBarrier`, `NarratesSafely`: if `InTime` (no call outlives its lock and retries do not overlap, as in the run).
  `CallInv`: a call that is made has a fresh lock on a RUNNING turn, nobody else works on it,
  and a retry past its check finds the turn still FAILED. The refinement of `Narration` is proved step by step;
  that something is delivered at last is checked only.
* `SlotsAreWorked`, `FailureIsFree` need no such condition: slow calls and overlapping retries lose neither slots nor refunds.

`LlmWorkerProofs`, on `RunMemory`, holds for any texts, tasks at a time and lines, and for any numbers of turns, attempts and restarts
(`MemoryAssumption`: they are natural, and there is a turn and an attempt). Its invariant `MemoryInv` was checked on the run of `RunMemory` first. It
says what each label of the handler, and each task, has read that is still true.

* `NumberInv`, `PathInv`: turns are inserted in order and the handler is at most one turn ahead; after a restart the number it
  takes may be taken, which `Insert` finds out, but the number of an entry turn never is. `active` and the node follow the label.
* `RunStateIsKept`: the handler stores what it read at submission, so `BaseInv` says that what it read is still there but for marks
  and beats. `BeatsInv`: beats that are offered are those of a task that has ended and writes no more (`Spent`), and no turn has used them; so
  neither the merge of `Save`, nor the unmerged second UPDATE of a transition, which adopts nothing, offers them again.
* `VisitsAreRemembered`: `RowInv` (every action that was stored is in a row of its node: rows only grow, as the columns of a row have one
  writer each) makes what ReadVisit reads all the actions so far (`VisitRead`), unless the node has two rows. `VisitInv` carries that through the write
  (`VisitTold`) to the turn's commit, where it becomes `MovesTold` and `EndTold`; nobody but the handler writes storySummary. `LineInv`: a place without a
  restart has no line before its visit is told. `ToldInv`: a writer that no other meets has read what is there.

`CampaignProofs` holds for any scenarios, heroes, requests, campaigns, runs, failures and circumstances. Its invariants
are a ladder; each step of it uses those below.

* `CampaignTypes`: `Shape` adds that a request past its first label has a campaign and a persona, and a merge a campaign.
* `CarriedHolds`, the part about any requests: `Earned` says of every carried state, also of the copies that merges hold,
  that it is fair (`Fair`: a bonus per scenario, no scenario twice, each of a run of this campaign). A late merge writes back an old copy,
  which is as fair as the one it replaces; a lost completion takes its bonus with it.
* The rest is about a player who waits. `Alone`: one thing is in flight. `Working`: what it is about to write to a run can
  still be written. `OneOpen`: a campaign has one open run, and none from the guard of a request to its insert and while a run
  is merged. `Fresh`: what merges and requests have read is still what the campaign carries. With `Journeys` (two
  statements of createCampaign) these give `NoWayBackHolds`; with `Ended` and `Rewarded`, the rest of `CarriedHolds`.
* `OneHeroHolds`: `Heroic` (the runs of a journey have one hero, and the name that is carried if there is one) follows from these. That the stats are
  the hero's own needs one game at a time: `OneGame`, and `Profiled`, which follows the stats from createRun over the open run and the merge to
  what is carried and read again.

`RulesProofs`, on `Story`, holds for any quest, thresholds and length of play that `StoryAssumption` admits: transitions are numbered, lead to another stage, and
every stage but the last has one; the lock is above the commitment up to which routes change.

* `RouteIsKept` follows a route through every handler that changes the arc.
* `QuestHasNoDeadEnd`: `NeverStuck` is not inductive. `Young` adds that actions without result are at most as old as the stage and the
  last of them met a young one: an older stage gives its hinted fact, which is new and there, because a
  transition whose facts are all known would be taken. `LeastIs` (a set of naturals has a least element, from the library's theorems
  about finite sets) stands for the induction by which the first such transition is found.

`RulesProofs`, on `Combat`, holds for any foes and personalities, items, packs, distances and limits that `CombatAssumption` admits:
the numbers are natural, the items finitely many, a plan has one unit or two.

* Each phase of `Battle` has a lemma (`...Keeps`, `...Weighs`, `...Settles`), so a turn is a chain of them: from `Struck` (the player's units:
  what is in the bag and what is used up make what was held, an untangled enemy is `Spared`) through the enemies, the fall and the outcome to the state that
  `CommitTurn` stores. `ReportsWhatWasHeld` is read off the first.
* `FightsEndAsTheyWere`, `StunsYield`: `OutcomeFits` needs only the types, but a stun speaks of past turns. `Recovering` ties the
  immunity that is left to the turns since an enemy missed one, so the item that could stun again meets it.
* That the item a unit gets is one that is held (`ItemForIs`) needs a best one among finitely many (`BestItem`, from `LeastIs`).

`RulesProofs`, on `World`, holds for any places, incidents, lengths of the day, scales of the heat and bounds that `WorldAssumption` admits:
lengths and deadlines are positive, the numbers integers, and every incident has a stage and an impact for each outcome.

* `TimeIsKept`: `TimeInv` says of a turn in progress that the clock it will end at (`Until`) balances with what was charged and talked, and that day
  and phase follow the clock tick by tick; the mirrors are derived when it settles.
* `IncidentsEndOnce`: the impacts of a turn wait in a list that the ticks fill and `ApplyPatch` empties. `CityInv` says that what waits (`Waiting`)
  has ended and waits once, and that what has ended and does not wait has had its consequences, once, and its flags; what other flags there are, actions have set (`deeds`). An incident that has ended is never
  open again, so no later tick reports it.
* `DeadlinesAreKept`: `CityInv` adds that a paying turn with no ticks left has looked at every deadline; one that appears in the last tick lies ahead.

`BelongingsProofs` holds for any requests, instances, slots, goods, kit and prices. `BelongingsAssumption` says that no instance
is twice in the kit, that the goods are finitely many and the numbers natural.

* `BelongingsTypes`, `BooksBalance`: what is stored is always a copy some request has made, so `BooksInv` says of every
  copy in flight what `Accounted` says of the row (`Books`), and that its instances exist (`born`). Each operation has a lemma: it turns
  a state that adds up into one that does (`Sound`; `Drop` moves an instance that is refused to `lost`); `Beginnings` puts them together for the requests. That a new instance is new is what
  `GrantSound` needs.
* `TurnsStay`: `KeepInv` says that a copy which can still be stored has every request that was stored (`Stored`), but for the
  exposed. A turn's copy can be stored while its number is the next (`Current`); `LogInv` (the log is at most one
  ahead of the row, on behalf of one request) makes the others fail. A copy of a request without a number can always be stored: `MetInv` says
  that whatever is stored beside it is exposed.

Every invariant and action property of the runs has its theorem. Only model-checked is liveness (`DeliversNarration`,
`VoteEnds`, `DeadlineResolves`, `ActorsFinish`): the proof system has no rules for fairness and ENABLED.

## 5. Not modelled

* Intent parsing, prompt assembly, content, images: text in, text out, no protocol;
  where they influence the protocol their result is a nondeterministic choice. What memories and summaries say, and how
  they are pruned to their budgets, is text too; who writes them is `RunMemory`.
* DAG turns (`turns/dag-turn.service.ts`): they cannot be played at this commit. The graph
  (`content/<pack>/graph.json`) is not in the repository and its absence throws, and the nodes of a graph are inserted with
  the node state `{}`, which the resolver of EVENT nodes takes for a state and fails at `choicesMade`.
* The content packs themselves: the quest, the incidents, the encounters and the items of the runs are small
  ones of the same shape.
* Selection of events and NPCs and NPC emotions: scoring over content, a choice of `Story` and `World`.
* Party rewards and the synchronisation to solo runs, chat and streams; random numbers (choices);
  administration and HTTP routing.
* Two server processes: `ecosystem.config.cjs` configures a PM2 cluster, whose processes share only the database.
* Errors in the middle of a handler by something else than a unique index.

The database is external: single statements are atomic, unique indexes hold.

## 6. Plan

Modelled and proved: `Points` and `TurnPipeline` with their refinements, `LlmWorker`, `PartyVote`, `PartyTurn`, `Party`, `Campaign`, `Story`, `Combat`, `World`, `Belongings`, `RunMemory`.
To come: LlmCaller (retry, fallback, stream) and the distribution of party rewards.

Runs are kept few: a new question joins the run of its module.
