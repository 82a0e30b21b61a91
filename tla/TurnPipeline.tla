---------------------------- MODULE TurnPipeline ----------------------------
(***************************************************************************)
(* turns.service.ts submitTurn and its handlers, on one run. There is no   *)
(* transaction around a submission (only commitCombatTurn is one): every   *)
(* await is a statement of its own on the database, and other requests,    *)
(* abortRun, the plot-seed generator and a crash get in between. A handler *)
(* is the sequence of the statements it executes (Plan); the engine's      *)
(* verdict on an action (rules, dice, an LLM parser) is the choice of one  *)
(* of the plans its node type has.                                         *)
(*                                                                         *)
(* The player of the model sends each action under an idempotency key and  *)
(* may send it again at any time, also while the first copy is in flight.  *)
(***************************************************************************)
EXTENDS Integers, Sequences, FiniteSets

CONSTANTS
  Requests,         \* submitTurn calls that may be in flight together
  Keys,             \* idempotency keys, one per action of the player
  Settings          \* the circumstances to consider, records of
                    \*   handlers    the plans the engine may choose
                    \*   actions     bound on the actions the player sends
                    \*   serial      the player waits for an answer before the next submission
                    \*   autonomous  a plot seed is generated in the background
                    \*   abort       abortRun may be called
                    \*   crashes     bound on the number of process crashes

None == "none"

\* Keys are the client's; "none" and the server's suffix for arrivals are not.
ASSUME TurnsAssumption ==
  /\ Keys \intersect {None, "enter"} = {}
  /\ \A s \in Settings :
       /\ {s.serial, s.autonomous, s.abort} \subseteq BOOLEAN
       /\ {s.actions, s.crashes} \subseteq Nat

VARIABLES
  setting,          \* one of Settings; it never changes
  \* run_sessions: status, currentTurnNo, currentNodeIndex, runState
  status, cur, node,
  effects,          \* runState: the actions whose result it holds
  plot,             \* runState.plotSeed: absent, the JSON null, or set
  nodes,            \* node_instances: position i has nodeIndex i - 1
  turns,            \* turns: [key, by] per turnNo; turn 0 is createRun's
  spent, refunded,  \* point_transactions SPEND and REFUND, by key
  merged,           \* the run's result is in the campaign
  generator,        \* generatePlotSeedAsync
  aborter,          \* abortRun
  crashes,
  expect,           \* expectedNextTurnNo in the body of each key, 0 before it is sent
  \* one submitTurn call per request
  pc, key, paid, todo,
  seen,             \* the run as read at submission
  picked            \* the node index a transition works on

runVars == <<status, cur, node, effects, plot>>
purse == <<spent, refunded>>
around == <<merged, generator, aborter, crashes, expect>>
reqVars == <<pc, key, paid, todo, seen, picked>>
vars == <<setting, runVars, nodes, turns, purse, around, reqVars>>

\* The statements of each way a handler can go, in the code's order.

\* commitTurnRecord
Commit == <<"insert", "save">>

\* handleEquipAction: the run state is written once more
Equip == <<"insert", "save", "rewrite">>

\* performLocationTransition; go_* of the HUB. The second half of a transition
\* is the entry turn and the run that points to it.
Move == <<"endNode", "insert", "save", "pickNode", "insertLocation",
          "pointRun", "enter", "saveEnter">>

\* returnToHubFlow
Return == <<"endNode", "insert", "save", "pickNode", "insertHub",
            "pointRun", "enter", "saveEnter">>

\* applyCombatTransition: the LOCATION stays active under the fight
Fight == <<"insert", "save", "pickNode", "insertCombat", "pointRun", "insertBattle",
           "enter", "saveEnter">>

\* finalizeRunEnding
Ending == <<"insert", "save", "endRun", "merge">>

\* handleDefeatByHpZero
Defeat == <<"endRun", "merge", "insert", "save">>

\* handleCombatTurn: after a victory or a flight, and after a lost fight
Victory == <<"combatEnd", "activateParent", "pointRun", "enter", "saveEnter">>
LostFight == <<"combatEnd", "endRun", "merge">>

Plan == [plain |-> Commit, equip |-> Equip, toLocation |-> Move, toHub |-> Return,
         fight |-> Fight, end |-> Ending, defeat |-> Defeat,
         deny |-> <<"combatDeny">>, round |-> <<"combatTurn">>,
         win |-> Victory, lose |-> LostFight]

CombatStatements == {"combatDeny", "combatTurn", "combatEnd"}
Inserts == {"insertHub", "insertLocation", "insertCombat"}
Statements ==
  CombatStatements \union Inserts \union
  {"insert", "save", "rewrite", "endNode", "pickNode", "insertBattle", "pointRun",
   "enter", "saveEnter", "activateParent", "endRun", "merge"}

\* What handleHubTurn, handleLocationTurnInner and handleCombatTurn can come to.
HubPlans == {"plain", "toLocation"}
LocationPlans == {"plain", "equip", "toLocation", "toHub", "fight", "end", "defeat"}
CombatPlans == {"deny", "round", "win", "lose"}

PlansOf(type) ==
  setting.handlers \intersect
    CASE type = "HUB" -> HubPlans
      [] type = "LOCATION" -> LocationPlans
      [] type = "COMBAT" -> CombatPlans

Nothing == [cur |-> 0, node |-> 0, effects |-> {}, plot |-> "absent"]

Init ==
  /\ setting \in Settings
  /\ status = "ACTIVE" /\ cur = 0 /\ node = 1 /\ effects = {} /\ plot = "absent"
  /\ nodes = <<[type |-> "HUB", status |-> "ACTIVE", parent |-> 0, battle |-> FALSE]>>
  /\ turns = [n \in {0} |-> [key |-> None, by |-> None]]
  /\ spent = {} /\ refunded = {}
  /\ merged = FALSE
  /\ generator = IF setting.autonomous THEN "running" ELSE None
  /\ aborter = "idle"
  /\ crashes = 0
  /\ expect = [k \in Keys |-> 0]
  /\ pc = [r \in Requests |-> "idle"]
  /\ key = [r \in Requests |-> None]
  /\ paid = [r \in Requests |-> FALSE]
  /\ todo = [r \in Requests |-> <<>>]
  /\ seen = [r \in Requests |-> Nothing]
  /\ picked = [r \in Requests |-> 0]

-----------------------------------------------------------------------------

HasTurn(k) == \E n \in DOMAIN turns : turns[n].key = k

\* turns_run_turn_no_idx, turns_run_idempotency_idx
Unique(n, k) == n \notin DOMAIN turns /\ ~HasTurn(k)

WithTurn(n, k, by) ==
  [m \in DOMAIN turns \union {n} |->
     IF m = n THEN [key |-> k, by |-> by] ELSE turns[m]]

TurnNo(r) == seen[r].cur + 1

\* The answer is sent: the request's locals are gone.
Leave(r) ==
  /\ pc' = [pc EXCEPT ![r] = "idle"]
  /\ key' = [key EXCEPT ![r] = None]
  /\ paid' = [paid EXCEPT ![r] = FALSE]
  /\ todo' = [todo EXCEPT ![r] = <<>>]
  /\ seen' = [seen EXCEPT ![r] = Nothing]
  /\ picked' = [picked EXCEPT ![r] = 0]

Goto(r, label) ==
  /\ pc' = [pc EXCEPT ![r] = label]
  /\ UNCHANGED <<key, todo>>

\* Mutation of Throw: submitTurn has no catch.
ThrowUnrefunded(r) == Leave(r)

\* The catch of submitTurn: a request that charged refunds before it fails.
Throw(r) ==
  IF paid[r]
    THEN Goto(r, "refund") /\ UNCHANGED <<paid, seen, picked>>
    ELSE Leave(r)

At(r, statement) ==
  /\ pc[r] = "work"
  /\ Head(todo[r]) = statement

\* On to the next statement of the handler, or back with the answer.
Proceed(r) ==
  IF Len(todo[r]) = 1
    THEN Leave(r)
    ELSE /\ todo' = [todo EXCEPT ![r] = Tail(@)]
         /\ UNCHANGED <<pc, key, paid, seen, picked>>

-----------------------------------------------------------------------------
(* submitTurn up to the dispatch.                                          *)

\* The idempotency lookup comes first: a key with a turn is answered from it.
Submit(r, k) ==
  /\ pc[r] = "idle"
  /\ setting.serial => \A s \in Requests : pc[s] = "idle"
  /\ ~HasTurn(k)
  /\ Cardinality({q \in Keys : expect[q] # 0} \union {k}) <= setting.actions
  /\ expect' = IF expect[k] = 0 THEN [expect EXCEPT ![k] = cur + 1] ELSE expect
  /\ pc' = [pc EXCEPT ![r] = "readRun"]
  /\ key' = [key EXCEPT ![r] = k]
  /\ UNCHANGED <<runVars, nodes, turns, purse, merged, generator, aborter, crashes,
                 paid, todo, seen, picked>>

ReadRun(r) ==
  /\ pc[r] = "readRun"
  /\ IF status = "ACTIVE" /\ expect[key[r]] = cur + 1
       THEN /\ Goto(r, "readNode")
            /\ seen' = [seen EXCEPT ![r] =
                          [cur |-> cur, node |-> node, effects |-> effects, plot |-> plot]]
            /\ UNCHANGED <<paid, picked>>
       ELSE Leave(r)
  /\ UNCHANGED <<runVars, nodes, turns, purse, around>>

ReadNode(r) ==
  /\ pc[r] = "readNode"
  /\ IF nodes[seen[r].node].status = "ACTIVE"
       THEN Goto(r, "charge") /\ UNCHANGED <<paid, seen, picked>>
       ELSE Leave(r)
  /\ UNCHANGED <<runVars, nodes, turns, purse, around>>

\* chargeTurn; its own transaction, see Points.
Charge(r) ==
  /\ pc[r] = "charge"
  /\ paid' = [paid EXCEPT ![r] = key[r] \notin spent]
  /\ spent' = spent \union {key[r]}
  /\ Goto(r, "dispatch")
  /\ UNCHANGED <<runVars, nodes, turns, refunded, around, seen, picked>>

\* InsufficientPointsError is thrown outside the try.
ChargeRefused(r) ==
  /\ pc[r] = "charge"
  /\ key[r] \notin spent
  /\ Leave(r)
  /\ UNCHANGED <<runVars, nodes, turns, purse, around>>

\* A COMBAT node needs its battle state; the other handlers may refuse the input.
Dispatch(r) ==
  /\ pc[r] = "dispatch"
  /\ LET here == nodes[seen[r].node]
     IN  \/ Throw(r)
         \/ /\ here.type = "COMBAT" => here.battle
            /\ \E p \in PlansOf(here.type) : todo' = [todo EXCEPT ![r] = Plan[p]]
            /\ pc' = [pc EXCEPT ![r] = "work"]
            /\ UNCHANGED <<key, paid, seen, picked>>
  /\ UNCHANGED <<runVars, nodes, turns, purse, around>>

Refund(r) ==
  /\ pc[r] = "refund"
  /\ refunded' = refunded \union {key[r]}
  /\ Leave(r)
  /\ UNCHANGED <<runVars, nodes, turns, spent, around>>

-----------------------------------------------------------------------------
(* The statements of the handlers.                                         *)

InsertTurn(r) ==
  /\ At(r, "insert")
  /\ Unique(TurnNo(r), key[r])
  /\ turns' = WithTurn(TurnNo(r), key[r], key[r])
  /\ Proceed(r)
  /\ UNCHANGED <<runVars, nodes, purse, around>>

\* COALESCE(the plot seed in the database, the one of the snapshot, JSON null)
MergedPlot(r) ==
  IF plot # "absent" THEN plot
    ELSE IF seen[r].plot # "absent" THEN seen[r].plot ELSE "null"

\* The whole runState of the snapshot is written; only in an AUTONOMOUS run
\* does commitTurnRecord merge the plot seed.
SaveRun(r) ==
  /\ At(r, "save")
  /\ cur' = TurnNo(r)
  /\ effects' = seen[r].effects \union {key[r]}
  /\ plot' = IF setting.autonomous THEN MergedPlot(r) ELSE seen[r].plot
  /\ Proceed(r)
  /\ UNCHANGED <<status, node, nodes, turns, purse, around>>

Rewrite(r) ==
  /\ At(r, "rewrite")
  /\ effects' = seen[r].effects \union {key[r]}
  /\ plot' = seen[r].plot
  /\ Proceed(r)
  /\ UNCHANGED <<status, cur, node, nodes, turns, purse, around>>

SetNodeStatus(i, s) == nodes' = [nodes EXCEPT ![i] = [type |-> @.type, status |-> s,
                                                      parent |-> @.parent, battle |-> @.battle]]

\* Mutation of EndNode: the node that is left stays active.
EndNodeSkipped(r) ==
  /\ At(r, "endNode")
  /\ Proceed(r)
  /\ UNCHANGED <<runVars, nodes, turns, purse, around>>

EndNode(r) ==
  /\ At(r, "endNode")
  /\ SetNodeStatus(seen[r].node, "ENDED")
  /\ Proceed(r)
  /\ UNCHANGED <<runVars, turns, purse, around>>

\* getNextNodeIndex
PickNode(r) ==
  /\ At(r, "pickNode")
  /\ picked' = [picked EXCEPT ![r] = Len(nodes) + 1]
  /\ todo' = [todo EXCEPT ![r] = Tail(@)]
  /\ UNCHANGED <<runVars, nodes, turns, purse, around, pc, key, paid, seen>>

InsertNode(r) ==
  \E type \in {"HUB", "LOCATION", "COMBAT"} :
    /\ At(r, CASE type = "HUB" -> "insertHub"
               [] type = "LOCATION" -> "insertLocation"
               [] type = "COMBAT" -> "insertCombat")
    /\ picked[r] = Len(nodes) + 1
    /\ nodes' = Append(nodes, [type |-> type, status |-> "ACTIVE", battle |-> FALSE,
                               parent |-> IF type = "COMBAT" THEN seen[r].node ELSE 0])
    /\ Proceed(r)
    /\ UNCHANGED <<runVars, turns, purse, around>>

InsertBattle(r) ==
  /\ At(r, "insertBattle")
  /\ nodes' = [nodes EXCEPT ![picked[r]] = [type |-> @.type, status |-> @.status,
                                            parent |-> @.parent, battle |-> TRUE]]
  /\ Proceed(r)
  /\ UNCHANGED <<runVars, turns, purse, around>>

PointRun(r) ==
  /\ At(r, "pointRun")
  /\ node' = picked[r]
  /\ Proceed(r)
  /\ UNCHANGED <<status, cur, effects, plot, nodes, turns, purse, around>>

\* Mutation of EnterTurn: the number after the next is used.
EnterTurnSkipping(r) ==
  /\ At(r, "enter")
  /\ TurnNo(r) + 1 \notin DOMAIN turns
  /\ turns' = WithTurn(TurnNo(r) + 2, "enter", key[r])
  /\ Proceed(r)
  /\ UNCHANGED <<runVars, nodes, purse, around>>

\* Mutation of EnterTurn: ON CONFLICT DO UPDATE.
EnterTurnOverwriting(r) ==
  /\ At(r, "enter")
  /\ turns' = WithTurn(TurnNo(r) + 1, "enter", key[r])
  /\ Proceed(r)
  /\ UNCHANGED <<runVars, nodes, purse, around>>

\* The arrival turn has a derived key of its own and the action's charge key.
EnterTurn(r) ==
  /\ At(r, "enter")
  /\ TurnNo(r) + 1 \notin DOMAIN turns
  /\ turns' = WithTurn(TurnNo(r) + 1, "enter", key[r])
  /\ Proceed(r)
  /\ UNCHANGED <<runVars, nodes, purse, around>>

\* Mutation of SaveEnter: the state read at submission, without the action.
SaveEnterStale(r) ==
  /\ At(r, "saveEnter")
  /\ cur' = TurnNo(r) + 1
  /\ effects' = seen[r].effects
  /\ plot' = seen[r].plot
  /\ Proceed(r)
  /\ UNCHANGED <<status, node, nodes, turns, purse, around>>

\* Mutation of SaveEnter: currentTurnNo stays at the action's turn.
SaveEnterBehind(r) ==
  /\ At(r, "saveEnter")
  /\ cur' = TurnNo(r)
  /\ effects' = seen[r].effects \union {key[r]}
  /\ plot' = seen[r].plot
  /\ Proceed(r)
  /\ UNCHANGED <<status, node, nodes, turns, purse, around>>

\* The second UPDATE of a transition writes the whole runState, unmerged.
SaveEnter(r) ==
  /\ At(r, "saveEnter")
  /\ cur' = TurnNo(r) + 1
  /\ effects' = seen[r].effects \union {key[r]}
  /\ plot' = seen[r].plot
  /\ Proceed(r)
  /\ UNCHANGED <<status, node, nodes, turns, purse, around>>

\* commitCombatTurn: one transaction. A refused input (DENY) is a turn that has
\* no result to keep and does not write the run state.
CombatTurn(r) ==
  /\ \E s \in CombatStatements : At(r, s)
  /\ Unique(TurnNo(r), key[r])
  /\ turns' = WithTurn(TurnNo(r), key[r], key[r])
  /\ cur' = TurnNo(r)
  /\ IF At(r, "combatDeny")
       THEN effects' = effects \union {key[r]} /\ UNCHANGED plot
       ELSE effects' = seen[r].effects \union {key[r]} /\ plot' = seen[r].plot
  /\ IF At(r, "combatEnd") THEN SetNodeStatus(seen[r].node, "ENDED") ELSE UNCHANGED nodes
  /\ Proceed(r)
  /\ UNCHANGED <<status, node, purse, around>>

\* returnFromCombat
ActivateParent(r) ==
  /\ At(r, "activateParent")
  /\ SetNodeStatus(nodes[seen[r].node].parent, "ACTIVE")
  /\ picked' = [picked EXCEPT ![r] = nodes[seen[r].node].parent]
  /\ todo' = [todo EXCEPT ![r] = Tail(@)]
  /\ UNCHANGED <<runVars, turns, purse, around, pc, key, paid, seen>>

EndRun(r) ==
  /\ At(r, "endRun")
  /\ status' = "ENDED"
  /\ Proceed(r)
  /\ UNCHANGED <<cur, node, effects, plot, nodes, turns, purse, around>>

\* Mutation of Merge: its error leaves the handler.
MergeThrows(r) ==
  /\ At(r, "merge")
  /\ Throw(r)
  /\ UNCHANGED <<runVars, nodes, turns, purse, around>>

\* saveCampaignResultIfNeeded: only a run it reads as RUN_ENDED is merged.
Merge(r) ==
  /\ At(r, "merge")
  /\ merged' = (merged \/ status = "ENDED")
  /\ Proceed(r)
  /\ UNCHANGED <<runVars, nodes, turns, purse, generator, aborter, crashes, expect>>

\* 23505 from a unique index of turns or node_instances.
Conflict(r) ==
  /\ \/ /\ \E s \in CombatStatements \union {"insert"} : At(r, s)
        /\ ~Unique(TurnNo(r), key[r])
     \/ At(r, "enter") /\ TurnNo(r) + 1 \in DOMAIN turns
     \/ /\ \E s \in Inserts : At(r, s)
        /\ picked[r] <= Len(nodes)
  /\ Throw(r)
  /\ UNCHANGED <<runVars, nodes, turns, purse, around>>

-----------------------------------------------------------------------------
(* What else happens to the run.                                           *)

AbortRead ==
  /\ setting.abort
  /\ aborter = "idle"
  /\ status = "ACTIVE"
  /\ aborter' = "decided"
  /\ UNCHANGED <<runVars, nodes, turns, purse, merged, generator, crashes, expect, reqVars>>

AbortWrite ==
  /\ aborter = "decided"
  /\ aborter' = "done"
  /\ status' = "ABORTED"
  /\ UNCHANGED <<cur, node, effects, plot, nodes, turns, purse, merged, generator, crashes,
                 expect, reqVars>>

\* generatePlotSeedAsync sets only plotSeed (jsonb_set).
FreezePlot ==
  /\ generator = "running"
  /\ generator' = "done"
  /\ plot' = "set"
  /\ UNCHANGED <<status, cur, node, effects, nodes, turns, purse, merged, aborter, crashes,
                 expect, reqVars>>

Crash ==
  /\ crashes < setting.crashes
  /\ crashes' = crashes + 1
  /\ pc' = [r \in Requests |-> "idle"]
  /\ key' = [r \in Requests |-> None]
  /\ paid' = [r \in Requests |-> FALSE]
  /\ todo' = [r \in Requests |-> <<>>]
  /\ seen' = [r \in Requests |-> Nothing]
  /\ picked' = [r \in Requests |-> 0]
  /\ generator' = IF generator = "running" THEN "lost" ELSE generator
  /\ aborter' = IF aborter = "decided" THEN "idle" ELSE aborter
  /\ UNCHANGED <<runVars, nodes, turns, purse, merged, expect>>

Next ==
  /\ UNCHANGED setting
  /\ \/ \E r \in Requests :
          \/ \E k \in Keys : Submit(r, k)
          \/ ReadRun(r) \/ ReadNode(r) \/ Charge(r) \/ ChargeRefused(r) \/ Dispatch(r)
          \/ Refund(r)
          \/ InsertTurn(r) \/ SaveRun(r) \/ Rewrite(r) \/ EnterTurn(r) \/ SaveEnter(r)
          \/ EndNode(r) \/ PickNode(r) \/ InsertNode(r) \/ PointRun(r) \/ InsertBattle(r)
          \/ CombatTurn(r) \/ ActivateParent(r)
          \/ EndRun(r) \/ Merge(r) \/ Conflict(r)
     \/ AbortRead \/ AbortWrite \/ FreezePlot \/ Crash

Spec == Init /\ [][Next]_vars

-----------------------------------------------------------------------------

\* Types.
TypeOK ==
  /\ setting \in Settings
  /\ status \in {"ACTIVE", "ENDED", "ABORTED"}
  /\ cur \in Nat
  /\ node \in 1..Len(nodes)
  /\ effects \subseteq Keys
  /\ plot \in {"absent", "null", "set"}
  /\ nodes \in Seq([type : {"HUB", "LOCATION", "COMBAT"}, status : {"ACTIVE", "ENDED"},
                    parent : Nat, battle : BOOLEAN])
  /\ DOMAIN turns \subseteq Nat
  /\ \A n \in DOMAIN turns :
       turns[n] \in [key : Keys \union {None, "enter"}, by : Keys \union {None}]
  /\ spent \subseteq Keys /\ refunded \subseteq spent
  /\ merged \in BOOLEAN
  /\ generator \in {None, "running", "done", "lost"}
  /\ aborter \in {"idle", "decided", "done"}
  /\ crashes \in Nat
  /\ expect \in [Keys -> Nat]
  /\ pc \in [Requests -> {"idle", "readRun", "readNode", "charge", "dispatch", "work", "refund"}]
  /\ key \in [Requests -> Keys \union {None}]
  /\ paid \in [Requests -> BOOLEAN]
  /\ todo \in [Requests -> Seq(Statements)]
  /\ seen \in [Requests -> [cur : Nat, node : Nat, effects : SUBSET Keys,
                         plot : {"absent", "null", "set"}]]
  /\ picked \in [Requests -> Nat]

(* The turn log has no gap and the run is at its end or one turn behind:   *)
(* every number up to currentTurnNo was used by exactly one turn, however  *)
(* many submissions raced for it (README "(run_id, turn_no) unique").      *)
TurnLogContiguous ==
  \E last \in {cur, cur + 1} : DOMAIN turns = 0..last

(* The run state holds the result of every committed action, although each *)
(* handler writes back the whole state it read at submission. EQUIP writes *)
(* it a second time after its turn is visible and is the exception.        *)
EffectsKept ==
  \A n \in DOMAIN turns :
    (n <= cur /\ turns[n].by # None) => turns[n].by \in effects

(* An action that was charged and not refunded has its turn, or a request  *)
(* that will commit or refund it is still at work; only a crash leaves a   *)
(* charge without a turn (submitTurn "거부된 액션 과금 방지"). No turn        *)
(* without a charge: whatever races, the key of a committed action has its *)
(* SPEND row (chargeTurn before the dispatch).                             *)
ChargesMatchTurns ==
  /\ crashes = 0 =>
       \A k \in spent \ refunded :
         HasTurn(k) \/ \E r \in Requests : key[r] = k /\ paid[r]
  /\ \A n \in DOMAIN turns : turns[n].by # None => turns[n].by \in spent

Quiet == \A r \in Requests : pc[r] = "idle"

(* When nobody is at work on an active run it can be played on, if its     *)
(* player waited for the answers and nothing crashed: its                  *)
(* current node is active, has its battle state if it is a fight, and the  *)
(* next turn number is free. A fight is fought over its place: the parent  *)
(* of the current COMBAT node is a LOCATION to return to, and nothing else *)
(* of the run is active.                                                   *)
Playable ==
  (setting.serial /\ crashes = 0 /\ Quiet /\ status = "ACTIVE") =>
    /\ nodes[node].status = "ACTIVE"
    /\ nodes[node].type = "COMBAT" => nodes[node].battle
    /\ cur + 1 \notin DOMAIN turns
    /\ \A i \in 1..Len(nodes) :
         nodes[i].status = "ACTIVE" =>
           \/ i = node
           \/ nodes[node].type = "COMBAT" /\ i = nodes[node].parent /\ nodes[i].type = "LOCATION"

(* For a player who waits for the answers, a request about to refund its   *)
(* action has no turn under its key: failed actions are free, played ones  *)
(* are not, however late in a handler the failure comes. The comment in    *)
(* submitTurn on didCharge claims it also for concurrent duplicates        *)
(* ("동시 중복 제출의 loser는 형제의 차감을 환불하면 안 되므로"), which the    *)
(* model contradicts: see the README.                                      *)
RefundOnlyFailed ==
  setting.serial => \A r \in Requests : pc[r] = "refund" => ~HasTurn(key[r])

-----------------------------------------------------------------------------

\* The turns after createRun's, in their order.
HistoryLog == [n \in 1..(Cardinality(DOMAIN turns) - 1) |-> turns[n]]

History == INSTANCE TurnLog WITH log <- HistoryLog

(* Whatever races, fails or crashes, the log of the run grows the way       *)
(* TurnLog promises: a key at most once, an arrival right after its action. *)
KeepsHistory == History!Spec
=============================================================================
