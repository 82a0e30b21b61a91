----------------------------- MODULE Belongings -----------------------------
(***************************************************************************)
(* What the player of a run owns: equipment in the bag and on the body,    *)
(* consumables, gold, the fee a client still owes and the stock of a shop. *)
(* Turns change them (equip-shop-turn.service.ts, the rewards and fees of  *)
(* turns.service.ts, shop, equipment, rewards and legendary-reward         *)
(* services), and so do the requests of runs.service.ts that take no turn. *)
(* Every request reads runState, works on its copy and writes the whole of *)
(* it back without a transaction, so a request is a process here.          *)
(*                                                                         *)
(* The bag is the number of times each instance is in it. Its order is     *)
(* left out: only EQUIP without a target looks at it, and takes any here.  *)
(***************************************************************************)
EXTENDS Naturals, Sequences, FiniteSetsExt, Functions

CONSTANTS
  Requests,
  Items,            \* instances of equipment that may come into being
  Slots, SlotOf,    \* the slot an instance has, None for one without
  Refused,          \* instances that equip refuses to put on
  None,
  Goods, Gear,      \* what the shop may stock; the goods that are equipment
  Price, StockSize, RefreshInterval, MaxQty,
  Kit, Potions0, Gold0,  \* what the preset gives the player
  Fee,              \* gold a step of the quest earns
  Legends,          \* number of legendary items of the pack
  MaxOps            \* bound: the requests of a behaviour

ASSUME BelongingsAssumption ==
  /\ Gear \subseteq Goods
  /\ SlotOf \in [Items -> Slots \union {None}] /\ None \notin Items \union Slots
  /\ Refused \subseteq Items /\ \A i \in Items : SlotOf[i] = None => i \in Refused
  /\ Kit \in Seq(Items) /\ IsInjective(Kit) /\ Gold0 \in Nat /\ Potions0 \in Nat /\ Fee \in Nat /\ Legends \in Nat
  /\ Price \in [Goods -> Nat] /\ IsFiniteSet(Goods)
  /\ {StockSize, RefreshInterval, MaxQty, MaxOps} \subseteq Nat

VARIABLES
  row,          \* run_sessions.run_state
  turn,         \* run_sessions.current_turn_no
  played,       \* turn numbers of the rows in turns
  status,       \* run_sessions.status
  fighting,     \* the current node is a COMBAT node
  req,          \* the requests in flight
  born,         \* the instances created so far: an id is not used again
  count,        \* history: requests begun
  done,         \* history: requests answered
  exposed       \* history: requests in flight together when one of them was
                \* of a kind that writes runState without claiming a turn
vars == <<row, turn, played, status, fighting, req, born, count, done, exposed>>

\* The items of the kit for a slot, by their places in it.
KitFor(slot) == {k \in DOMAIN Kit : SlotOf[Kit[k]] = slot}

\* createRun: the first item of the kit for a slot is worn, also one that equip
\* would refuse, the rest is in the bag. The last five fields are history: what
\* this state has seen.
Start ==
  LET First(slot) == CHOOSE k \in KitFor(slot) : \A j \in KitFor(slot) : k <= j
      worn == [slot \in Slots |-> IF KitFor(slot) = {} THEN None ELSE Kit[First(slot)]]
  IN  [bag |-> [i \in Items |-> IF i \in Range(Kit) \ Range(worn) THEN 1 ELSE 0],
       worn |-> worn, potions |-> Potions0,
       gold |-> Gold0, due |-> 0, dueGear |-> 0, stock |-> <<>>, refreshed |-> 0,
       contained |-> 0, legends |-> 0,
       got |-> Range(Kit), lost |-> {}, income |-> 0, cost |-> 0, ops |-> {}]

\* No request.
Idle == [pc |-> "idle", id |-> 0, no |-> 0, kind |-> "api", next |-> Start]

Least(m, n) == IF m < n THEN m ELSE n

-----------------------------------------------------------------------------
\* Equipment

\* addToBag, and the removal from the bag.
With(bag, new) == [i \in Items |-> IF i \in new THEN bag[i] + 1 ELSE bag[i]]

Without(bag, i) == [bag EXCEPT ![i] = 0]

\* n new instances go to the bag.
Grant(s, n) ==
  {[s EXCEPT !.bag = With(@, new), !.got = @ \union new] : new \in kSubset(n, Items \ born)}

\* Mutation of Equip: what was worn in the slot is not put back.
EquipForgets(s, i) ==
  [s EXCEPT !.worn[SlotOf[i]] = i, !.bag = Without(@, i)]

\* equip: the instance replaces what its slot holds, which goes to the bag.
\* It is not asked for what is refused: no slot, no equipment, or legendary and
\* not a relic.
Equip(s, i) ==
  [s EXCEPT !.worn[SlotOf[i]] = i, !.bag = With(Without(@, i), {s.worn[SlotOf[i]]} \ {None})]

\* handleEquipAction does not look at whether equip refused: the instance is
\* taken out of the bag, is not worn, and is gone.
Drop(s, i) == [s EXCEPT !.bag = Without(@, i), !.lost = @ \union {i}]

\* unequip: what the slot holds goes to the bag.
Unequip(s, slot) ==
  [s EXCEPT !.worn[slot] = None, !.bag = With(@, {s.worn[slot]})]

-----------------------------------------------------------------------------
\* The shop

\* The first half of the stock stays, sold out or not, and goods of the pool
\* that are not among it take the other places, but for those the shop may not
\* sell.
Restocked(s, no) ==
  LET kept == SubSeq(s.stock, 1, (Len(s.stock) + 1) \div 2)
      pool == Goods \ {line.good : line \in Range(kept)}
      room == Least(StockSize - Len(kept), Cardinality(pool))
      Lines(g) == IF g \in Gear THEN {[good |-> g, qty |-> 1]}
                  ELSE {[good |-> g, qty |-> q] : q \in 1..MaxQty}
      News == UNION {{f \in [1..n -> UNION {Lines(g) : g \in pool}] :
                        \A j, k \in 1..n : f[j].good = f[k].good => j = k} : n \in 0..room}
  IN  {[s EXCEPT !.stock = kept \o f, !.refreshed = no] : f \in News}

\* refreshStock
Refreshed(s, no) == IF no - s.refreshed < RefreshInterval THEN {s} ELSE Restocked(s, no)

\* purchase, and what processShopAction makes of a success.
Bought(s) ==
  UNION {LET g == s.stock[k].good
             paid == [s EXCEPT !.stock[k].qty = @ - 1, !.gold = @ - Price[g], !.cost = @ + Price[g]]
         IN  IF s.stock[k].qty = 0 \/ s.gold < Price[g] THEN {s}
             ELSE IF g \in Gear THEN Grant(paid, 1)
             ELSE {[paid EXCEPT !.potions = @ + 1]} : k \in DOMAIN s.stock}

-----------------------------------------------------------------------------
\* Rewards and fees

\* Gold is earned, and spent as far as there is any.
Earn(s, g) == [s EXCEPT !.gold = @ + g, !.income = @ + g]
Spend(s, g) == LET c == Least(g, s.gold) IN [s EXCEPT !.gold = @ - c, !.cost = @ + c]

\* accruePendingQuestReward: gold and equipment the client owes from now on.
Accrue(s) == [s EXCEPT !.due = @ + Fee, !.dueGear = @ + 1, !.income = @ + Fee]

\* Mutation of Settle: what was paid stays on the account.
SettleKeepsDue(s) ==
  {[p EXCEPT !.gold = @ + s.due, !.dueGear = 0] : p \in Grant(s, s.dueGear)}

\* settlePendingQuestReward
Settle(s) ==
  {[p EXCEPT !.gold = @ + s.due, !.due = 0, !.dueGear = 0] : p \in Grant(s, s.dueGear)}

\* LegendaryRewardService.check: every tier that is reached awards a candidate,
\* each time an incident is contained.  The commitment to an arc is any.
Contained(s) ==
  UNION {LET n == s.contained + 1
             tiers == IF commitment >= 3 /\ n >= 2 THEN 2 ELSE IF commitment >= 2 THEN 1 ELSE 0
             k == Least(tiers, Legends - s.legends)
         IN  Grant([s EXCEPT !.contained = n, !.legends = @ + k], k) : commitment \in 1..3}

\* The outcomes of an action at a place: a drop or gold, a gift or a bribe,
\* a step of the quest, also in front of the client, a contained incident.
ActionResults(s) ==
  Grant(s, 1) \union {Earn(s, 1), Spend(s, 2), [s EXCEPT !.potions = @ + 1], Accrue(s)}
    \union Settle(Accrue(s)) \union Contained(s)
-----------------------------------------------------------------------------
\* The shop is stocked when the run is made.
Init ==
  /\ row \in Restocked(Start, 0)
  /\ turn = 0 /\ played = {} /\ status = "RUN_ACTIVE" /\ fighting = FALSE
  /\ req = [r \in Requests |-> Idle]
  /\ born = Range(Kit) /\ count = 0 /\ done = {} /\ exposed = {}

-----------------------------------------------------------------------------
\* Requests

\* The kinds of request that write runState without claiming a turn for it,
\* and those that claim and write in one transaction.
Turnless == {"api", "equip"}
Atomic == {"round", "won", "lost"}

\* A request has read the run and works on its copy.
Begin(r, kind, next) ==
  LET id == count + 1
      others == {o \in Requests \ {r} : req[o].pc # "idle"}
      met == {o \in others : kind \in Turnless \/ req[o].kind \in Turnless}
  IN  /\ req[r].pc = "idle" /\ status = "RUN_ACTIVE" /\ count < MaxOps
      /\ count' = id
      /\ born' = born \union next.got
      /\ exposed' = IF met = {} THEN exposed ELSE exposed \union {req[o].id : o \in met} \union {id}
      /\ req' = [req EXCEPT ![r] =
                   [pc |-> IF kind = "api" THEN "write" ELSE IF kind \in Atomic THEN "commit" ELSE "insert",
                    id |-> id, no |-> turn + 1, kind |-> kind,
                    next |-> [next EXCEPT !.ops = @ \union {id}]]]
      /\ UNCHANGED <<row, turn, played, status, fighting, done>>

Bagged == {i \in Items : row.bag[i] > 0}

\* equipItem, which is an error for what is refused, unequipItem and useItem of
\* runs.service.ts.
ApiRequest(r) ==
  \/ \E i \in Bagged \ Refused : Begin(r, "api", Equip(row, i))
  \/ \E slot \in Slots : row.worn[slot] # None /\ Begin(r, "api", Unequip(row, slot))
  \/ ~fighting /\ row.potions > 0 /\ Begin(r, "api", [row EXCEPT !.potions = @ - 1])

\* A turn at a place refreshes the stock of its shop.
ActionTurn(r) ==
  /\ ~fighting
  /\ \E s \in ActionResults(row) \union {row} :
       \E n \in Refreshed(s, turn + 1) : Begin(r, "turn", n)

\* A purchase, after the stock was refreshed.
ShopTurn(r) ==
  /\ ~fighting
  /\ \E s \in Refreshed(row, turn + 1) : \E n \in Bought(s) : Begin(r, "turn", n)

\* handleEquipAction
EquipTurn(r) ==
  /\ ~fighting
  /\ \/ \E i \in Bagged \ Refused : Begin(r, "equip", Equip(row, i))
     \/ \E i \in Bagged \cap Refused : Begin(r, "equip", Drop(row, i))
     \/ \E slot \in Slots : row.worn[slot] # None /\ Begin(r, "equip", Unequip(row, slot))

\* applyCombatTransition leaves before the rewards of the turn.
FightTurn(r) == ~fighting /\ Begin(r, "fight", row)

\* handleCombatTurn: only the last round brings loot or costs gold.
CombatTurn(r) ==
  /\ fighting
  /\ \/ \E kind \in {"round", "lost"} : Begin(r, kind, row)
     \/ \E s \in Grant(row, 1) \union {Earn(row, 1), Spend(row, 1), row} : Begin(r, "won", s)

\* returnToHub, and the end of a run in its last action, settle what the
\* client owes; a lost fight ends the run and settles nothing.
ReturnTurn(r) == ~fighting /\ \E s \in Settle(row) : Begin(r, "return", s)
EndTurn(r) == ~fighting /\ \E s \in Settle(row) \union Settle(Accrue(row)) : Begin(r, "end", s)

\* What becomes of a request: it goes on, is answered or fails.
Goto(r, pc) == req' = [req EXCEPT ![r].pc = pc] /\ UNCHANGED done
Answer(r) == req' = [req EXCEPT ![r] = Idle] /\ done' = done \union {req[r].id}
Fail(r) == req' = [req EXCEPT ![r] = Idle] /\ UNCHANGED done

\* Mutation of ClaimTurn: a turn whose number is taken goes on all the same.
ClaimAny(r, no, pc) ==
  Goto(r, pc) /\ played' = played \union {no}

\* INSERT turns: the number of a turn is unique, and who comes second fails.
ClaimTurn(r, no, pc) ==
  IF no \in played THEN Fail(r) /\ UNCHANGED played
  ELSE Goto(r, pc) /\ played' = played \union {no}

InsertTurn(r) ==
  /\ req[r].pc = "insert"
  /\ ClaimTurn(r, req[r].no, "update")
  /\ UNCHANGED <<row, turn, status, fighting, born, count, exposed>>

\* UPDATE run_sessions of commitTurnRecord.  Some turns are not over then: the
\* way to another node inserts a turn of its own, an equipment turn writes
\* runState again, the last turn marks the run.
UpdateRun(r) ==
  /\ req[r].pc = "update"
  /\ row' = req[r].next /\ turn' = req[r].no
  /\ CASE req[r].kind = "turn" -> Answer(r)
       [] req[r].kind \in {"return", "fight"} -> Goto(r, "enter")
       [] req[r].kind \in {"equip", "end"} -> Goto(r, "again")
  /\ UNCHANGED <<played, status, fighting, born, count, exposed>>

\* commitCombatTurn does both in one transaction.
CommitCombat(r) ==
  /\ req[r].pc = "commit"
  /\ IF req[r].no \in played THEN Fail(r) /\ UNCHANGED <<row, turn, played>>
     ELSE /\ played' = played \union {req[r].no}
          /\ row' = req[r].next /\ turn' = req[r].no
          /\ CASE req[r].kind = "round" -> Answer(r)
               [] req[r].kind = "won" -> Goto(r, "enter")
               [] req[r].kind = "lost" -> Goto(r, "again")
  /\ UNCHANGED <<status, fighting, born, count, exposed>>

EnterNode(r) ==
  /\ req[r].pc = "enter"
  /\ fighting' = (req[r].kind = "fight")
  /\ ClaimTurn(r, req[r].no + 1, "again")
  /\ UNCHANGED <<row, turn, status, born, count, exposed>>

UpdateAgain(r) ==
  /\ req[r].pc = "again"
  /\ IF req[r].kind \in {"end", "lost"}
     THEN status' = "RUN_ENDED" /\ UNCHANGED <<row, turn>>
     ELSE /\ row' = req[r].next
          /\ turn' = IF req[r].kind = "equip" THEN turn ELSE req[r].no + 1
          /\ UNCHANGED status
  /\ Answer(r)
  /\ UNCHANGED <<played, fighting, born, count, exposed>>

\* A request that takes no turn writes runState without looking at the turn.
Write(r) ==
  /\ req[r].pc = "write"
  /\ row' = req[r].next
  /\ Answer(r)
  /\ UNCHANGED <<turn, played, status, fighting, born, count, exposed>>

Next ==
  \E r \in Requests :
    \/ ApiRequest(r) \/ ActionTurn(r) \/ ShopTurn(r) \/ EquipTurn(r) \/ FightTurn(r)
    \/ CombatTurn(r) \/ ReturnTurn(r) \/ EndTurn(r)
    \/ InsertTurn(r) \/ UpdateRun(r) \/ CommitCombat(r) \/ EnterNode(r) \/ UpdateAgain(r)
    \/ Write(r)

Spec == Init /\ [][Next]_vars

-----------------------------------------------------------------------------
\* Properties

Holdings ==
  [bag : [Items -> Nat], worn : [Slots -> Items \union {None}], potions : Nat,
   gold : Nat, due : Nat, dueGear : Nat,
   stock : Seq([good : Goods, qty : Nat]), refreshed : Nat,
   contained : Nat, legends : Nat,
   got : SUBSET Items, lost : SUBSET Items, income : Nat, cost : Nat, ops : SUBSET Nat]

\* Types. In particular neither gold nor a stock is ever negative.
TypeOK ==
  /\ row \in Holdings /\ turn \in Nat /\ played \subseteq Nat
  /\ status \in {"RUN_ACTIVE", "RUN_ENDED"} /\ fighting \in BOOLEAN
  /\ req \in [Requests ->
               [pc : {"idle", "insert", "update", "commit", "enter", "again", "write"},
                id : Nat, no : Nat, next : Holdings,
                kind : {"api", "turn", "equip", "fight", "return", "end", "round", "won", "lost"}]]
  /\ born \subseteq Items /\ count \in Nat /\ done \subseteq Nat /\ exposed \subseteq Nat

\* Whatever was overwritten, the state that is stored adds up: an instance the
\* player came by is in the bag or worn, once, and nothing else is, but for what
\* an equip turn has lost, which can only be what equip refuses; the gold and the
\* fee still owed are what was earned less what was spent.
Accounted ==
  /\ \A i \in Items :
       row.bag[i] + (IF i \in Range(row.worn) THEN 1 ELSE 0)
         = IF i \in row.got \ row.lost THEN 1 ELSE 0
  /\ row.lost \subseteq row.got \cap Refused
  /\ \A slot \in Slots : row.worn[slot] # None => SlotOf[row.worn[slot]] = slot
  /\ row.gold + row.due = Gold0 + row.income - row.cost

\* Turns do not undo each other: what an answered request did is part of the
\* stored state for good, unless it was in flight together with one of the
\* requests that write runState without claiming a turn (equip, unequip and use
\* of an item, the second write of an equipment turn).
TurnsKeepTurns == done \subseteq row.ops \union exposed
=============================================================================
