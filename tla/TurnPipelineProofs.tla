------------------------- MODULE TurnPipelineProofs -------------------------
(***************************************************************************)
(* Theorems about TurnPipeline, for any number of concurrent submissions,  *)
(* keys and settings. Each property has the inductive invariant it needs:  *)
(*   Shape    the types, and what a request holds at each place            *)
(*   Logged   the log without a gap, one save outstanding at most          *)
(*   Alone    the one request of a player who waits is not disturbed       *)
(*   Kept     every snapshot holds the results of the turns it has seen    *)
(*   Current  the snapshot of that one request is the run as it is         *)
(*   Playing  the nodes in the phase of the handler at work                *)
(* Each is inductive relative to those above it.                           *)
(***************************************************************************)
EXTENDS TurnPipeline, SequenceTheorems, FiniteSetTheorems, TLAPS

\* The statements that commit the turn of the action.
Commits == CombatStatements \union {"insert"}

\* The statements that come after the commit, and the commit.
Late == Commits \union {"save", "rewrite", "pickNode", "enter", "saveEnter"}

\* The turn of the action is still to be committed.
Ahead(s) == \E i \in 1..Len(s) : s[i] \in Commits

\* A statement is still to come.
Has(s, a) == \E i \in 1..Len(s) : s[i] = a

\* A statement comes right before one of B, and nothing else does.
Before(s, a, B) == \A i \in 1..(Len(s) - 1) : (s[i] = a) <=> (s[i + 1] \in B)

\* Once the action is committed nothing commits it again.
CommitsOnce(s) == \A i, j \in 1..Len(s) : (i < j /\ s[i] \in Late) => s[j] \notin Commits

\* The node a statement uses was picked or inserted by the one before it.
PicksFirst(s) == \A i \in 1..(Len(s) - 1) :
   s[i + 1] \in {"pointRun", "insertBattle"} => s[i] \in Inserts \union {"activateParent", "pointRun", "insertBattle"}

\* A transition ends with its arrival.
ArrivesLast(s) == \A i \in 1..(Len(s) - 1) : s[i] # "saveEnter"

\* The order of the statements of a handler that the invariants rest on; what
\* is left of a plan has it, too.
Orderly(s) ==
  /\ s \in Seq(Statements) /\ s # <<>>
  /\ Before(s, "insert", {"save"})
  /\ Before(s, "enter", {"saveEnter"})
  /\ Before(s, "pickNode", Inserts)
  /\ CommitsOnce(s) /\ PicksFirst(s) /\ ArrivesLast(s)
  /\ s[Len(s)] \notin {"insert", "enter", "pickNode", "activateParent"}

\* Every plan is orderly, and starts with none of the statements that need one
\* before them.
LEMMA PlansAreOrderly ==
  ASSUME NEW p \in DOMAIN Plan
  PROVE  /\ Orderly(Plan[p])
         /\ Head(Plan[p]) \notin {"save", "saveEnter", "pointRun", "insertBattle"} \union Inserts
         /\ (Has(Plan[p], "activateParent") => p \in CombatPlans)
         /\ (Has(Plan[p], "rewrite") => p = "equip")
<1> USE DEF CombatStatements, Inserts, Statements, Orderly, Before, CommitsOnce, PicksFirst,
            ArrivesLast, Late, Commits, Has, CombatPlans
<1>1. CASE p = "plain"
  BY <1>1 DEF Plan, Commit
<1>2. CASE p = "equip"
  BY <1>2 DEF Plan, Equip
<1>3. CASE p = "toLocation"
  BY <1>3 DEF Plan, Move
<1>4. CASE p = "toHub"
  BY <1>4 DEF Plan, Return
<1>5. CASE p = "fight"
  BY <1>5 DEF Plan, Fight
<1>6. CASE p = "end"
  BY <1>6 DEF Plan, Ending
<1>7. CASE p = "defeat"
  BY <1>7 DEF Plan, Defeat
<1>8. CASE p = "deny"
  BY <1>8 DEF Plan
<1>9. CASE p = "round"
  BY <1>9 DEF Plan
<1>10. CASE p = "win"
  BY <1>10 DEF Plan, Victory
<1>11. CASE p = "lose"
  BY <1>11 DEF Plan, LostFight
<1> QED BY <1>1, <1>2, <1>3, <1>4, <1>5, <1>6, <1>7, <1>8, <1>9, <1>10, <1>11 DEF Plan

\* Every plan commits the action.
LEMMA PlansCommit ==
  ASSUME NEW p \in DOMAIN Plan
  PROVE  Ahead(Plan[p])
<1> USE DEF Ahead, Commits, CombatStatements
<1>1. CASE p \in {"plain", "equip", "fight", "end", "deny", "round", "win", "lose"}
  <2>1. 1 \in 1..Len(Plan[p]) /\ Plan[p][1] \in Commits
    BY <1>1 DEF Plan, Commit, Equip, Fight, Ending, Victory, LostFight
  <2> QED BY <2>1
<1>2. CASE p \in {"toLocation", "toHub"}
  <2>1. 2 \in 1..Len(Plan[p]) /\ Plan[p][2] \in Commits
    BY <1>2 DEF Plan, Move, Return
  <2> QED BY <2>1
<1>3. CASE p = "defeat"
  <2>1. 3 \in 1..Len(Plan[p]) /\ Plan[p][3] \in Commits
    BY <1>3 DEF Plan, Defeat
  <2> QED BY <2>1
<1> QED BY <1>1, <1>2, <1>3 DEF Plan

\* No plan ends with a statement that needs another one after it.
LEMMA LastIsHead ==
  ASSUME NEW s, Orderly(s), Len(s) = 1
  PROVE  /\ Head(s) \notin {"insert", "enter", "pickNode", "activateParent"}
         /\ Ahead(s) => Head(s) \in Commits
  BY DEF Orderly, Ahead

\* A request about to commit has its commit ahead,
LEMMA HeadIsCommit ==
  ASSUME NEW s, Orderly(s), Head(s) \in Commits
  PROVE  Ahead(s)
<1>1. 1 \in 1..Len(s) /\ s[1] \in Commits
  BY DEF Orderly
<1> QED BY <1>1 DEF Ahead

\* and one that is past it has none ahead.
LEMMA HeadIsLate ==
  ASSUME NEW s, Orderly(s), Head(s) \in Late \ Commits
  PROVE  ~Ahead(s)
<1> SUFFICES ASSUME NEW i \in 1..Len(s), s[i] \in Commits PROVE FALSE
  BY DEF Ahead
<1>1. i # 1 /\ 1 \in 1..Len(s) /\ s[1] \in Late
  BY DEF Orderly
<1> QED BY <1>1 DEF Orderly, CommitsOnce

\* Orderliness is kept from statement to statement, with what the next statement
\* says about the one before it.
LEMMA TailIsOrderly ==
  ASSUME NEW s, Orderly(s), Len(s) # 1
  PROVE  /\ Orderly(Tail(s))
         /\ (Head(s) = "insert") <=> (Head(Tail(s)) = "save")
         /\ (Head(s) = "enter") <=> (Head(Tail(s)) = "saveEnter")
         /\ (Head(s) = "pickNode") <=> (Head(Tail(s)) \in Inserts)
         /\ Head(Tail(s)) \in {"pointRun", "insertBattle"}
              => Head(s) \in Inserts \union {"activateParent", "pointRun", "insertBattle"}
         /\ Head(s) # "saveEnter"
         /\ Head(s) \in Late => ~Ahead(Tail(s))
         /\ Ahead(s) => Head(s) \in Commits \/ Ahead(Tail(s))
         /\ Ahead(Tail(s)) => Ahead(s)
         /\ \A a : Has(Tail(s), a) => Has(s, a)
<1> DEFINE t == Tail(s)
<1>1. s \in Seq(Statements) /\ Len(s) \in Nat /\ Len(s) > 1 /\ Head(s) = s[1]
  <2>1. s \in Seq(Statements) /\ s # <<>>
    BY DEF Orderly
  <2> QED BY <2>1
<1>2. t \in Seq(Statements) /\ t # <<>> /\ Len(t) = Len(s) - 1 /\ Head(t) = s[2]
  BY <1>1
<1>3. \A i \in 1..Len(t) : t[i] = s[i + 1] /\ i + 1 \in 1..Len(s)
  BY <1>1
<1>4. Orderly(t)
  <2>1. Before(t, "insert", {"save"}) /\ Before(t, "enter", {"saveEnter"})
        /\ Before(t, "pickNode", Inserts)
    BY <1>1, <1>2, <1>3 DEF Orderly, Before
  <2>2. CommitsOnce(t)
    BY <1>1, <1>2, <1>3 DEF Orderly, CommitsOnce
  <2>3. PicksFirst(t) /\ ArrivesLast(t)
    BY <1>1, <1>2, <1>3 DEF Orderly, PicksFirst, ArrivesLast
  <2>4. t[Len(t)] \notin {"insert", "enter", "pickNode", "activateParent"}
    BY <1>1, <1>2, <1>3 DEF Orderly
  <2> QED BY <2>1, <2>2, <2>3, <2>4, <1>2 DEF Orderly
<1>5. /\ (s[1] = "insert") <=> (s[2] = "save")
      /\ (s[1] = "enter") <=> (s[2] = "saveEnter")
      /\ (s[1] = "pickNode") <=> (s[2] \in Inserts)
  BY <1>1 DEF Orderly, Before
<1>6. /\ s[2] \in {"pointRun", "insertBattle"}
              => s[1] \in Inserts \union {"activateParent", "pointRun", "insertBattle"}
      /\ s[1] # "saveEnter"
  <2>1. 1 \in 1..(Len(s) - 1) /\ 1 + 1 = 2
    BY <1>1
  <2>2. PicksFirst(s) /\ ArrivesLast(s)
    BY DEF Orderly
  <2>3. s[1 + 1] \in {"pointRun", "insertBattle"}
          => s[1] \in Inserts \union {"activateParent", "pointRun", "insertBattle"}
    BY ONLY <2>1, <2>2 DEF PicksFirst
  <2> QED BY <2>1, <2>2, <2>3 DEF ArrivesLast
<1>7. s[1] \in Late => ~Ahead(t)
  BY <1>1, <1>2, <1>3 DEF Orderly, CommitsOnce, Ahead
<1>8. Ahead(s) => s[1] \in Commits \/ Ahead(t)
  <2> SUFFICES ASSUME NEW i \in 1..Len(s), s[i] \in Commits, i # 1 PROVE Ahead(t)
    BY DEF Ahead
  <2>1. i - 1 \in 1..Len(t) /\ t[i - 1] = s[i]
    BY <1>1, <1>2, <1>3
  <2> QED BY <2>1 DEF Ahead
<1>9. Ahead(t) => Ahead(s)
  BY <1>3 DEF Ahead
<1>10. \A a : Has(t, a) => Has(s, a)
  BY <1>3 DEF Has
<1> QED BY <1>1, <1>2, <1>4, <1>5, <1>6, <1>7, <1>8, <1>9, <1>10

\* The next statement is one of those still to come.
LEMMA HeadIsIn ==
  ASSUME NEW s, Orderly(s)
  PROVE  Has(s, Head(s)) /\ Head(s) \in Statements
<1>1. 1 \in 1..Len(s) /\ s[1] = Head(s) /\ s[1] \in Statements
  BY DEF Orderly
<1> QED BY <1>1 DEF Has

-----------------------------------------------------------------------------

\* The record of a node, and of what submitTurn reads of the run.
Node == [type : {"HUB", "LOCATION", "COMBAT"}, status : {"ACTIVE", "ENDED"},
         parent : Nat, battle : BOOLEAN]
Snapshot == [cur : Nat, node : Nat, effects : SUBSET Keys, plot : {"absent", "null", "set"}]

\* What a request holds at each place: a key, a charge, a node, an orderly plan.
Held(r) ==
  /\ pc[r] # "idle" => key[r] \in Keys
  /\ pc[r] \in {"dispatch", "work", "refund"} => key[r] \in spent
  /\ paid[r] => pc[r] \in {"dispatch", "work", "refund"}
  /\ pc[r] = "refund" => paid[r]
  /\ pc[r] \in {"readNode", "charge", "dispatch", "work"} => seen[r].node \in 1..Len(nodes)
  /\ pc[r] = "work" =>
       /\ Orderly(todo[r])
       /\ Head(todo[r]) \in {"pointRun", "insertBattle"} => picked[r] \in 1..Len(nodes)
       /\ Has(todo[r], "activateParent") => nodes[seen[r].node].type = "COMBAT"

\* A fight has a place to return to.
Fights ==
  \A i \in 1..Len(nodes) : nodes[i].type = "COMBAT" => nodes[i].parent \in 1..Len(nodes)

\* The type invariant, with what it takes to be inductive.
Shape == TypeOK /\ (\A r \in Requests : Held(r)) /\ Fights

\* The locals of a request, and a step that is of no other request than r.
Locals(q) == <<pc[q], key[q], paid[q], todo[q], seen[q], picked[q]>>
OthersWait(r) == \A q \in Requests \ {r} : UNCHANGED Locals(q)

\* The types of the requests.
ReqTypes ==
  /\ pc \in [Requests -> {"idle", "readRun", "readNode", "charge", "dispatch", "work", "refund"}]
  /\ key \in [Requests -> Keys \union {None}]
  /\ paid \in [Requests -> BOOLEAN]
  /\ todo \in [Requests -> Seq(Statements)]
  /\ seen \in [Requests -> Snapshot]
  /\ picked \in [Requests -> Nat]

\* Nodes are added and change status; nothing is un-spent.
Grows ==
  /\ nodes' \in Seq(Node)
  /\ Len(nodes) <= Len(nodes')
  /\ \A i \in 1..Len(nodes) : nodes'[i].type = nodes[i].type /\ nodes'[i].parent = nodes[i].parent
  /\ spent \subseteq spent'

\* Leave resets the locals of one request.
LEMMA LeaveDoes ==
  ASSUME ReqTypes, NEW r \in Requests, Leave(r)
  PROVE  /\ ReqTypes' /\ OthersWait(r)
         /\ pc'[r] = "idle" /\ key'[r] = None /\ paid'[r] = FALSE
         /\ todo'[r] = <<>> /\ seen'[r] = Nothing /\ picked'[r] = 0
<1>1. Nothing \in Snapshot
  BY DEF Nothing, Snapshot
<1> QED BY <1>1 DEF Leave, ReqTypes, OthersWait, Locals

\* Throw goes to the refund of a charged request and leaves otherwise.
LEMMA ThrowDoes ==
  ASSUME ReqTypes, NEW r \in Requests, Throw(r)
  PROVE  /\ ReqTypes' /\ OthersWait(r)
         /\ \/ Leave(r) /\ ~paid[r]
            \/ pc'[r] = "refund" /\ paid[r] /\ UNCHANGED <<key[r], paid[r], todo[r], seen[r],
                                                           picked[r]>>
<1>1. CASE paid[r]
  BY <1>1 DEF Throw, Goto, ReqTypes, OthersWait, Locals
<1>2. CASE ~paid[r]
  BY <1>2, LeaveDoes DEF Throw
<1> QED BY <1>1, <1>2

\* Proceed goes to the rest of the plan, or leaves at its end.
LEMMA ProceedDoes ==
  ASSUME ReqTypes, NEW r \in Requests, Proceed(r), Orderly(todo[r])
  PROVE  /\ ReqTypes' /\ OthersWait(r)
         /\ \/ Leave(r) /\ Len(todo[r]) = 1
            \/ /\ Len(todo[r]) # 1 /\ todo'[r] = Tail(todo[r])
               /\ UNCHANGED <<pc[r], key[r], paid[r], seen[r], picked[r]>>
<1>1. CASE Len(todo[r]) = 1
  BY <1>1, LeaveDoes DEF Proceed
<1>2. CASE Len(todo[r]) # 1
  <2>1. Tail(todo[r]) \in Seq(Statements)
    BY <1>2, TailIsOrderly DEF Orderly
  <2> QED BY <1>2, <2>1 DEF Proceed, ReqTypes, OthersWait, Locals
<1> QED BY <1>1, <1>2

\* A request that does not move keeps what it holds;
LEMMA HeldStays ==
  ASSUME Grows, NEW q \in Requests, Held(q), UNCHANGED Locals(q), nodes \in Seq(Node)
  PROVE  Held(q)'
<1>1. UNCHANGED <<pc[q], key[q], paid[q], todo[q], seen[q], picked[q]>>
  BY DEF Locals
<1>2. Len(nodes) \in Nat /\ Len(nodes') \in Nat
  BY DEF Grows
<1> QED BY <1>1, <1>2 DEF Held, Grows

\* one that leaves holds nothing;
LEMMA HeldGone ==
  ASSUME NEW r \in Requests, ReqTypes, Leave(r)
  PROVE  Held(r)'
  BY LeaveDoes DEF Held

\* one that fails holds its charge;
LEMMA HeldThrows ==
  ASSUME NEW r \in Requests, ReqTypes, Throw(r), Held(r), UNCHANGED spent
  PROVE  Held(r)'
<1>1. CASE Leave(r)
  BY <1>1, HeldGone
<1>2. CASE pc'[r] = "refund" /\ paid[r] /\ UNCHANGED <<key[r], paid[r], todo[r], seen[r],
                                                       picked[r]>>
  BY <1>2 DEF Held
<1> QED BY <1>1, <1>2, ThrowDoes

\* one that goes on holds what the rest of its plan needs.
LEMMA HeldProceeds ==
  ASSUME NEW r \in Requests, ReqTypes, Held(r), pc[r] = "work", Grows, nodes \in Seq(Node),
         \/ Proceed(r)
         \/ Len(todo[r]) # 1 /\ todo'[r] = Tail(todo[r]) /\ UNCHANGED <<pc[r], key[r], paid[r],
                                                                        seen[r]>>,
         Head(todo[r]) \in Inserts \union {"activateParent", "pointRun", "insertBattle"}
           => picked'[r] \in 1..Len(nodes') \/ Leave(r)
  PROVE  Held(r)'
<1>1. CASE Leave(r)
  BY <1>1, HeldGone
<1>2. CASE Len(todo[r]) # 1 /\ todo'[r] = Tail(todo[r]) /\ UNCHANGED <<pc[r], key[r], paid[r],
                                                                       seen[r]>> /\ ~Leave(r)
  <2>1. Orderly(todo[r])
    BY DEF Held
  <2>2. /\ Orderly(Tail(todo[r]))
        /\ Head(Tail(todo[r])) \in {"pointRun", "insertBattle"}
              => Head(todo[r]) \in Inserts \union {"activateParent", "pointRun", "insertBattle"}
        /\ Has(Tail(todo[r]), "activateParent") => Has(todo[r], "activateParent")
    BY <1>2, <2>1, TailIsOrderly
  <2>3. Len(nodes) \in Nat /\ Len(nodes') \in Nat
    BY DEF Grows
  <2>4. seen[r].node \in 1..Len(nodes) /\ nodes'[seen[r].node].type = nodes[seen[r].node].type
    BY DEF Held, Grows
  <2>5. ~Leave(r) /\ todo'[r] = Tail(todo[r])
    BY <1>2
  <2>6. /\ Orderly(todo'[r])
        /\ Head(todo'[r]) \in {"pointRun", "insertBattle"} => picked'[r] \in 1..Len(nodes')
        /\ Has(todo'[r], "activateParent") => nodes'[seen'[r].node].type = "COMBAT"
    BY <1>2, <2>2, <2>4, <2>5 DEF Held
  <2>7. /\ pc'[r] = "work" /\ key'[r] \in Keys /\ key'[r] \in spent'
        /\ seen'[r].node \in 1..Len(nodes')
    BY <1>2, <2>3, <2>4 DEF Held, Grows
  <2> QED BY ONLY <2>6, <2>7 DEF Held
<1> QED BY <1>1, <1>2, ProceedDoes DEF Held

-----------------------------------------------------------------------------

\* The parts of Shape that the steps need.
LEMMA RequestsTyped == Shape => ReqTypes /\ nodes \in Seq(Node) /\ Len(nodes) \in Nat
<1> SUFFICES ASSUME Shape PROVE ReqTypes /\ nodes \in Seq(Node) /\ Len(nodes) \in Nat
  OBVIOUS
<1>1. nodes \in Seq(Node)
  BY DEF Shape, TypeOK, Node
<1> QED BY <1>1 DEF Shape, TypeOK, ReqTypes, Snapshot

\* A step of one request keeps Shape if it keeps the types and what r holds.
LEMMA ShapeFrom ==
  ASSUME Shape, NEW r \in Requests, TypeOK', Grows, OthersWait(r), Held(r)', Fights'
  PROVE  Shape'
<1>1. ASSUME NEW q \in Requests PROVE Held(q)'
  <2>1. CASE q = r
    BY <2>1
  <2>2. CASE q # r
    BY <2>2, HeldStays, RequestsTyped DEF OthersWait, Shape
  <2> QED BY <2>1, <2>2
<1> QED BY <1>1 DEF Shape

\* The same for a step that changes only the locals of r.
LEMMA LocalShape ==
  ASSUME Shape, NEW r \in Requests, ReqTypes', OthersWait(r), Held(r)',
         UNCHANGED <<setting, runVars, nodes, turns, purse, around>>
  PROVE  Shape'
<1>1. UNCHANGED <<setting, status, cur, node, effects, plot, nodes, turns, spent, refunded,
                  merged, generator, aborter, crashes, expect>>
  BY DEF runVars, purse, around
<1>2. TypeOK'
  BY <1>1 DEF Shape, TypeOK, ReqTypes, Snapshot
<1>3. Grows /\ Fights'
  BY <1>1, RequestsTyped DEF Grows, Shape, Fights
<1> QED BY <1>2, <1>3, ShapeFrom

\* The engine chooses a plan of the node type: combat plans in a fight.
LEMMA PlanChosen ==
  ASSUME nodes \in Seq(Node), NEW i \in 1..Len(nodes), NEW p \in PlansOf(nodes[i].type)
  PROVE  p \in DOMAIN Plan /\ (p \in CombatPlans => nodes[i].type = "COMBAT") /\ p \in setting.handlers
<1>1. nodes[i] \in Node
  OBVIOUS
<1>2. nodes[i].type \in {"HUB", "LOCATION", "COMBAT"}
  BY <1>1 DEF Node
<1> QED BY <1>2 DEF PlansOf, HubPlans, LocationPlans, CombatPlans, Plan

\* Each action keeps Shape: Submit,
LEMMA ShapeSubmit ==
  ASSUME Shape, NEW r \in Requests, NEW k \in Keys, Submit(r, k), UNCHANGED setting
  PROVE  Shape'
<1>1. ReqTypes' /\ OthersWait(r)
  BY RequestsTyped DEF Submit, ReqTypes, OthersWait, Locals
<1>2. Held(r)'
  BY RequestsTyped DEF Submit, ReqTypes, Held, Shape
<1>3. TypeOK'
  <2>1. UNCHANGED <<setting, status, cur, node, effects, plot, nodes, turns, spent, refunded,
                    merged, generator, aborter, crashes>>
    BY DEF runVars, purse, Submit
  <2>2. expect' \in [Keys -> Nat]
    BY DEF Submit, Shape, TypeOK
  <2> QED BY <2>1, <2>2, <1>1 DEF Shape, TypeOK, ReqTypes, Snapshot
<1>4. Grows /\ Fights'
  BY RequestsTyped DEF Grows, Shape, Fights, Submit, purse
<1> QED BY <1>1, <1>2, <1>3, <1>4, ShapeFrom

\* the reads and the conflicts,
LEMMA ShapeRead ==
  ASSUME Shape, NEW r \in Requests,
         ReadRun(r) \/ ReadNode(r) \/ ChargeRefused(r) \/ Dispatch(r) \/ Conflict(r), UNCHANGED setting
  PROVE  Shape'
<1>0. ReqTypes /\ Held(r) /\ UNCHANGED <<setting, runVars, nodes, turns, purse, around>>
  BY RequestsTyped DEF Shape, ReadRun, ReadNode, ChargeRefused, Dispatch, Conflict
<1>1. CASE Leave(r)
  BY <1>1, <1>0, LeaveDoes, HeldGone, LocalShape
<1>2. CASE Throw(r)
  BY <1>2, <1>0, ThrowDoes, HeldThrows, LocalShape DEF purse
<1>3. CASE ReadRun(r) /\ ~Leave(r)
  <2> DEFINE s == [cur |-> cur, node |-> node, effects |-> effects, plot |-> plot]
  <2>1. s \in Snapshot
    BY DEF Snapshot, Shape, TypeOK
  <2>2. Goto(r, "readNode") /\ seen' = [seen EXCEPT ![r] = s] /\ UNCHANGED <<paid,
                                                                             picked>>
                                                                             /\ pc[r] = "readRun"
    BY <1>3 DEF ReadRun
  <2>3. ReqTypes' /\ OthersWait(r) /\ UNCHANGED <<key, paid, todo,
                                                  picked>> /\ pc'[r] = "readNode" /\ seen'[r] = s
    BY <2>1, <2>2, <1>0 DEF Goto, ReqTypes, OthersWait, Locals
  <2>4. Held(r)'
    BY <2>2, <2>3, <1>0 DEF Held, Shape, TypeOK
  <2> QED BY <1>0, <2>3, <2>4, LocalShape
<1>4. CASE ReadNode(r) /\ ~Leave(r)
  <2>2. Goto(r, "charge") /\ UNCHANGED <<paid, seen, picked>> /\ pc[r] = "readNode"
    BY <1>4 DEF ReadNode
  <2>3. ReqTypes' /\ OthersWait(r) /\ UNCHANGED <<key, paid, todo, seen,
                                                  picked>> /\ pc'[r] = "charge"
    BY <2>2, <1>0 DEF Goto, ReqTypes, OthersWait, Locals
  <2>4. Held(r)'
    BY <2>2, <2>3, <1>0 DEF Held
  <2> QED BY <1>0, <2>3, <2>4, LocalShape
<1>5. CASE Dispatch(r) /\ ~Throw(r)
  <2> DEFINE here == nodes[seen[r].node]
  <2>1. PICK p \in PlansOf(here.type) : todo' = [todo EXCEPT ![r] = Plan[p]]
    BY <1>5 DEF Dispatch
  <2>2. pc[r] = "dispatch" /\ pc' = [pc EXCEPT ![r] = "work"] /\ UNCHANGED <<key, paid, seen,
                                                                             picked>>
    BY <1>5 DEF Dispatch
  <2>4. p \in DOMAIN Plan /\ (p \in CombatPlans => here.type = "COMBAT")
    BY <1>0, <2>2, RequestsTyped, PlanChosen DEF Held
  <2>5. /\ Orderly(Plan[p])
        /\ Head(Plan[p]) \notin {"save", "saveEnter", "pointRun", "insertBattle"}
        /\ (Has(Plan[p], "activateParent") => p \in CombatPlans)
    BY <2>4, PlansAreOrderly
  <2>6. Plan[p] \in Seq(Statements)
    BY <2>5 DEF Orderly
  <2>7. ReqTypes' /\ OthersWait(r) /\ UNCHANGED <<key, paid, seen,
                                                  picked>> /\ pc'[r] = "work" /\ todo'[r] = Plan[p]
    BY <2>1, <2>2, <2>6, <1>0 DEF ReqTypes, OthersWait, Locals
  <2>8. UNCHANGED nodes /\ UNCHANGED spent
    BY <1>0 DEF purse
  <2>9. Held(r)'
    BY <2>2, <2>4, <2>5, <2>7, <2>8, <1>0 DEF Held
  <2> QED BY <1>0, <2>7, <2>9, LocalShape
<1> QED BY <1>1, <1>2, <1>3, <1>4, <1>5 DEF ReadRun, ReadNode, ChargeRefused, Dispatch, Conflict

\* Charge,
LEMMA ShapeCharge ==
  ASSUME Shape, NEW r \in Requests, Charge(r), UNCHANGED setting
  PROVE  Shape'
<1>0. ReqTypes /\ Held(r) /\ UNCHANGED <<setting, runVars, nodes, turns, refunded, around, seen,
                                         picked, key, todo>>
  BY RequestsTyped DEF Shape, Charge, Goto
<1>1. /\ pc[r] = "charge" /\ pc' = [pc EXCEPT ![r] = "dispatch"]
      /\ paid' = [paid EXCEPT ![r] = key[r] \notin spent]
      /\ spent' = spent \union {key[r]}
  BY DEF Charge, Goto
<1>2. ReqTypes' /\ OthersWait(r) /\ pc'[r] = "dispatch"
  BY <1>0, <1>1 DEF ReqTypes, OthersWait, Locals
<1>3. Held(r)'
  BY <1>0, <1>1, <1>2 DEF Held, ReqTypes
<1>4. key[r] \in Keys
  BY <1>0, <1>1 DEF Held
<1>5. TypeOK'
  <2>1. UNCHANGED <<setting, status, cur, node, effects, plot, nodes, turns, refunded, merged,
                    generator, aborter, crashes, expect>>
    BY <1>0 DEF runVars, around
  <2> QED BY <2>1, <1>1, <1>2, <1>4 DEF Shape, TypeOK, ReqTypes, Snapshot
<1>6. Grows /\ Fights'
  BY <1>0, <1>1, RequestsTyped DEF Grows, Shape, Fights
<1> QED BY <1>2, <1>3, <1>5, <1>6, ShapeFrom

\* Refund,
LEMMA ShapeRefund ==
  ASSUME Shape, NEW r \in Requests, Refund(r), UNCHANGED setting
  PROVE  Shape'
<1>0. ReqTypes /\ Held(r) /\ UNCHANGED <<setting, runVars, nodes, turns, spent, around>>
  BY RequestsTyped DEF Shape, Refund
<1>1. pc[r] = "refund" /\ Leave(r) /\ refunded' = refunded \union {key[r]} /\ key[r] \in spent
  BY <1>0 DEF Refund, Held
<1>2. ReqTypes' /\ OthersWait(r) /\ Held(r)'
  BY <1>0, <1>1, LeaveDoes, HeldGone
<1>5. TypeOK'
  <2>1. UNCHANGED <<setting, status, cur, node, effects, plot, nodes, turns, spent, merged,
                    generator, aborter, crashes, expect>>
    BY <1>0 DEF runVars, around
  <2> QED BY <2>1, <1>1, <1>2 DEF Shape, TypeOK, ReqTypes, Snapshot
<1>6. Grows /\ Fights'
  BY <1>0, <1>1, RequestsTyped DEF Grows, Shape, Fights
<1> QED BY <1>2, <1>5, <1>6, ShapeFrom

-----------------------------------------------------------------------------

\* A statement that leaves the nodes alone.
LEMMA ShapeStatement ==
  ASSUME Shape, NEW r \in Requests, pc[r] = "work", Proceed(r), UNCHANGED <<nodes, spent>>,
         Head(todo[r]) \notin Inserts \union {"activateParent", "pointRun", "insertBattle"}
  PROVE  ReqTypes' /\ OthersWait(r) /\ Held(r)' /\ Grows /\ Fights'
<1>1. ReqTypes /\ Held(r) /\ Orderly(todo[r])
  BY RequestsTyped DEF Shape, Held
<1>2. Grows /\ Fights'
  BY RequestsTyped DEF Grows, Shape, Fights
<1>3. ReqTypes' /\ OthersWait(r)
  BY <1>1, ProceedDoes
<1>4. Held(r)'
  BY <1>1, <1>2, RequestsTyped, HeldProceeds
<1> QED BY <1>2, <1>3, <1>4

\* the turns written outside a fight,
LEMMA ShapeTurns ==
  ASSUME Shape, NEW r \in Requests, InsertTurn(r) \/ EnterTurn(r), UNCHANGED setting
  PROVE  Shape'
<1>1. pc[r] = "work" /\ Proceed(r) /\ UNCHANGED <<setting, runVars, nodes, spent, refunded, around>>
  BY DEF InsertTurn, EnterTurn, At, purse
<1>2. Head(todo[r]) \notin Inserts \union {"activateParent", "pointRun", "insertBattle"}
  BY DEF InsertTurn, EnterTurn, At, Inserts
<1>3. ReqTypes' /\ OthersWait(r) /\ Held(r)' /\ Grows /\ Fights'
  BY <1>1, <1>2, ShapeStatement
<1>4. key[r] \in Keys /\ TurnNo(r) \in Nat
  BY <1>1, RequestsTyped DEF Shape, Held, TurnNo, ReqTypes, Snapshot
<1>5. DOMAIN turns' \subseteq Nat /\ \A n \in DOMAIN turns' :
       turns'[n] \in [key : Keys \union {None, "enter"}, by : Keys \union {None}]
  BY <1>4 DEF Shape, TypeOK, InsertTurn, EnterTurn, WithTurn
<1>6. TypeOK'
  <2>1. UNCHANGED <<setting, status, cur, node, effects, plot, nodes, spent, refunded, merged,
                    generator, aborter, crashes, expect>>
    BY <1>1 DEF runVars, around
  <2> QED BY <2>1, <1>3, <1>5 DEF Shape, TypeOK, ReqTypes, Snapshot
<1> QED BY <1>3, <1>6, ShapeFrom

\* the writes to the run and its merge,
LEMMA ShapeSaves ==
  ASSUME Shape, NEW r \in Requests,
         SaveRun(r) \/ Rewrite(r) \/ SaveEnter(r) \/ EndRun(r) \/ Merge(r), UNCHANGED setting
  PROVE  Shape'
<1>1. pc[r] = "work" /\ Proceed(r) /\ UNCHANGED <<setting, node, nodes, turns, spent, refunded,
                                                  generator, aborter, crashes, expect>>
  BY DEF SaveRun, Rewrite, SaveEnter, EndRun, Merge, At, purse, around, runVars
<1>2. Head(todo[r]) \notin Inserts \union {"activateParent", "pointRun", "insertBattle"}
  BY DEF SaveRun, Rewrite, SaveEnter, EndRun, Merge, At, Inserts
<1>3. ReqTypes' /\ OthersWait(r) /\ Held(r)' /\ Grows /\ Fights'
  BY <1>1, <1>2, ShapeStatement
<1>4. key[r] \in Keys /\ TurnNo(r) \in Nat /\ seen[r] \in Snapshot
  BY <1>1, RequestsTyped DEF Shape, Held, TurnNo, ReqTypes, Snapshot
<1>5. /\ cur' \in Nat /\ effects' \subseteq Keys
      /\ plot' \in {"absent", "null", "set"}
      /\ status' \in {"ACTIVE", "ENDED", "ABORTED"}
      /\ merged' \in BOOLEAN
  <2>1. /\ cur \in Nat /\ effects \subseteq Keys /\ plot \in {"absent", "null", "set"}
        /\ status \in {"ACTIVE", "ENDED", "ABORTED"} /\ merged \in BOOLEAN
    BY DEF Shape, TypeOK
  <2>2. seen[r].effects \subseteq Keys /\ seen[r].plot \in {"absent", "null", "set"}
    BY <1>4 DEF Snapshot
  <2>3. CASE SaveRun(r)
    BY <2>1, <2>2, <2>3, <1>4 DEF SaveRun, MergedPlot, around
  <2>4. CASE Rewrite(r)
    BY <2>1, <2>2, <2>4, <1>4 DEF Rewrite, around
  <2>5. CASE SaveEnter(r)
    BY <2>1, <2>2, <2>5, <1>4 DEF SaveEnter, around
  <2>6. CASE EndRun(r)
    BY <2>1, <2>6 DEF EndRun, around
  <2>7. CASE Merge(r)
    BY <2>1, <2>7 DEF Merge, runVars
  <2> QED BY <2>3, <2>4, <2>5, <2>6, <2>7
<1>6. TypeOK'
  BY <1>1, <1>3, <1>5 DEF Shape, TypeOK, ReqTypes, Snapshot
<1> QED BY <1>3, <1>6, ShapeFrom

\* A node is replaced.
LEMMA NodeReplaced ==
  ASSUME nodes \in Seq(Node), NEW i \in 1..Len(nodes), NEW e \in Node,
         nodes' = [nodes EXCEPT ![i] = e]
  PROVE  /\ nodes' \in Seq(Node) /\ Len(nodes') = Len(nodes) /\ nodes'[i] = e
         /\ \A j \in 1..Len(nodes) : j # i => nodes'[j] = nodes[j]
  BY ExceptSeq

\* SetNodeStatus keeps what the nodes are.
LEMMA StatusDoes ==
  ASSUME nodes \in Seq(Node), spent \subseteq spent', Fights, NEW i \in Nat,
         NEW s \in {"ACTIVE", "ENDED"}, SetNodeStatus(i, s)
  PROVE  Grows /\ Fights' /\ Len(nodes') = Len(nodes)
<1>1. /\ Len(nodes) \in Nat /\ Len(nodes') = Len(nodes)
      /\ \A j \in 1..Len(nodes) : /\ nodes'[j] \in Node
                                /\ nodes'[j].type = nodes[j].type
                                   /\ nodes'[j].parent = nodes[j].parent
  <2>1. Len(nodes) \in Nat /\ Len(nodes') = Len(nodes)
    BY DEF SetNodeStatus
  <2>2. ASSUME NEW j \in 1..Len(nodes), j # i
        PROVE  nodes'[j] = nodes[j] /\ nodes[j] \in Node
    BY <2>1, <2>2 DEF SetNodeStatus
  <2>3. ASSUME i \in 1..Len(nodes)
        PROVE  /\ nodes'[i] = [type |-> nodes[i].type, status |-> s,
                               parent |-> nodes[i].parent, battle |-> nodes[i].battle]
               /\ nodes[i] \in Node
    BY <2>3 DEF SetNodeStatus
  <2>4. i \in 1..Len(nodes) => nodes'[i] \in Node
    BY <2>3 DEF Node
  <2> QED BY <2>1, <2>2, <2>3, <2>4
<1>2. nodes' \in Seq(Node)
  <2>1. DOMAIN nodes = 1..Len(nodes)
    OBVIOUS
  <2>2. nodes' \in [1..Len(nodes) -> Node]
    BY <2>1, <1>1 DEF SetNodeStatus
  <2> QED BY <1>1, <2>2
<1> QED BY <1>1, <1>2 DEF Grows, Fights
\* A statement of a handler that changes the nodes.
LEMMA ShapeNodes ==
  ASSUME Shape, NEW r \in Requests, pc[r] = "work", OthersWait(r), ReqTypes', Held(r)', Grows,
         Fights',
         UNCHANGED <<setting, status, cur, node, effects, plot, turns, purse, around>>
  PROVE  Shape'
<1>1. node' \in 1..Len(nodes')
  BY RequestsTyped DEF Shape, TypeOK, Grows
<1>2. TypeOK'
  <2>1. UNCHANGED <<setting, status, cur, effects, plot, turns, spent, refunded, merged,
                    generator, aborter, crashes, expect>>
    BY DEF purse, around
  <2>2. nodes' \in Seq(Node)
    BY DEF Grows
  <2> QED BY <1>1, <2>1, <2>2 DEF Shape, TypeOK, ReqTypes, Snapshot, Node
<1> QED BY <1>2, ShapeFrom

\* EndNode keeps Shape,
LEMMA ShapeEndNode ==
  ASSUME Shape, NEW r \in Requests, EndNode(r), UNCHANGED setting
  PROVE  Shape'
<1>1. /\ pc[r] = "work" /\ Proceed(r) /\ SetNodeStatus(seen[r].node, "ENDED")
      /\ UNCHANGED <<setting, status, cur, node, effects, plot, turns, purse, around>>
      /\ Head(todo[r]) = "endNode"
  BY DEF EndNode, At, runVars
<1>2. ReqTypes /\ Held(r) /\ Orderly(todo[r]) /\ seen[r].node \in Nat /\ UNCHANGED spent /\ Fights
  BY <1>1, RequestsTyped DEF Shape, Held, ReqTypes, Snapshot, purse
<1>3. Grows /\ Fights'
  BY <1>1, <1>2, RequestsTyped, StatusDoes
<1>4. ReqTypes' /\ OthersWait(r)
  BY <1>1, <1>2, ProceedDoes
<1>5. Held(r)'
  BY <1>1, <1>2, <1>3, RequestsTyped, HeldProceeds DEF Inserts
<1> QED BY <1>1, <1>3, <1>4, <1>5, ShapeNodes

\* CombatTurn,
LEMMA ShapeCombatTurn ==
  ASSUME Shape, NEW r \in Requests, CombatTurn(r), UNCHANGED setting
  PROVE  Shape'
<1>1. /\ pc[r] = "work" /\ Proceed(r)
      /\ UNCHANGED <<setting, status, node, purse, around>>
      /\ Head(todo[r]) \in CombatStatements
      /\ turns' = WithTurn(TurnNo(r), key[r], key[r])
  BY DEF CombatTurn, At, runVars
<1>2. /\ ReqTypes /\ Held(r) /\ Orderly(todo[r]) /\ seen[r].node \in Nat /\ UNCHANGED spent
         /\ Fights
      /\ key[r] \in Keys /\ TurnNo(r) \in Nat /\ seen[r] \in Snapshot
  BY <1>1, RequestsTyped DEF Shape, Held, ReqTypes, Snapshot, purse, TurnNo
<1>3. Grows /\ Fights'
  <2>1. CASE UNCHANGED nodes
    BY <2>1, <1>2, RequestsTyped DEF Grows, Fights
  <2>2. CASE SetNodeStatus(seen[r].node, "ENDED")
    BY <1>2, <2>2, RequestsTyped, StatusDoes
  <2> QED BY <2>1, <2>2 DEF CombatTurn
<1>4. ReqTypes' /\ OthersWait(r)
  BY <1>1, <1>2, ProceedDoes
<1>5. Held(r)'
  <2>1. Head(todo[r]) \notin Inserts \union {"activateParent", "pointRun", "insertBattle"}
    BY <1>1 DEF CombatStatements, Inserts
  <2> QED BY <1>1, <1>2, <1>3, <2>1, RequestsTyped, HeldProceeds
<1>6. DOMAIN turns' \subseteq Nat /\ \A n \in DOMAIN turns' :
       turns'[n] \in [key : Keys \union {None, "enter"}, by : Keys \union {None}]
  BY <1>1, <1>2 DEF Shape, TypeOK, WithTurn
<1>7. cur' \in Nat /\ effects' \subseteq Keys /\ plot' \in {"absent", "null", "set"}
  BY <1>2 DEF CombatTurn, Shape, TypeOK, Snapshot
<1>8. TypeOK'
  <2>1. UNCHANGED <<setting, status, node, spent, refunded, merged, generator, aborter, crashes,
                    expect>>
    BY <1>1 DEF purse, around
  <2>2. node' \in 1..Len(nodes')
    BY <2>1, <1>3, RequestsTyped DEF Shape, TypeOK, Grows
  <2>3. nodes' \in Seq(Node)
    BY <1>3 DEF Grows
  <2> QED BY <2>1, <2>2, <2>3, <1>4, <1>6, <1>7 DEF Shape, TypeOK, ReqTypes, Snapshot, Node
<1> QED BY <1>3, <1>4, <1>5, <1>8, ShapeFrom

\* PointRun,
LEMMA ShapePointRun ==
  ASSUME Shape, NEW r \in Requests, PointRun(r), UNCHANGED setting
  PROVE  Shape'
<1>1. /\ pc[r] = "work" /\ Proceed(r) /\ node' = picked[r] /\ Head(todo[r]) = "pointRun"
      /\ UNCHANGED <<setting, status, cur, effects, plot, nodes, turns, purse, around>>
  BY DEF PointRun, At
<1>2. /\ ReqTypes /\ Held(r) /\ Orderly(todo[r]) /\ UNCHANGED spent
      /\ picked[r] \in 1..Len(nodes)
  BY <1>1, RequestsTyped DEF Shape, Held, purse
<1>3. Grows /\ Fights'
  BY <1>1, <1>2, RequestsTyped DEF Grows, Fights, Shape
<1>4. ReqTypes' /\ OthersWait(r)
  BY <1>1, <1>2, ProceedDoes
<1>5. Held(r)'
  BY <1>1, <1>2, <1>3, RequestsTyped, HeldProceeds, ProceedDoes
<1>6. TypeOK'
  <2>1. UNCHANGED <<setting, status, cur, effects, plot, nodes, turns, spent, refunded, merged,
                    generator, aborter, crashes, expect>>
    BY <1>1 DEF purse, around
  <2> QED BY <1>1, <1>2, <2>1, <1>4 DEF Shape, TypeOK, ReqTypes, Snapshot
<1> QED BY <1>3, <1>4, <1>5, <1>6, ShapeFrom

\* InsertBattle,
LEMMA ShapeInsertBattle ==
  ASSUME Shape, NEW r \in Requests, InsertBattle(r), UNCHANGED setting
  PROVE  Shape'
<1>1. /\ pc[r] = "work" /\ Proceed(r) /\ Head(todo[r]) = "insertBattle"
      /\ UNCHANGED <<setting, status, cur, node, effects, plot, turns, purse, around>>
  BY DEF InsertBattle, At, runVars
<1>2. /\ ReqTypes /\ Held(r) /\ Orderly(todo[r]) /\ UNCHANGED spent
      /\ picked[r] \in 1..Len(nodes) /\ Fights
  BY <1>1, RequestsTyped DEF Shape, Held, purse
<1> DEFINE p == picked[r]
<1> DEFINE new == [type |-> nodes[p].type, status |-> nodes[p].status,
                   parent |-> nodes[p].parent, battle |-> TRUE]
<1>3. Grows /\ Fights'
  <2>1. nodes' = [nodes EXCEPT ![p] = new]
    BY DEF InsertBattle
  <2>2. nodes[p] \in Node /\ Len(nodes) \in Nat
    BY <1>2, RequestsTyped
  <2>3. new \in Node
    BY <2>2 DEF Node
  <2>4. nodes' \in Seq(Node) /\ Len(nodes') = Len(nodes) /\ nodes'[p] = new
        /\ \A j \in 1..Len(nodes) : j # p => nodes'[j] = nodes[j]
    <3>1. nodes \in Seq(Node) /\ p \in 1..Len(nodes)
      BY <1>2, RequestsTyped
    <3> HIDE DEF new, p
    <3> QED BY ONLY <2>1, <2>3, <3>1, NodeReplaced
  <2>5. \A j \in 1..Len(nodes) : nodes'[j].type = nodes[j].type /\ nodes'[j].parent = nodes[j].parent
    BY <2>4
  <2> QED BY <2>2, <2>4, <2>5, <1>2 DEF Grows, Fights
<1>4. ReqTypes' /\ OthersWait(r)
  BY <1>1, <1>2, ProceedDoes
<1>5. picked'[r] \in 1..Len(nodes') \/ Leave(r)
  BY <1>2, <1>1, <1>3, RequestsTyped, ProceedDoes DEF Grows
<1>6. Held(r)'
  BY <1>1, <1>2, <1>3, <1>5, RequestsTyped, HeldProceeds
<1> QED BY <1>1, <1>3, <1>4, <1>6, ShapeNodes

\* InsertNode,
LEMMA ShapeInsertNode ==
  ASSUME Shape, NEW r \in Requests, InsertNode(r), UNCHANGED setting
  PROVE  Shape'
<1>1. PICK type \in {"HUB", "LOCATION", "COMBAT"} :
        /\ pc[r] = "work" /\ Proceed(r) /\ Head(todo[r]) \in Inserts
        /\ picked[r] = Len(nodes) + 1
        /\ nodes' = Append(nodes, [type |-> type, status |-> "ACTIVE", battle |-> FALSE,
                               parent |-> IF type = "COMBAT" THEN seen[r].node ELSE 0])
        /\ UNCHANGED <<setting, status, cur, node, effects, plot, turns, purse, around>>
  BY DEF InsertNode, At, runVars, Inserts
<1>2. /\ ReqTypes /\ Held(r) /\ Orderly(todo[r]) /\ UNCHANGED spent
      /\ seen[r].node \in 1..Len(nodes) /\ Fights
  BY <1>1, RequestsTyped DEF Shape, Held, purse
<1> DEFINE new == [type |-> type, status |-> "ACTIVE", battle |-> FALSE,
                   parent |-> IF type = "COMBAT" THEN seen[r].node ELSE 0]
<1>3. Grows /\ Fights'
  <2>1. nodes' = Append(nodes, new) /\ nodes \in Seq(Node) /\ Len(nodes) \in Nat
    BY <1>1, RequestsTyped
  <2>2. new \in Node
    BY <1>2 DEF Node
  <2>3. nodes' \in Seq(Node) /\ Len(nodes') = Len(nodes) + 1 /\ nodes'[Len(nodes) + 1] = new
        /\ \A j \in 1..Len(nodes) : nodes'[j] = nodes[j]
    BY <2>1, <2>2
  <2>4. Grows
    BY <2>1, <2>3, <1>2 DEF Grows
  <2>5. ASSUME NEW i \in 1..Len(nodes'), nodes'[i].type = "COMBAT"
        PROVE  nodes'[i].parent \in 1..Len(nodes')
    <3>1. CASE i = Len(nodes) + 1
      BY <2>1, <2>3, <2>5, <3>1, <1>2
    <3>2. CASE i \in 1..Len(nodes)
      BY <2>1, <2>3, <2>5, <3>2, <1>2 DEF Fights
    <3> QED BY <3>1, <3>2, <2>1, <2>3
  <2> QED BY <2>4, <2>5 DEF Fights
<1>4. ReqTypes' /\ OthersWait(r)
  BY <1>1, <1>2, ProceedDoes
<1>5. picked'[r] \in 1..Len(nodes') \/ Leave(r)
  <2>1. Len(nodes') = Len(nodes) + 1 /\ Len(nodes) \in Nat
    BY <1>1, RequestsTyped
  <2> QED BY <1>1, <1>2, <2>1, ProceedDoes
<1>6. Held(r)'
  BY <1>1, <1>2, <1>3, <1>5, RequestsTyped, HeldProceeds
<1> QED BY <1>1, <1>3, <1>4, <1>6, ShapeNodes

\* PickNode,
LEMMA ShapePickNode ==
  ASSUME Shape, NEW r \in Requests, PickNode(r), UNCHANGED setting
  PROVE  Shape'
<1>1. /\ pc[r] = "work" /\ Head(todo[r]) = "pickNode"
         /\ picked' = [picked EXCEPT ![r] = Len(nodes) + 1]
      /\ todo' = [todo EXCEPT ![r] = Tail(@)]
      /\ UNCHANGED <<setting, runVars, nodes, turns, purse, around, pc, key, paid, seen>>
  BY DEF PickNode, At
<1>2. /\ ReqTypes /\ Held(r) /\ Orderly(todo[r]) /\ UNCHANGED spent /\ Len(nodes) \in Nat
  BY <1>1, RequestsTyped DEF Shape, Held, purse
<1>3. Len(todo[r]) # 1 /\ Orderly(Tail(todo[r]))
  BY <1>1, <1>2, LastIsHead, TailIsOrderly
<1>4. ReqTypes' /\ OthersWait(r) /\ todo'[r] = Tail(todo[r])
  <2>1. Tail(todo[r]) \in Seq(Statements)
    BY <1>3 DEF Orderly
  <2> QED BY <1>1, <1>2, <2>1 DEF ReqTypes, OthersWait, Locals
<1>5. Held(r)'
  <2>1. Grows
    BY <1>1, <1>2, RequestsTyped DEF Grows
  <2> QED BY <1>1, <1>2, <1>3, <1>4, <2>1, RequestsTyped, HeldProceeds DEF Inserts
<1> QED BY <1>1, <1>4, <1>5, LocalShape

\* ActivateParent,
LEMMA ShapeActivateParent ==
  ASSUME Shape, NEW r \in Requests, ActivateParent(r), UNCHANGED setting
  PROVE  Shape'
<1> DEFINE parent == nodes[seen[r].node].parent
<1>1. /\ pc[r] = "work" /\ Head(todo[r]) = "activateParent"
         /\ picked' = [picked EXCEPT ![r] = parent]
      /\ todo' = [todo EXCEPT ![r] = Tail(@)] /\ SetNodeStatus(parent, "ACTIVE")
      /\ UNCHANGED <<setting, status, cur, node, effects, plot, turns, purse, around, pc, key,
                     paid, seen>>
  BY DEF ActivateParent, At, runVars
<1>2. /\ ReqTypes /\ Held(r) /\ Orderly(todo[r]) /\ UNCHANGED spent /\ Len(nodes) \in Nat /\ Fights
      /\ seen[r].node \in 1..Len(nodes)
  BY <1>1, RequestsTyped DEF Shape, Held, purse
<1>3. Len(todo[r]) # 1 /\ Orderly(Tail(todo[r])) /\ Has(todo[r], "activateParent")
  BY <1>1, <1>2, LastIsHead, TailIsOrderly, HeadIsIn
<1>4. parent \in 1..Len(nodes)
  BY <1>1, <1>2, <1>3 DEF Held, Fights
<1>5. ReqTypes' /\ OthersWait(r) /\ todo'[r] = Tail(todo[r]) /\ picked'[r] = parent
  <2>1. Tail(todo[r]) \in Seq(Statements) /\ parent \in Nat
    BY <1>2, <1>3, <1>4 DEF Orderly
  <2> QED BY <1>1, <1>2, <2>1 DEF ReqTypes, OthersWait, Locals
<1>6. Grows /\ Fights' /\ Len(nodes') = Len(nodes)
  BY <1>1, <1>2, <1>4, RequestsTyped, StatusDoes
<1>7. Held(r)'
  BY <1>1, <1>2, <1>3, <1>4, <1>5, <1>6, RequestsTyped, HeldProceeds
<1> QED BY <1>1, <1>5, <1>6, <1>7, ShapeNodes

\* and what else happens to the run.
LEMMA ShapeOutside ==
  ASSUME Shape, AbortRead \/ AbortWrite \/ FreezePlot \/ Crash, UNCHANGED setting
  PROVE  Shape'
<1>1. UNCHANGED <<setting, cur, node, effects, nodes, turns, spent, refunded, merged, expect>>
  BY DEF AbortRead, AbortWrite, FreezePlot, Crash, runVars, purse
<1>2. ReqTypes' /\ \A q \in Requests : Held(q)'
  <2>1. CASE UNCHANGED reqVars
    <3>1. UNCHANGED <<pc, key, paid, todo, seen, picked>>
      BY <2>1 DEF reqVars
    <3> QED BY <3>1, <1>1, RequestsTyped DEF ReqTypes, Held, Shape
  <2>2. CASE Crash
    <3>1. Nothing \in Snapshot
      BY DEF Nothing, Snapshot
    <3> QED BY <2>2, <3>1 DEF Crash, ReqTypes, Held
  <2> QED BY <2>1, <2>2 DEF AbortRead, AbortWrite, FreezePlot
<1>3. TypeOK'
  <2>1. /\ status' \in {"ACTIVE", "ENDED", "ABORTED"} /\ plot' \in {"absent", "null", "set"}
        /\ generator' \in {None, "running", "done", "lost"}
           /\ aborter' \in {"idle", "decided", "done"}
        /\ crashes' \in Nat
    BY DEF Shape, TypeOK, AbortRead, AbortWrite, FreezePlot, Crash, runVars
  <2> QED BY <2>1, <1>1, <1>2 DEF Shape, TypeOK, ReqTypes, Snapshot
<1> QED BY <1>1, <1>2, <1>3 DEF Shape, Fights

\* Shape holds at first.
LEMMA ShapeInit == Init => Shape
<1> SUFFICES ASSUME Init PROVE Shape
  OBVIOUS
<1> DEFINE hub == [type |-> "HUB", status |-> "ACTIVE", parent |-> 0, battle |-> FALSE]
<1>1. hub \in Node /\ nodes = <<hub>> /\ Nothing \in Snapshot
  BY DEF Init, Node, Nothing, Snapshot
<1>2. nodes \in Seq(Node) /\ Len(nodes) = 1 /\ nodes[1] = hub
  BY <1>1
<1>3. <<>> \in Seq(Statements)
  OBVIOUS
<1>4. ReqTypes
  BY <1>1, <1>3 DEF Init, ReqTypes
<1>5. TypeOK
  <2>1. DOMAIN turns \subseteq Nat /\ \A n \in DOMAIN turns :
          turns[n] \in [key : Keys \union {None, "enter"}, by : Keys \union {None}]
    BY DEF Init
  <2>2. generator \in {None, "running", "done", "lost"} /\ expect \in [Keys -> Nat]
    BY DEF Init
  <2>3. /\ setting \in Settings /\ status = "ACTIVE" /\ cur \in Nat /\ node \in 1..Len(nodes)
        /\ effects = {} /\ plot = "absent" /\ spent = {} /\ refunded = {} /\ merged = FALSE
        /\ aborter = "idle" /\ crashes = 0
    BY <1>2 DEF Init
  <2> QED BY <1>2, <1>4, <2>1, <2>2, <2>3 DEF TypeOK, ReqTypes, Snapshot, Node
<1>6. (\A r \in Requests : Held(r)) /\ Fights
  BY <1>2 DEF Init, Held, Fights
<1> QED BY <1>5, <1>6 DEF Shape

\* Every step keeps Shape.
LEMMA ShapeStep == Shape /\ [Next]_vars => Shape'
<1> SUFFICES ASSUME Shape, [Next]_vars PROVE Shape'
  OBVIOUS
<1>1. CASE UNCHANGED vars
  <2>1. UNCHANGED <<setting, status, cur, node, effects, plot, nodes, turns, spent, refunded,
                    merged, generator, aborter, crashes, expect, pc, key, paid, todo, seen, picked>>
    BY <1>1 DEF vars, runVars, purse, around, reqVars
  <2> QED BY <2>1 DEF Shape, TypeOK, Held, Fights
<1>2. CASE Next
  <2>0. UNCHANGED setting
    BY <1>2 DEF Next
  <2>1. ASSUME NEW r \in Requests, NEW k \in Keys, Submit(r, k) PROVE Shape'
    BY <2>0, <2>1, ShapeSubmit
  <2>2. ASSUME NEW r \in Requests, ReadRun(r) \/ ReadNode(r) \/ ChargeRefused(r) \/ Dispatch(r) \/ Conflict(r)
        PROVE  Shape'
    BY <2>0, <2>2, ShapeRead
  <2>3. ASSUME NEW r \in Requests, Charge(r) \/ Refund(r) PROVE Shape'
    BY <2>0, <2>3, ShapeCharge, ShapeRefund
  <2>4. ASSUME NEW r \in Requests, InsertTurn(r) \/ EnterTurn(r) PROVE Shape'
    BY <2>0, <2>4, ShapeTurns
  <2>5. ASSUME NEW r \in Requests, SaveRun(r) \/ Rewrite(r) \/ SaveEnter(r) \/ EndRun(r) \/ Merge(r) PROVE Shape'
    BY <2>0, <2>5, ShapeSaves
  <2>6. ASSUME NEW r \in Requests, EndNode(r) \/ PickNode(r) \/ InsertNode(r) \/ PointRun(r) \/ InsertBattle(r)
        PROVE  Shape'
    BY <2>0, <2>6, ShapeEndNode, ShapePickNode, ShapeInsertNode, ShapePointRun, ShapeInsertBattle
  <2>7. ASSUME NEW r \in Requests, CombatTurn(r) \/ ActivateParent(r) PROVE Shape'
    BY <2>0, <2>7, ShapeCombatTurn, ShapeActivateParent
  <2>8. CASE AbortRead \/ AbortWrite \/ FreezePlot \/ Crash
    BY <2>0, <2>8, ShapeOutside
  <2> QED BY <1>2, <2>1, <2>2, <2>3, <2>4, <2>5, <2>6, <2>7, <2>8 DEF Next
<1> QED BY <1>1, <1>2

(* Shape is an invariant.                                                  *)
THEOREM ShapeHolds == Spec => []Shape
  BY ShapeInit, ShapeStep, PTL DEF Spec

(* Every variable has its type in every reachable state, whatever the      *)
(* number of requests, keys and settings: no handler leaves                *)
(* currentNodeIndex without its node, or a refund without its charge.      *)
THEOREM TurnTypes == Spec => []TypeOK
<1>1. Shape => TypeOK
  BY DEF Shape
<1> QED BY <1>1, ShapeHolds, PTL

-----------------------------------------------------------------------------

\* Where a request stands in the log: behind the run, and after its commit its
\* turn is there; with one save outstanding the log is one turn ahead of the run.
Placed(r) ==
  /\ seen[r].cur <= cur
  /\ pc[r] = "work" =>
       /\ ~Ahead(todo[r]) =>
            TurnNo(r) \in DOMAIN turns /\ turns[TurnNo(r)] = [key |-> key[r], by |-> key[r]]
       /\ (~Ahead(todo[r]) /\ Head(todo[r]) # "save") => TurnNo(r) <= cur
       /\ Head(todo[r]) = "save" => cur = seen[r].cur
       /\ Head(todo[r]) = "saveEnter" =>
            /\ cur = TurnNo(r) /\ cur + 1 \in DOMAIN turns
            /\ turns[cur + 1] = [key |-> "enter", by |-> key[r]]

\* The request has inserted a turn and not yet saved the run.
Pending(r) == pc[r] = "work" /\ Head(todo[r]) \in {"save", "saveEnter"}

\* The log has no gap, every request has its place in it, and at most one save
\* is outstanding: whoever inserted a turn holds off all the others.
Logged ==
  /\ TurnLogContiguous
  /\ \A r \in Requests : Placed(r)
  /\ \A r, q \in Requests : (Pending(r) /\ Pending(q)) => r = q

\* The numbers of a log without a gap.
LEMMA LogNumbers ==
  ASSUME Shape, TurnLogContiguous
  PROVE  /\ cur \in Nat /\ cur \in DOMAIN turns
         /\ \A n \in Nat : n > cur + 1 => n \notin DOMAIN turns
         /\ cur + 1 \in DOMAIN turns => DOMAIN turns = 0..(cur + 1)
         /\ cur + 1 \notin DOMAIN turns => DOMAIN turns = 0..cur
         /\ \A n \in Nat : n <= cur => n \in DOMAIN turns
  BY DEF Shape, TypeOK, TurnLogContiguous

\* What is known of a request at work.
LEMMA AtWork ==
  ASSUME Shape, Logged, NEW r \in Requests, pc[r] = "work"
  PROVE  /\ Orderly(todo[r]) /\ Placed(r) /\ key[r] \in Keys
         /\ seen[r] \in Snapshot /\ TurnNo(r) \in Nat /\ seen[r].cur \in Nat
            /\ TurnNo(r) = seen[r].cur + 1
         /\ ReqTypes
<1>1. ReqTypes /\ Held(r) /\ Placed(r)
  BY RequestsTyped DEF Shape, Logged
<1>2. seen[r] \in Snapshot /\ Orderly(todo[r]) /\ key[r] \in Keys
  BY <1>1 DEF ReqTypes, Held
<1> QED BY <1>1, <1>2 DEF TurnNo, Snapshot

\* With a save outstanding the log is ahead of the run.
LEMMA PendingMeansAhead ==
  ASSUME Shape, Logged, NEW r \in Requests, Pending(r)
  PROVE  cur + 1 \in DOMAIN turns
<1>1. Orderly(todo[r]) /\ Placed(r) /\ pc[r] = "work" /\ TurnNo(r) = seen[r].cur + 1
  BY AtWork DEF Pending
<1>2. ~Ahead(todo[r])
  BY <1>1, HeadIsLate DEF Pending, Late, Commits, CombatStatements
<1> QED BY <1>1, <1>2 DEF Placed, Pending

\* A request keeps its place when the log grows at its end,
LEMMA OthersPlaced ==
  ASSUME Shape, Logged, NEW q \in Requests, UNCHANGED Locals(q), ~Pending(q), cur' \in Nat,
         cur <= cur',
         \A n \in DOMAIN turns : n \in DOMAIN turns' /\ turns'[n] = turns[n]
  PROVE  Placed(q)' /\ ~Pending(q)'
<1>1. UNCHANGED <<pc[q], key[q], todo[q],
                  seen[q]>> /\ Placed(q) /\ seen[q].cur \in Nat /\ cur \in Nat
  BY RequestsTyped DEF Locals, Logged, ReqTypes, Snapshot, Shape, TypeOK
<1>2. ~Pending(q)'
  BY <1>1 DEF Pending
<1>3. TurnNo(q)' = TurnNo(q) /\ TurnNo(q) \in Nat
  BY <1>1 DEF TurnNo
<1>4. Placed(q)'
  BY <1>1, <1>3 DEF Placed, Pending
<1> QED BY <1>2, <1>4

\* and when the log stays.
LEMMA OthersSame ==
  ASSUME Shape, Logged, NEW q \in Requests, UNCHANGED Locals(q), UNCHANGED <<turns, cur>>
  PROVE  Placed(q)' /\ (Pending(q)' <=> Pending(q))
<1>1. UNCHANGED <<pc[q], key[q], todo[q], seen[q]>> /\ Placed(q) /\ TurnNo(q)' = TurnNo(q)
  BY DEF Locals, Logged, TurnNo
<1> QED BY <1>1 DEF Placed, Pending

\* A step that leaves the log and the run keeps Logged if r keeps its place;
LEMMA LogQuiet ==
  ASSUME Shape, Logged, NEW r \in Requests, OthersWait(r), UNCHANGED <<turns, cur>>, Placed(r)',
                                                                       ~Pending(r)'
  PROVE  Logged'
<1>1. TurnLogContiguous'
  BY DEF Logged, TurnLogContiguous
<1>2. ASSUME NEW q \in Requests \ {r} PROVE Placed(q)' /\ (Pending(q)' <=> Pending(q))
  BY <1>2, OthersSame DEF OthersWait
<1> QED BY <1>1, <1>2 DEF Logged

\* so does one that adds to the log while nobody else has a save outstanding.
LEMMA LogStep ==
  ASSUME Shape, Logged, NEW r \in Requests, OthersWait(r), TurnLogContiguous', cur' \in Nat,
         cur <= cur',
         \A n \in DOMAIN turns : n \in DOMAIN turns' /\ turns'[n] = turns[n],
         Placed(r)', \A q \in Requests \ {r} : ~Pending(q)
  PROVE  Logged'
<1>1. ASSUME NEW q \in Requests \ {r} PROVE Placed(q)' /\ ~Pending(q)'
  BY <1>1, OthersPlaced DEF OthersWait
<1> QED BY <1>1 DEF Logged

\* A request that leaves has no place in the log,
LEMMA LogGone ==
  ASSUME Shape, Logged, NEW r \in Requests, Leave(r), cur' \in Nat
  PROVE  Placed(r)' /\ ~Pending(r)'
<1>1. pc'[r] = "idle" /\ seen'[r] = Nothing
  BY RequestsTyped, LeaveDoes
<1>2. seen'[r].cur = 0
  BY <1>1 DEF Nothing
<1> QED BY <1>1, <1>2 DEF Placed, Pending

\* nor has one that fails.
LEMMA LogThrows ==
  ASSUME Shape, Logged, NEW r \in Requests, Throw(r), UNCHANGED cur
  PROVE  Placed(r)' /\ ~Pending(r)'
<1>1. CASE Leave(r)
  BY <1>1, LogGone DEF Shape, TypeOK
<1>2. CASE pc'[r] = "refund" /\ UNCHANGED seen[r]
  BY <1>2 DEF Placed, Pending, Logged
<1> QED BY <1>1, <1>2, RequestsTyped, ThrowDoes

\* A statement that is not about the turns.
LEMMA LogOther ==
  ASSUME Shape, Logged, NEW r \in Requests, pc[r] = "work", UNCHANGED <<turns, cur>>,
         \/ Proceed(r)
         \/ /\ OthersWait(r) /\ Len(todo[r]) # 1 /\ todo'[r] = Tail(todo[r])
            /\ UNCHANGED <<pc[r], key[r], paid[r], seen[r]>>,
         Head(todo[r]) \notin Commits \union {"save", "enter", "saveEnter"}
  PROVE  Logged'
<1>1. Orderly(todo[r]) /\ Placed(r) /\ ReqTypes /\ cur \in Nat
  BY AtWork DEF Shape, TypeOK
<1>2. CASE Leave(r)
  BY <1>1, <1>2, LogGone, LeaveDoes, LogQuiet
<1>3. CASE OthersWait(r) /\ Len(todo[r]) # 1 /\ todo'[r] = Tail(todo[r]) /\ UNCHANGED <<pc[r],
                                                                                        key[r], seen[r]>>
  <2> DEFINE s == todo[r]
  <2>1. /\ (Head(s) = "insert") <=> (Head(Tail(s)) = "save")
        /\ (Head(s) = "enter") <=> (Head(Tail(s)) = "saveEnter")
        /\ Ahead(s) => Head(s) \in Commits \/ Ahead(Tail(s))
    BY <1>1, <1>3, TailIsOrderly
  <2>2. Head(Tail(s)) # "save" /\ Head(Tail(s)) # "saveEnter" /\ (~Ahead(Tail(s)) => ~Ahead(s))
    BY <2>1 DEF Commits
  <2>3. Placed(r)'
    BY <1>1, <1>3, <2>2 DEF Placed, TurnNo
  <2>4. ~Pending(r)'
    BY <1>3, <2>2 DEF Pending
  <2> QED BY <1>3, <2>3, <2>4, LogQuiet
<1> QED BY <1>1, <1>2, <1>3, ProceedDoes

\* Before the dispatch a request does not touch the log.
LEMMA LogRead ==
  ASSUME Shape, Logged, Shape', NEW r \in Requests,
         \/ \E k \in Keys : Submit(r, k)
         \/ ReadRun(r) \/ ReadNode(r) \/ Charge(r) \/ ChargeRefused(r) \/ Dispatch(r) \/ Conflict(r) \/ Refund(r)
  PROVE  Logged'
<1>0. ReqTypes /\ Placed(r) /\ UNCHANGED <<turns, cur>> /\ cur \in Nat
  BY RequestsTyped DEF Shape, TypeOK, Logged, runVars, Submit, ReadRun, ReadNode, Charge,
                       ChargeRefused, Dispatch, Conflict, Refund
<1>1. CASE Leave(r)
  BY <1>1, <1>0, LeaveDoes, LogGone, LogQuiet
<1>2. CASE Throw(r)
  BY <1>2, <1>0, ThrowDoes, LogThrows, LogQuiet
<1>3. CASE \E k \in Keys : Submit(r, k)
  <2>1. OthersWait(r) /\ pc'[r] = "readRun" /\ UNCHANGED seen[r]
    BY <1>0, <1>3 DEF Submit, ReqTypes, OthersWait, Locals
  <2> QED BY <1>0, <2>1, LogQuiet DEF Placed, Pending
<1>4. CASE ReadRun(r) /\ ~Leave(r)
  <2>1. OthersWait(r) /\ pc'[r] = "readNode" /\ seen'[r].cur = cur
    BY <1>0, <1>4 DEF ReadRun, Goto, ReqTypes, OthersWait, Locals
  <2>2. Placed(r)' /\ ~Pending(r)'
    BY <1>0, <2>1 DEF Placed, Pending
  <2> QED BY <1>0, <2>1, <2>2, LogQuiet
<1>5. CASE (ReadNode(r) \/ Charge(r)) /\ ~Leave(r)
  <2>1. OthersWait(r) /\ pc'[r] # "work" /\ UNCHANGED seen[r]
    BY <1>0, <1>5 DEF ReadNode, Charge, Goto, ReqTypes, OthersWait, Locals
  <2> QED BY <1>0, <2>1, LogQuiet DEF Placed, Pending
<1>6. CASE Dispatch(r) /\ ~Throw(r)
  <2>1. PICK p \in PlansOf(nodes[seen[r].node].type) : todo' = [todo EXCEPT ![r] = Plan[p]]
    BY <1>6 DEF Dispatch
  <2>2. pc' = [pc EXCEPT ![r] = "work"] /\ UNCHANGED <<key, paid, seen, picked>>
    BY <1>6 DEF Dispatch
  <2>3. OthersWait(r) /\ UNCHANGED seen[r] /\ todo'[r] = Plan[p]
    BY <1>0, <2>1, <2>2 DEF ReqTypes, OthersWait, Locals
  <2>4. p \in DOMAIN Plan
    BY <1>6, RequestsTyped, PlanChosen DEF Dispatch, Shape, Held
  <2>5. Head(Plan[p]) \notin {"save", "saveEnter"} /\ Ahead(Plan[p])
    BY <2>4, PlansAreOrderly, PlansCommit
  <2> QED BY <1>0, <2>3, <2>5, LogQuiet DEF Placed, Pending
<1> QED BY <1>1, <1>2, <1>3, <1>4, <1>5, <1>6 DEF ReadRun, ReadNode, Charge, ChargeRefused,
                                                  Dispatch, Conflict, Refund
\* A new turn is added at the end of the log.
LEMMA Added ==
  ASSUME Shape, TurnLogContiguous, cur + 1 \notin DOMAIN turns, NEW k, NEW by,
         turns' = WithTurn(cur + 1, k, by)
  PROVE  /\ DOMAIN turns' = 0..(cur + 1)
         /\ turns'[cur + 1] = [key |-> k, by |-> by]
         /\ \A n \in DOMAIN turns : n \in DOMAIN turns' /\ turns'[n] = turns[n]
<1>1. DOMAIN turns = 0..cur /\ cur \in Nat
  BY LogNumbers
<1> QED BY <1>1 DEF WithTurn

\* A free turn number is the next one, and then no save is outstanding.
LEMMA FreshIsNext ==
  ASSUME Shape, Logged, NEW r \in Requests, pc[r] = "work", TurnNo(r) \notin DOMAIN turns
  PROVE  TurnNo(r) = cur + 1 /\ \A q \in Requests : ~Pending(q)
<1>1. TurnNo(r) = seen[r].cur + 1 /\ seen[r].cur \in Nat /\ seen[r].cur <= cur
  BY AtWork DEF Placed
<1>2. TurnNo(r) = cur + 1
  BY <1>1, LogNumbers DEF Logged
<1> QED BY <1>2, PendingMeansAhead

\* Each statement about the turns keeps Logged: InsertTurn,
LEMMA LogInsertTurn ==
  ASSUME Shape, Logged, NEW r \in Requests, InsertTurn(r)
  PROVE  Logged'
<1>1. /\ pc[r] = "work" /\ Head(todo[r]) = "insert" /\ TurnNo(r) \notin DOMAIN turns
      /\ turns' = WithTurn(TurnNo(r), key[r], key[r]) /\ Proceed(r) /\ UNCHANGED cur
  BY DEF InsertTurn, At, Unique, runVars
<1>2. /\ Orderly(todo[r]) /\ ReqTypes /\ TurnNo(r) = cur + 1 /\ TurnNo(r) = seen[r].cur + 1
         /\ seen[r].cur \in Nat
      /\ \A q \in Requests : ~Pending(q)
  BY <1>1, AtWork, FreshIsNext
<1>3. /\ DOMAIN turns' = 0..(cur + 1) /\ turns'[cur + 1] = [key |-> key[r], by |-> key[r]]
      /\ \A n \in DOMAIN turns : n \in DOMAIN turns' /\ turns'[n] = turns[n]
  BY <1>1, <1>2, Added DEF Logged
<1>4. OthersWait(r) /\ todo'[r] = Tail(todo[r]) /\ Len(todo[r]) # 1 /\ UNCHANGED <<pc[r], key[r],
                                                                                   seen[r]>>
  BY <1>1, <1>2, ProceedDoes, LastIsHead
<1>5. Head(Tail(todo[r])) = "save"
  BY <1>1, <1>2, <1>4, TailIsOrderly
<1>6. cur \in Nat /\ seen[r].cur = cur
  BY <1>2, LogNumbers DEF Logged
<1>7. TurnNo(r)' = cur + 1
  BY <1>2, <1>4 DEF TurnNo
<1>8. Placed(r)'
  <2>1. TurnNo(r)' \in DOMAIN turns' /\ turns'[TurnNo(r)'] = [key |-> key'[r], by |-> key'[r]]
    BY <1>3, <1>4, <1>6, <1>7
  <2>2. Head(todo'[r]) = "save" /\ cur' = seen'[r].cur /\ seen'[r].cur <= cur'
    <3>1. Head(todo'[r]) = "save"
      BY ONLY <1>4, <1>5
    <3>2. cur' = seen'[r].cur /\ cur' \in Nat
      BY <1>1, <1>4, <1>6
    <3> QED BY <3>1, <3>2
  <2> QED BY ONLY <2>1, <2>2 DEF Placed
<1>9. TurnLogContiguous'
  BY <1>1, <1>3 DEF TurnLogContiguous
<1> QED BY <1>1, <1>2, <1>3, <1>4, <1>6, <1>8, <1>9, LogStep

\* EnterTurn,
LEMMA LogEnterTurn ==
  ASSUME Shape, Logged, NEW r \in Requests, EnterTurn(r)
  PROVE  Logged'
<1>1. /\ pc[r] = "work" /\ Head(todo[r]) = "enter" /\ TurnNo(r) + 1 \notin DOMAIN turns
      /\ turns' = WithTurn(TurnNo(r) + 1, "enter", key[r]) /\ Proceed(r) /\ UNCHANGED cur
  BY DEF EnterTurn, At, runVars
<1>2. /\ Orderly(todo[r]) /\ ReqTypes /\ TurnNo(r) = seen[r].cur + 1 /\ seen[r].cur \in Nat
         /\ Placed(r)
      /\ cur \in Nat
  BY <1>1, AtWork, LogNumbers DEF Logged
<1>3. ~Ahead(todo[r])
  BY <1>1, <1>2, HeadIsLate DEF Late, Commits, CombatStatements
<1>4. /\ TurnNo(r) \in DOMAIN turns /\ turns[TurnNo(r)] = [key |-> key[r], by |-> key[r]]
      /\ TurnNo(r) <= cur
  BY <1>1, <1>2, <1>3 DEF Placed
<1>5. TurnNo(r) = cur /\ cur + 1 \notin DOMAIN turns
  BY <1>1, <1>2, <1>4, LogNumbers DEF Logged
<1>6. /\ DOMAIN turns' = 0..(cur + 1) /\ turns'[cur + 1] = [key |-> "enter", by |-> key[r]]
      /\ \A n \in DOMAIN turns : n \in DOMAIN turns' /\ turns'[n] = turns[n]
  BY <1>1, <1>5, Added DEF Logged
<1>7. OthersWait(r) /\ todo'[r] = Tail(todo[r]) /\ Len(todo[r]) # 1 /\ UNCHANGED <<pc[r], key[r],
                                                                                   seen[r]>>
  BY <1>1, <1>2, ProceedDoes, LastIsHead
<1>8. Head(Tail(todo[r])) = "saveEnter"
  BY <1>1, <1>2, <1>7, TailIsOrderly
<1>9. TurnNo(r)' = cur
  BY <1>5, <1>7 DEF TurnNo
<1>10. turns'[cur] = [key |-> key[r], by |-> key[r]] /\ cur \in DOMAIN turns'
  BY <1>4, <1>5, <1>6
<1>11. Placed(r)'
  <2>1. seen'[r].cur <= cur'
    BY <1>1, <1>2, <1>7, <1>5
  <2>2. TurnNo(r)' \in DOMAIN turns' /\ turns'[TurnNo(r)'] = [key |-> key'[r], by |-> key'[r]]
    BY <1>7, <1>9, <1>10
  <2>3. Head(todo'[r]) = "saveEnter" /\ TurnNo(r)' <= cur' /\ cur' = TurnNo(r)'
    <3>1. Head(todo'[r]) = "saveEnter"
      BY ONLY <1>7, <1>8
    <3>2. TurnNo(r)' = cur' /\ cur' \in Nat
      BY <1>1, <1>2, <1>9
    <3> QED BY <3>1, <3>2
  <2>4. cur' + 1 \in DOMAIN turns' /\ turns'[cur' + 1] = [key |-> "enter", by |-> key'[r]]
    BY <1>1, <1>2, <1>6, <1>7
  <2> QED BY ONLY <2>1, <2>2, <2>3, <2>4 DEF Placed
<1>12. TurnLogContiguous'
  BY <1>1, <1>6 DEF TurnLogContiguous
<1>13. \A q \in Requests \ {r} : ~Pending(q)
  BY <1>5, PendingMeansAhead
<1> QED BY <1>1, <1>2, <1>6, <1>7, <1>11, <1>12, <1>13, LogStep

\* the saves,
LEMMA LogSaves ==
  ASSUME Shape, Logged, NEW r \in Requests, SaveRun(r) \/ SaveEnter(r)
  PROVE  Logged'
<1>1. /\ pc[r] = "work" /\ Head(todo[r]) \in {"save", "saveEnter"} /\ Proceed(r) /\ UNCHANGED turns
      /\ cur' = IF Head(todo[r]) = "save" THEN TurnNo(r) ELSE TurnNo(r) + 1
  BY DEF SaveRun, SaveEnter, At, runVars
<1>2. /\ Orderly(todo[r]) /\ ReqTypes /\ TurnNo(r) = seen[r].cur + 1 /\ seen[r].cur \in Nat
         /\ Placed(r)
      /\ cur \in Nat
  BY <1>1, AtWork, LogNumbers DEF Logged
<1>3. Pending(r) /\ ~Ahead(todo[r])
  BY <1>1, <1>2, HeadIsLate DEF Late, Commits, CombatStatements, Pending
<1>4. \A q \in Requests \ {r} : ~Pending(q)
  BY <1>3 DEF Logged
<1>5. cur' = cur + 1 /\ cur + 1 \in DOMAIN turns
  BY <1>1, <1>2, <1>3, PendingMeansAhead DEF Placed
<1>6. TurnLogContiguous'
  <2>1. DOMAIN turns = 0..(cur + 1)
    BY <1>5, LogNumbers DEF Logged
  <2> QED BY <2>1, <1>1, <1>5 DEF TurnLogContiguous
<1>7. Placed(r)'
  <2>1. CASE Leave(r)
    BY <2>1, <1>2, <1>5, LogGone
  <2>2. CASE Len(todo[r]) # 1 /\ todo'[r] = Tail(todo[r]) /\ UNCHANGED <<pc[r], key[r], seen[r]>>
    <3>1. Head(todo'[r]) # "save" /\ Head(todo'[r]) # "saveEnter"
      BY <1>1, <1>2, <2>2, TailIsOrderly
    <3>2. TurnNo(r)' = TurnNo(r) /\ TurnNo(r) <= cur + 1
      BY <2>2, <1>2 DEF TurnNo, Placed
    <3>3. TurnNo(r) \in DOMAIN turns /\ turns[TurnNo(r)] = [key |-> key[r], by |-> key[r]]
      BY <1>1, <1>2, <1>3 DEF Placed
    <3>4. seen'[r].cur <= cur'
      BY <1>2, <1>5, <2>2 DEF Placed
    <3> QED BY <1>1, <1>5, <2>2, <3>1, <3>2, <3>3, <3>4 DEF Placed
  <2> QED BY <2>1, <2>2, <1>1, <1>2, ProceedDoes
<1>8. OthersWait(r)
  BY <1>1, <1>2, ProceedDoes
<1> QED BY <1>1, <1>2, <1>4, <1>5, <1>6, <1>7, <1>8, LogStep

\* and CombatTurn.
LEMMA LogCombatTurn ==
  ASSUME Shape, Logged, NEW r \in Requests, CombatTurn(r)
  PROVE  Logged'
<1>1. /\ pc[r] = "work" /\ Head(todo[r]) \in CombatStatements /\ TurnNo(r) \notin DOMAIN turns
      /\ turns' = WithTurn(TurnNo(r), key[r], key[r]) /\ Proceed(r) /\ cur' = TurnNo(r)
  BY DEF CombatTurn, At, Unique, CombatStatements
<1>2. /\ Orderly(todo[r]) /\ ReqTypes /\ TurnNo(r) = cur + 1 /\ TurnNo(r) = seen[r].cur + 1
         /\ seen[r].cur \in Nat
      /\ \A q \in Requests : ~Pending(q)
  BY <1>1, AtWork, FreshIsNext
<1>3. /\ DOMAIN turns' = 0..(cur + 1) /\ turns'[cur + 1] = [key |-> key[r], by |-> key[r]]
      /\ \A n \in DOMAIN turns : n \in DOMAIN turns' /\ turns'[n] = turns[n]
  BY <1>1, <1>2, Added DEF Logged
<1>4. cur \in Nat /\ cur' = cur + 1 /\ seen[r].cur = cur
  BY <1>1, <1>2, LogNumbers DEF Logged
<1>5. Placed(r)'
  <2>1. CASE Leave(r)
    BY <2>1, <1>2, <1>4, LogGone
  <2>2. CASE Len(todo[r]) # 1 /\ todo'[r] = Tail(todo[r]) /\ UNCHANGED <<pc[r], key[r], seen[r]>>
    <3>1. Head(todo'[r]) # "save" /\ Head(todo'[r]) # "saveEnter"
      BY <1>1, <1>2, <2>2, TailIsOrderly DEF CombatStatements
    <3>2. TurnNo(r)' = cur + 1
      BY <2>2, <1>2 DEF TurnNo
    <3>3. seen'[r].cur <= cur'
      BY <1>4, <2>2
    <3>4. TurnNo(r)' \in DOMAIN turns' /\ turns'[TurnNo(r)'] = [key |-> key'[r], by |-> key'[r]]
      BY <1>3, <1>4, <2>2, <3>2
    <3>5. TurnNo(r)' <= cur'
      BY <1>4, <3>2
    <3> QED BY ONLY <3>1, <3>3, <3>4, <3>5 DEF Placed
  <2> QED BY <2>1, <2>2, <1>1, <1>2, ProceedDoes
<1>6. OthersWait(r)
  BY <1>1, <1>2, ProceedDoes
<1>7. TurnLogContiguous'
  BY <1>3, <1>4 DEF TurnLogContiguous
<1> QED BY <1>2, <1>3, <1>4, <1>5, <1>6, <1>7, LogStep

\* The statements that are not about turns.
LEMMA OtherStatements ==
  ASSUME Shape, NEW r \in Requests,
         \/ Rewrite(r) \/ EndNode(r) \/ PickNode(r) \/ InsertNode(r) \/ PointRun(r) \/ InsertBattle(r)
         \/ ActivateParent(r) \/ EndRun(r) \/ Merge(r)
  PROVE  /\ pc[r] = "work" /\ UNCHANGED <<turns, cur, purse, crashes>>
         /\ Head(todo[r]) \notin Commits \union {"save", "enter", "saveEnter"}
         /\ \/ Proceed(r)
            \/ /\ OthersWait(r) /\ Len(todo[r]) # 1 /\ todo'[r] = Tail(todo[r])
               /\ UNCHANGED <<pc[r], key[r], paid[r], seen[r]>>
<1>0. UNCHANGED <<turns, cur, purse, crashes>>
  BY DEF Rewrite, EndNode, PickNode, InsertNode, PointRun, InsertBattle, ActivateParent, EndRun,
         Merge, runVars, around
<1>1. CASE Rewrite(r) \/ EndNode(r) \/ PointRun(r) \/ InsertBattle(r) \/ EndRun(r) \/ Merge(r)
  BY <1>0, <1>1 DEF Rewrite, EndNode, PointRun, InsertBattle, EndRun, Merge, At, Commits,
                    CombatStatements
<1>2. CASE InsertNode(r)
  <2>1. pc[r] = "work" /\ Head(todo[r]) \in Inserts /\ Proceed(r)
    BY <1>2 DEF InsertNode, At, Inserts
  <2> QED BY <1>0, <2>1 DEF Inserts, Commits, CombatStatements
<1>3. CASE PickNode(r) \/ ActivateParent(r)
  <2>1. pc[r] = "work" /\ Head(todo[r]) \in {"pickNode", "activateParent"}
    BY <1>3 DEF PickNode, ActivateParent, At
  <2>2. Len(todo[r]) # 1
    BY <2>1, LastIsHead DEF Shape, Held
  <2>3. todo' = [todo EXCEPT ![r] = Tail(@)] /\ UNCHANGED <<pc, key, paid, seen>>
        /\ \A q \in Requests \ {r} : picked'[q] = picked[q]
    BY <1>3, RequestsTyped DEF PickNode, ActivateParent, ReqTypes
  <2>4. OthersWait(r) /\ todo'[r] = Tail(todo[r])
    BY <2>3, RequestsTyped DEF ReqTypes, OthersWait, Locals
  <2> QED BY <1>0, <2>1, <2>2, <2>3, <2>4 DEF Commits, CombatStatements
<1> QED BY <1>1, <1>2, <1>3

\* Logged holds at first.
LEMMA LogInit == Init => Logged
  BY DEF Init, Logged, TurnLogContiguous, Placed, Pending, Nothing

\* What else happens to the run keeps Logged.
LEMMA LogOutside ==
  ASSUME Shape, Logged, AbortRead \/ AbortWrite \/ FreezePlot \/ Crash
  PROVE  Logged'
<1>1. UNCHANGED <<turns, cur>> /\ cur \in Nat
  BY DEF AbortRead, AbortWrite, FreezePlot, Crash, runVars, Shape, TypeOK
<1>2. CASE UNCHANGED reqVars
  BY <1>1, <1>2 DEF reqVars, Logged, TurnLogContiguous, Placed, Pending, TurnNo
<1>3. CASE Crash
  <2>1. Nothing.cur = 0
    BY DEF Nothing
  <2>2. \A q \in Requests : pc'[q] = "idle" /\ seen'[q] = Nothing
    BY <1>3 DEF Crash
  <2>3. \A q \in Requests : Placed(q)' /\ ~Pending(q)'
    BY <1>1, <2>1, <2>2 DEF Placed, Pending
  <2> QED BY <1>1, <2>3 DEF Logged, TurnLogContiguous
<1> QED BY <1>2, <1>3 DEF AbortRead, AbortWrite, FreezePlot

\* Every step keeps Logged.
LEMMA LogNext == Shape /\ Shape' /\ Logged /\ [Next]_vars => Logged'
<1> SUFFICES ASSUME Shape, Shape', Logged, [Next]_vars PROVE Logged'
  OBVIOUS
<1>1. CASE UNCHANGED vars
  <2>1. UNCHANGED <<cur, turns, pc, key, todo, seen>>
    BY <1>1 DEF vars, runVars, reqVars
  <2> QED BY <2>1 DEF Logged, TurnLogContiguous, Placed, Pending, TurnNo
<1>2. CASE Next
  <2>1. ASSUME NEW r \in Requests,
               \/ \E k \in Keys : Submit(r, k)
               \/ ReadRun(r) \/ ReadNode(r) \/ Charge(r) \/ ChargeRefused(r) \/ Dispatch(r) \/ Conflict(r)
               \/ Refund(r)
        PROVE  Logged'
    BY <2>1, LogRead
  <2>2. ASSUME NEW r \in Requests, InsertTurn(r) \/ EnterTurn(r) \/ CombatTurn(r) PROVE Logged'
    BY <2>2, LogInsertTurn, LogEnterTurn, LogCombatTurn
  <2>3. ASSUME NEW r \in Requests, SaveRun(r) \/ SaveEnter(r) PROVE Logged'
    BY <2>3, LogSaves
  <2>4. ASSUME NEW r \in Requests,
               \/ Rewrite(r) \/ EndNode(r) \/ PickNode(r) \/ InsertNode(r) \/ PointRun(r) \/ InsertBattle(r)
               \/ ActivateParent(r) \/ EndRun(r) \/ Merge(r)
        PROVE  Logged'
    BY <2>4, OtherStatements, LogOther
  <2>5. CASE AbortRead \/ AbortWrite \/ FreezePlot \/ Crash
    BY <2>5, LogOutside
  <2> QED BY <1>2, <2>1, <2>2, <2>3, <2>4, <2>5 DEF Next
<1> QED BY <1>1, <1>2

(* Logged is an invariant.                                                 *)
THEOREM LogHolds == Spec => []Logged
<1>1. Init => Logged
  BY LogInit
<1>2. Shape /\ Shape' /\ Logged /\ [Next]_vars => Logged'
  BY LogNext
<1> QED BY <1>1, <1>2, ShapeHolds, PTL DEF Spec

(* However many submissions race for a turn number, with any number of     *)
(* keys, failures and crashes, the turn log has no gap and the run is at   *)
(* its end or one turn behind: the unique index lets one of them insert,   *)
(* and everybody else fails until that one has saved the run.              *)
THEOREM LogHasNoGap == Spec => []TurnLogContiguous
<1>1. Logged => TurnLogContiguous
  BY DEF Logged
<1> QED BY <1>1, LogHolds, PTL

-----------------------------------------------------------------------------

\* The log of the next state.
WillHaveTurn(k) == \E n \in DOMAIN turns' : turns'[n].key = k
TurnsStay == \A n \in DOMAIN turns : n \in DOMAIN turns' /\ turns'[n] = turns[n]

\* What the statements that write a turn do to the log.
LEMMA TurnWritten ==
  ASSUME Shape, Logged, NEW r \in Requests, InsertTurn(r) \/ CombatTurn(r) \/ EnterTurn(r)
  PROVE  /\ pc[r] = "work" /\ Proceed(r) /\ cur + 1 \notin DOMAIN turns /\ UNCHANGED <<purse,
                                                                                       crashes>>
         /\ DOMAIN turns = 0..cur /\ DOMAIN turns' = 0..(cur + 1)
         /\ TurnsStay
         /\ \/ /\ Head(todo[r]) \in Commits /\ ~HasTurn(key[r]) /\ TurnNo(r) = cur + 1
               /\ turns'[cur + 1] = [key |-> key[r], by |-> key[r]]
            \/ /\ Head(todo[r]) = "enter" /\ TurnNo(r) = cur /\ turns[cur] = [key |-> key[r], by |-> key[r]]
               /\ turns'[cur + 1] = [key |-> "enter", by |-> key[r]]
<1>1. CASE InsertTurn(r) \/ CombatTurn(r)
  <2>1. /\ pc[r] = "work" /\ Proceed(r) /\ UNCHANGED <<purse, crashes>>
        /\ Head(todo[r]) \in Commits /\ Unique(TurnNo(r), key[r])
        /\ turns' = WithTurn(TurnNo(r), key[r], key[r])
    BY <1>1 DEF InsertTurn, CombatTurn, At, Commits, around
  <2>2. TurnNo(r) = cur + 1
    BY <2>1, FreshIsNext DEF Unique
  <2>3. cur + 1 \notin DOMAIN turns /\ ~HasTurn(key[r])
    BY <2>1, <2>2 DEF Unique
  <2>4. turns' = WithTurn(cur + 1, key[r], key[r])
    BY <2>1, <2>2
  <2> QED BY <2>1, <2>2, <2>3, <2>4, Added, LogNumbers DEF Logged, TurnsStay
<1>2. CASE EnterTurn(r)
  <2>1. /\ pc[r] = "work" /\ Proceed(r) /\ UNCHANGED <<purse, crashes>>
        /\ Head(todo[r]) = "enter" /\ TurnNo(r) + 1 \notin DOMAIN turns
        /\ turns' = WithTurn(TurnNo(r) + 1, "enter", key[r])
    BY <1>2 DEF EnterTurn, At, around
  <2>2. /\ Orderly(todo[r]) /\ TurnNo(r) \in Nat /\ Placed(r) /\ cur \in Nat
    BY <2>1, AtWork, LogNumbers DEF Logged
  <2>3. ~Ahead(todo[r])
    BY <2>1, <2>2, HeadIsLate DEF Late, Commits, CombatStatements
  <2>4. /\ TurnNo(r) \in DOMAIN turns /\ turns[TurnNo(r)] = [key |-> key[r], by |-> key[r]]
        /\ TurnNo(r) <= cur
    BY <2>1, <2>2, <2>3 DEF Placed
  <2>5. TurnNo(r) = cur /\ cur + 1 \notin DOMAIN turns
    BY <2>1, <2>2, <2>4, LogNumbers DEF Logged
  <2>6. turns' = WithTurn(cur + 1, "enter", key[r])
    BY <2>1, <2>5
  <2> QED BY <2>1, <2>4, <2>5, <2>6, Added, LogNumbers DEF Logged, TurnsStay
<1> QED BY <1>1, <1>2

\* A request that has nothing left to do has its turn.
LEMMA LastHasTurn ==
  ASSUME Shape, Logged, NEW r \in Requests, pc[r] = "work", Len(todo[r]) = 1,
         Head(todo[r]) \notin Commits
  PROVE  HasTurn(key[r])
<1>1. ~Ahead(todo[r])
  BY AtWork, LastIsHead
<1>2. TurnNo(r) \in DOMAIN turns /\ turns[TurnNo(r)] = [key |-> key[r], by |-> key[r]]
  BY <1>1, AtWork DEF Placed
<1> QED BY <1>2 DEF HasTurn

\* A step keeps the charges matched if the charge of r is kept, refunded or
\* spent on a turn, and new turns have their charge.
LEMMA ChargesFrom ==
  ASSUME Shape, ChargesMatchTurns, NEW r \in Requests, OthersWait(r), TurnsStay,
         UNCHANGED <<spent, crashes>>, refunded \subseteq refunded',
         paid[r] => \/ paid'[r] /\ key'[r] = key[r]
                   \/ key[r] \in refunded'
                   \/ WillHaveTurn(key[r]),
         \A n \in DOMAIN turns' \ DOMAIN turns : turns'[n].by \in spent
  PROVE  ChargesMatchTurns'
<1>1. ASSUME crashes = 0, NEW k \in spent, k \notin refunded'
      PROVE  HasTurn(k)' \/ \E q \in Requests : key'[q] = k /\ paid'[q]
  <2>1. k \notin refunded
    BY <1>1
  <2>2. CASE HasTurn(k)
    BY <2>2 DEF HasTurn, TurnsStay
  <2>3. CASE \E q \in Requests : key[q] = k /\ paid[q]
    <3>1. PICK q \in Requests : key[q] = k /\ paid[q]
      BY <2>3
    <3>2. CASE q = r
      BY <1>1, <3>1, <3>2 DEF WillHaveTurn, HasTurn
    <3>3. CASE q # r
      BY <3>1, <3>3 DEF OthersWait, Locals
    <3> QED BY <3>2, <3>3
  <2> QED BY <1>1, <2>1, <2>2, <2>3 DEF ChargesMatchTurns
<1>2. ASSUME NEW n \in DOMAIN turns', turns'[n].by # None PROVE turns'[n].by \in spent
  BY <1>2 DEF ChargesMatchTurns, TurnsStay
<1> QED BY <1>1, <1>2 DEF ChargesMatchTurns

\* A request keeps its charge until its turn is there.
LEMMA ProceedCharges ==
  ASSUME Shape, Logged, NEW r \in Requests, pc[r] = "work",
         \/ Proceed(r)
         \/ /\ OthersWait(r) /\ Len(todo[r]) # 1 /\ todo'[r] = Tail(todo[r])
            /\ UNCHANGED <<pc[r], key[r], paid[r], seen[r]>>,
         Head(todo[r]) \notin Commits, TurnsStay
  PROVE  /\ OthersWait(r)
         /\ (paid'[r] = paid[r] /\ key'[r] = key[r]) \/ WillHaveTurn(key[r])
<1>1. Orderly(todo[r]) /\ ReqTypes
  BY AtWork
<1>2. CASE Len(todo[r]) = 1
  <2>1. HasTurn(key[r])
    BY <1>2, LastHasTurn
  <2>2. WillHaveTurn(key[r])
    BY <2>1 DEF HasTurn, WillHaveTurn, TurnsStay
  <2> QED BY <1>1, <1>2, <2>2, ProceedDoes
<1>3. CASE Len(todo[r]) # 1
  BY <1>1, <1>3, ProceedDoes
<1> QED BY <1>2, <1>3

\* Every step keeps the charges matched.
LEMMA ChargesNext ==
  ASSUME Shape, Shape', Logged, ChargesMatchTurns, [Next]_vars
  PROVE  ChargesMatchTurns'
<1>1. CASE UNCHANGED vars
  <2>1. UNCHANGED <<turns, spent, refunded, crashes, key, paid>>
    BY <1>1 DEF vars, purse, around, reqVars
  <2> QED BY <2>1 DEF ChargesMatchTurns, HasTurn
<1>2. ASSUME NEW r \in Requests,
             \/ \E k \in Keys : Submit(r, k)
             \/ ReadRun(r) \/ ReadNode(r) \/ ChargeRefused(r) \/ Dispatch(r) \/ Conflict(r) \/ Refund(r)
      PROVE  ChargesMatchTurns'
  <2>0. ReqTypes /\ Held(r) /\ UNCHANGED <<turns, spent, crashes>> /\ refunded \subseteq refunded'
    BY <1>2, RequestsTyped
       DEF Shape, purse, around, Submit, ReadRun, ReadNode, ChargeRefused, Dispatch, Conflict,
           Refund
  <2>1. OthersWait(r)
    <3>1. CASE Leave(r)
      BY <2>0, <3>1, LeaveDoes
    <3>2. CASE Throw(r)
      BY <2>0, <3>2, ThrowDoes
    <3> QED BY <1>2, <2>0, <3>1, <3>2
        DEF OthersWait, Locals, ReqTypes, Goto, Submit, ReadRun, ReadNode, ChargeRefused,
            Dispatch, Conflict, Refund
  <2>2. paid[r] => (paid'[r] /\ key'[r] = key[r]) \/ key[r] \in refunded'
    <3>1. CASE paid[r] /\ (Dispatch(r) \/ Conflict(r))
      BY <2>0, <3>1, ThrowDoes DEF Dispatch, Conflict
    <3>2. CASE Refund(r)
      BY <3>2 DEF Refund
    <3>3. CASE (\E k \in Keys : Submit(r, k)) \/ ReadRun(r) \/ ReadNode(r) \/ ChargeRefused(r)
      BY <2>0, <3>3 DEF Held, Submit, ReadRun, ReadNode, ChargeRefused
    <3> QED BY <1>2, <3>1, <3>2, <3>3
  <2> QED BY <2>0, <2>1, <2>2, ChargesFrom DEF TurnsStay
<1>3. ASSUME NEW r \in Requests, Charge(r) PROVE ChargesMatchTurns'
  <2>0. ReqTypes /\ Held(r) /\ UNCHANGED <<turns, refunded, crashes, key>>
    BY <1>3, RequestsTyped DEF Shape, around, Charge, Goto
  <2>1. /\ pc[r] = "charge" /\ paid' = [paid EXCEPT ![r] = key[r] \notin spent]
        /\ spent' = spent \union {key[r]}
    BY <1>3 DEF Charge
  <2>2. ~paid[r] /\ (paid'[r] <=> key[r] \notin spent) /\ \A q \in Requests \ {r} : paid'[q] = paid[q]
    BY <2>0, <2>1 DEF Held, ReqTypes
  <2> QED BY <2>0, <2>1, <2>2 DEF ChargesMatchTurns, HasTurn
<1>4. ASSUME NEW r \in Requests, InsertTurn(r) \/ CombatTurn(r) \/ EnterTurn(r) PROVE ChargesMatchTurns'
  <2>1. /\ pc[r] = "work" /\ Proceed(r) /\ UNCHANGED <<spent, refunded, crashes>> /\ TurnsStay
        /\ DOMAIN turns = 0..cur /\ DOMAIN turns' = 0..(cur + 1)
        /\ turns'[cur + 1].by = key[r]
        /\ Head(todo[r]) \in Commits => turns'[cur + 1].key = key[r]
    <3>1. \/ turns'[cur + 1] = [key |-> key[r], by |-> key[r]]
          \/ Head(todo[r]) = "enter" /\ turns'[cur + 1] = [key |-> "enter", by |-> key[r]]
      BY <1>4, TurnWritten
    <3>2. "enter" \notin Commits
      BY DEF Commits, CombatStatements
    <3>3. turns'[cur + 1].by = key[r] /\ (Head(todo[r]) \in Commits => turns'[cur + 1].key = key[r])
      BY ONLY <3>1, <3>2
    <3> QED BY <1>4, <3>3, TurnWritten DEF purse
  <2>2. cur \in Nat /\ key[r] \in spent /\ Orderly(todo[r]) /\ ReqTypes
    BY <2>1, RequestsTyped DEF Shape, TypeOK, Held
  <2>3. \A n \in DOMAIN turns' \ DOMAIN turns : turns'[n].by \in spent
    BY <2>1, <2>2
  <2>4. OthersWait(r) /\ ((paid'[r] = paid[r] /\ key'[r] = key[r]) \/ WillHaveTurn(key[r]))
    <3>1. CASE Head(todo[r]) \in Commits
      <4>1. cur + 1 \in DOMAIN turns' /\ turns'[cur + 1].key = key[r]
        BY <2>1, <2>2, <3>1
      <4> QED BY <2>1, <2>2, <4>1, ProceedDoes DEF WillHaveTurn
    <3>2. CASE Head(todo[r]) \notin Commits
      BY <2>1, <3>2, ProceedCharges
    <3> QED BY <3>1, <3>2
  <2> QED BY <2>1, <2>3, <2>4, ChargesFrom
<1>5. ASSUME NEW r \in Requests,
             \/ SaveRun(r) \/ SaveEnter(r)
             \/ Rewrite(r) \/ EndNode(r) \/ PickNode(r) \/ InsertNode(r) \/ PointRun(r) \/ InsertBattle(r)
             \/ ActivateParent(r) \/ EndRun(r) \/ Merge(r)
      PROVE  ChargesMatchTurns'
  <2>1. /\ pc[r] = "work" /\ UNCHANGED <<turns, spent, refunded, crashes>>
        /\ Head(todo[r]) \notin Commits
        /\ \/ Proceed(r)
           \/ /\ OthersWait(r) /\ Len(todo[r]) # 1 /\ todo'[r] = Tail(todo[r])
              /\ UNCHANGED <<pc[r], key[r], paid[r], seen[r]>>
    <3>1. CASE SaveRun(r) \/ SaveEnter(r)
      BY <3>1 DEF SaveRun, SaveEnter, At, purse, around, Commits, CombatStatements
    <3>2. CASE ~(SaveRun(r) \/ SaveEnter(r))
      BY <1>5, <3>2, OtherStatements DEF purse
    <3> QED BY <3>1, <3>2
  <2>2. TurnsStay
    BY <2>1 DEF TurnsStay
  <2>3. OthersWait(r) /\ ((paid'[r] = paid[r] /\ key'[r] = key[r]) \/ WillHaveTurn(key[r]))
    BY <2>1, <2>2, ProceedCharges
  <2> QED BY <2>1, <2>2, <2>3, ChargesFrom
<1>6. CASE AbortRead \/ AbortWrite \/ FreezePlot
  <2>1. UNCHANGED <<turns, spent, refunded, crashes, key, paid>>
    BY <1>6 DEF AbortRead, AbortWrite, FreezePlot, purse, reqVars
  <2> QED BY <2>1 DEF ChargesMatchTurns, HasTurn
<1>7. CASE Crash
  <2>1. UNCHANGED <<turns, spent, refunded>> /\ crashes' # 0
    BY <1>7 DEF Crash, purse, Shape, TypeOK
  <2> QED BY <2>1 DEF ChargesMatchTurns
<1> QED BY <1>1, <1>2, <1>3, <1>4, <1>5, <1>6, <1>7 DEF Next

(* Without a crash every charge is refunded, has its turn or is held by a  *)
(* request that will see to it, and no turn is without a charge, for any   *)
(* number of concurrent submissions of the same or of different keys.      *)
THEOREM ChargesHold == Spec => []ChargesMatchTurns
<1>1. Init => ChargesMatchTurns
  BY DEF Init, ChargesMatchTurns
<1>2. Shape /\ Shape' /\ Logged /\ ChargesMatchTurns /\ [Next]_vars => ChargesMatchTurns'
  BY ChargesNext
<1> QED BY <1>1, <1>2, ShapeHolds, LogHolds, PTL DEF Spec

-----------------------------------------------------------------------------

\* The action of the request has not been committed.
Untried(r) ==
  pc[r] \in {"readRun", "readNode", "charge", "dispatch", "refund"} \/ (pc[r] = "work" /\ Ahead(todo[r]))

\* What a request alone at work can count on: its key is fresh until it commits,
\* then the number after its turn and the node index it picked are its own.
Undisturbed(r) ==
  /\ Untried(r) => ~HasTurn(key[r])
  /\ pc[r] = "work" =>
       /\ (~Ahead(todo[r]) /\ Head(todo[r]) \notin {"save", "saveEnter"}) =>
            TurnNo(r) = cur /\ cur + 1 \notin DOMAIN turns
       /\ Head(todo[r]) \in Inserts => picked[r] = Len(nodes) + 1

\* The player who waits has one request at work, which nothing disturbs.
Alone ==
  setting.serial =>
    /\ \A r, q \in Requests : (pc[r] # "idle" /\ pc[q] # "idle") => r = q
    /\ \A r \in Requests : Undisturbed(r)

\* A step of the one request at work keeps Alone if nothing disturbs it after.
LEMMA AloneFrom ==
  ASSUME Shape, Alone, NEW r \in Requests, UNCHANGED setting, setting.serial, OthersWait(r),
         Undisturbed(r)',
         \/ pc[r] # "idle"
         \/ \A q \in Requests : pc[q] = "idle"
  PROVE  Alone'
<1>1. \A q \in Requests \ {r} : pc'[q] = "idle"
  BY DEF Alone, OthersWait, Locals
<1>2. \A q \in Requests \ {r} : Undisturbed(q)'
  BY <1>1 DEF Undisturbed, Untried
<1> QED BY <1>1, <1>2 DEF Alone

\* A request that leaves is not disturbed,
LEMMA AloneGone ==
  ASSUME Shape, NEW r \in Requests, Leave(r)
  PROVE  Undisturbed(r)' /\ OthersWait(r)
<1>1. pc'[r] = "idle" /\ OthersWait(r)
  BY RequestsTyped, LeaveDoes
<1> QED BY <1>1 DEF Undisturbed, Untried

\* nor is one that fails.
LEMMA AloneThrows ==
  ASSUME Shape, Alone, setting.serial, NEW r \in Requests, Untried(r), Throw(r), UNCHANGED turns
  PROVE  Undisturbed(r)' /\ OthersWait(r)
<1>1. CASE Leave(r)
  BY <1>1, AloneGone
<1>2. CASE pc'[r] = "refund" /\ UNCHANGED key[r] /\ OthersWait(r)
  BY <1>2 DEF Undisturbed, Untried, Alone, HasTurn
<1> QED BY <1>1, <1>2, RequestsTyped, ThrowDoes

\* For a player who waits, only the statement that commits can conflict.
LEMMA AloneConflict ==
  ASSUME Shape, Logged, Alone, setting.serial, NEW r \in Requests, Conflict(r)
  PROVE  Untried(r)
<1>1. pc[r] = "work" /\ Undisturbed(r) /\ Orderly(todo[r]) /\ Len(nodes) \in Nat
  BY RequestsTyped DEF Conflict, At, Alone, Shape, Held
<1>2. CASE Head(todo[r]) \in Commits
  BY <1>1, <1>2, HeadIsCommit DEF Untried
<1>3. CASE Head(todo[r]) = "enter" /\ TurnNo(r) + 1 \in DOMAIN turns
  <2>1. ~Ahead(todo[r])
    BY <1>1, <1>3, HeadIsLate DEF Late, Commits, CombatStatements
  <2> QED BY <1>1, <1>3, <2>1 DEF Undisturbed
<1>4. CASE Head(todo[r]) \in Inserts /\ picked[r] <= Len(nodes)
  BY <1>1, <1>4 DEF Undisturbed
<1> QED BY <1>2, <1>3, <1>4 DEF Conflict, At, Commits

\* What a step to the next statement keeps.
LEMMA AloneProceeds ==
  ASSUME Shape, Logged, Alone, setting.serial, NEW r \in Requests, pc[r] = "work",
         UNCHANGED <<turns, cur>>,
         \/ Proceed(r)
         \/ /\ OthersWait(r) /\ Len(todo[r]) # 1 /\ todo'[r] = Tail(todo[r])
            /\ UNCHANGED <<pc[r], key[r], paid[r], seen[r]>>,
         Head(todo[r]) \notin Commits \union {"save", "enter", "saveEnter"},
         Head(todo[r]) = "pickNode" => picked'[r] = Len(nodes') + 1
  PROVE  Undisturbed(r)' /\ OthersWait(r)
<1>1. Orderly(todo[r]) /\ ReqTypes /\ Undisturbed(r)
  BY AtWork DEF Alone
<1>2. CASE Leave(r)
  BY <1>2, AloneGone
<1>3. CASE OthersWait(r) /\ Len(todo[r]) # 1 /\ todo'[r] = Tail(todo[r]) /\ UNCHANGED <<pc[r],
                                                                                        key[r], seen[r]>>
  <2> DEFINE s == todo[r]
  <2>1. /\ (Head(s) = "insert") <=> (Head(Tail(s)) = "save")
        /\ (Head(s) = "enter") <=> (Head(Tail(s)) = "saveEnter")
        /\ (Head(s) = "pickNode") <=> (Head(Tail(s)) \in Inserts)
        /\ Ahead(s) => Head(s) \in Commits \/ Ahead(Tail(s))
        /\ Ahead(Tail(s)) => Ahead(s)
    BY <1>1, <1>3, TailIsOrderly
  <2>2. Head(Tail(s)) \notin {"save", "saveEnter"} /\ (Ahead(Tail(s)) <=> Ahead(s))
    BY <2>1 DEF Commits
  <2>3. Untried(r)' => ~HasTurn(key[r])'
    BY <1>1, <1>3, <2>2 DEF Untried, Undisturbed, HasTurn
  <2>4. ~Ahead(todo'[r]) => TurnNo(r)' = cur' /\ cur' + 1 \notin DOMAIN turns'
    BY <1>1, <1>3, <2>2 DEF Undisturbed, TurnNo
  <2>5. Head(todo'[r]) \in Inserts => picked'[r] = Len(nodes') + 1
    BY <1>3, <2>1
  <2> QED BY ONLY <1>3, <2>3, <2>4, <2>5 DEF Undisturbed
<1> QED BY <1>1, <1>2, <1>3, ProceedDoes

\* A turn is written and, or, the run is saved.
LEMMA AloneCommits ==
  ASSUME Shape, Logged, Alone, setting.serial, NEW r \in Requests, pc[r] = "work", Proceed(r),
         Head(todo[r]) \in Late \ {"pickNode", "rewrite"},
         Head(todo[r]) \notin {"insert", "enter", "saveEnter"} => TurnNo(r) = cur' /\ cur' + 1 \notin DOMAIN turns'
  PROVE  Undisturbed(r)' /\ OthersWait(r)
<1>1. Orderly(todo[r]) /\ ReqTypes
  BY AtWork
<1>2. CASE Leave(r)
  BY <1>2, AloneGone
<1>3. CASE OthersWait(r) /\ Len(todo[r]) # 1 /\ todo'[r] = Tail(todo[r]) /\ UNCHANGED <<pc[r],
                                                                                        key[r], seen[r]>>
  <2> DEFINE s == todo[r]
  <2>1. /\ (Head(s) = "insert") <=> (Head(Tail(s)) = "save")
        /\ (Head(s) = "enter") <=> (Head(Tail(s)) = "saveEnter")
        /\ (Head(s) = "pickNode") <=> (Head(Tail(s)) \in Inserts)
        /\ Head(s) # "saveEnter" /\ ~Ahead(Tail(s))
    BY <1>1, <1>3, TailIsOrderly
  <2>2. pc'[r] = "work" /\ ~Ahead(todo'[r]) /\ Head(todo'[r]) \notin Inserts
    BY <1>3, <2>1
  <2>3. Head(todo'[r]) \notin {"save", "saveEnter"} => TurnNo(r)' = cur' /\ cur' + 1 \notin DOMAIN turns'
    BY <1>3, <2>1 DEF TurnNo
  <2> QED BY ONLY <1>3, <2>2, <2>3 DEF Undisturbed, Untried
<1> QED BY <1>1, <1>2, <1>3, ProceedDoes

\* Every step keeps Alone.
LEMMA AloneNext ==
  ASSUME Shape, Logged, Alone, [Next]_vars
  PROVE  Alone'
<1> UNCHANGED setting
  BY DEF Next, vars
<1> SUFFICES ASSUME setting.serial PROVE Alone'
  BY DEF Alone
<1>1. CASE UNCHANGED vars
  <2>1. UNCHANGED <<cur, turns, nodes, pc, key, todo, seen, picked>>
    BY <1>1 DEF vars, runVars, reqVars
  <2> QED BY <2>1 DEF Alone, Undisturbed, Untried, HasTurn, TurnNo
<1>2. ASSUME NEW r \in Requests, NEW k \in Keys, Submit(r, k) PROVE Alone'
  <2>1. OthersWait(r) /\ pc'[r] = "readRun" /\ key'[r] = k /\ ~HasTurn(k) /\ UNCHANGED turns
        /\ \A q \in Requests : pc[q] = "idle"
    BY <1>2, RequestsTyped DEF Submit, ReqTypes, OthersWait, Locals
  <2>2. Undisturbed(r)'
    BY <2>1 DEF Undisturbed, Untried, HasTurn
  <2> QED BY <2>1, <2>2, AloneFrom
<1>3. ASSUME NEW r \in Requests,
             \/ ReadRun(r) \/ ReadNode(r) \/ Charge(r) \/ ChargeRefused(r) \/ Dispatch(r) \/ Conflict(r) \/ Refund(r)
      PROVE  Alone'
  <2>0. ReqTypes /\ UNCHANGED <<turns, cur>> /\ Undisturbed(r) /\ pc[r] # "idle"
    BY <1>3, RequestsTyped
       DEF Alone, runVars, ReadRun, ReadNode, Charge, ChargeRefused, Dispatch, Conflict, Refund, At
  <2>1. CASE Leave(r)
    BY <2>0, <2>1, AloneGone, AloneFrom
  <2>2. CASE Throw(r) /\ (Dispatch(r) \/ Conflict(r))
    <3>1. Untried(r)
      BY <2>2, AloneConflict DEF Dispatch, Untried
    <3> QED BY <2>0, <2>2, <3>1, AloneThrows, AloneFrom
  <2>3. CASE (ReadRun(r) \/ ReadNode(r) \/ Charge(r)) /\ ~Leave(r)
    <3>1. /\ OthersWait(r) /\ pc[r] \in {"readRun", "readNode", "charge"}
          /\ pc'[r] \in {"readNode", "charge", "dispatch"} /\ UNCHANGED key[r]
      BY <2>0, <2>3 DEF ReadRun, ReadNode, Charge, Goto, ReqTypes, OthersWait, Locals
    <3>2. Undisturbed(r)'
      BY <2>0, <3>1 DEF Undisturbed, Untried, HasTurn
    <3> QED BY <2>0, <3>1, <3>2, AloneFrom
  <2>4. CASE Dispatch(r) /\ ~Throw(r)
    <3>1. PICK p \in PlansOf(nodes[seen[r].node].type) : todo' = [todo EXCEPT ![r] = Plan[p]]
      BY <2>4 DEF Dispatch
    <3>2. pc[r] = "dispatch" /\ pc' = [pc EXCEPT ![r] = "work"] /\ UNCHANGED <<key, paid, seen,
                                                                               picked>>
      BY <2>4 DEF Dispatch
    <3>3. OthersWait(r) /\ UNCHANGED key[r] /\ todo'[r] = Plan[p] /\ pc'[r] = "work"
      BY <2>0, <3>1, <3>2 DEF ReqTypes, OthersWait, Locals
    <3>4. p \in DOMAIN Plan
      BY <3>2, RequestsTyped, PlanChosen DEF Shape, Held
    <3>5. Head(Plan[p]) \notin Inserts /\ Ahead(Plan[p])
      BY <3>4, PlansAreOrderly, PlansCommit
    <3>6. Undisturbed(r)'
      BY <2>0, <3>2, <3>3, <3>5 DEF Undisturbed, Untried, HasTurn
    <3> QED BY <2>0, <3>3, <3>6, AloneFrom
  <2> QED BY <1>3, <2>1, <2>2, <2>3, <2>4
      DEF ReadRun, ReadNode, Charge, ChargeRefused, Dispatch, Conflict, Refund
<1>4. ASSUME NEW r \in Requests, InsertTurn(r) \/ EnterTurn(r) PROVE Alone'
  <2>1. pc[r] = "work" /\ Proceed(r) /\ Head(todo[r]) \in {"insert", "enter"}
    BY <1>4 DEF InsertTurn, EnterTurn, At
  <2>2. Head(todo[r]) \in Late \ {"pickNode", "rewrite"}
    BY <2>1 DEF Late, Commits
  <2> QED BY <2>1, <2>2, AloneCommits, AloneFrom
<1>5. ASSUME NEW r \in Requests, CombatTurn(r) PROVE Alone'
  <2>1. /\ pc[r] = "work" /\ Proceed(r) /\ Head(todo[r]) \in CombatStatements /\ cur' = TurnNo(r)
        /\ TurnNo(r) \notin DOMAIN turns
    BY <1>5 DEF CombatTurn, At, CombatStatements, Unique
  <2>2. Head(todo[r]) \in Late \ {"pickNode", "rewrite"}
    BY <2>1 DEF Late, Commits, CombatStatements
  <2>3. cur' = cur + 1 /\ DOMAIN turns' = 0..(cur + 1) /\ cur \in Nat
    BY <1>5, <2>1, FreshIsNext, TurnWritten DEF Shape, TypeOK
  <2>4. TurnNo(r) = cur' /\ cur' + 1 \notin DOMAIN turns'
    BY <2>1, <2>3
  <2> QED BY <2>1, <2>2, <2>4, AloneCommits, AloneFrom
<1>6. ASSUME NEW r \in Requests, SaveRun(r) PROVE Alone'
  <2>1. /\ pc[r] = "work" /\ Proceed(r) /\ Head(todo[r]) = "save" /\ cur' = TurnNo(r)
           /\ UNCHANGED turns
    BY <1>6 DEF SaveRun, At
  <2>2. Head(todo[r]) \in Late \ {"pickNode", "rewrite"}
    BY <2>1 DEF Late, Commits
  <2>3. Placed(r) /\ TurnNo(r) = seen[r].cur + 1 /\ cur + 1 \in DOMAIN turns
    BY <2>1, AtWork, PendingMeansAhead DEF Pending
  <2>4. cur' = cur + 1 /\ cur \in Nat
    BY <2>1, <2>3 DEF Placed, Shape, TypeOK
  <2>5. TurnNo(r) = cur' /\ cur' + 1 \notin DOMAIN turns'
    BY <2>1, <2>3, <2>4, LogNumbers DEF Logged
  <2> QED BY <2>1, <2>2, <2>5, AloneCommits, AloneFrom
<1>7. ASSUME NEW r \in Requests, SaveEnter(r) PROVE Alone'
  <2>1. /\ pc[r] = "work" /\ Proceed(r) /\ Head(todo[r]) = "saveEnter"
    BY <1>7 DEF SaveEnter, At
  <2>2. Head(todo[r]) \in Late \ {"pickNode", "rewrite"}
    BY <2>1 DEF Late, Commits
  <2> QED BY <2>1, <2>2, AloneCommits, AloneFrom
<1>8. ASSUME NEW r \in Requests,
             \/ Rewrite(r) \/ EndNode(r) \/ PickNode(r) \/ InsertNode(r) \/ PointRun(r) \/ InsertBattle(r)
             \/ ActivateParent(r) \/ EndRun(r) \/ Merge(r)
      PROVE  Alone'
  <2>1. /\ pc[r] = "work" /\ UNCHANGED <<turns, cur>>
        /\ Head(todo[r]) \notin Commits \union {"save", "enter", "saveEnter"}
        /\ \/ Proceed(r)
           \/ /\ OthersWait(r) /\ Len(todo[r]) # 1 /\ todo'[r] = Tail(todo[r])
              /\ UNCHANGED <<pc[r], key[r], paid[r], seen[r]>>
    BY <1>8, OtherStatements
  <2>2. Head(todo[r]) = "pickNode" => picked'[r] = Len(nodes') + 1
    BY <1>8, RequestsTyped DEF Rewrite, EndNode, PickNode, InsertNode, PointRun, InsertBattle,
                               ActivateParent,
                               EndRun, Merge, At, ReqTypes
  <2> QED BY <2>1, <2>2, AloneProceeds, AloneFrom
<1>9. CASE AbortRead \/ AbortWrite \/ FreezePlot
  <2>1. UNCHANGED <<cur, turns, nodes, pc, key, todo, seen, picked>>
    BY <1>9 DEF AbortRead, AbortWrite, FreezePlot, runVars, reqVars
  <2> QED BY <2>1 DEF Alone, Undisturbed, Untried, HasTurn, TurnNo
<1>10. CASE Crash
  <2>1. \A q \in Requests : pc'[q] = "idle"
    BY <1>10 DEF Crash
  <2> QED BY <2>1 DEF Alone, Undisturbed, Untried
<1> QED BY <1>1, <1>2, <1>3, <1>4, <1>5, <1>6, <1>7, <1>8, <1>9, <1>10 DEF Next

(* Alone is an invariant.                                                  *)
THEOREM AloneHolds == Spec => []Alone
<1>1. Init => Alone
  BY DEF Init, Alone, Undisturbed, Untried
<1>2. Shape /\ Logged /\ Alone /\ [Next]_vars => Alone'
  BY AloneNext
<1> QED BY <1>1, <1>2, ShapeHolds, LogHolds, PTL DEF Spec

(* A player who waits for the answers is never refunded an action that has *)
(* its turn, even when a crash interrupts the handlers and keys are sent   *)
(* again.                                                                  *)
THEOREM RefundsAreFair == Spec => []RefundOnlyFailed
<1>1. Alone => RefundOnlyFailed
  BY DEF Alone, RefundOnlyFailed, Undisturbed, Untried
<1> QED BY <1>1, AloneHolds, PTL

-----------------------------------------------------------------------------

\* EQUIP is used by players who wait for the answer: handleEquipAction writes
\* the run state once more after its turn, and loses what was committed between.
EquipWaits == \A s \in Settings : "equip" \in s.handlers => s.serial

\* The snapshot of a request holds the results of the turns it has seen.
Informed(r) ==
  /\ pc[r] \in {"readNode", "charge", "dispatch", "work"} =>
       \A n \in DOMAIN turns :
         (n <= seen[r].cur /\ turns[n].by # None) => turns[n].by \in seen[r].effects
  /\ (pc[r] = "work" /\ Has(todo[r], "rewrite")) => setting.serial

\* The results are in the run state and in every snapshot taken of it.
Kept == EffectsKept /\ \A r \in Requests : Informed(r)

\* A turn added at the end is newer than every snapshot.
LEMMA InformedStays ==
  ASSUME Shape, Logged, NEW q \in Requests, Informed(q), UNCHANGED setting,
         UNCHANGED <<pc[q], todo[q], seen[q]>>, TurnsStay,
         \A n \in DOMAIN turns' : n \in DOMAIN turns \/ n = cur + 1
  PROVE  Informed(q)'
<1>1. seen[q].cur \in Nat /\ cur \in Nat /\ seen[q].cur <= cur
  BY RequestsTyped DEF Shape, TypeOK, Logged, Placed, ReqTypes, Snapshot
<1> QED BY <1>1 DEF Informed, TurnsStay

\* A step keeps the results if it keeps those of the run and of r.
LEMMA KeptFrom ==
  ASSUME Shape, Logged, Kept, NEW r \in Requests, OthersWait(r), UNCHANGED setting, TurnsStay,
         \A n \in DOMAIN turns' : n \in DOMAIN turns \/ n = cur + 1,
         Informed(r)', EffectsKept'
  PROVE  Kept'
<1>1. ASSUME NEW q \in Requests \ {r} PROVE Informed(q)'
  <2>1. UNCHANGED <<pc[q], todo[q], seen[q]>> /\ Informed(q)
    BY DEF OthersWait, Locals, Kept
  <2> QED BY <2>1, InformedStays
<1> QED BY <1>1 DEF Kept

\* A snapshot stays informed from statement to statement.
LEMMA InformedProceeds ==
  ASSUME Shape, Logged, Kept, NEW r \in Requests, pc[r] = "work", UNCHANGED setting, TurnsStay,
         \A n \in DOMAIN turns' : n \in DOMAIN turns \/ n = cur + 1,
         \/ Proceed(r)
         \/ /\ OthersWait(r) /\ Len(todo[r]) # 1 /\ todo'[r] = Tail(todo[r])
            /\ UNCHANGED <<pc[r], key[r], paid[r], seen[r]>>
  PROVE  Informed(r)' /\ OthersWait(r)
<1>1. Orderly(todo[r]) /\ ReqTypes /\ Informed(r)
  BY AtWork DEF Kept
<1>2. CASE Leave(r)
  BY <1>1, <1>2, LeaveDoes DEF Informed
<1>3. CASE OthersWait(r) /\ Len(todo[r]) # 1 /\ todo'[r] = Tail(todo[r]) /\ UNCHANGED <<pc[r],
                                                                                        key[r], seen[r]>>
  <2>1. Has(Tail(todo[r]), "rewrite") => Has(todo[r], "rewrite")
    BY <1>1, <1>3, TailIsOrderly
  <2>2. seen[r].cur \in Nat /\ cur \in Nat /\ seen[r].cur <= cur
    BY RequestsTyped DEF Shape, TypeOK, Logged, Placed, ReqTypes, Snapshot
  <2>3. Informed(r)'
    BY <1>1, <1>3, <2>1, <2>2 DEF Informed, TurnsStay
  <2> QED BY <1>3, <2>3
<1> QED BY <1>1, <1>2, <1>3, ProceedDoes

\* The state that is written holds what the snapshot held and the action's result.
LEMMA SavedIsKept ==
  ASSUME Shape, Logged, Kept, NEW r \in Requests, pc[r] = "work", TurnsStay, cur' \in Nat,
         seen[r].effects \union {key[r]} \subseteq effects',
         \A n \in DOMAIN turns' : n <= cur' =>
           \/ n \in DOMAIN turns /\ n <= seen[r].cur
           \/ turns'[n].by = key[r]
  PROVE  EffectsKept'
<1>1. Informed(r)
  BY DEF Kept
<1>2. ASSUME NEW n \in DOMAIN turns', n <= cur', turns'[n].by # None PROVE turns'[n].by \in effects'
  BY <1>1, <1>2 DEF Informed, TurnsStay
<1> QED BY <1>2 DEF EffectsKept

\* Every step keeps the results.
LEMMA KeptNext ==
  ASSUME EquipWaits, Shape, Logged, Alone, Kept, [Next]_vars
  PROVE  Kept'
<1> UNCHANGED setting
  BY DEF Next, vars
<1>0. cur \in Nat /\ EffectsKept /\ \A n \in DOMAIN turns : n \in Nat
  BY DEF Shape, TypeOK, Kept
<1>1. CASE UNCHANGED vars
  <2>1. UNCHANGED <<cur, effects, turns, pc, todo, seen>>
    BY <1>1 DEF vars, runVars, reqVars
  <2> QED BY <2>1 DEF Kept, EffectsKept, Informed
<1>2. ASSUME NEW r \in Requests,
             \/ \E k \in Keys : Submit(r, k)
             \/ ReadRun(r) \/ ReadNode(r) \/ Charge(r) \/ ChargeRefused(r) \/ Dispatch(r) \/ Conflict(r) \/ Refund(r)
      PROVE  Kept'
  <2>0. ReqTypes /\ UNCHANGED <<turns, cur, effects>> /\ Informed(r)
    BY <1>2, RequestsTyped
       DEF Kept, runVars, Submit, ReadRun, ReadNode, Charge, ChargeRefused, Dispatch, Conflict,
           Refund
  <2>1. TurnsStay /\ EffectsKept' /\ \A n \in DOMAIN turns' : n \in DOMAIN turns \/ n = cur + 1
    BY <2>0 DEF TurnsStay, Kept, EffectsKept
  <2>2. CASE Leave(r)
    <3>1. pc'[r] = "idle" /\ OthersWait(r)
      BY <2>0, <2>2, LeaveDoes
    <3> QED BY <2>1, <3>1, KeptFrom DEF Informed
  <2>3. CASE Throw(r) /\ ~Leave(r)
    <3>1. pc'[r] = "refund" /\ OthersWait(r)
      BY <2>0, <2>3, ThrowDoes
    <3> QED BY <2>1, <3>1, KeptFrom DEF Informed
  <2>4. CASE \E k \in Keys : Submit(r, k)
    <3>1. pc'[r] = "readRun" /\ OthersWait(r)
      BY <2>0, <2>4 DEF Submit, ReqTypes, OthersWait, Locals
    <3> QED BY <2>1, <3>1, KeptFrom DEF Informed
  <2>5. CASE ReadRun(r) /\ ~Leave(r)
    <3>1. pc'[r] = "readNode" /\ OthersWait(r) /\ seen'[r].cur = cur /\ seen'[r].effects = effects
      BY <2>0, <2>5 DEF ReadRun, Goto, ReqTypes, OthersWait, Locals
    <3>2. Informed(r)'
      BY <1>0, <2>0, <3>1 DEF Informed, EffectsKept
    <3> QED BY <2>1, <3>1, <3>2, KeptFrom
  <2>6. CASE (ReadNode(r) \/ Charge(r)) /\ ~Leave(r)
    <3>1. /\ pc[r] \in {"readNode", "charge"} /\ pc'[r] \in {"charge", "dispatch"}
          /\ OthersWait(r) /\ UNCHANGED seen[r]
      BY <2>0, <2>6 DEF ReadNode, Charge, Goto, ReqTypes, OthersWait, Locals
    <3>2. Informed(r)'
      BY <2>0, <3>1 DEF Informed
    <3> QED BY <2>1, <3>1, <3>2, KeptFrom
  <2>7. CASE Dispatch(r) /\ ~Throw(r)
    <3>1. PICK p \in PlansOf(nodes[seen[r].node].type) : todo' = [todo EXCEPT ![r] = Plan[p]]
      BY <2>7 DEF Dispatch
    <3>2. pc[r] = "dispatch" /\ pc' = [pc EXCEPT ![r] = "work"] /\ UNCHANGED <<key, paid, seen,
                                                                               picked>>
      BY <2>7 DEF Dispatch
    <3>3. OthersWait(r) /\ UNCHANGED seen[r] /\ todo'[r] = Plan[p] /\ pc'[r] = "work"
      BY <2>0, <3>1, <3>2 DEF ReqTypes, OthersWait, Locals
    <3>4. p \in DOMAIN Plan /\ p \in setting.handlers
      BY <3>2, RequestsTyped, PlanChosen DEF Shape, Held
    <3>5. Has(Plan[p], "rewrite") => setting.serial
      BY <3>4, PlansAreOrderly DEF EquipWaits, Shape, TypeOK
    <3>6. Informed(r)'
      BY <2>0, <3>2, <3>3, <3>5 DEF Informed
    <3> QED BY <2>1, <3>3, <3>6, KeptFrom
  <2> QED BY <1>2, <2>2, <2>3, <2>4, <2>5, <2>6, <2>7
      DEF ReadRun, ReadNode, Charge, ChargeRefused, Dispatch, Conflict, Refund
<1>3. ASSUME NEW r \in Requests, InsertTurn(r) \/ EnterTurn(r) PROVE Kept'
  <2>1. /\ pc[r] = "work" /\ Proceed(r) /\ TurnsStay /\ UNCHANGED <<cur, effects>>
        /\ DOMAIN turns = 0..cur /\ DOMAIN turns' = 0..(cur + 1)
    BY <1>3, TurnWritten DEF InsertTurn, EnterTurn, runVars
  <2>2. \A n \in DOMAIN turns' : n \in DOMAIN turns \/ n = cur + 1
    BY <1>0, <2>1
  <2>3. EffectsKept'
    BY <1>0, <2>1, <2>2 DEF EffectsKept, TurnsStay
  <2> QED BY <2>1, <2>2, <2>3, InformedProceeds, KeptFrom
<1>4. ASSUME NEW r \in Requests, CombatTurn(r) PROVE Kept'
  <2>1. /\ pc[r] = "work" /\ Proceed(r) /\ TurnsStay /\ cur' = cur + 1 /\ TurnNo(r) = cur + 1
        /\ DOMAIN turns = 0..cur /\ DOMAIN turns' = 0..(cur + 1) /\ turns'[cur + 1].by = key[r]
    <3>1. TurnNo(r) \notin DOMAIN turns /\ cur' = TurnNo(r) /\ pc[r] = "work"
      BY <1>4 DEF CombatTurn, Unique, At
    <3>2. TurnNo(r) = cur + 1
      BY <3>1, FreshIsNext
    <3>3. \/ turns'[cur + 1] = [key |-> key[r], by |-> key[r]]
          \/ turns'[cur + 1] = [key |-> "enter", by |-> key[r]]
      BY <1>4, TurnWritten
    <3>4. turns'[cur + 1].by = key[r]
      BY ONLY <3>3
    <3> QED BY <1>4, <3>1, <3>2, <3>4, TurnWritten
  <2>2. \A n \in DOMAIN turns' : n \in DOMAIN turns \/ n = cur + 1
    BY <1>0, <2>1
  <2>3. EffectsKept'
    <3>1. CASE effects' = effects \union {key[r]}
      BY <1>0, <2>1, <2>2, <3>1 DEF EffectsKept, TurnsStay
    <3>2. CASE effects' = seen[r].effects \union {key[r]}
      <4>1. seen[r].cur = cur
        BY <1>0, <2>1, AtWork
      <4>2. \A n \in DOMAIN turns' : n <= cur' => (n \in DOMAIN turns /\ n <= seen[r].cur) \/ turns'[n].by = key[r]
        BY <1>0, <2>1, <4>1
      <4> QED BY <1>0, <2>1, <3>2, <4>2, SavedIsKept
    <3> QED BY <1>4, <3>1, <3>2 DEF CombatTurn
  <2> QED BY <2>1, <2>2, <2>3, InformedProceeds, KeptFrom
<1>5. ASSUME NEW r \in Requests, SaveRun(r) \/ SaveEnter(r) \/ Rewrite(r) PROVE Kept'
  <2>1. /\ pc[r] = "work" /\ Proceed(r) /\ UNCHANGED turns
        /\ effects' = seen[r].effects \union {key[r]}
        /\ Head(todo[r]) \in {"save", "saveEnter", "rewrite"}
        /\ cur' = CASE Head(todo[r]) = "save" -> TurnNo(r)
                   [] Head(todo[r]) = "saveEnter" -> TurnNo(r) + 1
                   [] Head(todo[r]) = "rewrite" -> cur
    BY <1>5 DEF SaveRun, SaveEnter, Rewrite, At, runVars
  <2>2. /\ Orderly(todo[r]) /\ Placed(r) /\ TurnNo(r) = seen[r].cur + 1 /\ seen[r].cur \in Nat
    BY <2>1, AtWork
  <2>3. ~Ahead(todo[r])
    BY <2>1, <2>2, HeadIsLate DEF Late, Commits, CombatStatements
  <2>4. turns[TurnNo(r)].by = key[r]
    BY <2>1, <2>2, <2>3 DEF Placed
  <2>5. cur' \in Nat /\ \A n \in DOMAIN turns : n <= cur' => n <= seen[r].cur \/ turns[n].by = key[r]
    <3>1. CASE Head(todo[r]) = "save"
      <4>1. cur' = TurnNo(r)
        BY <2>1, <3>1
      <4> QED BY <1>0, <2>2, <2>4, <4>1
    <3>2. CASE Head(todo[r]) = "saveEnter"
      <4>1. cur' = TurnNo(r) + 1 /\ turns[TurnNo(r) + 1].by = key[r]
        BY <2>1, <2>2, <3>2 DEF Placed
      <4> QED BY <1>0, <2>2, <2>4, <4>1
    <3>3. CASE Head(todo[r]) = "rewrite"
      <4>1. cur' = cur
        BY <2>1, <3>3
      <4>2. setting.serial
        BY <2>1, <2>2, <3>3, HeadIsIn DEF Kept, Informed
      <4>3. TurnNo(r) = cur
        BY <2>1, <2>3, <3>3, <4>2 DEF Alone, Undisturbed
      <4> QED BY <1>0, <2>2, <2>4, <4>1, <4>3
    <3> QED BY <2>1, <3>1, <3>2, <3>3
  <2>6. TurnsStay /\ \A n \in DOMAIN turns' : n \in DOMAIN turns \/ n = cur + 1
    BY <2>1 DEF TurnsStay
  <2>7. EffectsKept'
    BY <2>1, <2>5, <2>6, SavedIsKept
  <2> QED BY <2>1, <2>6, <2>7, InformedProceeds, KeptFrom
<1>6. ASSUME NEW r \in Requests,
             \/ EndNode(r) \/ PickNode(r) \/ InsertNode(r) \/ PointRun(r) \/ InsertBattle(r)
             \/ ActivateParent(r) \/ EndRun(r) \/ Merge(r)
      PROVE  Kept'
  <2>1. /\ pc[r] = "work" /\ UNCHANGED <<turns, cur>>
        /\ \/ Proceed(r)
           \/ /\ OthersWait(r) /\ Len(todo[r]) # 1 /\ todo'[r] = Tail(todo[r])
              /\ UNCHANGED <<pc[r], key[r], paid[r], seen[r]>>
    BY <1>6, OtherStatements
  <2>2. UNCHANGED effects
    BY <1>6 DEF EndNode, PickNode, InsertNode, PointRun, InsertBattle, ActivateParent, EndRun,
                Merge, runVars
  <2>3. TurnsStay /\ EffectsKept' /\ \A n \in DOMAIN turns' : n \in DOMAIN turns \/ n = cur + 1
    BY <1>0, <2>1, <2>2 DEF TurnsStay, EffectsKept
  <2> QED BY <2>1, <2>3, InformedProceeds, KeptFrom
<1>7. CASE AbortRead \/ AbortWrite \/ FreezePlot
  <2>1. UNCHANGED <<cur, effects, turns, pc, todo, seen>>
    BY <1>7 DEF AbortRead, AbortWrite, FreezePlot, runVars, reqVars
  <2> QED BY <2>1 DEF Kept, EffectsKept, Informed
<1>8. CASE Crash
  <2>1. UNCHANGED <<cur, effects, turns>> /\ \A q \in Requests : pc'[q] = "idle"
    BY <1>8 DEF Crash, runVars
  <2> QED BY <2>1 DEF Kept, EffectsKept, Informed
<1> QED BY <1>1, <1>2, <1>3, <1>4, <1>5, <1>6, <1>7, <1>8 DEF Next

(* The run state holds the result of every committed action although each  *)
(* handler writes back the whole state it read at submission: a handler    *)
(* that read before another one committed does not get a turn number.      *)
THEOREM ResultsAreKept ==
  ASSUME EquipWaits
  PROVE  Spec => []EffectsKept
<1>1. Init => Kept
  BY DEF Init, Kept, EffectsKept, Informed
<1>2. Shape /\ Logged /\ Alone /\ Kept /\ [Next]_vars => Kept'
  BY KeptNext
<1>3. Kept => EffectsKept
  BY DEF Kept
<1> QED BY <1>1, <1>2, <1>3, ShapeHolds, LogHolds, AloneHolds, PTL DEF Spec

-----------------------------------------------------------------------------

\* The turns of the log.
Entries == [key : Keys \union {None, "enter"}, by : Keys \union {None}]

\* The length of the log.
LEMMA LengthOfLog ==
  ASSUME NEW n \in Nat, NEW D, D = 0..n
  PROVE  Cardinality(D) - 1 = n
<1>1. Cardinality(0..n) = n + 1
  BY FS_Interval
<1> QED BY <1>1

\* The history is the log without turn 0.
LEMMA LogIs ==
  ASSUME Shape, NEW n \in Nat, DOMAIN turns = 0..n
  PROVE  /\ HistoryLog = [i \in 1..n |-> turns[i]]
         /\ HistoryLog \in Seq(Entries) /\ Len(HistoryLog) = n
<1>1. HistoryLog = [i \in 1..n |-> turns[i]]
  BY LengthOfLog DEF HistoryLog
<1>2. \A i \in 1..n : turns[i] \in Entries
  <2> SUFFICES ASSUME NEW i \in 1..n PROVE turns[i] \in Entries
    OBVIOUS
  <2>1. i \in DOMAIN turns
    OBVIOUS
  <2> QED BY <2>1 DEF Shape, TypeOK, Entries
<1> QED BY <1>1, <1>2

\* A turn written at the end is appended to the history.
LEMMA LogGrows ==
  ASSUME Shape, NEW n \in Nat, DOMAIN turns = 0..n, DOMAIN turns' = 0..(n + 1), TurnsStay
  PROVE  HistoryLog' = Append(HistoryLog, turns'[n + 1])
<1>1. HistoryLog = [i \in 1..n |-> turns[i]] /\ HistoryLog \in Seq(Entries) /\ Len(HistoryLog) = n
  BY LogIs
<1>2. HistoryLog' = [i \in 1..(n + 1) |-> turns'[i]]
  BY LengthOfLog DEF HistoryLog
<1>3. \A i \in 1..n : turns'[i] = turns[i]
  BY DEF TurnsStay
<1>4. Append(HistoryLog, turns'[n + 1]) = [i \in 1..(n + 1) |-> IF i = n + 1 THEN turns'[n + 1] ELSE HistoryLog[i]]
  BY <1>1
<1> QED BY <1>1, <1>2, <1>3, <1>4

\* Every step is one of TurnLog, or leaves the history.
LEMMA HistoryNext ==
  ASSUME Shape, Logged, [Next]_vars
  PROVE  [History!Next]_HistoryLog
<1>1. CASE UNCHANGED turns
  BY <1>1 DEF HistoryLog
<1>2. ASSUME NEW r \in Requests, InsertTurn(r) \/ CombatTurn(r) \/ EnterTurn(r) PROVE History!Next
  <2>1. /\ pc[r] = "work" /\ TurnsStay /\ DOMAIN turns = 0..cur /\ DOMAIN turns' = 0..(cur + 1)
        /\ \/ /\ ~HasTurn(key[r])
              /\ turns'[cur + 1] = [key |-> key[r], by |-> key[r]]
           \/ /\ TurnNo(r) = cur /\ turns[cur] = [key |-> key[r], by |-> key[r]]
              /\ turns'[cur + 1] = [key |-> "enter", by |-> key[r]]
    BY <1>2, TurnWritten
  <2>2. cur \in Nat /\ key[r] \in Keys
    BY <2>1, AtWork DEF Shape, TypeOK
  <2>3. /\ HistoryLog = [i \in 1..cur |-> turns[i]]
        /\ Len(HistoryLog) = cur /\ HistoryLog \in Seq(Entries)
    BY <2>1, <2>2, LogIs
  <2>4. HistoryLog' = Append(HistoryLog, turns'[cur + 1])
    BY <2>1, <2>2, LogGrows
  <2>5. CASE ~HasTurn(key[r]) /\ turns'[cur + 1] = [key |-> key[r], by |-> key[r]]
    <3>1. \A i \in DOMAIN HistoryLog : HistoryLog[i].key # key[r]
      BY <2>1, <2>2, <2>3, <2>5 DEF HasTurn
    <3>2. History!Act(key[r])
      BY <2>4, <2>5, <3>1 DEF History!Act
    <3> QED BY <2>2, <3>2 DEF History!Next
  <2>6. CASE /\ TurnNo(r) = cur /\ turns[cur] = [key |-> key[r], by |-> key[r]]
             /\ turns'[cur + 1] = [key |-> "enter", by |-> key[r]]
    <3>1. cur > 0
      BY <2>1, <2>2, <2>6, AtWork
    <3>2. HistoryLog[Len(HistoryLog)] = [key |-> key[r], by |-> key[r]] /\ HistoryLog # <<>>
      BY <2>2, <2>3, <2>6, <3>1
    <3>3. key[r] # "enter"
      BY <2>2, TurnsAssumption
    <3>4. History!Arrive
      BY <2>4, <2>6, <3>2, <3>3 DEF History!Arrive
    <3> QED BY <3>4 DEF History!Next
  <2> QED BY <2>1, <2>5, <2>6
<1> QED BY <1>1, <1>2
    DEF Next, vars, Submit, ReadRun, ReadNode, Charge, ChargeRefused, Dispatch, Refund, SaveRun,
        Rewrite, SaveEnter,
        EndNode, PickNode, InsertNode, PointRun, InsertBattle, ActivateParent, EndRun, Merge, Conflict,
        AbortRead, AbortWrite, FreezePlot, Crash

(* The turn log of the run implements TurnLog: a key at most once, an      *)
(* arrival right after its action, nothing ever changed, through every     *)
(* race and crash.                                                         *)
THEOREM HistoryIsKept == Spec => KeepsHistory
<1>1. Init => History!Init
  <2> SUFFICES ASSUME Init PROVE HistoryLog = <<>>
    BY DEF History!Init
  <2>1. DOMAIN turns = 0..0 /\ Shape
    BY ShapeInit DEF Init
  <2>2. Len(HistoryLog) = 0 /\ HistoryLog \in Seq(Entries)
    BY <2>1, LogIs
  <2> QED BY <2>2
<1>2. Shape /\ Logged /\ [Next]_vars => [History!Next]_HistoryLog
  BY HistoryNext
<1> QED BY <1>1, <1>2, ShapeHolds, LogHolds, PTL DEF Spec, KeepsHistory, History!Spec

-----------------------------------------------------------------------------

\* For a player who waits, without a crash: the next turn number is free until
\* the action is committed, and the snapshot is of the run as it is.
Current ==
  (setting.serial /\ crashes = 0) =>
    /\ (\A r \in Requests : pc[r] = "work" => Ahead(todo[r])) => cur + 1 \notin DOMAIN turns
    /\ \A r \in Requests :
         pc[r] \in {"readNode", "charge", "dispatch"} \/ (pc[r] = "work" /\ Ahead(todo[r])) => seen[r].cur = cur

\* The snapshot of the request is still of use.
Up(r) == pc[r] \in {"readNode", "charge", "dispatch"} \/ (pc[r] = "work" /\ Ahead(todo[r]))

\* A step of the one request at work keeps Current.
LEMMA CurrentFrom ==
  ASSUME Shape, Alone, NEW r \in Requests, setting.serial, OthersWait(r), UNCHANGED setting,
         \/ pc[r] # "idle"
         \/ \A q \in Requests : pc[q] = "idle",
         (pc[r] = "work" => Ahead(todo[r]))' => cur' + 1 \notin DOMAIN turns',
         Up(r)' => seen'[r].cur = cur'
  PROVE  Current'
<1>1. \A q \in Requests \ {r} : pc'[q] = "idle"
  BY DEF Alone, OthersWait, Locals
<1> QED BY <1>1 DEF Current, Up

\* For a player who waits, and without a crash, nothing conflicts.
LEMMA NoConflict ==
  ASSUME Shape, Logged, Alone, Current, setting.serial, crashes = 0, NEW r \in Requests
  PROVE  ~Conflict(r)
<1> SUFFICES ASSUME Conflict(r) PROVE FALSE
  OBVIOUS
<1>1. pc[r] = "work" /\ Undisturbed(r) /\ Orderly(todo[r]) /\ Len(nodes) \in Nat
      /\ TurnNo(r) = seen[r].cur + 1
  BY RequestsTyped, AtWork DEF Conflict, At, Alone, Shape, Held
<1>2. CASE Head(todo[r]) \in Commits /\ ~Unique(TurnNo(r), key[r])
  <2>1. Ahead(todo[r])
    BY <1>1, <1>2, HeadIsCommit
  <2>2. \A q \in Requests : pc[q] = "work" => q = r
    BY <1>1 DEF Alone
  <2>3. cur + 1 \notin DOMAIN turns /\ TurnNo(r) = cur + 1 /\ ~HasTurn(key[r])
    BY <1>1, <2>1, <2>2 DEF Current, Undisturbed, Untried
  <2> QED BY <1>2, <2>3 DEF Unique
<1>3. CASE Head(todo[r]) = "enter" /\ TurnNo(r) + 1 \in DOMAIN turns
  <2>1. ~Ahead(todo[r])
    BY <1>1, <1>3, HeadIsLate DEF Late, Commits, CombatStatements
  <2> QED BY <1>1, <1>3, <2>1 DEF Undisturbed
<1>4. CASE Head(todo[r]) \in Inserts /\ picked[r] <= Len(nodes)
  BY <1>1, <1>4 DEF Undisturbed
<1> QED BY <1>2, <1>3, <1>4 DEF Conflict, At, Commits

\* Every step keeps Current.
LEMMA CurrentNext ==
  ASSUME Shape, Logged, Alone, Current, [Next]_vars
  PROVE  Current'
<1> UNCHANGED setting
  BY DEF Next, vars
<1>1. CASE UNCHANGED vars
  <2>1. UNCHANGED <<cur, turns, pc, todo, seen, crashes>>
    BY <1>1 DEF vars, runVars, reqVars, around
  <2> QED BY <2>1 DEF Current
<1>2. CASE AbortRead \/ AbortWrite \/ FreezePlot
  <2>1. UNCHANGED <<cur, turns, pc, todo, seen, crashes>>
    BY <1>2 DEF AbortRead, AbortWrite, FreezePlot, runVars, reqVars
  <2> QED BY <2>1 DEF Current
<1>3. CASE Crash
  BY <1>3 DEF Crash, Current, Shape, TypeOK
<1>4. ASSUME setting.serial, crashes' = 0, NEW r \in Requests, NEW k \in Keys, Submit(r, k) PROVE Current'
  <2>1. /\ OthersWait(r) /\ pc'[r] = "readRun" /\ UNCHANGED <<turns, cur, crashes>>
        /\ \A q \in Requests : pc[q] = "idle"
    BY <1>4, RequestsTyped DEF Submit, ReqTypes, OthersWait, Locals, runVars
  <2>2. cur + 1 \notin DOMAIN turns
    BY <1>4, <2>1 DEF Current
  <2> QED BY <1>4, <2>1, <2>2, CurrentFrom DEF Up
<1>5. ASSUME setting.serial, crashes' = 0, NEW r \in Requests,
             \/ ReadRun(r) \/ ReadNode(r) \/ Charge(r) \/ ChargeRefused(r) \/ Dispatch(r) \/ Conflict(r) \/ Refund(r)
      PROVE  Current'
  <2>0. ReqTypes /\ UNCHANGED <<turns, cur, crashes>> /\ crashes = 0
    BY <1>5, RequestsTyped
       DEF runVars, around, ReadRun, ReadNode, Charge, ChargeRefused, Dispatch, Conflict, Refund
  <2>1. ~Conflict(r)
    BY <1>5, <2>0, NoConflict
  <2>2. pc[r] \notin {"idle", "work"} /\ \A q \in Requests \ {r} : pc[q] = "idle"
    BY <1>5, <2>1 DEF Alone, ReadRun, ReadNode, Charge, ChargeRefused, Dispatch, Refund
  <2>3. cur' + 1 \notin DOMAIN turns'
    BY <1>5, <2>0, <2>2 DEF Current
  <2>4. CASE Leave(r)
    <3>1. pc'[r] = "idle" /\ OthersWait(r)
      BY <2>0, <2>4, LeaveDoes
    <3> QED BY <1>5, <2>2, <2>3, <3>1, CurrentFrom DEF Up
  <2>5. CASE Throw(r) /\ ~Leave(r)
    <3>1. pc'[r] = "refund" /\ OthersWait(r)
      BY <2>0, <2>5, ThrowDoes
    <3> QED BY <1>5, <2>2, <2>3, <3>1, CurrentFrom DEF Up
  <2>6. CASE ReadRun(r) /\ ~Leave(r)
    <3>1. pc'[r] = "readNode" /\ OthersWait(r) /\ seen'[r].cur = cur
      BY <2>0, <2>6 DEF ReadRun, Goto, ReqTypes, OthersWait, Locals
    <3> QED BY <1>5, <2>0, <2>2, <2>3, <3>1, CurrentFrom
  <2>7. CASE (ReadNode(r) \/ Charge(r) \/ Dispatch(r)) /\ ~Leave(r) /\ ~Throw(r)
    <3>1. pc[r] \in {"readNode", "charge", "dispatch"} /\ OthersWait(r) /\ UNCHANGED seen[r]
      BY <2>0, <2>7 DEF ReadNode, Charge, Dispatch, Goto, ReqTypes, OthersWait, Locals
    <3>2. seen[r].cur = cur
      BY <1>5, <2>0, <3>1 DEF Current
    <3> QED BY <1>5, <2>0, <2>2, <2>3, <3>1, <3>2, CurrentFrom
  <2> QED BY <1>5, <2>1, <2>4, <2>5, <2>6, <2>7 DEF ReadRun, ReadNode, Charge, ChargeRefused,
                                                    Dispatch, Refund
<1>6. ASSUME setting.serial, crashes' = 0, NEW r \in Requests,
             \/ InsertTurn(r) \/ CombatTurn(r) \/ EnterTurn(r) \/ SaveRun(r) \/ SaveEnter(r)
      PROVE  Current'
  <2>1. /\ pc[r] = "work" /\ Proceed(r) /\ Head(todo[r]) \in Late
        /\ Head(todo[r]) \in {"insert", "enter"} \union CombatStatements \union {"save", "saveEnter"}
    BY <1>6 DEF InsertTurn, CombatTurn, EnterTurn, SaveRun, SaveEnter, At, Late, Commits
  <2>2. Orderly(todo[r]) /\ ReqTypes /\ TurnNo(r) = seen[r].cur + 1 /\ Placed(r) /\ cur \in Nat
    BY <2>1, AtWork DEF Shape, TypeOK
  <2>3. OthersWait(r) /\ (Leave(r) \/ (pc'[r] = "work" /\ ~Ahead(todo'[r])))
    BY <2>1, <2>2, ProceedDoes, TailIsOrderly
  <2>4. Leave(r) => pc'[r] = "idle"
    BY <2>2, LeaveDoes
  <2>5. ASSUME Leave(r) PROVE cur' + 1 \notin DOMAIN turns'
    <3>0. Len(todo[r]) = 1
      BY <2>1, <2>2, <2>4, <2>5, ProceedDoes
    <3>1. Head(todo[r]) \notin {"insert", "enter"}
      BY <2>2, <3>0, LastIsHead
    <3>2. CASE CombatTurn(r)
      <4>1. DOMAIN turns' = 0..(cur + 1) /\ cur' = cur + 1
        <5>1. TurnNo(r) \notin DOMAIN turns /\ cur' = TurnNo(r)
          BY <3>2 DEF CombatTurn, Unique
        <5>2. TurnNo(r) = cur + 1
          BY <2>1, <5>1, FreshIsNext
        <5> QED BY <3>2, <5>1, <5>2, TurnWritten
      <4> QED BY <2>2, <4>1
    <3>3. CASE SaveRun(r) \/ SaveEnter(r)
      <4>1. Pending(r) /\ UNCHANGED turns /\ cur' = IF Head(todo[r]) = "save" THEN TurnNo(r) ELSE TurnNo(r) + 1
        BY <3>3 DEF SaveRun, SaveEnter, At, Pending
      <4>2. cur' = cur + 1 /\ cur + 1 \in DOMAIN turns
        BY <2>2, <4>1, PendingMeansAhead DEF Placed, Pending
      <4> QED BY <2>2, <4>1, <4>2, LogNumbers DEF Logged
    <3> QED BY <1>6, <3>1, <3>2, <3>3 DEF InsertTurn, EnterTurn, At
  <2>6. (pc[r] = "work" => Ahead(todo[r]))' => cur' + 1 \notin DOMAIN turns'
    BY <2>3, <2>5
  <2>7. ~Up(r)'
    BY <2>3, <2>4 DEF Up
  <2> QED BY <1>6, <2>1, <2>3, <2>6, <2>7, CurrentFrom
<1>7. ASSUME setting.serial, crashes' = 0, NEW r \in Requests,
             \/ Rewrite(r) \/ EndNode(r) \/ PickNode(r) \/ InsertNode(r) \/ PointRun(r) \/ InsertBattle(r)
             \/ ActivateParent(r) \/ EndRun(r) \/ Merge(r)
      PROVE  Current'
  <2>1. /\ pc[r] = "work" /\ UNCHANGED <<turns, cur, crashes>>
        /\ Head(todo[r]) \notin Commits \union {"save", "enter", "saveEnter"}
        /\ \/ Proceed(r)
           \/ /\ OthersWait(r) /\ Len(todo[r]) # 1 /\ todo'[r] = Tail(todo[r])
              /\ UNCHANGED <<pc[r], key[r], paid[r], seen[r]>>
    BY <1>7, OtherStatements
  <2>2. Orderly(todo[r]) /\ ReqTypes
    BY <2>1, AtWork
  <2>3. OthersWait(r) /\ \/ Leave(r) /\ Len(todo[r]) = 1
                         \/ /\ Len(todo[r]) # 1 /\ todo'[r] = Tail(todo[r]) /\ UNCHANGED <<pc[r],
                                                                                           seen[r]>>
    BY <2>1, <2>2, ProceedDoes
  <2>4. (Leave(r) => pc'[r] = "idle") /\ crashes = 0
    BY <1>7, <2>1, <2>2, LeaveDoes
  <2>5. cur + 1 \notin DOMAIN turns
    <3>1. CASE Ahead(todo[r])
      <4>1. \A q \in Requests : pc[q] = "work" => q = r
        BY <1>7, <2>1 DEF Alone
      <4> QED BY <1>7, <2>4, <3>1, <4>1 DEF Current
    <3>2. CASE ~Ahead(todo[r])
      BY <1>7, <2>1, <3>2 DEF Alone, Undisturbed
    <3> QED BY <3>1, <3>2
  <2>6. Up(r)' => seen'[r].cur = cur'
    <3> SUFFICES ASSUME Up(r)' PROVE seen'[r].cur = cur'
      OBVIOUS
    <3>1. Len(todo[r]) # 1 /\ todo'[r] = Tail(todo[r]) /\ UNCHANGED <<pc[r],
                                                                      seen[r]>> /\ pc'[r] = "work"
          /\ Ahead(todo'[r])
      BY <2>1, <2>3, <2>4 DEF Up
    <3>2. Ahead(todo[r])
      BY <2>2, <3>1, TailIsOrderly
    <3> QED BY <1>7, <2>1, <2>4, <3>1, <3>2 DEF Current
  <2> QED BY <1>7, <2>1, <2>3, <2>5, <2>6, CurrentFrom
<1>8. CASE ~(setting.serial /\ crashes' = 0)
  BY <1>8 DEF Current
<1> QED BY <1>1, <1>2, <1>3, <1>4, <1>5, <1>6, <1>7, <1>8 DEF Next

(* Current is an invariant.                                                *)
THEOREM CurrentHolds == Spec => []Current
<1>1. Init => Current
  BY DEF Init, Current
<1>2. Shape /\ Logged /\ Alone /\ Current /\ [Next]_vars => Current'
  BY CurrentNext
<1> QED BY <1>1, <1>2, ShapeHolds, LogHolds, AloneHolds, PTL DEF Spec

-----------------------------------------------------------------------------

\* What is left of a plan from its i-th statement.
Rest(p, i) == SubSeq(Plan[p], i, Len(Plan[p]))

\* The plans that leave a place for another one.
Moves == {"toLocation", "toHub"}

\* Where the statements that matter to the nodes stand in the plans.
LEMMA Places ==
  ASSUME NEW p \in DOMAIN Plan, NEW i \in 1..Len(Plan[p])
  PROVE  LET s == Plan[p][i] IN
         /\ Len(Plan[p]) = CASE p \in Moves \union {"fight"} -> 8
                             [] p = "win" -> 5
                             [] p \in {"lose", "equip"} -> 3
                             [] p \in {"end", "defeat"} -> 4
                             [] p = "plain" -> 2
                             [] OTHER -> 1
         /\ s = "endNode" <=> p \in Moves /\ i = 1
         /\ s = "pickNode" <=> (p \in Moves /\ i = 4) \/ (p = "fight" /\ i = 3)
         /\ s \in {"insertHub", "insertLocation"} <=> p \in Moves /\ i = 5
         /\ s = "insertCombat" <=> p = "fight" /\ i = 4
         /\ s = "pointRun" <=> (p \in Moves /\ i = 6) \/ (p = "fight" /\ i = 5) \/ (p = "win" /\ i = 3)
         /\ s = "insertBattle" <=> p = "fight" /\ i = 6
         /\ s = "combatEnd" <=> p \in {"win", "lose"} /\ i = 1
         /\ s = "activateParent" <=> p = "win" /\ i = 2
         /\ (p = "lose" /\ i = 2) => s = "endRun"
<1> USE DEF Moves
<1>1. CASE p = "plain"
  BY <1>1 DEF Plan, Commit
<1>2. CASE p = "equip"
  BY <1>2 DEF Plan, Equip
<1>3. CASE p = "toLocation"
  BY <1>3 DEF Plan, Move
<1>4. CASE p = "toHub"
  BY <1>4 DEF Plan, Return
<1>5. CASE p = "fight"
  BY <1>5 DEF Plan, Fight
<1>6. CASE p = "end"
  BY <1>6 DEF Plan, Ending
<1>7. CASE p = "defeat"
  BY <1>7 DEF Plan, Defeat
<1>8. CASE p = "deny"
  BY <1>8 DEF Plan
<1>9. CASE p = "round"
  BY <1>9 DEF Plan
<1>10. CASE p = "win"
  BY <1>10 DEF Plan, Victory
<1>11. CASE p = "lose"
  BY <1>11 DEF Plan, LostFight
<1> QED BY <1>1, <1>2, <1>3, <1>4, <1>5, <1>6, <1>7, <1>8, <1>9, <1>10, <1>11 DEF Plan

\* The next statement of the rest of a plan, and what is left after it.
LEMMA RestIs ==
  ASSUME NEW p \in DOMAIN Plan, NEW i \in 1..Len(Plan[p])
  PROVE  /\ Head(Rest(p, i)) = Plan[p][i] /\ Len(Rest(p, i)) = Len(Plan[p]) - i + 1
         /\ i < Len(Plan[p]) => Tail(Rest(p, i)) = Rest(p, i + 1) /\ i + 1 \in 1..Len(Plan[p])
<1>1. Plan[p] \in Seq(Statements)
  BY PlansAreOrderly DEF Orderly
<1> DEFINE n == Len(Plan[p])
<1>2. n \in Nat
  BY <1>1
<1>3. Rest(p, i) \in Seq(Statements) /\ Len(Rest(p, i)) = n - i + 1
      /\ \A j \in 1..(n - i + 1) : Rest(p, i)[j] = Plan[p][i + j - 1]
  BY <1>1, <1>2, SubSeqProperties DEF Rest
<1>4. Head(Rest(p, i)) = Plan[p][i]
  BY <1>2, <1>3
<1>5. ASSUME i < n PROVE Tail(Rest(p, i)) = Rest(p, i + 1) /\ i + 1 \in 1..n
  <2>1. i + 1 \in 1..n
    BY <1>2, <1>5
  <2>2. Rest(p, i + 1) \in Seq(Statements) /\ Len(Rest(p, i + 1)) = n - i
        /\ \A j \in 1..(n - i) : Rest(p, i + 1)[j] = Plan[p][i + j]
    BY <1>1, <1>2, <2>1, SubSeqProperties DEF Rest
  <2>3. Tail(Rest(p, i)) \in Seq(Statements) /\ Len(Tail(Rest(p, i))) = n - i
        /\ \A j \in 1..(n - i) : Tail(Rest(p, i))[j] = Rest(p, i)[j + 1]
    BY <1>2, <1>3, <1>5
  <2>4. \A j \in 1..(n - i) : Rest(p, i)[j + 1] = Plan[p][i + j]
    BY <1>2, <1>3
  <2> QED BY <1>2, <2>1, <2>2, <2>3, <2>4, SeqEqual
<1> QED BY <1>3, <1>4, <1>5

\* At first the whole plan is left.
LEMMA RestStarts ==
  ASSUME NEW p \in DOMAIN Plan
  PROVE  Rest(p, 1) = Plan[p] /\ 1 \in 1..Len(Plan[p])
<1>1. Plan[p] \in Seq(Statements) /\ Plan[p] # <<>>
  BY PlansAreOrderly DEF Orderly
<1>2. Len(Plan[p]) \in Nat /\ Len(Plan[p]) > 0
  BY <1>1
<1>3. Rest(p, 1) \in Seq(Statements) /\ Len(Rest(p, 1)) = Len(Plan[p])
      /\ \A j \in 1..Len(Plan[p]) : Rest(p, 1)[j] = Plan[p][j]
  BY <1>1, <1>2, SubSeqProperties DEF Rest
<1> QED BY <1>1, <1>2, <1>3, SeqEqual

\* Only nodes of S are active.
Active(S) == \A i \in 1..Len(nodes) : nodes[i].status = "ACTIVE" => i \in S

\* Beside node c only the LOCATION under the fight c is active.
Over(c) ==
  \A i \in 1..Len(nodes) : nodes[i].status = "ACTIVE" =>
    i = c \/ (nodes[c].type = "COMBAT" /\ i = nodes[c].parent /\ nodes[i].type = "LOCATION")

\* The run can be played on from its current node.
Standing == nodes[node].status = "ACTIVE" /\ (nodes[node].type = "COMBAT" => nodes[node].battle) /\ Over(node)

\* c is a fight without its battle state.
Opened(c) == c \in 1..Len(nodes) /\ nodes[c].type = "COMBAT" /\ nodes[c].status = "ACTIVE" /\ Over(c)

\* c is a place, and nothing else is active.
Lit(c) == c \in 1..Len(nodes) /\ nodes[c].status = "ACTIVE" /\ nodes[c].type # "COMBAT" /\ Active({c})

\* The nodes when a request comes to the i-th statement of a plan: what is ended,
\* what is already active and where the run points.
Phase(p, i, r) ==
  /\ p \in Moves =>
       /\ i = 1 => Standing /\ nodes[node].type # "COMBAT" /\ seen[r].node = node
       /\ i \in 2..5 => Active({})
       /\ i = 6 => Lit(picked[r])
       /\ i >= 7 => Standing
  /\ p = "fight" =>
       /\ i <= 4 => Standing /\ nodes[node].type = "LOCATION" /\ seen[r].node = node
       /\ i = 5 => Opened(picked[r])
       /\ i = 6 => Opened(node) /\ picked[r] = node
       /\ i >= 7 => Standing
  /\ p = "win" =>
       /\ i <= 2 => nodes[node].type = "COMBAT" /\ seen[r].node = node
       /\ i = 1 => Standing
       /\ i = 2 => Active({nodes[node].parent})
       /\ i = 3 => Lit(picked[r])
       /\ i >= 4 => Standing
  /\ p = "lose" => i <= 2 /\ (i = 1 => Standing)
  /\ p \notin Moves \union {"fight", "win", "lose"} => Standing

\* The request is in the phase of the statement it comes to.
Doing(r) == \E p \in DOMAIN Plan : \E i \in 1..Len(Plan[p]) : todo[r] = Rest(p, i) /\ Phase(p, i, r)

\* Every fight is fought over a LOCATION.
Grounded == \A i \in 1..Len(nodes) : nodes[i].type = "COMBAT" => nodes[nodes[i].parent].type = "LOCATION"

\* Between the submissions of a player who waits the run stands; during one its
\* nodes are in the phase of the handler.
Playing ==
  (setting.serial /\ crashes = 0 /\ status = "ACTIVE") =>
    /\ Grounded
    /\ (\A r \in Requests : pc[r] # "work") => Standing
    /\ \A r \in Requests :
         /\ pc[r] \in {"readNode", "charge", "dispatch"} => seen[r].node = node
         /\ pc[r] = "work" => Doing(r)

\* A step of the one request at work keeps Playing if the run stands after it, or
\* the request is in a phase.
LEMMA PlayingFrom ==
  ASSUME Shape, Alone, Playing, setting.serial, crashes = 0, status = "ACTIVE", UNCHANGED setting,
         NEW r \in Requests, OthersWait(r), pc[r] # "idle", Grounded',
         pc'[r] # "work" => Standing',
         pc'[r] \in {"readNode", "charge", "dispatch"} => seen'[r].node = node',
         pc'[r] = "work" => Doing(r)'
  PROVE  Playing'
<1>1. \A q \in Requests \ {r} : pc'[q] = "idle"
  BY DEF Alone, OthersWait, Locals
<1>2. (\A q \in Requests : pc'[q] # "work") => Standing'
  OBVIOUS
<1>3. ASSUME NEW q \in Requests
      PROVE  /\ pc'[q] \in {"readNode", "charge", "dispatch"} => seen'[q].node = node'
             /\ pc'[q] = "work" => Doing(q)'
  <2>1. CASE q = r
    BY <2>1
  <2>2. CASE q # r
    BY <2>2, <1>1
  <2> QED BY <2>1, <2>2
<1> QED BY <1>2, <1>3 DEF Playing, Grounded, Doing

\* A request goes to the next statement of its plan or leaves at its end.
LEMMA Advance ==
  ASSUME Shape, NEW r \in Requests, pc[r] = "work",
         NEW p \in DOMAIN Plan, NEW i \in 1..Len(Plan[p]), todo[r] = Rest(p, i),
         \/ Proceed(r)
         \/ /\ OthersWait(r) /\ Len(todo[r]) # 1 /\ todo'[r] = Tail(todo[r])
            /\ UNCHANGED <<pc[r], key[r], paid[r], seen[r]>>
  PROVE  /\ OthersWait(r)
         /\ \/ i = Len(Plan[p]) /\ pc'[r] = "idle"
            \/ /\ i < Len(Plan[p]) /\ i + 1 \in 1..Len(Plan[p]) /\ todo'[r] = Rest(p, i + 1)
               /\ UNCHANGED <<pc[r], seen[r]>>
               /\ Proceed(r) => UNCHANGED picked[r]
<1>1. ReqTypes /\ Orderly(todo[r])
  BY RequestsTyped DEF Shape, Held
<1>2. Len(Plan[p]) \in Nat
  BY PlansAreOrderly DEF Orderly
<1>3. Len(todo[r]) = Len(Plan[p]) - i + 1 /\ (i < Len(Plan[p]) => Tail(todo[r]) = Rest(p, i + 1) /\ i + 1 \in 1..Len(Plan[p]))
  BY RestIs
<1>4. CASE Proceed(r)
  <2>1. CASE Leave(r) /\ Len(todo[r]) = 1
    <3>1. OthersWait(r) /\ pc'[r] = "idle"
      BY <2>1, <1>1, LeaveDoes
    <3>0. Len(todo[r]) = 1
      BY <2>1
    <3>2. i = Len(Plan[p])
      <4> DEFINE n == Len(Plan[p])
      <4>1. n \in Nat /\ i \in 1..n /\ n - i + 1 = 1
        BY <3>0, <1>2, <1>3
      <4>2. n = i
        <5> HIDE DEF n
        <5> QED BY ONLY <4>1
      <4> QED BY <4>2
    <3> QED BY <3>1, <3>2
  <2>2. CASE Len(todo[r]) # 1 /\ todo'[r] = Tail(todo[r]) /\ UNCHANGED <<pc[r], key[r], paid[r],
                                                                         seen[r], picked[r]>>
    BY <2>2, <1>1, <1>2, <1>3, <1>4, ProceedDoes
  <2> QED BY <2>1, <2>2, <1>1, <1>4, ProceedDoes
<1>5. CASE ~Proceed(r)
  <2>1. i < Len(Plan[p])
    BY ONLY <1>2, <1>3, <1>5, i \in 1..Len(Plan[p]),
            Proceed(r) \/ Len(todo[r]) # 1
  <2> QED BY <1>3, <1>5, <2>1
<1> QED BY <1>4, <1>5

\* A statement keeps Playing if it leads to the next phase, or the run stands.
LEMMA PlayingStep ==
  ASSUME Shape, Alone, Playing, setting.serial, crashes = 0, status = "ACTIVE", UNCHANGED setting,
         NEW r \in Requests, pc[r] = "work", Grounded', OthersWait(r),
         NEW p \in DOMAIN Plan, NEW i \in 1..Len(Plan[p]),
         \/ i = Len(Plan[p]) /\ pc'[r] = "idle" /\ Standing'
         \/ /\ i + 1 \in 1..Len(Plan[p]) /\ todo'[r] = Rest(p, i + 1)
            /\ UNCHANGED pc[r] /\ Phase(p, i + 1, r)'
  PROVE  Playing'
<1>1. CASE pc'[r] = "idle" /\ Standing'
  BY <1>1, PlayingFrom
<1>2. CASE i + 1 \in 1..Len(Plan[p]) /\ todo'[r] = Rest(p, i + 1) /\ UNCHANGED pc[r]
           /\ Phase(p, i + 1, r)'
  <2>1. Rest(p, i + 1)' = Rest(p, i + 1)
    BY DEF Rest, Plan, Commit, Equip, Move, Return, Fight, Ending, Defeat, Victory, LostFight
  <2>2. Doing(r)'
    BY <1>2, <2>1 DEF Doing
  <2>3. pc'[r] = "work"
    BY <1>2
  <2> QED BY <2>2, <2>3, PlayingFrom
<1> QED BY <1>1, <1>2

\* The phases are about the nodes and the current one.
LEMMA Same ==
  ASSUME UNCHANGED <<nodes, node>>
  PROVE  /\ Grounded' = Grounded /\ Standing' = Standing
         /\ \A c : Opened(c)' = Opened(c) /\ Lit(c)' = Lit(c)
         /\ \A S : Active(S)' = Active(S)
  BY DEF Grounded, Standing, Opened, Lit, Active, Over

\* A statement that is not about the nodes leads to the next phase.
LEMMA PhaseGoes ==
  ASSUME NEW r \in Requests, NEW p \in DOMAIN Plan, NEW i \in 1..Len(Plan[p]), Phase(p, i, r),
         UNCHANGED <<nodes, node>>,
         ~((p \in Moves /\ i \in {1, 5, 6}) \/ (p = "fight" /\ i \in {4, 5, 6})
             \/ (p = "win" /\ i \in {1, 2, 3}) \/ (p = "lose" /\ i \in {1, 2}))
  PROVE  /\ i = Len(Plan[p]) => Standing'
         /\ (i < Len(Plan[p]) /\ UNCHANGED seen[r]) => Phase(p, i + 1, r)'
<1>1. Len(Plan[p]) = CASE p \in Moves \union {"fight"} -> 8
                             [] p = "win" -> 5
                             [] p \in {"lose", "equip"} -> 3
                             [] p \in {"end", "defeat"} -> 4
                             [] p = "plain" -> 2
                             [] OTHER -> 1
  BY Places
<1>2. CASE p \in Moves
  BY <1>1, <1>2, Same DEF Phase, Moves
<1>3. CASE p = "fight"
  BY <1>1, <1>3, Same DEF Phase, Moves
<1>4. CASE p = "win"
  BY <1>1, <1>4, Same DEF Phase, Moves
<1>5. CASE p = "lose"
  BY <1>1, <1>5, Same DEF Phase, Moves
<1>6. CASE p \notin Moves \union {"fight", "win", "lose"}
  BY <1>1, <1>6, Same DEF Phase, Moves
<1> QED BY <1>2, <1>3, <1>4, <1>5, <1>6

\* A request of a player who waits at the i-th statement of plan p.
InPlay(r, p, i) ==
  /\ Shape /\ Alone /\ Playing /\ setting.serial /\ crashes = 0 /\ status = "ACTIVE"
  /\ r \in Requests /\ pc[r] = "work" /\ p \in DOMAIN Plan /\ i \in 1..Len(Plan[p])
  /\ todo[r] = Rest(p, i) /\ Phase(p, i, r) /\ Grounded

\* The next statement is the i-th of the plan.
LEMMA StatementAt ==
  ASSUME NEW r, NEW p, NEW i, InPlay(r, p, i)
  PROVE  Head(todo[r]) = Plan[p][i]
BY RestIs DEF InPlay

\* The place of the statements that matter to the nodes.
LEMMA PlaceAt ==
  ASSUME NEW r, NEW p, NEW i, InPlay(r, p, i)
  PROVE  LET s == Head(todo[r]) IN
         /\ s = "endNode" <=> p \in Moves /\ i = 1
         /\ s = "pickNode" <=> (p \in Moves /\ i = 4) \/ (p = "fight" /\ i = 3)
         /\ s \in {"insertHub", "insertLocation"} <=> p \in Moves /\ i = 5
         /\ s = "insertCombat" <=> p = "fight" /\ i = 4
         /\ s = "pointRun" <=> (p \in Moves /\ i = 6) \/ (p = "fight" /\ i = 5) \/ (p = "win" /\ i = 3)
         /\ s = "insertBattle" <=> p = "fight" /\ i = 6
         /\ s = "combatEnd" <=> p \in {"win", "lose"} /\ i = 1
         /\ s = "activateParent" <=> p = "win" /\ i = 2
         /\ (p = "lose" /\ i = 2) => s = "endRun"
<1>1. Head(todo[r]) = Plan[p][i]
  BY StatementAt
<1>2. p \in DOMAIN Plan /\ i \in 1..Len(Plan[p])
  BY DEF InPlay
<1> QED BY <1>1, <1>2, Places

\* The statements about the nodes are inside their plans.
LEMMA Inside ==
  ASSUME NEW r, NEW p, NEW i, InPlay(r, p, i),
         \/ p \in Moves /\ i \in {1, 5, 6}
         \/ p = "fight" /\ i \in {4, 5, 6}
         \/ p = "win" /\ i \in {1, 2, 3}
         \/ p = "lose" /\ i = 1
  PROVE  i < Len(Plan[p])
<1>1. p \in DOMAIN Plan /\ i \in 1..Len(Plan[p])
  BY DEF InPlay
<1>2. CASE p \in Moves \union {"fight"}
  BY <1>1, <1>2, Places DEF Moves
<1>3. CASE p = "win"
  <2>1. Len(Plan[p]) = 5
    BY <1>3 DEF Plan, Victory
  <2> QED BY <1>3, <2>1 DEF Moves
<1>4. CASE p = "lose"
  BY <1>1, <1>4, Places DEF Moves
<1> QED BY <1>2, <1>3, <1>4

\* A statement that leaves the nodes keeps Playing.
LEMMA PlaysOn ==
  ASSUME NEW r, NEW p, NEW i, InPlay(r, p, i), Proceed(r) \/ PickNode(r), UNCHANGED <<setting,
                                                                                      nodes, node>>,
         ~((p \in Moves /\ i \in {1, 5, 6}) \/ (p = "fight" /\ i \in {4, 5, 6})
             \/ (p = "win" /\ i \in {1, 2, 3}) \/ (p = "lose" /\ i \in {1, 2}))
  PROVE  Playing'
<1>1. \/ Proceed(r)
      \/ /\ OthersWait(r) /\ Len(todo[r]) # 1 /\ todo'[r] = Tail(todo[r])
         /\ UNCHANGED <<pc[r], key[r], paid[r], seen[r]>>
  BY OtherStatements DEF InPlay
<1>2. /\ OthersWait(r)
      /\ \/ i = Len(Plan[p]) /\ pc'[r] = "idle"
         \/ /\ i < Len(Plan[p]) /\ i + 1 \in 1..Len(Plan[p]) /\ todo'[r] = Rest(p, i + 1)
            /\ UNCHANGED <<pc[r], seen[r]>>
  BY <1>1, Advance DEF InPlay
<1>3. /\ i = Len(Plan[p]) => Standing'
      /\ (i < Len(Plan[p]) /\ UNCHANGED seen[r]) => Phase(p, i + 1, r)'
  BY PhaseGoes DEF InPlay
<1>4. Grounded'
  BY Same DEF InPlay
<1> QED BY <1>2, <1>3, <1>4, PlayingStep DEF InPlay

\* A statement inside a plan that changes the nodes.
LEMMA PlaysInside ==
  ASSUME NEW r, NEW p, NEW i, InPlay(r, p, i), UNCHANGED setting, i < Len(Plan[p]),
         \/ Proceed(r)
         \/ /\ OthersWait(r) /\ Len(todo[r]) # 1 /\ todo'[r] = Tail(todo[r])
            /\ UNCHANGED <<pc[r], key[r], paid[r], seen[r]>>,
         Grounded',
         (UNCHANGED seen[r] /\ (Proceed(r) => UNCHANGED picked[r])) => Phase(p, i + 1, r)'
  PROVE  Playing'
<1>1. /\ OthersWait(r)
      /\ \/ i = Len(Plan[p]) /\ pc'[r] = "idle"
         \/ /\ i < Len(Plan[p]) /\ i + 1 \in 1..Len(Plan[p]) /\ todo'[r] = Rest(p, i + 1)
            /\ UNCHANGED <<pc[r], seen[r]>>
            /\ Proceed(r) => UNCHANGED picked[r]
  BY Advance DEF InPlay
<1>2. i # Len(Plan[p])
  BY PlansAreOrderly DEF InPlay, Orderly
<1> QED BY <1>1, <1>2, PlayingStep DEF InPlay

\* The types of what the statements work on.
LEMMA InPlayTypes ==
  ASSUME NEW r, NEW p, NEW i, InPlay(r, p, i)
  PROVE  /\ nodes \in Seq(Node) /\ Len(nodes) \in Nat /\ node \in 1..Len(nodes) /\ Fights
         /\ seen[r].node \in 1..Len(nodes) /\ \A j \in 1..Len(nodes) : nodes[j] \in Node
         /\ Orderly(todo[r]) /\ ReqTypes /\ spent \subseteq Keys
<1>1. nodes \in Seq(Node) /\ Len(nodes) \in Nat /\ node \in 1..Len(nodes) /\ Fights /\ Held(r)
      /\ ReqTypes
  BY RequestsTyped DEF InPlay, Shape, TypeOK
<1>2. seen[r].node \in 1..Len(nodes) /\ Orderly(todo[r])
  BY <1>1 DEF InPlay, Held
<1> QED BY <1>1, <1>2 DEF InPlay, Shape, TypeOK

\* What SetNodeStatus leaves and changes.
LEMMA StatusSet ==
  ASSUME nodes \in Seq(Node), Len(nodes) \in Nat, Fights, Grounded,
         NEW i \in 1..Len(nodes), NEW s \in {"ACTIVE", "ENDED"}, SetNodeStatus(i, s)
  PROVE  /\ Len(nodes') = Len(nodes) /\ nodes'[i].status = s
         /\ \A j \in 1..Len(nodes) :
              /\ nodes'[j].type = nodes[j].type /\ nodes'[j].parent = nodes[j].parent
              /\ j # i => nodes'[j] = nodes[j]
         /\ Grounded'
<1>1. Len(nodes') = Len(nodes)
  BY DEF SetNodeStatus
<1>2. nodes'[i] = [type |-> nodes[i].type, status |-> s, parent |-> nodes[i].parent, battle |-> nodes[i].battle]
      /\ \A j \in 1..Len(nodes) : j # i => nodes'[j] = nodes[j]
  BY DEF SetNodeStatus
<1>3. \A j \in 1..Len(nodes) :
              /\ nodes'[j].type = nodes[j].type /\ nodes'[j].parent = nodes[j].parent
  BY <1>2
<1>4. Grounded'
  BY <1>1, <1>3 DEF Grounded, Fights
<1> QED BY <1>1, <1>2, <1>3, <1>4

\* Each statement about the nodes keeps Playing: the place is left,
LEMMA PlayEndNode ==
  ASSUME NEW r, NEW p, NEW i, InPlay(r, p, i), EndNode(r), UNCHANGED setting
  PROVE  Playing'
<1>1. Proceed(r) /\ SetNodeStatus(seen[r].node, "ENDED") /\ Head(todo[r]) = "endNode"
      /\ UNCHANGED node
  BY DEF EndNode, At, runVars
<1>2. p \in Moves /\ i = 1 /\ i < Len(Plan[p])
  BY <1>1, PlaceAt, Inside
<1>3. Standing /\ nodes[node].type # "COMBAT" /\ seen[r].node = node
  BY <1>2 DEF InPlay, Phase
<1>4. Active({})' /\ Grounded'
  BY <1>1, <1>3, InPlayTypes, StatusSet DEF Active, Standing, Over, InPlay
<1>5. Phase(p, i + 1, r)'
  BY <1>2, <1>4 DEF Phase, Moves
<1> QED BY <1>1, <1>2, <1>4, <1>5, PlaysInside

\* the next place or the fight is created,
LEMMA PlayInsertNode ==
  ASSUME NEW r, NEW p, NEW i, InPlay(r, p, i), InsertNode(r), UNCHANGED setting
  PROVE  Playing'
<1>1. PICK type \in {"HUB", "LOCATION", "COMBAT"} :
    /\ Head(todo[r]) = CASE type = "HUB" -> "insertHub"
               [] type = "LOCATION" -> "insertLocation"
               [] type = "COMBAT" -> "insertCombat"
    /\ picked[r] = Len(nodes) + 1
    /\ nodes' = Append(nodes, [type |-> type, status |-> "ACTIVE", battle |-> FALSE,
                               parent |-> IF type = "COMBAT" THEN seen[r].node ELSE 0])
    /\ Proceed(r) /\ UNCHANGED node
  BY DEF InsertNode, At, runVars
<1> DEFINE c == Len(nodes) + 1
<1>2. /\ Len(nodes) \in Nat /\ Len(nodes') = c
      /\ nodes'[c] = [type |-> type, status |-> "ACTIVE", battle |-> FALSE,
                      parent |-> IF type = "COMBAT" THEN seen[r].node ELSE 0]
      /\ \A j \in 1..Len(nodes) : nodes'[j] = nodes[j]
      /\ \A j \in 1..c : j = c \/ j \in 1..Len(nodes)
      /\ node \in 1..Len(nodes) /\ Fights /\ Grounded
  BY <1>1, InPlayTypes DEF InPlay
<1>3. ASSUME type # "COMBAT" PROVE p \in Moves /\ i = 5
  BY <1>1, <1>3, PlaceAt
<1>4. ASSUME type = "COMBAT" PROVE p = "fight" /\ i = 4
  BY <1>1, <1>4, PlaceAt
<1>5. CASE type # "COMBAT"
  <2>1. Active({})
    BY <1>3, <1>5 DEF InPlay, Phase
  <2>2. ASSUME picked'[r] = c PROVE Lit(picked[r])'
    BY <1>2, <1>5, <2>1, <2>2 DEF Lit, Active
  <2>3. Grounded'
    BY <1>2, <1>5 DEF Grounded, Fights
  <2>4. (Proceed(r) => UNCHANGED picked[r]) => Phase(p, i + 1, r)'
    BY <1>1, <1>3, <1>5, <2>2 DEF Phase, Moves
  <2> QED BY <1>1, <1>3, <1>5, <2>3, <2>4, PlaysInside, Inside
<1>6. CASE type = "COMBAT"
  <2>1. Standing /\ nodes[node].type = "LOCATION" /\ seen[r].node = node
    BY <1>4, <1>6 DEF InPlay, Phase
  <2>2. \A j \in 1..Len(nodes) : nodes[j].status = "ACTIVE" => j = node
    BY <2>1 DEF Standing, Over
  <2>3. ASSUME picked'[r] = c PROVE Opened(picked[r])'
    <3>1. c \in 1..Len(nodes') /\ nodes'[c].type = "COMBAT" /\ nodes'[c].status = "ACTIVE"
          /\ nodes'[c].parent = node
      BY <1>2, <1>6, <2>1
    <3>2. Over(picked[r])'
      BY <1>2, <2>1, <2>2, <2>3, <3>1 DEF Over
    <3> QED BY <2>3, <3>1, <3>2 DEF Opened
  <2>4. Grounded'
    BY <1>2, <1>6, <2>1 DEF Grounded, Fights
  <2>5. (Proceed(r) => UNCHANGED picked[r]) => Phase(p, i + 1, r)'
    BY <1>1, <1>4, <1>6, <2>3 DEF Phase, Moves
  <2> QED BY <1>1, <1>4, <1>6, <2>4, <2>5, PlaysInside, Inside
<1> QED BY <1>5, <1>6

\* the run points to it,
LEMMA PlayPointRun ==
  ASSUME NEW r, NEW p, NEW i, InPlay(r, p, i), PointRun(r), UNCHANGED setting
  PROVE  Playing'
<1>1. Proceed(r) /\ Head(todo[r]) = "pointRun" /\ node' = picked[r] /\ UNCHANGED nodes
  BY DEF PointRun, At
<1>2. (p \in Moves /\ i = 6) \/ (p = "fight" /\ i = 5) \/ (p = "win" /\ i = 3)
  BY <1>1, PlaceAt
<1>3. Grounded'
  BY <1>1 DEF InPlay, Grounded
<1>4. CASE (p \in Moves /\ i = 6) \/ (p = "win" /\ i = 3)
  <2>1. Lit(picked[r])
    BY <1>4 DEF InPlay, Phase, Moves
  <2>2. Standing'
    BY <1>1, <2>1 DEF Lit, Active, Standing, Over
  <2>3. Phase(p, i + 1, r)'
    BY <1>4, <2>2 DEF Phase, Moves
  <2> QED BY <1>1, <1>3, <1>4, <2>3, PlaysInside, Inside
<1>5. CASE p = "fight" /\ i = 5
  <2>1. Opened(picked[r])
    BY <1>5 DEF InPlay, Phase
  <2>2. Opened(node)'
    BY <1>1, <2>1 DEF Opened, Over
  <2>3. UNCHANGED picked[r] => Phase(p, i + 1, r)'
    BY <1>1, <1>5, <2>2 DEF Phase, Moves
  <2> QED BY <1>1, <1>3, <1>5, <2>3, PlaysInside, Inside
<1> QED BY <1>2, <1>4, <1>5

\* the fight gets its battle state,
LEMMA PlayInsertBattle ==
  ASSUME NEW r, NEW p, NEW i, InPlay(r, p, i), InsertBattle(r), UNCHANGED setting
  PROVE  Playing'
<1>1. Proceed(r) /\ Head(todo[r]) = "insertBattle" /\ UNCHANGED node
      /\ nodes' = [nodes EXCEPT ![picked[r]] = [type |-> @.type, status |-> @.status,
                                            parent |-> @.parent, battle |-> TRUE]]
  BY DEF InsertBattle, At, runVars
<1>2. p = "fight" /\ i = 6
  BY <1>1, PlaceAt
<1>3. Opened(node) /\ picked[r] = node
  BY <1>2 DEF InPlay, Phase
<1>4. /\ Len(nodes') = Len(nodes) /\ node \in 1..Len(nodes) /\ Fights /\ Grounded
      /\ nodes'[node] = [type |-> nodes[node].type, status |-> nodes[node].status,
                         parent |-> nodes[node].parent, battle |-> TRUE]
      /\ \A j \in 1..Len(nodes) : j # node => nodes'[j] = nodes[j]
  <2> DEFINE e == [type |-> nodes[node].type, status |-> nodes[node].status,
                   parent |-> nodes[node].parent, battle |-> TRUE]
  <2>1. nodes \in Seq(Node) /\ node \in 1..Len(nodes) /\ Fights /\ Grounded /\ nodes[node] \in Node
    BY InPlayTypes DEF InPlay
  <2>2. e \in Node
    BY <2>1 DEF Node
  <2>3. nodes' = [nodes EXCEPT ![node] = e]
    BY <1>1, <1>3
  <2> HIDE DEF e
  <2>4. nodes' \in Seq(Node) /\ Len(nodes') = Len(nodes) /\ nodes'[node] = e
         /\ \A j \in 1..Len(nodes) : j # node => nodes'[j] = nodes[j]
    BY <2>1, <2>2, <2>3, NodeReplaced
  <2> QED BY <2>1, <2>4 DEF e
<1>5. \A j \in 1..Len(nodes) :
        nodes'[j].type = nodes[j].type /\ nodes'[j].parent = nodes[j].parent
        /\ nodes'[j].status = nodes[j].status
  BY <1>4
<1>6. Grounded'
  BY <1>4, <1>5 DEF Grounded, Fights
<1>7. Standing'
  <2>1. Over(node)'
    BY <1>1, <1>3, <1>4, <1>5 DEF Opened, Over
  <2>2. nodes'[node].status = "ACTIVE" /\ nodes'[node].battle
    BY <1>3, <1>4 DEF Opened
  <2> QED BY <1>1, <2>1, <2>2 DEF Standing
<1>8. Phase(p, i + 1, r)'
  BY <1>2, <1>7 DEF Phase, Moves
<1> QED BY <1>1, <1>2, <1>6, <1>8, PlaysInside, Inside

\* the fight ends,
LEMMA PlayCombatEnd ==
  ASSUME NEW r, NEW p, NEW i, InPlay(r, p, i), CombatTurn(r), At(r, "combatEnd"), UNCHANGED setting
  PROVE  Playing'
<1>1. Proceed(r) /\ Head(todo[r]) = "combatEnd" /\ UNCHANGED node
      /\ SetNodeStatus(seen[r].node, "ENDED")
  BY DEF CombatTurn, At
<1>2. p \in {"win", "lose"} /\ i = 1
  BY <1>1, PlaceAt
<1>3. Grounded'
  BY <1>1, InPlayTypes, StatusSet DEF InPlay
<1>4. CASE p = "lose"
  <2>1. Phase(p, i + 1, r)'
    BY <1>2, <1>4 DEF Phase, Moves
  <2> QED BY <1>1, <1>2, <1>3, <1>4, <2>1, PlaysInside, Inside
<1>5. CASE p = "win"
  <2>1. Standing /\ nodes[node].type = "COMBAT" /\ seen[r].node = node
    BY <1>2, <1>5 DEF InPlay, Phase
  <2>2. nodes'[node].type = "COMBAT" /\ nodes'[node].parent = nodes[node].parent
    BY <1>1, <2>1, InPlayTypes, StatusSet DEF InPlay
  <2>3. \A j \in 1..Len(nodes') : nodes'[j].status = "ACTIVE" => j = nodes[node].parent
    BY <1>1, <2>1, InPlayTypes, StatusSet DEF InPlay, Standing, Over
  <2>4. Active({nodes[node].parent})'
    BY <1>1, <2>2, <2>3 DEF Active
  <2>5. UNCHANGED seen[r] => Phase(p, i + 1, r)'
    BY <1>1, <1>2, <1>5, <2>1, <2>2, <2>4 DEF Phase, Moves
  <2> QED BY <1>1, <1>2, <1>3, <1>5, <2>5, PlaysInside, Inside
<1> QED BY <1>2, <1>4, <1>5

\* and its place is active again.
LEMMA PlayActivateParent ==
  ASSUME NEW r, NEW p, NEW i, InPlay(r, p, i), ActivateParent(r), UNCHANGED setting
  PROVE  Playing'
<1> DEFINE c == nodes[seen[r].node].parent
<1>1. /\ Head(todo[r]) = "activateParent" /\ UNCHANGED node /\ SetNodeStatus(c, "ACTIVE")
      /\ picked' = [picked EXCEPT ![r] = c]
  BY DEF ActivateParent, At, runVars
<1>2. /\ OthersWait(r) /\ Len(todo[r]) # 1 /\ todo'[r] = Tail(todo[r])
      /\ UNCHANGED <<pc[r], key[r], paid[r], seen[r]>>
  <2>1. Orderly(todo[r]) /\ ReqTypes
    BY InPlayTypes
  <2>2. Len(todo[r]) # 1
    BY <1>1, <2>1, LastIsHead
  <2>3. todo' = [todo EXCEPT ![r] = Tail(@)] /\ UNCHANGED <<pc, key, paid, seen>> /\ r \in Requests
    BY DEF ActivateParent, InPlay
  <2>4. OthersWait(r)
    BY <1>1, <2>1, <2>3 DEF ReqTypes, OthersWait, Locals
  <2> QED BY <2>1, <2>2, <2>3, <2>4 DEF ReqTypes
<1>3. p = "win" /\ i = 2
  BY <1>1, PlaceAt
<1>4. nodes[node].type = "COMBAT" /\ seen[r].node = node /\ Active({c})
  <2>1. nodes[node].type = "COMBAT" /\ seen[r].node = node /\ Active({nodes[node].parent})
    BY <1>3 DEF InPlay, Phase
  <2>2. c = nodes[node].parent
    BY <2>1
  <2> HIDE DEF c
  <2> QED BY <2>1, <2>2
<1>5. c \in 1..Len(nodes) /\ nodes[c].type = "LOCATION"
  BY <1>4, InPlayTypes DEF Fights, InPlay, Grounded
<1>6. Grounded' /\ Len(nodes') = Len(nodes) /\ nodes'[c].status = "ACTIVE"
      /\ nodes'[c].type = "LOCATION"
      /\ \A j \in 1..Len(nodes) : j # c => nodes'[j] = nodes[j]
  BY <1>1, <1>5, InPlayTypes, StatusSet DEF InPlay
<1>7. picked'[r] = c
  BY <1>1, InPlayTypes DEF ReqTypes, InPlay
<1>8. Lit(picked[r])'
  BY <1>4, <1>5, <1>6, <1>7 DEF Lit, Active
<1>9. Phase(p, i + 1, r)'
  BY <1>3, <1>8 DEF Phase, Moves
<1>10. ~Proceed(r) \/ Proceed(r)
  OBVIOUS
<1> QED BY <1>2, <1>3, <1>6, <1>9, PlaysInside, Inside

\* A step that leaves the nodes and the requests keeps Playing.
LEMMA PlayingSame ==
  ASSUME Playing, UNCHANGED <<setting, status, crashes, nodes, node, pc, todo, seen, picked>>
  PROVE  Playing'
<1>1. \A p \in DOMAIN Plan, i \in Nat : Rest(p, i)' = Rest(p, i)
  BY DEF Rest, Plan, Commit, Equip, Move, Return, Fight, Ending, Defeat, Victory, LostFight
<1>2. \A p, i, r : Phase(p, i, r)' = Phase(p, i, r)
  BY Same DEF Phase, Moves
<1>3. \A r : Doing(r)' = Doing(r)
  BY <1>1, <1>2, PlansAreOrderly DEF Doing, Orderly
<1> QED BY <1>3, Same DEF Playing, Doing, Grounded

\* Every statement of a plan keeps the nodes in the phase of the plan.
LEMMA PlayStatement ==
  ASSUME NEW r, NEW p, NEW i, InPlay(r, p, i), UNCHANGED setting, status' = "ACTIVE",
         \/ InsertTurn(r) \/ SaveRun(r) \/ Rewrite(r) \/ EnterTurn(r) \/ SaveEnter(r)
         \/ EndNode(r) \/ PickNode(r) \/ InsertNode(r) \/ PointRun(r) \/ InsertBattle(r)
         \/ CombatTurn(r) \/ ActivateParent(r) \/ EndRun(r) \/ Merge(r)
  PROVE  Playing'
<1>1. ~EndRun(r)
  BY DEF EndRun
<1>2. CASE InsertTurn(r) \/ SaveRun(r) \/ Rewrite(r) \/ EnterTurn(r) \/ SaveEnter(r) \/ PickNode(r) \/ Merge(r)
           \/ (CombatTurn(r) /\ ~At(r, "combatEnd"))
  <2>1. (Proceed(r) \/ PickNode(r)) /\ UNCHANGED <<nodes, node>>
    BY <1>2 DEF InsertTurn, SaveRun, Rewrite, EnterTurn, SaveEnter, PickNode, Merge, CombatTurn,
                runVars
  <2>2. Head(todo[r]) \in {"insert", "save", "rewrite", "enter", "saveEnter", "pickNode", "merge",
                           "combatDeny", "combatTurn"}
    BY <1>2 DEF InsertTurn, SaveRun, Rewrite, EnterTurn, SaveEnter, PickNode, Merge, CombatTurn,
                At, CombatStatements
  <2>3. ~((p \in Moves /\ i \in {1, 5, 6}) \/ (p = "fight" /\ i \in {4, 5, 6})
             \/ (p = "win" /\ i \in {1, 2, 3}) \/ (p = "lose" /\ i \in {1, 2}))
    <3>1. \/ Head(todo[r]) \in {"endNode", "insertHub", "insertLocation", "insertCombat", "pointRun", "insertBattle",
                             "combatEnd", "activateParent", "endRun"}
          \/ ~((p \in Moves /\ i \in {1, 5, 6}) \/ (p = "fight" /\ i \in {4, 5, 6})
             \/ (p = "win" /\ i \in {1, 2, 3}) \/ (p = "lose" /\ i \in {1, 2}))
      BY PlaceAt
    <3> QED BY <2>2, <3>1
  <2> QED BY <2>1, <2>3, PlaysOn
<1>3. CASE CombatTurn(r) /\ At(r, "combatEnd")
  BY <1>3, PlayCombatEnd
<1> QED BY <1>1, <1>2, <1>3, PlayEndNode, PlayInsertNode, PlayPointRun, PlayInsertBattle,
   PlayActivateParent

\* The plan that is chosen fits the node the run stands on.
LEMMA PlayDispatch ==
  ASSUME Shape, Alone, Playing, setting.serial, crashes = 0, status = "ACTIVE", UNCHANGED setting,
         NEW r \in Requests, Dispatch(r), ~Throw(r)
  PROVE  Playing'
<1> DEFINE here == nodes[seen[r].node]
<1>1. PICK p \in PlansOf(here.type) : todo' = [todo EXCEPT ![r] = Plan[p]]
  BY DEF Dispatch
<1>2. /\ pc[r] = "dispatch" /\ pc' = [pc EXCEPT ![r] = "work"] /\ UNCHANGED <<key, paid, seen,
                                                                              picked>>
      /\ UNCHANGED <<nodes,
                     node>> /\ ReqTypes /\ nodes \in Seq(Node) /\ Len(nodes) \in Nat /\ Held(r)
  BY RequestsTyped DEF Dispatch, runVars, Shape
<1>3. /\ seen[r].node = node /\ node \in 1..Len(nodes) /\ Grounded
      /\ \A q \in Requests \ {r} : pc[q] = "idle"
  BY <1>2 DEF Playing, Grounded, Alone, Shape, TypeOK
<1>4. Standing
  BY <1>2, <1>3 DEF Playing
<1>5. p \in DOMAIN Plan
  BY <1>1, <1>2, <1>3, PlanChosen
<1>6. nodes[node].type \in {"HUB", "LOCATION", "COMBAT"}
  <2>1. nodes[node] \in Node
    BY <1>2, <1>3
  <2> QED BY <2>1 DEF Node
<1>7. /\ p \in Moves => nodes[node].type # "COMBAT"
      /\ p = "fight" => nodes[node].type = "LOCATION"
      /\ p \in {"win", "lose"} => nodes[node].type = "COMBAT"
  BY <1>1, <1>3, <1>6 DEF PlansOf, HubPlans, LocationPlans, CombatPlans, Moves
<1>8. pc'[r] = "work" /\ todo'[r] = Plan[p] /\ seen'[r].node = node' /\ OthersWait(r)
  BY <1>1, <1>2, <1>3 DEF ReqTypes, OthersWait, Locals
<1>9. Standing' /\ Grounded'
  BY <1>2, <1>3, <1>4, Same
<1>10. Phase(p, 1, r)'
  BY <1>2, <1>7, <1>8, <1>9 DEF Phase, Moves
<1>11. Rest(p, 1)' = Plan[p] /\ 1 \in 1..Len(Plan[p])
  <2>1. Rest(p, 1)' = Rest(p, 1)
    BY DEF Rest, Plan, Commit, Equip, Move, Return, Fight, Ending, Defeat, Victory, LostFight
  <2> QED BY <2>1, <1>5, RestStarts
<1>12. Doing(r)'
  <2>1. todo'[r] = Rest(p, 1)' /\ 1 \in 1..Len(Plan[p])
    BY <1>8, <1>11
  <2> QED BY <1>5, <1>10, <2>1 DEF Doing
<1> QED BY <1>2, <1>8, <1>9, <1>12, PlayingFrom

\* Every step keeps Playing.
LEMMA PlayingNext ==
  ASSUME Shape, Logged, Alone, Current, Playing, [Next]_vars
  PROVE  Playing'
<1> SUFFICES ASSUME setting.serial, crashes' = 0, status' = "ACTIVE" PROVE Playing'
  BY DEF Playing, Next, vars
<1>0. UNCHANGED setting
  BY DEF Next, vars
<1>1. CASE UNCHANGED vars \/ AbortRead \/ FreezePlot
  <2>1. UNCHANGED <<setting, status, crashes, nodes, node, pc, todo, seen, picked>>
    BY <1>0, <1>1 DEF vars, runVars, reqVars, around, AbortRead, FreezePlot
  <2> QED BY <2>1, PlayingSame
<1>2. ~AbortWrite /\ ~Crash
  BY DEF AbortWrite, Crash, Shape, TypeOK
<1>3. ASSUME NEW r \in Requests, NEW k \in Keys, Submit(r, k) PROVE Playing'
  <2>1. /\ ReqTypes /\ UNCHANGED <<nodes, node, status, crashes>>
        /\ \A q \in Requests : pc[q] = "idle"
        /\ pc'[r] = "readRun" /\ \A q \in Requests \ {r} : pc'[q] = "idle"
    BY <1>3, RequestsTyped DEF Submit, ReqTypes, runVars
  <2>2. Standing' /\ Grounded'
    BY <1>3, <2>1, Same DEF Playing, Grounded
  <2> QED BY <2>1, <2>2 DEF Playing, Grounded
<1>4. ASSUME NEW r \in Requests,
             \/ ReadRun(r) \/ ReadNode(r) \/ Charge(r) \/ ChargeRefused(r) \/ Dispatch(r) \/ Conflict(r) \/ Refund(r)
      PROVE  Playing'
  <2>0. ReqTypes /\ UNCHANGED <<nodes, node, status, crashes>> /\ crashes = 0 /\ status = "ACTIVE"
    BY <1>4, RequestsTyped
       DEF runVars, around, ReadRun, ReadNode, Charge, ChargeRefused, Dispatch, Conflict, Refund
  <2>1. ~Conflict(r)
    BY <1>4, <2>0, NoConflict
  <2>2. pc[r] \notin {"idle", "work"} /\ \A q \in Requests \ {r} : pc[q] = "idle"
    BY <1>4, <2>1 DEF Alone, ReadRun, ReadNode, Charge, ChargeRefused, Dispatch, Refund
  <2>3. Standing' /\ Grounded'
    <3>1. \A q \in Requests : pc[q] # "work"
      BY <2>2
    <3> QED BY <2>0, <3>1, Same DEF Playing, Grounded
  <2>4. CASE Leave(r)
    <3>1. pc'[r] = "idle" /\ OthersWait(r)
      BY <2>0, <2>4, LeaveDoes
    <3> QED BY <1>0, <2>0, <2>2, <2>3, <3>1, PlayingFrom
  <2>5. CASE Throw(r) /\ ~Leave(r)
    <3>1. pc'[r] = "refund" /\ OthersWait(r)
      BY <2>0, <2>5, ThrowDoes
    <3> QED BY <1>0, <2>0, <2>2, <2>3, <3>1, PlayingFrom
  <2>6. CASE ReadRun(r) /\ ~Leave(r)
    <3>1. pc'[r] = "readNode" /\ OthersWait(r) /\ seen'[r].node = node
      BY <2>0, <2>6 DEF ReadRun, Goto, ReqTypes, OthersWait, Locals
    <3> QED BY <1>0, <2>0, <2>2, <2>3, <3>1, PlayingFrom
  <2>7. CASE (ReadNode(r) \/ Charge(r)) /\ ~Leave(r)
    <3>1. pc[r] \in {"readNode", "charge"} /\ pc'[r] \in {"charge", "dispatch"}
          /\ OthersWait(r) /\ UNCHANGED seen[r]
      BY <2>0, <2>7 DEF ReadNode, Charge, Goto, ReqTypes, OthersWait, Locals
    <3>2. seen[r].node = node
      BY <2>0, <3>1 DEF Playing
    <3> QED BY <1>0, <2>0, <2>2, <2>3, <3>1, <3>2, PlayingFrom
  <2>8. CASE Dispatch(r) /\ ~Throw(r)
    BY <1>0, <2>0, <2>8, PlayDispatch
  <2> QED BY <1>4, <2>1, <2>4, <2>5, <2>6, <2>7, <2>8 DEF ReadRun, ReadNode, ChargeRefused,
                                                          Dispatch, Refund
<1>5. ASSUME NEW r \in Requests,
             \/ InsertTurn(r) \/ SaveRun(r) \/ Rewrite(r) \/ EnterTurn(r) \/ SaveEnter(r)
             \/ EndNode(r) \/ PickNode(r) \/ InsertNode(r) \/ PointRun(r) \/ InsertBattle(r)
             \/ CombatTurn(r) \/ ActivateParent(r) \/ EndRun(r) \/ Merge(r)
      PROVE  Playing'
  <2>1. pc[r] = "work" /\ crashes = 0
    <3>1. CASE InsertTurn(r) \/ CombatTurn(r) \/ EnterTurn(r) \/ SaveRun(r) \/ SaveEnter(r)
      BY <3>1 DEF InsertTurn, CombatTurn, EnterTurn, SaveRun, SaveEnter, At, around
    <3> QED BY <1>5, <3>1, OtherStatements
  <2>2. status = "ACTIVE"
    BY <1>5 DEF InsertTurn, SaveRun, Rewrite, EnterTurn, SaveEnter, EndNode, PickNode,
                InsertNode, PointRun,
                InsertBattle, CombatTurn, ActivateParent, EndRun, Merge, runVars
  <2>3. PICK p \in DOMAIN Plan : \E i \in 1..Len(Plan[p]) : todo[r] = Rest(p, i) /\ Phase(p, i, r)
    BY <2>1, <2>2 DEF Playing, Doing
  <2>4. PICK i \in 1..Len(Plan[p]) : todo[r] = Rest(p, i) /\ Phase(p, i, r)
    BY <2>3
  <2>5. InPlay(r, p, i)
    BY <2>1, <2>2, <2>4 DEF InPlay, Playing, Grounded
  <2> QED BY <1>0, <1>5, <2>5, PlayStatement
<1> QED BY <1>1, <1>2, <1>3, <1>4, <1>5 DEF Next

(* For a player who waits, while nothing crashed, an active run at rest    *)
(* can be played on: every plan, taken to its end or failed on the way,    *)
(* leaves the run on an active node that has what its type needs, nothing  *)
(* else active but the LOCATION under a fight, and the next turn number    *)
(* free.                                                                   *)
THEOREM RunStaysPlayable == Spec => []Playable
<1>1. Init => Playing
  <2> SUFFICES ASSUME Init PROVE Playing
    OBVIOUS
  <2>1. /\ node = 1 /\ nodes = <<[type |-> "HUB", status |-> "ACTIVE", parent |-> 0, battle |-> FALSE]>>
        /\ \A r \in Requests : pc[r] = "idle"
    BY DEF Init
  <2>2. Len(nodes) = 1
        /\ nodes[1] = [type |-> "HUB", status |-> "ACTIVE", parent |-> 0, battle |-> FALSE]
    BY <2>1
  <2>3. Standing
    BY <2>1, <2>2 DEF Standing, Over
  <2> QED BY <2>1, <2>2, <2>3 DEF Playing, Grounded
<1>2. Shape /\ Logged /\ Alone /\ Current /\ Playing /\ [Next]_vars => Playing'
  BY PlayingNext
<1>3. Current /\ Playing => Playable
  BY DEF Current, Playing, Playable, Quiet, Standing, Over
<1> QED BY <1>1, <1>2, <1>3, ShapeHolds, LogHolds, AloneHolds, CurrentHolds, PTL DEF Spec
=============================================================================
