------------------------------ MODULE RunMemory ------------------------------
(***************************************************************************)
(* What an autonomous run remembers, and who writes it: the turn handlers  *)
(* (turns.service.ts with MemoryCollectorService and                       *)
(* MemoryIntegrationService) and the LLM worker, which narrates earlier    *)
(* turns while later ones are played. Every store is read, changed and     *)
(* written back by separate statements:                                    *)
(*   - runState, written whole by a handler from what it read at           *)
(*     submission, and by the worker's compare-and-set patches;            *)
(*   - node_memories, with a column of each, found again by findFirst;     *)
(*   - run_memories: structuredMemory, written by both, and storySummary.  *)
(* The client waits for the answer to an action before it sends the next.  *)
(* The statements on turns and nodes are in TurnPipeline, the claims and   *)
(* failures of the worker in LlmWorker.                                    *)
(***************************************************************************)
EXTENDS Integers, Sequences, FiniteSets, FiniteSetsExt

CONSTANTS
  MaxTurns,      \* bound on the turn numbers
  Texts,         \* what the texts of the turns may have: functions from turn numbers to sets of stages
  MaxWorking,    \* turns the worker processes at a time (MAX_CONCURRENT_TURNS)
  Attempts,      \* attempts of applyRunStatePatch
  StaleMax,      \* BEAT_STALE_MAX_TURNS
  MaxLines,      \* bound on the lines of storySummary: a submission that fails can repeat one
  MaxRestarts    \* bound on the number of process restarts; each costs a turn

ASSUME MemoryAssumption ==
  MaxTurns \in Nat \ {0} /\ Attempts \in Nat \ {0} /\ StaleMax \in Nat /\ MaxRestarts \in Nat

VARIABLES
  run,          \* runState: turns done, marks of the worker, beats, visits counted
  cur, nodes,   \* currentTurnNo, the kinds of the nodes so far
  active, over, \* the current node is NODE_ACTIVE, the run RUN_ENDED
  rows,         \* node_memories: node, actions of visitContext ({}: null), thread
  memory,       \* structuredMemory: visits and what was told in a turn
  summary,      \* storySummary: a line per visit, with the actions it tells of
  hand,         \* the submitTurn in progress
  task,         \* the worker's processing of each turn
  answers,      \* what the model's answer to each turn has
  restarts,
  \* what happened, for the properties
  played, adopted, told, overlapped

stores == <<run, rows, memory, summary>>
place == <<cur, nodes, active, over>>
history == <<played, adopted, told, overlapped>>
memoryVars == <<stores, place, hand, task, answers, restarts, history>>

TurnNos == 1..MaxTurns
None == "none"
NoBeats == 0        \* nextBeatCandidates: null
RunRow == 0         \* run_memories among the rows, whose others are numbered as their nodes
Handler == 0        \* the handler's name among the processes; a task's is its turn

Idle == [pc |-> "idle"]
Job(pc, n) == [pc |-> pc, node |-> n, seen |-> None, tries |-> 0]

\* The player has just arrived at a first place and its text is not told yet.
MemoryInit ==
  /\ run = [done |-> {}, marks |-> {}, beats |-> NoBeats, visits |-> {}]
  /\ cur = 1 /\ nodes = <<"LOCATION">> /\ active = TRUE /\ over = FALSE
  /\ rows = <<>> /\ memory = {} /\ summary = <<>>
  /\ hand = Idle
  /\ task = [t \in TurnNos |-> IF t = 1 THEN Job("waiting", 1) ELSE Job("none", 0)]
  /\ answers \in Texts /\ restarts = 0
  /\ played = {} /\ adopted = {} /\ told = {} /\ overlapped = {}

-----------------------------------------------------------------------------
(* Reads and writes that the handler and the worker share.                 *)

\* findFirst takes no order: any row of the node, or none (0).
FirstRow(n) ==
  LET found == {i \in 1..Len(rows) : rows[i].node = n}
  IN  IF found = {} THEN {0} ELSE found

\* structuredMemory as read, with one entry more.
Remember(p, seen, entry) ==
  /\ memory' = seen \union {entry}
  /\ told' = told \union {entry}
  /\ LET busy == {t \in TurnNos : task[t].pc \in {"know write", "facts write"}}
                   \union (IF hand.pc \in {"hear write", "visit write"} THEN {Handler} ELSE {})
     IN  overlapped' = IF busy = {p} THEN overlapped ELSE overlapped \union {RunRow}

-----------------------------------------------------------------------------
(* A turn: submitTurn reads the run, the handler does the rest.            *)

Fresh(t) == run.beats # NoBeats /\ t - run.beats \in 1..StaleMax

\* The action, a move or the end of the run; whether a beat is adopted.
Submit(plan, next, adopt) ==
  /\ hand = Idle /\ active /\ ~over /\ Len(summary) < MaxLines
  /\ cur + (IF plan = "move" THEN 2 ELSE 1) + restarts \in TurnNos
  /\ nodes[Len(nodes)] = "HUB" => next = "LOCATION"
  /\ next # None <=> plan = "move"
  /\ adopt => plan # "move" /\ Fresh(cur + 1)
  /\ hand' = [pc |-> IF plan # "move" THEN "collect"
                     ELSE IF nodes[Len(nodes)] = "HUB" THEN "leave" ELSE "visit",
              plan |-> plan, next |-> next, adopt |-> adopt, turn |-> cur + 1,
              node |-> Len(nodes), base |-> run, visits |-> run.visits, seen |-> None]
  /\ UNCHANGED <<stores, place, task, answers, restarts, history>>

Goto(pc, seen) == hand' = [hand EXCEPT !.pc = pc, !.seen = seen]

\* collectFromTurn: the row of the node is read,
Collect ==
  /\ hand.pc = "collect"
  /\ \E i \in FirstRow(hand.node) :
       hand' = [hand EXCEPT !.pc = "hear",
                         !.seen = [row |-> i, acts |-> IF i = 0 THEN {} ELSE rows[i].acts, memory |-> {}]]
  /\ UNCHANGED <<stores, place, task, answers, restarts, history>>

\* what an NPC learns is stored (collectNpcKnowledge), if anything,
Hear ==
  /\ hand.pc = "hear"
  /\ \/ Goto("store", hand.seen)
     \/ Goto("hear write", [hand.seen EXCEPT !.memory = memory])
  /\ UNCHANGED <<stores, place, task, answers, restarts, history>>

WriteHeard ==
  /\ hand.pc = "hear write"
  /\ Remember(Handler, hand.seen.memory, <<"heard", hand.turn>>)
  /\ Goto("store", hand.seen)
  /\ UNCHANGED <<run, rows, summary, place, task, answers, restarts, played, adopted>>

\* and the visitContext is written.
Store ==
  /\ hand.pc = "store"
  /\ LET acts == hand.seen.acts \union {hand.turn}
     IN  rows' = IF hand.seen.row = 0
                   THEN Append(rows, [node |-> hand.node, acts |-> acts, thread |-> {}])
                   ELSE [rows EXCEPT ![hand.seen.row].acts = acts]
  /\ Goto(IF hand.plan = "end" THEN "visit" ELSE "insert", None)
  /\ UNCHANGED <<run, memory, summary, place, task, answers, restarts, history>>

\* finalizeVisit: the visitContext is read, then run_memories (for a visit
\* without a context in saveMinimalVisitSummary),
ReadVisit ==
  /\ hand.pc = "visit"
  /\ \E i \in FirstRow(hand.node) :
       Goto("visit read", IF i = 0 THEN {} ELSE rows[i].acts)
  /\ UNCHANGED <<stores, place, task, answers, restarts, history>>

ReadMemory ==
  /\ hand.pc = "visit read"
  /\ Goto(IF hand.seen = {} THEN "minimal" ELSE "visit write",
          [acts |-> hand.seen, memory |-> memory, summary |-> summary])
  /\ UNCHANGED <<stores, place, task, answers, restarts, history>>

\* and the visit is written to both columns, or to storySummary alone; the
\* location's memory goes into the run state that the handler will write.
Line == [node |-> hand.node, acts |-> hand.seen.acts]

WriteVisit ==
  /\ hand.pc \in {"visit write", "minimal"}
  /\ summary' = Append(hand.seen.summary, Line)
  /\ IF hand.pc = "minimal" THEN UNCHANGED <<memory, told, overlapped>>
     ELSE Remember(Handler, hand.seen.memory, <<"visit", hand.node>>)
  /\ hand' = [hand EXCEPT !.pc = IF hand.plan = "move" THEN "leave" ELSE "insert", !.visits = @ \union {hand.node}, !.seen = None]
  /\ UNCHANGED <<run, rows, place, task, answers, restarts, played, adopted>>

\* The node is ended before the turn is committed.
Leave ==
  /\ hand.pc = "leave"
  /\ active' = FALSE
  /\ Goto("insert", None)
  /\ UNCHANGED <<stores, cur, nodes, over, task, answers, restarts, history>>

\* commitTurnRecord: the worker may narrate the turn from here on. After a
\* crash the number may be taken: the submission fails.
Insert ==
  /\ hand.pc = "insert"
  /\ IF task[hand.turn].pc = "none"
       THEN /\ task' = [task EXCEPT ![hand.turn] = Job("waiting", hand.node)]
            /\ Goto("save", None)
       ELSE hand' = Idle /\ UNCHANGED task
  /\ UNCHANGED <<stores, place, answers, restarts, history>>

\* The run state the handler made of what submitTurn read.
Result(beats) ==
  [done |-> hand.base.done \union {hand.turn}, marks |-> hand.base.marks,
   beats |-> beats, visits |-> hand.visits]

\* Mutation of MergedBeats: the candidates in the database are always kept.
MergedBeatsAlways == run.beats

\* jsonb_set of nextBeatCandidates: the database's, unless this turn used them.
MergedBeats == IF hand.adopt THEN NoBeats ELSE run.beats

Save ==
  /\ hand.pc = "save"
  /\ run' = Result(MergedBeats) /\ cur' = hand.turn
  /\ played' = played \union {[turn |-> hand.turn, node |-> hand.node, plan |-> hand.plan]}
  /\ adopted' = IF hand.adopt
                  THEN adopted \union {[turn |-> hand.turn, beats |-> hand.base.beats]}
                  ELSE adopted
  /\ IF hand.plan = "act" THEN hand' = Idle ELSE Goto(hand.plan, None)
  /\ UNCHANGED <<nodes, active, over, rows, memory, summary, task, answers, restarts, told, overlapped>>

EndRun ==
  /\ hand.pc = "end"
  /\ over' = TRUE
  /\ hand' = Idle
  /\ UNCHANGED <<stores, cur, nodes, active, task, answers, restarts, history>>

\* The next node and its entry turn, and the run state without a merge.
Enter ==
  /\ hand.pc = "move"
  /\ nodes' = Append(nodes, hand.next) /\ active' = TRUE
  /\ task' = [task EXCEPT ![hand.turn + 1] = Job("waiting", hand.node + 1)]
  /\ Goto("save enter", None)
  /\ UNCHANGED <<stores, cur, over, answers, restarts, history>>

SaveEnter ==
  /\ hand.pc = "save enter"
  /\ run' = Result(hand.base.beats) /\ cur' = hand.turn + 1
  /\ hand' = Idle
  /\ UNCHANGED <<rows, memory, summary, nodes, active, over, task, answers, restarts, history>>

-----------------------------------------------------------------------------
(* The worker on one turn: what it stores, in this order.                  *)

\* The text is told (DONE) between "know" and "thread"; at a HUB there is no
\* more than the patches of the NPCs that appeared.
Stages == <<"patch", "know", "thread", "facts", "beats">>

\* Between the read and the write of a stage.
WriteOf == [patch |-> "patch write", know |-> "know write", thread |-> "thread write",
            facts |-> "facts write", beats |-> "beats write"]

At(t, pc) == task[t].pc = pc

\* Where the task of turn t goes on after the first i stages.
From(t, i) ==
  LET due == {j \in (i + 1)..Len(Stages) :
                Stages[j] \in answers[t] /\ (nodes[task[t].node] = "HUB" => Stages[j] = "patch")}
  IN  IF due = {} THEN "end" ELSE Stages[Min(due)]

After(t, s) == From(t, CHOOSE j \in 1..Len(Stages) : Stages[j] = s)
Step(t, pc, seen) == task' = [task EXCEPT ![t].pc = pc, ![t].seen = seen]

Working == {t \in TurnNos : task[t].pc \notin {"none", "waiting", "end"}}

\* poll takes the oldest.
ClaimTurn(t) ==
  /\ At(t, "waiting") /\ Cardinality(Working) < MaxWorking
  /\ \A u \in TurnNos : At(u, "waiting") => t <= u
  /\ Step(t, From(t, 0), None)
  /\ UNCHANGED <<stores, place, hand, answers, restarts, history>>

\* applyRunStatePatch: read, then write if nothing changed, else again.
ReadRun(t) ==
  /\ \E s \in {"patch", "beats"} :
       At(t, s) /\ Step(t, WriteOf[s], run)
  /\ UNCHANGED <<stores, place, hand, answers, restarts, history>>

Patched(t, base) ==
  IF At(t, "patch write") THEN [base EXCEPT !.marks = @ \union {t}]
  ELSE [base EXCEPT !.beats = t]

Tried(t, s) ==
  IF task[t].tries + 1 < Attempts
    THEN task' = [task EXCEPT ![t] = [Job(s, @.node) EXCEPT !.tries = task[t].tries + 1]]
    ELSE task' = [task EXCEPT ![t] = Job(After(t, s), @.node)]

\* Mutation of Patch: the UPDATE lost its comparison with the baseline.
PatchUnconditional(t) ==
  /\ \E s \in {"patch", "beats"} :
       /\ At(t, WriteOf[s])
       /\ run' = Patched(t, task[t].seen)
       /\ task' = [task EXCEPT ![t] = Job(After(t, s), @.node)]
  /\ UNCHANGED <<rows, memory, summary, place, hand, answers, restarts, history>>

Patch(t) ==
  /\ \E s \in {"patch", "beats"} :
       /\ At(t, WriteOf[s])
       /\ IF run = task[t].seen
            THEN /\ run' = Patched(t, run)
                 /\ task' = [task EXCEPT ![t] = Job(After(t, s), @.node)]
            ELSE Tried(t, s) /\ UNCHANGED run
  /\ UNCHANGED <<rows, memory, summary, place, hand, answers, restarts, history>>

\* [MEMORY:NPC_KNOWLEDGE] before the text is told, [MEMORY] facts after it.
ReadFacts(t) ==
  /\ \E s \in {"know", "facts"} :
       At(t, s) /\ Step(t, WriteOf[s], memory)
  /\ UNCHANGED <<stores, place, hand, answers, restarts, history>>

SaveFacts(t) ==
  /\ \E s \in {"know", "facts"} :
       /\ At(t, WriteOf[s])
       /\ Remember(t, task[t].seen, <<s, t>>)
       /\ Step(t, After(t, s), None)
  /\ UNCHANGED <<run, rows, summary, place, hand, answers, restarts, played, adopted>>

\* narrativeThread of the node.
ReadThread(t) ==
  /\ At(t, "thread")
  /\ \E i \in FirstRow(task[t].node) :
       Step(t, "thread write",
            IF i = 0 THEN [row |-> 0, acts |-> {}, thread |-> {}]
            ELSE [row |-> i, acts |-> rows[i].acts, thread |-> rows[i].thread])
  /\ UNCHANGED <<stores, place, hand, answers, restarts, history>>

Threading(n) == {t \in TurnNos : At(t, "thread write") /\ task[t].node = n}

WithThread(t) ==
  [node |-> task[t].node, acts |-> {}, thread |-> task[t].seen.thread \union {t}]

\* Mutation of WrittenThread: the row is written back with all its columns.
WrittenThreadWhole(t) ==
  [WithThread(t) EXCEPT !.acts = task[t].seen.acts]

WrittenThread(t) ==
  [WithThread(t) EXCEPT !.acts = rows[task[t].seen.row].acts]

SaveThread(t) ==
  /\ At(t, "thread write")
  /\ rows' = IF task[t].seen.row = 0 THEN Append(rows, WithThread(t))
             ELSE [rows EXCEPT ![task[t].seen.row] = WrittenThread(t)]
  /\ told' = told \union {<<"thread", t>>}
  /\ overlapped' = IF Threading(task[t].node) = {t} THEN overlapped
                   ELSE overlapped \union {task[t].node}
  /\ Step(t, After(t, "thread"), None)
  /\ UNCHANGED <<run, memory, summary, place, hand, answers, restarts, played, adopted>>

-----------------------------------------------------------------------------

\* The process ends: a text that was not told is told anew (its lock gets
\* stale), what a task does after it is lost.
Crash ==
  /\ restarts < MaxRestarts /\ (hand # Idle \/ Working # {})
  /\ restarts' = restarts + 1
  /\ hand' = Idle
  /\ task' = [t \in TurnNos |->
                IF t \notin Working THEN task[t]
                ELSE Job(IF task[t].pc \in {"patch", "patch write", "know", "know write"}
                           THEN "waiting" ELSE "end", task[t].node)]
  /\ UNCHANGED <<stores, place, answers, history>>

Turn ==
  \/ Collect \/ Hear \/ WriteHeard \/ Store
  \/ ReadVisit \/ ReadMemory \/ WriteVisit
  \/ Leave \/ Insert \/ Save \/ EndRun \/ Enter \/ SaveEnter

Work(t) ==
  \/ ClaimTurn(t) \/ ReadRun(t) \/ Patch(t)
  \/ ReadFacts(t) \/ SaveFacts(t) \/ ReadThread(t) \/ SaveThread(t)

MemoryNext ==
  \/ \E plan \in {"act", "move", "end"}, next \in {None, "HUB", "LOCATION"}, adopt \in BOOLEAN :
       Submit(plan, next, adopt)
  \/ Turn
  \/ \E t \in TurnNos : Work(t)
  \/ Crash

MemorySpec == MemoryInit /\ [][MemoryNext]_memoryVars

-----------------------------------------------------------------------------

RunStates ==
  [done : SUBSET TurnNos, marks : SUBSET TurnNos, beats : TurnNos \union {NoBeats}, visits : SUBSET Nat]
Entries == {"heard", "visit", "know", "facts"} \X Nat
SummaryLines == [node : Nat, acts : SUBSET TurnNos]
Plans == {"act", "move", "end"}

\* What a handler and a task have read, by their labels.
HandSeen(pc) ==
  CASE pc \in {"hear", "hear write", "store"} ->
         [row : Nat, acts : SUBSET TurnNos, memory : SUBSET Entries]
    [] pc = "visit read" -> SUBSET TurnNos
    [] pc \in {"visit write", "minimal"} ->
         [acts : SUBSET TurnNos, memory : SUBSET Entries, summary : Seq(SummaryLines)]
    [] pc \in {"collect", "visit", "leave", "insert", "save", "move", "end", "save enter"} -> {None}
TaskSeen(pc) ==
  CASE pc \in {"patch write", "beats write"} -> RunStates
    [] pc \in {"know write", "facts write"} -> SUBSET Entries
    [] pc = "thread write" -> [row : Nat, acts : SUBSET TurnNos, thread : SUBSET TurnNos]
    [] pc \in {"none", "waiting", "end", "patch", "know", "thread", "facts", "beats"} -> {None}

HandLabels ==
  {"collect", "hear", "hear write", "store", "visit", "visit read", "visit write", "minimal",
   "leave", "insert", "save", "move", "end", "save enter"}
TaskLabels ==
  {"none", "waiting", "end", "patch", "know", "thread", "facts", "beats",
   "patch write", "know write", "thread write", "facts write", "beats write"}

MemoryTypeOK ==
  /\ run \in RunStates
  /\ cur \in TurnNos /\ nodes \in Seq({"HUB", "LOCATION"}) \ {<<>>}
  /\ active \in BOOLEAN /\ over \in BOOLEAN /\ restarts \in 0..MaxRestarts
  /\ rows \in Seq([node : Nat, acts : SUBSET TurnNos, thread : SUBSET TurnNos])
  /\ memory \in SUBSET Entries /\ summary \in Seq(SummaryLines)
  /\ hand # Idle =>
       /\ hand \in [pc : HandLabels, plan : Plans, next : {None, "HUB", "LOCATION"}, adopt : BOOLEAN,
                    turn : TurnNos, node : DOMAIN nodes, base : RunStates, visits : SUBSET Nat,
                    seen : {hand.seen}]
       /\ hand.seen \in HandSeen(hand.pc)
  /\ DOMAIN task = TurnNos
  /\ \A t \in TurnNos :
       /\ task[t] \in [pc : TaskLabels, node : Nat, seen : {task[t].seen}, tries : Nat]
       /\ task[t].seen \in TaskSeen(task[t].pc)
  /\ played \in SUBSET [turn : TurnNos, node : DOMAIN nodes, plan : Plans]
  /\ adopted \in SUBSET [turn : TurnNos, beats : TurnNos]
  /\ told \in SUBSET (Entries \union ({"thread"} \X TurnNos)) /\ overlapped \in SUBSET Nat

\* The two owners of the run state do not undo each other: a turn that was
\* committed stays in it whatever the worker patches in late
\* ("워커 소유 필드만 패치", compare and set), and a beat that a turn used is
\* never offered again by a merge that keeps the database's candidates or by
\* a patch, so it is adopted at most once.
RunStateKept ==
  /\ run.done = {p.turn : p \in played}
  /\ \A a, b \in adopted : a.beats = b.beats => a = b

Acts(n) == {p.turn : p \in {q \in played : q.node = n /\ q.plan # "move"}}
Left == {p.node : p \in {q \in played : nodes[q.node] = "LOCATION"
                                        /\ q.plan \in {"move"} \union (IF over THEN {"end"} ELSE {})}}
Lines(n) == {k \in DOMAIN summary : summary[k].node = n}

\* The arrival's narration and the first action each found no row.
Split(n) == \E i, j \in 1..Len(rows) : i # j /\ rows[i].node = n /\ rows[j].node = n

\* Every visit that ended is told and counted, once unless the process ended
\* in between, and with all the actions of it unless the node has two rows.
\* What was stored about turns stays, unless two writers of the same column
\* overlapped: handlers and tasks that write other columns of a row, in any
\* order, lose nothing.
VisitsRemembered ==
  /\ \A n \in Left :
       /\ n \in run.visits
       /\ Lines(n) # {}
       /\ restarts = 0 => \A j, k \in Lines(n) : j = k
       /\ ~Split(n) => \E k \in Lines(n) : Acts(n) \subseteq summary[k].acts
  /\ RunRow \notin overlapped => {e \in told : e[1] # "thread"} = memory
  /\ \A n \in 1..Len(nodes) \ overlapped :
       {e[2] : e \in {x \in told : x[1] = "thread" /\ task[x[2]].node = n}}
         = UNION {rows[i].thread : i \in {j \in 1..Len(rows) : rows[j].node = n}}
=============================================================================
