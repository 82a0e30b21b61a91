---------------------------- MODULE PartyProofs ----------------------------
(***************************************************************************)
(* Theorems about PartyTurn, for any number of members, submissions,       *)
(* timeouts, turns, failures and restarts, and about Party, for any number *)
(* of users, parties and requests.                                         *)
(***************************************************************************)
EXTENDS PartyTurn, Party, FiniteSetTheorems, TLAPS


(* The initial state is well typed.                                        *)
LEMMA TypeInit == Init => TypeOK
<1> SUFFICES ASSUME Init PROVE TypeOK
  OBVIOUS
<1> USE PartyAssumption
<1>1. proc \in [Procs -> Process]
  BY DEF Init, Process
<1>2. timer \in 0..MaxTurn
  BY DEF Init
<1>4. armed \in BOOLEAN /\ (armed => timer # 0) /\ crashed \in BOOLEAN
  BY Zenon DEF Init
<1>3. /\ turnNo \in 0..MaxTurn /\ place \in {"LOCATION", "COMBAT", "HUB"}
      /\ rows \in [Turns -> SUBSET Members] /\ used \in [Turns -> SUBSET Members]
      /\ ai \in SUBSET Members
      /\ failures \in 0..MaxFailures /\ restarts \in 0..MaxRestarts
  BY DEF Init, NotCombined
<1> QED BY <1>1, <1>2, <1>3, <1>4 DEF TypeOK

(* Clearing and starting the timer keep it well typed.                     *)
LEMMA TimerTypes ==
  ASSUME NEW t \in Turns
  PROVE  /\ ClearTimer => timer' \in 0..MaxTurn /\ armed' \in BOOLEAN /\ (armed' => timer' # 0)
         /\ StartTimer(t) => timer' \in 0..MaxTurn /\ armed' \in BOOLEAN /\ (armed' => timer' # 0)
<1>1. 0 \in 0..MaxTurn /\ t \in 0..MaxTurn /\ t # 0
  BY PartyAssumption DEF Turns
<1> QED BY <1>1 DEF ClearTimer, StartTimer

(* A process at work has a turn, and what its statement needs.             *)
LEMMA ProcessKinds ==
  ASSUME NEW q \in Process
  PROVE  /\ q.pc = "idle" => q = Idle
         /\ q.pc # "idle" => q.turn \in Turns
         /\ q.pc \in {"ensure", "start", "check", "insert", "tally", "auto", "autoInsert"} =>
              q.user \in Members
         /\ q.pc \in {"auto", "autoInsert"} => q.seen \in SUBSET Members
         /\ q.pc = "autoInsert" => q.absent \in Members
         /\ q.pc = "fill" => q.pending \in SUBSET Members
         /\ q.pc = "submit" => q.actions \in SUBSET Members
  BY DEF Process, Idle

(* What the statements leave a process at is well formed.                  *)
LEMMA NextKinds ==
  ASSUME NEW t \in Turns, NEW u \in Members, NEW v \in Members, NEW S \in SUBSET Members
  PROVE  /\ Idle \in Process
         /\ \A pc \in {"ensure", "start", "check", "insert", "tally"} :
              [pc |-> pc, turn |-> t, user |-> u] \in Process
         /\ [pc |-> "auto", turn |-> t, user |-> u, seen |-> S] \in Process
         /\ [pc |-> "autoInsert", turn |-> t, user |-> u, seen |-> S, absent |-> v] \in Process
         /\ \A pc \in {"due", "complete", "resolve", "committed", "failed", "delete", "chain"} :
              [pc |-> pc, turn |-> t] \in Process
         /\ [pc |-> "fill", turn |-> t, pending |-> S] \in Process
         /\ [pc |-> "submit", turn |-> t, actions |-> S] \in Process
  BY DEF Process

(* Every step keeps the types: one case per action.                        *)
LEMMA TypeStep == TypeOK /\ [Next]_vars => TypeOK'
<1> SUFFICES ASSUME TypeOK, [Next]_vars PROVE TypeOK'
  OBVIOUS
<1> USE PartyAssumption
<1>0. \A p \in Procs : proc[p] \in Process
  BY DEF TypeOK
<1>1. CASE UNCHANGED vars
  BY <1>1 DEF TypeOK, vars, database, timers, faults
<1>2. ASSUME NEW p \in Procs, Continue(p)
      PROVE  TypeOK'
  <2> DEFINE q == proc[p]
  <2>0. q \in Process
    BY <1>0
  <2>1. CASE Ensure(p)
    <3>1. q.turn \in Turns /\ q.user \in Members /\ {} \in SUBSET Members
      BY <2>0, <2>1, ProcessKinds DEF Ensure, At
    <3>2. ForAbsent(p, {}) \in Process /\ Of(p, "start") \in Process
      BY <3>1, NextKinds DEF ForAbsent, Of
    <3> QED BY <2>1, <3>2 DEF Ensure, TypeOK, Goto, database, timers, faults
  <2>2. CASE Start(p)
    <3>1. q.turn \in Turns /\ q.user \in Members /\ {} \in SUBSET Members
      BY <2>0, <2>2, ProcessKinds DEF Start, At
    <3>2. ForAbsent(p, {}) \in Process
      BY <3>1, NextKinds DEF ForAbsent
    <3> QED BY <2>2, <3>1, <3>2 DEF Start, StartTimer, TypeOK, Goto, database, faults, Turns
  <2>3. CASE AutoCheck(p)
    <3>1. /\ q.turn \in Turns /\ q.user \in Members /\ q.seen \in SUBSET Members
          /\ q = [pc |-> "auto", turn |-> q.turn, user |-> q.user, seen |-> q.seen]
      BY <2>0, <2>3, ProcessKinds DEF AutoCheck, At, Process, Idle
    <3>2. ai \in SUBSET Members
      BY DEF TypeOK
    <3>3. Of(p, "check") \in Process
      BY <3>1, NextKinds DEF Of
    <3>4. ASSUME NEW u \in ai \ q.seen
          PROVE  /\ [q EXCEPT !.seen = @ \cup {u}] \in Process
                 /\ [pc |-> "autoInsert", turn |-> q.turn, user |-> q.user,
                     seen |-> q.seen \cup {u}, absent |-> u] \in Process
      <4>1. u \in Members /\ q.seen \cup {u} \in SUBSET Members
        BY <3>1, <3>2
      <4>2. [q EXCEPT !.seen = @ \cup {u}] =
              [pc |-> "auto", turn |-> q.turn, user |-> q.user, seen |-> q.seen \cup {u}]
        BY <3>1
      <4>3. [pc |-> "auto", turn |-> q.turn, user |-> q.user, seen |-> q.seen \cup {u}] \in Process
        BY <3>1, <4>1, NextKinds
      <4>4. [pc |-> "autoInsert", turn |-> q.turn, user |-> q.user,
             seen |-> q.seen \cup {u}, absent |-> u] \in Process
        BY <3>1, <4>1, NextKinds
      <4> QED BY <4>2, <4>3, <4>4
    <3>5. \E next \in Process : Goto(p, next)
      BY <2>3, <3>3, <3>4 DEF AutoCheck
    <3> QED BY <2>3, <3>5 DEF AutoCheck, TypeOK, Goto, database, timers, faults
  <2>4. CASE AutoInsert(p)
    <3>1. /\ q.turn \in Turns /\ q.user \in Members /\ q.seen \in SUBSET Members
          /\ q.absent \in Members
      BY <2>0, <2>4, ProcessKinds DEF AutoInsert, At
    <3>2. ForAbsent(p, q.seen) \in Process /\ Idle \in Process
      BY <3>1, NextKinds DEF ForAbsent
    <3> QED BY <2>4, <3>1, <3>2 DEF AutoInsert, TypeOK, Goto, timers, faults
  <2>5. CASE CheckOwn(p)
    <3>1. /\ q.turn \in Turns /\ q.user \in Members
          /\ [q EXCEPT !.pc = "insert"] = [pc |-> "insert", turn |-> q.turn, user |-> q.user]
      BY <2>0, <2>5, ProcessKinds DEF CheckOwn, At, Process, Idle
    <3>2. [q EXCEPT !.pc = "insert"] \in Process /\ Idle \in Process
      BY <3>1, NextKinds
    <3> QED BY <2>5, <3>2 DEF CheckOwn, TypeOK, Goto, database, timers, faults
  <2>6. CASE InsertOwn(p)
    <3>1. /\ q.turn \in Turns /\ q.user \in Members
          /\ [q EXCEPT !.pc = "tally"] = [pc |-> "tally", turn |-> q.turn, user |-> q.user]
      BY <2>0, <2>6, ProcessKinds DEF InsertOwn, At, Process, Idle
    <3>2. [q EXCEPT !.pc = "tally"] \in Process /\ Idle \in Process
      BY <3>1, NextKinds
    <3> QED BY <2>6, <3>1, <3>2 DEF InsertOwn, TypeOK, Goto, timers, faults
  <2>7. CASE Tally(p)
    <3>1. [pc |-> "complete", turn |-> q.turn] \in Process /\ Idle \in Process
      BY <2>0, <2>7, ProcessKinds DEF Tally, At, Process
    <3> QED BY <2>7, <3>1 DEF Tally, TypeOK, Goto, database, timers, faults
  <2>20. CASE Complete(p)
    <3>1. q.turn \in Turns
      BY <2>0, <2>20, ProcessKinds DEF Complete, At
    <3>2. [pc |-> "resolve", turn |-> q.turn] \in Process
      BY <3>1 DEF Process
    <3> QED BY <2>20, <3>1, <3>2, TimerTypes DEF Complete, TypeOK, Goto, database, faults
  <2>8. CASE ReadPending(p)
    <3>1. q.turn \in Turns /\ Members \ rows[q.turn] \in SUBSET Members
      BY <2>0, <2>8, ProcessKinds DEF ReadPending, At
    <3>2. [pc |-> "fill", turn |-> q.turn, pending |-> Members \ rows[q.turn]] \in Process
      BY <3>1 DEF Process
    <3> QED BY <2>8, <3>2 DEF ReadPending, TypeOK, Goto, database, timers, faults
  <2>9. CASE Fill(p)
    <3>1. /\ q.turn \in Turns /\ q.pending \in SUBSET Members
          /\ q = [pc |-> "fill", turn |-> q.turn, pending |-> q.pending]
      BY <2>0, <2>9, ProcessKinds DEF Fill, At, Process, Idle
    <3>2. PICK u \in q.pending :
            /\ rows' = [rows EXCEPT ![q.turn] = @ \cup {u}]
            /\ Goto(p, [q EXCEPT !.pending = @ \ {u}])
      BY <2>9 DEF Fill
    <3>3. [q EXCEPT !.pending = @ \ {u}] =
            [pc |-> "fill", turn |-> q.turn, pending |-> q.pending \ {u}]
      BY <3>1
    <3>4. [q EXCEPT !.pending = @ \ {u}] \in Process
      BY <3>1, <3>3 DEF Process
    <3> QED BY <2>9, <3>1, <3>2, <3>4 DEF Fill, TypeOK, Goto, timers, faults
  <2>10. CASE FillConflict(p)
    <3>1. [x \in Procs |-> Idle] \in [Procs -> Process]
      BY DEF Process
    <3>2. q.turn \in Turns
      BY <2>0, <2>10, ProcessKinds DEF FillConflict, At
    <3>3. crashed' \in BOOLEAN
      BY <2>10, Zenon DEF FillConflict
    <3> QED BY <2>10, <3>1, <3>2, <3>3, TimerTypes DEF FillConflict, Lost, TypeOK, database
  <2>11. CASE Filled(p)
    <3>1. q.turn \in Turns
      BY <2>0, <2>11, ProcessKinds DEF Filled, At
    <3>2. [pc |-> "resolve", turn |-> q.turn] \in Process
      BY <3>1 DEF Process
    <3> QED BY <2>11, <3>1, <3>2, TimerTypes DEF Filled, TypeOK, Goto, database, faults
  <2>12. CASE ReadActions(p)
    <3>1. q.turn \in Turns /\ rows[q.turn] \in SUBSET Members
      BY <2>0, <2>12, ProcessKinds DEF ReadActions, At, TypeOK
    <3>2. [pc |-> "submit", turn |-> q.turn, actions |-> rows[q.turn]] \in Process /\ Idle \in Process
      BY <3>1 DEF Process
    <3> QED BY <2>12, <3>2 DEF ReadActions, TypeOK, Goto, database, timers, faults
  <2>13. CASE Commit(p)
    <3>1. q.turn \in Turns /\ q.actions \in SUBSET Members
      BY <2>0, <2>13, ProcessKinds DEF Commit, At
    <3>2. [pc |-> "committed", turn |-> q.turn] \in Process
      BY <3>1 DEF Process
    <3> QED BY <2>13, <3>1, <3>2 DEF Commit, TypeOK, Goto, timers, faults, Turns
  <2>14. CASE Repeat(p)
    <3>1. [pc |-> "committed", turn |-> q.turn] \in Process
      BY <2>0, <2>14, ProcessKinds DEF Repeat, At, Process
    <3> QED BY <2>14, <3>1 DEF Repeat, TypeOK, Goto, database, timers, faults
  <2>15. CASE SubmitFails(p)
    <3>1. [pc |-> "failed", turn |-> q.turn] \in Process
      BY <2>0, <2>15, ProcessKinds DEF SubmitFails, At, Process
    <3>2. failures' \in 0..MaxFailures
      BY <2>15 DEF SubmitFails, TypeOK
    <3> QED BY <2>15, <3>1, <3>2 DEF SubmitFails, TypeOK, Goto, database, timers
  <2>16. CASE CheckCommitted(p)
    <3>1. [pc |-> "delete", turn |-> q.turn] \in Process /\ Idle \in Process
      BY <2>0, <2>16, ProcessKinds DEF CheckCommitted, At, Process
    <3> QED BY <2>16, <3>1 DEF CheckCommitted, TypeOK, Goto, database, timers, faults
  <2>17. CASE DeleteActions(p)
    <3>1. q.turn \in Turns /\ Idle \in Process
      BY <2>0, <2>17, ProcessKinds DEF DeleteActions, At, Process
    <3> QED BY <2>17, <3>1 DEF DeleteActions, TypeOK, Goto, timers, faults
  <2>18. CASE ReadPost(p)
    <3>1. turnNo < MaxTurn => turnNo + 1 \in Turns
      BY DEF TypeOK, Turns
    <3>2. /\ Idle \in Process
          /\ turnNo < MaxTurn => [pc |-> "chain", turn |-> turnNo + 1] \in Process
      BY <3>1 DEF Process
    <3> QED BY <2>18, <3>2 DEF ReadPost, TypeOK, Goto, database, timers, faults
  <2>19. CASE Chain(p)
    <3>1. q.turn \in Turns /\ Idle \in Process
      BY <2>0, <2>19, ProcessKinds DEF Chain, At, Process
    <3> QED BY <2>19, <3>1 DEF Chain, StartTimer, TypeOK, Goto, database, faults, Turns
  <2> QED BY <1>2, <2>1, <2>2, <2>3, <2>4, <2>5, <2>6, <2>7, <2>8, <2>9, <2>10, <2>11, <2>12,
             <2>13, <2>14, <2>15, <2>16, <2>17, <2>18, <2>19, <2>20
          DEF Continue, Submission, Timeout, Resolution
<1>3. ASSUME NEW p \in Reqs, NEW u \in Members, Arrive(p, u)
      PROVE  TypeOK'
  <2>1. turnNo + 1 \in Turns
    BY <1>3 DEF Arrive, TypeOK, Turns
  <2>2. [pc |-> "ensure", turn |-> turnNo + 1, user |-> u] \in Process
    BY <2>1 DEF Process
  <2> QED BY <1>3, <2>2 DEF Arrive, TypeOK, Goto, database, timers, faults, Procs
<1>4. ASSUME NEW p \in Clocks, Fire(p)
      PROVE  TypeOK'
  <2>1. timer \in Turns
    BY <1>4 DEF Fire, TypeOK, Turns
  <2>2. [pc |-> "due", turn |-> timer] \in Process
    BY <2>1 DEF Process
  <2> QED BY <1>4, <2>2 DEF Fire, TypeOK, Goto, database, faults, Procs
<1>5. ASSUME NEW u \in Members, SetAi(u) \/ ClearAi(u)
      PROVE  TypeOK'
  BY <1>5 DEF SetAi, ClearAi, TypeOK, database, timers, faults
<1>6. CASE HubTurn
  BY <1>6 DEF HubTurn, TypeOK, timers, faults, Turns
<1>7. CASE Restart
  <2>1. [x \in Procs |-> Idle] \in [Procs -> Process]
    BY DEF Process
  <2>2. timer' \in 0..MaxTurn
    BY <1>7 DEF Restart, Lost, ClearTimer
  <2>3. armed' \in BOOLEAN /\ (armed' => timer' # 0)
    BY <1>7, Zenon DEF Restart, Lost, ClearTimer
  <2> QED BY <1>7, <2>1, <2>2, <2>3 DEF Restart, Lost, TypeOK, database
<1> QED BY <1>1, <1>2, <1>3, <1>4, <1>5, <1>6, <1>7 DEF Next

(* Processes and the timer keep to the turns of the party, and turns       *)
(* advance by one.                                                         *)
THEOREM PartyTurnTypes == Spec => []TypeOK
  BY TypeInit, TypeStep, PTL DEF Spec

-----------------------------------------------------------------------------

(* No handler and no timer is ahead of the run: at the hub, where no       *)
(* action is accepted, none has the next turn.                             *)
InTime(t) == t <= (IF place = "HUB" THEN turnNo ELSE turnNo + 1)

Timely(q) == q.pc # "idle" => q.turn \in Nat /\ InTime(q.turn)

InTimeInv == InTime(timer) /\ \A p \in Procs : Timely(proc[p])

(* A step of one process that keeps to the turns.                          *)
MovesTimely(p) == Timely(proc'[p]) /\ \A x \in Procs \ {p} : proc'[x] = proc[x]

(* How a step changes the turn, the actions and the failures.              *)
LEMMA StepKinds ==
  ASSUME TypeOK, [Next]_vars
  PROVE  /\ (turnNo' = turnNo /\ place' = place) \/ turnNo' = turnNo + 1
         /\ failures' = failures \/ failures' = failures + 1
<1>1. CASE UNCHANGED vars
  BY <1>1 DEF vars, database, faults
<1>2. ASSUME NEW p \in Procs, Submission(p)
      PROVE  UNCHANGED <<turnNo, place, failures>>
  BY <1>2 DEF Submission, Ensure, Start, AutoCheck, AutoInsert, CheckOwn, InsertOwn, Tally,
              Complete, database, faults
<1>3. ASSUME NEW p \in Procs, Timeout(p)
      PROVE  UNCHANGED <<turnNo, place, failures>>
  BY <1>3 DEF Timeout, ReadPending, Fill, FillConflict, Filled, database, faults
<1>4. ASSUME NEW p \in Procs, Resolution(p)
      PROVE  /\ (turnNo' = turnNo /\ place' = place) \/ turnNo' = turnNo + 1
             /\ failures' = failures \/ failures' = failures + 1
  <2>1. CASE Commit(p)
    BY <2>1 DEF Commit, faults
  <2>2. CASE SubmitFails(p)
    BY <2>2 DEF SubmitFails, database
  <2>3. CASE Repeat(p) \/ ReadActions(p) \/ CheckCommitted(p) \/ DeleteActions(p)
               \/ ReadPost(p) \/ Chain(p)
    BY <2>3 DEF Repeat, ReadActions, CheckCommitted, DeleteActions, ReadPost, Chain,
                database, faults
  <2> QED BY <1>4, <2>1, <2>2, <2>3 DEF Resolution
<1>6. CASE HubTurn
  BY <1>6 DEF HubTurn, faults
<1>7. CASE Restart
  BY <1>7 DEF Restart, database
<1>8. CASE Next
  <2>1. CASE \E p \in Procs : Continue(p)
    BY <2>1, <1>2, <1>3, <1>4 DEF Continue
  <2>2. CASE (\E p \in Reqs, u \in Members : Arrive(p, u)) \/ (\E p \in Clocks : Fire(p))
               \/ (\E u \in Members : SetAi(u) \/ ClearAi(u))
    BY <2>2 DEF Arrive, Fire, SetAi, ClearAi, database, faults
  <2> QED BY <1>8, <1>6, <1>7, <2>1, <2>2 DEF Next
<1> QED BY <1>1, <1>8

(* A turn that is not ahead of the run stays so.                           *)
LEMMA InTimeStays ==
  ASSUME TypeOK, [Next]_vars, NEW t \in Nat, InTime(t)
  PROVE  InTime(t)'
<1>1. turnNo \in Nat
  BY PartyAssumption DEF TypeOK
<1> QED BY <1>1, StepKinds DEF InTime

(* No process and no timer is ahead at first.                              *)
LEMMA InTimeInit == Init => InTimeInv
  BY DEF Init, InTimeInv, InTime, Timely, Idle

(* The turn of a process after a step is the one it had, the timer's, or   *)
(* the next one while the party is not at the hub.                         *)
LEMMA InTimeStep == TypeOK /\ InTimeInv /\ [Next]_vars => InTimeInv'
<1> SUFFICES ASSUME TypeOK, InTimeInv, [Next]_vars PROVE InTimeInv'
  OBVIOUS
<1>0. \A p \in Procs : proc[p] \in Process
  BY DEF TypeOK
<1>1. /\ turnNo \in Nat /\ timer \in Nat /\ InTime(timer) /\ InTime(0)
      /\ place # "HUB" => InTime(turnNo + 1)
      /\ proc \in [Procs -> Process]
      /\ \A p \in Procs : Timely(proc[p])
  BY PartyAssumption DEF TypeOK, InTimeInv, InTime, Turns
<1>2. \A t \in Nat : InTime(t) => InTime(t)'
  BY InTimeStays
<1>3. ASSUME NEW p \in Procs, MovesTimely(p), timer' \in Nat, InTime(timer')
      PROVE  InTimeInv'
  <2>1. \A q : Timely(q) => (q.pc # "idle" => q.turn \in Nat /\ InTime(q.turn)')
    BY <1>2 DEF Timely
  <2>2. \A x \in Procs : Timely(proc'[x])
    BY <1>1, <1>3 DEF MovesTimely
  <2>3. \A x \in Procs : Timely(proc[x])'
    BY <2>1, <2>2 DEF Timely
  <2>4. InTime(timer)'
    BY <1>1, <1>3, StepKinds DEF InTime
  <2> QED BY <2>3, <2>4 DEF InTimeInv
<1>4. CASE UNCHANGED <<proc, timer>>
  <2>1. InTime(timer)'
    BY <1>1, <1>4, StepKinds DEF InTime
  <2>2. ASSUME NEW x \in Procs PROVE Timely(proc[x])'
    BY <1>1, <1>4, StepKinds DEF InTime, Timely
  <2> QED BY <2>1, <2>2 DEF InTimeInv
<1>5. ASSUME NEW p \in Procs, Submission(p)
      PROVE  InTimeInv'
  <2> DEFINE q == proc[p]
  <2>1. q \in Process /\ Timely(q)
    BY <1>1
  <2>2. q.pc \in {"ensure", "start", "auto", "autoInsert", "check", "insert", "tally", "complete"}
    BY <1>5 DEF Submission, Ensure, Start, AutoCheck, AutoInsert, CheckOwn, InsertOwn, Tally,
                Complete, At
  <2>3. q.turn \in Nat /\ InTime(q.turn)
    BY <2>1, <2>2 DEF Timely
  <2>4. timer' \in Nat /\ InTime(timer')
    BY <1>1, <1>5, <2>3
    DEF Submission, Ensure, Start, AutoCheck, AutoInsert, CheckOwn, InsertOwn, Tally, Complete,
        StartTimer, ClearTimer, timers
  <2>5. MovesTimely(p)
    <3>1. CASE Ensure(p) \/ Start(p)
      BY <1>1, <2>3, <3>1 DEF Ensure, Start, Goto, MovesTimely, Timely, Of, ForAbsent
    <3>2. CASE AutoCheck(p)
      <4>1. \A u : [q EXCEPT !.seen = @ \cup {u}].turn = q.turn
        BY <2>1, <3>2 DEF AutoCheck, At, Process, Idle
      <4>2. CASE \E u \in ai \ q.seen :
                   Goto(p, IF u \in rows[q.turn]
                           THEN [q EXCEPT !.seen = @ \cup {u}]
                           ELSE [pc |-> "autoInsert", turn |-> q.turn, user |-> q.user,
                                 seen |-> q.seen \cup {u}, absent |-> u])
        BY <1>1, <2>3, <4>1, <4>2 DEF Goto, MovesTimely, Timely
      <4>3. CASE Goto(p, Of(p, "check"))
        BY <1>1, <2>3, <4>3 DEF Goto, MovesTimely, Timely, Of
      <4> QED BY <3>2, <4>2, <4>3 DEF AutoCheck
    <3>3. CASE AutoInsert(p)
      BY <1>1, <2>3, <3>3 DEF AutoInsert, Goto, MovesTimely, Timely, ForAbsent, Idle
    <3>4. CASE CheckOwn(p) \/ InsertOwn(p)
      <4>1. \A pc : [q EXCEPT !.pc = pc].turn = q.turn
        BY <2>1, <3>4 DEF CheckOwn, InsertOwn, At, Process, Idle
      <4>2. CASE CheckOwn(p)
        BY <1>1, <2>3, <4>1, <4>2 DEF CheckOwn, Goto, MovesTimely, Timely, Idle
      <4>3. CASE Goto(p, Idle)
        BY <1>1, <4>3 DEF Goto, MovesTimely, Timely, Idle
      <4>4. CASE Goto(p, [q EXCEPT !.pc = "tally"])
        BY <1>1, <2>3, <4>1, <4>4 DEF Goto, MovesTimely, Timely
      <4> QED BY <3>4, <4>2, <4>3, <4>4 DEF InsertOwn
    <3>5. CASE Tally(p) \/ Complete(p)
      BY <1>1, <2>3, <3>5 DEF Tally, Complete, Goto, MovesTimely, Timely, Idle
    <3> QED BY <1>5, <3>1, <3>2, <3>3, <3>4, <3>5 DEF Submission
  <2> QED BY <1>3, <2>4, <2>5
<1>6. ASSUME NEW p \in Procs, Timeout(p)
      PROVE  InTimeInv'
  <2> DEFINE q == proc[p]
  <2>1. q \in Process /\ Timely(q)
    BY <1>1
  <2>2. CASE FillConflict(p)
    BY <1>1, <2>2, StepKinds DEF FillConflict, Lost, ClearTimer, Idle, InTimeInv, InTime, Timely
  <2>3. CASE ReadPending(p) \/ Fill(p) \/ Filled(p)
    <3>1. q.turn \in Nat /\ InTime(q.turn)
      BY <2>1, <2>3 DEF ReadPending, Fill, Filled, At, Timely
    <3>2. timer' \in Nat /\ InTime(timer')
      BY <1>1, <2>3 DEF ReadPending, Fill, Filled, ClearTimer, timers
    <3>3. CASE ReadPending(p) \/ Filled(p)
      <4>1. MovesTimely(p)
        BY <1>1, <3>1, <3>3 DEF ReadPending, Filled, Goto, MovesTimely, Timely
      <4> QED BY <1>3, <3>2, <4>1
    <3>4. CASE Fill(p)
      <4>1. \A S : [q EXCEPT !.pending = S].turn = q.turn
        BY <2>1, <3>4 DEF Fill, At, Process, Idle
      <4>2. MovesTimely(p)
        BY <1>1, <3>1, <3>4, <4>1 DEF Fill, Goto, MovesTimely, Timely
      <4> QED BY <1>3, <3>2, <4>2
    <3> QED BY <2>3, <3>3, <3>4
  <2> QED BY <1>6, <2>2, <2>3 DEF Timeout
<1>7. ASSUME NEW p \in Procs, Resolution(p)
      PROVE  InTimeInv'
  <2> DEFINE q == proc[p]
  <2>2. q.pc \in {"resolve", "submit", "failed", "delete", "committed", "chain"}
    BY <1>7 DEF Resolution, ReadActions, Commit, Repeat, SubmitFails, CheckCommitted,
                DeleteActions, ReadPost, Chain, At
  <2>3. q.turn \in Nat /\ InTime(q.turn)
    BY <1>1, <2>2 DEF Timely
  <2>4. timer' \in Nat /\ InTime(timer')
    BY <1>1, <1>7, <2>3
    DEF Resolution, ReadActions, Commit, Repeat, SubmitFails, CheckCommitted,
        DeleteActions, ReadPost, Chain, StartTimer, timers
  <2>5. MovesTimely(p)
    <3>1. CASE ReadActions(p)
      BY <1>1, <2>3, <3>1 DEF ReadActions, Goto, MovesTimely, Timely, Idle
    <3>2. CASE Commit(p) \/ Repeat(p) \/ SubmitFails(p)
      BY <1>1, <2>3, <3>2 DEF Commit, Repeat, SubmitFails, Goto, MovesTimely, Timely
    <3>3. CASE CheckCommitted(p) \/ DeleteActions(p) \/ Chain(p)
      BY <1>1, <2>3, <3>3 DEF CheckCommitted, DeleteActions, Chain, Goto, MovesTimely, Timely, Idle
    <3>4. CASE ReadPost(p)
      BY <1>1, <3>4 DEF ReadPost, Goto, MovesTimely, Timely, Idle
    <3> QED BY <1>7, <3>1, <3>2, <3>3, <3>4 DEF Resolution
  <2> QED BY <1>3, <2>4, <2>5
<1>8. ASSUME NEW p \in Reqs, NEW u \in Members, Arrive(p, u)
      PROVE  InTimeInv'
  <2>1. p \in Procs /\ MovesTimely(p) /\ timer' = timer
    BY <1>1, <1>8 DEF Arrive, Goto, MovesTimely, Timely, timers, Procs
  <2> QED BY <1>1, <1>3, <2>1
<1>9. ASSUME NEW p \in Clocks, Fire(p)
      PROVE  InTimeInv'
  <2>1. p \in Procs /\ MovesTimely(p) /\ timer' = timer
    BY <1>1, <1>9 DEF Fire, Goto, MovesTimely, Timely, Procs
  <2> QED BY <1>1, <1>3, <2>1
<1>10. CASE Restart
  BY <1>1, <1>10, StepKinds DEF Restart, Lost, ClearTimer, Idle, InTimeInv, InTime, Timely
<1>11. CASE HubTurn \/ (\E u \in Members : SetAi(u) \/ ClearAi(u)) \/ UNCHANGED vars
  BY <1>4, <1>11 DEF HubTurn, SetAi, ClearAi, vars, timers
<1> QED BY <1>5, <1>6, <1>7, <1>8, <1>9, <1>10, <1>11 DEF Next, Continue

-----------------------------------------------------------------------------

(* What a handler relies on while no resolution has failed: the timeout    *)
(* has nobody left out but the pending members, a resolution has all the   *)
(* actions, and one that fails is late.                                    *)
Ready(q) ==
  /\ q.pc = "fill" => Members \ q.pending \subseteq rows[q.turn]
  /\ q.pc \in {"complete", "resolve"} => AllIn(q.turn)
  /\ q.pc = "submit" => q.actions = Members /\ AllIn(q.turn)
  /\ q.pc = "failed" => q.turn <= turnNo
  /\ q.pc # "delete"

ActionsInv ==
  failures = 0 =>
    /\ \A p \in Procs : Ready(proc[p])
    /\ \A t \in Turns : used[t] # NotCombined => used[t] = Members /\ AllIn(t)

(* At first no handler is at work and no turn played.                      *)
LEMMA ActionsInvInit == Init => ActionsInv
  BY DEF Init, ActionsInv, Ready, Idle, NotCombined

(* Without a failure nothing is taken back.                                *)
LEMMA ActionsStay ==
  ASSUME TypeOK, [Next]_vars, failures = 0, \A p \in Procs : Ready(proc[p]), NEW t \in Turns
  PROVE  rows[t] \subseteq rows'[t]
<1>1. CASE UNCHANGED vars
  BY <1>1 DEF vars, database
<1>2. ASSUME NEW p \in Procs, Submission(p)
      PROVE  rows[t] \subseteq rows'[t]
  <2>1. CASE AutoInsert(p)
    BY <2>1 DEF AutoInsert, TypeOK
  <2>2. CASE InsertOwn(p)
    BY <2>2 DEF InsertOwn, TypeOK
  <2> QED BY <1>2, <2>1, <2>2 DEF Submission, Ensure, Start, AutoCheck, CheckOwn, Tally,
                                         Complete, database
<1>3. ASSUME NEW p \in Procs, Timeout(p)
      PROVE  rows[t] \subseteq rows'[t]
  <2>1. CASE Fill(p)
    BY <2>1 DEF Fill, TypeOK
  <2> QED BY <1>3, <2>1 DEF Timeout, ReadPending, FillConflict, Filled, database
<1>4. ASSUME NEW p \in Procs, Resolution(p)
      PROVE  rows[t] \subseteq rows'[t]
  <2>1. ~DeleteActions(p)
    BY DEF DeleteActions, At, Ready
  <2> QED BY <1>4, <2>1 DEF Resolution, ReadActions, Commit, Repeat, SubmitFails,
             CheckCommitted, ReadPost, Chain, database
<1>5. CASE HubTurn \/ Restart
  BY <1>5 DEF HubTurn, Restart, database
<1>6. CASE (\E p \in Reqs, u \in Members : Arrive(p, u)) \/ (\E p \in Clocks : Fire(p))
             \/ (\E u \in Members : SetAi(u) \/ ClearAi(u))
  BY <1>6 DEF Arrive, Fire, SetAi, ClearAi, database
<1> QED BY <1>1, <1>2, <1>3, <1>4, <1>5, <1>6 DEF Next, Continue

(* What made a handler ready does not go away before its next step.        *)
LEMMA ReadyStays ==
  ASSUME TypeOK, [Next]_vars, failures = 0, \A p \in Procs : Ready(proc[p]),
         NEW q \in Process, Ready(q)
  PROVE  Ready(q)'
<1>1. turnNo \in Nat /\ turnNo' \in Nat /\ turnNo <= turnNo'
  BY StepKinds, PartyAssumption DEF TypeOK
<1>2. q.pc # "idle" => q.turn \in Turns /\ rows[q.turn] \subseteq rows'[q.turn]
  BY ProcessKinds, ActionsStay
<1>3. q.pc = "failed" => q.turn \in Nat
  BY ProcessKinds DEF Turns
<1> QED BY <1>1, <1>2, <1>3 DEF Ready, AllIn

(* Each statement leaves the handler that takes it ready for its next one. *)
LEMMA ActionsInvStep == TypeOK /\ InTimeInv /\ ActionsInv /\ [Next]_vars => ActionsInv'
<1> SUFFICES ASSUME TypeOK, InTimeInv, ActionsInv, [Next]_vars, failures' = 0
             PROVE  /\ \A p \in Procs : Ready(proc[p])'
                    /\ \A t \in Turns : (used[t] # NotCombined => used[t] = Members /\ AllIn(t))'
  BY DEF ActionsInv
<1>0. /\ failures = 0
      /\ \A p \in Procs : proc[p] \in Process /\ Ready(proc[p])
      /\ \A t \in Turns : used[t] # NotCombined => used[t] = Members /\ AllIn(t)
      /\ proc \in [Procs -> Process] /\ rows \in [Turns -> SUBSET Members]
      /\ used \in [Turns -> SUBSET Members]
      /\ turnNo \in Nat
  <2>1. failures = 0
    BY StepKinds, PartyAssumption DEF TypeOK
  <2> QED BY <2>1, PartyAssumption DEF TypeOK, ActionsInv
<1>1. \A q \in Process : Ready(q) => Ready(q)'
  BY <1>0, ReadyStays
<1>2. \A t \in Turns : rows[t] \subseteq rows'[t]
  BY <1>0, ActionsStay
<1> DEFINE Others(p) == \A x \in Procs \ {p} : proc'[x] = proc[x]
<1>3. ASSUME NEW p \in Procs, Others(p), Ready(proc[p])'
      PROVE  \A x \in Procs : Ready(proc[x])'
  <2>1. ASSUME NEW x \in Procs, x # p
        PROVE  Ready(proc[x])'
    <3>1. proc'[x] = proc[x] /\ proc[x] \in Process /\ Ready(proc[x])
      BY <1>0, <1>3, <2>1
    <3> QED BY <1>1, <3>1 DEF Ready, AllIn
  <2> QED BY <1>3, <2>1
<1>4. CASE \A p \in Procs : ~Commit(p)
  <2>0. used' = used
    <3>1. ASSUME NEW p \in Procs, Submission(p) \/ Timeout(p)
          PROVE  used' = used
      BY <3>1 DEF Submission, Timeout, Ensure, Start, AutoCheck, AutoInsert, CheckOwn, InsertOwn,
                  Tally, Complete, ReadPending, Fill, FillConflict, Filled, database
    <3>2. ASSUME NEW p \in Procs, Resolution(p)
          PROVE  used' = used
      BY <1>4, <3>2 DEF Resolution, ReadActions, Repeat, SubmitFails, CheckCommitted,
                        DeleteActions, ReadPost, Chain, database
    <3>3. CASE HubTurn \/ Restart \/ UNCHANGED vars
               \/ (\E p \in Reqs, u \in Members : Arrive(p, u)) \/ (\E p \in Clocks : Fire(p))
               \/ (\E u \in Members : SetAi(u) \/ ClearAi(u))
      BY <3>3 DEF HubTurn, Restart, Arrive, Fire, SetAi, ClearAi, database, vars
    <3> QED BY <3>1, <3>2, <3>3 DEF Next, Continue
  <2>1. \A t \in Turns : (used[t] # NotCombined => used[t] = Members /\ AllIn(t))'
    <3>1. ASSUME NEW t \in Turns, used'[t] # NotCombined
          PROVE  used'[t] = Members /\ Members \subseteq rows'[t]
      BY <1>0, <1>2, <2>0, <3>1 DEF AllIn
    <3> QED BY <3>1 DEF AllIn, NotCombined
  <2>3. CASE proc' = proc
    <3>1. ASSUME NEW x \in Procs
          PROVE  Ready(proc[x])'
      BY <1>0, <1>1, <2>3 DEF Ready, AllIn
    <3> QED BY <2>1, <3>1
  <2>4. CASE proc' = [x \in Procs |-> Idle]
    BY <2>1, <2>4 DEF Ready, Idle
  <2>5. ASSUME NEW p \in Procs, Submission(p)
        PROVE  Others(p) /\ Ready(proc[p])'
    <3>1. CASE Tally(p)
      BY <1>0, <3>1 DEF Tally, Goto, Ready, AllIn, Idle, database
    <3>5. CASE Complete(p)
      <4>1. Members \subseteq rows[proc[p].turn]
        BY <1>0, <3>5 DEF Complete, At, Ready, AllIn
      <4> QED BY <1>0, <3>5, <4>1 DEF Complete, Goto, Ready, AllIn, database
    <3>2. CASE AutoCheck(p)
      <4>1. \A S : [proc[p] EXCEPT !.seen = S].pc = "auto"
        BY <1>0, <3>2 DEF AutoCheck, At, Process, Idle
      <4>2. PICK next : Goto(p, next) /\ next.pc \in {"auto", "autoInsert", "check"}
        <5>1. CASE Goto(p, Of(p, "check"))
          BY <5>1 DEF Of
        <5>2. ASSUME NEW u \in ai \ proc[p].seen,
                     Goto(p, [proc[p] EXCEPT !.seen = @ \cup {u}])
              PROVE  \E next : Goto(p, next) /\ next.pc \in {"auto", "autoInsert", "check"}
          BY <4>1, <5>2
        <5>3. ASSUME NEW u \in ai \ proc[p].seen,
                     Goto(p, [pc |-> "autoInsert", turn |-> proc[p].turn, user |-> proc[p].user,
                              seen |-> proc[p].seen \cup {u}, absent |-> u])
              PROVE  \E next : Goto(p, next) /\ next.pc \in {"auto", "autoInsert", "check"}
          BY <5>3
        <5> QED BY <3>2, <5>1, <5>2, <5>3 DEF AutoCheck
      <4> QED BY <1>0, <4>2 DEF Goto, Ready
    <3>4. CASE CheckOwn(p) \/ InsertOwn(p)
      <4>1. /\ [proc[p] EXCEPT !.pc = "insert"].pc = "insert"
            /\ [proc[p] EXCEPT !.pc = "tally"].pc = "tally"
        BY <1>0, <3>4 DEF CheckOwn, InsertOwn, At, Process, Idle
      <4>2. CASE CheckOwn(p)
        BY <1>0, <4>1, <4>2 DEF CheckOwn, Goto, Ready, Idle
      <4>3. CASE InsertOwn(p)
        <5>1. Goto(p, Idle) \/ Goto(p, [proc[p] EXCEPT !.pc = "tally"])
          BY <4>3 DEF InsertOwn
        <5>2. CASE Goto(p, Idle)
          BY <1>0, <5>2 DEF Goto, Ready, Idle
        <5>3. CASE Goto(p, [proc[p] EXCEPT !.pc = "tally"])
          BY <1>0, <4>1, <5>3 DEF Goto, Ready
        <5> QED BY <5>1, <5>2, <5>3
      <4> QED BY <3>4, <4>2, <4>3
    <3>3. CASE Ensure(p) \/ Start(p) \/ AutoInsert(p)
      BY <1>0, <3>3 DEF Ensure, Start, AutoInsert, Goto, Of, ForAbsent, Idle, Ready
    <3> QED BY <2>5, <3>1, <3>2, <3>3, <3>4, <3>5 DEF Submission
  <2>6. ASSUME NEW p \in Procs, Timeout(p), ~FillConflict(p)
        PROVE  Others(p) /\ Ready(proc[p])'
    <3>1. CASE ReadPending(p)
      BY <1>0, <3>1 DEF ReadPending, Goto, Ready, database
    <3>2. CASE Fill(p)
      <4>1. /\ proc[p].turn \in Turns
            /\ proc[p] = [pc |-> "fill", turn |-> proc[p].turn, pending |-> proc[p].pending]
        BY <1>0, <3>2, ProcessKinds DEF Fill, At, Process, Idle
      <4>2. PICK u \in proc[p].pending :
              /\ rows' = [rows EXCEPT ![proc[p].turn] = @ \cup {u}]
              /\ Goto(p, [proc[p] EXCEPT !.pending = @ \ {u}])
        BY <3>2 DEF Fill
      <4>3. proc'[p] = [pc |-> "fill", turn |-> proc[p].turn, pending |-> proc[p].pending \ {u}]
        BY <1>0, <4>1, <4>2 DEF Goto
      <4>4. rows'[proc[p].turn] = rows[proc[p].turn] \cup {u}
        BY <1>0, <4>1, <4>2
      <4>5. Members \ proc[p].pending \subseteq rows[proc[p].turn]
        BY <1>0, <4>1 DEF Ready
      <4> QED BY <1>0, <4>2, <4>3, <4>4, <4>5 DEF Ready, Goto
    <3>3. CASE Filled(p)
      <4>1. Members \subseteq rows[proc[p].turn]
        BY <1>0, <3>3 DEF Filled, At, Ready
      <4> QED BY <1>0, <3>3, <4>1 DEF Filled, Goto, Ready, AllIn, database
    <3> QED BY <2>6, <3>1, <3>2, <3>3 DEF Timeout
  <2>7. ASSUME NEW p \in Procs, Resolution(p)
        PROVE  Others(p) /\ Ready(proc[p])'
    <3>1. CASE ReadActions(p)
      <4>1. rows[proc[p].turn] = Members
        <5>1. proc[p].turn \in Turns
          BY <1>0, <3>1, ProcessKinds DEF ReadActions, At
        <5>2. Members \subseteq rows[proc[p].turn]
          BY <1>0, <3>1 DEF ReadActions, At, Ready, AllIn
        <5> QED BY <1>0, <5>1, <5>2
      <4> QED BY <1>0, <3>1, <4>1 DEF ReadActions, Goto, Ready, AllIn, Idle, database
    <3>2. CASE SubmitFails(p)
      <4>1. proc[p].turn # turnNo + 1 \/ place = "HUB"
        BY <1>0, <3>2 DEF SubmitFails
      <4>2. proc[p].turn \in Nat /\ InTime(proc[p].turn)
        BY <3>2 DEF SubmitFails, At, InTimeInv, Timely
      <4>3. proc[p].turn <= turnNo
        BY <1>0, <4>1, <4>2 DEF InTime
      <4> QED BY <1>0, <3>2, <4>3 DEF SubmitFails, Goto, Ready, database
    <3>3. CASE CheckCommitted(p)
      BY <1>0, <3>3 DEF CheckCommitted, At, Goto, Ready, Idle
    <3>4. ~DeleteActions(p)
      BY <1>0 DEF DeleteActions, At, Ready
    <3>5. CASE Repeat(p) \/ ReadPost(p) \/ Chain(p)
      BY <1>0, <3>5 DEF Repeat, ReadPost, Chain, Goto, Ready, Idle
    <3> QED BY <1>4, <2>7, <3>1, <3>2, <3>3, <3>4, <3>5 DEF Resolution
  <2>8. ASSUME NEW p \in Reqs, NEW u \in Members, Arrive(p, u)
        PROVE  p \in Procs /\ Others(p) /\ Ready(proc[p])'
    BY <1>0, <2>8 DEF Arrive, Goto, Ready, Procs
  <2>9. ASSUME NEW p \in Clocks, Fire(p)
        PROVE  p \in Procs /\ Others(p) /\ Ready(proc[p])'
    BY <1>0, <2>9 DEF Fire, Goto, Ready, Procs
  <2>10. ASSUME NEW p \in Procs, FillConflict(p)
         PROVE  proc' = [x \in Procs |-> Idle]
    BY <2>10 DEF FillConflict, Lost
  <2>11. Restart => proc' = [x \in Procs |-> Idle]
    BY DEF Restart, Lost
  <2>12. UNCHANGED vars \/ HubTurn \/ (\E u \in Members : SetAi(u) \/ ClearAi(u)) => proc' = proc
    BY DEF HubTurn, SetAi, ClearAi, vars
  <2> HIDE DEF Others
  <2>14. (\E p \in Procs : Others(p) /\ Ready(proc[p])') \/ proc' = proc
         \/ proc' = [x \in Procs |-> Idle]
    BY <2>5, <2>6, <2>7, <2>8, <2>9, <2>10, <2>11, <2>12 DEF Next, Continue
  <2> QED BY <1>3, <2>1, <2>3, <2>4, <2>14
<1>5. ASSUME NEW p \in Procs, Commit(p)
      PROVE  /\ \A x \in Procs : Ready(proc[x])'
             /\ \A t \in Turns : (used[t] # NotCombined => used[t] = Members /\ AllIn(t))'
  <2>1. Others(p) /\ Ready(proc[p])'
    BY <1>0, <1>5 DEF Commit, Goto, Ready
  <2>2. /\ proc[p].turn \in Turns /\ proc[p].actions = Members
        /\ AllIn(proc[p].turn)
        /\ used' = [used EXCEPT ![proc[p].turn] = proc[p].actions]
        /\ rows' = rows
    BY <1>0, <1>5, ProcessKinds DEF Commit, At, Ready
  <2>3. ASSUME NEW t \in Turns, used'[t] # NotCombined
        PROVE  used'[t] = Members /\ Members \subseteq rows'[t]
    BY <1>0, <2>2, <2>3 DEF AllIn
  <2> HIDE DEF Others
  <2>4. \A x \in Procs : Ready(proc[x])'
    BY <1>3, <2>1
  <2> QED BY <2>3, <2>4 DEF AllIn, NotCombined
<1> QED BY <1>4, <1>5

(* For any number of members and submissions: a turn is combined of an     *)
(* action of every member and the actions stay, as long as no resolution   *)
(* fails.                                                                  *)
THEOREM NobodyIsLeftOut == Spec => []EveryoneActs
<1> DEFINE Inv == TypeOK /\ InTimeInv /\ ActionsInv
<1>1. Init => Inv
  BY TypeInit, InTimeInit, ActionsInvInit
<1>2. Inv /\ [Next]_vars => Inv'
  BY TypeStep, InTimeStep, ActionsInvStep
<1>3. Inv => EveryoneActs
  <2>1. ASSUME TypeOK, ActionsInv, failures = 0, NEW t \in Turns, used[t] # NotCombined
        PROVE  used[t] = Members /\ rows[t] = Members
    BY <2>1 DEF TypeOK, ActionsInv, AllIn
  <2> QED BY <2>1 DEF EveryoneActs
<1> QED BY <1>1, <1>2, <1>3, PTL DEF Spec

-----------------------------------------------------------------------------
(***************************************************************************)
(* Party.  A request is a process that works on one party; the invariant   *)
(* says what a party of its own owes the request that is at work on it.    *)
(* Every statement of a request is shown to be an Advance, and every       *)
(* Advance to keep the invariant; the starts of requests likewise.         *)
(***************************************************************************)


(* The length of two sequences put together.                               *)
LEMMA PutTogether ==
  ASSUME NEW S, NEW a \in Seq(S), NEW b \in Seq(S)
  PROVE  a \o b \in Seq(S) /\ Len(a \o b) = Len(a) + Len(b)
OBVIOUS

(* What is left of a sequence when an element is taken out.                *)
LEMMA RemoveAtIs ==
  ASSUME NEW S, NEW s \in Seq(S), NEW i \in 1..Len(s)
  PROVE  /\ RemoveAt(s, i) \in Seq(S)
         /\ Len(RemoveAt(s, i)) = Len(s) - 1
         /\ \A k \in 1..(Len(s) - 1) :
              RemoveAt(s, i)[k] = IF k < i THEN s[k] ELSE s[k + 1]
<1>1. Len(s) \in Nat /\ i \in Nat /\ 1 <= i /\ i <= Len(s)
  OBVIOUS
<1> DEFINE a == SubSeq(s, 1, i - 1)
           b == SubSeq(s, i + 1, Len(s))
<1>2. a \in Seq(S) /\ Len(a) = i - 1 /\ \A k \in 1..(i - 1) : a[k] = s[k]
  BY <1>1
<1>3. b \in Seq(S) /\ Len(b) = Len(s) - i /\ \A k \in 1..(Len(s) - i) : b[k] = s[i + k]
  BY <1>1
<1>4. RemoveAt(s, i) = a \o b
  BY DEF RemoveAt
<1> HIDE DEF a, b
<1>5. a \o b \in Seq(S) /\ Len(a \o b) = Len(s) - 1
  <2>1. (i - 1) + (Len(s) - i) = Len(s) - 1
    BY <1>1
  <2>2. a \o b \in Seq(S) /\ Len(a \o b) = Len(a) + Len(b)
    BY ONLY PutTogether, <1>2, <1>3
  <2> QED BY ONLY <2>1, <2>2, <1>2, <1>3
<1>6. ASSUME NEW k \in 1..(Len(s) - 1)
      PROVE  (a \o b)[k] = IF k < i THEN s[k] ELSE s[k + 1]
  <2>1. CASE k < i
    BY <2>1, <1>1, <1>2, <1>3
  <2>2. CASE ~ (k < i)
    <3>1. k - Len(a) \in 1..(Len(s) - i) /\ i + (k - Len(a)) = k + 1 /\ k > Len(a)
      BY <2>2, <1>1, <1>2
    <3>2. (a \o b)[k] = b[k - Len(a)]
      BY <3>1, <1>1, <1>2, <1>3
    <3> QED BY <2>2, <3>1, <3>2, <1>3
  <2> QED BY <2>1, <2>2
<1> QED BY <1>4, <1>5, <1>6

-----------------------------------------------------------------------------
(* The rows of a party.                                                    *)

(* A user has one row in a party at most: party_members_party_user_idx.    *)
RowsOf(p) ==
  \A i, j \in 1..Len(members[p]) : members[p][i].user = members[p][j].user => i = j

LeadersOf(p) == {row.user : row \in {x \in ToSet(members[p]) : x.role = "LEADER"}}

(* Members and leaders, by the places of their rows.                       *)
LEMMA MembersAre ==
  ASSUME NEW p \in Parties, members[p] \in Seq(Row)
  PROVE  /\ \A u : u \in MembersOf(p) <=> \E i \in 1..Len(members[p]) : members[p][i].user = u
         /\ \A u : u \in LeadersOf(p) <=>
              \E i \in 1..Len(members[p]) :
                members[p][i].user = u /\ members[p][i].role = "LEADER"
         /\ MembersOf(p) \subseteq Users /\ LeadersOf(p) \subseteq MembersOf(p)
<1>1. ToSet(members[p]) = {members[p][i] : i \in 1..Len(members[p])}
  BY DEF ToSet
<1>2. \A i \in 1..Len(members[p]) : members[p][i] \in Row
  OBVIOUS
<1> QED BY <1>1, <1>2 DEF MembersOf, LeadersOf, Row

(* The same after a step.                                                  *)
LEMMA MembersAreNext ==
  ASSUME NEW p \in Parties, members'[p] \in Seq(Row)
  PROVE  /\ \A u : u \in MembersOf(p)' <=> \E i \in 1..Len(members'[p]) : members'[p][i].user = u
         /\ \A u : u \in LeadersOf(p)' <=>
              \E i \in 1..Len(members'[p]) :
                members'[p][i].user = u /\ members'[p][i].role = "LEADER"
<1>1. ToSet(members'[p]) = {members'[p][i] : i \in 1..Len(members'[p])}
  BY DEF ToSet
<1> QED BY <1>1 DEF MembersOf, LeadersOf

(* A row is added.                                                         *)
LEMMA Appended ==
  ASSUME NEW p \in Parties, members[p] \in Seq(Row), RowsOf(p), NEW row \in Row,
         row.user \notin MembersOf(p), members'[p] = Append(members[p], row)
  PROVE  /\ members'[p] \in Seq(Row) /\ Len(members'[p]) = Len(members[p]) + 1
         /\ RowsOf(p)'
         /\ MembersOf(p)' = MembersOf(p) \union {row.user}
         /\ LeadersOf(p)' = LeadersOf(p) \union (IF row.role = "LEADER" THEN {row.user} ELSE {})
<1> DEFINE n == Len(members[p])
<1>1. /\ members'[p] \in Seq(Row) /\ Len(members'[p]) = n + 1 /\ n \in Nat
      /\ members'[p][n + 1] = row
      /\ \A i \in 1..n : members'[p][i] = members[p][i]
  OBVIOUS
<1>2. 1..(n + 1) = (1..n) \union {n + 1}
  BY <1>1
<1>7. Len(members'[p]) = n + 1 /\ Len(members[p]) = n
  BY <1>1
<1> HIDE DEF n
<1>3. MembersOf(p)' = MembersOf(p) \union {row.user}
  <2>1. /\ \A u : u \in MembersOf(p) <=> \E i \in 1..n : members[p][i].user = u
        /\ \A u : u \in MembersOf(p)' <=> \E i \in 1..(n + 1) : members'[p][i].user = u
    BY <1>1, <1>7, MembersAre, MembersAreNext
  <2>2. \A u : u \in MembersOf(p)' <=> u \in MembersOf(p) \union {row.user}
    BY ONLY <1>1, <1>2, <2>1
  <2> QED BY <2>2
<1>4. LeadersOf(p)' = LeadersOf(p) \union (IF row.role = "LEADER" THEN {row.user} ELSE {})
  <2>1. /\ \A u : u \in LeadersOf(p) <=>
               \E i \in 1..n : members[p][i].user = u /\ members[p][i].role = "LEADER"
        /\ \A u : u \in LeadersOf(p)' <=>
               \E i \in 1..(n + 1) : members'[p][i].user = u /\ members'[p][i].role = "LEADER"
    <3>1. /\ members[p] \in Seq(Row) /\ members'[p] \in Seq(Row)
          /\ Len(members'[p]) = n + 1 /\ Len(members[p]) = n
      BY <1>1, <1>7
    <3>2. \A u : u \in LeadersOf(p) <=>
            \E i \in 1..n : members[p][i].user = u /\ members[p][i].role = "LEADER"
      BY <3>1, MembersAre
    <3>3. \A u : u \in LeadersOf(p)' <=>
            \E i \in 1..Len(members'[p]) :
              members'[p][i].user = u /\ members'[p][i].role = "LEADER"
      BY ONLY <3>1, MembersAreNext, p \in Parties
    <3>4. Len(members'[p]) = n + 1
      BY <3>1
    <3> QED BY ONLY <3>2, <3>3, <3>4
  <2>2. CASE row.role = "LEADER"
    <3>1. \A u : u \in LeadersOf(p)' <=> u \in LeadersOf(p) \union {row.user}
      BY ONLY <1>1, <1>2, <2>1, <2>2
    <3> QED BY <2>2, <3>1
  <2>3. CASE row.role # "LEADER"
    <3>1. \A u : u \in LeadersOf(p)' <=> u \in LeadersOf(p)
      BY ONLY <1>1, <1>2, <2>1, <2>3
    <3> QED BY <2>3, <3>1
  <2> QED BY <2>2, <2>3
<1>5. RowsOf(p)'
  BY <1>1, <1>2, MembersAre DEF RowsOf, n
<1> QED BY <1>1, <1>3, <1>4, <1>5 DEF n

(* The rows of p without the one of u.                                     *)
LEMMA RemainingIs ==
  ASSUME NEW p \in Parties, members[p] \in Seq(Row), RowsOf(p), NEW u,
         members'[p] = Remaining(p, u)
  PROVE  /\ members'[p] \in Seq(Row)
         /\ RowsOf(p)'
         /\ MembersOf(p)' = MembersOf(p) \ {u} /\ LeadersOf(p)' = LeadersOf(p) \ {u}
         /\ u \in MembersOf(p) => Len(members'[p]) = Len(members[p]) - 1
         /\ u \notin MembersOf(p) => members'[p] = members[p]
<1> DEFINE s == members[p]
           n == Len(s)
           mine == {i \in DOMAIN s : s[i].user = u}
<1>0. n \in Nat /\ DOMAIN s = 1..n
  OBVIOUS
<1>1. CASE mine = {}
  <2>1. members'[p] = s
    BY <1>1 DEF Remaining
  <2>2. u \notin MembersOf(p)
    BY <1>0, <1>1, MembersAre
  <2> QED BY <2>1, <2>2, MembersAre, <1>0 DEF MembersOf, LeadersOf, RowsOf
<1>2. CASE mine # {}
  <2> DEFINE k == CHOOSE i \in mine : TRUE
  <2>1. k \in mine
    BY <1>2
  <2>2. k \in 1..n /\ s[k].user = u
    BY <2>1, <1>0
  <2>3. members'[p] = RemoveAt(s, k)
    BY <1>2 DEF Remaining
  <2> HIDE DEF k
  <2>4. /\ members'[p] \in Seq(Row) /\ Len(members'[p]) = n - 1
        /\ \A i \in 1..(n - 1) : members'[p][i] = IF i < k THEN s[i] ELSE s[i + 1]
    BY <2>2, <2>3, RemoveAtIs
  <2>5. \A i \in 1..n : s[i].user = u => i = k
    BY <2>2 DEF RowsOf
  <2>6. \A i \in 1..n : i # k =>
          \E j \in 1..(n - 1) : members'[p][j] = s[i]
    <3> SUFFICES ASSUME NEW i \in 1..n, i # k PROVE \E j \in 1..(n - 1) : members'[p][j] = s[i]
      OBVIOUS
    <3>1. CASE i < k
      <4>1. i \in 1..(n - 1) /\ members'[p][i] = s[i]
        BY <3>1, <1>0, <2>2, <2>4
      <4> QED BY <4>1
    <3>2. CASE i > k
      <4>1. i - 1 \in 1..(n - 1) /\ ~ (i - 1 < k) /\ (i - 1) + 1 = i
        BY <3>2, <1>0, <2>2
      <4>2. members'[p][i - 1] = s[i]
        BY <4>1, <2>4
      <4> QED BY <4>1, <4>2
    <3> QED BY <3>1, <3>2, <2>2, <1>0
  <2> DEFINE at == [j \in 1..(n - 1) |-> IF j < k THEN j ELSE j + 1]
  <2>7. \A j \in 1..(n - 1) : at[j] \in 1..n /\ at[j] # k /\ members'[p][j] = s[at[j]]
    BY <1>0, <2>2, <2>4
  <2>8. \A i, j \in 1..(n - 1) : at[i] = at[j] => i = j
    BY <1>0, <2>2
  <2> HIDE DEF at
  <2>9. \A j \in 1..(n - 1) : members'[p][j].user # u
    BY <2>5, <2>7
  <2>14. Len(members'[p]) = n - 1 /\ members'[p] \in Seq(Row)
    BY <2>4
  <2>15. /\ \A x : x \in MembersOf(p) <=> \E i \in 1..n : s[i].user = x
         /\ \A x : x \in MembersOf(p)' <=> \E i \in 1..(n - 1) : members'[p][i].user = x
    BY <2>14, MembersAre, MembersAreNext
  <2>16. /\ \A x : x \in LeadersOf(p) <=> \E i \in 1..n : s[i].user = x /\ s[i].role = "LEADER"
         /\ \A x : x \in LeadersOf(p)' <=>
               \E i \in 1..(n - 1) : members'[p][i].user = x /\ members'[p][i].role = "LEADER"
    BY <2>14, MembersAre, MembersAreNext
  <2> HIDE DEF s, n
  <2>10. MembersOf(p)' = MembersOf(p) \ {u}
    <3>1. \A x : x \in MembersOf(p)' <=> x \in MembersOf(p) \ {u}
      BY ONLY <2>2, <2>6, <2>7, <2>9, <2>15
    <3> QED BY <3>1
  <2>11. LeadersOf(p)' = LeadersOf(p) \ {u}
    <3>1. \A x : x \in LeadersOf(p)' <=> x \in LeadersOf(p) \ {u}
      BY ONLY <2>2, <2>6, <2>7, <2>9, <2>16
    <3> QED BY <3>1
  <2>12. RowsOf(p)'
    <3>1. \A i, j \in 1..n : s[i].user = s[j].user => i = j
      BY DEF RowsOf, s, n
    <3>2. \A i, j \in 1..(n - 1) : members'[p][i].user = members'[p][j].user => i = j
      BY ONLY <3>1, <2>7, <2>8
    <3> QED BY <3>2, <2>14 DEF RowsOf
  <2>13. u \in MembersOf(p)
    BY <2>2, <2>15
  <2> USE DEF s, n
  <2> QED BY <2>4, <2>10, <2>11, <2>12, <2>13
<1> QED BY <1>1, <1>2

(* Rows that change their flags only.                                      *)
LEMMA Flagged ==
  ASSUME NEW p \in Parties, members[p] \in Seq(Row), RowsOf(p), members'[p] \in Seq(Row),
         Len(members'[p]) = Len(members[p]),
         \A i \in 1..Len(members[p]) :
           members'[p][i].user = members[p][i].user /\ members'[p][i].role = members[p][i].role
  PROVE  RowsOf(p)' /\ MembersOf(p)' = MembersOf(p) /\ LeadersOf(p)' = LeadersOf(p)
<1> DEFINE n == Len(members[p])
<1>4. /\ \A u : u \in MembersOf(p) <=> \E i \in 1..n : members[p][i].user = u
      /\ \A u : u \in MembersOf(p)' <=> \E i \in 1..n : members'[p][i].user = u
  BY MembersAre, MembersAreNext
<1>1. MembersOf(p)' = MembersOf(p)
  <2>1. \A u : u \in MembersOf(p)' <=> u \in MembersOf(p)
    BY <1>4
  <2> QED BY <2>1
<1>2. \A x : x \in LeadersOf(p)' <=> x \in LeadersOf(p)
  BY MembersAre, MembersAreNext
<1>3. LeadersOf(p)' = LeadersOf(p)
  BY <1>2
<1> QED BY <1>1, <1>3 DEF RowsOf

(* No rows are left.                                                       *)
LEMMA Emptied ==
  ASSUME NEW p \in Parties, members'[p] = <<>>
  PROVE  /\ members'[p] \in Seq(Row) /\ Len(members'[p]) = 0
         /\ RowsOf(p)' /\ MembersOf(p)' = {}
<1>1. members'[p] \in Seq(Row) /\ Len(members'[p]) = 0
  OBVIOUS
<1>2. \A u : u \in MembersOf(p)' <=> \E i \in 1..0 : members'[p][i].user = u
  BY <1>1, MembersAreNext
<1>3. MembersOf(p)' = {}
  BY <1>2
<1> QED BY <1>1, <1>3 DEF RowsOf

-----------------------------------------------------------------------------
(* The inductive invariant.                                                *)

(* The requests that may yet give their user a membership, and those about *)
(* the part a followed user has in a run.                                  *)
Beginning == {"insertParty", "insertLeader", "readParty", "countMembers", "insertMember"}
InRun == {"readParticipant", "addParticipant", "listParticipant", "setLeft", "readList", "unlist"}

(* What a request holds at each label.                                     *)
Shape(q) ==
  /\ q.pc = "idle" <=> q = NoRequest
  /\ q.pc = "insertParty" => q.p = NoParty
  /\ q.pc \notin {"idle", "insertParty"} => q.p \in Parties
  /\ q.pc \notin {"idle", "countForEnd", "writeEnd"} => q.u \in Users
  /\ q.pc \in InRun => q.u \in Watched

Shapes == \A r \in Requests : Shape(req[r])

Rows == \A p \in Parties : RowsOf(p)

(* No other request is about the party of r.                               *)
Sole(r) == \A o \in Requests : req[o].p = req[r].p => o = r

(* A party nobody has created has no rows, no run and no request; one that *)
(* has no leader yet is known to its creator only.                         *)
Newborn ==
  /\ \A p \in Parties : status[p] = "NONE" =>
       members[p] = <<>> /\ runs[p] = 0 /\ \A r \in Requests : req[r].p # p
  /\ \A r \in Requests : req[r].pc = "insertLeader" =>
       /\ Sole(r)
       /\ status[req[r].p] = "OPEN" /\ leader[req[r].p] = req[r].u
       /\ members[req[r].p] = <<>> /\ runs[req[r].p] = 0

(* A user without overlapping requests has one party at most, and none     *)
(* while a request is on the way to give them one.                         *)
Single(u) ==
  /\ \A r, o \in Requests : req[r].u = u /\ req[o].u = u => r = o
  /\ \A p, o \in PartiesOf(u) : p = o
  /\ \A r \in Requests : req[r].u = u /\ req[r].pc \in Beginning => PartiesOf(u) = {}

Singles == \A u \in Users \ exposed : Single(u)

(* What agrees in a party at rest.                                         *)
Live(p) == status[p] \in {"OPEN", "FULL", "IN_DUNGEON"}
Led(p) == LeadersOf(p) = {leader[p]}
Room(p) ==
  /\ status[p] = "FULL" => Len(members[p]) = MaxMembers
  /\ status[p] = "OPEN" => Len(members[p]) < MaxMembers
Sound(p) ==
  /\ Live(p) => Led(p)
  /\ ~ Live(p) => members[p] = <<>>
  /\ Room(p)

(* The labels at which status, leader and rows agree as if at rest.        *)
Plain ==
  {"selectHeir", "promoteHeir", "readLobby", "enterDungeon", "createRun", "resetReady",
   "storeProfiles", "takeRun", "takeParty", "insertParticipants", "resetInvited",
   "countForEnd", "countMembers", "insertMember"} \union InRun

(* Status, leader and rows of p while only q is at work on it.             *)
Handled(p, q) ==
  LET n == Len(members[p]) IN
  /\ q.pc \in Plain \union {"readParty"} => Sound(p)
  /\ q.pc # "readParty" => Live(p)
  /\ q.pc \in {"countMembers", "insertMember"} => status[p] # "FULL"
  /\ q.pc = "insertMember" => q.count = n /\ n < MaxMembers
  /\ q.pc = "markFull" => Led(p) /\ n = MaxMembers
  /\ q.pc \in {"selectHeir", "promoteHeir", "setLeader", "deleteRow"} => q.seen = status[p]
  /\ q.pc \in {"selectHeir", "promoteHeir", "setLeader"} =>
       q.u \in MembersOf(p) \intersect q.held /\ leader[p] = q.u
  /\ q.pc = "promoteHeir" => q.t \in MembersOf(p) \intersect q.held /\ q.t # q.u
  /\ q.pc = "setLeader" => Room(p) /\ q.t # q.u /\ LeadersOf(p) = {q.u, q.t}
  /\ q.pc = "deleteRow" =>
       /\ Room(p) /\ q.t \in MembersOf(p) \intersect q.held
       /\ q.t # leader[p] /\ LeadersOf(p) \ {q.t} = {leader[p]}
  /\ q.pc = "reopen" => Led(p) /\ n < MaxMembers
  /\ q.pc = "markDisbanded" => members[p] = <<>>
  /\ q.pc = "writeEnd" => Led(p) /\ q.count = n

(* Rows of participants and a list of them agree about u.                  *)
Agree(p, u, L) == (part[p][u] = "in" => u \in L) /\ (part[p][u] = "left" => u \notin L)
Told(p) == \A u \in Watched : Agree(p, u, listed[p])
Absent(p) == \A u \in Watched : part[p][u] = "none"

(* The labels between the writes of the participants and of their list.    *)
Telling == {"insertParticipants", "listParticipant", "readList", "unlist"}

(* The participants of p and their list while only q is at work on it.     *)
Following(p, q) ==
  /\ q.pc \notin Telling => Told(p)
  /\ q.pc \in {"resetReady", "storeProfiles", "takeParty"} => Absent(p)
  /\ q.pc \in {"takeRun", "takeParty"} => q.held = {}
  /\ q.pc = "insertParticipants" =>
       \A u \in Watched :
         part[p][u] = "none" \/ (part[p][u] = "in" /\ u \in q.who \intersect q.held)
  /\ q.pc = "addParticipant" => \A u \in Watched : Agree(p, u, q.who)
  /\ q.pc = "listParticipant" =>
       part[p][q.u] # "left" /\ \A u \in Watched \ {q.u} : Agree(p, u, q.who)
  /\ q.pc = "readList" =>
       part[p][q.u] # "in" /\ \A u \in Watched \ {q.u} : Agree(p, u, listed[p])
  /\ q.pc = "unlist" =>
       part[p][q.u] # "in" /\ \A u \in Watched \ {q.u} : Agree(p, u, q.who)

Fitting(p) ==
  /\ Len(members[p]) <= MaxMembers
  /\ status[p] = "DISBANDED" => members[p] = <<>>
  /\ \A r, o \in Requests : req[r].p = p /\ req[o].p = p => r = o
  /\ (\A r \in Requests : req[r].p # p) => Sound(p) /\ Told(p)
  /\ \A r \in Requests : req[r].p = p => Handled(p, req[r]) /\ Following(p, req[r])

Fits == \A p \in Parties \ exposed : Fitting(p)

PartyInv == PartyTypeOK /\ Shapes /\ Rows /\ Newborn /\ Singles /\ Fits

-----------------------------------------------------------------------------
(* One step of a request.                                                  *)

(* The record of r becomes n, the others stay.                             *)
Turned(r, n) == req' = [req EXCEPT ![r] = n] /\ exposed' = exposed

(* A step of r leaves the other requests and the other parties alone.      *)
Others(r) ==
  /\ exposed' = exposed
  /\ \A o \in Requests \ {r} :
       /\ req'[o].pc = req[o].pc /\ req'[o].u = req[o].u /\ req'[o].p = req[o].p
       /\ req[o].p # req[r].p => req'[o] = req[o]
Untouched(p) ==
  /\ status'[p] = status[p] /\ leader'[p] = leader[p] /\ members'[p] = members[p]
  /\ runs'[p] = runs[p] /\ part'[p] = part[p] /\ listed'[p] = listed[p]

(* What r owes its party after its step.                                   *)
Fitted(p, r) ==
  /\ Len(members'[p]) <= MaxMembers
  /\ req'[r].p # p => Sound(p)' /\ Told(p)'
  /\ req'[r].p = p => Handled(p, req[r])' /\ Following(p, req[r])'

(* Where a request q may go: it is done or goes on about its party and     *)
(* user, and begins only once.                                             *)
Goes(q, n) ==
  /\ n.p \in {q.p, NoParty} /\ n.u \in {q.u, NoUser}
  /\ n.pc \notin {"insertParty", "insertLeader"}
  /\ n.pc \in Beginning => q.pc \in {"readParty", "countMembers"}

(* A step of a request about a party, as the invariant sees it.            *)
Advance(r, p) ==
  /\ PartyTypeOK' /\ Shape(req'[r])
  /\ Others(r) /\ \A o \in Parties \ {p} : Untouched(o)
  /\ Goes(req[r], req'[r])
  /\ status'[p] # "NONE"
  /\ RowsOf(p)'
  /\ \A u \in MembersOf(p)' :
       u \in MembersOf(p) \/ (u = req[r].u /\ req[r].pc \in {"insertLeader", "insertMember"})
  /\ p \notin exposed => Fitted(p, r)

(* A request about a party.                                                *)
LEMMA AtWork ==
  ASSUME PartyInv, NEW r \in Requests, req[r].pc \notin {"idle", "insertParty"},
         NEW p, req[r].p = p
  PROVE  LET q == req[r] IN
             /\ q \in Request /\ p \in Parties /\ Shape(q)
             /\ status[p] \in PartyStatus \ {"NONE"} /\ members[p] \in Seq(Row) /\ RowsOf(p)
             /\ p \notin exposed =>
                  Sole(r) /\ Len(members[p]) <= MaxMembers /\ Handled(p, q) /\ Following(p, q)
<1> DEFINE q == req[r]
<1>1. q \in Request /\ Shape(q) /\ p \in Parties
  BY DEF PartyInv, PartyTypeOK, Shapes, Shape
<1>2. status[p] \in PartyStatus /\ members[p] \in Seq(Row)
  BY <1>1 DEF PartyInv, PartyTypeOK
<1>3. status[p] # "NONE"
  BY <1>1 DEF PartyInv, Newborn
<1>4. RowsOf(p)
  BY <1>1 DEF PartyInv, Rows
<1>5. ASSUME p \notin exposed
      PROVE  Sole(r) /\ Len(members[p]) <= MaxMembers /\ Handled(p, q) /\ Following(p, q)
  <2>1. Fitting(p)
    BY <1>1, <1>5 DEF PartyInv, Fits
  <2> QED BY <2>1 DEF Fitting, Sole
<1> QED BY <1>1, <1>2, <1>3, <1>4, <1>5

(* The fields of a request.                                                *)
LEMMA RequestIs ==
  ASSUME NEW q \in Request
  PROVE  /\ q.pc \in Labels /\ q.u \in Users \union {NoUser} /\ q.p \in Parties \union {NoParty}
         /\ q.t \in Users \union {NoUser} /\ q.seen \in PartyStatus /\ q.held \in SUBSET Users
         /\ q.who \in SUBSET Watched /\ q.count \in Nat
BY DEF Request

(* A request at rest is one.                                               *)
LEMMA NoRequestIs ==
  /\ NoRequest \in Request /\ Shape(NoRequest)
  /\ NoRequest.pc = "idle" /\ NoRequest.p = NoParty /\ NoRequest.u = NoUser
<1>1. NoRequest \in Request
  BY DEF NoRequest, Request, Labels, PartyStatus
<1>2. NoRequest.pc = "idle" /\ NoRequest.p = NoParty /\ NoRequest.u = NoUser
  BY DEF NoRequest
<1> QED BY <1>1, <1>2 DEF Shape, InRun

(* A request goes on to another label.                                     *)
LEMMA Onward ==
  ASSUME NEW q \in Request, Shape(q), q.pc \notin {"idle", "insertParty"},
         NEW n \in Request, n.pc \notin {"idle", "insertParty"}, n.u = q.u, n.p = q.p,
         n.pc \in InRun => q.u \in Watched,
         n.pc \in {"countForEnd", "writeEnd"} \/ q.pc \notin {"countForEnd", "writeEnd"}
  PROVE  Shape(n)
<1>1. n # NoRequest
  BY NoRequestIs
<1> QED BY <1>1 DEF Shape

Moved(q, l) == [q EXCEPT !.pc = l]
LEMMA MovedIs ==
  ASSUME NEW q \in Request, Shape(q), q.pc \notin {"idle", "insertParty"},
         NEW l \in Labels \ {"idle", "insertParty"},
         l \in InRun => q.u \in Watched,
         l \in {"countForEnd", "writeEnd"} \/ q.pc \notin {"countForEnd", "writeEnd"}
  PROVE  /\ Moved(q, l) \in Request /\ Shape(Moved(q, l))
         /\ Moved(q, l).pc = l /\ Moved(q, l).u = q.u /\ Moved(q, l).p = q.p /\ Moved(q, l).t = q.t
         /\ Moved(q, l).seen = q.seen /\ Moved(q, l).held = q.held /\ Moved(q, l).who = q.who
         /\ Moved(q, l).count = q.count
<1>1. /\ Moved(q, l) \in Request
      /\ Moved(q, l).pc = l /\ Moved(q, l).u = q.u /\ Moved(q, l).p = q.p /\ Moved(q, l).t = q.t
      /\ Moved(q, l).seen = q.seen /\ Moved(q, l).held = q.held /\ Moved(q, l).who = q.who
      /\ Moved(q, l).count = q.count
  BY DEF Moved, Request
<1> HIDE DEF Moved
<1>2. Shape(Moved(q, l))
  BY <1>1, Onward
<1> QED BY <1>1, <1>2

(* Proceed and Done are such turns.                                        *)
LEMMA ProceedTurns ==
  ASSUME PartyTypeOK, NEW r \in Requests, NEW l
  PROVE  /\ Proceed(r, l) => Turned(r, Moved(req[r], l))
         /\ Done(r) => Turned(r, NoRequest)
BY DEF Proceed, Done, Turned, Moved

(* What a turn leaves.                                                     *)
LEMMA TurnedIs ==
  ASSUME PartyTypeOK, NEW r \in Requests, NEW n \in Request, Turned(r, n)
  PROVE  /\ req' \in [Requests -> Request] /\ req'[r] = n
         /\ exposed' \subseteq Users \union Parties /\ Others(r)
BY DEF Turned, Others, PartyTypeOK

(* Status, leader and rows of p are as before.                             *)
SameBooks(p) == status'[p] = status[p] /\ leader'[p] = leader[p] /\ members'[p] = members[p]
LEMMA BooksKept ==
  ASSUME NEW p, SameBooks(p)
  PROVE  /\ Live(p)' = Live(p) /\ Led(p)' = Led(p) /\ Room(p)' = Room(p) /\ Sound(p)' = Sound(p)
         /\ MembersOf(p)' = MembersOf(p) /\ LeadersOf(p)' = LeadersOf(p) /\ RowsOf(p)' = RowsOf(p)
<1>1. MembersOf(p)' = MembersOf(p) /\ LeadersOf(p)' = LeadersOf(p) /\ RowsOf(p)' = RowsOf(p)
  BY DEF SameBooks, MembersOf, LeadersOf, RowsOf
<1>2. Live(p)' = Live(p) /\ Room(p)' = Room(p)
  BY DEF SameBooks, Live, Room
<1>3. Led(p)' = Led(p)
  BY <1>1 DEF SameBooks, Led
<1> QED BY <1>1, <1>2, <1>3 DEF SameBooks, Sound

(* Participants and list of p are as before.                               *)
SameRun(p) == part'[p] = part[p] /\ listed'[p] = listed[p]
LEMMA RunKept ==
  ASSUME NEW p, SameRun(p)
  PROVE  /\ Told(p)' = Told(p) /\ Absent(p)' = Absent(p)
         /\ \A u, L : Agree(p, u, L)' = Agree(p, u, L)
BY DEF SameRun, Told, Absent, Agree

(* At a plain label it is enough that the party is live and sound.         *)
LEMMA PlainHandled ==
  ASSUME NEW p, NEW r, Sound(p)', Live(p)',
         req'[r].pc \in Plain \ {"selectHeir", "promoteHeir", "countMembers", "insertMember"}
  PROVE  Handled(p, req[r])'
BY DEF Handled, Plain, InRun

(* And at most labels that the list is right.                              *)
LEMMA PlainFollowing ==
  ASSUME NEW p, NEW r, Told(p)',
         req'[r].pc \notin Telling \union
           {"resetReady", "storeProfiles", "takeRun", "takeParty", "addParticipant"}
  PROVE  Following(p, req[r])'
BY DEF Following, Telling

(* A step that leaves the rows and changes what is said of p only.         *)
LEMMA Settling ==
  ASSUME PartyInv, NEW r \in Requests, req[r].pc \notin {"idle", "insertParty"},
         NEW p \in Parties, req[r].p = p, NEW n \in Request, Shape(n), Turned(r, n), Goes(req[r], n),
         status' \in [Parties -> PartyStatus], leader' \in [Parties -> Users \union {NoUser}],
         members' = members, runs' \in [Parties -> Nat],
         part' \in [Parties -> [Watched -> {"none", "in", "left"}]],
         listed' \in [Parties -> SUBSET Watched],
         \A o \in Parties \ {p} : Untouched(o),
         status'[p] # "NONE",
         p \notin exposed => Fitted(p, r)
  PROVE  Advance(r, p)
<1>1. p \in Parties /\ RowsOf(p)
  BY AtWork
<1>2. req' \in [Requests -> Request] /\ req'[r] = n /\ exposed' \subseteq Users \union Parties /\ Others(r)
  BY TurnedIs DEF PartyInv
<1>3. PartyTypeOK'
  BY <1>2 DEF PartyInv, PartyTypeOK
<1>4. RowsOf(p)' /\ MembersOf(p)' = MembersOf(p)
  BY <1>1 DEF RowsOf, MembersOf
<1> QED BY <1>2, <1>3, <1>4 DEF Advance

(* A step that changes nothing but the request itself.                     *)
LEMMA Reading ==
  ASSUME PartyInv, NEW r \in Requests, req[r].pc \notin {"idle", "insertParty"},
         NEW p \in Parties, req[r].p = p, NEW n \in Request, Shape(n), Turned(r, n), Goes(req[r], n),
         UNCHANGED <<party, members, run>>,
         p \notin exposed =>
           (n.p # p => Sound(p) /\ Told(p)),
         p \notin exposed =>
           (n.p = p => Handled(p, req[r])' /\ Following(p, req[r])')
  PROVE  Advance(r, p)
<1>1. p \in Parties /\ status[p] # "NONE" /\ (p \notin exposed => Len(members[p]) <= MaxMembers)
  BY AtWork
<1>2. /\ status' \in [Parties -> PartyStatus] /\ leader' \in [Parties -> Users \union {NoUser}]
      /\ members' = members /\ runs' \in [Parties -> Nat]
      /\ part' \in [Parties -> [Watched -> {"none", "in", "left"}]]
      /\ listed' \in [Parties -> SUBSET Watched]
  BY DEF PartyInv, PartyTypeOK, party, run
<1>3. \A o \in Parties : Untouched(o)
  BY DEF Untouched, party, run
<1>4. req'[r] = n
  BY TurnedIs DEF PartyInv
<1>5. SameBooks(p) /\ SameRun(p)
  BY <1>1, <1>3 DEF Untouched, SameBooks, SameRun
<1>6. Sound(p)' = Sound(p) /\ Told(p)' = Told(p)
  BY <1>5, BooksKept, RunKept
<1>7. ASSUME p \notin exposed PROVE Fitted(p, r)
  BY <1>1, <1>4, <1>6, <1>7 DEF Fitted, party, run
<1>8. status'[p] # "NONE"
  BY <1>1 DEF party
<1> QED BY <1>2, <1>3, <1>7, <1>8, Settling

(* A request that is done where its party is at rest.                      *)
LEMMA Ending ==
  ASSUME PartyInv, NEW r \in Requests, req[r].pc \notin {"idle", "insertParty"},
         NEW p \in Parties, req[r].p = p, Done(r),
         UNCHANGED <<party, members, run>>,
         p \notin exposed => Sound(p) /\ Told(p)
  PROVE  Advance(r, p)
<1>1. Turned(r, NoRequest)
  BY ProceedTurns DEF PartyInv
<1>2. Goes(req[r], NoRequest)
  BY NoRequestIs DEF Goes, Beginning
<1>3. NoRequest.p # p
  BY AtWork, NoRequestIs, MembershipAssumption
<1> QED BY <1>1, <1>2, <1>3, NoRequestIs, Reading

(* A request that only goes on, about a party that is sound and told of.   *)
LEMMA Passing ==
  ASSUME PartyInv, NEW r \in Requests, req[r].pc \notin {"idle", "insertParty"},
         NEW p \in Parties, req[r].p = p, NEW n \in Request, Shape(n), Turned(r, n), Goes(req[r], n), n.p = p,
         UNCHANGED <<party, members, run>>,
         n.pc \in Plain \ ({"selectHeir", "promoteHeir", "countMembers", "insertMember",
                            "resetReady", "storeProfiles", "takeRun", "takeParty",
                            "addParticipant"} \union Telling),
         p \notin exposed => Sound(p) /\ Live(p) /\ Told(p)
  PROVE  Advance(r, p)
<1>1. req'[r] = n /\ p \in Parties
  BY TurnedIs, AtWork DEF PartyInv
<1>2. SameBooks(p) /\ SameRun(p)
  BY DEF SameBooks, SameRun, party, run
<1>3. ASSUME p \notin exposed PROVE Handled(p, req[r])' /\ Following(p, req[r])'
  <2>1. Sound(p)' /\ Live(p)' /\ Told(p)'
    BY <1>2, <1>3, BooksKept, RunKept
  <2>2. Handled(p, req[r])'
    BY <1>1, <2>1, PlainHandled
  <2>3. Following(p, req[r])'
    BY <1>1, <2>1, PlainFollowing
  <2> QED BY <2>2, <2>3
<1> QED BY <1>3, Reading

(* What a request knows at a plain label.                                  *)
LEMMA PlainIs ==
  ASSUME PartyInv, NEW r \in Requests, req[r].pc \in Plain \union {"readParty"},
         NEW p \in Parties, req[r].p = p, p \notin exposed
  PROVE  /\ Sound(p) /\ (req[r].pc # "readParty" => Live(p))
         /\ req[r].pc \notin Telling => Told(p)
<1>1. req[r].pc \notin {"idle", "insertParty"}
  BY DEF Plain, InRun
<1> QED BY <1>1, AtWork DEF Handled, Following

(* A step that changes the run of a party and leaves its books alone.      *)
LEMMA Retelling ==
  ASSUME PartyInv, NEW r \in Requests, req[r].pc \in Plain,
         NEW p \in Parties, req[r].p = p,
         NEW n \in Request, Shape(n), Turned(r, n), Goes(req[r], n),
         UNCHANGED <<party, members>>, runs' \in [Parties -> Nat],
         part' \in [Parties -> [Watched -> {"none", "in", "left"}]],
         listed' \in [Parties -> SUBSET Watched],
         \A o \in Parties \ {p} : runs'[o] = runs[o] /\ part'[o] = part[o] /\ listed'[o] = listed[o],
         n.p = p => n.pc \in Plain \ {"selectHeir", "promoteHeir", "countMembers", "insertMember"},
         p \notin exposed => (n.p # p => Told(p)'),
         p \notin exposed => (n.p = p => Following(p, req[r])')
  PROVE  Advance(r, p)
<1>0. req[r].pc \notin {"idle", "insertParty"}
  BY DEF Plain, InRun
<1>1. status[p] # "NONE" /\ (p \notin exposed => Len(members[p]) <= MaxMembers)
  BY <1>0, AtWork
<1>2. /\ status' \in [Parties -> PartyStatus] /\ leader' \in [Parties -> Users \union {NoUser}]
      /\ members' = members
  BY DEF PartyInv, PartyTypeOK, party
<1>3. \A o \in Parties \ {p} : Untouched(o)
  BY DEF Untouched, party
<1>4. req'[r] = n
  BY TurnedIs DEF PartyInv
<1>5. SameBooks(p)
  BY DEF SameBooks, party
<1>6. ASSUME p \notin exposed PROVE Fitted(p, r)
  <2>1. Sound(p)' /\ Live(p)'
    BY <1>5, <1>6, PlainIs, BooksKept DEF Plain, InRun
  <2>2. n.p = p => Handled(p, req[r])'
    BY <1>4, <2>1, PlainHandled
  <2> QED BY <1>1, <1>2, <1>4, <1>6, <2>1, <2>2 DEF Fitted
<1>7. status'[p] # "NONE"
  BY <1>1 DEF party
<1> QED BY <1>0, <1>2, <1>3, <1>6, <1>7, Settling

(* A step that changes status or leader and leaves rows and run alone.     *)
LEMMA Restating ==
  ASSUME PartyInv, NEW r \in Requests, req[r].pc \notin {"idle", "insertParty"} \union Telling,
         NEW p \in Parties, req[r].p = p,
         NEW n \in Request, Shape(n), Turned(r, n), Goes(req[r], n),
         UNCHANGED <<members, run>>,
         status' \in [Parties -> PartyStatus], leader' \in [Parties -> Users \union {NoUser}],
         \A o \in Parties \ {p} : status'[o] = status[o] /\ leader'[o] = leader[o],
         status'[p] # "NONE",
         n.p = p => n.pc \notin Telling \union
                      {"resetReady", "storeProfiles", "takeRun", "takeParty", "addParticipant"},
         p \notin exposed => (n.p # p => Sound(p)'),
         p \notin exposed => (n.p = p => Handled(p, req[r])')
  PROVE  Advance(r, p)
<1>1. p \notin exposed => Len(members[p]) <= MaxMembers /\ Told(p)
  BY AtWork DEF Following
<1>2. /\ members' = members /\ runs' \in [Parties -> Nat]
      /\ part' \in [Parties -> [Watched -> {"none", "in", "left"}]]
      /\ listed' \in [Parties -> SUBSET Watched]
  BY DEF PartyInv, PartyTypeOK, run
<1>3. \A o \in Parties \ {p} : Untouched(o)
  BY DEF Untouched, run
<1>4. req'[r] = n
  BY TurnedIs DEF PartyInv
<1>5. SameRun(p)
  BY DEF SameRun, run
<1>6. ASSUME p \notin exposed PROVE Fitted(p, r)
  <2>1. Told(p)'
    BY <1>1, <1>5, <1>6, RunKept
  <2>2. n.p = p => Following(p, req[r])'
    BY <1>4, <2>1, PlainFollowing
  <2> QED BY <1>1, <1>2, <1>4, <1>6, <2>1, <2>2 DEF Fitted
<1> QED BY <1>2, <1>3, <1>6, Settling

(* A request that is done where it has changed something.                  *)
LEMMA DoneIs ==
  ASSUME PartyInv, NEW r \in Requests, NEW p \in Parties, req[r].p = p, Done(r)
  PROVE  /\ Turned(r, NoRequest) /\ Goes(req[r], NoRequest) /\ NoRequest.p # p
         /\ NoRequest \in Request /\ Shape(NoRequest)
<1>1. Turned(r, NoRequest)
  BY ProceedTurns DEF PartyInv
<1>2. Goes(req[r], NoRequest)
  BY NoRequestIs DEF Goes, Beginning
<1> QED BY <1>1, <1>2, NoRequestIs, MembershipAssumption

(* A request that goes on to another label.                                *)
LEMMA GoesOn ==
  ASSUME PartyInv, NEW r \in Requests, req[r].pc \notin {"idle", "insertParty"},
         NEW p \in Parties, req[r].p = p,
         NEW l \in Labels \ ({"idle"} \union Beginning), Proceed(r, l),
         l \in InRun => req[r].u \in Watched,
         l \in {"countForEnd", "writeEnd"} \/ req[r].pc \notin {"countForEnd", "writeEnd"}
  PROVE  LET n == Moved(req[r], l) IN
         /\ n \in Request /\ Shape(n) /\ Turned(r, n) /\ Goes(req[r], n)
         /\ n.pc = l /\ n.u = req[r].u /\ n.p = p /\ n.t = req[r].t
         /\ n.seen = req[r].seen /\ n.held = req[r].held /\ n.who = req[r].who
         /\ n.count = req[r].count
<1>1. req[r] \in Request /\ Shape(req[r])
  BY AtWork
<1> DEFINE n == Moved(req[r], l)
<1>2. l \in Labels \ {"idle", "insertParty"}
  BY DEF Beginning
<1>3. /\ n \in Request /\ Shape(n) /\ n.pc = l /\ n.u = req[r].u /\ n.p = p /\ n.t = req[r].t
      /\ n.seen = req[r].seen /\ n.held = req[r].held /\ n.who = req[r].who
      /\ n.count = req[r].count
  BY <1>1, <1>2, MovedIs
<1>4. Turned(r, n)
  BY ProceedTurns DEF PartyInv
<1> HIDE DEF n
<1>5. Goes(req[r], n)
  BY <1>3 DEF Goes, Beginning
<1> USE DEF n
<1> QED BY <1>3, <1>4, <1>5

-----------------------------------------------------------------------------
(* createParty and joinParty: one lemma per statement.                     *)

(* Who joins reads a status; from a DISBANDED or FULL party they leave.    *)
LEMMA ReadPartyAdvances ==
  ASSUME PartyInv, NEW r \in Requests, NEW p \in Parties, req[r].p = p, ReadParty(r)
  PROVE  Advance(r, p)
<1>1. req[r].pc = "readParty" /\ UNCHANGED <<party, members, run>>
  BY DEF ReadParty
<1>2. p \notin exposed => Sound(p) /\ Told(p)
  BY <1>1, PlainIs DEF Telling
<1>3. CASE Done(r)
  BY <1>1, <1>2, <1>3, Ending
<1>4. CASE /\ status[p] \notin {"DISBANDED", "FULL"}
           /\ req' = [req EXCEPT ![r].pc = "countMembers", ![r].seen = status[p]]
           /\ UNCHANGED exposed
  <2> DEFINE n == [req[r] EXCEPT !.pc = "countMembers", !.seen = status[p]]
  <2>1. req[r] \in Request /\ Shape(req[r]) /\ status[p] \in PartyStatus \ {"NONE"}
    BY <1>1, AtWork
  <2>2. /\ n \in Request /\ n.pc = "countMembers" /\ n.u = req[r].u /\ n.p = p
    BY <2>1 DEF Request, Labels
  <2>3. Turned(r, n)
    BY <1>4 DEF Turned
  <2> HIDE DEF n
  <2>4. Shape(n)
    BY <1>1, <2>1, <2>2, Onward DEF InRun
  <2>5. Goes(req[r], n)
    BY <1>1, <2>2 DEF Goes
  <2>6. req'[r] = n
    BY <2>2, <2>3, TurnedIs DEF PartyInv
  <2>7. SameBooks(p) /\ SameRun(p)
    BY <1>1 DEF SameBooks, SameRun, party, run
  <2>8. status[p] \in {"OPEN", "IN_DUNGEON"}
    BY <1>4, <2>1 DEF PartyStatus
  <2>9. ASSUME p \notin exposed PROVE Handled(p, req[r])' /\ Following(p, req[r])'
    <3>1. Sound(p)' /\ Live(p)' /\ Told(p)' /\ status'[p] # "FULL"
      BY <1>2, <2>7, <2>8, <2>9, BooksKept, RunKept DEF Live, SameBooks
    <3>2. Following(p, req[r])'
      BY <2>2, <2>6, <3>1, PlainFollowing DEF Telling
    <3> QED BY <2>2, <2>6, <3>1, <3>2 DEF Handled
  <2> QED BY <1>1, <2>2, <2>3, <2>4, <2>5, <2>9, Reading
<1> QED BY <1>1, <1>3, <1>4 DEF ReadParty

(* The members are counted.                                                *)
LEMMA CountMembersAdvances ==
  ASSUME PartyInv, NEW r \in Requests, NEW p \in Parties, req[r].p = p, CountMembers(r)
  PROVE  Advance(r, p)
<1> DEFINE m == Len(members[p])
           n == [req[r] EXCEPT !.pc = IF m >= MaxMembers THEN "markFull" ELSE "insertMember",
                               !.count = m]
<1>1. req[r].pc = "countMembers" /\ UNCHANGED <<party, members, run>>
  BY DEF CountMembers
<1>2. /\ req[r] \in Request /\ Shape(req[r]) /\ m \in Nat
      /\ p \notin exposed => m <= MaxMembers /\ Handled(p, req[r])
  BY <1>1, AtWork
<1>3. /\ n \in Request /\ n.u = req[r].u /\ n.p = p /\ n.count = m
      /\ n.pc = IF m >= MaxMembers THEN "markFull" ELSE "insertMember"
  BY <1>2 DEF Request, Labels
<1>4. Turned(r, n)
  BY DEF CountMembers, Turned
<1> HIDE DEF n
<1>5. Shape(n)
  BY <1>1, <1>2, <1>3, Onward DEF InRun
<1>6. Goes(req[r], n)
  BY <1>1, <1>3 DEF Goes
<1>7. req'[r] = n
  BY <1>3, <1>4, TurnedIs DEF PartyInv
<1>8. SameBooks(p) /\ SameRun(p)
  BY <1>1 DEF SameBooks, SameRun, party, run
<1>9. ASSUME p \notin exposed PROVE Handled(p, req[r])' /\ Following(p, req[r])'
  <2>1. Sound(p) /\ Live(p) /\ Told(p)
    BY <1>1, <1>9, PlainIs DEF Plain, Telling
  <2>2. Sound(p)' /\ Live(p)' /\ Told(p)' /\ Led(p)' /\ status'[p] # "FULL" /\ Len(members'[p]) = m
    <3>1. Led(p) /\ status[p] # "FULL"
      BY <1>1, <1>2, <1>9, <2>1 DEF Sound, Handled
    <3> QED BY <1>8, <2>1, <3>1, BooksKept, RunKept DEF SameBooks
  <2>3. Following(p, req[r])'
    BY <1>3, <1>7, <2>2, PlainFollowing DEF Telling
  <2>4. MaxMembers \in Nat /\ m <= MaxMembers
    BY <1>2, <1>9, MembershipAssumption
  <2>5. CASE m >= MaxMembers
    BY <1>3, <1>7, <2>2, <2>3, <2>4, <2>5, <1>2 DEF Handled, Plain, InRun
  <2>6. CASE ~ (m >= MaxMembers)
    BY <1>3, <1>7, <2>2, <2>3, <2>4, <2>6, <1>2 DEF Handled
  <2> QED BY <2>5, <2>6
<1> QED BY <1>1, <1>3, <1>4, <1>5, <1>6, <1>9, Reading

(* A joined member takes part in the run of a party in its dungeon.        *)
LEMMA JoinedIs ==
  ASSUME PartyInv, NEW r \in Requests, NEW p \in Parties, req[r].p = p,
         req[r].pc \in {"insertMember", "markFull"}, Joined(r)
  PROVE  \E n \in Request :
           /\ Shape(n) /\ Turned(r, n) /\ Goes(req[r], n)
           /\ (n = NoRequest /\ n.p # p) \/ (n.p = p /\ n.pc = "readParticipant")
<1>1. CASE Done(r)
  <2>1. /\ NoRequest \in Request /\ Shape(NoRequest) /\ Turned(r, NoRequest)
        /\ Goes(req[r], NoRequest) /\ NoRequest.p # p
    BY <1>1, DoneIs
  <2> QED BY <2>1
<1>2. CASE req[r].u \in Watched /\ Proceed(r, "readParticipant")
  <2>1. "readParticipant" \in Labels \ ({"idle"} \union Beginning)
    BY DEF Labels, Beginning
  <2> QED BY <1>2, <2>1, GoesOn
<1> QED BY <1>1, <1>2 DEF Joined

(* The last place is taken: the party is marked FULL.                      *)
LEMMA MarkFullAdvances ==
  ASSUME PartyInv, NEW r \in Requests, NEW p \in Parties, req[r].p = p, MarkFull(r)
  PROVE  Advance(r, p)
<1>1. /\ req[r].pc = "markFull" /\ status' = [status EXCEPT ![p] = "FULL"]
      /\ UNCHANGED <<leader, members, run>> /\ (Joined(r) \/ Done(r))
  BY DEF MarkFull
<1>2. PICK n \in Request :
        /\ Shape(n) /\ Turned(r, n) /\ Goes(req[r], n)
        /\ (n = NoRequest /\ n.p # p) \/ (n.p = p /\ n.pc = "readParticipant")
  <2>1. CASE Joined(r)
    BY <1>1, <2>1, JoinedIs
  <2>2. CASE Done(r)
    <3>1. /\ NoRequest \in Request /\ Shape(NoRequest) /\ Turned(r, NoRequest)
          /\ Goes(req[r], NoRequest) /\ NoRequest.p # p
      BY <2>2, DoneIs
    <3> QED BY <3>1
  <2> QED BY <1>1, <2>1, <2>2
<1>3. req'[r] = n
  BY <1>2, TurnedIs DEF PartyInv
<1>4. /\ status' \in [Parties -> PartyStatus] /\ leader' \in [Parties -> Users \union {NoUser}]
      /\ status'[p] = "FULL"
      /\ \A o \in Parties \ {p} : status'[o] = status[o] /\ leader'[o] = leader[o]
  BY <1>1 DEF PartyInv, PartyTypeOK, PartyStatus
<1>5. ASSUME p \notin exposed PROVE Sound(p)' /\ Live(p)'
  <2>1. Led(p) /\ Len(members[p]) = MaxMembers
    BY <1>1, <1>5, AtWork DEF Handled
  <2>2. Led(p)'
    BY <1>1, <2>1 DEF Led, LeadersOf
  <2> QED BY <1>1, <1>4, <2>1, <2>2 DEF Sound, Live, Room
<1>6. ASSUME p \notin exposed, n.p = p PROVE Handled(p, req[r])'
  BY <1>2, <1>3, <1>5, <1>6, PlainHandled, MembershipAssumption, NoRequestIs DEF Plain, InRun
<1>7. n.p = p => n.pc = "readParticipant"
  BY <1>2
<1> QED BY <1>1, <1>2, <1>4, <1>5, <1>6, <1>7, Restating DEF Telling

-----------------------------------------------------------------------------
(* leaveParty, kickMember, disbandParty.                                   *)

(* parties.leader_id follows the row of the heir.                          *)
LEMMA SetLeaderAdvances ==
  ASSUME PartyInv, NEW r \in Requests, NEW p \in Parties, req[r].p = p, SetLeader(r)
  PROVE  Advance(r, p)
<1> DEFINE n == [req[r] EXCEPT !.pc = "deleteRow", !.t = req[r].u]
<1>1. /\ req[r].pc = "setLeader" /\ leader' = [leader EXCEPT ![p] = req[r].t]
      /\ UNCHANGED <<status, members, run>> /\ exposed' = exposed
      /\ req' = [req EXCEPT ![r].pc = "deleteRow", ![r].t = req[r].u]
  BY DEF SetLeader
<1>2. /\ req[r] \in Request /\ Shape(req[r]) /\ status[p] # "NONE"
      /\ p \notin exposed => Handled(p, req[r])
  BY <1>1, AtWork
<1>3. /\ n \in Request /\ n.u = req[r].u /\ n.p = p /\ n.pc = "deleteRow" /\ n.t = req[r].u
      /\ n.held = req[r].held /\ n.seen = req[r].seen
  BY <1>2 DEF Request, Labels
<1>4. Turned(r, n)
  BY <1>1 DEF Turned
<1> HIDE DEF n
<1>5. Shape(n)
  BY <1>1, <1>2, <1>3, Onward DEF InRun
<1>6. Goes(req[r], n)
  BY <1>1, <1>3 DEF Goes, Beginning
<1>7. req'[r] = n
  BY <1>3, <1>4, TurnedIs DEF PartyInv
<1>8. /\ status' \in [Parties -> PartyStatus] /\ leader' \in [Parties -> Users \union {NoUser}]
      /\ status'[p] # "NONE" /\ leader'[p] = req[r].t
      /\ \A o \in Parties \ {p} : status'[o] = status[o] /\ leader'[o] = leader[o]
  BY <1>1, <1>2, RequestIs DEF PartyInv, PartyTypeOK
<1>9. ASSUME p \notin exposed PROVE Handled(p, req[r])'
  <2>1. /\ Live(p) /\ Room(p) /\ req[r].t # req[r].u /\ LeadersOf(p) = {req[r].u, req[r].t}
        /\ req[r].u \in MembersOf(p) \intersect req[r].held /\ req[r].seen = status[p]
    BY <1>1, <1>2, <1>9 DEF Handled
  <2>2. /\ Live(p)' /\ Room(p)' /\ MembersOf(p)' = MembersOf(p) /\ LeadersOf(p)' = LeadersOf(p)
    BY <1>1, <2>1 DEF Live, Room, MembersOf, LeadersOf
  <2>3. LeadersOf(p) \ {req[r].u} = {req[r].t}
    BY <2>1
  <2>4. /\ req'[r].t # leader'[p] /\ LeadersOf(p)' \ {req'[r].t} = {leader'[p]}
        /\ req'[r].t \in MembersOf(p)' \intersect req'[r].held /\ req'[r].seen = status'[p]
        /\ req'[r].pc = "deleteRow"
    BY <1>1, <1>3, <1>7, <1>8, <2>1, <2>2, <2>3
  <2> QED BY <2>2, <2>4 DEF Handled, Plain, InRun
<1> QED BY <1>1, <1>3, <1>4, <1>5, <1>6, <1>8, <1>9, Restating DEF Telling

(* A party that was full is open again.                                    *)
LEMMA ReopenAdvances ==
  ASSUME PartyInv, NEW r \in Requests, NEW p \in Parties, req[r].p = p, Reopen(r)
  PROVE  Advance(r, p)
<1>1. /\ req[r].pc = "reopen" /\ status' = [status EXCEPT ![p] = "OPEN"]
      /\ UNCHANGED <<leader, members, run>> /\ Done(r)
  BY DEF Reopen
<1>4. /\ status' \in [Parties -> PartyStatus] /\ leader' \in [Parties -> Users \union {NoUser}]
      /\ status'[p] = "OPEN"
      /\ \A o \in Parties \ {p} : status'[o] = status[o] /\ leader'[o] = leader[o]
  BY <1>1 DEF PartyInv, PartyTypeOK, PartyStatus
<1>5. ASSUME p \notin exposed PROVE Sound(p)'
  <2>1. Led(p) /\ Len(members[p]) < MaxMembers
    BY <1>1, <1>5, AtWork DEF Handled
  <2>2. Led(p)'
    BY <1>1, <2>1 DEF Led, LeadersOf
  <2> QED BY <1>1, <1>4, <2>1, <2>2 DEF Sound, Live, Room
<1> QED BY <1>1, <1>4, <1>5, DoneIs, Restating DEF Telling

(* A party without rows is disbanded.                                      *)
LEMMA MarkDisbandedAdvances ==
  ASSUME PartyInv, NEW r \in Requests, NEW p \in Parties, req[r].p = p, MarkDisbanded(r)
  PROVE  Advance(r, p)
<1>1. /\ req[r].pc = "markDisbanded" /\ status' = [status EXCEPT ![p] = "DISBANDED"]
      /\ UNCHANGED <<leader, members, run>> /\ Done(r)
  BY DEF MarkDisbanded
<1>4. /\ status' \in [Parties -> PartyStatus] /\ leader' \in [Parties -> Users \union {NoUser}]
      /\ status'[p] = "DISBANDED"
      /\ \A o \in Parties \ {p} : status'[o] = status[o] /\ leader'[o] = leader[o]
  BY <1>1 DEF PartyInv, PartyTypeOK, PartyStatus
<1>5. ASSUME p \notin exposed PROVE Sound(p)'
  <2>1. members[p] = <<>>
    BY <1>1, <1>5, AtWork DEF Handled
  <2> QED BY <1>1, <1>4, <2>1 DEF Sound, Live, Room
<1> QED BY <1>1, <1>4, <1>5, DoneIs, Restating DEF Telling

-----------------------------------------------------------------------------
(* The dungeon: start and end.                                             *)

(* A party at rest enters its dungeon.                                     *)
LEMMA EnterDungeonAdvances ==
  ASSUME PartyInv, NEW r \in Requests, NEW p \in Parties, req[r].p = p, EnterDungeon(r)
  PROVE  Advance(r, p)
<1>1. /\ req[r].pc = "enterDungeon" /\ status' = [status EXCEPT ![p] = "IN_DUNGEON"]
      /\ UNCHANGED <<leader, members, run>> /\ Proceed(r, "createRun")
  BY DEF EnterDungeon
<1> DEFINE n == Moved(req[r], "createRun")
<1>2. /\ n \in Request /\ Shape(n) /\ Turned(r, n) /\ Goes(req[r], n) /\ n.pc = "createRun" /\ n.p = p
  BY <1>1, GoesOn DEF Labels, Beginning, InRun
<1> HIDE DEF n
<1>3. req'[r] = n
  BY <1>2, TurnedIs DEF PartyInv
<1>4. /\ status' \in [Parties -> PartyStatus] /\ leader' \in [Parties -> Users \union {NoUser}]
      /\ status'[p] = "IN_DUNGEON"
      /\ \A o \in Parties \ {p} : status'[o] = status[o] /\ leader'[o] = leader[o]
  BY <1>1 DEF PartyInv, PartyTypeOK, PartyStatus
<1>5. ASSUME p \notin exposed PROVE Sound(p)' /\ Live(p)'
  <2>1. Led(p)
    BY <1>1, <1>5, PlainIs DEF Plain, Sound
  <2>2. Led(p)'
    BY <1>1, <2>1 DEF Led, LeadersOf
  <2> QED BY <1>4, <2>2 DEF Sound, Live, Room
<1>6. ASSUME p \notin exposed PROVE Handled(p, req[r])'
  BY <1>2, <1>3, <1>5, <1>6, PlainHandled DEF Plain
<1> QED BY <1>1, <1>2, <1>4, <1>6, Restating DEF Telling

(* After the run the party is what its number of members says.             *)
LEMMA WriteEndAdvances ==
  ASSUME PartyInv, NEW r \in Requests, NEW p \in Parties, req[r].p = p, WriteEnd(r)
  PROVE  Advance(r, p)
<1>1. /\ req[r].pc = "writeEnd"
      /\ status' = [status EXCEPT ![p] = IF req[r].count >= MaxMembers THEN "FULL" ELSE "OPEN"]
      /\ UNCHANGED <<leader, members, run>> /\ Done(r)
  BY DEF WriteEnd
<1>4. /\ status' \in [Parties -> PartyStatus] /\ leader' \in [Parties -> Users \union {NoUser}]
      /\ status'[p] = IF req[r].count >= MaxMembers THEN "FULL" ELSE "OPEN"
      /\ \A o \in Parties \ {p} : status'[o] = status[o] /\ leader'[o] = leader[o]
  BY <1>1 DEF PartyInv, PartyTypeOK, PartyStatus
<1>5. ASSUME p \notin exposed PROVE Sound(p)'
  <2>1. Led(p) /\ req[r].count = Len(members[p]) /\ Len(members[p]) <= MaxMembers /\ members[p] \in Seq(Row)
    BY <1>1, <1>5, AtWork DEF Handled
  <2>2. Led(p)'
    BY <1>1, <2>1 DEF Led, LeadersOf
  <2>3. MaxMembers \in Nat /\ Len(members[p]) \in Nat
    BY <2>1, MembershipAssumption
  <2> QED BY <1>1, <1>4, <2>1, <2>2, <2>3 DEF Sound, Live, Room
<1> QED BY <1>1, <1>4, <1>5, DoneIs, Restating DEF Telling

(* The members are counted for the end of the run.                         *)
LEMMA CountForEndAdvances ==
  ASSUME PartyInv, NEW r \in Requests, NEW p \in Parties, req[r].p = p, CountForEnd(r)
  PROVE  Advance(r, p)
<1> DEFINE n == [req[r] EXCEPT !.pc = "writeEnd", !.count = Len(members[p])]
<1>1. req[r].pc = "countForEnd" /\ UNCHANGED <<party, members, run>>
  BY DEF CountForEnd
<1>2. req[r] \in Request /\ Shape(req[r]) /\ Len(members[p]) \in Nat
  BY <1>1, AtWork
<1>3. n \in Request /\ n.u = req[r].u /\ n.p = p /\ n.count = Len(members[p]) /\ n.pc = "writeEnd"
  BY <1>2 DEF Request, Labels
<1>4. Turned(r, n)
  BY DEF CountForEnd, Turned
<1> HIDE DEF n
<1>5. Shape(n)
  BY <1>1, <1>2, <1>3, Onward DEF InRun
<1>6. Goes(req[r], n)
  BY <1>1, <1>3 DEF Goes, Beginning
<1>7. req'[r] = n
  BY <1>3, <1>4, TurnedIs DEF PartyInv
<1>8. SameBooks(p) /\ SameRun(p)
  BY <1>1 DEF SameBooks, SameRun, party, run
<1>9. ASSUME p \notin exposed PROVE Handled(p, req[r])' /\ Following(p, req[r])'
  <2>1. Sound(p) /\ Live(p) /\ Told(p)
    BY <1>1, <1>9, PlainIs DEF Plain, Telling
  <2>2. Live(p)' /\ Told(p)' /\ Led(p)' /\ Len(members'[p]) = Len(members[p])
    BY <1>8, <2>1, BooksKept, RunKept DEF SameBooks, Sound
  <2>3. Following(p, req[r])'
    BY <1>3, <1>7, <2>2, PlainFollowing DEF Telling
  <2> QED BY <1>3, <1>7, <2>2, <2>3 DEF Handled, Plain, InRun
<1> QED BY <1>1, <1>3, <1>4, <1>5, <1>6, <1>9, Reading

(* A run begins or ends with no participants and none listed.              *)
LEMMA RunIsFresh ==
  ASSUME PartyTypeOK, NEW p \in Parties, NewRun(p) \/ (runs[p] > 0 /\ EndRun(p))
  PROVE  /\ runs' \in [Parties -> Nat]
         /\ part' \in [Parties -> [Watched -> {"none", "in", "left"}]]
         /\ listed' \in [Parties -> SUBSET Watched]
         /\ \A o \in Parties \ {p} : runs'[o] = runs[o] /\ part'[o] = part[o] /\ listed'[o] = listed[o]
         /\ \A u \in Watched : part'[p][u] = "none"
         /\ Told(p)' /\ Absent(p)'
<1>1. /\ part' = [part EXCEPT ![p] = [u \in Watched |-> "none"]]
      /\ listed' = [listed EXCEPT ![p] = {}]
      /\ runs' = [runs EXCEPT ![p] = @ + 1] \/ (runs[p] > 0 /\ runs' = [runs EXCEPT ![p] = @ - 1])
  BY DEF NewRun, EndRun
<1>2. /\ part' \in [Parties -> [Watched -> {"none", "in", "left"}]]
      /\ listed' \in [Parties -> SUBSET Watched]
      /\ \A o \in Parties \ {p} : part'[o] = part[o] /\ listed'[o] = listed[o]
      /\ \A u \in Watched : part'[p][u] = "none"
  BY <1>1 DEF PartyTypeOK
<1>3. runs[p] \in Nat
  BY DEF PartyTypeOK
<1>4. runs' \in [Parties -> Nat] /\ \A o \in Parties \ {p} : runs'[o] = runs[o]
  <2>1. CASE runs' = [runs EXCEPT ![p] = @ + 1]
    <3>1. runs[p] + 1 \in Nat
      BY <1>3
    <3> QED BY <2>1, <3>1 DEF PartyTypeOK
  <2>2. CASE runs[p] > 0 /\ runs' = [runs EXCEPT ![p] = @ - 1]
    <3>1. runs[p] - 1 \in Nat
      BY <1>3, <2>2
    <3> QED BY <2>2, <3>1 DEF PartyTypeOK
  <2> QED BY <1>1, <2>1, <2>2
<1>5. Told(p)' /\ Absent(p)'
  BY <1>2 DEF Told, Agree, Absent
<1> QED BY <1>2, <1>4, <1>5

(* The lobby is read: all ready, or no start.                              *)
LEMMA ReadLobbyAdvances ==
  ASSUME PartyInv, NEW r \in Requests, NEW p \in Parties, req[r].p = p, ReadLobby(r)
  PROVE  Advance(r, p)
<1>1. req[r].pc = "readLobby" /\ UNCHANGED <<party, members, run>>
  BY DEF ReadLobby
<1>2. p \notin exposed => Sound(p) /\ Told(p) /\ Live(p)
  BY <1>1, PlainIs DEF Telling, Plain
<1>3. CASE Done(r)
  BY <1>1, <1>2, <1>3, Ending
<1>4. CASE /\ req' = [req EXCEPT ![r].pc = "enterDungeon", ![r].who = MembersOf(p) \intersect Watched]
           /\ UNCHANGED exposed
  <2> DEFINE n == [req[r] EXCEPT !.pc = "enterDungeon", !.who = MembersOf(p) \intersect Watched]
  <2>1. req[r] \in Request /\ Shape(req[r])
    BY <1>1, AtWork
  <2>2. n \in Request /\ n.pc = "enterDungeon" /\ n.u = req[r].u /\ n.p = p
    BY <2>1 DEF Request, Labels
  <2>3. Turned(r, n)
    BY <1>4 DEF Turned
  <2> HIDE DEF n
  <2>4. Shape(n)
    BY <1>1, <2>1, <2>2, Onward DEF InRun
  <2>5. Goes(req[r], n)
    BY <1>1, <2>2 DEF Goes, Beginning
  <2>6. n.pc \in Plain \ ({"selectHeir", "promoteHeir", "countMembers", "insertMember",
                          "resetReady", "storeProfiles", "takeRun", "takeParty",
                          "addParticipant"} \union Telling)
    BY <2>2 DEF Plain, Telling
  <2> QED BY <1>1, <1>2, <2>2, <2>3, <2>4, <2>5, <2>6, Passing
<1> QED BY <1>1, <1>3, <1>4 DEF ReadLobby

(* The run is created, or the start is taken back.                         *)
LEMMA CreateRunAdvances ==
  ASSUME PartyInv, NEW r \in Requests, NEW p \in Parties, req[r].p = p, CreateRun(r)
  PROVE  Advance(r, p)
<1>1. req[r].pc = "createRun" /\ UNCHANGED <<party, members>>
  BY DEF CreateRun
<1>2. p \notin exposed => Sound(p) /\ Told(p) /\ Live(p)
  BY <1>1, PlainIs DEF Telling, Plain
<1>3. CASE UNCHANGED run /\ Proceed(r, "countForEnd")
  <2> DEFINE n == Moved(req[r], "countForEnd")
  <2>1. n \in Request /\ Shape(n) /\ Turned(r, n) /\ Goes(req[r], n) /\ n.pc = "countForEnd" /\ n.p = p
    BY <1>1, <1>3, GoesOn DEF Labels, Beginning, InRun
  <2> HIDE DEF n
  <2>2. n.pc \in Plain \ ({"selectHeir", "promoteHeir", "countMembers", "insertMember",
                          "resetReady", "storeProfiles", "takeRun", "takeParty",
                          "addParticipant"} \union Telling)
    BY <2>1 DEF Plain, Telling
  <2>3. UNCHANGED <<party, members, run>>
    BY <1>1, <1>3
  <2> QED BY <1>1, <1>2, <2>1, <2>2, <2>3, Passing
<1>4. CASE NewRun(p) /\ Proceed(r, "resetReady")
  <2> DEFINE n == Moved(req[r], "resetReady")
  <2>1. n \in Request /\ Shape(n) /\ Turned(r, n) /\ Goes(req[r], n) /\ n.pc = "resetReady" /\ n.p = p
    BY <1>1, <1>4, GoesOn DEF Labels, Beginning, InRun
  <2> HIDE DEF n
  <2>2. req'[r] = n
    BY <2>1, TurnedIs DEF PartyInv
  <2>3. /\ runs' \in [Parties -> Nat]
        /\ part' \in [Parties -> [Watched -> {"none", "in", "left"}]]
        /\ listed' \in [Parties -> SUBSET Watched]
        /\ \A o \in Parties \ {p} : runs'[o] = runs[o] /\ part'[o] = part[o] /\ listed'[o] = listed[o]
        /\ Told(p)' /\ Absent(p)'
    BY <1>4, RunIsFresh DEF PartyInv
  <2>4. Following(p, req[r])'
    BY <2>1, <2>2, <2>3 DEF Following, Telling
  <2>5. n.pc \in Plain \ {"selectHeir", "promoteHeir", "countMembers", "insertMember"}
    BY <2>1 DEF Plain
  <2>6. req[r].pc \in Plain
    BY <1>1 DEF Plain
  <2> QED BY <1>1, <2>1, <2>3, <2>4, <2>5, <2>6, Retelling
<1> QED BY <1>1, <1>3, <1>4 DEF CreateRun

(* The profiles of all members are stored.                                 *)
LEMMA StoreProfilesAdvances ==
  ASSUME PartyInv, NEW r \in Requests, NEW p \in Parties, req[r].p = p, StoreProfiles(r)
  PROVE  Advance(r, p)
<1>1. /\ req[r].pc = "storeProfiles" /\ UNCHANGED <<party, members, runs, part>> /\ Done(r)
      /\ listed' = [listed EXCEPT ![p] = req[r].who]
  BY DEF StoreProfiles
<1>2. req[r].who \in SUBSET Watched
  BY <1>1, AtWork, RequestIs
<1>3. /\ runs' \in [Parties -> Nat]
      /\ part' \in [Parties -> [Watched -> {"none", "in", "left"}]]
      /\ listed' \in [Parties -> SUBSET Watched]
      /\ \A o \in Parties \ {p} : runs'[o] = runs[o] /\ part'[o] = part[o] /\ listed'[o] = listed[o]
  BY <1>1, <1>2 DEF PartyInv, PartyTypeOK
<1>4. ASSUME p \notin exposed PROVE Told(p)'
  <2>1. Absent(p)
    BY <1>1, <1>4, AtWork DEF Following
  <2> QED BY <1>1, <2>1 DEF Absent, Told, Agree
<1>5. req[r].pc \in Plain
  BY <1>1 DEF Plain
<1> QED BY <1>1, <1>3, <1>4, <1>5, DoneIs, Retelling

-----------------------------------------------------------------------------
(* The invitation into a running run.                                      *)

(* The run is given to the party.                                          *)
LEMMA TakeRunAdvances ==
  ASSUME PartyInv, NEW r \in Requests, NEW p \in Parties, req[r].p = p, TakeRun(r)
  PROVE  Advance(r, p)
<1>1. req[r].pc = "takeRun" /\ UNCHANGED <<party, members>>
  BY DEF TakeRun
<1>2. p \notin exposed => Sound(p) /\ Told(p) /\ Live(p)
  BY <1>1, PlainIs DEF Telling, Plain
<1>3. CASE UNCHANGED run /\ Done(r)
  BY <1>1, <1>2, <1>3, Ending
<1>4. CASE /\ NewRun(p) /\ UNCHANGED exposed
           /\ req' = [req EXCEPT ![r].pc = "takeParty", ![r].who = MembersOf(p) \intersect Watched]
  <2> DEFINE n == [req[r] EXCEPT !.pc = "takeParty", !.who = MembersOf(p) \intersect Watched]
  <2>1. /\ req[r] \in Request /\ Shape(req[r])
        /\ p \notin exposed => req[r].held = {}
    BY <1>1, AtWork DEF Following
  <2>2. n \in Request /\ n.pc = "takeParty" /\ n.u = req[r].u /\ n.p = p /\ n.held = req[r].held
    BY <2>1 DEF Request, Labels
  <2>3. Turned(r, n)
    BY <1>4 DEF Turned
  <2> HIDE DEF n
  <2>4. Shape(n)
    BY <1>1, <2>1, <2>2, Onward DEF InRun
  <2>5. Goes(req[r], n)
    BY <1>1, <2>2 DEF Goes, Beginning
  <2>6. req'[r] = n
    BY <2>2, <2>3, TurnedIs DEF PartyInv
  <2>7. /\ runs' \in [Parties -> Nat]
        /\ part' \in [Parties -> [Watched -> {"none", "in", "left"}]]
        /\ listed' \in [Parties -> SUBSET Watched]
        /\ \A o \in Parties \ {p} : runs'[o] = runs[o] /\ part'[o] = part[o] /\ listed'[o] = listed[o]
        /\ Told(p)' /\ Absent(p)'
    BY <1>4, RunIsFresh DEF PartyInv
  <2>8. ASSUME p \notin exposed PROVE Following(p, req[r])'
    BY <2>1, <2>2, <2>6, <2>7, <2>8 DEF Following, Telling
  <2>9. n.pc \in Plain \ {"selectHeir", "promoteHeir", "countMembers", "insertMember"}
    BY <2>2 DEF Plain
  <2>10. req[r].pc \in Plain
    BY <1>1 DEF Plain
  <2> QED BY <1>1, <2>2, <2>3, <2>4, <2>5, <2>7, <2>8, <2>9, <2>10, Retelling
<1> QED BY <1>1, <1>3, <1>4 DEF TakeRun

(* The party of the run is in its dungeon.                                 *)
LEMMA TakePartyAdvances ==
  ASSUME PartyInv, NEW r \in Requests, NEW p \in Parties, req[r].p = p, TakeParty(r)
  PROVE  Advance(r, p)
<1>1. /\ req[r].pc = "takeParty" /\ status' = [status EXCEPT ![p] = "IN_DUNGEON"]
      /\ UNCHANGED <<leader, members, run>> /\ Proceed(r, "insertParticipants")
  BY DEF TakeParty
<1> DEFINE n == Moved(req[r], "insertParticipants")
<1>2. /\ n \in Request /\ Shape(n) /\ Turned(r, n) /\ Goes(req[r], n)
      /\ n.pc = "insertParticipants" /\ n.p = p
  BY <1>1, GoesOn DEF Labels, Beginning, InRun
<1> HIDE DEF n
<1>3. req'[r] = n
  BY <1>2, TurnedIs DEF PartyInv
<1>4. /\ status' \in [Parties -> PartyStatus] /\ status'[p] = "IN_DUNGEON"
      /\ leader' \in [Parties -> Users \union {NoUser}] /\ members' = members
      /\ runs' \in [Parties -> Nat]
      /\ part' \in [Parties -> [Watched -> {"none", "in", "left"}]]
      /\ listed' \in [Parties -> SUBSET Watched]
      /\ \A o \in Parties \ {p} : Untouched(o)
  BY <1>1 DEF PartyInv, PartyTypeOK, PartyStatus, Untouched, run
<1>5. ASSUME p \notin exposed PROVE Fitted(p, r)
  <2>1. Led(p) /\ Absent(p) /\ Len(members[p]) <= MaxMembers
    BY <1>1, <1>5, PlainIs, AtWork DEF Plain, Sound, Following
  <2>2. Led(p)' /\ Absent(p)'
    BY <1>1, <2>1 DEF Led, LeadersOf, Absent, run
  <2>3. Sound(p)' /\ Live(p)'
    BY <1>4, <2>2 DEF Sound, Live, Room
  <2>4. Handled(p, req[r])'
    BY <1>2, <1>3, <2>3, PlainHandled DEF Plain
  <2>5. Following(p, req[r])'
    BY <1>2, <1>3, <2>2 DEF Following, Telling, Absent
  <2> QED BY <1>2, <1>3, <1>4, <2>1, <2>4, <2>5 DEF Fitted
<1> QED BY <1>1, <1>2, <1>4, <1>5, Settling

(* A member becomes a participant, or the list is written.                 *)
LEMMA InsertParticipantAdvances ==
  ASSUME PartyInv, NEW r \in Requests, NEW p \in Parties, req[r].p = p, InsertParticipant(r)
  PROVE  Advance(r, p)
<1>1. req[r].pc = "insertParticipants" /\ UNCHANGED <<party, members, runs>>
  BY DEF InsertParticipant
<1>2. /\ req[r] \in Request /\ Shape(req[r])
      /\ req[r].held \in SUBSET Users /\ req[r].who \in SUBSET Watched
  BY <1>1, AtWork, RequestIs
<1>3. /\ part[p] \in [Watched -> {"none", "in", "left"}] /\ runs \in [Parties -> Nat]
      /\ part \in [Parties -> [Watched -> {"none", "in", "left"}]]
      /\ listed \in [Parties -> SUBSET Watched]
  BY DEF PartyInv, PartyTypeOK
<1>4. ASSUME p \notin exposed, NEW v \in Watched
      PROVE  part[p][v] = "none" \/ (part[p][v] = "in" /\ v \in req[r].who \intersect req[r].held)
  BY <1>1, <1>4, AtWork DEF Following
<1>5. req[r].pc \in Plain
  BY <1>1 DEF Plain
<1>6. ASSUME NEW u \in req[r].who \ req[r].held,
             part' = [part EXCEPT ![p][u] = IF @ = "none" THEN "in" ELSE @],
             req' = [req EXCEPT ![r].held = @ \union {u},
                                ![r].who = IF part[p][u] = "none" THEN @ ELSE @ \ {u}],
             UNCHANGED <<listed, exposed>>
      PROVE  Advance(r, p)
  <2> DEFINE who == IF part[p][u] = "none" THEN req[r].who ELSE req[r].who \ {u}
             n == [req[r] EXCEPT !.held = req[r].held \union {u}, !.who = who]
  <2>1. who \in SUBSET Watched /\ u \in Watched /\ req[r].held \union {u} \in SUBSET Users
    BY <1>2, MembershipAssumption
  <2>2. Turned(r, n)
    BY <1>6 DEF Turned
  <2> HIDE DEF who
  <2>3. /\ n \in Request /\ n.pc = "insertParticipants" /\ n.u = req[r].u /\ n.p = p
        /\ n.held = req[r].held \union {u} /\ n.who = who
    BY <1>1, <1>2, <2>1 DEF Request
  <2> HIDE DEF n
  <2>4. Shape(n)
    BY <1>1, <1>2, <2>3, Onward DEF InRun
  <2>5. Goes(req[r], n)
    BY <1>1, <2>3 DEF Goes, Beginning
  <2>6. req'[r] = n
    BY <2>2, <2>3, TurnedIs DEF PartyInv
  <2>7. /\ part' \in [Parties -> [Watched -> {"none", "in", "left"}]]
        /\ \A o \in Parties \ {p} : part'[o] = part[o]
        /\ \A v \in Watched : part'[p][v] =
             IF v = u THEN (IF part[p][u] = "none" THEN "in" ELSE part[p][u]) ELSE part[p][v]
    BY <1>3, <1>6, <2>1
  <2>8. ASSUME p \notin exposed PROVE Following(p, req[r])'
    <3>1. part[p][u] = "none" /\ who = req[r].who
      BY <1>4, <1>6, <2>1, <2>8 DEF who
    <3>2. \A v \in Watched :
            part'[p][v] = "none" \/ (part'[p][v] = "in" /\ v \in n.who \intersect n.held)
      BY <1>4, <1>6, <2>3, <2>7, <2>8, <3>1
    <3> QED BY <2>3, <2>6, <3>2 DEF Following, Telling
  <2>9. n.pc \in Plain \ {"selectHeir", "promoteHeir", "countMembers", "insertMember"}
    BY <2>3 DEF Plain
  <2>10. /\ runs' \in [Parties -> Nat] /\ listed' \in [Parties -> SUBSET Watched]
         /\ \A o \in Parties \ {p} :
              runs'[o] = runs[o] /\ part'[o] = part[o] /\ listed'[o] = listed[o]
    BY <1>1, <1>3, <1>6, <2>7
  <2> QED BY <1>1, <1>5, <2>2, <2>3, <2>4, <2>5, <2>7, <2>8, <2>9, <2>10, Retelling
<1>7. ASSUME \A u \in req[r].who : u \in req[r].held,
             listed' = [listed EXCEPT ![p] = req[r].who],
             req' = [req EXCEPT ![r].pc = "resetInvited", ![r].held = {}, ![r].who = {}],
             UNCHANGED <<part, exposed>>
      PROVE  Advance(r, p)
  <2> DEFINE n == [req[r] EXCEPT !.pc = "resetInvited", !.held = {}, !.who = {}]
  <2>1. n \in Request /\ n.pc = "resetInvited" /\ n.u = req[r].u /\ n.p = p
    BY <1>2 DEF Request, Labels
  <2>2. Turned(r, n)
    BY <1>7 DEF Turned
  <2> HIDE DEF n
  <2>4. Shape(n)
    BY <1>1, <1>2, <2>1, Onward DEF InRun
  <2>5. Goes(req[r], n)
    BY <1>1, <2>1 DEF Goes, Beginning
  <2>6. req'[r] = n
    BY <2>1, <2>2, TurnedIs DEF PartyInv
  <2>7. /\ listed' \in [Parties -> SUBSET Watched] /\ listed'[p] = req[r].who
        /\ \A o \in Parties \ {p} :
             runs'[o] = runs[o] /\ part'[o] = part[o] /\ listed'[o] = listed[o]
        /\ runs' \in [Parties -> Nat] /\ part' \in [Parties -> [Watched -> {"none", "in", "left"}]]
    BY <1>1, <1>2, <1>3, <1>7
  <2>8. ASSUME p \notin exposed PROVE Following(p, req[r])'
    <3>1. Told(p)'
      BY <1>4, <1>7, <2>7, <2>8 DEF Told, Agree
    <3> QED BY <2>1, <2>6, <3>1, PlainFollowing DEF Telling
  <2>9. n.pc \in Plain \ {"selectHeir", "promoteHeir", "countMembers", "insertMember"}
    BY <2>1 DEF Plain
  <2> QED BY <1>1, <1>5, <2>1, <2>2, <2>4, <2>5, <2>7, <2>8, <2>9, Retelling
<1> QED BY <1>6, <1>7 DEF InsertParticipant

-----------------------------------------------------------------------------
(* addMidJoinMember and leaveDungeon.                                      *)

(* Who takes part already is done; otherwise the list is read.             *)
LEMMA ReadParticipantAdvances ==
  ASSUME PartyInv, NEW r \in Requests, NEW p \in Parties, req[r].p = p, ReadParticipant(r)
  PROVE  Advance(r, p)
<1>1. req[r].pc = "readParticipant" /\ UNCHANGED <<party, members, run>>
  BY DEF ReadParticipant
<1>2. p \notin exposed => Sound(p) /\ Told(p) /\ Live(p)
  BY <1>1, PlainIs DEF Telling, Plain, InRun
<1>3. CASE Done(r)
  BY <1>1, <1>2, <1>3, Ending
<1>4. CASE /\ req' = [req EXCEPT ![r].pc = "addParticipant", ![r].who = listed[p]]
           /\ UNCHANGED exposed
  <2> DEFINE n == [req[r] EXCEPT !.pc = "addParticipant", !.who = listed[p]]
  <2>1. req[r] \in Request /\ Shape(req[r]) /\ listed[p] \in SUBSET Watched
    BY <1>1, AtWork DEF PartyInv, PartyTypeOK
  <2>2. n \in Request /\ n.pc = "addParticipant" /\ n.u = req[r].u /\ n.p = p /\ n.who = listed[p]
    BY <2>1 DEF Request, Labels
  <2>3. Turned(r, n)
    BY <1>4 DEF Turned
  <2> HIDE DEF n
  <2>4. Shape(n)
    BY <1>1, <2>1, <2>2, Onward DEF InRun, Shape
  <2>5. Goes(req[r], n)
    BY <1>1, <2>2 DEF Goes, Beginning
  <2>6. req'[r] = n
    BY <2>2, <2>3, TurnedIs DEF PartyInv
  <2>7. SameBooks(p) /\ SameRun(p)
    BY <1>1 DEF SameBooks, SameRun, party, run
  <2>8. ASSUME p \notin exposed PROVE Handled(p, req[r])' /\ Following(p, req[r])'
    <3>1. Sound(p)' /\ Live(p)' /\ Told(p)' /\ Told(p)
      BY <1>2, <2>7, <2>8, BooksKept, RunKept
    <3>2. Handled(p, req[r])'
      BY <2>2, <2>6, <3>1, PlainHandled DEF Plain, InRun
    <3>3. \A v \in Watched : Agree(p, v, listed[p])'
      BY <3>1 DEF Told
    <3>4. listed'[p] = req'[r].who
      BY <2>2, <2>6, <2>7 DEF SameRun
    <3>5. Following(p, req[r])'
      BY <2>2, <2>6, <3>1, <3>3, <3>4 DEF Following, Telling, Agree
    <3> QED BY <3>2, <3>5
  <2> QED BY <1>1, <2>2, <2>3, <2>4, <2>5, <2>8, Reading
<1> QED BY <1>1, <1>3, <1>4 DEF ReadParticipant

(* A participant's part changes.                                           *)
LEMMA PartIs ==
  ASSUME PartyTypeOK, NEW p \in Parties, NEW u \in Watched, NEW x \in {"none", "in", "left"},
         part' = [part EXCEPT ![p][u] = x], UNCHANGED <<runs, listed>>
  PROVE  /\ runs' \in [Parties -> Nat] /\ listed' \in [Parties -> SUBSET Watched]
         /\ part' \in [Parties -> [Watched -> {"none", "in", "left"}]]
         /\ \A o \in Parties \ {p} :
              runs'[o] = runs[o] /\ part'[o] = part[o] /\ listed'[o] = listed[o]
         /\ \A v \in Watched \ {u} : part'[p][v] = part[p][v]
         /\ part'[p][u] = x
BY DEF PartyTypeOK

(* The row of the participant is inserted, if there never was one.         *)
LEMMA AddParticipantAdvances ==
  ASSUME PartyInv, NEW r \in Requests, NEW p \in Parties, req[r].p = p, AddParticipant(r)
  PROVE  Advance(r, p)
<1>1. req[r].pc = "addParticipant" /\ UNCHANGED <<party, members, runs, listed>>
  BY DEF AddParticipant
<1>2. p \notin exposed => Sound(p) /\ Told(p) /\ Live(p)
  BY <1>1, PlainIs DEF Telling, Plain, InRun
<1>3. CASE UNCHANGED part /\ Done(r)
  <2>1. UNCHANGED <<party, members, run>>
    BY <1>1, <1>3 DEF run
  <2> QED BY <1>1, <1>2, <1>3, <2>1, Ending
<1>4. CASE /\ part[p][req[r].u] = "none" /\ part' = [part EXCEPT ![p][req[r].u] = "in"]
           /\ Proceed(r, "listParticipant")
  <2> DEFINE n == Moved(req[r], "listParticipant")
  <2>1. req[r].u \in Watched
    BY <1>1, AtWork DEF Shape, InRun
  <2>2. /\ n \in Request /\ Shape(n) /\ Turned(r, n) /\ Goes(req[r], n)
        /\ n.pc = "listParticipant" /\ n.p = p /\ n.u = req[r].u /\ n.who = req[r].who
    BY <1>1, <1>4, <2>1, GoesOn DEF Labels, Beginning
  <2> HIDE DEF n
  <2>3. req'[r] = n
    BY <2>2, TurnedIs DEF PartyInv
  <2>4. /\ runs' \in [Parties -> Nat] /\ listed' \in [Parties -> SUBSET Watched]
        /\ part' \in [Parties -> [Watched -> {"none", "in", "left"}]]
        /\ \A o \in Parties \ {p} :
             runs'[o] = runs[o] /\ part'[o] = part[o] /\ listed'[o] = listed[o]
        /\ \A v \in Watched \ {req[r].u} : part'[p][v] = part[p][v]
        /\ part'[p][req[r].u] = "in"
    BY <1>1, <1>4, <2>1, PartIs DEF PartyInv
  <2>5. ASSUME p \notin exposed PROVE Following(p, req[r])'
    <3>1. \A v \in Watched : Agree(p, v, req[r].who)
      BY <1>1, <2>5, AtWork DEF Following
    <3>2. /\ part'[p][n.u] # "left"
          /\ \A v \in Watched \ {n.u} :
               (part'[p][v] = "in" => v \in n.who) /\ (part'[p][v] = "left" => v \notin n.who)
      BY <2>2, <2>4, <3>1 DEF Agree
    <3> QED BY <2>2, <2>3, <3>2 DEF Following, Telling, Agree
  <2>6. req[r].pc \in Plain /\ n.pc \in Plain \ {"selectHeir", "promoteHeir", "countMembers", "insertMember"}
    BY <1>1, <2>2 DEF Plain, InRun
  <2> QED BY <1>1, <2>2, <2>4, <2>5, <2>6, Retelling
<1> QED BY <1>1, <1>3, <1>4 DEF AddParticipant

(* The list of participants changes.                                       *)
LEMMA ListIs ==
  ASSUME PartyTypeOK, NEW p \in Parties, NEW L \in SUBSET Watched,
         listed' = [listed EXCEPT ![p] = L], UNCHANGED <<runs, part>>
  PROVE  /\ runs' \in [Parties -> Nat] /\ listed' \in [Parties -> SUBSET Watched]
         /\ part' \in [Parties -> [Watched -> {"none", "in", "left"}]]
         /\ \A o \in Parties \ {p} :
              runs'[o] = runs[o] /\ part'[o] = part[o] /\ listed'[o] = listed[o]
         /\ listed'[p] = L /\ part'[p] = part[p]
BY DEF PartyTypeOK

(* The new participant is in the list as it was read.                      *)
LEMMA ListParticipantAdvances ==
  ASSUME PartyInv, NEW r \in Requests, NEW p \in Parties, req[r].p = p, ListParticipant(r)
  PROVE  Advance(r, p)
<1> DEFINE L == req[r].who \union {req[r].u}
<1>1. /\ req[r].pc = "listParticipant" /\ UNCHANGED <<party, members, runs, part>> /\ Done(r)
      /\ listed' = [listed EXCEPT ![p] = L]
  BY DEF ListParticipant
<1>2. L \in SUBSET Watched /\ req[r].u \in Watched
  BY <1>1, AtWork, RequestIs DEF Shape, InRun
<1>3. /\ runs' \in [Parties -> Nat] /\ listed' \in [Parties -> SUBSET Watched]
      /\ part' \in [Parties -> [Watched -> {"none", "in", "left"}]]
      /\ \A o \in Parties \ {p} :
           runs'[o] = runs[o] /\ part'[o] = part[o] /\ listed'[o] = listed[o]
      /\ listed'[p] = L /\ part'[p] = part[p]
  BY <1>1, <1>2, ListIs DEF PartyInv
<1>4. ASSUME p \notin exposed PROVE Told(p)'
  <2>1. part[p][req[r].u] # "left" /\ \A v \in Watched \ {req[r].u} : Agree(p, v, req[r].who)
    BY <1>1, <1>4, AtWork DEF Following
  <2> QED BY <1>3, <2>1 DEF Told, Agree
<1>5. req[r].pc \in Plain
  BY <1>1 DEF Plain, InRun
<1>6. UNCHANGED <<party, members>>
  BY <1>1
<1> HIDE DEF L
<1> QED BY <1>1, <1>3, <1>4, <1>5, <1>6, DoneIs, Retelling

(* A participant has left.                                                 *)
LEMMA SetLeftAdvances ==
  ASSUME PartyInv, NEW r \in Requests, NEW p \in Parties, req[r].p = p, SetLeft(r)
  PROVE  Advance(r, p)
<1>1. /\ req[r].pc = "setLeft" /\ UNCHANGED <<party, members, runs, listed>>
      /\ part' = [part EXCEPT ![p][req[r].u] = "left"] /\ Proceed(r, "readList")
  BY DEF SetLeft
<1> DEFINE n == Moved(req[r], "readList")
<1>2. req[r].u \in Watched
  BY <1>1, AtWork DEF Shape, InRun
<1>3. /\ n \in Request /\ Shape(n) /\ Turned(r, n) /\ Goes(req[r], n)
      /\ n.pc = "readList" /\ n.p = p /\ n.u = req[r].u
  BY <1>1, <1>2, GoesOn DEF Labels, Beginning
<1> HIDE DEF n
<1>4. req'[r] = n
  BY <1>3, TurnedIs DEF PartyInv
<1>5. /\ runs' \in [Parties -> Nat] /\ listed' \in [Parties -> SUBSET Watched]
      /\ part' \in [Parties -> [Watched -> {"none", "in", "left"}]]
      /\ \A o \in Parties \ {p} :
           runs'[o] = runs[o] /\ part'[o] = part[o] /\ listed'[o] = listed[o]
      /\ \A v \in Watched \ {req[r].u} : part'[p][v] = part[p][v]
      /\ part'[p][req[r].u] = "left"
  <2>1. PartyTypeOK /\ "left" \in {"none", "in", "left"} /\ UNCHANGED <<runs, listed>>
    BY <1>1 DEF PartyInv
  <2>2. part' = [part EXCEPT ![p][req[r].u] = "left"]
    BY <1>1
  <2> DEFINE u == req[r].u
  <2>3. u \in Watched /\ part' = [part EXCEPT ![p][u] = "left"]
    BY <1>2, <2>2
  <2> HIDE DEF u
  <2>4. /\ runs' \in [Parties -> Nat] /\ listed' \in [Parties -> SUBSET Watched]
        /\ part' \in [Parties -> [Watched -> {"none", "in", "left"}]]
        /\ \A o \in Parties \ {p} :
             runs'[o] = runs[o] /\ part'[o] = part[o] /\ listed'[o] = listed[o]
        /\ \A v \in Watched \ {u} : part'[p][v] = part[p][v]
        /\ part'[p][u] = "left"
    BY ONLY p \in Parties, <2>1, <2>3, PartIs
  <2> QED BY <2>4 DEF u
<1>6. ASSUME p \notin exposed PROVE Following(p, req[r])'
  <2>1. \A v \in Watched : Agree(p, v, listed[p])
    BY <1>1, <1>6, AtWork DEF Following, Telling, Told
  <2>2. /\ part'[p][n.u] # "in"
        /\ \A v \in Watched \ {n.u} :
             (part'[p][v] = "in" => v \in listed'[p]) /\ (part'[p][v] = "left" => v \notin listed'[p])
    BY <1>1, <1>3, <1>5, <2>1 DEF Agree
  <2> QED BY <1>3, <1>4, <2>2 DEF Following, Telling, Agree
<1>7. req[r].pc \in Plain /\ n.pc \in Plain \ {"selectHeir", "promoteHeir", "countMembers", "insertMember"}
  BY <1>1, <1>3 DEF Plain, InRun
<1> QED BY <1>1, <1>3, <1>5, <1>6, <1>7, Retelling

(* The list is read.                                                       *)
LEMMA ReadListAdvances ==
  ASSUME PartyInv, NEW r \in Requests, NEW p \in Parties, req[r].p = p, ReadList(r)
  PROVE  Advance(r, p)
<1> DEFINE n == [req[r] EXCEPT !.pc = "unlist", !.who = listed[p]]
<1>1. req[r].pc = "readList" /\ UNCHANGED <<party, members, run>>
  BY DEF ReadList
<1>2. req[r] \in Request /\ Shape(req[r]) /\ listed[p] \in SUBSET Watched
  BY <1>1, AtWork DEF PartyInv, PartyTypeOK
<1>3. n \in Request /\ n.pc = "unlist" /\ n.u = req[r].u /\ n.p = p /\ n.who = listed[p]
  BY <1>2 DEF Request, Labels
<1>4. Turned(r, n)
  BY DEF ReadList, Turned
<1> HIDE DEF n
<1>5. Shape(n)
  BY <1>1, <1>2, <1>3, Onward DEF InRun, Shape
<1>6. Goes(req[r], n)
  BY <1>1, <1>3 DEF Goes, Beginning
<1>7. req'[r] = n
  BY <1>3, <1>4, TurnedIs DEF PartyInv
<1>8. SameBooks(p) /\ SameRun(p)
  BY <1>1 DEF SameBooks, SameRun, party, run
<1>9. ASSUME p \notin exposed PROVE Handled(p, req[r])' /\ Following(p, req[r])'
  <2>1. Sound(p)' /\ Live(p)'
    BY <1>1, <1>8, <1>9, PlainIs, BooksKept DEF Plain, InRun
  <2>2. Handled(p, req[r])'
    BY <1>3, <1>7, <2>1, PlainHandled DEF Plain, InRun
  <2>3. part[p][req[r].u] # "in" /\ \A v \in Watched \ {req[r].u} : Agree(p, v, listed[p])
    BY <1>1, <1>9, AtWork DEF Following
  <2>4. /\ part'[p][n.u] # "in"
        /\ \A v \in Watched \ {n.u} :
             (part'[p][v] = "in" => v \in n.who) /\ (part'[p][v] = "left" => v \notin n.who)
    BY <1>3, <1>8, <2>3 DEF Agree, SameRun
  <2>5. Following(p, req[r])'
    BY <1>3, <1>7, <2>4 DEF Following, Telling, Agree
  <2> QED BY <2>2, <2>5
<1> QED BY <1>1, <1>3, <1>4, <1>5, <1>6, <1>9, Reading

(* Who left is taken off the list as it was read.                          *)
LEMMA UnlistAdvances ==
  ASSUME PartyInv, NEW r \in Requests, NEW p \in Parties, req[r].p = p, Unlist(r)
  PROVE  Advance(r, p)
<1> DEFINE L == req[r].who \ {req[r].u}
<1>1. /\ req[r].pc = "unlist" /\ UNCHANGED <<party, members, runs, part>> /\ Done(r)
      /\ listed' = [listed EXCEPT ![p] = L]
  BY DEF Unlist
<1>2. L \in SUBSET Watched
  BY <1>1, AtWork, RequestIs
<1>3. /\ runs' \in [Parties -> Nat] /\ listed' \in [Parties -> SUBSET Watched]
      /\ part' \in [Parties -> [Watched -> {"none", "in", "left"}]]
      /\ \A o \in Parties \ {p} :
           runs'[o] = runs[o] /\ part'[o] = part[o] /\ listed'[o] = listed[o]
      /\ listed'[p] = L /\ part'[p] = part[p]
  BY <1>1, <1>2, ListIs DEF PartyInv
<1>4. ASSUME p \notin exposed PROVE Told(p)'
  <2>1. part[p][req[r].u] # "in" /\ \A v \in Watched \ {req[r].u} : Agree(p, v, req[r].who)
    BY <1>1, <1>4, AtWork DEF Following
  <2> QED BY <1>3, <2>1 DEF Told, Agree
<1>5. req[r].pc \in Plain
  BY <1>1 DEF Plain, InRun
<1>6. UNCHANGED <<party, members>>
  BY <1>1
<1> HIDE DEF L
<1> QED BY <1>1, <1>3, <1>4, <1>5, <1>6, DoneIs, Retelling

-----------------------------------------------------------------------------
(* The statements on the rows.                                             *)

(* The rows that remain are rows of other users.                           *)
LEMMA RemainingRows ==
  ASSUME NEW p \in Parties, members[p] \in Seq(Row), RowsOf(p), NEW u
  PROVE  /\ Remaining(p, u) \in Seq(Row)
         /\ \A i \in 1..Len(Remaining(p, u)) :
              Remaining(p, u)[i].user \in MembersOf(p) \ {u}
<1> DEFINE s == members[p]
           n == Len(s)
           mine == {i \in DOMAIN s : s[i].user = u}
<1>0. n \in Nat /\ DOMAIN s = 1..n
  OBVIOUS
<1>1. CASE mine = {}
  <2>1. Remaining(p, u) = s
    BY <1>1 DEF Remaining
  <2>2. \A i \in 1..n : s[i].user \in MembersOf(p) \ {u}
    BY <1>0, <1>1, MembersAre
  <2> QED BY <2>1, <2>2
<1>2. CASE mine # {}
  <2> DEFINE k == CHOOSE i \in mine : TRUE
             t == Remaining(p, u)
  <2>1. k \in mine
    BY <1>2
  <2>2. k \in 1..n /\ s[k].user = u
    BY <2>1, <1>0
  <2>3. t = RemoveAt(s, k)
    BY <1>2 DEF Remaining
  <2> HIDE DEF k, t
  <2>4. /\ t \in Seq(Row) /\ Len(t) = n - 1
        /\ \A i \in 1..(n - 1) : t[i] = IF i < k THEN s[i] ELSE s[i + 1]
    BY <2>2, <2>3, RemoveAtIs
  <2>5. \A i \in 1..n : i # k => s[i].user \in MembersOf(p) \ {u}
    BY <2>2, MembersAre DEF RowsOf
  <2>6. ASSUME NEW i \in 1..(n - 1) PROVE t[i].user \in MembersOf(p) \ {u}
    <3>1. CASE i < k
      BY <3>1, <1>0, <2>2, <2>4, <2>5
    <3>2. CASE ~ (i < k)
      <4>1. i + 1 \in 1..n /\ i + 1 # k
        BY <3>2, <1>0, <2>2
      <4> QED BY <3>2, <4>1, <2>4, <2>5
    <3> QED BY <3>1, <3>2
  <2> QED BY <2>4, <2>6 DEF t
<1> QED BY <1>1, <1>2

(* The oldest other member is the heir.                                    *)
LEMMA SelectHeirAdvances ==
  ASSUME PartyInv, NEW r \in Requests, NEW p \in Parties, req[r].p = p, SelectHeir(r)
  PROVE  Advance(r, p)
<1> DEFINE others == Remaining(p, req[r].u)
<1>1. req[r].pc = "selectHeir" /\ UNCHANGED <<party, members, run>>
  BY DEF SelectHeir
<1>2. /\ req[r] \in Request /\ Shape(req[r]) /\ req[r].held \in SUBSET Users
      /\ members[p] \in Seq(Row) /\ RowsOf(p)
  BY <1>1, AtWork, RequestIs
<1>3. SameBooks(p) /\ SameRun(p)
  BY <1>1 DEF SameBooks, SameRun, party, run
<1>4. ASSUME p \notin exposed
      PROVE  /\ Sound(p)' /\ Live(p)' /\ Told(p)'
             /\ req[r].u \in MembersOf(p)' \intersect req[r].held /\ leader'[p] = req[r].u
             /\ req[r].seen = status'[p]
  <2>1. Sound(p) /\ Live(p) /\ Told(p)
    BY <1>1, <1>4, PlainIs DEF Plain, Telling
  <2>2. /\ req[r].u \in MembersOf(p) \intersect req[r].held /\ leader[p] = req[r].u
        /\ req[r].seen = status[p]
    BY <1>1, <1>4, AtWork DEF Handled
  <2> QED BY <1>3, <2>1, <2>2, BooksKept, RunKept DEF SameBooks
<1>5. CASE Proceed(r, "deleteAll")
  <2> DEFINE n == Moved(req[r], "deleteAll")
  <2>1. /\ n \in Request /\ Shape(n) /\ Turned(r, n) /\ Goes(req[r], n)
        /\ n.pc = "deleteAll" /\ n.p = p
    BY <1>1, <1>5, GoesOn DEF Labels, Beginning, InRun
  <2> HIDE DEF n
  <2>2. req'[r] = n
    BY <2>1, TurnedIs DEF PartyInv
  <2>3. ASSUME p \notin exposed PROVE Handled(p, req[r])' /\ Following(p, req[r])'
    <3>1. Following(p, req[r])'
      BY <1>4, <2>1, <2>2, <2>3, PlainFollowing DEF Telling
    <3> QED BY <1>4, <2>1, <2>2, <2>3, <3>1 DEF Handled, Plain, InRun
  <2> QED BY <1>1, <2>1, <2>3, Reading
<1>6. CASE /\ others # <<>> /\ UNCHANGED exposed
           /\ req' = [req EXCEPT ![r].pc = "promoteHeir", ![r].t = Head(others).user,
                                 ![r].held = @ \union {Head(others).user}]
  <2> DEFINE heir == Head(others).user
             n == [req[r] EXCEPT !.pc = "promoteHeir", !.t = heir,
                                 !.held = req[r].held \union {heir}]
  <2>1. others \in Seq(Row) /\ \A i \in 1..Len(others) : others[i].user \in MembersOf(p) \ {req[r].u}
    BY <1>2, RemainingRows
  <2>2. heir \in MembersOf(p) \ {req[r].u}
    <3> HIDE DEF others
    <3>1. Len(others) \in Nat /\ Len(others) # 0 /\ Head(others) = others[1]
      BY <1>6, <2>1
    <3>2. 1 \in 1..Len(others)
      BY <3>1
    <3> QED BY <2>1, <3>1, <3>2
  <2>3. heir \in Users
    BY <1>2, <2>2, MembersAre
  <2>4. Turned(r, n)
    BY <1>6 DEF Turned
  <2> HIDE DEF heir
  <2>5. /\ n \in Request /\ n.pc = "promoteHeir" /\ n.u = req[r].u /\ n.p = p /\ n.t = heir
        /\ n.held = req[r].held \union {heir} /\ n.seen = req[r].seen
    BY <1>2, <2>3 DEF Request, Labels
  <2> HIDE DEF n
  <2>6. Shape(n)
    BY <1>1, <1>2, <2>5, Onward DEF InRun
  <2>7. Goes(req[r], n)
    BY <1>1, <2>5 DEF Goes, Beginning
  <2>8. req'[r] = n
    BY <2>5, <2>4, TurnedIs DEF PartyInv
  <2>9. ASSUME p \notin exposed PROVE Handled(p, req[r])' /\ Following(p, req[r])'
    <3>1. Following(p, req[r])'
      BY <1>4, <2>5, <2>8, <2>9, PlainFollowing DEF Telling
    <3>2. MembersOf(p)' = MembersOf(p)
      BY <1>3, BooksKept
    <3>3. /\ req'[r].pc = "promoteHeir" /\ req'[r].u \in MembersOf(p)' \intersect req'[r].held
          /\ leader'[p] = req'[r].u /\ req'[r].seen = status'[p]
          /\ req'[r].t \in MembersOf(p)' \intersect req'[r].held /\ req'[r].t # req'[r].u
      BY <1>4, <2>2, <2>5, <2>8, <2>9, <3>2
    <3>4. Handled(p, req[r])'
      BY <1>4, <2>9, <3>3 DEF Handled
    <3> QED BY <3>1, <3>4
  <2> QED BY <1>1, <2>4, <2>5, <2>6, <2>7, <2>9, Reading
<1> QED BY <1>1, <1>5, <1>6 DEF SelectHeir

(* A step that changes the rows of p only.                                 *)
LEMMA Rowing ==
  ASSUME PartyInv, NEW r \in Requests, req[r].pc \notin {"idle", "insertParty"},
         NEW p \in Parties, req[r].p = p,
         UNCHANGED <<party, run>>, members' \in [Parties -> Seq(Row)],
         \A o \in Parties \ {p} : members'[o] = members[o],
         req' \in [Requests -> Request], Others(r), Shape(req'[r]), Goes(req[r], req'[r]),
         RowsOf(p)',
         \A u \in MembersOf(p)' :
           u \in MembersOf(p) \/ (u = req[r].u /\ req[r].pc \in {"insertLeader", "insertMember"}),
         p \notin exposed => Fitted(p, r)
  PROVE  Advance(r, p)
<1>1. PartyTypeOK'
  BY DEF PartyInv, PartyTypeOK, Others, party, run
<1>2. \A o \in Parties \ {p} : Untouched(o)
  BY DEF Untouched, party, run
<1>3. status'[p] # "NONE"
  BY AtWork DEF party
<1> QED BY <1>1, <1>2, <1>3 DEF Advance

(* The rows of p are replaced by s.                                        *)
LEMMA RowsReplaced ==
  ASSUME PartyTypeOK, NEW p \in Parties, NEW s \in Seq(Row), members' = [members EXCEPT ![p] = s]
  PROVE  /\ members' \in [Parties -> Seq(Row)] /\ members'[p] = s
         /\ \A o \in Parties \ {p} : members'[o] = members[o]
BY DEF PartyTypeOK

(* The row of the creator is the first.                                    *)
LEMMA InsertLeaderAdvances ==
  ASSUME PartyInv, NEW r \in Requests, NEW p \in Parties, req[r].p = p, InsertLeader(r)
  PROVE  Advance(r, p)
<1> DEFINE row == [user |-> req[r].u, role |-> "LEADER", ready |-> FALSE]
<1>1. /\ req[r].pc = "insertLeader" /\ members' = [members EXCEPT ![p] = Append(members[p], row)]
      /\ UNCHANGED <<party, run>> /\ Done(r)
  BY DEF InsertLeader
<1>2. /\ members[p] = <<>> /\ status[p] = "OPEN" /\ leader[p] = req[r].u
      /\ members[p] \in Seq(Row) /\ RowsOf(p) /\ req[r].u \in Users
  BY <1>1, AtWork DEF PartyInv, Newborn, Shape
<1>3. row \in Row /\ row.user = req[r].u /\ row.role = "LEADER"
  BY <1>2 DEF Row
<1> HIDE DEF row
<1>4. MembersOf(p) = {} /\ LeadersOf(p) = {}
  <2>1. Len(members[p]) = 0 /\ 1..0 = {}
    BY <1>2
  <2> QED BY <1>2, <2>1, MembersAre
<1>5. Append(members[p], row) \in Seq(Row)
  BY <1>2, <1>3
<1>6. /\ members' \in [Parties -> Seq(Row)] /\ members'[p] = Append(members[p], row)
      /\ \A o \in Parties \ {p} : members'[o] = members[o]
  BY <1>1, <1>5, RowsReplaced DEF PartyInv
<1>7. /\ Len(members'[p]) = 1 /\ RowsOf(p)'
      /\ MembersOf(p)' = {req[r].u} /\ LeadersOf(p)' = {req[r].u}
  <2>1. /\ Len(members'[p]) = Len(members[p]) + 1 /\ RowsOf(p)'
        /\ MembersOf(p)' = MembersOf(p) \union {row.user}
        /\ LeadersOf(p)' = LeadersOf(p) \union (IF row.role = "LEADER" THEN {row.user} ELSE {})
    BY <1>2, <1>3, <1>4, <1>6, Appended
  <2>2. Len(members[p]) = 0
    BY <1>2
  <2> QED BY <1>3, <1>4, <2>1, <2>2
<1>8. /\ req' \in [Requests -> Request] /\ req'[r] = NoRequest /\ Others(r)
      /\ Shape(req'[r]) /\ Goes(req[r], req'[r]) /\ req'[r].p # p
  BY <1>1, DoneIs, TurnedIs DEF PartyInv
<1>9. ASSUME p \notin exposed PROVE Fitted(p, r)
  <2>1. Told(p)
    BY <1>1, <1>9, AtWork DEF Following, Telling
  <2>2. Told(p)'
    BY <1>1, <2>1, RunKept DEF SameRun, run
  <2>3. 1 <= MaxMembers /\ 1 < MaxMembers
    BY MembershipAssumption
  <2>4. status'[p] = "OPEN" /\ leader'[p] = req[r].u
    BY <1>1, <1>2 DEF party
  <2>5. Sound(p)'
    BY <1>7, <2>3, <2>4 DEF Sound, Live, Led, Room
  <2> QED BY <1>7, <1>8, <2>2, <2>3, <2>5 DEF Fitted
<1> QED BY <1>1, <1>6, <1>7, <1>8, <1>9, Rowing

(* A member is added, unless they are one.                                 *)
LEMMA InsertMemberAdvances ==
  ASSUME PartyInv, NEW r \in Requests, NEW p \in Parties, req[r].p = p, InsertMember(r)
  PROVE  Advance(r, p)
<1> DEFINE row == [user |-> req[r].u, role |-> "MEMBER", ready |-> FALSE]
           n == Len(members[p])
<1>1. req[r].pc = "insertMember" /\ UNCHANGED <<party, run>>
  BY DEF InsertMember
<1>2. /\ members[p] \in Seq(Row) /\ RowsOf(p) /\ req[r].u \in Users
      /\ status[p] \in PartyStatus \ {"NONE"} /\ n \in Nat
  BY <1>1, AtWork DEF Shape
<1>3. CASE UNCHANGED members /\ Done(r)
  <2>1. p \notin exposed => Sound(p) /\ Told(p)
    BY <1>1, PlainIs DEF Plain, Telling
  <2> QED BY <1>1, <1>3, <2>1, Ending
<1>4. CASE /\ req[r].u \notin MembersOf(p)
           /\ members' = [members EXCEPT ![p] = Append(members[p], row)]
           /\ IF req[r].count + 1 >= MaxMembers THEN Proceed(r, "markFull") ELSE Joined(r)
  <2>1. row \in Row /\ row.user = req[r].u /\ row.role = "MEMBER"
    BY <1>2 DEF Row
  <2> HIDE DEF row
  <2>2. Append(members[p], row) \in Seq(Row)
    BY <1>2, <2>1
  <2>3. /\ members' \in [Parties -> Seq(Row)] /\ members'[p] = Append(members[p], row)
        /\ \A o \in Parties \ {p} : members'[o] = members[o]
    BY <1>4, <2>2, RowsReplaced DEF PartyInv
  <2>4. /\ Len(members'[p]) = n + 1 /\ RowsOf(p)'
        /\ MembersOf(p)' = MembersOf(p) \union {req[r].u} /\ LeadersOf(p)' = LeadersOf(p)
    <3>1. /\ Len(members'[p]) = Len(members[p]) + 1 /\ RowsOf(p)'
          /\ MembersOf(p)' = MembersOf(p) \union {row.user}
          /\ LeadersOf(p)' = LeadersOf(p) \union (IF row.role = "LEADER" THEN {row.user} ELSE {})
      BY <1>2, <1>4, <2>1, <2>3, Appended
    <3> QED BY <2>1, <3>1
  <2> DEFINE m == Moved(req[r], "markFull")
  <2>5. PICK x \in Request :
          /\ Shape(x) /\ Turned(r, x) /\ Goes(req[r], x)
          /\ \/ x.p = p /\ x.pc = "markFull" /\ req[r].count + 1 >= MaxMembers
             \/ /\ ~ (req[r].count + 1 >= MaxMembers)
                /\ (x = NoRequest /\ x.p # p) \/ (x.p = p /\ x.pc = "readParticipant")
    <3>1. CASE req[r].count + 1 >= MaxMembers
      <4>1. /\ m \in Request /\ Shape(m) /\ Turned(r, m) /\ Goes(req[r], m)
            /\ m.pc = "markFull" /\ m.p = p
        BY <1>1, <1>4, <3>1, GoesOn DEF Labels, Beginning, InRun
      <4> HIDE DEF m
      <4> QED BY <3>1, <4>1
    <3>2. CASE ~ (req[r].count + 1 >= MaxMembers)
      <4>1. Joined(r)
        BY <1>4, <3>2
      <4>2. PICK x \in Request :
              /\ Shape(x) /\ Turned(r, x) /\ Goes(req[r], x)
              /\ (x = NoRequest /\ x.p # p) \/ (x.p = p /\ x.pc = "readParticipant")
        BY <1>1, <4>1, JoinedIs
      <4> QED BY <3>2, <4>2
    <3> QED BY <3>1, <3>2
  <2>6. /\ req' \in [Requests -> Request] /\ req'[r] = x /\ Others(r)
    BY <2>5, TurnedIs DEF PartyInv
  <2>7. ASSUME p \notin exposed PROVE Fitted(p, r)
    <3>1. Sound(p) /\ Live(p) /\ Told(p)
      BY <1>1, <2>7, PlainIs DEF Plain, Telling
    <3>2. req[r].count = n /\ n < MaxMembers /\ status[p] # "FULL" /\ MaxMembers \in Nat
      BY <1>1, <2>7, AtWork, MembershipAssumption DEF Handled
    <3>3. Told(p)'
      BY <1>1, <3>1, RunKept DEF SameRun, run
    <3>4. Live(p)' /\ Led(p)' /\ status'[p] = status[p]
      BY <1>1, <2>4, <3>1 DEF Sound, Live, Led, party
    <3>5. Len(members'[p]) <= MaxMembers
      BY <1>2, <2>4, <3>2
    <3>6. CASE x.p = p /\ x.pc = "markFull" /\ n + 1 >= MaxMembers
      <4>1. Len(members'[p]) = MaxMembers
        BY <1>2, <2>4, <3>2, <3>6
      <4>2. Following(p, req[r])'
        BY <2>6, <3>3, <3>6, PlainFollowing DEF Telling
      <4>3. Handled(p, req[r])'
        BY <2>6, <3>4, <3>6, <4>1 DEF Handled, Plain, InRun
      <4> QED BY <2>6, <3>5, <3>6, <4>2, <4>3 DEF Fitted
    <3>7. CASE ~ (n + 1 >= MaxMembers)
      <4>1. Len(members'[p]) < MaxMembers
        BY <1>2, <2>4, <3>2, <3>7
      <4>2. Sound(p)'
        BY <3>2, <3>4, <4>1 DEF Sound, Room
      <4>3. x.p = p => Handled(p, req[r])' /\ Following(p, req[r])'
        <5> SUFFICES ASSUME x.p = p PROVE Handled(p, req[r])' /\ Following(p, req[r])'
          OBVIOUS
        <5>1. req'[r].pc = "readParticipant"
          BY <2>5, <2>6, <3>2, <3>7
        <5>2. Handled(p, req[r])'
          BY <3>4, <4>2, <5>1, PlainHandled DEF Plain, InRun
        <5>3. Following(p, req[r])'
          BY <3>3, <5>1, PlainFollowing DEF Telling
        <5> QED BY <5>2, <5>3
      <4> QED BY <2>6, <3>3, <3>5, <4>2, <4>3 DEF Fitted
    <3> QED BY <2>5, <3>2, <3>6, <3>7
  <2>8. \A u \in MembersOf(p)' : u \in MembersOf(p) \/ u = req[r].u
    BY <2>4
  <2> QED BY <1>1, <2>3, <2>4, <2>5, <2>6, <2>7, <2>8, Rowing
<1> QED BY <1>1, <1>3, <1>4 DEF InsertMember

(* Rows of which some become the leader's.                                 *)
LEMMA Promoted ==
  ASSUME NEW p \in Parties, members[p] \in Seq(Row), RowsOf(p), NEW t, NEW c \in BOOLEAN,
         members'[p] = [i \in DOMAIN members[p] |->
                          IF members[p][i].user = t /\ c
                          THEN [members[p][i] EXCEPT !.role = "LEADER"] ELSE members[p][i]]
  PROVE  /\ members'[p] \in Seq(Row) /\ Len(members'[p]) = Len(members[p])
         /\ RowsOf(p)' /\ MembersOf(p)' = MembersOf(p)
         /\ c /\ t \in MembersOf(p) => LeadersOf(p)' = LeadersOf(p) \union {t}
<1> DEFINE s == members[p]
           n == Len(s)
<1>1. n \in Nat /\ DOMAIN s = 1..n /\ \A i \in 1..n : s[i] \in Row
  OBVIOUS
<1>2. \A i \in 1..n : /\ members'[p][i] \in Row /\ members'[p][i].user = s[i].user
                      /\ members'[p][i].role = IF s[i].user = t /\ c THEN "LEADER" ELSE s[i].role
  BY <1>1 DEF Row
<1>3. members'[p] \in [1..n -> Row]
  BY <1>1, <1>2
<1>4. members'[p] \in Seq(Row) /\ Len(members'[p]) = n
  BY <1>1, <1>3
<1>5. /\ \A x : x \in MembersOf(p) <=> \E i \in 1..n : s[i].user = x
      /\ \A x : x \in MembersOf(p)' <=> \E i \in 1..n : members'[p][i].user = x
      /\ \A x : x \in LeadersOf(p) <=> \E i \in 1..n : s[i].user = x /\ s[i].role = "LEADER"
      /\ \A x : x \in LeadersOf(p)' <=>
            \E i \in 1..n : members'[p][i].user = x /\ members'[p][i].role = "LEADER"
  <2>1. members[p] \in Seq(Row) /\ members'[p] \in Seq(Row) /\ Len(members'[p]) = n /\ p \in Parties
    BY <1>4
  <2>2. /\ \A x : x \in MembersOf(p) <=> \E i \in 1..n : s[i].user = x
        /\ \A x : x \in LeadersOf(p) <=> \E i \in 1..n : s[i].user = x /\ s[i].role = "LEADER"
    BY ONLY <2>1, MembersAre
  <2>3. /\ \A x : x \in MembersOf(p)' <=> \E i \in 1..Len(members'[p]) : members'[p][i].user = x
        /\ \A x : x \in LeadersOf(p)' <=>
              \E i \in 1..Len(members'[p]) :
                members'[p][i].user = x /\ members'[p][i].role = "LEADER"
    BY ONLY <2>1, MembersAreNext
  <2>4. Len(members'[p]) = n
    BY <2>1
  <2> HIDE DEF s, n
  <2> QED BY ONLY <2>2, <2>3, <2>4
<1>6. RowsOf(p)'
  BY <1>2, <1>4 DEF RowsOf
<1> HIDE DEF s, n
<1>7. \A x : x \in MembersOf(p)' <=> x \in MembersOf(p)
  BY ONLY <1>2, <1>5
<1>8. ASSUME c, t \in MembersOf(p) PROVE \A x : x \in LeadersOf(p)' <=> x \in LeadersOf(p) \union {t}
  BY ONLY <1>2, <1>5, <1>8
<1>9. MembersOf(p)' = MembersOf(p)
  BY <1>7
<1>10. c /\ t \in MembersOf(p) => LeadersOf(p)' = LeadersOf(p) \union {t}
  BY <1>8
<1> QED BY <1>4, <1>6, <1>9, <1>10 DEF s, n

(* The heir's row is a leader's.                                           *)
LEMMA PromoteHeirAdvances ==
  ASSUME PartyInv, NEW r \in Requests, NEW p \in Parties, req[r].p = p, PromoteHeir(r)
  PROVE  Advance(r, p)
<1> DEFINE t == req[r].t
           c == t \in req[r].held
           s == [i \in DOMAIN members[p] |->
                   IF members[p][i].user = t /\ c
                   THEN [members[p][i] EXCEPT !.role = "LEADER"] ELSE members[p][i]]
           n == Moved(req[r], "setLeader")
<1>1. /\ req[r].pc = "promoteHeir" /\ UNCHANGED <<party, run>> /\ Proceed(r, "setLeader")
      /\ members' = [members EXCEPT ![p] = s]
  BY DEF PromoteHeir
<1>2. /\ members[p] \in Seq(Row) /\ RowsOf(p)
  BY <1>1, AtWork
<1>3. members'[p] = s /\ \A o \in Parties \ {p} : members'[o] = members[o]
  BY <1>1 DEF PartyInv, PartyTypeOK
<1>4. c \in BOOLEAN
  OBVIOUS
<1>5. /\ members'[p] \in Seq(Row) /\ Len(members'[p]) = Len(members[p])
      /\ RowsOf(p)' /\ MembersOf(p)' = MembersOf(p)
      /\ c /\ t \in MembersOf(p) => LeadersOf(p)' = LeadersOf(p) \union {t}
  <2>1. members'[p] = s
    BY <1>3
  <2>2. c \in BOOLEAN
    BY <1>4
  <2> HIDE DEF c, t
  <2>3. members'[p] = [i \in DOMAIN members[p] |->
                        IF members[p][i].user = t /\ c
                        THEN [members[p][i] EXCEPT !.role = "LEADER"] ELSE members[p][i]]
    BY ONLY <2>1
  <2> QED BY ONLY <1>2, <2>2, <2>3, Promoted, p \in Parties
<1>6. members' \in [Parties -> Seq(Row)]
  <2> HIDE DEF s
  <2> QED BY <1>1, <1>3, <1>5 DEF PartyInv, PartyTypeOK
<1>7. /\ n \in Request /\ Shape(n) /\ Turned(r, n) /\ Goes(req[r], n) /\ n.pc = "setLeader"
      /\ n.p = p /\ n.u = req[r].u /\ n.t = t /\ n.held = req[r].held /\ n.seen = req[r].seen
  BY <1>1, GoesOn DEF Labels, Beginning, InRun
<1> HIDE DEF n
<1>8. req' \in [Requests -> Request] /\ req'[r] = n /\ Others(r)
  BY <1>7, TurnedIs DEF PartyInv
<1>9. ASSUME p \notin exposed PROVE Fitted(p, r)
  <2>1. Sound(p) /\ Live(p) /\ Told(p) /\ Len(members[p]) <= MaxMembers
    BY <1>1, <1>9, PlainIs, AtWork DEF Plain, Telling
  <2>2. /\ req[r].u \in MembersOf(p) \intersect req[r].held /\ leader[p] = req[r].u
        /\ req[r].t \in MembersOf(p) \intersect req[r].held /\ req[r].t # req[r].u
        /\ req[r].seen = status[p]
    BY <1>1, <1>9, AtWork DEF Handled
  <2>3. LeadersOf(p)' = {req[r].u, req[r].t}
    BY <1>5, <2>1, <2>2 DEF Sound, Led
  <2>4. Live(p)' /\ Room(p)' /\ status'[p] = status[p] /\ leader'[p] = leader[p]
    BY <1>1, <1>5, <2>1 DEF Sound, Live, Room, party
  <2>5. Told(p)'
    BY <1>1, <2>1, RunKept DEF SameRun, run
  <2>6. Following(p, req[r])'
    BY <1>7, <1>8, <2>5, PlainFollowing DEF Telling
  <2>7. /\ req'[r].pc = "setLeader" /\ req'[r].seen = status'[p]
        /\ req'[r].u \in MembersOf(p)' \intersect req'[r].held /\ leader'[p] = req'[r].u
        /\ req'[r].t # req'[r].u /\ LeadersOf(p)' = {req'[r].u, req'[r].t}
    BY <1>5, <1>7, <1>8, <2>2, <2>3, <2>4
  <2>8. Handled(p, req[r])'
    BY <2>4, <2>7 DEF Handled, Plain, InRun
  <2> QED BY <1>5, <1>7, <1>8, <2>1, <2>6, <2>8 DEF Fitted
<1>10. \A u \in MembersOf(p)' : u \in MembersOf(p)
  BY <1>5
<1> HIDE DEF s, c, t
<1> QED BY <1>1, <1>3, <1>5, <1>6, <1>7, <1>8, <1>9, <1>10, Rowing

(* Rows are deleted: the others' row ids of p become stale.                *)
Without(q, U) == [q EXCEPT !.held = @ \ U]
LEMMA DropIs ==
  ASSUME PartyTypeOK, NEW r \in Requests, NEW p \in Parties, req[r].p = p, exposed' = exposed,
         req' = [o \in Requests |-> req'[o]], req'[r] \in Request,
         \A o \in Requests \ {r} :
           req'[o] = req[o] \/ (req[o].p = p /\ \E U : req'[o] = Without(req[o], U))
  PROVE  req' \in [Requests -> Request] /\ Others(r)
<1>1. \A o \in Requests : \A U :
        /\ Without(req[o], U) \in Request /\ Without(req[o], U).pc = req[o].pc
        /\ Without(req[o], U).u = req[o].u /\ Without(req[o], U).p = req[o].p
  BY DEF Request, Without, PartyTypeOK
<1>2. \A o \in Requests : req[o] \in Request
  BY DEF PartyTypeOK
<1>3. \A o \in Requests : req'[o] \in Request
  BY <1>1, <1>2
<1>4. req' \in [Requests -> Request]
  BY <1>3
<1>5. Others(r)
  BY <1>1 DEF Others
<1> QED BY <1>4, <1>5

(* The row of the target is deleted.                                       *)
LEMMA DeleteRowAdvances ==
  ASSUME PartyInv, NEW r \in Requests, NEW p \in Parties, req[r].p = p, DeleteRow(r)
  PROVE  Advance(r, p)
<1> DEFINE t == req[r].t
           again == [req[r] EXCEPT !.pc = "reopen", !.held = {}]
           next == IF req[r].seen = "FULL" THEN again ELSE NoRequest
           rest == IF t \in req[r].held THEN Remaining(p, t) ELSE members[p]
<1>1. /\ req[r].pc = "deleteRow" /\ UNCHANGED <<party, run>>
      /\ DropRows(r, p, {t} \intersect req[r].held, rest, next)
  BY DEF DeleteRow, DropTarget
<1>2. /\ members[p] \in Seq(Row) /\ RowsOf(p) /\ req[r] \in Request /\ Shape(req[r])
  BY <1>1, AtWork
<1>3. rest \in Seq(Row)
  BY <1>2, RemainingRows
<1>4. /\ again \in Request /\ again.pc = "reopen" /\ again.u = req[r].u /\ again.p = p
  BY <1>2 DEF Request, Labels
<1> HIDE DEF again
<1>5. Shape(again) /\ Goes(req[r], again)
  BY <1>1, <1>2, <1>4, Onward DEF InRun, Goes, Beginning
<1>6. /\ next \in Request /\ Shape(next) /\ Goes(req[r], next)
      /\ req[r].seen = "FULL" => next.pc = "reopen" /\ next.p = p
      /\ req[r].seen # "FULL" => next.p # p
  <2>1. /\ NoRequest \in Request /\ Shape(NoRequest) /\ NoRequest.p # p /\ Goes(req[r], NoRequest)
    BY NoRequestIs, MembershipAssumption DEF Goes, Beginning
  <2> QED BY <1>4, <1>5, <2>1
<1>7. /\ members' \in [Parties -> Seq(Row)] /\ members'[p] = rest
      /\ \A o \in Parties \ {p} : members'[o] = members[o]
      /\ req' \in [Requests -> Request] /\ req'[r] = next /\ Others(r)
  <2> DEFINE U == {t} \intersect req[r].held
  <2>1. /\ members' = [members EXCEPT ![p] = rest] /\ exposed' = exposed
        /\ req' = [o \in Requests |->
                     IF o = r THEN next
                     ELSE IF req[o].p = p THEN Without(req[o], U) ELSE req[o]]
    BY <1>1 DEF DropRows, Without
  <2> HIDE DEF rest, next, U
  <2>2. /\ members' \in [Parties -> Seq(Row)] /\ members'[p] = rest
        /\ \A o \in Parties \ {p} : members'[o] = members[o]
    BY <1>3, <2>1, RowsReplaced DEF PartyInv
  <2>3. /\ req' = [o \in Requests |-> req'[o]] /\ req'[r] = next
        /\ \A o \in Requests \ {r} :
             req'[o] = req[o] \/ (req[o].p = p /\ \E V : req'[o] = Without(req[o], V))
    BY <2>1
  <2>4. req' \in [Requests -> Request] /\ Others(r)
    BY <1>6, <2>1, <2>3, DropIs DEF PartyInv
  <2> QED BY <2>2, <2>3, <2>4
<1> HIDE DEF next
<1>8. RowsOf(p)' /\ \A u \in MembersOf(p)' : u \in MembersOf(p)
  <2>1. CASE t \in req[r].held
    BY <1>2, <1>7, <2>1, RemainingIs
  <2>2. CASE t \notin req[r].held
    BY <1>2, <1>7, <2>2 DEF RowsOf, MembersOf
  <2> QED BY <2>1, <2>2
<1>9. ASSUME p \notin exposed PROVE Fitted(p, r)
  <2>1. /\ Live(p) /\ Told(p) /\ Len(members[p]) <= MaxMembers
        /\ Room(p) /\ t \in MembersOf(p) \intersect req[r].held
        /\ t # leader[p] /\ LeadersOf(p) \ {t} = {leader[p]} /\ req[r].seen = status[p]
    BY <1>1, <1>9, AtWork DEF Handled, Following, Telling
  <2>2. members'[p] = Remaining(p, t)
    BY <1>7, <2>1
  <2>3. LeadersOf(p)' = {leader[p]} /\ Len(members'[p]) = Len(members[p]) - 1
    BY <1>2, <2>1, <2>2, RemainingIs
  <2>4. Live(p)' /\ Led(p)' /\ status'[p] = status[p]
    BY <1>1, <2>1, <2>3 DEF Live, Led, party
  <2>5. Told(p)'
    BY <1>1, <2>1, RunKept DEF SameRun, run
  <2>6. Len(members'[p]) <= MaxMembers /\ Len(members'[p]) < MaxMembers
    <3>1. Len(members[p]) \in Nat /\ MaxMembers \in Nat
      BY <1>2, MembershipAssumption
    <3> QED BY <2>1, <2>3, <3>1
  <2>7. CASE req[r].seen = "FULL"
    <3>1. req'[r].pc = "reopen" /\ req'[r].p = p
      BY <1>6, <1>7, <2>7
    <3>2. Following(p, req[r])'
      BY <2>5, <3>1, PlainFollowing DEF Telling
    <3>3. Handled(p, req[r])'
      BY <2>4, <2>6, <3>1 DEF Handled, Plain, InRun
    <3> QED BY <2>6, <3>1, <3>2, <3>3 DEF Fitted
  <2>8. CASE req[r].seen # "FULL"
    <3>1. Sound(p)'
      BY <2>1, <2>4, <2>6, <2>8 DEF Sound, Room
    <3> QED BY <1>6, <1>7, <2>5, <2>6, <2>8, <3>1 DEF Fitted
  <2> QED BY <2>7, <2>8
<1> HIDE DEF rest, t
<1> QED BY <1>1, <1>6, <1>7, <1>8, <1>9, Rowing

(* All rows are deleted.                                                   *)
LEMMA DeleteAllAdvances ==
  ASSUME PartyInv, NEW r \in Requests, NEW p \in Parties, req[r].p = p, DeleteAll(r)
  PROVE  Advance(r, p)
<1> DEFINE next == [req[r] EXCEPT !.pc = "markDisbanded", !.held = {}]
<1>1. /\ req[r].pc = "deleteAll" /\ UNCHANGED <<party, run>> /\ DropRows(r, p, Users, <<>>, next)
  BY DEF DeleteAll
<1>2. req[r] \in Request /\ Shape(req[r])
  BY <1>1, AtWork
<1>3. next \in Request /\ next.pc = "markDisbanded" /\ next.u = req[r].u /\ next.p = p
  BY <1>2 DEF Request, Labels
<1> HIDE DEF next
<1>4. Shape(next) /\ Goes(req[r], next)
  BY <1>1, <1>2, <1>3, Onward DEF InRun, Goes, Beginning
<1>5. /\ members' \in [Parties -> Seq(Row)] /\ members'[p] = <<>>
      /\ \A o \in Parties \ {p} : members'[o] = members[o]
      /\ req' \in [Requests -> Request] /\ req'[r] = next /\ Others(r)
  <2>1. <<>> \in Seq(Row)
    OBVIOUS
  <2>2. /\ members' = [members EXCEPT ![p] = <<>>] /\ exposed' = exposed
        /\ req' = [o \in Requests |->
                     IF o = r THEN next
                     ELSE IF req[o].p = p THEN Without(req[o], Users) ELSE req[o]]
    BY <1>1 DEF DropRows, Without
  <2>3. /\ members' \in [Parties -> Seq(Row)] /\ members'[p] = <<>>
        /\ \A o \in Parties \ {p} : members'[o] = members[o]
    BY <2>1, <2>2, RowsReplaced DEF PartyInv
  <2>4. /\ req' = [o \in Requests |-> req'[o]] /\ req'[r] = next
        /\ \A o \in Requests \ {r} :
             req'[o] = req[o] \/ (req[o].p = p /\ \E V : req'[o] = Without(req[o], V))
    BY <2>2
  <2>5. req' \in [Requests -> Request] /\ Others(r)
    BY <1>3, <2>2, <2>4, DropIs DEF PartyInv
  <2> QED BY <2>3, <2>4, <2>5
<1>6. Len(members'[p]) = 0 /\ RowsOf(p)' /\ MembersOf(p)' = {}
  BY <1>5, Emptied
<1>7. ASSUME p \notin exposed PROVE Fitted(p, r)
  <2>1. Live(p) /\ Told(p)
    BY <1>1, <1>7, AtWork DEF Handled, Following, Telling
  <2>2. Live(p)' /\ Told(p)'
    BY <1>1, <2>1, RunKept DEF SameRun, run, Live, party
  <2>3. Following(p, req[r])'
    BY <1>3, <1>5, <2>2, PlainFollowing DEF Telling
  <2>4. Handled(p, req[r])'
    BY <1>3, <1>5, <2>2 DEF Handled, Plain, InRun
  <2>5. 0 <= MaxMembers
    BY MembershipAssumption
  <2> QED BY <1>3, <1>5, <1>6, <2>3, <2>4, <2>5 DEF Fitted
<1> QED BY <1>1, <1>4, <1>5, <1>6, <1>7, Rowing

(* The flags of all rows are reset.                                        *)
LEMMA ResetReadyAdvances ==
  ASSUME PartyInv, NEW r \in Requests, NEW p \in Parties, req[r].p = p, ResetReady(r)
  PROVE  Advance(r, p)
<1> DEFINE s == [i \in DOMAIN members[p] |-> [members[p][i] EXCEPT !.ready = FALSE]]
<1>1. /\ req[r].pc \in {"resetReady", "resetInvited"} /\ UNCHANGED <<party, run>>
      /\ members' = [members EXCEPT ![p] = s]
      /\ IF req[r].pc = "resetReady" THEN Proceed(r, "storeProfiles") ELSE Done(r)
  BY DEF ResetReady
<1>2. members[p] \in Seq(Row) /\ RowsOf(p)
  BY <1>1, AtWork
<1>3. members'[p] = s /\ \A o \in Parties \ {p} : members'[o] = members[o]
  BY <1>1 DEF PartyInv, PartyTypeOK
<1>4. /\ members'[p] \in Seq(Row) /\ Len(members'[p]) = Len(members[p])
      /\ \A i \in 1..Len(members[p]) :
           members'[p][i].user = members[p][i].user /\ members'[p][i].role = members[p][i].role
  <2>1. /\ Len(members[p]) \in Nat /\ DOMAIN members[p] = 1..Len(members[p])
        /\ \A i \in 1..Len(members[p]) : members[p][i] \in Row
    BY <1>2
  <2>2. \A i \in 1..Len(members[p]) :
          /\ s[i] \in Row /\ s[i].user = members[p][i].user /\ s[i].role = members[p][i].role
    BY <2>1 DEF Row
  <2>3. s \in [1..Len(members[p]) -> Row]
    BY <2>1, <2>2
  <2> HIDE DEF s
  <2> QED BY <1>3, <2>1, <2>2, <2>3
<1> HIDE DEF s
<1>5. members' \in [Parties -> Seq(Row)]
  BY <1>1, <1>3, <1>4 DEF PartyInv, PartyTypeOK
<1>6. RowsOf(p)' /\ MembersOf(p)' = MembersOf(p) /\ LeadersOf(p)' = LeadersOf(p)
  BY <1>2, <1>4, Flagged
<1>7. PICK n \in Request :
        /\ Shape(n) /\ Turned(r, n) /\ Goes(req[r], n)
        /\ IF req[r].pc = "resetReady" THEN n.p = p /\ n.pc = "storeProfiles" ELSE n.p # p
  <2>1. CASE req[r].pc = "resetReady"
    <3> DEFINE n == Moved(req[r], "storeProfiles")
    <3>1. /\ n \in Request /\ Shape(n) /\ Turned(r, n) /\ Goes(req[r], n)
          /\ n.pc = "storeProfiles" /\ n.p = p
      BY <1>1, <2>1, GoesOn DEF Labels, Beginning, InRun
    <3> HIDE DEF n
    <3> QED BY <2>1, <3>1
  <2>2. CASE req[r].pc # "resetReady"
    <3>1. /\ NoRequest \in Request /\ Shape(NoRequest) /\ Turned(r, NoRequest)
          /\ Goes(req[r], NoRequest) /\ NoRequest.p # p
      BY <1>1, <2>2, DoneIs
    <3> QED BY <2>2, <3>1
  <2> QED BY <2>1, <2>2
<1>8. req' \in [Requests -> Request] /\ req'[r] = n /\ Others(r)
  BY <1>7, TurnedIs DEF PartyInv
<1>9. ASSUME p \notin exposed PROVE Fitted(p, r)
  <2>1. Sound(p) /\ Live(p) /\ Told(p) /\ Len(members[p]) <= MaxMembers
    BY <1>1, <1>9, PlainIs, AtWork DEF Plain, Telling
  <2>2. req[r].pc = "resetReady" => Absent(p)
    BY <1>1, <1>9, AtWork DEF Following
  <2>3. Sound(p)' /\ Live(p)'
    BY <1>1, <1>4, <1>6, <2>1 DEF Sound, Live, Led, Room, party
  <2>4. Told(p)' /\ (req[r].pc = "resetReady" => Absent(p)')
    BY <1>1, <2>1, <2>2, RunKept DEF SameRun, run
  <2>5. CASE req[r].pc = "resetReady"
    <3>1. n.p = p /\ req'[r].pc = "storeProfiles"
      BY <1>7, <1>8, <2>5
    <3>2. Handled(p, req[r])'
      BY <2>3, <3>1, PlainHandled DEF Plain
    <3>3. Following(p, req[r])'
      BY <2>4, <2>5, <3>1 DEF Following, Telling
    <3> QED BY <1>4, <1>8, <2>1, <3>1, <3>2, <3>3 DEF Fitted
  <2>6. CASE req[r].pc # "resetReady"
    BY <1>4, <1>7, <1>8, <2>1, <2>3, <2>4, <2>6 DEF Fitted
  <2> QED BY <2>5, <2>6
<1>10. \A u \in MembersOf(p)' : u \in MembersOf(p)
  BY <1>6
<1> QED BY <1>1, <1>3, <1>5, <1>6, <1>7, <1>8, <1>9, <1>10, Rowing

-----------------------------------------------------------------------------
(* An advance of a request keeps the invariant.                            *)

LEMMA AdvanceShapes ==
  ASSUME PartyInv, NEW r \in Requests, NEW p \in Parties, req[r].p = p, Advance(r, p)
  PROVE  Shapes' /\ Rows'
<1>1. ASSUME NEW o \in Requests PROVE Shape(req'[o])
  <2>1. CASE o = r
    BY <2>1 DEF Advance
  <2>2. CASE o # r
    <3>1. /\ req'[o].pc = req[o].pc /\ req'[o].u = req[o].u /\ req'[o].p = req[o].p
          /\ req[o].p # p => req'[o] = req[o]
      BY <2>2 DEF Advance, Others
    <3>2. Shape(req[o])
      BY DEF PartyInv, Shapes
    <3>3. CASE req[o].pc = "idle"
      <4>1. req[o].p # p
        BY <3>2, <3>3, NoRequestIs, MembershipAssumption DEF Shape
      <4> QED BY <3>1, <3>2, <4>1
    <3>4. CASE req[o].pc # "idle"
      <4>1. req'[o] # NoRequest
        BY <3>1, <3>4, NoRequestIs
      <4> QED BY <3>1, <3>2, <3>4, <4>1 DEF Shape
    <3> QED BY <3>3, <3>4
  <2> QED BY <2>1, <2>2
<1>2. ASSUME NEW x \in Parties PROVE RowsOf(x)'
  <2>1. CASE x = p
    BY <2>1 DEF Advance
  <2>2. CASE x # p
    <3>1. members'[x] = members[x] /\ RowsOf(x)
      BY <2>2 DEF Advance, Untouched, PartyInv, Rows
    <3> QED BY <3>1 DEF RowsOf
  <2> QED BY <2>1, <2>2
<1> QED BY <1>1, <1>2 DEF Shapes, Rows

(* What the requests are about after an advance.                           *)
LEMMA AdvanceAbout ==
  ASSUME PartyInv, NEW r \in Requests, NEW p \in Parties, req[r].p = p, Advance(r, p),
         NEW o \in Requests
  PROVE  /\ \A x \in Parties : req'[o].p = x => req[o].p = x
         /\ \A u \in Users : req'[o].u = u => req[o].u = u
         /\ req'[o].pc = "insertLeader" => o # r /\ req[o].pc = "insertLeader"
         /\ req[o].p # p => req'[o] = req[o]
         /\ o # r => req'[o].pc = req[o].pc /\ req'[o].p = req[o].p
<1>1. CASE o = r
  <2>1. Goes(req[r], req'[r])
    BY DEF Advance
  <2> QED BY <1>1, <2>1, MembershipAssumption DEF Goes
<1>2. CASE o # r
  BY <1>2 DEF Advance, Others
<1> QED BY <1>1, <1>2

LEMMA AdvanceNewborn ==
  ASSUME PartyInv, NEW r \in Requests, NEW p \in Parties, req[r].p = p, Advance(r, p)
  PROVE  Newborn'
<1>1. ASSUME NEW x \in Parties, status'[x] = "NONE"
      PROVE  members'[x] = <<>> /\ runs'[x] = 0 /\ \A o \in Requests : req'[o].p # x
  <2>1. x # p /\ Untouched(x)
    BY <1>1 DEF Advance
  <2>2. members[x] = <<>> /\ runs[x] = 0 /\ \A o \in Requests : req[o].p # x
    BY <1>1, <2>1 DEF Untouched, PartyInv, Newborn
  <2> QED BY <2>1, <2>2, AdvanceAbout DEF Untouched
<1>2. ASSUME NEW o \in Requests, req'[o].pc = "insertLeader"
      PROVE  /\ Sole(o)'
             /\ status'[req'[o].p] = "OPEN" /\ leader'[req'[o].p] = req'[o].u
             /\ members'[req'[o].p] = <<>> /\ runs'[req'[o].p] = 0
  <2>1. o # r /\ req[o].pc = "insertLeader"
    BY <1>2, AdvanceAbout
  <2>2. /\ Sole(o) /\ req[o].p \in Parties
        /\ status[req[o].p] = "OPEN" /\ leader[req[o].p] = req[o].u
        /\ members[req[o].p] = <<>> /\ runs[req[o].p] = 0
    BY <2>1 DEF PartyInv, Newborn, Shapes, Shape
  <2>3. req[o].p # p
    BY <2>1, <2>2 DEF Sole
  <2>4. req'[o] = req[o] /\ Untouched(req[o].p)
    BY <2>2, <2>3, AdvanceAbout DEF Advance
  <2>5. Sole(o)'
    BY <2>2, <2>4, AdvanceAbout DEF Sole
  <2> QED BY <2>2, <2>4, <2>5 DEF Untouched
<1> QED BY <1>1, <1>2 DEF Newborn

LEMMA AdvanceSingles ==
  ASSUME PartyInv, NEW r \in Requests, NEW p \in Parties, req[r].p = p, Advance(r, p)
  PROVE  Singles'
<1> SUFFICES ASSUME NEW u \in Users, u \notin exposed PROVE Single(u)'
  BY DEF Singles, Advance, Others
<1>1. Single(u)
  BY DEF PartyInv, Singles
<1> DEFINE grows == req[r].u = u /\ req[r].pc \in {"insertLeader", "insertMember"}
<1>2. \A x \in Parties : u \in MembersOf(x)' => u \in MembersOf(x) \/ (x = p /\ grows)
  <2> SUFFICES ASSUME NEW x \in Parties, u \in MembersOf(x)'
               PROVE  u \in MembersOf(x) \/ (x = p /\ grows)
    OBVIOUS
  <2>1. CASE x = p
    BY <2>1 DEF Advance
  <2>2. CASE x # p
    BY <2>2 DEF Advance, Untouched, MembersOf
  <2> QED BY <2>1, <2>2
<1>3. grows => PartiesOf(u) = {}
  BY <1>1 DEF Single, Beginning
<1>4. \A x : x \in PartiesOf(u)' => x \in PartiesOf(u) \/ (x = p /\ grows)
  BY <1>2 DEF PartiesOf
<1>5. \A o \in Requests : req'[o].u = u => req[o].u = u
  BY AdvanceAbout
<1>6. \A o, x \in Requests : req'[o].u = u /\ req'[x].u = u => o = x
  BY <1>1, <1>5 DEF Single
<1>7. \A x, y \in PartiesOf(u)' : x = y
  <2> HIDE DEF grows
  <2>1. \A x, y \in PartiesOf(u) : x = y
    BY <1>1 DEF Single
  <2> QED BY <1>3, <1>4, <2>1
<1>8. ASSUME NEW o \in Requests, req'[o].u = u, req'[o].pc \in Beginning
      PROVE  PartiesOf(u)' = {}
  <2>1. req[o].u = u
    BY <1>5, <1>8
  <2>2. CASE o = r
    <3>1. req[r].pc \in {"readParty", "countMembers"}
      BY <1>8, <2>2 DEF Advance, Goes
    <3>2. PartiesOf(u) = {} /\ ~ grows
      BY <1>1, <2>1, <2>2, <3>1 DEF Single, Beginning
    <3> QED BY <1>4, <3>2
  <2>3. CASE o # r
    <3>1. req[o].pc \in Beginning
      BY <1>8, <2>3, AdvanceAbout
    <3>2. PartiesOf(u) = {} /\ ~ grows
      BY <1>1, <2>1, <2>3, <3>1 DEF Single
    <3> QED BY <1>4, <3>2
  <2> QED BY <2>2, <2>3
<1> QED BY <1>6, <1>7, <1>8 DEF Single

(* A party a step leaves alone, with its requests, fits as before.         *)
LEMMA FittingKept ==
  ASSUME NEW x, Fitting(x), Untouched(x),
         \A o \in Requests : (req'[o].p = x => req[o].p = x) /\ (req[o].p = x => req'[o] = req[o])
  PROVE  Fitting(x)'
<1>1. SameBooks(x) /\ SameRun(x) /\ members'[x] = members[x] /\ status'[x] = status[x]
  BY DEF Untouched, SameBooks, SameRun
<1>2. Sound(x)' = Sound(x) /\ Told(x)' = Told(x)
  BY <1>1, BooksKept, RunKept
<1>3. ASSUME NEW o \in Requests, req'[o].p = x
      PROVE  Handled(x, req[o])' /\ Following(x, req[o])'
  <2>1. req[o].p = x /\ req'[o] = req[o]
    BY <1>3
  <2>2. Handled(x, req[o]) /\ Following(x, req[o])
    BY <2>1 DEF Fitting
  <2>3. /\ Live(x)' = Live(x) /\ Led(x)' = Led(x) /\ Room(x)' = Room(x) /\ Sound(x)' = Sound(x)
        /\ MembersOf(x)' = MembersOf(x) /\ LeadersOf(x)' = LeadersOf(x)
    BY <1>1, BooksKept
  <2>4. Handled(x, req[o])'
    BY <1>1, <2>1, <2>2, <2>3 DEF Handled, SameBooks
  <2>5. /\ Told(x)' = Told(x) /\ Absent(x)' = Absent(x)
        /\ \A u, L : Agree(x, u, L)' = Agree(x, u, L)
    BY <1>1, RunKept
  <2>6. Following(x, req[o])'
    BY <1>1, <2>1, <2>2, <2>5 DEF Following, SameRun
  <2> QED BY <2>4, <2>6
<1> QED BY <1>1, <1>2, <1>3 DEF Fitting

LEMMA AdvanceFits ==
  ASSUME PartyInv, NEW r \in Requests, NEW p \in Parties, req[r].p = p, Advance(r, p)
  PROVE  Fits'
<1> SUFFICES ASSUME NEW x \in Parties, x \notin exposed PROVE Fitting(x)'
  BY DEF Fits, Advance, Others
<1>1. Fitting(x)
  BY DEF PartyInv, Fits
<1>2. CASE x # p
  <2>1. Untouched(x)
    BY <1>2 DEF Advance
  <2>2. \A o \in Requests : (req'[o].p = x => req[o].p = x) /\ (req[o].p = x => req'[o] = req[o])
    BY <1>2, AdvanceAbout
  <2> QED BY <1>1, <2>1, <2>2, FittingKept
<1>3. CASE x = p
  <2>1. Fitted(p, r)
    BY <1>3 DEF Advance
  <2>2. \A o \in Requests : req'[o].p = p => o = r
    BY <1>1, <1>3, AdvanceAbout DEF Fitting
  <2>3. status'[p] = "DISBANDED" => members'[p] = <<>>
    <3>1. CASE req'[r].p = p
      BY <2>1, <3>1 DEF Fitted, Handled, Sound, Live
    <3>2. CASE req'[r].p # p
      BY <2>1, <3>2 DEF Fitted, Sound, Live
    <3> QED BY <3>1, <3>2
  <2>4. \A o \in Requests : req'[o].p = p => Handled(p, req[o])' /\ Following(p, req[o])'
    BY <2>1, <2>2 DEF Fitted
  <2>5. (\A o \in Requests : req'[o].p # p) => Sound(p)' /\ Told(p)'
    BY <2>1 DEF Fitted
  <2> QED BY <1>3, <2>1, <2>2, <2>3, <2>4, <2>5 DEF Fitting, Fitted
<1> QED BY <1>2, <1>3

LEMMA AdvanceKeeps ==
  ASSUME PartyInv, NEW r \in Requests, NEW p \in Parties, req[r].p = p, Advance(r, p)
  PROVE  PartyInv'
<1>1. PartyTypeOK'
  BY DEF Advance
<1> QED BY <1>1, AdvanceShapes, AdvanceNewborn, AdvanceSingles, AdvanceFits DEF PartyInv

-----------------------------------------------------------------------------
(* A new party is known to its creator only.                               *)
LEMMA InsertPartyKeeps ==
  ASSUME PartyInv, NEW r \in Requests, InsertParty(r)
  PROVE  PartyInv'
<1>1. PICK p \in Parties :
        /\ status[p] = "NONE" /\ status' = [status EXCEPT ![p] = "OPEN"]
        /\ leader' = [leader EXCEPT ![p] = req[r].u]
        /\ req' = [req EXCEPT ![r].pc = "insertLeader", ![r].p = p]
  BY DEF InsertParty
<1> DEFINE n == [req[r] EXCEPT !.pc = "insertLeader", !.p = p]
<1>2. /\ req[r].pc = "insertParty" /\ UNCHANGED <<members, run, exposed>>
      /\ req' = [req EXCEPT ![r] = n]
  BY <1>1 DEF InsertParty
<1>3. /\ req[r] \in Request /\ req[r].p = NoParty /\ req[r].u \in Users
      /\ members[p] = <<>> /\ runs[p] = 0 /\ \A o \in Requests : req[o].p # p
  BY <1>1, <1>2 DEF PartyInv, PartyTypeOK, Shapes, Shape, Newborn
<1>4. n \in Request /\ n.pc = "insertLeader" /\ n.p = p /\ n.u = req[r].u
  BY <1>3 DEF Request, Labels
<1> HIDE DEF n
<1>5. /\ req' \in [Requests -> Request] /\ req'[r] = n
      /\ \A o \in Requests \ {r} : req'[o] = req[o]
  BY <1>2, <1>4 DEF PartyInv, PartyTypeOK
<1>6. /\ status' \in [Parties -> PartyStatus] /\ leader' \in [Parties -> Users \union {NoUser}]
      /\ status'[p] = "OPEN" /\ leader'[p] = req[r].u
      /\ \A x \in Parties \ {p} : status'[x] = status[x] /\ leader'[x] = leader[x]
  BY <1>1, <1>3 DEF PartyInv, PartyTypeOK, PartyStatus
<1>7. PartyTypeOK'
  BY <1>2, <1>5, <1>6 DEF PartyInv, PartyTypeOK, run
<1>8. Shapes'
  <2>1. n # NoRequest
    BY <1>4, NoRequestIs
  <2>2. Shape(n)
    BY <1>3, <1>4, <2>1 DEF Shape, InRun
  <2> QED BY <1>5, <2>2 DEF PartyInv, Shapes
<1>9. Rows'
  BY <1>2 DEF PartyInv, Rows, RowsOf
<1>10. Newborn'
  <2>1. ASSUME NEW x \in Parties, status'[x] = "NONE"
        PROVE  members'[x] = <<>> /\ runs'[x] = 0 /\ \A o \in Requests : req'[o].p # x
    <3>1. x # p /\ status[x] = "NONE"
      BY <1>6, <2>1
    <3>2. members[x] = <<>> /\ runs[x] = 0 /\ \A o \in Requests : req[o].p # x
      BY <3>1 DEF PartyInv, Newborn
    <3> QED BY <1>2, <1>4, <1>5, <3>1, <3>2 DEF run
  <2>2. ASSUME NEW o \in Requests, req'[o].pc = "insertLeader"
        PROVE  /\ Sole(o)'
               /\ status'[req'[o].p] = "OPEN" /\ leader'[req'[o].p] = req'[o].u
               /\ members'[req'[o].p] = <<>> /\ runs'[req'[o].p] = 0
    <3>1. CASE o = r
      <4>1. Sole(r)'
        BY <1>3, <1>4, <1>5 DEF Sole
      <4> QED BY <1>2, <1>3, <1>4, <1>5, <1>6, <3>1, <4>1 DEF run
    <3>2. CASE o # r
      <4>1. req'[o] = req[o] /\ req[o].pc = "insertLeader"
        BY <1>5, <2>2, <3>2
      <4>2. /\ Sole(o) /\ req[o].p \in Parties \ {p}
            /\ status[req[o].p] = "OPEN" /\ leader[req[o].p] = req[o].u
            /\ members[req[o].p] = <<>> /\ runs[req[o].p] = 0
        BY <1>3, <4>1 DEF PartyInv, Newborn, Shapes, Shape
      <4>3. Sole(o)'
        BY <1>4, <1>5, <4>1, <4>2 DEF Sole
      <4> QED BY <1>2, <1>6, <4>1, <4>2, <4>3 DEF run
    <3> QED BY <3>1, <3>2
  <2> QED BY <2>1, <2>2 DEF Newborn
<1>11. Singles'
  <2> SUFFICES ASSUME NEW u \in Users, u \notin exposed PROVE Single(u)'
    BY <1>2 DEF Singles
  <2>1. Single(u)
    BY DEF PartyInv, Singles
  <2>2. PartiesOf(u)' = PartiesOf(u)
    BY <1>2 DEF PartiesOf, MembersOf
  <2>3. \A o \in Requests : req'[o].u = req[o].u /\ (req'[o].pc \in Beginning => req[o].pc \in Beginning)
    BY <1>2, <1>4, <1>5 DEF Beginning
  <2> QED BY <2>1, <2>2, <2>3 DEF Single
<1>12. Fits'
  <2> SUFFICES ASSUME NEW x \in Parties, x \notin exposed PROVE Fitting(x)'
    BY <1>2 DEF Fits
  <2>1. Fitting(x)
    BY DEF PartyInv, Fits
  <2>2. CASE x # p
    <3>1. Untouched(x)
      BY <1>2, <1>6, <2>2 DEF Untouched, run
    <3>2. \A o \in Requests : (req'[o].p = x => req[o].p = x) /\ (req[o].p = x => req'[o] = req[o])
      BY <1>3, <1>4, <1>5, <2>2, MembershipAssumption
    <3> QED BY <2>1, <3>1, <3>2, FittingKept
  <2>3. CASE x = p
    <3>1. Told(p)'
      BY <1>2, <1>3, <2>1, <2>3, RunKept DEF Fitting, SameRun, run
    <3>2. members'[p] = <<>> /\ Len(members'[p]) <= MaxMembers
      BY <1>2, <1>3, <2>1, <2>3 DEF Fitting
    <3>3. \A o \in Requests : req'[o].p = p => o = r
      BY <1>3, <1>5
    <3>4. req'[r].pc = "insertLeader" /\ req'[r].p = p
      BY <1>4, <1>5
    <3>5. Handled(p, req[r])'
      BY <1>6, <3>4 DEF Handled, Plain, InRun, Live
    <3>6. Following(p, req[r])'
      BY <3>1, <3>4, PlainFollowing DEF Telling
    <3>7. status'[p] # "DISBANDED"
      BY <1>6
    <3>8. \A o \in Requests : req'[o].p = p => Handled(p, req[o])' /\ Following(p, req[o])'
      BY <3>3, <3>5, <3>6
    <3> QED BY <2>3, <3>2, <3>3, <3>4, <3>7, <3>8 DEF Fitting
  <2> QED BY <2>2, <2>3
<1> QED BY <1>7, <1>8, <1>9, <1>10, <1>11, <1>12 DEF PartyInv

-----------------------------------------------------------------------------
(* A request starts.                                                       *)

(* What the record of a new request says, and what its start may change.   *)
Starts(r) ==
  LET q == req'[r] IN
  /\ req[r] = NoRequest /\ q \in Request /\ Shape(q)
  /\ q.pc \notin {"idle", "insertLeader"} /\ q.u \in Users
  /\ req' = [o \in Requests |-> req'[o]] /\ UNCHANGED <<party, run>>
  /\ members' \in [Parties -> Seq(Row)]
  /\ \A x \in Parties :
       \/ members'[x] = members[x]
       \/ status[x] = "DISBANDED" /\ q.u \in MembersOf(x) /\ members'[x] = Remaining(x, q.u)
  /\ \A o \in Requests \ {r} :
       \/ req'[o] = req[o]
       \/ req[o].p \in Parties \intersect exposed /\ \E U : req'[o] = Without(req[o], U)
  /\ exposed' = exposed \union
       {x \in {q.u, q.p} \ {NoUser, NoParty} :
          \E o \in Requests \ {r} : x \in {req[o].u, req[o].p}}
  /\ q.p # NoParty =>
       status[q.p] # "NONE" /\ \A o \in Requests : req[o].p = q.p => req[o].pc # "insertLeader"
  /\ q.pc \in Beginning /\ PartiesOf(q.u) # {} =>
       \E x \in PartiesOf(q.u) : members'[x] = Remaining(x, q.u)
  /\ q.p \in Parties \ exposed /\ Sound(q.p) /\ Told(q.p) => Handled(q.p, q) /\ Following(q.p, q)

(* Without rows there are no members.                                      *)
LEMMA Nobody ==
  ASSUME NEW x, members[x] = <<>>
  PROVE  MembersOf(x) = {}
<1>1. ToSet(members[x]) = {}
  BY DEF ToSet
<1> QED BY <1>1 DEF MembersOf

(* The rows of a disbanded party that a start deletes are in an exposed    *)
(* one; the requests but r go on as they were.                             *)
LEMMA StartIs ==
  ASSUME PartyInv, NEW r \in Requests, Starts(r)
  PROVE  /\ exposed \subseteq exposed' /\ exposed' \subseteq Users \union Parties
         /\ \A x \in Parties \ exposed : Untouched(x)
         /\ \A o \in Requests \ {r} :
              /\ req'[o] \in Request /\ req'[o].pc = req[o].pc /\ req'[o].u = req[o].u
              /\ req'[o].p = req[o].p /\ (req[o].p \notin exposed => req'[o] = req[o])
<1>1. exposed \subseteq exposed' /\ exposed' \subseteq Users \union Parties
  BY DEF Starts, PartyInv, PartyTypeOK, Request
<1>2. ASSUME NEW x \in Parties, x \notin exposed PROVE Untouched(x)
  <2>1. Fitting(x) /\ members[x] \in Seq(Row)
    BY <1>2 DEF PartyInv, PartyTypeOK, Fits
  <2>2. CASE status[x] = "DISBANDED"
    <3>1. members[x] = <<>>
      BY <2>1, <2>2 DEF Fitting
    <3>2. MembersOf(x) = {}
      BY <3>1, Nobody
    <3>3. members'[x] = members[x]
      BY <3>2 DEF Starts
    <3> QED BY <3>3 DEF Starts, Untouched, party, run
  <2>3. CASE status[x] # "DISBANDED"
    BY <2>3 DEF Starts, Untouched, party, run
  <2> QED BY <2>2, <2>3
<1>3. \A o \in Requests : req[o] \in Request
  BY DEF PartyInv, PartyTypeOK
<1>4. \A o \in Requests : \A U :
        /\ Without(req[o], U) \in Request /\ Without(req[o], U).pc = req[o].pc
        /\ Without(req[o], U).u = req[o].u /\ Without(req[o], U).p = req[o].p
  BY <1>3 DEF Request, Without
<1>5. \A o \in Requests \ {r} :
        \/ req'[o] = req[o]
        \/ req[o].p \in Parties \intersect exposed /\ \E U : req'[o] = Without(req[o], U)
  BY DEF Starts
<1> QED BY <1>1, <1>2, <1>3, <1>4, <1>5

(* Nobody joins a party when a request starts.                             *)
LEMMA StartLeaves ==
  ASSUME PartyInv, NEW r \in Requests, Starts(r), NEW x \in Parties
  PROVE  /\ RowsOf(x)' /\ MembersOf(x)' \subseteq MembersOf(x)
         /\ members'[x] = Remaining(x, req'[r].u) => req'[r].u \notin MembersOf(x)'
         /\ members[x] = <<>> => members'[x] = <<>>
<1> DEFINE u == req'[r].u
<1>1. members[x] \in Seq(Row) /\ RowsOf(x)
  BY DEF PartyInv, PartyTypeOK, Rows
<1>2. CASE members'[x] = Remaining(x, u)
  <2>1. PICK v : v = u
    OBVIOUS
  <2>2. members'[x] = Remaining(x, v)
    BY <1>2, <2>1
  <2>3. RowsOf(x)' /\ MembersOf(x)' = MembersOf(x) \ {v}
    BY <1>1, <2>2, RemainingIs
  <2>4. members[x] = <<>> => members'[x] = <<>>
    <3>1. members[x] = <<>> => v \notin MembersOf(x)
      BY Nobody
    <3> QED BY <1>1, <2>2, <3>1, RemainingIs
  <2> QED BY <2>1, <2>3, <2>4
<1>3. CASE members'[x] # Remaining(x, u)
  <2>1. members'[x] = members[x]
    BY <1>3 DEF Starts
  <2> QED BY <1>1, <1>3, <2>1 DEF RowsOf, MembersOf
<1> QED BY <1>2, <1>3

LEMMA StartShapes ==
  ASSUME PartyInv, NEW r \in Requests, Starts(r)
  PROVE  PartyTypeOK' /\ Shapes' /\ Rows'
<1>1. \A o \in Requests : req'[o] \in Request
  BY StartIs DEF Starts
<1>2. req' \in [Requests -> Request]
  BY <1>1 DEF Starts
<1>3. PartyTypeOK'
  BY <1>2, StartIs DEF Starts, PartyInv, PartyTypeOK, party, run
<1>4. ASSUME NEW o \in Requests PROVE Shape(req'[o])
  <2>1. CASE o = r
    BY <2>1 DEF Starts
  <2>2. CASE o # r
    <3>1. /\ req'[o].pc = req[o].pc /\ req'[o].u = req[o].u /\ req'[o].p = req[o].p
          /\ req[o].p \in Parties \/ req'[o] = req[o]
      <4>1. req[o].p \in Parties \/ req'[o] = req[o]
        BY <2>2 DEF Starts
      <4> QED BY <2>2, <4>1, StartIs
    <3>2. Shape(req[o])
      BY DEF PartyInv, Shapes
    <3>3. CASE req[o].pc = "idle"
      <4>1. req[o].p \notin Parties
        BY <3>2, <3>3, NoRequestIs, MembershipAssumption DEF Shape
      <4> QED BY <3>1, <3>2, <4>1
    <3>4. CASE req[o].pc # "idle"
      <4>1. req'[o] # NoRequest
        BY <3>1, <3>4, NoRequestIs
      <4> QED BY <3>1, <3>2, <3>4, <4>1 DEF Shape
    <3> QED BY <3>3, <3>4
  <2> QED BY <2>1, <2>2
<1>5. Shapes' /\ Rows'
  BY <1>4, StartLeaves DEF Shapes, Rows
<1> QED BY <1>3, <1>5

LEMMA StartNewborn ==
  ASSUME PartyInv, NEW r \in Requests, Starts(r)
  PROVE  Newborn'
<1>1. ASSUME NEW x \in Parties, status'[x] = "NONE"
      PROVE  members'[x] = <<>> /\ runs'[x] = 0 /\ \A o \in Requests : req'[o].p # x
  <2>1. status[x] = "NONE"
    BY <1>1 DEF Starts, party
  <2>2. members[x] = <<>> /\ runs[x] = 0 /\ \A o \in Requests : req[o].p # x
    BY <2>1 DEF PartyInv, Newborn
  <2>3. req'[r].p # x
    BY <2>1, MembershipAssumption DEF Starts
  <2>4. \A o \in Requests : req'[o].p # x
    BY <2>2, <2>3, StartIs
  <2>5. members'[x] = <<>> /\ runs'[x] = 0
    BY <2>2, StartLeaves DEF Starts, run
  <2> QED BY <2>4, <2>5
<1>2. ASSUME NEW o \in Requests, req'[o].pc = "insertLeader"
      PROVE  /\ Sole(o)'
             /\ status'[req'[o].p] = "OPEN" /\ leader'[req'[o].p] = req'[o].u
             /\ members'[req'[o].p] = <<>> /\ runs'[req'[o].p] = 0
  <2>1. o # r /\ req[o].pc = "insertLeader" /\ req'[o].p = req[o].p /\ req'[o].u = req[o].u
    <3>1. o # r
      BY <1>2 DEF Starts
    <3> QED BY <1>2, <3>1, StartIs
  <2>2. /\ Sole(o) /\ req[o].p \in Parties
        /\ status[req[o].p] = "OPEN" /\ leader[req[o].p] = req[o].u
        /\ members[req[o].p] = <<>> /\ runs[req[o].p] = 0
    BY <2>1 DEF PartyInv, Newborn, Shapes, Shape
  <2>3. req'[r].p # req[o].p
    BY <2>1, <2>2, MembershipAssumption DEF Starts
  <2>4. Sole(o)'
    BY <2>1, <2>2, <2>3, StartIs DEF Sole
  <2>5. members'[req[o].p] = <<>>
    BY <2>2, StartLeaves
  <2> QED BY <2>1, <2>2, <2>4, <2>5 DEF Starts, party, run
<1> QED BY <1>1, <1>2 DEF Newborn

LEMMA StartSingles ==
  ASSUME PartyInv, NEW r \in Requests, Starts(r)
  PROVE  Singles'
<1> SUFFICES ASSUME NEW u \in Users, u \notin exposed' PROVE Single(u)'
  BY DEF Singles
<1>1. Single(u)
  BY StartIs DEF PartyInv, Singles
<1>2. \A x : x \in PartiesOf(u)' => x \in PartiesOf(u)
  BY StartLeaves DEF PartiesOf
<1>3. \A x, y \in PartiesOf(u)' : x = y
  BY <1>1, <1>2 DEF Single
<1>4. \A o \in Requests : req'[o].u = u => (o = r /\ req'[r].u = u) \/ (o # r /\ req[o].u = u)
  BY StartIs
<1>5. req'[r].u = u => \A o \in Requests \ {r} : req[o].u # u
  BY MembershipAssumption DEF Starts
<1>6. \A o, x \in Requests : req'[o].u = u /\ req'[x].u = u => o = x
  BY <1>1, <1>4, <1>5 DEF Single
<1>7. ASSUME NEW o \in Requests, req'[o].u = u, req'[o].pc \in Beginning
      PROVE  PartiesOf(u)' = {}
  <2>1. CASE o # r
    <3>1. PartiesOf(u) = {}
      BY <1>1, <1>7, <2>1, StartIs DEF Single
    <3> QED BY <1>2, <3>1
  <2>2. CASE o = r
    <3>1. CASE PartiesOf(u) = {}
      BY <1>2, <3>1
    <3>2. CASE PartiesOf(u) # {}
      <4>1. PICK x \in PartiesOf(u) : members'[x] = Remaining(x, req'[r].u)
        BY <1>7, <2>2, <3>2 DEF Starts
      <4>2. x \in Parties /\ u \notin MembersOf(x)'
        BY <1>7, <2>2, <4>1, StartLeaves DEF PartiesOf
      <4>3. x \notin PartiesOf(u)'
        BY <4>2 DEF PartiesOf
      <4>4. \A y \in PartiesOf(u) : y = x
        BY <1>1, <4>1 DEF Single
      <4> QED BY <1>2, <4>3, <4>4
    <3> QED BY <3>1, <3>2
  <2> QED BY <2>1, <2>2
<1> QED BY <1>3, <1>6, <1>7 DEF Single

LEMMA StartFits ==
  ASSUME PartyInv, NEW r \in Requests, Starts(r)
  PROVE  Fits'
<1> SUFFICES ASSUME NEW x \in Parties, x \notin exposed' PROVE Fitting(x)'
  BY DEF Fits
<1>1. x \notin exposed /\ Fitting(x) /\ Untouched(x)
  BY StartIs DEF PartyInv, Fits
<1>2. \A o \in Requests \ {r} : (req'[o].p = x => req[o].p = x) /\ (req[o].p = x => req'[o] = req[o])
  BY <1>1, StartIs
<1>3. req[r].p # x
  BY NoRequestIs, MembershipAssumption DEF Starts
<1>4. CASE req'[r].p # x
  BY <1>1, <1>2, <1>3, <1>4, FittingKept
<1>5. CASE req'[r].p = x
  <2>1. \A o \in Requests \ {r} : req[o].p # x
    BY <1>5, MembershipAssumption DEF Starts
  <2>2. Sound(x) /\ Told(x)
    BY <1>1, <1>3, <2>1 DEF Fitting
  <2>3. Handled(x, req'[r]) /\ Following(x, req'[r])
    BY <1>1, <1>5, <2>2 DEF Starts
  <2>4. SameBooks(x) /\ SameRun(x)
    BY <1>1 DEF Untouched, SameBooks, SameRun
  <2>5. /\ Live(x)' = Live(x) /\ Led(x)' = Led(x) /\ Room(x)' = Room(x) /\ Sound(x)' = Sound(x)
        /\ MembersOf(x)' = MembersOf(x) /\ LeadersOf(x)' = LeadersOf(x)
    BY <2>4, BooksKept
  <2>6. Handled(x, req[r])'
    BY <2>3, <2>4, <2>5 DEF Handled, SameBooks
  <2>7. /\ Told(x)' = Told(x) /\ Absent(x)' = Absent(x)
        /\ \A u, L : Agree(x, u, L)' = Agree(x, u, L)
    BY <2>4, RunKept
  <2>8. Following(x, req[r])'
    BY <2>3, <2>4, <2>7 DEF Following, SameRun
  <2>9. \A o \in Requests : req'[o].p = x => o = r
    BY <1>2, <2>1
  <2>10. members'[x] = members[x] /\ status'[x] = status[x]
    BY <1>1 DEF Untouched
  <2>11. \A o \in Requests : req'[o].p = x => Handled(x, req[o])' /\ Following(x, req[o])'
    BY <2>6, <2>8, <2>9
  <2> QED BY <1>1, <1>5, <2>9, <2>10, <2>11 DEF Fitting
<1> QED BY <1>4, <1>5

LEMMA StartKeeps ==
  ASSUME PartyInv, NEW r \in Requests, Starts(r)
  PROVE  PartyInv'
BY StartShapes, StartNewborn, StartSingles, StartFits DEF PartyInv

(* A request of a member, which deletes no leftover row.                   *)
MemberStarts(r, p) ==
  LET q == req'[r] IN
  /\ req[r] = NoRequest /\ UNCHANGED <<party, members, run>>
  /\ req' = [o \in Requests |-> req'[o]] /\ \A o \in Requests \ {r} : req'[o] = req[o]
  /\ exposed' = exposed \union
       {x \in {q.u, q.p} \ {NoUser, NoParty} :
          \E o \in Requests \ {r} : x \in {req[o].u, req[o].p}}
  /\ q \in Request /\ q.pc \notin {"idle", "insertLeader", "countForEnd", "writeEnd"} \union Beginning
  /\ q.p = p /\ q.u \in Users /\ (q.pc \in InRun => q.u \in Watched)
  /\ status[p] \notin {"NONE", "DISBANDED"} /\ MembersOf(p) # {}

LEMMA MemberStartsIs ==
  ASSUME PartyInv, NEW r \in Requests, NEW p \in Parties, MemberStarts(r, p),
         Sound(p) /\ Live(p) /\ Told(p) => Handled(p, req'[r]) /\ Following(p, req'[r])
  PROVE  PartyInv'
<1> DEFINE q == req'[r]
<1>1. Shape(q)
  <2>1. q # NoRequest
    BY NoRequestIs DEF MemberStarts
  <2> QED BY <2>1 DEF MemberStarts, Shape, Beginning
<1>2. members' \in [Parties -> Seq(Row)] /\ \A x \in Parties : members'[x] = members[x]
  BY DEF MemberStarts, PartyInv, PartyTypeOK
<1>3. Live(p)
  BY DEF MemberStarts, Live, PartyInv, PartyTypeOK, PartyStatus
<1>4. members[p] # <<>>
  BY Nobody DEF MemberStarts
<1>5. \A o \in Requests : req[o].p = p => req[o].pc # "insertLeader"
  BY <1>4 DEF PartyInv, Newborn
<1>6. q.p = p /\ status[p] # "NONE"
  BY DEF MemberStarts
<1>7. q.p \in Parties \ exposed /\ Sound(q.p) /\ Told(q.p) => Handled(q.p, q) /\ Following(q.p, q)
  BY <1>3, <1>6
<1>8. /\ req[r] = NoRequest /\ q \in Request /\ q.pc \notin {"idle", "insertLeader"} \union Beginning
      /\ q.u \in Users
      /\ req' = [o \in Requests |-> req'[o]] /\ UNCHANGED <<party, run>>
      /\ \A o \in Requests \ {r} : req'[o] = req[o]
      /\ exposed' = exposed \union
           {x \in {q.u, q.p} \ {NoUser, NoParty} :
              \E o \in Requests \ {r} : x \in {req[o].u, req[o].p}}
  BY DEF MemberStarts, party, run
<1>9. Starts(r)
  BY <1>1, <1>2, <1>5, <1>6, <1>7, <1>8 DEF Starts
<1> QED BY <1>9, StartKeeps

(* Who is a member has a row, which says who leads.                        *)
LEMMA RowOfIs ==
  ASSUME NEW p \in Parties, members[p] \in Seq(Row), RowsOf(p), NEW u \in MembersOf(p)
  PROVE  RowOf(p, u).role = "LEADER" <=> u \in LeadersOf(p)
<1>1. \E row \in ToSet(members[p]) : row.user = u
  BY DEF MembersOf
<1>2. RowOf(p, u) \in ToSet(members[p]) /\ RowOf(p, u).user = u
  BY <1>1 DEF RowOf
<1>3. RowOf(p, u).role = "LEADER" => u \in LeadersOf(p)
  BY <1>2 DEF LeadersOf
<1>4. ASSUME u \in LeadersOf(p) PROVE RowOf(p, u).role = "LEADER"
  <2>1. PICK x \in ToSet(members[p]) : x.user = u /\ x.role = "LEADER"
    BY <1>4 DEF LeadersOf
  <2>2. ToSet(members[p]) = {members[p][i] : i \in 1..Len(members[p])}
    BY DEF ToSet
  <2>3. PICK i \in 1..Len(members[p]) : x = members[p][i]
    BY <2>1, <2>2
  <2>4. PICK j \in 1..Len(members[p]) : RowOf(p, u) = members[p][j]
    BY <1>2, <2>2
  <2>5. i = j
    BY <1>2, <2>1, <2>3, <2>4 DEF RowsOf
  <2> QED BY <2>1, <2>3, <2>4, <2>5
<1> QED BY <1>3, <1>4

(* A step of Begin that deletes nothing is such a start.                   *)
LEMMA BeginLeaveKeeps ==
  ASSUME PartyInv, NEW r \in Requests, NEW u \in Users, NEW p \in Parties, BeginLeave(r, u, p)
  PROVE  PartyInv'
<1> DEFINE l == IF RowOf(p, u).role = "LEADER" THEN "selectHeir" ELSE "deleteRow"
           q == [NoRequest EXCEPT !.u = u, !.p = p, !.t = u, !.seen = status[p], !.held = {u},
                                  !.pc = l]
<1>1. IsMember(u, p) /\ Begin(r, q, {}) /\ UNCHANGED <<party, run>>
  BY DEF BeginLeave
<1>2. status[p] \in PartyStatus /\ members[p] \in Seq(Row) /\ RowsOf(p)
  BY DEF PartyInv, PartyTypeOK, Rows
<1>3. l \in {"selectHeir", "deleteRow"}
  OBVIOUS
<1>4. /\ q \in Request /\ q.pc = l /\ q.u = u /\ q.p = p /\ q.t = u /\ q.seen = status[p]
      /\ q.held = {u}
  <2> HIDE DEF l
  <2> QED BY <1>2, <1>3 DEF NoRequest, Request, Labels
<1> HIDE DEF q
<1>5. /\ req[r] = NoRequest /\ members' = members /\ req'[r] = q
      /\ req' = [o \in Requests |-> req'[o]] /\ \A o \in Requests \ {r} : req'[o] = req[o]
      /\ exposed' = exposed \union
           {x \in {q.u, q.p} \ {NoUser, NoParty} :
              \E o \in Requests \ {r} : x \in {req[o].u, req[o].p}}
  BY <1>1 DEF Begin, PartyInv, PartyTypeOK
<1>6. MemberStarts(r, p)
  <2>1. /\ q.pc \notin {"idle", "insertLeader", "countForEnd", "writeEnd"} \union Beginning
        /\ q.pc \notin InRun
    BY <1>3, <1>4 DEF Beginning, InRun
  <2> QED BY <1>1, <1>4, <1>5, <2>1 DEF MemberStarts, IsMember
<1>7. ASSUME Sound(p), Live(p), Told(p) PROVE Handled(p, q) /\ Following(p, q)
  <2>1. Following(p, q)
    BY <1>3, <1>4, <1>7 DEF Following, Telling
  <2>2. u \in MembersOf(p) /\ (RowOf(p, u).role = "LEADER" <=> u \in LeadersOf(p))
    BY <1>1, <1>2, RowOfIs DEF IsMember
  <2>3. LeadersOf(p) = {leader[p]} /\ Room(p)
    BY <1>7 DEF Sound, Led
  <2>4. CASE l = "selectHeir"
    <3>1. leader[p] = u
      BY <2>2, <2>3, <2>4
    <3> QED BY <1>4, <1>7, <2>1, <2>2, <2>4, <3>1 DEF Handled, Plain, InRun
  <2>5. CASE l = "deleteRow"
    <3>1. u # leader[p] /\ LeadersOf(p) \ {u} = {leader[p]}
      BY <2>2, <2>3, <2>5
    <3> QED BY <1>4, <1>7, <2>1, <2>2, <2>3, <2>5, <3>1 DEF Handled, Plain, InRun
  <2> QED BY <1>3, <2>4, <2>5
<1> QED BY <1>5, <1>6, <1>7, MemberStartsIs

LEMMA BeginKickKeeps ==
  ASSUME PartyInv, NEW r \in Requests, NEW u \in Users, NEW p \in Parties, NEW target \in Users,
         BeginKick(r, u, p, target)
  PROVE  PartyInv'
<1> DEFINE q == [NoRequest EXCEPT !.u = u, !.p = p, !.t = target, !.seen = status[p],
                                  !.held = {target}, !.pc = "deleteRow"]
<1>1. /\ IsMember(u, p) /\ leader[p] = u /\ target # u /\ target \in MembersOf(p)
      /\ Begin(r, q, {}) /\ UNCHANGED <<party, run>>
  BY DEF BeginKick
<1>2. status[p] \in PartyStatus
  BY DEF PartyInv, PartyTypeOK
<1>4. /\ q \in Request /\ q.pc = "deleteRow" /\ q.u = u /\ q.p = p /\ q.t = target
      /\ q.seen = status[p] /\ q.held = {target}
  BY <1>2 DEF NoRequest, Request, Labels
<1> HIDE DEF q
<1>5. /\ req[r] = NoRequest /\ members' = members /\ req'[r] = q
      /\ req' = [o \in Requests |-> req'[o]] /\ \A o \in Requests \ {r} : req'[o] = req[o]
      /\ exposed' = exposed \union
           {x \in {q.u, q.p} \ {NoUser, NoParty} :
              \E o \in Requests \ {r} : x \in {req[o].u, req[o].p}}
  BY <1>1 DEF Begin, PartyInv, PartyTypeOK
<1>6. MemberStarts(r, p)
  BY <1>1, <1>4, <1>5 DEF MemberStarts, IsMember, Beginning, InRun
<1>7. ASSUME Sound(p), Live(p), Told(p) PROVE Handled(p, q) /\ Following(p, q)
  <2>1. Following(p, q)
    BY <1>4, <1>7 DEF Following, Telling
  <2>2. LeadersOf(p) = {leader[p]} /\ Room(p)
    BY <1>7 DEF Sound, Led
  <2>3. target # leader[p] /\ LeadersOf(p) \ {target} = {leader[p]}
    BY <1>1, <2>2
  <2> QED BY <1>1, <1>4, <1>7, <2>1, <2>2, <2>3 DEF Handled, Plain, InRun
<1> QED BY <1>5, <1>6, <1>7, MemberStartsIs

(* The requests of a member that has read nothing yet.                     *)
LEMMA BareStarts ==
  ASSUME PartyInv, NEW r \in Requests, NEW u \in Users, NEW p \in Parties,
         NEW l \in {"deleteAll", "readLobby", "takeRun", "setLeft"}, IsMember(u, p),
         l = "setLeft" => u \in Watched,
         Begin(r, [NoRequest EXCEPT !.u = u, !.p = p, !.pc = l], {}), UNCHANGED <<party, run>>
  PROVE  PartyInv'
<1> DEFINE q == [NoRequest EXCEPT !.u = u, !.p = p, !.pc = l]
<1>4. q \in Request /\ q.pc = l /\ q.u = u /\ q.p = p /\ q.held = {}
  BY DEF NoRequest, Request, Labels, PartyStatus
<1>1. Begin(r, q, {})
  OBVIOUS
<1> HIDE DEF q
<1>5. /\ req[r] = NoRequest /\ members' = members /\ req'[r] = q
      /\ req' = [o \in Requests |-> req'[o]] /\ \A o \in Requests \ {r} : req'[o] = req[o]
      /\ exposed' = exposed \union
           {x \in {q.u, q.p} \ {NoUser, NoParty} :
              \E o \in Requests \ {r} : x \in {req[o].u, req[o].p}}
  BY <1>1 DEF Begin, PartyInv, PartyTypeOK
<1>6. MemberStarts(r, p)
  BY <1>4, <1>5 DEF MemberStarts, IsMember, Beginning, InRun
<1>7. ASSUME Sound(p), Live(p), Told(p) PROVE Handled(p, q) /\ Following(p, q)
  <2>1. Following(p, q)
    BY <1>4, <1>7 DEF Following, Telling
  <2>2. Handled(p, q)
    BY <1>4, <1>7 DEF Handled, Plain, InRun
  <2> QED BY <2>1, <2>2
<1> QED BY <1>5, <1>6, <1>7, MemberStartsIs

LEMMA MembersBegin ==
  ASSUME PartyInv, NEW r \in Requests, NEW u \in Users, NEW p \in Parties,
         \/ BeginDisband(r, u, p) \/ BeginStart(r, u, p) \/ BeginInvite(r, u, p)
         \/ BeginLeaveDungeon(r, u, p)
  PROVE  PartyInv'
<1>1. CASE BeginDisband(r, u, p)
  BY <1>1, BareStarts DEF BeginDisband
<1>2. CASE BeginStart(r, u, p)
  BY <1>2, BareStarts DEF BeginStart
<1>3. CASE BeginInvite(r, u, p)
  BY <1>3, BareStarts DEF BeginInvite
<1>4. CASE BeginLeaveDungeon(r, u, p)
  BY <1>4, BareStarts DEF BeginLeaveDungeon
<1> QED BY <1>1, <1>2, <1>3, <1>4

(* createParty and joinParty delete the leftover row of their user first.  *)
LEMMA EnsureNotInPartyIs ==
  ASSUME NEW u, NEW D \in EnsureNotInParty(u)
  PROVE  /\ D = {} => PartiesOf(u) = {}
         /\ \A x \in D : x \in PartiesOf(u) /\ status[x] = "DISBANDED"
<1>1. CASE PartiesOf(u) = {}
  BY <1>1 DEF EnsureNotInParty
<1>2. CASE PartiesOf(u) # {}
  BY <1>2 DEF EnsureNotInParty
<1> QED BY <1>1, <1>2

LEMMA NewcomersBegin ==
  ASSUME PartyInv, NEW r \in Requests, NEW u \in Users, NEW D \in EnsureNotInParty(u),
         NEW q \in Request, Shape(q), q.u = u, Begin(r, q, D), UNCHANGED <<party, run>>,
         \/ q.pc = "insertParty"
         \/ /\ q.pc = "readParty" /\ q.p \in Parties /\ status[q.p] # "NONE"
            /\ \A o \in Requests : req[o].p = q.p => req[o].pc # "insertLeader"
  PROVE  PartyInv'
<1>1. /\ D = {} => PartiesOf(u) = {}
      /\ \A x \in D : x \in Parties /\ u \in MembersOf(x) /\ status[x] = "DISBANDED"
  BY EnsureNotInPartyIs DEF PartiesOf
<1>2. /\ req[r] = NoRequest
      /\ members' = [x \in Parties |-> IF x \in D THEN Remaining(x, u) ELSE members[x]]
      /\ req' = [o \in Requests |->
                   IF o = r THEN q ELSE IF req[o].p \in D THEN Without(req[o], {u}) ELSE req[o]]
      /\ exposed' = exposed \union
           {x \in {q.u, q.p} \ {NoUser, NoParty} :
              \E o \in Requests \ {r} : x \in {req[o].u, req[o].p}}
  BY DEF Begin, Without
<1>3. \A x \in Parties : members[x] \in Seq(Row) /\ RowsOf(x)
  BY DEF PartyInv, PartyTypeOK, Rows
<1>4. \A x \in Parties : Remaining(x, u) \in Seq(Row)
  BY <1>3, RemainingRows
<1>5. members' \in [Parties -> Seq(Row)]
  BY <1>2, <1>3, <1>4
<1>6. \A x \in D : x \in exposed
  <2> SUFFICES ASSUME NEW x \in D, x \notin exposed PROVE FALSE
    OBVIOUS
  <2>1. members[x] = <<>>
    BY <1>1 DEF PartyInv, Fits, Fitting
  <2> QED BY <1>1, <2>1, Nobody
<1>7. /\ req'[r] = q /\ req' = [o \in Requests |-> req'[o]]
      /\ \A o \in Requests \ {r} :
           \/ req'[o] = req[o]
           \/ req[o].p \in Parties \intersect exposed /\ \E U : req'[o] = Without(req[o], U)
  BY <1>1, <1>2, <1>6
<1>8. \A x \in Parties :
        \/ members'[x] = members[x]
        \/ status[x] = "DISBANDED" /\ u \in MembersOf(x) /\ members'[x] = Remaining(x, u)
  BY <1>1, <1>2
<1>9. PartiesOf(u) # {} => \E x \in PartiesOf(u) : members'[x] = Remaining(x, u)
  <2> SUFFICES ASSUME PartiesOf(u) # {}
               PROVE  \E x \in PartiesOf(u) : members'[x] = Remaining(x, u)
    OBVIOUS
  <2>1. PICK x : x \in D
    BY <1>1
  <2>2. x \in PartiesOf(u) /\ members'[x] = Remaining(x, u)
    BY <1>1, <1>2, <2>1 DEF PartiesOf
  <2> QED BY <2>2
<1>10. q.p # NoParty =>
         status[q.p] # "NONE" /\ \A o \in Requests : req[o].p = q.p => req[o].pc # "insertLeader"
  BY DEF Shape
<1>11. ASSUME q.p \in Parties, Sound(q.p), Told(q.p) PROVE Handled(q.p, q) /\ Following(q.p, q)
  <2>1. q.pc = "readParty"
    BY <1>11, MembershipAssumption DEF Shape
  <2>2. Handled(q.p, q)
    BY <1>11, <2>1 DEF Handled, Plain, InRun
  <2>3. Following(q.p, q)
    BY <1>11, <2>1 DEF Following, Telling
  <2> QED BY <2>2, <2>3
<1>12. q.pc \notin {"idle", "insertLeader"}
  OBVIOUS
<1>13. Starts(r)
  BY <1>2, <1>5, <1>7, <1>8, <1>9, <1>10, <1>11, <1>12 DEF Starts
<1> QED BY <1>13, StartKeeps

LEMMA BeginCreateKeeps ==
  ASSUME PartyInv, NEW r \in Requests, NEW u \in Users, BeginCreate(r, u)
  PROVE  PartyInv'
<1> DEFINE q == [NoRequest EXCEPT !.pc = "insertParty", !.u = u]
<1>1. PICK D \in EnsureNotInParty(u) : Begin(r, q, D)
  BY DEF BeginCreate
<1>2. q \in Request /\ q.pc = "insertParty" /\ q.u = u /\ q.p = NoParty
  BY DEF NoRequest, Request, Labels, PartyStatus
<1> HIDE DEF q
<1>3. Shape(q)
  BY <1>2, NoRequestIs DEF Shape, InRun
<1>4. UNCHANGED <<party, run>>
  BY DEF BeginCreate
<1> QED BY <1>1, <1>2, <1>3, <1>4, NewcomersBegin

LEMMA BeginJoinKeeps ==
  ASSUME PartyInv, NEW r \in Requests, NEW u \in Users, NEW p \in Parties, BeginJoin(r, u, p)
  PROVE  PartyInv'
<1> DEFINE q == [NoRequest EXCEPT !.pc = "readParty", !.u = u, !.p = p]
<1>1. PICK D \in EnsureNotInParty(u) : Begin(r, q, D)
  BY DEF BeginJoin
<1>2. q \in Request /\ q.pc = "readParty" /\ q.u = u /\ q.p = p
  BY DEF NoRequest, Request, Labels, PartyStatus
<1> HIDE DEF q
<1>3. Shape(q)
  BY <1>2, NoRequestIs DEF Shape, InRun
<1>4. /\ status[p] # "NONE" /\ \A o \in Requests : req[o].p = p => req[o].pc # "insertLeader"
      /\ UNCHANGED <<party, run>>
  BY DEF BeginJoin
<1> QED BY <1>1, <1>2, <1>3, <1>4, NewcomersBegin

-----------------------------------------------------------------------------
(* The steps that belong to no request, and the end of a run.              *)

(* The active run of p ends.                                               *)
LEMMA EndRunIs ==
  ASSUME PartyInv, NEW p \in Parties, runs[p] > 0, EndRun(p)
  PROVE  /\ runs' \in [Parties -> Nat]
         /\ part' \in [Parties -> [Watched -> {"none", "in", "left"}]]
         /\ listed' \in [Parties -> SUBSET Watched]
         /\ \A x \in Parties \ {p} :
              runs'[x] = runs[x] /\ part'[x] = part[x] /\ listed'[x] = listed[x]
         /\ listed'[p] = {} /\ Absent(p)' /\ Told(p)'
         /\ status[p] # "NONE" /\ \A o \in Requests : req[o].p = p => req[o].pc # "insertLeader"
<1>1. runs \in [Parties -> Nat] /\ runs[p] - 1 \in Nat
  BY DEF PartyInv, PartyTypeOK
<1> DEFINE nobody == [u \in Watched |-> "none"]
<1>2. nobody \in [Watched -> {"none", "in", "left"}] /\ \A u \in Watched : nobody[u] = "none"
  OBVIOUS
<1>3. /\ runs' = [runs EXCEPT ![p] = runs[p] - 1] /\ part' = [part EXCEPT ![p] = nobody]
      /\ listed' = [listed EXCEPT ![p] = {}]
  BY DEF EndRun
<1> HIDE DEF nobody
<1>4. runs' \in [Parties -> Nat] /\ \A x \in Parties \ {p} : runs'[x] = runs[x]
  BY <1>1, <1>3
<1>5. /\ part' \in [Parties -> [Watched -> {"none", "in", "left"}]] /\ part'[p] = nobody
      /\ \A x \in Parties \ {p} : part'[x] = part[x]
  BY <1>2, <1>3 DEF PartyInv, PartyTypeOK
<1>6. /\ listed' \in [Parties -> SUBSET Watched] /\ listed'[p] = {}
      /\ \A x \in Parties \ {p} : listed'[x] = listed[x]
  BY <1>3 DEF PartyInv, PartyTypeOK
<1>7. Absent(p)' /\ Told(p)'
  BY <1>2, <1>5, <1>6 DEF Absent, Told, Agree
<1>8. status[p] # "NONE" /\ \A o \in Requests : req[o].p = p => req[o].pc # "insertLeader"
  BY <1>1 DEF PartyInv, Newborn
<1> QED BY <1>4, <1>5, <1>6, <1>7, <1>8

(* Where only the run of p changed, most of the invariant is as before.    *)
LEMMA RunEnds ==
  ASSUME PartyInv, NEW p \in Parties, runs[p] > 0, EndRun(p), UNCHANGED <<party, members>>,
         req' \in [Requests -> Request], exposed' \subseteq Users \union Parties,
         exposed \subseteq exposed',
         \A o \in Requests :
           \/ req'[o] = req[o]
           \/ /\ req[o] = NoRequest /\ Shape(req'[o]) /\ req'[o].pc = "countForEnd"
              /\ req'[o].p = p /\ req'[o].u = NoUser
  PROVE  PartyTypeOK' /\ Shapes' /\ Rows' /\ Newborn' /\ Singles'
<1>1. /\ runs' \in [Parties -> Nat]
      /\ part' \in [Parties -> [Watched -> {"none", "in", "left"}]]
      /\ listed' \in [Parties -> SUBSET Watched]
      /\ \A x \in Parties \ {p} : runs'[x] = runs[x]
      /\ status[p] # "NONE" /\ \A o \in Requests : req[o].p = p => req[o].pc # "insertLeader"
  BY EndRunIs
<1>2. status' = status /\ leader' = leader /\ members' = members
  BY DEF party
<1>3. PartyTypeOK'
  BY <1>1, <1>2 DEF PartyInv, PartyTypeOK
<1>4. Shapes' /\ Rows'
  BY <1>2 DEF PartyInv, Shapes, Rows, RowsOf
<1>5. Newborn'
  <2>1. ASSUME NEW x \in Parties, status'[x] = "NONE"
        PROVE  members'[x] = <<>> /\ runs'[x] = 0 /\ \A o \in Requests : req'[o].p # x
    <3>1. x # p /\ members[x] = <<>> /\ runs[x] = 0 /\ \A o \in Requests : req[o].p # x
      BY <1>1, <1>2, <2>1 DEF PartyInv, Newborn
    <3> QED BY <1>1, <1>2, <3>1
  <2>2. ASSUME NEW o \in Requests, req'[o].pc = "insertLeader"
        PROVE  /\ Sole(o)'
               /\ status'[req'[o].p] = "OPEN" /\ leader'[req'[o].p] = req'[o].u
               /\ members'[req'[o].p] = <<>> /\ runs'[req'[o].p] = 0
    <3>1. req'[o] = req[o] /\ req[o].pc = "insertLeader"
      BY <2>2
    <3>2. /\ Sole(o) /\ req[o].p \in Parties \ {p}
          /\ status[req[o].p] = "OPEN" /\ leader[req[o].p] = req[o].u
          /\ members[req[o].p] = <<>> /\ runs[req[o].p] = 0
      BY <1>1, <3>1 DEF PartyInv, Newborn, Shapes, Shape
    <3>3. Sole(o)'
      BY <3>1, <3>2 DEF Sole
    <3> QED BY <1>1, <1>2, <3>1, <3>2, <3>3
  <2> QED BY <2>1, <2>2 DEF Newborn
<1>6. Singles'
  <2> SUFFICES ASSUME NEW u \in Users, u \notin exposed PROVE Single(u)'
    BY DEF Singles
  <2>1. Single(u)
    BY DEF PartyInv, Singles
  <2>2. PartiesOf(u)' = PartiesOf(u)
    BY <1>2 DEF PartiesOf, MembersOf
  <2>3. \A o \in Requests : req'[o].u = u => req'[o] = req[o]
    BY MembershipAssumption
  <2> QED BY <2>1, <2>2, <2>3 DEF Single
<1> QED BY <1>3, <1>4, <1>5, <1>6

LEMMA BeginEndKeeps ==
  ASSUME PartyInv, NEW r \in Requests, NEW p \in Parties, BeginEnd(r, p)
  PROVE  PartyInv'
<1> DEFINE n == [NoRequest EXCEPT !.p = p, !.pc = "countForEnd"]
<1>1. /\ req[r] = NoRequest /\ runs[p] > 0 /\ EndRun(p) /\ UNCHANGED <<party, members>>
      /\ req' = [req EXCEPT ![r] = n]
      /\ exposed' = IF status[p] = "DISBANDED" \/ \E o \in Requests : req[o].p = p
                    THEN exposed \union {p} ELSE exposed
  BY DEF BeginEnd
<1>2. n \in Request /\ n.pc = "countForEnd" /\ n.p = p /\ n.u = NoUser
  BY DEF NoRequest, Request, Labels, PartyStatus
<1> HIDE DEF n
<1>3. Shape(n)
  BY <1>2, NoRequestIs DEF Shape, InRun
<1>4. /\ req' \in [Requests -> Request] /\ req'[r] = n
      /\ \A o \in Requests \ {r} : req'[o] = req[o]
  BY <1>1, <1>2 DEF PartyInv, PartyTypeOK
<1>5. exposed' \subseteq Users \union Parties /\ exposed \subseteq exposed'
  BY <1>1 DEF PartyInv, PartyTypeOK
<1>6. PartyTypeOK' /\ Shapes' /\ Rows' /\ Newborn' /\ Singles'
  BY <1>1, <1>2, <1>3, <1>4, <1>5, RunEnds
<1>7. Fits'
  <2> SUFFICES ASSUME NEW x \in Parties, x \notin exposed' PROVE Fitting(x)'
    BY DEF Fits
  <2>1. Fitting(x)
    BY <1>5 DEF PartyInv, Fits
  <2>2. CASE x # p
    <3>1. Untouched(x)
      BY <1>1, <2>2, EndRunIs DEF Untouched, party
    <3>2. \A o \in Requests : (req'[o].p = x => req[o].p = x) /\ (req[o].p = x => req'[o] = req[o])
      BY <1>1, <1>2, <1>4, <2>2, NoRequestIs, MembershipAssumption
    <3> QED BY <2>1, <3>1, <3>2, FittingKept
  <2>3. CASE x = p
    <3>1. status[p] # "DISBANDED" /\ \A o \in Requests : req[o].p # p
      BY <1>1, <2>3
    <3>2. Sound(p) /\ Len(members[p]) <= MaxMembers
      BY <2>1, <2>3, <3>1 DEF Fitting
    <3>3. Live(p)
      BY <1>1, <3>1, EndRunIs DEF Live, PartyInv, PartyTypeOK, PartyStatus
    <3>4. SameBooks(p) /\ members'[p] = members[p] /\ status'[p] = status[p]
      BY <1>1 DEF SameBooks, party
    <3>5. Sound(p)' /\ Live(p)' /\ Told(p)'
      BY <1>1, <3>2, <3>3, <3>4, BooksKept, EndRunIs
    <3>6. req'[r].pc = "countForEnd" /\ req'[r].p = p /\ \A o \in Requests : req'[o].p = p => o = r
      BY <1>2, <1>4, <3>1
    <3>7. Handled(p, req[r])'
      BY <3>5, <3>6, PlainHandled DEF Plain
    <3>8. Following(p, req[r])'
      BY <3>5, <3>6, PlainFollowing DEF Telling
    <3>9. \A o \in Requests : req'[o].p = p => Handled(p, req[o])' /\ Following(p, req[o])'
      BY <3>6, <3>7, <3>8
    <3> QED BY <2>3, <3>1, <3>2, <3>4, <3>6, <3>9 DEF Fitting
  <2> QED BY <2>2, <2>3
<1> QED BY <1>6, <1>7 DEF PartyInv

LEMMA AbortRunKeeps ==
  ASSUME PartyInv, NEW p \in Parties, AbortRun(p)
  PROVE  PartyInv'
<1>1. /\ runs[p] > 0 /\ EndRun(p) /\ UNCHANGED <<party, members>>
      /\ req' = req /\ exposed' = exposed
  BY DEF AbortRun, party
<1>2. PartyTypeOK' /\ Shapes' /\ Rows' /\ Newborn' /\ Singles'
  BY <1>1, RunEnds DEF PartyInv, PartyTypeOK
<1>3. Fits'
  <2> SUFFICES ASSUME NEW x \in Parties, x \notin exposed PROVE Fitting(x)'
    BY <1>1 DEF Fits
  <2>1. Fitting(x)
    BY DEF PartyInv, Fits
  <2>2. CASE x # p
    <3>1. Untouched(x)
      BY <1>1, <2>2, EndRunIs DEF Untouched, party
    <3> QED BY <1>1, <2>1, <3>1, FittingKept
  <2>3. CASE x = p
    <3>1. SameBooks(p) /\ members'[p] = members[p] /\ status'[p] = status[p]
      BY <1>1 DEF SameBooks, party
    <3>2. /\ Live(p)' = Live(p) /\ Led(p)' = Led(p) /\ Room(p)' = Room(p) /\ Sound(p)' = Sound(p)
          /\ MembersOf(p)' = MembersOf(p) /\ LeadersOf(p)' = LeadersOf(p)
      BY <3>1, BooksKept
    <3>3. Absent(p)' /\ Told(p)'
      BY <1>1, EndRunIs
    <3>4. \A L : \A u \in Watched : part'[p][u] = "none" /\ Agree(p, u, L)'
      BY <3>3 DEF Absent, Agree
    <3>5. ASSUME NEW o \in Requests, req[o].p = p
          PROVE  Handled(p, req[o])' /\ Following(p, req[o])'
      <4>1. Handled(p, req[o]) /\ Following(p, req[o]) /\ req'[o] = req[o]
        BY <1>1, <2>1, <2>3, <3>5 DEF Fitting
      <4>2. Handled(p, req[o])'
        BY <3>1, <3>2, <4>1 DEF Handled, SameBooks
      <4>3. req[o].pc \in InRun => req[o].u \in Watched
        BY DEF PartyInv, Shapes, Shape
      <4>4. Following(p, req[o])'
        BY <3>3, <3>4, <4>1, <4>3 DEF Following, InRun
      <4> QED BY <4>2, <4>4
    <3> QED BY <1>1, <2>1, <2>3, <3>1, <3>2, <3>3, <3>5 DEF Fitting
  <2> QED BY <2>2, <2>3
<1> QED BY <1>2, <1>3 DEF PartyInv

LEMMA ToggleReadyKeeps ==
  ASSUME PartyInv, NEW u \in Users, NEW p \in Parties, NEW ready \in BOOLEAN,
         ToggleReady(u, p, ready)
  PROVE  PartyInv'
<1> DEFINE s == [i \in DOMAIN members[p] |->
                   IF members[p][i].user = u THEN [members[p][i] EXCEPT !.ready = ready]
                   ELSE members[p][i]]
<1>1. /\ u \in MembersOf(p) /\ members' = [members EXCEPT ![p] = s]
      /\ UNCHANGED <<party, run, req, exposed>>
  BY DEF ToggleReady
<1>2. members[p] \in Seq(Row) /\ members \in [Parties -> Seq(Row)] /\ RowsOf(p)
  BY DEF PartyInv, PartyTypeOK, Rows
<1>3. /\ s \in Seq(Row) /\ Len(s) = Len(members[p])
      /\ \A i \in 1..Len(members[p]) :
           s[i].user = members[p][i].user /\ s[i].role = members[p][i].role
  <2>1. /\ Len(members[p]) \in Nat /\ DOMAIN members[p] = 1..Len(members[p])
        /\ \A i \in 1..Len(members[p]) : members[p][i] \in Row
    BY <1>2
  <2>2. \A i \in 1..Len(members[p]) :
          /\ s[i] \in Row /\ s[i].user = members[p][i].user /\ s[i].role = members[p][i].role
    BY <2>1 DEF Row
  <2>3. s \in [1..Len(members[p]) -> Row]
    BY <2>1, <2>2
  <2> HIDE DEF s
  <2> QED BY <2>1, <2>2, <2>3
<1> HIDE DEF s
<1>4. /\ members' \in [Parties -> Seq(Row)] /\ members'[p] = s
      /\ \A x \in Parties \ {p} : members'[x] = members[x]
  BY <1>1, <1>2, <1>3
<1>5. RowsOf(p)' /\ MembersOf(p)' = MembersOf(p) /\ LeadersOf(p)' = LeadersOf(p)
  BY <1>2, <1>3, <1>4, Flagged
<1>6. members[p] # <<>> /\ members'[p] # <<>>
  <2>1. members[p] # <<>>
    BY <1>1, Nobody
  <2>2. Len(members[p]) # 0 /\ Len(members'[p]) # 0
    BY <1>2, <1>3, <1>4, <2>1
  <2> QED BY <2>1, <2>2
<1>7. ASSUME NEW x \in Parties
      PROVE  /\ RowsOf(x)' /\ MembersOf(x)' = MembersOf(x) /\ LeadersOf(x)' = LeadersOf(x)
             /\ Len(members'[x]) = Len(members[x])
             /\ members'[x] = <<>> <=> members[x] = <<>>
  <2>1. CASE x = p
    BY <1>3, <1>4, <1>5, <1>6, <2>1
  <2>2. CASE x # p
    <3>1. members'[x] = members[x] /\ RowsOf(x)
      BY <1>4, <2>2 DEF PartyInv, Rows
    <3> QED BY <3>1 DEF RowsOf, MembersOf, LeadersOf
  <2> QED BY <2>1, <2>2
<1>8. /\ status' = status /\ leader' = leader /\ runs' = runs /\ part' = part
      /\ listed' = listed /\ req' = req /\ exposed' = exposed
  BY <1>1 DEF party, run
<1>9. PartyTypeOK'
  BY <1>4, <1>8 DEF PartyInv, PartyTypeOK
<1>10. Shapes' /\ Rows'
  BY <1>7, <1>8 DEF PartyInv, Shapes, Rows
<1>11. Newborn'
  <2>1. \A r \in Requests : Sole(r)' = Sole(r)
    BY <1>8 DEF Sole
  <2>2. \A r \in Requests : req[r].pc = "insertLeader" => req[r].p \in Parties
    BY DEF PartyInv, Shapes, Shape
  <2> QED BY <1>7, <1>8, <2>1, <2>2 DEF PartyInv, Newborn
<1>12. Singles'
  <2> SUFFICES ASSUME NEW v \in Users, v \notin exposed PROVE Single(v)'
    BY <1>8 DEF Singles
  <2>1. Single(v)
    BY DEF PartyInv, Singles
  <2>2. PartiesOf(v)' = PartiesOf(v)
    BY <1>7 DEF PartiesOf
  <2> QED BY <1>8, <2>1, <2>2 DEF Single
<1>13. Fits'
  <2> SUFFICES ASSUME NEW x \in Parties, x \notin exposed PROVE Fitting(x)'
    BY <1>8 DEF Fits
  <2>1. Fitting(x)
    BY DEF PartyInv, Fits
  <2>2. /\ Live(x)' = Live(x) /\ Led(x)' = Led(x) /\ Room(x)' = Room(x) /\ Sound(x)' = Sound(x)
    BY <1>7, <1>8 DEF Live, Led, Room, Sound
  <2>3. SameRun(x)
    BY <1>8 DEF SameRun
  <2>4. ASSUME NEW o \in Requests, req[o].p = x
        PROVE  Handled(x, req[o])' /\ Following(x, req[o])'
    <3>1. Handled(x, req[o]) /\ Following(x, req[o]) /\ req'[o] = req[o]
      BY <1>8, <2>1, <2>4 DEF Fitting
    <3>2. Handled(x, req[o])'
      BY <1>7, <1>8, <2>2, <3>1 DEF Handled
    <3>3. Following(x, req[o])'
      BY <2>3, <3>1, RunKept DEF Following, SameRun
    <3> QED BY <3>2, <3>3
  <2> QED BY <1>7, <1>8, <2>1, <2>2, <2>3, <2>4, RunKept DEF Fitting
<1> QED BY <1>9, <1>10, <1>11, <1>12, <1>13 DEF PartyInv

-----------------------------------------------------------------------------
(* The invariant holds at first and after every step.                      *)
LEMMA PartyStarts == PartyInit => PartyInv
<1> SUFFICES ASSUME PartyInit PROVE PartyInv
  OBVIOUS
<1>1. /\ \A p \in Parties : status[p] = "NONE" /\ leader[p] = NoUser /\ members[p] = <<>>
                            /\ runs[p] = 0 /\ listed[p] = {}
      /\ \A p \in Parties : \A u \in Watched : part[p][u] = "none"
      /\ \A r \in Requests : req[r] = NoRequest
      /\ exposed = {}
  BY DEF PartyInit
<1>2. PartyTypeOK
  <2>1. <<>> \in Seq(Row)
    OBVIOUS
  <2>2. members \in [Parties -> Seq(Row)]
    BY <2>1 DEF PartyInit
  <2>3. req \in [Requests -> Request]
    BY NoRequestIs DEF PartyInit
  <2> QED BY <2>2, <2>3 DEF PartyInit, PartyTypeOK, PartyStatus
<1>3. Shapes
  BY <1>1, NoRequestIs DEF Shapes
<1>4. \A p \in Parties : Len(members[p]) = 0 /\ MembersOf(p) = {}
  BY <1>1, Nobody
<1>5. Rows
  BY <1>4 DEF Rows, RowsOf
<1>6. \A r \in Requests : req[r].pc = "idle" /\ req[r].u = NoUser /\ req[r].p \notin Parties
  BY <1>1, NoRequestIs, MembershipAssumption
<1>7. Newborn
  BY <1>1, <1>6 DEF Newborn
<1>8. Singles
  BY <1>4, <1>6, MembershipAssumption DEF Singles, Single, PartiesOf
<1>9. Fits
  <2> SUFFICES ASSUME NEW p \in Parties PROVE Fitting(p)
    BY DEF Fits
  <2>1. Sound(p) /\ Told(p)
    BY <1>1, <1>4 DEF Sound, Live, Room, Told, Agree
  <2>2. 0 <= MaxMembers
    BY MembershipAssumption
  <2> QED BY <1>1, <1>4, <1>6, <2>1, <2>2 DEF Fitting
<1> QED BY <1>2, <1>3, <1>5, <1>7, <1>8, <1>9 DEF PartyInv

LEMMA AboutAParty ==
  ASSUME PartyInv, NEW r \in Requests, req[r].pc \notin {"idle", "insertParty"}
  PROVE  req[r].p \in Parties
BY DEF PartyInv, Shapes, Shape

LEMMA StepKeeps ==
  ASSUME PartyInv, NEW r \in Requests, Step(r)
  PROVE  PartyInv'
<1>1. CASE InsertParty(r)
  BY <1>1, InsertPartyKeeps
<1>2. CASE ~ InsertParty(r)
  <2>1. req[r].pc \notin {"idle", "insertParty"}
    BY <1>2 DEF Step, InsertLeader, ReadParty, CountMembers, InsertMember, MarkFull, SelectHeir,
       PromoteHeir, SetLeader, DeleteRow, Reopen, DeleteAll, MarkDisbanded, ReadLobby,
       EnterDungeon, CreateRun, ResetReady, StoreProfiles, TakeRun, TakeParty,
       InsertParticipant, ReadParticipant, AddParticipant, ListParticipant, SetLeft, ReadList,
       Unlist, CountForEnd, WriteEnd
  <2>2. PICK p \in Parties : req[r].p = p
    BY <2>1, AboutAParty
  <2>3. CASE InsertLeader(r) \/ ReadParty(r) \/ CountMembers(r) \/ InsertMember(r) \/ MarkFull(r)
    BY <2>2, <2>3, AdvanceKeeps, InsertLeaderAdvances, ReadPartyAdvances, CountMembersAdvances,
       InsertMemberAdvances, MarkFullAdvances
  <2>4. CASE SelectHeir(r) \/ PromoteHeir(r) \/ SetLeader(r) \/ DeleteRow(r) \/ Reopen(r)
    BY <2>2, <2>4, AdvanceKeeps, SelectHeirAdvances, PromoteHeirAdvances, SetLeaderAdvances,
       DeleteRowAdvances, ReopenAdvances
  <2>5. CASE DeleteAll(r) \/ MarkDisbanded(r) \/ CountForEnd(r) \/ WriteEnd(r)
    BY <2>2, <2>5, AdvanceKeeps, DeleteAllAdvances, MarkDisbandedAdvances, CountForEndAdvances,
       WriteEndAdvances
  <2>6. CASE ReadLobby(r) \/ EnterDungeon(r) \/ CreateRun(r) \/ ResetReady(r) \/ StoreProfiles(r)
    BY <2>2, <2>6, AdvanceKeeps, ReadLobbyAdvances, EnterDungeonAdvances, CreateRunAdvances,
       ResetReadyAdvances, StoreProfilesAdvances
  <2>7. CASE TakeRun(r) \/ TakeParty(r) \/ InsertParticipant(r)
    BY <2>2, <2>7, AdvanceKeeps, TakeRunAdvances, TakePartyAdvances, InsertParticipantAdvances
  <2>8. CASE ReadParticipant(r) \/ AddParticipant(r) \/ ListParticipant(r)
    BY <2>2, <2>8, AdvanceKeeps, ReadParticipantAdvances, AddParticipantAdvances,
       ListParticipantAdvances
  <2>9. CASE SetLeft(r) \/ ReadList(r) \/ Unlist(r)
    BY <2>2, <2>9, AdvanceKeeps, SetLeftAdvances, ReadListAdvances, UnlistAdvances
  <2> QED BY <1>2, <2>3, <2>4, <2>5, <2>6, <2>7, <2>8, <2>9 DEF Step
<1> QED BY <1>1, <1>2

LEMMA NextKeeps ==
  ASSUME PartyInv, [PartyNext]_partyVars
  PROVE  PartyInv'
<1>1. CASE \E r \in Requests : Step(r)
  BY <1>1, StepKeeps
<1>2. CASE \E r \in Requests, u \in Users : BeginCreate(r, u)
  BY <1>2, BeginCreateKeeps
<1>3. CASE \E r \in Requests, p \in Parties : BeginEnd(r, p)
  BY <1>3, BeginEndKeeps
<1>4. CASE \E r \in Requests, u \in Users, p \in Parties : BeginJoin(r, u, p) \/ BeginLeave(r, u, p)
  BY <1>4, BeginJoinKeeps, BeginLeaveKeeps
<1>5. CASE \E r \in Requests, u \in Users, p \in Parties :
             \/ BeginDisband(r, u, p) \/ BeginStart(r, u, p) \/ BeginInvite(r, u, p)
             \/ BeginLeaveDungeon(r, u, p)
  BY <1>5, MembersBegin
<1>6. CASE \E r \in Requests, u \in Users, p \in Parties, target \in Users :
             BeginKick(r, u, p, target)
  BY <1>6, BeginKickKeeps
<1>7. CASE \E u \in Users, p \in Parties, ready \in BOOLEAN : ToggleReady(u, p, ready)
  BY <1>7, ToggleReadyKeeps
<1>8. CASE \E p \in Parties : AbortRun(p)
  BY <1>8, AbortRunKeeps
<1>9. CASE UNCHANGED partyVars
  <2>1. /\ status' = status /\ leader' = leader /\ members' = members /\ runs' = runs
        /\ part' = part /\ listed' = listed /\ req' = req /\ exposed' = exposed
    BY <1>9 DEF partyVars, party, run
  <2>2. PartyTypeOK' /\ Shapes' /\ Rows' /\ Newborn'
    BY <2>1 DEF PartyInv, PartyTypeOK, Shapes, Rows, RowsOf, Newborn, Sole
  <2>3. Singles'
    BY <2>1 DEF PartyInv, Singles, Single, PartiesOf, MembersOf
  <2>4. Fits'
    <3> SUFFICES ASSUME NEW x \in Parties, x \notin exposed PROVE Fitting(x)'
      BY <2>1 DEF Fits
    <3>1. Fitting(x) /\ Untouched(x)
      BY <2>1 DEF PartyInv, Fits, Untouched
    <3> QED BY <2>1, <3>1, FittingKept
  <2> QED BY <2>2, <2>3, <2>4 DEF PartyInv
<1> QED BY <1>1, <1>2, <1>3, <1>4, <1>5, <1>6, <1>7, <1>8, <1>9 DEF PartyNext

LEMMA PartyInvariant == PartySpec => []PartyInv
<1>1. PartyInv /\ [PartyNext]_partyVars => PartyInv'
  BY NextKeeps
<1> QED BY PartyStarts, <1>1, PTL DEF PartySpec

-----------------------------------------------------------------------------
(* The statuses, rows, participants and requests keep their types: a       *)
(* request writes back only what it read.                                  *)
THEOREM PartyTyped == PartySpec => []PartyTypeOK
<1>1. PartyInv => PartyTypeOK
  BY DEF PartyInv
<1> QED BY PartyInvariant, <1>1, PTL

(* A user whose requests never overlapped has one party that is not        *)
(* disbanded at most, though createParty and joinParty look for it and     *)
(* insert in separate statements; and outside overlapping requests no      *)
(* party has more rows than max_members at any statement of any request.   *)
THEOREM MembershipsFit == PartySpec => []MembersFit
<1>1. ASSUME PartyInv, NEW u \in Users, u \notin exposed
      PROVE  Cardinality({p \in PartiesOf(u) : status[p] # "DISBANDED"}) <= 1
  <2> DEFINE S == {p \in PartiesOf(u) : status[p] # "DISBANDED"}
  <2>1. \A p, o \in S : p = o
    BY <1>1 DEF PartyInv, Singles, Single
  <2>2. CASE S = {}
    BY <2>2, FS_EmptySet
  <2>3. CASE S # {}
    <3>1. PICK p : S = {p}
      BY <2>1, <2>3
    <3>2. Cardinality({p}) = 1
      BY FS_Singleton
    <3> QED BY <3>1, <3>2
  <2> QED BY <2>2, <2>3
<1>2. PartyInv => \A p \in Parties \ exposed : Len(members[p]) <= MaxMembers
  BY DEF PartyInv, Fits, Fitting
<1>3. PartyInv => MembersFit
  BY <1>1, <1>2 DEF MembersFit
<1> QED BY PartyInvariant, <1>3, PTL

(* Leader, status and rows of a party at rest agree, whatever its requests *)
(* were: leaveParty, kickMember and the end of a run leave the one LEADER  *)
(* row and parties.leader_id together, and FULL exactly without room.      *)
THEOREM RestingPartiesAgree == PartySpec => []RestingPartyAgrees
<1>1. ASSUME PartyInv, NEW p \in Parties, AtRest(p)
      PROVE  /\ status[p] \notin {"NONE", "DISBANDED"} =>
                  {row.user : row \in {x \in ToSet(members[p]) : x.role = "LEADER"}} = {leader[p]}
             /\ status[p] = "FULL" => Len(members[p]) = MaxMembers
             /\ status[p] = "OPEN" => Len(members[p]) < MaxMembers
             /\ status[p] \in {"NONE", "DISBANDED"} => members[p] = <<>>
  <2>1. Sound(p)
    BY <1>1 DEF AtRest, PartyInv, Fits, Fitting
  <2>2. status[p] \in PartyStatus
    BY <1>1 DEF PartyInv, PartyTypeOK
  <2>3. Live(p) <=> status[p] \notin {"NONE", "DISBANDED"}
    BY <2>2 DEF Live, PartyStatus
  <2> QED BY <2>1, <2>3 DEF Sound, Led, LeadersOf, Room
<1>2. PartyInv => RestingPartyAgrees
  BY <1>1 DEF RestingPartyAgrees
<1> QED BY PartyInvariant, <1>2, PTL

(* In the run of a party at rest the rows of run_participants and          *)
(* runState.partyMembers agree about every user, though addMidJoinMember,  *)
(* leaveDungeon and inviteToExistingRun write them one after the other.    *)
THEOREM ParticipantsAreListed == PartySpec => []ParticipantsListed
<1>1. PartyInv => ParticipantsListed
  BY DEF PartyInv, Fits, Fitting, Told, Agree, ParticipantsListed, AtRest
<1> QED BY PartyInvariant, <1>1, PTL

=============================================================================
