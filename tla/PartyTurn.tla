------------------------------ MODULE PartyTurn ------------------------------
(***************************************************************************)
(* party-turn.service.ts: one turn of a party's run. Every member submits  *)
(* an action; the one whose action completes the turn, or the 30 s timer,  *)
(* combines the actions and submits them for the leader (resolveTurn). The *)
(* timers and the set of absent members (aiControlled) live in the process,*)
(* the actions in the table party_turn_actions, unique by run, turn and    *)
(* user. submitTurn is modelled by what resolveTurn sees of it: a turn is  *)
(* committed once, repeating the key of a party turn succeeds again, and   *)
(* it may fail. The party's members stay the same during the run, and what *)
(* resolveTurn announces or hands out after the commit is left out.        *)
(***************************************************************************)
EXTENDS Integers, FiniteSets

CONSTANTS
  Members,
  Reqs,             \* submissions in flight
  Clocks,           \* runs of handleTimeout in flight
  MaxTurn,          \* bound on the turns played
  MaxFailures,      \* bound on the failures of submitTurn
  MaxRestarts       \* bound on the restarts of the process

Turns == 1..MaxTurn
Procs == Reqs \cup Clocks

ASSUME PartyAssumption ==
  /\ IsFiniteSet(Members) /\ Members # {}
  /\ Reqs \cap Clocks = {}
  /\ MaxTurn \in Nat /\ MaxFailures \in Nat /\ MaxRestarts \in Nat

VARIABLES
  turnNo,           \* run_sessions.currentTurnNo
  place,            \* the node type of the run
  rows,             \* party_turn_actions: rows[t], the users with an action in turn t
  used,             \* used[t]: whose actions resolveTurn combined into the committed turn t
  timer,            \* timers.get(run): the turn it is for, 0 when there is none
  armed,            \* its timeout has not fired yet
  ai,               \* aiControlled
  proc,             \* submissions, timeouts and the resolutions they start
  failures, restarts, crashed

database == <<turnNo, place, rows, used>>
timers == <<timer, armed>>
faults == <<failures, restarts, crashed>>
vars == <<database, timers, ai, proc, faults>>

Idle == [pc |-> "idle"]

Process ==
       {Idle}
  \cup [pc : {"ensure", "start", "check", "insert", "tally"}, turn : Turns, user : Members]
  \cup [pc : {"auto"}, turn : Turns, user : Members, seen : SUBSET Members]
  \cup [pc : {"autoInsert"}, turn : Turns, user : Members, seen : SUBSET Members,
        absent : Members]
  \cup [pc : {"due", "complete", "resolve", "committed", "failed", "delete", "chain"}, turn : Turns]
  \cup [pc : {"fill"}, turn : Turns, pending : SUBSET Members]
  \cup [pc : {"submit"}, turn : Turns, actions : SUBSET Members]

\* A turn that was not committed by resolveTurn.
NotCombined == {}

TypeOK ==
  /\ turnNo \in 0..MaxTurn
  /\ place \in {"LOCATION", "COMBAT", "HUB"}
  /\ rows \in [Turns -> SUBSET Members]
  /\ used \in [Turns -> SUBSET Members]
  /\ timer \in 0..MaxTurn /\ armed \in BOOLEAN /\ (armed => timer # 0)
  /\ ai \in SUBSET Members
  /\ proc \in [Procs -> Process]
  /\ failures \in 0..MaxFailures /\ restarts \in 0..MaxRestarts /\ crashed \in BOOLEAN

Init ==
  /\ turnNo = 0 /\ place = "LOCATION"
  /\ rows = [t \in Turns |-> {}]
  /\ used = [t \in Turns |-> NotCombined]
  /\ timer = 0 /\ armed = FALSE
  /\ ai = {}
  /\ proc = [p \in Procs |-> Idle]
  /\ failures = 0 /\ restarts = 0 /\ crashed = FALSE

Goto(p, next) == proc' = [proc EXCEPT ![p] = next]

At(p, pc) == proc[p].pc = pc

\* startTurn: the timer of another turn is cleared.
StartTimer(t) == timer' = t /\ armed' = TRUE

ClearTimer == timer' = 0 /\ armed' = FALSE

AllIn(t) == Members \subseteq rows[t]

-----------------------------------------------------------------------------

\* submitPartyAction: the run and its node are read, the turn is the next.
Arrive(p, u) ==
  /\ proc[p] = Idle
  /\ place # "HUB"
  /\ turnNo < MaxTurn
  /\ Goto(p, [pc |-> "ensure", turn |-> turnNo + 1, user |-> u])
  /\ UNCHANGED <<database, timers, ai, faults>>

Of(p, pc) == [pc |-> pc, turn |-> proc[p].turn, user |-> proc[p].user]

ForAbsent(p, seen) ==
  [pc |-> "auto", turn |-> proc[p].turn, user |-> proc[p].user, seen |-> seen]

\* ensureTurnTimer: has the turn its timer? If not, the members are read.
Ensure(p) ==
  /\ At(p, "ensure")
  /\ Goto(p, IF timer = proc[p].turn THEN ForAbsent(p, {}) ELSE Of(p, "start"))
  /\ UNCHANGED <<database, timers, ai, faults>>

\* ensureTurnTimer: the timer starts, whatever happened meanwhile.
Start(p) ==
  /\ At(p, "start")
  /\ StartTimer(proc[p].turn)
  /\ Goto(p, ForAbsent(p, {}))
  /\ UNCHANGED <<database, ai, faults>>

\* autoSubmitForAiMembers: has the next absent member an action already?
AutoCheck(p) ==
  /\ At(p, "auto")
  /\ LET q == proc[p] IN
     \/ \E u \in ai \ q.seen :
          Goto(p, IF u \in rows[q.turn]
                  THEN [q EXCEPT !.seen = @ \cup {u}]
                  ELSE [pc |-> "autoInsert", turn |-> q.turn, user |-> q.user,
                        seen |-> q.seen \cup {u}, absent |-> u])
     \/ ai \subseteq q.seen /\ Goto(p, Of(p, "check"))
  /\ UNCHANGED <<database, timers, ai, faults>>

\* Its INSERT; when it meets the unique index the whole submission fails.
AutoInsert(p) ==
  /\ At(p, "autoInsert")
  /\ LET q == proc[p] IN
     IF q.absent \in rows[q.turn]
     THEN Goto(p, Idle) /\ UNCHANGED rows
     ELSE /\ rows' = [rows EXCEPT ![q.turn] = @ \cup {q.absent}]
          /\ Goto(p, ForAbsent(p, q.seen))
  /\ UNCHANGED <<turnNo, place, used, timers, ai, faults>>

\* submitAction: an action that is already there is accepted again.
CheckOwn(p) ==
  /\ At(p, "check")
  /\ LET q == proc[p] IN
     Goto(p, IF q.user \in rows[q.turn] THEN Idle ELSE [q EXCEPT !.pc = "insert"])
  /\ UNCHANGED <<database, timers, ai, faults>>

\* submitAction, the INSERT; a concurrent copy meets the unique index.
InsertOwn(p) ==
  /\ At(p, "insert")
  /\ LET q == proc[p] IN
     IF q.user \in rows[q.turn]
     THEN Goto(p, Idle) /\ UNCHANGED rows
     ELSE /\ rows' = [rows EXCEPT ![q.turn] = @ \cup {q.user}]
          /\ Goto(p, [q EXCEPT !.pc = "tally"])
  /\ UNCHANGED <<turnNo, place, used, timers, ai, faults>>

\* Mutant: every submission clears the timer.
TallyClears(p) ==
  /\ At(p, "tally")
  /\ ClearTimer
  /\ Goto(p, IF AllIn(proc[p].turn) THEN [pc |-> "complete", turn |-> proc[p].turn] ELSE Idle)
  /\ UNCHANGED <<database, ai, faults>>

\* checkAllSubmitted
Tally(p) ==
  /\ At(p, "tally")
  /\ Goto(p, IF AllIn(proc[p].turn) THEN [pc |-> "complete", turn |-> proc[p].turn] ELSE Idle)
  /\ UNCHANGED <<database, timers, ai, faults>>

\* submitAction: whatever timer the run has now is cleared, and the
\* resolution goes on after the answer.
Complete(p) ==
  /\ At(p, "complete")
  /\ ClearTimer
  /\ Goto(p, [pc |-> "resolve", turn |-> proc[p].turn])
  /\ UNCHANGED <<database, ai, faults>>

\* The timeout fires: handleTimeout.
Fire(p) ==
  /\ proc[p] = Idle
  /\ armed
  /\ armed' = FALSE
  /\ Goto(p, [pc |-> "due", turn |-> timer])
  /\ UNCHANGED <<database, timer, ai, faults>>

\* handleTimeout: who has not submitted.
ReadPending(p) ==
  /\ At(p, "due")
  /\ LET t == proc[p].turn IN
     Goto(p, [pc |-> "fill", turn |-> t, pending |-> Members \ rows[t]])
  /\ UNCHANGED <<database, timers, ai, faults>>

\* The process ends: what it kept in memory is gone.
Lost ==
  /\ ClearTimer
  /\ ai' = {}
  /\ proc' = [p \in Procs |-> Idle]

\* handleTimeout: one automatic action.
Fill(p) ==
  /\ At(p, "fill")
  /\ LET q == proc[p] IN
     \E u \in q.pending :
       /\ u \notin rows[q.turn]
       /\ rows' = [rows EXCEPT ![q.turn] = @ \cup {u}]
       /\ Goto(p, [q EXCEPT !.pending = @ \ {u}])
  /\ UNCHANGED <<turnNo, place, used, timers, ai, faults>>

\* The member submitted meanwhile: the INSERT meets the unique index. Nobody
\* awaits handleTimeout, and the unhandled rejection ends the process.
FillConflict(p) ==
  /\ At(p, "fill")
  /\ \E u \in proc[p].pending : u \in rows[proc[p].turn]
  /\ crashed' = TRUE
  /\ Lost
  /\ UNCHANGED <<database, failures, restarts>>

\* Mutant: the timeout resolves the turn before its actions are in.
FilledEarly(p) ==
  /\ At(p, "fill")
  /\ ClearTimer
  /\ Goto(p, [pc |-> "resolve", turn |-> proc[p].turn])
  /\ UNCHANGED <<database, ai, faults>>

\* handleTimeout: whatever timer the run has now is cleared.
Filled(p) ==
  /\ At(p, "fill")
  /\ proc[p].pending = {}
  /\ ClearTimer
  /\ Goto(p, [pc |-> "resolve", turn |-> proc[p].turn])
  /\ UNCHANGED <<database, ai, faults>>

\* resolveTurn reads the actions.
ReadActions(p) ==
  /\ At(p, "resolve")
  /\ LET t == proc[p].turn IN
     Goto(p, IF rows[t] = {} THEN Idle
             ELSE [pc |-> "submit", turn |-> t, actions |-> rows[t]])
  /\ UNCHANGED <<database, timers, ai, faults>>

\* resolveTurn submits the combined action: the turn is played.
Commit(p) ==
  /\ At(p, "submit")
  /\ LET q == proc[p] IN
     /\ q.turn = turnNo + 1 /\ place # "HUB"
     /\ turnNo' = q.turn
     /\ used' = [used EXCEPT ![q.turn] = q.actions]
     /\ place' \in {"LOCATION", "COMBAT", "HUB"}
     /\ Goto(p, [pc |-> "committed", turn |-> q.turn])
  /\ UNCHANGED <<rows, timers, ai, faults>>

\* The party's turn is there already: the key gives the same answer again.
Repeat(p) ==
  /\ At(p, "submit")
  /\ used[proc[p].turn] # NotCombined
  /\ Goto(p, [pc |-> "committed", turn |-> proc[p].turn])
  /\ UNCHANGED <<database, timers, ai, faults>>

\* submitTurn throws: the turn is played already (by another resolution that
\* was faster, too), or anything else went wrong.
SubmitFails(p) ==
  /\ At(p, "submit")
  /\ \/ (proc[p].turn # turnNo + 1 \/ place = "HUB") /\ UNCHANGED failures
     \/ failures < MaxFailures /\ failures' = failures + 1
  /\ Goto(p, [pc |-> "failed", turn |-> proc[p].turn])
  /\ UNCHANGED <<database, timers, ai, restarts, crashed>>

\* resolveTurn, the catch: was the turn committed after all?
CheckCommitted(p) ==
  /\ At(p, "failed")
  /\ LET t == proc[p].turn IN
     Goto(p, IF t <= turnNo THEN Idle ELSE [pc |-> "delete", turn |-> t])
  /\ UNCHANGED <<database, timers, ai, faults>>

\* resolveTurn, the catch: the actions are taken back for another try.
DeleteActions(p) ==
  /\ At(p, "delete")
  /\ rows' = [rows EXCEPT ![proc[p].turn] = {}]
  /\ Goto(p, Idle)
  /\ UNCHANGED <<turnNo, place, used, timers, ai, faults>>

\* resolveTurn after the commit: the next turn's timer, at a location only.
ReadPost(p) ==
  /\ At(p, "committed")
  /\ Goto(p, IF place = "LOCATION" /\ turnNo < MaxTurn
             THEN [pc |-> "chain", turn |-> turnNo + 1] ELSE Idle)
  /\ UNCHANGED <<database, timers, ai, faults>>

Chain(p) ==
  /\ At(p, "chain")
  /\ StartTimer(proc[p].turn)
  /\ Goto(p, Idle)
  /\ UNCHANGED <<database, ai, faults>>

\* A vote or a choice of the leader at the hub plays a turn of its own.
HubTurn ==
  /\ place = "HUB" /\ turnNo < MaxTurn
  /\ turnNo' = turnNo + 1
  /\ place' \in {"HUB", "LOCATION"}
  /\ UNCHANGED <<rows, used, timers, ai, proc, faults>>

\* A member leaves the dungeon or has been gone for 30 s; or comes back.
SetAi(u) ==
  /\ u \notin ai /\ ai' = ai \cup {u}
  /\ UNCHANGED <<database, timers, proc, faults>>

ClearAi(u) ==
  /\ u \in ai /\ ai' = ai \ {u}
  /\ UNCHANGED <<database, timers, proc, faults>>

Restart ==
  /\ restarts < MaxRestarts
  /\ restarts' = restarts + 1
  /\ Lost
  /\ UNCHANGED <<database, failures, crashed>>

Submission(p) ==
  \/ Ensure(p) \/ Start(p) \/ AutoCheck(p) \/ AutoInsert(p)
  \/ CheckOwn(p) \/ InsertOwn(p) \/ Tally(p) \/ Complete(p)

Timeout(p) == ReadPending(p) \/ Fill(p) \/ FillConflict(p) \/ Filled(p)

Resolution(p) ==
  \/ ReadActions(p) \/ Commit(p) \/ Repeat(p) \/ SubmitFails(p)
  \/ CheckCommitted(p) \/ DeleteActions(p) \/ ReadPost(p) \/ Chain(p)

Continue(p) == Submission(p) \/ Timeout(p) \/ Resolution(p)

Next ==
  \/ \E p \in Procs : Continue(p)
  \/ \E p \in Reqs, u \in Members : Arrive(p, u)
  \/ \E p \in Clocks : Fire(p)
  \/ \E u \in Members : SetAi(u) \/ ClearAi(u)
  \/ HubTurn
  \/ Restart

Spec == Init /\ [][Next]_vars

\* Timers fire and statements return; members promise nothing.
Fairness ==
  /\ \A p \in Procs : WF_vars(Continue(p))
  /\ \A p \in Clocks : WF_vars(Fire(p))

FairSpec == Spec /\ Fairness

-----------------------------------------------------------------------------

\* A turn is resolved with an action of every member, chosen or automatic,
\* and the actions stay in the table, where the narration reads them: as long
\* as no resolution fails. Submissions, the timer's actions and those for
\* absent members arrive in any order, the turn may be resolved twice at a
\* time, and the process may end anywhere.
EveryoneActs ==
  failures = 0 =>
    \A t \in Turns : used[t] # NotCombined => used[t] = Members /\ rows[t] = Members

\* The next turn's timer is running and no handler of an earlier turn is left
\* to clear it.
Undisturbed(t) ==
  /\ t = turnNo + 1 /\ timer = t /\ armed
  /\ \A p \in Procs : proc[p] = Idle \/ proc[p].turn = t

\* Once the timer of the next turn is running undisturbed the turn is
\* resolved, however late the members are, unless submitTurn fails or the
\* process ends. Every clearTimer on the way is followed by a resolution.
DeadlineResolves ==
  \A t \in Turns : Undisturbed(t) ~> (turnNo >= t \/ failures > 0 \/ restarts > 0 \/ crashed)

=============================================================================
