------------------------------ MODULE PartyVote ------------------------------
(***************************************************************************)
(* vote.service.ts: the votes by which a party moves its run from the hub  *)
(* to a location. createVote and castVote are chains of awaited statements *)
(* without a transaction: a ballot is counted on the row as it was read    *)
(* and written back whole, and every request that reaches a majority       *)
(* resolves the vote. The expiry timer of a vote lives in the process.     *)
(*                                                                         *)
(* consent and against are history: who has had a yes or a no counted,     *)
(* whether or not a later write of the row dropped it.                     *)
(***************************************************************************)
EXTENDS Integers, FiniteSets

CONSTANTS
  Users,            \* who may be a member while a vote is open
  Votes,            \* ids of party_votes rows of one party
  Reqs,             \* requests in flight
  MaxRestarts       \* bound on the number of process restarts

ASSUME VoteAssumption == IsFiniteSet(Users) /\ MaxRestarts \in Nat

VARIABLES
  row,              \* the party_votes rows
  announced,        \* votes whose id was broadcast by vote:proposed
  timer,            \* expiryTimers: "off", "on", or "expiring" once it has fired
  req,              \* the requests: where each is and what it has read
  arrived,          \* votes for which dungeon:location_changed was broadcast
  moved,            \* votes whose executeMove had its turn accepted
  consent, against,
  restarts

outcomes == <<arrived, moved>>
history == <<consent, against>>
vars == <<row, announced, timer, req, outcomes, history, restarts>>

Settled == {"APPROVED", "REJECTED", "EXPIRED"}
Choices == {"yes", "no"}

NoVote == [status |-> "none", yes |-> 0, no |-> 0, total |-> 0, voted |-> {}]

Row == [status : Settled \cup {"none", "PENDING"}, yes : Nat, no : Nat,
        total : Nat, voted : SUBSET Users]

Idle == [pc |-> "idle"]

Request ==
       {Idle}
  \cup [pc : {"insert"}, user : Users, total : Nat]
  \cup [pc : {"arm", "approve", "reject", "move"}, vote : Votes]
  \cup [pc : {"tally"}, user : Users, vote : Votes, choice : Choices, read : Row]

TypeOK ==
  /\ row \in [Votes -> Row]
  /\ announced \in SUBSET Votes
  /\ timer \in [Votes -> {"off", "on", "expiring"}]
  /\ req \in [Reqs -> Request]
  /\ arrived \in SUBSET Votes /\ moved \in SUBSET Votes
  /\ consent \in [Votes -> SUBSET Users] /\ against \in [Votes -> SUBSET Users]
  /\ restarts \in 0..MaxRestarts

Init ==
  /\ row = [v \in Votes |-> NoVote]
  /\ announced = {} /\ arrived = {} /\ moved = {}
  /\ timer = [v \in Votes |-> "off"]
  /\ req = [r \in Reqs |-> Idle]
  /\ consent = [v \in Votes |-> {}] /\ against = [v \in Votes |-> {}]
  /\ restarts = 0

Goto(r, next) == req' = [req EXCEPT ![r] = next]

\* Floor of half, plus one.
Majority(total) == total \div 2 + 1

-----------------------------------------------------------------------------

\* createVote, its reads: no vote is pending, the members are counted. Members
\* join and leave all the time, so the count is any.
Propose(r, u) ==
  /\ req[r] = Idle
  /\ \A v \in Votes : row[v].status # "PENDING"
  /\ \E total \in 1..Cardinality(Users) :
       Goto(r, [pc |-> "insert", user |-> u, total |-> total])
  /\ UNCHANGED <<row, announced, timer, outcomes, history, restarts>>

\* createVote, the INSERT; the proposer's consent is counted.
InsertVote(r, v) ==
  /\ req[r].pc = "insert"
  /\ row[v] = NoVote
  /\ row' = [row EXCEPT ![v] = [status |-> "PENDING", yes |-> 1, no |-> 0,
                                total |-> req[r].total, voted |-> {req[r].user}]]
  /\ consent' = [consent EXCEPT ![v] = @ \cup {req[r].user}]
  /\ Goto(r, [pc |-> "arm", vote |-> v])
  /\ UNCHANGED <<announced, timer, outcomes, against, restarts>>

\* createVote after the proposer's nickname was read: broadcast and timer.
Arm(r) ==
  /\ req[r].pc = "arm"
  /\ announced' = announced \cup {req[r].vote}
  /\ timer' = [timer EXCEPT ![req[r].vote] = "on"]
  /\ Goto(r, Idle)
  /\ UNCHANGED <<row, outcomes, history, restarts>>

\* castVote, its read and the checks on it.
ReadVote(r, u, v, choice) ==
  /\ req[r] = Idle
  /\ v \in announced
  /\ row[v].status = "PENDING"
  /\ u \notin row[v].voted
  /\ Goto(r, [pc |-> "tally", user |-> u, vote |-> v, choice |-> choice, read |-> row[v]])
  /\ UNCHANGED <<row, announced, timer, outcomes, history, restarts>>

YesAfter(read, choice) == IF choice = "yes" THEN read.yes + 1 ELSE read.yes
NoAfter(read, choice) == IF choice = "no" THEN read.no + 1 ELSE read.no

\* The row after the UPDATE: counts and voters from the row as it was read,
\* the rest as it is now.
WithBallot(now, read, user, choice) ==
  [now EXCEPT !.yes = YesAfter(read, choice),
              !.no = NoAfter(read, choice),
              !.voted = read.voted \cup {user}]

\* Where castVote goes on with these counts, whatever its own ballot said: a
\* no that finds enough yeses on the row approves the vote (again).
Verdict(v, yes, no, total) ==
  IF yes >= Majority(total) THEN [pc |-> "approve", vote |-> v]
  ELSE IF no >= Majority(total) THEN [pc |-> "reject", vote |-> v]
  ELSE Idle

\* The counts castVote tests are those it computed from the row it read.
AfterTally(r) ==
  LET q == req[r] IN
  Verdict(q.vote, YesAfter(q.read, q.choice), NoAfter(q.read, q.choice), q.read.total)

\* Mutation of Tally: the counts are incremented in the database, the voters
\* still come from the row as it was read.
TallyIncrement(r) ==
  /\ req[r].pc = "tally"
  /\ LET q == req[r] v == q.vote said == q.choice = "yes"
         yes == YesAfter(row[v], q.choice) no == NoAfter(row[v], q.choice) IN
     /\ row' = [row EXCEPT ![v].yes = yes, ![v].no = no,
                           ![v].voted = q.read.voted \cup {q.user}]
     /\ consent' = [consent EXCEPT ![v] = IF said THEN @ \cup {q.user} ELSE @]
     /\ against' = [against EXCEPT ![v] = IF said THEN @ ELSE @ \cup {q.user}]
     /\ Goto(r, Verdict(v, yes, no, row[v].total))
  /\ UNCHANGED <<announced, timer, outcomes, restarts>>

\* castVote, the UPDATE of the counts and of votedUserIds.
Tally(r) ==
  /\ req[r].pc = "tally"
  /\ LET q == req[r] v == q.vote yes == q.choice = "yes" IN
     /\ row' = [row EXCEPT ![v] = WithBallot(@, q.read, q.user, q.choice)]
     /\ consent' = [consent EXCEPT ![v] = IF yes THEN @ \cup {q.user} ELSE @]
     /\ against' = [against EXCEPT ![v] = IF yes THEN @ ELSE @ \cup {q.user}]
     /\ Goto(r, AfterTally(r))
  /\ UNCHANGED <<announced, timer, outcomes, restarts>>

\* clearTimeout: a timer that has fired is no longer stopped.
Cleared(v) == [timer EXCEPT ![v] = IF @ = "on" THEN "off" ELSE @]

\* Mutation of Resolve: the timer runs on.
ResolveKeepsTimer(r) ==
  /\ req[r].pc \in {"approve", "reject"}
  /\ LET v == req[r].vote approved == req[r].pc = "approve" IN
     /\ row' = [row EXCEPT ![v].status = IF approved THEN "APPROVED" ELSE "REJECTED"]
     /\ Goto(r, IF approved THEN [pc |-> "move", vote |-> v] ELSE Idle)
  /\ UNCHANGED <<announced, timer, outcomes, history, restarts>>

\* resolveVote after a ballot: the UPDATE of the status, which has no
\* condition on it, and the timer; a rejection only leaves a message.
Resolve(r) ==
  /\ req[r].pc \in {"approve", "reject"}
  /\ LET v == req[r].vote approved == req[r].pc = "approve" IN
     /\ row' = [row EXCEPT ![v].status = IF approved THEN "APPROVED" ELSE "REJECTED"]
     /\ timer' = Cleared(v)
     /\ Goto(r, IF approved THEN [pc |-> "move", vote |-> v] ELSE Idle)
  /\ UNCHANGED <<announced, outcomes, history, restarts>>

\* executeMove and the broadcast after it. The turn is refused when another
\* was played meanwhile or the leader cannot pay; the error is only logged.
Move(r) ==
  /\ req[r].pc = "move"
  /\ LET v == req[r].vote IN
     /\ moved' \in {moved, moved \cup {v}}
     /\ arrived' = arrived \cup {v}
  /\ Goto(r, Idle)
  /\ UNCHANGED <<row, announced, timer, history, restarts>>

\* Mutation of Fire: a vote is not expired while a request is at work on it.
FireUnlessBusy(v) ==
  /\ timer[v] = "on"
  /\ timer' = [timer EXCEPT ![v] =
       IF row[v].status = "PENDING" /\ \A r \in Reqs : req[r].pc # "tally"
       THEN "expiring" ELSE "off"]
  /\ UNCHANGED <<row, announced, req, outcomes, history, restarts>>

\* The timer fires and expireVote reads the row.
Fire(v) ==
  /\ timer[v] = "on"
  /\ timer' = [timer EXCEPT ![v] = IF row[v].status = "PENDING" THEN "expiring" ELSE "off"]
  /\ UNCHANGED <<row, announced, req, outcomes, history, restarts>>

\* resolveVote(EXPIRED).
Expire(v) ==
  /\ timer[v] = "expiring"
  /\ row' = [row EXCEPT ![v].status = "EXPIRED"]
  /\ timer' = [timer EXCEPT ![v] = "off"]
  /\ UNCHANGED <<announced, req, outcomes, history, restarts>>

\* A restart: the requests and the timers are gone, the rows stay.
Restart ==
  /\ restarts < MaxRestarts
  /\ restarts' = restarts + 1
  /\ req' = [r \in Reqs |-> Idle]
  /\ timer' = [v \in Votes |-> "off"]
  /\ UNCHANGED <<row, announced, outcomes, history>>

Continue(r) ==
  \/ \E v \in Votes : InsertVote(r, v)
  \/ Arm(r) \/ Tally(r) \/ Resolve(r) \/ Move(r)

Clock(v) == Fire(v) \/ Expire(v)

Next ==
  \/ \E r \in Reqs : Continue(r)
  \/ \E r \in Reqs, u \in Users : Propose(r, u)
  \/ \E r \in Reqs, u \in Users, v \in Votes, c \in Choices : ReadVote(r, u, v, c)
  \/ \E v \in Votes : Clock(v)
  \/ Restart

Spec == Init /\ [][Next]_vars

\* Timers fire and statements return; clients promise nothing.
Fairness ==
  /\ \A r \in Reqs : WF_vars(Continue(r))
  /\ \A v \in Votes : WF_vars(Clock(v))

FairSpec == Spec /\ Fairness

-----------------------------------------------------------------------------

\* Requests that are at work on a vote.
On(v) == {r \in Reqs : req[r].pc \notin {"idle", "insert"} /\ req[r].vote = v}

Quiet(v) == On(v) = {} /\ timer[v] # "expiring"

\* More than half of the members there were when the vote was proposed.
MostOf(S, v) == 2 * Cardinality(S) > row[v].total

(* Nobody is moved, and no vote decided, by ballots that were not cast by  *)
(* different members, however casts, copies of a cast and the timer        *)
(* overlap: lost ballots may delay a decision, never make one.             *)
MajorityIsReal ==
  \A v \in Votes :
    /\ row[v].status = "APPROVED" \/ v \in arrived \cup moved => MostOf(consent[v], v)
    /\ row[v].status = "REJECTED" => MostOf(against[v], v)

(* While no restart has happened, a pending vote has something that will   *)
(* settle it: its timer, or the request that is about to set it.           *)
PendingIsWatched ==
  restarts = 0 =>
    \A v \in Votes :
      row[v].status = "PENDING" => timer[v] # "off" \/ \E r \in On(v) : req[r].pc = "arm"

(* An approval that nobody is working on any more was acted on, and a vote *)
(* that is settled leaves no timer behind to overwrite its result.         *)
SettledIsDone ==
  restarts = 0 =>
    \A v \in Votes : row[v].status \in Settled /\ Quiet(v) =>
      /\ timer[v] = "off"
      /\ row[v].status = "APPROVED" => v \in arrived

(* A vote and its timer agree: a pending one is watched, a settled one was *)
(* acted on and is left alone.                                             *)
TimersFit == PendingIsWatched /\ SettledIsDone

(* Every vote ends, unless the process restarts.                           *)
VoteEnds ==
  \A v \in Votes :
    row[v].status = "PENDING" ~> (row[v].status # "PENDING" \/ restarts > 0)

=============================================================================
