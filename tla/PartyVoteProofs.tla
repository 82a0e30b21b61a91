--------------------------- MODULE PartyVoteProofs ---------------------------
(***************************************************************************)
(* Theorems about PartyVote, for any number of users, votes, concurrent    *)
(* requests and restarts.                                                  *)
(***************************************************************************)
EXTENDS PartyVote, FiniteSetTheorems, TLAPS

(* The initial state is well typed.                                        *)
LEMMA TypeInit == Init => TypeOK
<1>1. 0 \in 0..MaxRestarts
  BY VoteAssumption
<1> QED BY <1>1 DEF Init, TypeOK, NoVote, Row, Idle, Request

(* A request is a record of one of five kinds; its pc says which.          *)
LEMMA RequestKinds ==
  ASSUME NEW q \in Request
  PROVE  /\ q.pc = "insert" => q \in [pc : {"insert"}, user : Users, total : Nat]
         /\ q.pc \in {"arm", "approve", "reject", "move"} =>
              q \in [pc : {"arm", "approve", "reject", "move"}, vote : Votes]
         /\ q.pc = "tally" =>
              q \in [pc : {"tally"}, user : Users, vote : Votes, choice : Choices, read : Row]
         /\ q.pc = "idle" => q = Idle
  BY DEF Request, Idle

(* A ballot leaves a row of the table.                                     *)
LEMMA BallotRow ==
  ASSUME NEW now \in Row, NEW read \in Row, NEW u \in Users, NEW c \in Choices
  PROVE  WithBallot(now, read, u, c) \in Row
<1>1. /\ YesAfter(read, c) \in Nat /\ NoAfter(read, c) \in Nat
      /\ read.voted \cup {u} \in SUBSET Users
  BY DEF Row, YesAfter, NoAfter
<1> QED BY <1>1 DEF WithBallot, Row

(* Every step keeps the types: one case per action.                        *)
LEMMA TypeStep == TypeOK /\ [Next]_vars => TypeOK'
<1> SUFFICES ASSUME TypeOK, [Next]_vars PROVE TypeOK'
  OBVIOUS
<1> USE VoteAssumption
<1>0. \A r \in Reqs : req[r] \in Request
  BY DEF TypeOK
<1>1. CASE UNCHANGED vars
  BY <1>1 DEF TypeOK, vars, outcomes, history
<1>2. ASSUME NEW r \in Reqs, NEW u \in Users, Propose(r, u)
      PROVE  TypeOK'
  <2>1. PICK total \in 1..Cardinality(Users) :
          Goto(r, [pc |-> "insert", user |-> u, total |-> total])
    BY <1>2 DEF Propose
  <2>2. total \in Nat
    BY FS_CardinalityType
  <2>3. [pc |-> "insert", user |-> u, total |-> total] \in Request
    BY <2>2 DEF Request
  <2> QED BY <1>2, <2>1, <2>3 DEF TypeOK, Propose, Goto, outcomes, history
<1>3. ASSUME NEW r \in Reqs, NEW v \in Votes, InsertVote(r, v)
      PROVE  TypeOK'
  <2>1. req[r].user \in Users /\ req[r].total \in Nat
    BY <1>3, <1>0, RequestKinds DEF InsertVote
  <2>2. [status |-> "PENDING", yes |-> 1, no |-> 0,
         total |-> req[r].total, voted |-> {req[r].user}] \in Row
    BY <2>1 DEF Row
  <2>3. [pc |-> "arm", vote |-> v] \in Request
    BY DEF Request
  <2> QED BY <1>3, <2>1, <2>2, <2>3 DEF TypeOK, InsertVote, Goto, outcomes
<1>4. ASSUME NEW r \in Reqs, Arm(r)
      PROVE  TypeOK'
  <2>1. req[r].vote \in Votes
    BY <1>4, <1>0, RequestKinds DEF Arm
  <2> QED BY <1>4, <2>1 DEF TypeOK, Arm, Goto, Request, outcomes, history
<1>5. ASSUME NEW r \in Reqs, NEW u \in Users, NEW v \in Votes, NEW c \in Choices,
             ReadVote(r, u, v, c)
      PROVE  TypeOK'
  <2>1. [pc |-> "tally", user |-> u, vote |-> v, choice |-> c, read |-> row[v]] \in Request
    BY DEF Request, TypeOK
  <2> QED BY <1>5, <2>1 DEF TypeOK, ReadVote, Goto, outcomes, history
<1>6. ASSUME NEW r \in Reqs, Tally(r)
      PROVE  TypeOK'
  <2> DEFINE q == req[r]
             v == q.vote
  <2>1. q.user \in Users /\ v \in Votes /\ q.read \in Row /\ q.choice \in Choices
    BY <1>6, <1>0, RequestKinds DEF Tally
  <2>3. AfterTally(r) \in Request
    BY <2>1 DEF AfterTally, Verdict, Request
  <2>4. row' = [row EXCEPT ![v] = WithBallot(row[v], q.read, q.user, q.choice)]
    BY <1>6 DEF Tally
  <2>5. row' \in [Votes -> Row]
    <3>1. WithBallot(row[v], q.read, q.user, q.choice) \in Row
      BY <2>1, BallotRow DEF TypeOK
    <3> HIDE DEF q, v
    <3> QED BY <2>1, <2>4, <3>1 DEF TypeOK
  <2>6. /\ consent' \in [Votes -> SUBSET Users]
        /\ against' \in [Votes -> SUBSET Users]
    BY <1>6, <2>1 DEF Tally, TypeOK
  <2> QED BY <1>6, <2>3, <2>5, <2>6 DEF TypeOK, Tally, Goto, outcomes
<1>7. ASSUME NEW r \in Reqs, Resolve(r)
      PROVE  TypeOK'
  <2>1. req[r].vote \in Votes
    BY <1>7, <1>0, RequestKinds DEF Resolve
  <2>2. [pc |-> "move", vote |-> req[r].vote] \in Request /\ Idle \in Request
    BY <2>1 DEF Request
  <2> QED BY <1>7, <2>1, <2>2 DEF TypeOK, Resolve, Goto, Row, Settled, Cleared, outcomes, history
<1>8. ASSUME NEW r \in Reqs, Move(r)
      PROVE  TypeOK'
  <2>1. req[r].vote \in Votes
    BY <1>8, <1>0, RequestKinds DEF Move
  <2> QED BY <1>8, <2>1 DEF TypeOK, Move, Goto, Request, history
<1>9. ASSUME NEW v \in Votes, Clock(v)
      PROVE  TypeOK'
  BY <1>9 DEF TypeOK, Clock, Fire, Expire, Row, Settled, outcomes, history
<1>10. CASE Restart
  BY <1>10 DEF TypeOK, Restart, Request, outcomes, history
<1> QED BY <1>1, <1>2, <1>3, <1>4, <1>5, <1>6, <1>7, <1>8, <1>9, <1>10 DEF Next, Continue

(* Rows, requests and timers are always well formed: in particular the     *)
(* counts of a vote never fall below zero.                                 *)
THEOREM VoteTypes == Spec => []TypeOK
  BY TypeInit, TypeStep, PTL DEF Spec

-----------------------------------------------------------------------------

(* Counts are backed by ballots: the voters of a row or of a snapshot are  *)
(* users who said yes and users who said no, as many as it counts.         *)
Backed(saidYes, saidNo, ballots) ==
  \E Y \in SUBSET saidYes, N \in SUBSET saidNo :
    /\ ballots.voted = Y \cup N
    /\ ballots.yes = Cardinality(Y)
    /\ ballots.no = Cardinality(N)

(* Further ballots keep what is backed.                                    *)
LEMMA BackedGrows ==
  ASSUME NEW Y, NEW Y2, NEW N, NEW N2, NEW b, Y \subseteq Y2, N \subseteq N2, Backed(Y, N, b)
  PROVE  Backed(Y2, N2, b)
  BY DEF Backed

(* More than half of total is reached by a set once a backed count does.   *)
LEMMA CountIsReal ==
  ASSUME NEW S \in SUBSET Users, NEW T \in SUBSET S, NEW total \in Nat,
         Cardinality(T) >= Majority(total)
  PROVE  2 * Cardinality(S) > total
<1>1. IsFiniteSet(S) /\ IsFiniteSet(T)
  BY VoteAssumption, FS_Subset
<1>2. Cardinality(T) <= Cardinality(S) /\ Cardinality(T) \in Nat /\ Cardinality(S) \in Nat
  BY <1>1, FS_Subset, FS_CardinalityType
<1> QED BY <1>2 DEF Majority

(* A ballot of a user who is not among the voters keeps counts backed.     *)
LEMMA BallotBacked ==
  ASSUME NEW saidYes \in SUBSET Users, NEW saidNo \in SUBSET Users, NEW now \in Row,
         NEW read \in Row, NEW u \in Users, NEW c \in Choices,
         u \notin read.voted, Backed(saidYes, saidNo, read),
         NEW newYes, newYes = (IF c = "yes" THEN saidYes \cup {u} ELSE saidYes),
         NEW newNo, newNo = (IF c = "yes" THEN saidNo ELSE saidNo \cup {u})
  PROVE  Backed(newYes, newNo, WithBallot(now, read, u, c))
<1>1. PICK Y \in SUBSET saidYes, N \in SUBSET saidNo :
        /\ read.voted = Y \cup N
        /\ read.yes = Cardinality(Y)
        /\ read.no = Cardinality(N)
  BY DEF Backed
<1>2. /\ IsFiniteSet(Y) /\ IsFiniteSet(N) /\ u \notin Y /\ u \notin N
  BY <1>1, VoteAssumption, FS_Subset
<1>3. /\ Cardinality(Y \cup {u}) = Cardinality(Y) + 1
      /\ Cardinality(N \cup {u}) = Cardinality(N) + 1
  BY <1>2, FS_AddElement
<1>4. LET w == WithBallot(now, read, u, c) IN
      /\ w.voted = read.voted \cup {u}
      /\ w.yes = IF c = "yes" THEN read.yes + 1 ELSE read.yes
      /\ w.no = IF c = "yes" THEN read.no ELSE read.no + 1
  BY DEF WithBallot, YesAfter, NoAfter, Row, Choices
<1>5. CASE c = "yes"
  <2>1. /\ Y \cup {u} \in SUBSET newYes /\ N \in SUBSET newNo
        /\ WithBallot(now, read, u, c).voted = (Y \cup {u}) \cup N
        /\ WithBallot(now, read, u, c).yes = Cardinality(Y \cup {u})
        /\ WithBallot(now, read, u, c).no = Cardinality(N)
    BY <1>1, <1>3, <1>4, <1>5
  <2> QED BY <2>1 DEF Backed
<1>6. CASE c # "yes"
  <2>1. /\ Y \in SUBSET newYes /\ N \cup {u} \in SUBSET newNo
        /\ WithBallot(now, read, u, c).voted = Y \cup (N \cup {u})
        /\ WithBallot(now, read, u, c).yes = Cardinality(Y)
        /\ WithBallot(now, read, u, c).no = Cardinality(N \cup {u})
    BY <1>1, <1>3, <1>4, <1>6
  <2> QED BY <2>1 DEF Backed
<1> QED BY <1>5, <1>6

(* What a request at work relies on: its vote exists, the counts it has    *)
(* read are backed, the decision it is about to write is deserved.         *)
Deserved(q) ==
  /\ q.pc \notin {"idle", "insert"} => row[q.vote].status # "none"
  /\ q.pc = "tally" =>
       /\ q.user \notin q.read.voted
       /\ q.read.total = row[q.vote].total
       /\ Backed(consent[q.vote], against[q.vote], q.read)
  /\ q.pc \in {"approve", "move"} => MostOf(consent[q.vote], q.vote)
  /\ q.pc = "reject" => MostOf(against[q.vote], q.vote)

BallotInv ==
  /\ \A r \in Reqs : Deserved(req[r])
  /\ \A v \in Votes :
       row[v].status # "none" => Backed(consent[v], against[v], row[v])
  /\ \A v \in announced \cup arrived \cup moved : row[v].status # "none"
  /\ \A v \in Votes : timer[v] # "off" => row[v].status # "none"
  /\ MajorityIsReal

(* No vote and no request at first.                                        *)
LEMMA BallotInvInit == Init => BallotInv
  BY DEF Init, BallotInv, Deserved, Idle, NoVote, MajorityIsReal

(* A vote that exists goes on existing, of the same size, and what has     *)
(* been said stays said.                                                   *)
Kept(v) ==
  /\ row[v].status # "none" => row'[v].status # "none" /\ row'[v].total = row[v].total
  /\ consent[v] \subseteq consent'[v]
  /\ against[v] \subseteq against'[v]

(* Votes are kept, and nobody counted is forgotten.                        *)
LEMMA VotesAreKept ==
  ASSUME TypeOK, [Next]_vars, NEW w \in Votes
  PROVE  Kept(w)
<1> USE DEF TypeOK
<1>0. \A r \in Reqs : req[r] \in Request
  OBVIOUS
<1>2. ASSUME NEW r \in Reqs, NEW v \in Votes, InsertVote(r, v)
      PROVE  Kept(w)
  BY <1>2 DEF Kept, InsertVote, NoVote
<1>3. ASSUME NEW r \in Reqs, Tally(r)
      PROVE  Kept(w)
  <2>1. /\ req[r].vote \in Votes
        /\ row' = [row EXCEPT ![req[r].vote] =
                     WithBallot(@, req[r].read, req[r].user, req[r].choice)]
    BY <1>3, <1>0, RequestKinds DEF Tally
  <2>2. row[req[r].vote] \in Row /\ row[w] \in Row
    BY <2>1
  <2>3. row'[w].status = row[w].status /\ row'[w].total = row[w].total
    BY <2>1, <2>2 DEF WithBallot, Row
  <2>4. consent[w] \subseteq consent'[w] /\ against[w] \subseteq against'[w]
    BY <1>3, <2>1 DEF Tally
  <2> QED BY <2>3, <2>4 DEF Kept
<1>4. ASSUME NEW r \in Reqs, Resolve(r)
      PROVE  Kept(w)
  BY <1>4, <1>0, RequestKinds DEF Kept, Resolve, history, Row
<1>5. ASSUME NEW v \in Votes, Clock(v)
      PROVE  Kept(w)
  BY <1>5 DEF Kept, Clock, Fire, Expire, history, Row
<1>6. CASE \/ UNCHANGED vars
           \/ Restart
           \/ \E r \in Reqs : Arm(r) \/ Move(r)
           \/ \E r \in Reqs, u \in Users : Propose(r, u)
           \/ \E r \in Reqs, u \in Users, v \in Votes, c \in Choices : ReadVote(r, u, v, c)
  BY <1>6 DEF Kept, vars, history, Propose, Arm, ReadVote, Move, Restart
<1> HIDE DEF TypeOK
<1> QED
  BY <1>2, <1>3, <1>4, <1>5, <1>6 DEF Next, Continue

(* A majority grows with the set.                                          *)
LEMMA MostGrows ==
  ASSUME NEW S \in SUBSET Users, NEW T \in SUBSET S, NEW total \in Nat,
         2 * Cardinality(T) > total
  PROVE  2 * Cardinality(S) > total
<1>1. IsFiniteSet(S) /\ IsFiniteSet(T)
  BY VoteAssumption, FS_Subset
<1>2. Cardinality(T) <= Cardinality(S) /\ Cardinality(T) \in Nat /\ Cardinality(S) \in Nat
  BY <1>1, FS_Subset, FS_CardinalityType
<1> QED BY <1>2

(* A majority of a vote stays one.                                         *)
LEMMA MostIsKept ==
  ASSUME TypeOK, TypeOK', [Next]_vars, NEW v \in Votes, row[v].status # "none"
  PROVE  /\ MostOf(consent[v], v) => MostOf(consent[v], v)'
         /\ MostOf(against[v], v) => MostOf(against[v], v)'
<1>1. Kept(v)
  BY VotesAreKept
<1>2. row[v].total \in Nat /\ row'[v].total = row[v].total
  BY <1>1 DEF Kept, TypeOK, Row
<1>3. /\ consent[v] \in SUBSET consent'[v] /\ consent'[v] \in SUBSET Users
      /\ against[v] \in SUBSET against'[v] /\ against'[v] \in SUBSET Users
  BY <1>1 DEF Kept, TypeOK
<1> QED BY <1>2, <1>3, MostGrows DEF MostOf

(* What a request at work relies on is not taken away by any step.         *)
LEMMA DesertsAreKept ==
  ASSUME TypeOK, TypeOK', [Next]_vars, NEW q \in Request, Deserved(q)
  PROVE  Deserved(q)'
<1>1. CASE q.pc \in {"idle", "insert"}
  BY <1>1 DEF Deserved
<1>2. CASE q.pc \notin {"idle", "insert"}
  <2>1. q.vote \in Votes /\ row[q.vote].status # "none"
    BY <1>2 DEF Deserved, Request, Idle
  <2>2. Kept(q.vote)
    BY <2>1, VotesAreKept
  <2>3. /\ MostOf(consent[q.vote], q.vote) => MostOf(consent[q.vote], q.vote)'
        /\ MostOf(against[q.vote], q.vote) => MostOf(against[q.vote], q.vote)'
    BY <2>1, MostIsKept
  <2>4. ASSUME Backed(consent[q.vote], against[q.vote], q.read)
        PROVE  Backed(consent'[q.vote], against'[q.vote], q.read)
    BY <2>2, <2>4, BackedGrows DEF Kept
  <2> QED BY <2>1, <2>2, <2>3, <2>4 DEF Deserved, Kept
<1> QED BY <1>1, <1>2

(* What a request relies on survives the steps of others.                  *)
LEMMA RequestIsKept ==
  ASSUME TypeOK, TypeOK', BallotInv, [Next]_vars, NEW r \in Reqs,
         req'[r] = req[r] \/ req'[r] = Idle
  PROVE  Deserved(req[r])'
<1>1. CASE req'[r] = req[r]
  <2>1. PICK q \in Request : q = req[r]
    BY DEF TypeOK
  <2>2. Deserved(q)
    BY <2>1 DEF BallotInv
  <2>3. Deserved(q)'
    BY <2>2, DesertsAreKept
  <2> QED BY <1>1, <2>1, <2>3 DEF Deserved
<1>2. CASE req'[r] = Idle
  BY <1>2 DEF Deserved, Idle
<1> QED BY <1>1, <1>2

(* The first part of BallotInv: every request stays deserved.              *)
LEMMA RequestStep ==
  ASSUME TypeOK, TypeOK', BallotInv, [Next]_vars, NEW s \in Reqs
  PROVE  Deserved(req[s])'
<1>0. /\ \A r \in Reqs : req[r] \in Request
      /\ req \in [Reqs -> Request] /\ row \in [Votes -> Row]
      /\ \A r \in Reqs : Deserved(req[r])
  BY DEF TypeOK, BallotInv
<1>1. ASSUME NEW r \in Reqs, NEW u \in Users, Propose(r, u)
      PROVE  Deserved(req[s])'
  BY <1>0, <1>1, RequestIsKept DEF Propose, Goto, Deserved
<1>2. ASSUME NEW r \in Reqs, NEW v \in Votes, InsertVote(r, v)
      PROVE  Deserved(req[s])'
  <2>1. row'[v].status = "PENDING"
    BY <1>0, <1>2 DEF InsertVote
  <2> QED BY <1>0, <1>2, <2>1, RequestIsKept DEF InsertVote, Goto, Deserved
<1>3. ASSUME NEW r \in Reqs, Arm(r) \/ Move(r)
      PROVE  Deserved(req[s])'
  BY <1>0, <1>3, RequestIsKept DEF Arm, Move, Goto
<1>4. ASSUME NEW r \in Reqs, NEW u \in Users, NEW v \in Votes, NEW c \in Choices,
             ReadVote(r, u, v, c)
      PROVE  Deserved(req[s])'
  <2>1. CASE s # r
    BY <1>0, <1>4, <2>1, RequestIsKept DEF ReadVote, Goto
  <2>2. CASE s = r
    <3>1. req'[s] = [pc |-> "tally", user |-> u, vote |-> v, choice |-> c, read |-> row[v]]
      BY <1>0, <1>4, <2>2 DEF ReadVote, Goto
    <3>2. row[v].status # "none" /\ row' = row /\ consent' = consent /\ against' = against
      BY <1>4 DEF ReadVote, history
    <3>3. Backed(consent[v], against[v], row[v])
      BY <3>2 DEF BallotInv
    <3>4. u \notin row[v].voted
      BY <1>4 DEF ReadVote
    <3> QED BY <3>1, <3>2, <3>3, <3>4 DEF Deserved
  <2> QED BY <2>1, <2>2
<1>5. ASSUME NEW r \in Reqs, Tally(r)
      PROVE  Deserved(req[s])'
  <2>1. CASE s # r \/ AfterTally(r) = Idle
    BY <1>0, <1>5, <2>1, RequestIsKept DEF Tally, Goto
  <2>2. CASE s = r /\ AfterTally(r) # Idle
    <3>1. PICK q \in Request : q = req[r]
      BY <1>0
    <3>2. /\ q \in [pc : {"tally"}, user : Users, vote : Votes, choice : Choices, read : Row]
          /\ Deserved(q)
      BY <1>0, <1>5, <3>1, RequestKinds DEF Tally
    <3> DEFINE w == WithBallot(row[q.vote], q.read, q.user, q.choice)
               newYes == IF q.choice = "yes" THEN consent[q.vote] \cup {q.user}
                                             ELSE consent[q.vote]
               newNo == IF q.choice = "yes" THEN against[q.vote]
                                            ELSE against[q.vote] \cup {q.user}
    <3>3. req'[s] = Verdict(q.vote, w.yes, w.no, q.read.total)
      <4>1. req'[s] = AfterTally(r)
        BY <1>0, <1>5, <2>2 DEF Tally, Goto
      <4>2. w.yes = YesAfter(q.read, q.choice) /\ w.no = NoAfter(q.read, q.choice)
        BY <1>0, <3>2 DEF WithBallot, Row
      <4> QED BY <3>1, <4>1, <4>2 DEF AfterTally
    <3>4. /\ consent'[q.vote] = newYes /\ against'[q.vote] = newNo
          /\ newYes \in SUBSET Users /\ newNo \in SUBSET Users
          /\ consent[q.vote] \in SUBSET Users /\ against[q.vote] \in SUBSET Users
      BY <1>5, <3>1, <3>2 DEF Tally, TypeOK
    <3>5. /\ row[q.vote].status # "none"
          /\ q.user \notin q.read.voted
          /\ q.read.total = row[q.vote].total
          /\ Backed(consent[q.vote], against[q.vote], q.read)
      BY <3>2 DEF Deserved
    <3>6. Kept(q.vote)
      BY <3>2, VotesAreKept
    <3>7. /\ row[q.vote] \in Row /\ q.read \in Row /\ q.vote \in Votes
          /\ q.user \in Users /\ q.choice \in Choices
          /\ q.read.total \in Nat /\ row'[q.vote].total = q.read.total
          /\ row'[q.vote].status # "none"
      BY <1>0, <3>2, <3>5, <3>6 DEF Kept, Row
    <3>8. Backed(newYes, newNo, w)
      BY <3>4, <3>5, <3>7, BallotBacked
    <3>9. PICK Y \in SUBSET newYes, N \in SUBSET newNo :
            w.yes = Cardinality(Y) /\ w.no = Cardinality(N)
      BY <3>8 DEF Backed
    <3> HIDE DEF w, newYes, newNo
    <3>10. w.yes >= Majority(q.read.total) => 2 * Cardinality(newYes) > q.read.total
      BY <3>4, <3>7, <3>9, CountIsReal
    <3>11. w.no >= Majority(q.read.total) => 2 * Cardinality(newNo) > q.read.total
      BY <3>4, <3>7, <3>9, CountIsReal
    <3>12. \/ req'[s] = Idle
           \/ /\ req'[s] = [pc |-> "approve", vote |-> q.vote]
              /\ 2 * Cardinality(newYes) > q.read.total
           \/ /\ req'[s] = [pc |-> "reject", vote |-> q.vote]
              /\ 2 * Cardinality(newNo) > q.read.total
      BY <3>3, <3>10, <3>11 DEF Verdict
    <3> QED BY <3>4, <3>7, <3>12 DEF Deserved, MostOf, Idle
  <2> QED BY <2>1, <2>2
<1>6. ASSUME NEW r \in Reqs, Resolve(r)
      PROVE  Deserved(req[s])'
  <2>1. CASE s # r \/ req[r].pc = "reject"
    BY <1>0, <1>6, <2>1, RequestIsKept DEF Resolve, Goto
  <2>2. CASE s = r /\ req[r].pc # "reject"
    <3>1. PICK q \in Request : q = req[r]
      BY <1>0
    <3>2. q.pc = "approve" /\ q.vote \in Votes /\ Deserved(q)
      BY <1>0, <1>6, <2>2, <3>1, RequestKinds DEF Resolve
    <3>3. Deserved(q)'
      BY <3>2, DesertsAreKept
    <3>4. req'[s] = [pc |-> "move", vote |-> q.vote]
      BY <1>0, <1>6, <2>2, <3>1, <3>2 DEF Resolve, Goto
    <3> QED BY <3>2, <3>3, <3>4 DEF Deserved
  <2> QED BY <2>1, <2>2
<1>7. CASE \/ UNCHANGED vars
           \/ Restart
           \/ \E v \in Votes : Clock(v)
  BY <1>7, RequestIsKept DEF vars, Clock, Fire, Expire, Restart
<1> QED
  BY <1>1, <1>2, <1>3, <1>4, <1>5, <1>6, <1>7 DEF Next, Continue

(* The second part: the rows stay backed.                                  *)
LEMMA RowStep ==
  ASSUME TypeOK, TypeOK', BallotInv, [Next]_vars, NEW w \in Votes,
         row'[w].status # "none"
  PROVE  Backed(consent'[w], against'[w], row'[w])
<1>0. /\ \A r \in Reqs : req[r] \in Request /\ Deserved(req[r])
      /\ row \in [Votes -> Row] /\ row' \in [Votes -> Row]
  BY DEF TypeOK, BallotInv
<1>1. ASSUME row[w].status # "none",
             /\ row'[w].voted = row[w].voted
             /\ row'[w].yes = row[w].yes /\ row'[w].no = row[w].no
      PROVE  Backed(consent'[w], against'[w], row'[w])
  <2>1. Backed(consent[w], against[w], row[w])
    BY <1>1 DEF BallotInv
  <2>2. Kept(w)
    BY VotesAreKept
  <2>3. Backed(consent[w], against[w], row'[w])
    BY <1>1, <2>1 DEF Backed
  <2> QED BY <2>2, <2>3, BackedGrows DEF Kept
<1>2. ASSUME NEW r \in Reqs, NEW v \in Votes, InsertVote(r, v)
      PROVE  Backed(consent'[w], against'[w], row'[w])
  <2>1. CASE w # v
    BY <1>0, <1>1, <1>2, <2>1 DEF InsertVote
  <2>2. CASE w = v
    <3>1. /\ row'[w].voted = {req[r].user} /\ row'[w].yes = 1 /\ row'[w].no = 0
          /\ req[r].user \in consent'[w]
      BY <1>0, <1>2, <2>2 DEF InsertVote, TypeOK
    <3>2. Cardinality({req[r].user}) = 1 /\ Cardinality({}) = 0
      BY FS_Singleton, FS_EmptySet
    <3>3. {req[r].user} \in SUBSET consent'[w] /\ {} \in SUBSET against'[w]
      BY <3>1
    <3> QED BY <3>1, <3>2, <3>3 DEF Backed
  <2> QED BY <2>1, <2>2
<1>3. ASSUME NEW r \in Reqs, Tally(r)
      PROVE  Backed(consent'[w], against'[w], row'[w])
  <2>1. PICK q \in Request : q = req[r]
    BY <1>0
  <2>2. /\ q \in [pc : {"tally"}, user : Users, vote : Votes, choice : Choices, read : Row]
        /\ Deserved(q)
    BY <1>0, <1>3, <2>1, RequestKinds DEF Tally
  <2>3. /\ row' = [row EXCEPT ![q.vote] = WithBallot(@, q.read, q.user, q.choice)]
        /\ consent' = [consent EXCEPT ![q.vote] =
                         IF q.choice = "yes" THEN @ \cup {q.user} ELSE @]
        /\ against' = [against EXCEPT ![q.vote] =
                         IF q.choice = "yes" THEN @ ELSE @ \cup {q.user}]
    BY <1>3, <2>1 DEF Tally
  <2>4. CASE w # q.vote
    BY <1>0, <1>1, <2>3, <2>4
  <2>5. CASE w = q.vote
    <3>1. /\ row'[w] = WithBallot(row[w], q.read, q.user, q.choice)
          /\ consent'[w] = IF q.choice = "yes" THEN consent[w] \cup {q.user} ELSE consent[w]
          /\ against'[w] = IF q.choice = "yes" THEN against[w] ELSE against[w] \cup {q.user}
          /\ consent[w] \in SUBSET Users /\ against[w] \in SUBSET Users /\ row[w] \in Row
      BY <2>3, <2>5 DEF TypeOK
    <3>2. q.user \notin q.read.voted /\ Backed(consent[w], against[w], q.read)
      BY <2>2, <2>5 DEF Deserved
    <3> QED BY <2>2, <3>1, <3>2, BallotBacked
  <2> QED BY <2>4, <2>5
<1>4. ASSUME NEW r \in Reqs, Resolve(r)
      PROVE  Backed(consent'[w], against'[w], row'[w])
  <2>1. req[r].vote \in Votes /\ row[req[r].vote].status # "none"
    BY <1>0, <1>4, RequestKinds DEF Resolve, Deserved
  <2> QED BY <1>0, <1>1, <1>4, <2>1 DEF Resolve, Row
<1>5. ASSUME NEW v \in Votes, Clock(v)
      PROVE  Backed(consent'[w], against'[w], row'[w])
  <2>1. row[v].status # "none"
    BY <1>5 DEF Clock, Fire, Expire, BallotInv
  <2> QED BY <1>0, <1>1, <1>5, <2>1 DEF Clock, Fire, Expire, Row
<1>6. CASE \/ UNCHANGED vars
           \/ Restart
           \/ \E r \in Reqs : Arm(r) \/ Move(r)
           \/ \E r \in Reqs, u \in Users : Propose(r, u)
           \/ \E r \in Reqs, u \in Users, v \in Votes, c \in Choices : ReadVote(r, u, v, c)
  BY <1>1, <1>6 DEF vars, Propose, Arm, ReadVote, Move, Restart
<1> QED
  BY <1>2, <1>3, <1>4, <1>5, <1>6 DEF Next, Continue

(* The remaining parts: what was announced or has a timer exists.          *)
LEMMA ExistStep ==
  ASSUME TypeOK, TypeOK', BallotInv, [Next]_vars
  PROVE  /\ \A v \in announced' \cup arrived' \cup moved' : row'[v].status # "none"
         /\ \A v \in Votes : timer'[v] # "off" => row'[v].status # "none"
<1>0. /\ \A r \in Reqs : req[r] \in Request /\ Deserved(req[r])
      /\ timer \in [Votes -> {"off", "on", "expiring"}]
      /\ announced \cup arrived \cup moved \subseteq Votes
  BY DEF TypeOK, BallotInv
<1>1. \A v \in Votes : row[v].status # "none" => row'[v].status # "none"
  BY VotesAreKept DEF Kept
<1>2. ASSUME NEW v \in announced' \cup arrived' \cup moved'
      PROVE  row'[v].status # "none"
  <2>1. CASE v \in announced \cup arrived \cup moved
    BY <1>0, <1>1, <2>1 DEF BallotInv
  <2>2. ASSUME NEW r \in Reqs, Arm(r) \/ Move(r), v = req[r].vote
        PROVE  row'[v].status # "none"
    BY <1>0, <1>1, <2>2, RequestKinds DEF Arm, Move, Deserved
  <2>3. v \in announced \cup arrived \cup moved
        \/ \E r \in Reqs : (Arm(r) \/ Move(r)) /\ v = req[r].vote
    BY <1>2 DEF Next, vars, Continue, Clock, Propose, InsertVote, Arm, ReadVote, Tally,
           Resolve, Move, Fire, Expire, Restart, outcomes
  <2> QED BY <2>1, <2>2, <2>3
<1>3. ASSUME NEW v \in Votes, timer'[v] # "off"
      PROVE  row'[v].status # "none"
  <2>1. ASSUME NEW r \in Reqs, Arm(r), v = req[r].vote
        PROVE  row'[v].status # "none"
    BY <1>0, <1>1, <2>1, RequestKinds DEF Arm, Deserved
  <2>2. timer[v] # "off" \/ \E r \in Reqs : Arm(r) /\ v = req[r].vote
    BY <1>0, <1>3 DEF Next, vars, Continue, Clock, Propose, InsertVote, Arm, ReadVote, Tally,
           Resolve, Move, Fire, Expire, Restart, Cleared
  <2> QED BY <1>1, <2>1, <2>2 DEF BallotInv
<1> QED BY <1>2, <1>3

(* Decisions stay real: by the ballots, as no step takes one back.         *)
LEMMA MajorityStep ==
  ASSUME TypeOK, TypeOK', BallotInv, [Next]_vars
  PROVE  MajorityIsReal'
<1>0. /\ \A r \in Reqs : req[r] \in Request /\ Deserved(req[r])
      /\ row \in [Votes -> Row] /\ MajorityIsReal
      /\ \A v \in arrived \cup moved : row[v].status # "none"
      /\ \A v \in Votes : Kept(v)
  BY VotesAreKept DEF TypeOK, BallotInv
<1> SUFFICES ASSUME NEW v \in Votes
    PROVE  /\ row'[v].status = "APPROVED" \/ v \in arrived' \cup moved' =>
                MostOf(consent[v], v)'
           /\ row'[v].status = "REJECTED" => MostOf(against[v], v)'
  BY DEF MajorityIsReal
<1>1. row[v].status # "none" =>
        /\ MostOf(consent[v], v) => MostOf(consent[v], v)'
        /\ MostOf(against[v], v) => MostOf(against[v], v)'
  BY MostIsKept
<1>2. ASSUME NEW r \in Reqs, Resolve(r)
      PROVE  /\ row'[v].status = "APPROVED" \/ v \in arrived' \cup moved' =>
                  MostOf(consent[v], v)'
             /\ row'[v].status = "REJECTED" => MostOf(against[v], v)'
  <2>1. req[r].vote \in Votes /\ Deserved(req[r])
    BY <1>0, <1>2, RequestKinds DEF Resolve
  <2>2. arrived' = arrived /\ moved' = moved
    BY <1>2 DEF Resolve, outcomes
  <2>3. CASE v # req[r].vote
    <3>1. row'[v] = row[v]
      BY <1>0, <1>2, <2>1, <2>3 DEF Resolve
    <3> QED BY <1>0, <1>1, <2>2, <3>1 DEF MajorityIsReal
  <2>4. CASE v = req[r].vote
    <3>1. row'[v].status = IF req[r].pc = "approve" THEN "APPROVED" ELSE "REJECTED"
      BY <1>0, <1>2, <2>4 DEF Resolve, Row
    <3>2. /\ req[r].pc = "approve" => MostOf(consent[v], v)
          /\ req[r].pc # "approve" => MostOf(against[v], v)
          /\ row[v].status # "none"
      BY <1>2, <2>1, <2>4 DEF Deserved, Resolve
    <3> QED BY <1>0, <1>1, <2>2, <3>1, <3>2 DEF MajorityIsReal
  <2> QED BY <2>3, <2>4
<1>3. ASSUME NEW r \in Reqs, Move(r)
      PROVE  /\ row'[v].status = "APPROVED" \/ v \in arrived' \cup moved' =>
                  MostOf(consent[v], v)'
             /\ row'[v].status = "REJECTED" => MostOf(against[v], v)'
  <2>1. Deserved(req[r]) /\ row' = row
    BY <1>0, <1>3 DEF Move
  <2>2. v \in arrived' \cup moved' => v \in arrived \cup moved \/ v = req[r].vote
    BY <1>3 DEF Move
  <2>3. v = req[r].vote => MostOf(consent[v], v) /\ row[v].status # "none"
    BY <1>3, <2>1 DEF Move, Deserved
  <2> QED BY <1>0, <1>1, <2>1, <2>2, <2>3 DEF MajorityIsReal
<1>4. ASSUME \/ row'[v].status = row[v].status
             \/ row'[v].status \in {"PENDING", "EXPIRED"},
             arrived' = arrived, moved' = moved
      PROVE  /\ row'[v].status = "APPROVED" \/ v \in arrived' \cup moved' =>
                  MostOf(consent[v], v)'
             /\ row'[v].status = "REJECTED" => MostOf(against[v], v)'
  BY <1>0, <1>1, <1>4 DEF MajorityIsReal
<1>5. ASSUME NEW r \in Reqs, NEW w \in Votes, InsertVote(r, w)
      PROVE  row'[v].status \in {row[v].status, "PENDING"} /\ UNCHANGED outcomes
  BY <1>0, <1>5 DEF InsertVote
<1>6. ASSUME NEW r \in Reqs, Tally(r)
      PROVE  row'[v].status = row[v].status /\ UNCHANGED outcomes
  <2>1. req[r].vote \in Votes
    BY <1>0, <1>6, RequestKinds DEF Tally
  <2>2. row' = [row EXCEPT ![req[r].vote] =
                  WithBallot(@, req[r].read, req[r].user, req[r].choice)]
    BY <1>6 DEF Tally
  <2>3. WithBallot(row[v], req[r].read, req[r].user, req[r].choice).status = row[v].status
    BY <1>0 DEF WithBallot, Row
  <2> QED BY <1>0, <1>6, <2>1, <2>2, <2>3 DEF Tally
<1>7. ASSUME NEW w \in Votes, Clock(w)
      PROVE  row'[v].status \in {row[v].status, "EXPIRED"} /\ UNCHANGED outcomes
  BY <1>0, <1>7 DEF Clock, Fire, Expire, Row
<1>8. ASSUME \/ UNCHANGED vars
             \/ Restart
             \/ \E r \in Reqs : Arm(r)
             \/ \E r \in Reqs, u \in Users : Propose(r, u)
             \/ \E r \in Reqs, u \in Users, w \in Votes, c \in Choices : ReadVote(r, u, w, c)
      PROVE  row' = row /\ UNCHANGED outcomes
  BY <1>8 DEF vars, Propose, Arm, ReadVote, Restart
<1> QED
  BY <1>2, <1>3, <1>4, <1>5, <1>6, <1>7, <1>8 DEF Next, Continue, outcomes

(* Every step keeps BallotInv.                                             *)
LEMMA BallotInvStep ==
  ASSUME TypeOK, BallotInv, [Next]_vars
  PROVE  BallotInv'
<1>1. TypeOK'
  BY TypeStep
<1> QED BY <1>1, RequestStep, RowStep, ExistStep, MajorityStep DEF BallotInv

(* No vote is decided and nobody is moved without a majority of different  *)
(* members, however requests, copies of a request, timers and restarts     *)
(* overlap.                                                                *)
THEOREM DecisionsAreReal == Spec => []MajorityIsReal
<1>1. Init => TypeOK /\ BallotInv
  BY TypeInit, BallotInvInit
<1>2. TypeOK /\ BallotInv /\ [Next]_vars => (TypeOK /\ BallotInv)'
  BY TypeStep, BallotInvStep
<1>3. BallotInv => MajorityIsReal
  BY DEF BallotInv
<1> QED BY <1>1, <1>2, <1>3, PTL DEF Spec

-----------------------------------------------------------------------------

(* Ballots arrive only after the timer of their vote was set, so a decided *)
(* vote has no timer running; without a restart whatever is to happen to a *)
(* vote is held by its timer or by a request.                              *)
Held(q) ==
  /\ q.pc = "arm" =>
       row[q.vote].status = "PENDING" /\ q.vote \notin announced /\ timer[q.vote] = "off"
  /\ q.pc \in {"tally", "approve", "reject", "move"} => q.vote \in announced

Moving(v) == \E r \in Reqs : req[r].pc = "move" /\ req[r].vote = v

Arming(v) == \E r \in Reqs : req[r].pc = "arm" /\ req[r].vote = v

WatchInv ==
  /\ \A r \in Reqs : Held(req[r])
  /\ \A r, s \in Reqs :
       req[r].pc = "arm" /\ req[s].pc = "arm" /\ req[r].vote = req[s].vote => r = s
  /\ \A v \in Votes :
       /\ timer[v] = "on" => row[v].status = "PENDING"
       /\ timer[v] # "off" => v \in announced
       /\ v \in announced => row[v].status # "none"
  /\ restarts = 0 => \A v \in Votes :
       /\ row[v].status = "PENDING" => timer[v] # "off" \/ Arming(v)
       /\ row[v].status = "APPROVED" => v \in arrived \/ Moving(v)

(* Nothing to watch at first.                                              *)
LEMMA WatchInvInit == Init => WatchInv
  BY DEF Init, WatchInv, Held, Idle, NoVote

(* Every step keeps WatchInv: one case per action.                         *)
LEMMA WatchInvStep ==
  ASSUME TypeOK, TypeOK', WatchInv, [Next]_vars
  PROVE  WatchInv'
<1>0. /\ \A r \in Reqs : req[r] \in Request
      /\ req \in [Reqs -> Request] /\ row \in [Votes -> Row]
      /\ timer \in [Votes -> {"off", "on", "expiring"}] /\ restarts \in Nat
  BY VoteAssumption DEF TypeOK
<1>1. CASE UNCHANGED vars
  BY <1>1 DEF vars, outcomes, history, WatchInv, Held, Moving, Arming
<1>2. ASSUME NEW r \in Reqs, NEW u \in Users, Propose(r, u)
      PROVE  WatchInv'
  BY <1>0, <1>2 DEF Propose, Goto, Idle, outcomes, WatchInv, Held, Moving, Arming
<1>3. ASSUME NEW r \in Reqs, NEW v \in Votes, InsertVote(r, v)
      PROVE  WatchInv'
  BY <1>0, <1>3 DEF InsertVote, Goto, NoVote, outcomes, WatchInv, Held, Moving, Arming
<1>4. ASSUME NEW r \in Reqs, Arm(r)
      PROVE  WatchInv'
  BY <1>0, <1>4, RequestKinds DEF Arm, Goto, Idle, outcomes, WatchInv, Held, Moving, Arming
<1>5. ASSUME NEW r \in Reqs, NEW u \in Users, NEW v \in Votes, NEW c \in Choices,
             ReadVote(r, u, v, c)
      PROVE  WatchInv'
  BY <1>0, <1>5 DEF ReadVote, Goto, Idle, outcomes, WatchInv, Held, Moving, Arming
<1>6. ASSUME NEW r \in Reqs, Tally(r)
      PROVE  WatchInv'
  <2>1. req[r].vote \in Votes
    BY <1>0, <1>6, RequestKinds DEF Tally
  <2>2. \A w \in Votes : row'[w].status = row[w].status
    <3> SUFFICES ASSUME NEW w \in Votes PROVE row'[w].status = row[w].status
      OBVIOUS
    <3>1. row' = [row EXCEPT ![req[r].vote] =
                    WithBallot(@, req[r].read, req[r].user, req[r].choice)]
      BY <1>6 DEF Tally
    <3>2. WithBallot(row[w], req[r].read, req[r].user, req[r].choice).status = row[w].status
      BY <1>0 DEF WithBallot, Row
    <3> QED BY <1>0, <2>1, <3>1, <3>2
  <2>3. /\ req' = [req EXCEPT ![r] = AfterTally(r)]
        /\ AfterTally(r).pc \in {"idle", "approve", "reject"}
        /\ AfterTally(r).pc # "idle" => AfterTally(r).vote = req[r].vote
    BY <1>6 DEF Tally, Goto, AfterTally, Verdict, Idle
  <2> HIDE DEF AfterTally
  <2> QED BY <1>0, <1>6, <2>1, <2>2, <2>3
          DEF Tally, outcomes, WatchInv, Held, Moving, Arming
<1>7. ASSUME NEW r \in Reqs, Resolve(r)
      PROVE  WatchInv'
  <2>1. req[r].vote \in Votes
    BY <1>0, <1>7, RequestKinds DEF Resolve
  <2>2. \A w \in Votes :
          /\ w # req[r].vote => row'[w] = row[w] /\ timer'[w] = timer[w]
          /\ w = req[r].vote =>
               /\ row'[w].status = IF req[r].pc = "approve" THEN "APPROVED" ELSE "REJECTED"
               /\ timer'[w] = IF timer[w] = "on" THEN "off" ELSE timer[w]
    <3> SUFFICES ASSUME NEW w \in Votes
        PROVE  /\ w # req[r].vote => row'[w] = row[w] /\ timer'[w] = timer[w]
               /\ w = req[r].vote =>
                    /\ row'[w].status = IF req[r].pc = "approve" THEN "APPROVED" ELSE "REJECTED"
                    /\ timer'[w] = IF timer[w] = "on" THEN "off" ELSE timer[w]
      OBVIOUS
    <3>1. row[w] \in Row
      BY <1>0
    <3>2. w # req[r].vote => row'[w] = row[w]
      BY <1>0, <1>7 DEF Resolve
    <3>3. w = req[r].vote =>
            row'[w].status = IF req[r].pc = "approve" THEN "APPROVED" ELSE "REJECTED"
      BY <1>0, <1>7, <3>1 DEF Resolve, Row
    <3>4. /\ w # req[r].vote => timer'[w] = timer[w]
          /\ w = req[r].vote => timer'[w] = IF timer[w] = "on" THEN "off" ELSE timer[w]
      BY <1>0, <1>7, <2>1 DEF Resolve, Cleared
    <3> QED BY <3>2, <3>3, <3>4
  <2>3. /\ \A s \in Reqs : s # r => req'[s] = req[s]
        /\ req[r].pc = "approve" => req'[r].pc = "move" /\ req'[r].vote = req[r].vote
        /\ req[r].pc # "approve" => req'[r].pc = "idle"
        /\ req[r].pc \in {"approve", "reject"}
        /\ UNCHANGED <<announced, arrived, restarts>>
    BY <1>0, <1>7 DEF Resolve, Goto, Idle, outcomes
  <2>4. /\ req[r].vote \in announced
        /\ row[req[r].vote].status # "none"
    BY <2>1, <2>3 DEF WatchInv, Held
  <2>5. \A s \in Reqs : Held(req[s])'
    <3> SUFFICES ASSUME NEW s \in Reqs PROVE Held(req[s])'
      OBVIOUS
    <3>1. Held(req[s])
      BY DEF WatchInv
    <3>2. req[s].pc \in {"arm", "tally", "approve", "reject", "move"} => req[s].vote \in Votes
      BY <1>0, RequestKinds
    <3> QED BY <2>2, <2>3, <2>4, <3>1, <3>2 DEF Held
  <2>6. restarts' = 0 => \A v \in Votes :
          /\ row'[v].status = "PENDING" => timer'[v] # "off" \/ Arming(v)'
          /\ row'[v].status = "APPROVED" => v \in arrived' \/ Moving(v)'
    <3> SUFFICES ASSUME restarts' = 0, NEW v \in Votes
        PROVE  /\ row'[v].status = "PENDING" => timer'[v] # "off" \/ Arming(v)'
               /\ row'[v].status = "APPROVED" => v \in arrived' \/ Moving(v)'
      OBVIOUS
    <3>1. CASE v = req[r].vote
      BY <2>2, <2>3, <3>1 DEF Moving
    <3>2. CASE v # req[r].vote
      BY <2>2, <2>3, <3>2 DEF Moving, Arming, WatchInv
    <3> QED BY <3>1, <3>2
  <2>7. \A v \in Votes :
          /\ timer'[v] = "on" => row'[v].status = "PENDING"
          /\ timer'[v] # "off" => v \in announced'
          /\ v \in announced' => row'[v].status # "none"
    BY <2>2, <2>3 DEF WatchInv
  <2>8. \A q, s \in Reqs :
          req'[q].pc = "arm" /\ req'[s].pc = "arm" /\ req'[q].vote = req'[s].vote => q = s
    BY <2>3 DEF WatchInv
  <2> QED BY <2>5, <2>6, <2>7, <2>8 DEF WatchInv
<1>8. ASSUME NEW r \in Reqs, Move(r)
      PROVE  WatchInv'
  BY <1>0, <1>8 DEF Move, Goto, Idle, WatchInv, Held, Moving, Arming
<1>9. ASSUME NEW v \in Votes, Clock(v)
      PROVE  WatchInv'
  <2>1. \A w \in Votes :
          /\ w # v => row'[w] = row[w] /\ timer'[w] = timer[w]
          /\ w = v => \/ row'[w] = row[w] /\ timer[w] = "on" /\ timer'[w] = "expiring"
                      \/ row'[w].status = "EXPIRED" /\ timer[w] # "off" /\ timer'[w] = "off"
    <3> SUFFICES ASSUME NEW w \in Votes
        PROVE  /\ w # v => row'[w] = row[w] /\ timer'[w] = timer[w]
               /\ w = v => \/ row'[w] = row[w] /\ timer[w] = "on" /\ timer'[w] = "expiring"
                           \/ row'[w].status = "EXPIRED" /\ timer[w] # "off" /\ timer'[w] = "off"
      OBVIOUS
    <3>1. CASE Fire(v)
      <4>1. row[v].status = "PENDING"
        BY <3>1 DEF Fire, WatchInv
      <4> QED BY <1>0, <3>1, <4>1 DEF Fire
    <3>2. CASE Expire(v)
      <4>1. w = v => row'[w].status = "EXPIRED"
        BY <1>0, <3>2 DEF Expire, Row
      <4>2. w # v => row'[w] = row[w]
        BY <1>0, <3>2 DEF Expire
      <4> QED BY <1>0, <3>2, <4>1, <4>2 DEF Expire
    <3> QED BY <1>9, <3>1, <3>2 DEF Clock
  <2>2. UNCHANGED <<req, announced, arrived, restarts>>
    BY <1>9 DEF Clock, Fire, Expire, outcomes
  <2>3. \A s \in Reqs : Held(req[s])'
    <3> SUFFICES ASSUME NEW s \in Reqs PROVE Held(req[s])'
      OBVIOUS
    <3>1. Held(req[s])
      BY DEF WatchInv
    <3>2. req[s].pc = "arm" => req[s].vote \in Votes
      BY <1>0, RequestKinds
    <3> QED BY <2>1, <2>2, <3>1, <3>2 DEF Held
  <2>4. restarts' = 0 => \A w \in Votes :
          /\ row'[w].status = "PENDING" => timer'[w] # "off" \/ Arming(w)'
          /\ row'[w].status = "APPROVED" => w \in arrived' \/ Moving(w)'
    BY <2>1, <2>2 DEF WatchInv, Moving, Arming
  <2>5. \A w \in Votes :
          /\ timer'[w] = "on" => row'[w].status = "PENDING"
          /\ timer'[w] # "off" => w \in announced'
          /\ w \in announced' => row'[w].status # "none"
    BY <2>1, <2>2 DEF WatchInv
  <2> QED BY <2>2, <2>3, <2>4, <2>5 DEF WatchInv
<1>10. CASE Restart
  BY <1>0, <1>10 DEF Restart, Idle, outcomes, WatchInv, Held, Moving, Arming
<1> QED
  BY <1>1, <1>2, <1>3, <1>4, <1>5, <1>6, <1>7, <1>8, <1>9, <1>10 DEF Next, Continue

(* WatchInv in every reachable state.                                      *)
LEMMA WatchCorrect == Spec => [](TypeOK /\ WatchInv)
<1>1. Init => TypeOK /\ WatchInv
  BY TypeInit, WatchInvInit
<1>2. TypeOK /\ WatchInv /\ [Next]_vars => (TypeOK /\ WatchInv)'
  BY TypeStep, WatchInvStep
<1> QED BY <1>1, <1>2, PTL DEF Spec

(* Without a restart no pending vote is left without something that will   *)
(* settle it.                                                              *)
THEOREM PendingStaysWatched == Spec => []PendingIsWatched
<1>1. WatchInv => PendingIsWatched
  BY DEF WatchInv, PendingIsWatched, Arming, On
<1> QED BY <1>1, WatchCorrect, PTL

(* Without a restart a settled vote that nobody works on has no timer left *)
(* and, if approved, was acted on.                                         *)
THEOREM SettledStaysDone == Spec => []SettledIsDone
<1>1. TypeOK /\ WatchInv => SettledIsDone
  BY DEF TypeOK, WatchInv, SettledIsDone, Settled, Quiet, On, Moving
<1> QED BY <1>1, WatchCorrect, PTL

(* Without a restart votes and timers agree.                               *)
THEOREM TimersAlwaysFit == Spec => []TimersFit
<1>1. PendingIsWatched /\ SettledIsDone => TimersFit
  BY DEF TimersFit
<1> QED BY PendingStaysWatched, SettledStaysDone, <1>1, PTL
=============================================================================
