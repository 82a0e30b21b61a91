------------------------------- MODULE Party -------------------------------
(***************************************************************************)
(* Party membership, the lobby and who takes part in the party's run:      *)
(* party.service.ts, lobby.service.ts, run-participants.service.ts and the *)
(* handlers of party.controller.ts that call them.  No handler opens a     *)
(* transaction, so a request is a process, each statement it awaits is a   *)
(* step, and what it read stays in its record until it is written back.    *)
(***************************************************************************)
EXTENDS Naturals, SequencesExt

CONSTANTS
  Users, Parties, Requests,
  Watched,               \* the users whose part in the run is followed
  NoUser, NoParty,
  MaxMembers,            \* parties.max_members, 4 in the code
  MaxRuns                \* bound: active runs of all parties together

ASSUME MembershipAssumption ==
  /\ Watched \subseteq Users
  /\ {NoUser, NoParty} \intersect (Users \union Parties) = {}
  /\ MaxMembers \in Nat \ {0, 1} /\ MaxRuns \in Nat

VARIABLES
  status,     \* parties.status, "NONE" before the INSERT
  leader,     \* parties.leader_id
  members,    \* the rows of party_members of each party by joined_at
  runs,       \* active run_sessions of each party
  part,       \* run_participants of the party's run: no row, taking part, left
  listed,     \* runState.partyMembers of the party's run
  req,        \* the requests in flight
  exposed     \* history: the users and parties about which two requests were
              \* in flight at once, or whose dungeon outlived the party
party == <<status, leader>>
run == <<runs, part, listed>>
partyVars == <<party, members, run, req, exposed>>

Row == [user : Users, role : {"LEADER", "MEMBER"}, ready : BOOLEAN]
PartyStatus == {"NONE", "OPEN", "FULL", "IN_DUNGEON", "DISBANDED"}

NoRequest == [pc |-> "idle", u |-> NoUser, p |-> NoParty, t |-> NoUser,
         seen |-> "NONE", held |-> {}, who |-> {}, count |-> 0]

PartyInit ==
  /\ status = [p \in Parties |-> "NONE"]
  /\ leader = [p \in Parties |-> NoUser]
  /\ members = [p \in Parties |-> <<>>]
  /\ runs = [p \in Parties |-> 0]
  /\ part = [p \in Parties |-> [u \in Watched |-> "none"]]
  /\ listed = [p \in Parties |-> {}]
  /\ req = [r \in Requests |-> NoRequest]
  /\ exposed = {}

MembersOf(p) == {row.user : row \in ToSet(members[p])}
RowOf(p, u) == CHOOSE row \in ToSet(members[p]) : row.user = u
PartiesOf(u) == {p \in Parties : u \in MembersOf(p)}

\* The rows of p but the one of u: party_members_party_user_idx allows no more.
Remaining(p, u) ==
  LET mine == {i \in DOMAIN members[p] : members[p][i].user = u}
  IN  IF mine = {} THEN members[p] ELSE RemoveAt(members[p], CHOOSE i \in mine : TRUE)

\* A request starts, after it deleted the leftover rows of its user in D:
\* whoever it is about while another request is about them becomes exposed.
Begin(r, q, D) ==
  /\ req[r] = NoRequest
  /\ members' = [p \in Parties |-> IF p \in D THEN Remaining(p, q.u) ELSE members[p]]
  /\ req' = [o \in Requests |->
               IF o = r THEN q
               ELSE IF req[o].p \in D THEN [req[o] EXCEPT !.held = @ \ {q.u}] ELSE req[o]]
  /\ exposed' = exposed \union
       {x \in {q.u, q.p} \ {NoUser, NoParty} :
          \E o \in Requests \ {r} : x \in {req[o].u, req[o].p}}

Proceed(r, pc) == req' = [req EXCEPT ![r].pc = pc] /\ UNCHANGED exposed
Done(r) == req' = [req EXCEPT ![r] = NoRequest] /\ UNCHANGED exposed

\* DELETE of the rows of U in p, which leaves rest: a request that holds the id
\* of such a row holds the id of no row from now on, whoever joins again.
DropRows(r, p, U, rest, next) ==
  /\ members' = [members EXCEPT ![p] = rest]
  /\ req' = [o \in Requests |->
               IF o = r THEN next
               ELSE IF req[o].p = p THEN [req[o] EXCEPT !.held = @ \ U] ELSE req[o]]
  /\ UNCHANGED exposed

-----------------------------------------------------------------------------
\* createParty and joinParty

\* Mutation of EnsureNotInParty: only an OPEN party counts as a membership.
OnlyOpenCounts(u) ==
  IF \E p \in PartiesOf(u) : status[p] = "OPEN" THEN {} ELSE {{}}

\* ensureNotInParty: the first membership found refuses the request unless its
\* party is disbanded, in which case the leftover row is deleted.
EnsureNotInParty(u) ==
  IF PartiesOf(u) = {} THEN {{}} ELSE {{p} : p \in {x \in PartiesOf(u) : status[x] = "DISBANDED"}}

BeginCreate(r, u) ==
  /\ \E D \in EnsureNotInParty(u) : Begin(r, [NoRequest EXCEPT !.pc = "insertParty", !.u = u], D)
  /\ UNCHANGED <<party, run>>

InsertParty(r) ==
  /\ req[r].pc = "insertParty"
  /\ \E p \in Parties :
       /\ status[p] = "NONE"
       /\ status' = [status EXCEPT ![p] = "OPEN"]
       /\ leader' = [leader EXCEPT ![p] = req[r].u]
       /\ req' = [req EXCEPT ![r].pc = "insertLeader", ![r].p = p]
  /\ UNCHANGED <<members, run, exposed>>

InsertLeader(r) ==
  /\ req[r].pc = "insertLeader"
  /\ members' = [members EXCEPT ![req[r].p] =
                   Append(@, [user |-> req[r].u, role |-> "LEADER", ready |-> FALSE])]
  /\ Done(r)
  /\ UNCHANGED <<party, run>>

\* The invite code is known once createParty has answered.
BeginJoin(r, u, p) ==
  /\ status[p] # "NONE"
  /\ \A o \in Requests : req[o].p = p => req[o].pc # "insertLeader"
  /\ \E D \in EnsureNotInParty(u) :
       Begin(r, [NoRequest EXCEPT !.pc = "readParty", !.u = u, !.p = p], D)
  /\ UNCHANGED <<party, run>>

ReadParty(r) ==
  /\ req[r].pc = "readParty"
  /\ IF status[req[r].p] \in {"DISBANDED", "FULL"}
     THEN Done(r)
     ELSE /\ req' = [req EXCEPT ![r].pc = "countMembers", ![r].seen = status[req[r].p]]
          /\ UNCHANGED exposed
  /\ UNCHANGED <<party, members, run>>

\* Mutation of CountMembers: > for >= lets one more in.
CountOneMore(r) ==
  /\ req[r].pc = "countMembers"
  /\ LET n == Len(members[req[r].p])
     IN  req' = [req EXCEPT ![r].pc = IF n > MaxMembers THEN "markFull" ELSE "insertMember",
                            ![r].count = n]
  /\ UNCHANGED <<party, members, run, exposed>>

CountMembers(r) ==
  /\ req[r].pc = "countMembers"
  /\ LET n == Len(members[req[r].p])
     IN  req' = [req EXCEPT ![r].pc = IF n >= MaxMembers THEN "markFull" ELSE "insertMember",
                            ![r].count = n]
  /\ UNCHANGED <<party, members, run, exposed>>

\* The controller adds who joined a party in its dungeon to the party's run.
Joined(r) ==
  IF req[r].seen = "IN_DUNGEON" /\ runs[req[r].p] > 0 /\ req[r].u \in Watched
  THEN Proceed(r, "readParticipant") ELSE Done(r)

\* party_members_party_user_idx refuses a second row of the user.
InsertMember(r) ==
  LET q == req[r] IN
  /\ q.pc = "insertMember"
  /\ IF q.u \in MembersOf(q.p)
     THEN UNCHANGED members /\ Done(r)
     ELSE /\ members' = [members EXCEPT ![q.p] =
                           Append(@, [user |-> q.u, role |-> "MEMBER", ready |-> FALSE])]
          /\ IF q.count + 1 >= MaxMembers THEN Proceed(r, "markFull") ELSE Joined(r)
  /\ UNCHANGED <<party, run>>

MarkFull(r) ==
  /\ req[r].pc = "markFull"
  /\ status' = [status EXCEPT ![req[r].p] = "FULL"]
  /\ IF req[r].count < MaxMembers THEN Joined(r) ELSE Done(r)
  /\ UNCHANGED <<leader, members, run>>

-----------------------------------------------------------------------------
\* leaveParty, kickMember, disbandParty

IsMember(u, p) == status[p] \notin {"NONE", "DISBANDED"} /\ u \in MembersOf(p)

BeginLeave(r, u, p) ==
  /\ IsMember(u, p)
  /\ Begin(r, [NoRequest EXCEPT !.u = u, !.p = p, !.t = u, !.seen = status[p], !.held = {u},
                 !.pc = IF RowOf(p, u).role = "LEADER" THEN "selectHeir" ELSE "deleteRow"], {})
  /\ UNCHANGED <<party, run>>

\* The oldest other member, if there is one, takes over.
SelectHeir(r) ==
  LET q == req[r]
      others == Remaining(q.p, q.u)
  IN  /\ q.pc = "selectHeir"
      /\ IF others = <<>>
         THEN Proceed(r, "deleteAll")
         ELSE /\ req' = [req EXCEPT ![r].pc = "promoteHeir", ![r].t = Head(others).user,
                                    ![r].held = @ \union {Head(others).user}]
              /\ UNCHANGED exposed
      /\ UNCHANGED <<party, members, run>>

PromoteHeir(r) ==
  LET q == req[r] IN
  /\ q.pc = "promoteHeir"
  /\ members' = [members EXCEPT ![q.p] =
       [i \in DOMAIN @ |-> IF @[i].user = q.t /\ q.t \in q.held
                           THEN [@[i] EXCEPT !.role = "LEADER"] ELSE @[i]]]
  /\ Proceed(r, "setLeader")
  /\ UNCHANGED <<party, run>>

\* Mutation of SetLeader: parties.leader_id keeps the leader who left.
KeepOldLeader(r) ==
  /\ req[r].pc = "setLeader"
  /\ req' = [req EXCEPT ![r].pc = "deleteRow", ![r].t = req[r].u]
  /\ UNCHANGED <<party, members, run, exposed>>

SetLeader(r) ==
  LET q == req[r] IN
  /\ q.pc = "setLeader"
  /\ leader' = [leader EXCEPT ![q.p] = q.t]
  /\ req' = [req EXCEPT ![r].pc = "deleteRow", ![r].t = q.u]
  /\ UNCHANGED <<status, members, run, exposed>>

BeginKick(r, u, p, target) ==
  /\ IsMember(u, p) /\ leader[p] = u /\ target # u
  /\ target \in MembersOf(p)
  /\ Begin(r, [NoRequest EXCEPT !.u = u, !.p = p, !.t = target, !.seen = status[p],
                           !.held = {target}, !.pc = "deleteRow"], {})
  /\ UNCHANGED <<party, run>>

\* The row of t, unless somebody else has deleted it.
DropTarget(r, next) ==
  LET q == req[r] IN
  DropRows(r, q.p, {q.t} \intersect q.held,
           IF q.t \in q.held THEN Remaining(q.p, q.t) ELSE members[q.p], next)

\* Mutation of DeleteRow: a FULL party is not reopened.
DeleteWithoutReopen(r) ==
  /\ req[r].pc = "deleteRow"
  /\ DropTarget(r, NoRequest)
  /\ UNCHANGED <<party, run>>

DeleteRow(r) ==
  LET q == req[r] IN
  /\ q.pc = "deleteRow"
  /\ DropTarget(r, IF q.seen = "FULL" THEN [q EXCEPT !.pc = "reopen", !.held = {}] ELSE NoRequest)
  /\ UNCHANGED <<party, run>>

Reopen(r) ==
  /\ req[r].pc = "reopen"
  /\ status' = [status EXCEPT ![req[r].p] = "OPEN"]
  /\ Done(r)
  /\ UNCHANGED <<leader, members, run>>

BeginDisband(r, u, p) ==
  /\ IsMember(u, p) /\ leader[p] = u
  /\ Begin(r, [NoRequest EXCEPT !.u = u, !.p = p, !.pc = "deleteAll"], {})
  /\ UNCHANGED <<party, run>>

DeleteAll(r) ==
  /\ req[r].pc = "deleteAll"
  /\ DropRows(r, req[r].p, Users, <<>>, [req[r] EXCEPT !.pc = "markDisbanded", !.held = {}])
  /\ UNCHANGED <<party, run>>

MarkDisbanded(r) ==
  /\ req[r].pc = "markDisbanded"
  /\ status' = [status EXCEPT ![req[r].p] = "DISBANDED"]
  /\ Done(r)
  /\ UNCHANGED <<leader, members, run>>

-----------------------------------------------------------------------------
\* The lobby and the party's run

ToggleReady(u, p, ready) ==
  /\ u \in MembersOf(p)
  /\ members' = [members EXCEPT ![p] =
                   [i \in DOMAIN @ |-> IF @[i].user = u THEN [@[i] EXCEPT !.ready = ready]
                                       ELSE @[i]]]
  /\ UNCHANGED <<party, run, req, exposed>>

\* getLobbyState: at least two members, all ready.  A member without a preset
\* refuses the start too, which changes nothing.
AllReady(p) == Len(members[p]) >= 2 /\ \A row \in ToSet(members[p]) : row.ready

BeginStart(r, u, p) ==
  /\ IsMember(u, p) /\ leader[p] = u
  /\ status[p] # "IN_DUNGEON"
  /\ Begin(r, [NoRequest EXCEPT !.u = u, !.p = p, !.pc = "readLobby"], {})
  /\ UNCHANGED <<party, run>>

ReadLobby(r) ==
  /\ req[r].pc = "readLobby"
  /\ IF AllReady(req[r].p)
     THEN /\ req' = [req EXCEPT ![r].pc = "enterDungeon", ![r].who = MembersOf(req[r].p) \intersect Watched]
          /\ UNCHANGED exposed
     ELSE Done(r)
  /\ UNCHANGED <<party, members, run>>

RunsLeft == FoldFunction(+, 0, runs) < MaxRuns

NewRun(p) ==
  /\ runs' = [runs EXCEPT ![p] = @ + 1]
  /\ part' = [part EXCEPT ![p] = [u \in Watched |-> "none"]]
  /\ listed' = [listed EXCEPT ![p] = {}]

EnterDungeon(r) ==
  /\ req[r].pc = "enterDungeon"
  /\ status' = [status EXCEPT ![req[r].p] = "IN_DUNGEON"]
  /\ Proceed(r, "createRun")
  /\ UNCHANGED <<leader, members, run>>

\* createRun may throw: startDungeon then calls endDungeon.
CreateRun(r) ==
  LET p == req[r].p IN
  /\ req[r].pc = "createRun"
  /\ \/ /\ RunsLeft
        /\ NewRun(p)
        /\ Proceed(r, "resetReady")
     \/ UNCHANGED run /\ Proceed(r, "countForEnd")
  /\ UNCHANGED <<party, members>>

\* Ready flags are reset after a start (the profiles are still to be stored)
\* and after an invitation (nothing is).
ResetReady(r) ==
  /\ req[r].pc \in {"resetReady", "resetInvited"}
  /\ members' = [members EXCEPT ![req[r].p] =
                   [i \in DOMAIN @ |-> [@[i] EXCEPT !.ready = FALSE]]]
  /\ IF req[r].pc = "resetReady" THEN Proceed(r, "storeProfiles") ELSE Done(r)
  /\ UNCHANGED <<party, run>>

StoreProfiles(r) ==
  /\ req[r].pc = "storeProfiles"
  /\ listed' = [listed EXCEPT ![req[r].p] = req[r].who]
  /\ Done(r)
  /\ UNCHANGED <<party, members, runs, part>>

-----------------------------------------------------------------------------
\* inviteToExistingRun: the leader's solo run becomes the party's

BeginInvite(r, u, p) ==
  /\ IsMember(u, p) /\ leader[p] = u
  /\ AllReady(p)
  /\ Begin(r, [NoRequest EXCEPT !.u = u, !.p = p, !.pc = "takeRun"], {})
  /\ UNCHANGED <<party, run>>

\* The members are read, then the run found before is given to the party.
TakeRun(r) ==
  LET p == req[r].p IN
  /\ req[r].pc = "takeRun"
  /\ IF Len(members[p]) < 2 \/ ~RunsLeft
     THEN UNCHANGED run /\ Done(r)
     ELSE /\ NewRun(p)
          /\ req' = [req EXCEPT ![r].pc = "takeParty", ![r].who = MembersOf(p) \intersect Watched]
          /\ UNCHANGED exposed
  /\ UNCHANGED <<party, members>>

TakeParty(r) ==
  /\ req[r].pc = "takeParty"
  /\ status' = [status EXCEPT ![req[r].p] = "IN_DUNGEON"]
  /\ Proceed(r, "insertParticipants")
  /\ UNCHANGED <<leader, members, run>>

\* One INSERT per member without a row, then partyMembers is replaced.
InsertParticipant(r) ==
  LET q == req[r] IN
  /\ q.pc = "insertParticipants"
  /\ IF \E u \in q.who : u \notin q.held
     THEN \E u \in q.who \ q.held :
            /\ part' = [part EXCEPT ![q.p][u] = IF @ = "none" THEN "in" ELSE @]
            /\ req' = [req EXCEPT ![r].held = @ \union {u},
                                  ![r].who = IF part[q.p][u] = "none" THEN @ ELSE @ \ {u}]
            /\ UNCHANGED <<listed, exposed>>
     ELSE /\ listed' = [listed EXCEPT ![q.p] = q.who]
          /\ req' = [req EXCEPT ![r].pc = "resetInvited", ![r].held = {}, ![r].who = {}]
          /\ UNCHANGED <<part, exposed>>
  /\ UNCHANGED <<party, members, runs>>

-----------------------------------------------------------------------------
\* addMidJoinMember and leaveDungeon

\* Who takes part already is done; otherwise the run state is read.
ReadParticipant(r) ==
  LET q == req[r] IN
  /\ q.pc = "readParticipant"
  /\ IF part[q.p][q.u] = "in"
     THEN Done(r)
     ELSE /\ req' = [req EXCEPT ![r].pc = "addParticipant", ![r].who = listed[q.p]]
          /\ UNCHANGED exposed
  /\ UNCHANGED <<party, members, run>>

\* run_participants_run_user_idx refuses who left this run before.
AddParticipant(r) ==
  LET q == req[r] IN
  /\ q.pc = "addParticipant"
  /\ IF part[q.p][q.u] # "none"
     THEN UNCHANGED part /\ Done(r)
     ELSE part' = [part EXCEPT ![q.p][q.u] = "in"] /\ Proceed(r, "listParticipant")
  /\ UNCHANGED <<party, members, runs, listed>>

ListParticipant(r) ==
  LET q == req[r] IN
  /\ q.pc = "listParticipant"
  /\ listed' = [listed EXCEPT ![q.p] = q.who \union {q.u}]
  /\ Done(r)
  /\ UNCHANGED <<party, members, runs, part>>

\* What the participant earned is always 0: nothing writes participantState
\* after the INSERT, so there is nothing to settle.
BeginLeaveDungeon(r, u, p) ==
  /\ IsMember(u, p) /\ u \in Watched /\ runs[p] > 0 /\ part[p][u] = "in"
  /\ Begin(r, [NoRequest EXCEPT !.u = u, !.p = p, !.pc = "setLeft"], {})
  /\ UNCHANGED <<party, run>>

\* Mutation of SetLeft: who left stays in runState.partyMembers.
LeaveListed(r) ==
  /\ req[r].pc = "setLeft"
  /\ part' = [part EXCEPT ![req[r].p][req[r].u] = "left"]
  /\ Done(r)
  /\ UNCHANGED <<party, members, runs, listed>>

SetLeft(r) ==
  LET q == req[r] IN
  /\ q.pc = "setLeft"
  /\ part' = [part EXCEPT ![q.p][q.u] = "left"]
  /\ Proceed(r, "readList")
  /\ UNCHANGED <<party, members, runs, listed>>

ReadList(r) ==
  /\ req[r].pc = "readList"
  /\ req' = [req EXCEPT ![r].pc = "unlist", ![r].who = listed[req[r].p]]
  /\ UNCHANGED <<party, members, run, exposed>>

Unlist(r) ==
  LET q == req[r] IN
  /\ q.pc = "unlist"
  /\ listed' = [listed EXCEPT ![q.p] = q.who \ {q.u}]
  /\ Done(r)
  /\ UNCHANGED <<party, members, runs, part>>

-----------------------------------------------------------------------------
\* The end of the run

\* What part and listed say is about the active run: they are cleared with it.
EndRun(p) ==
  /\ runs' = [runs EXCEPT ![p] = @ - 1]
  /\ part' = [part EXCEPT ![p] = [u \in Watched |-> "none"]]
  /\ listed' = [listed EXCEPT ![p] = {}]

\* The turn that ends the run, or its timer after the party was disbanded.
BeginEnd(r, p) ==
  /\ req[r] = NoRequest /\ runs[p] > 0
  /\ EndRun(p)
  /\ req' = [req EXCEPT ![r] = [NoRequest EXCEPT !.p = p, !.pc = "countForEnd"]]
  /\ exposed' = IF status[p] = "DISBANDED" \/ \E o \in Requests : req[o].p = p
                THEN exposed \union {p} ELSE exposed
  /\ UNCHANGED <<party, members>>

CountForEnd(r) ==
  /\ req[r].pc = "countForEnd"
  /\ req' = [req EXCEPT ![r].pc = "writeEnd", ![r].count = Len(members[req[r].p])]
  /\ UNCHANGED <<party, members, run, exposed>>

WriteEnd(r) ==
  /\ req[r].pc = "writeEnd"
  /\ status' = [status EXCEPT ![req[r].p] =
                  IF req[r].count >= MaxMembers THEN "FULL" ELSE "OPEN"]
  /\ Done(r)
  /\ UNCHANGED <<leader, members, run>>

\* abortRun changes the run only.
AbortRun(p) ==
  /\ runs[p] > 0
  /\ EndRun(p)
  /\ UNCHANGED <<party, members, req, exposed>>

-----------------------------------------------------------------------------
Step(r) ==
  \/ InsertParty(r) \/ InsertLeader(r)
  \/ ReadParty(r) \/ CountMembers(r) \/ InsertMember(r) \/ MarkFull(r)
  \/ SelectHeir(r) \/ PromoteHeir(r) \/ SetLeader(r)
  \/ DeleteRow(r) \/ Reopen(r) \/ DeleteAll(r) \/ MarkDisbanded(r)
  \/ ReadLobby(r) \/ EnterDungeon(r) \/ CreateRun(r) \/ ResetReady(r)
  \/ StoreProfiles(r) \/ TakeRun(r) \/ TakeParty(r) \/ InsertParticipant(r)
  \/ ReadParticipant(r) \/ AddParticipant(r) \/ ListParticipant(r)
  \/ SetLeft(r) \/ ReadList(r) \/ Unlist(r)
  \/ CountForEnd(r) \/ WriteEnd(r)

PartyNext ==
  \/ \E r \in Requests :
       \/ Step(r)
       \/ \E u \in Users : BeginCreate(r, u)
       \/ \E p \in Parties : BeginEnd(r, p)
       \/ \E u \in Users, p \in Parties :
            \/ BeginJoin(r, u, p) \/ BeginLeave(r, u, p)
            \/ BeginDisband(r, u, p) \/ BeginStart(r, u, p)
            \/ BeginInvite(r, u, p) \/ BeginLeaveDungeon(r, u, p)
            \/ \E target \in Users : BeginKick(r, u, p, target)
  \/ \E u \in Users, p \in Parties, ready \in BOOLEAN : ToggleReady(u, p, ready)
  \/ \E p \in Parties : AbortRun(p)

PartySpec == PartyInit /\ [][PartyNext]_partyVars

-----------------------------------------------------------------------------
\* The label of a request is its next statement; seen, held, who and count are
\* what it has read: a status, row ids, members or participants, a number.
Labels ==
  {"idle", "insertParty", "insertLeader", "readParty", "countMembers", "insertMember",
   "markFull", "selectHeir", "promoteHeir", "setLeader", "deleteRow", "reopen", "deleteAll",
   "markDisbanded", "readLobby", "enterDungeon", "createRun", "resetReady", "storeProfiles",
   "takeRun", "takeParty", "insertParticipants", "resetInvited", "readParticipant",
   "addParticipant", "listParticipant", "setLeft", "readList", "unlist", "countForEnd",
   "writeEnd"}
Request ==
  [pc : Labels, u : Users \union {NoUser}, p : Parties \union {NoParty},
   t : Users \union {NoUser}, seen : PartyStatus, held : SUBSET Users,
   who : SUBSET Watched, count : Nat]

PartyTypeOK ==
  /\ status \in [Parties -> PartyStatus]
  /\ leader \in [Parties -> Users \union {NoUser}]
  /\ members \in [Parties -> Seq(Row)]
  /\ runs \in [Parties -> Nat]
  /\ part \in [Parties -> [Watched -> {"none", "in", "left"}]]
  /\ listed \in [Parties -> SUBSET Watched]
  /\ req \in [Requests -> Request]
  /\ exposed \subseteq Users \union Parties

\* The party is at rest: no request about it is in flight, and nothing has
\* happened to it that the code does not guard.
AtRest(p) == p \notin exposed /\ \A r \in Requests : req[r].p # p

\* A user about whom requests never overlapped belongs to one party that is
\* not disbanded: ensureNotInParty is a read, the unique index is per party.
\* Outside overlapping requests a party never has more than max_members rows,
\* at any moment of any request.
MembersFit ==
  /\ \A u \in Users \ exposed :
       Cardinality({p \in PartiesOf(u) : status[p] # "DISBANDED"}) <= 1
  /\ \A p \in Parties \ exposed : Len(members[p]) <= MaxMembers

\* Three records of a party agree when it is at rest: one that is not disbanded
\* has one LEADER row, the one of parties.leader_id (leaveParty hands both over
\* before it deletes the row); outside a dungeon it is FULL exactly when it has
\* no room; and a disbanded one has no rows.
RestingPartyAgrees ==
  \A p \in Parties :
    AtRest(p) =>
      /\ status[p] \notin {"NONE", "DISBANDED"} =>
           {row.user : row \in {x \in ToSet(members[p]) : x.role = "LEADER"}} = {leader[p]}
      /\ status[p] = "FULL" => Len(members[p]) = MaxMembers
      /\ status[p] = "OPEN" => Len(members[p]) < MaxMembers
      /\ status[p] \in {"NONE", "DISBANDED"} => members[p] = <<>>

\* In the run of a party at rest whoever takes part is in runState.partyMembers,
\* and nobody who left still is: rows and run state are written by separate
\* statements, the second from what the first part of the request read.
ParticipantsListed ==
  \A p \in Parties :
    AtRest(p) /\ runs[p] > 0 =>
      \A u \in Watched : (part[p][u] = "in" => u \in listed[p])
                        /\ (part[p][u] = "left" => u \notin listed[p])

=============================================================================
