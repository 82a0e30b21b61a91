SPECIFICATION PartySpec
CONSTANTS
  Users = {u1, u2, u3}
  Parties = {p1, p2}
  Watched = {u1}
  Requests = {r1, r2}
  NoUser = NoUser
  NoParty = NoParty
  MaxMembers = 2
  MaxRuns = 1
SYMMETRY Symmetry
INVARIANTS
  MembersFit
  RestingPartyAgrees
  ParticipantsListed
CHECK_DEADLOCK FALSE
CONSTRAINT FewExposed
