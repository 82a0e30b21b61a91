------------------------------ MODULE MCParty ------------------------------
\* Party for TLC: the users that are not followed, the parties and the request
\* slots are interchangeable.
EXTENDS Party, TLC

Symmetry ==
  Permutations(Users \ Watched) \union Permutations(Requests) \union Permutations(Parties)

\* Bounds: a behaviour is cut where a party, a followed user or a second user
\* is exposed, and where two requests about different users and parties
\* overlap (their steps commute).
FewExposed ==
  /\ \E u \in Users \ Watched : exposed \subseteq {u}
  /\ \A r, o \in Requests :
       req[r] # NoRequest /\ req[o] # NoRequest => req[r].p = req[o].p \/ req[r].u = req[o].u
=============================================================================
