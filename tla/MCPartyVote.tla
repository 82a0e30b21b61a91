----------------------------- MODULE MCPartyVote -----------------------------
(* Small instances of PartyVote for TLC.                                   *)
EXTENDS PartyVote, TLC

Symmetry == Permutations(Users) \cup Permutations(Reqs)
=============================================================================
