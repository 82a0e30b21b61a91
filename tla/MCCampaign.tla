----------------------------- MODULE MCCampaign -----------------------------
(* One player in three circumstances.                                      *)
EXTENDS Campaign, TLC

CONSTANTS r1, r2, h1, h2

\* One game after the other, with a failure.
OneByOne == [careful |-> TRUE, single |-> TRUE, others |-> TRUE, faults |-> 1,
             omits |-> {"name", "preset"}, campaigns |-> 1, runs |-> 3]

\* Several games are open, the player waits for answers.
Mixed == [careful |-> TRUE, single |-> FALSE, others |-> FALSE, faults |-> 1,
          omits |-> {"name", "preset"}, campaigns |-> 2, runs |-> 3]

\* Requests overlap.
Hasty == [careful |-> FALSE, single |-> FALSE, others |-> FALSE, faults |-> 0,
          omits |-> {}, campaigns |-> 1, runs |-> 3]

TheSettings == {OneByOne, Mixed, Hasty}

Symmetry == Permutations(Requests) \union Permutations(Heroes)
=============================================================================
