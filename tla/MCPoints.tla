------------------------------ MODULE MCPoints ------------------------------
(* Model values and small sets for Points: two prices, so that a refund    *)
(* after a restart meets another cost than the one paid.                   *)
EXTENDS Points, TLC

CONSTANTS u1, u2, k1, c1, p1, p2

MCGrant == [c \in Codes |-> 2]
MCQuota == [c \in Codes |-> 1]
MCConfigs == {[enabled |-> TRUE, cost |-> 1, bonus |-> 2],
              [enabled |-> TRUE, cost |-> 2, bonus |-> 0]}
MCAdjustments == {-1}
Symmetry == Permutations(Procs) \union Permutations(Users)
=============================================================================
