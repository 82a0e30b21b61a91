--------------------------- MODULE MCTurnPipeline ---------------------------
(* Two requests and four actions, in two circumstances.                    *)
EXTENDS TurnPipeline, TLC

CONSTANTS r1, r2, k1, k2, k3, k4

\* Requests overlap, the run is aborted, the process crashes. EQUIP is left to
\* the waiting player: it overwrites what was committed meanwhile.
Overlapping ==
  [handlers |-> DOMAIN Plan \ {"equip"}, actions |-> 3, serial |-> FALSE,
   autonomous |-> FALSE, abort |-> TRUE, crashes |-> 1]

\* A longer play of an autonomous run through every handler.
Waiting ==
  [handlers |-> DOMAIN Plan, actions |-> 4, serial |-> TRUE,
   autonomous |-> TRUE, abort |-> FALSE, crashes |-> 0]

TheSettings == {Overlapping, Waiting}

Symmetry == Permutations(Requests) \union Permutations(Keys)
=============================================================================
