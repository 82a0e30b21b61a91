------------------------------ MODULE MCWorld ------------------------------
\* World for TLC: a riot that a rest can carry from its start to its end and
\* that opens the way for a plot, and a theft with a short deadline.
EXTENDS World

IncidentDefs ==
  [riot |-> [loc |-> "market", minDay |-> 1, maxDay |-> 99, minHeat |-> 0, needs |-> {},
             deadline |-> 5, controlAt |-> 80, pressureAt |-> 90,
             stages |-> <<[perTick |-> 30, reward |-> 60, penalty |-> 20],
                          [perTick |-> 10, reward |-> 40, penalty |-> 40]>>,
             impact |-> [CONTAINED |-> [heat |-> -3, flags |-> {"calm"}],
                         ESCALATED |-> [heat |-> 4, flags |-> {"unrest"}],
                         EXPIRED |-> [heat |-> 1, flags |-> {}]]],
   theft |-> [loc |-> "harbor", minDay |-> 1, maxDay |-> 2, minHeat |-> 1, needs |-> {},
              deadline |-> 3, controlAt |-> 50, pressureAt |-> 100,
              stages |-> <<[perTick |-> 20, reward |-> 50, penalty |-> 50]>>,
              impact |-> [CONTAINED |-> [heat |-> 0, flags |-> {}],
                          ESCALATED |-> [heat |-> 2, flags |-> {"looted"}],
                          EXPIRED |-> [heat |-> 0, flags |-> {"gone"}]]],
   plot |-> [loc |-> "market", minDay |-> 2, maxDay |-> 99, minHeat |-> 3, needs |-> {"unrest"},
             deadline |-> 1, controlAt |-> 100, pressureAt |-> 100,
             stages |-> <<[perTick |-> 50, reward |-> 100, penalty |-> 0]>>,
             impact |-> [CONTAINED |-> [heat |-> 0, flags |-> {}],
                         ESCALATED |-> [heat |-> 4, flags |-> {}],
                         EXPIRED |-> [heat |-> 0, flags |-> {}]]]]

\* The scale of the heat in small steps: 100, 40, 70, 8, 5, 3, 5 to 16, 15.
SmallHeat ==
  [max |-> 4, alert |-> 2, danger |-> 3, clamp |-> 2, decay |-> 1, combat |-> 1,
   cool |-> {2}, start |-> 1]

SmallDeltas == {-1, 3}

\* Some events of a place make public what the riot leads to when it is not
\* contained.
SmallFlags == {{}, {"unrest"}}

SmallDay == <<1, 2, 1, 1>>
=============================================================================
