------------------------------ MODULE MCStory ------------------------------
\* A quest whose transitions ask for facts in each of the three ways, with a
\* branch.
EXTENDS Story, TLC

Steps ==
  <<[from |-> "S0", to |-> "S1", all |-> {"a"}, any |-> {}, alt |-> {}],
    [from |-> "S1", to |-> "S5", all |-> {"b", "c"}, any |-> {}, alt |-> {}],
    [from |-> "S1", to |-> "S2", all |-> {"a"}, any |-> {{"a", "b"}, {"c"}}, alt |-> {}],
    [from |-> "S2", to |-> "S5", all |-> {}, any |-> {}, alt |-> {"d"}]>>
=============================================================================
