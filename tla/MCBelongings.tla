---------------------------- MODULE MCBelongings ----------------------------
\* Belongings for TLC: two weapons for the same slot, and an idol that has a
\* slot and that equip refuses, as it does with what is legendary.
EXTENDS Belongings, TLC

SmallSlots == [i \in Items |-> IF i = "idol" THEN "ARMOR" ELSE "WEAPON"]
SmallKit == <<"blade", "spear">>
SmallPrices == [g \in Goods |-> IF g \in Gear THEN 2 ELSE 1]
Symmetry == Permutations(Requests)
=============================================================================
