------------------------------ MODULE MCCombat ------------------------------
\* Combat for TLC: a coward that takes up to four blows and a sniper that takes
\* one; a potion, a tonic and a dart; one unit, or a pair in which the first can
\* spoil the second.
EXTENDS Combat, TLC

CONSTANTS f1, f2, potion, tonic, dart

MCPersonality == f1 :> "COWARDLY" @@ f2 :> "SNIPER"
MCFoeHp == f1 :> 4 @@ f2 :> 1
MCEffect == potion :> "HEAL_HP" @@ tonic :> "RESTORE_STAMINA" @@ dart :> "APPLY_STATUS"
MCValue == [i \in Items |-> 1]
MCSlot == potion :> 0 @@ tonic :> 1 @@ dart :> 2

MCPacks == {[i \in Items |-> 0], [i \in Items |-> IF i = tonic THEN 0 ELSE 1]}

Hit(f) == [act |-> "ATTACK", on |-> f]
Use(h) == [act |-> "USE_ITEM", on |-> h]
Do(a) == [act |-> a, on |-> NoFoe]
MCPlans ==
  {<<u>> : u \in {Hit(f1), Hit(f2), Use("APPLY_STATUS"), Use("NONE")}
             \union {Do(a) : a \in {"DEFEND", "FLEE", "LOOK", "ENV"}}
             \union [act : {"MOVE"}, on : {"FORWARD", "BACK"}]}
  \union {<<Hit(f1), Hit(f1)>>, <<Hit(f1), Do("DEFEND")>>, <<Hit(f2), Do("FLEE")>>,
          <<Use("HEAL_HP"), Use("HEAL_HP")>>, <<Use("APPLY_STATUS"), Hit(f1)>>}
=============================================================================
