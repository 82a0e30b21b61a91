-------------------------- MODULE BelongingsProofs --------------------------
(***************************************************************************)
(* Theorems about Belongings, for any number of requests, instances, slots *)
(* and goods, any kit and any prices.                                      *)
(***************************************************************************)
EXTENDS Belongings, FiniteSetTheorems, SequenceTheorems, TLAPS

(* A set of naturals that is not empty has a least element.                *)
LEMMA LeastIs ==
  ASSUME NEW S \in SUBSET Nat, S # {}
  PROVE  \E x \in S : \A y \in S : x <= y
<1> DEFINE Below == {S \cap 0..n : n \in S}
<1>1. Below \subseteq FiniteSubsetsOf(S) /\ Below # {}
  <2>1. ASSUME NEW n \in S PROVE IsFiniteSet(S \cap 0..n)
    <3>1. IsFiniteSet(0..n) /\ S \cap 0..n \in SUBSET (0..n)
      BY FS_Interval
    <3> QED BY ONLY <3>1, FS_Subset
  <2> QED BY <2>1 DEF FiniteSubsetsOf
<1>2. PICK low \in Below : \A b \in Below : <<b, low>> \notin StrictSubsetOrdering(S)
  BY <1>1, FS_StrictSubsetOrderingWellFounded, WFMin
<1>3. PICK x \in S : low = S \cap 0..x
  OBVIOUS
<1>4. \A y \in S : x <= y
  <2> SUFFICES ASSUME NEW y \in S, y < x PROVE FALSE
    OBVIOUS
  <2> DEFINE b == S \cap 0..y
  <2>1. b \in Below /\ b \subseteq low /\ x \in low /\ x \notin b
    BY <1>3
  <2>2. <<b, low>> \in StrictSubsetOrdering(S)
    BY <2>1, <1>1 DEF StrictSubsetOrdering, FiniteSubsetsOf
  <2> QED BY <1>2, <2>1, <2>2
<1> QED BY <1>4

-----------------------------------------------------------------------------
\* What the operations on a state of the run do to it

(* The instance is worn, in the slot it has.                               *)
On(s, i) == SlotOf[i] \in Slots /\ s.worn[SlotOf[i]] = i

(* Accounted, of any state of the run.                                     *)
Balanced(s) ==
  /\ \A i \in Items :
       s.bag[i] + (IF On(s, i) THEN 1 ELSE 0) = IF i \in s.got \ s.lost THEN 1 ELSE 0
  /\ s.lost \subseteq s.got \cap Refused
  /\ \A slot \in Slots : s.worn[slot] # None => SlotOf[s.worn[slot]] = slot
  /\ s.gold + s.due = Gold0 + s.income - s.cost

(* A state that can be made from the stored one: it has the right type, it *)
(* adds up, and nothing done was lost.                                     *)
Sound(s) == s \in Holdings /\ Balanced(s) /\ s.ops = row.ops

(* What is worn in some slot is worn in its own.                           *)
LEMMA WornIsOn ==
  ASSUME NEW s, s \in Holdings, NEW i \in Items,
         \A slot \in Slots : s.worn[slot] # None => SlotOf[s.worn[slot]] = slot
  PROVE  i \in Range(s.worn) <=> On(s, i)
<1>1. s.worn \in [Slots -> Items \union {None}] /\ i # None
  BY BelongingsAssumption DEF Holdings
<1>2. Range(s.worn) = {s.worn[slot] : slot \in Slots}
  BY <1>1 DEF Range
<1> QED BY <1>1, <1>2 DEF On

(* The books of the stored state are Accounted.                            *)
LEMMA BalancedIs ==
  ASSUME row \in Holdings, Balanced(row)
  PROVE  Accounted
<1>1. \A i \in Items : i \in Range(row.worn) <=> On(row, i)
  BY WornIsOn DEF Balanced
<1> QED BY <1>1 DEF Balanced, Accounted

(* Wearing an item of the bag: what the slot held goes back.               *)
LEMMA EquipSound ==
  ASSUME NEW s, Sound(s), NEW i \in Items \ Refused, s.bag[i] > 0
  PROVE  Sound(Equip(s, i)) /\ Equip(s, i).got = s.got
<1> DEFINE t == Equip(s, i)
<1> DEFINE w == SlotOf[i]
<1>0. /\ s.bag \in [Items -> Nat] /\ s.worn \in [Slots -> Items \union {None}] /\ s.got \subseteq Items
      /\ SlotOf \in [Items -> Slots \union {None}] /\ None \notin Items \union Slots
      /\ s.lost \subseteq s.got
  BY BelongingsAssumption DEF Sound, Balanced, Holdings
<1>9. w \in Slots
  BY BelongingsAssumption
<1>1. t = [s EXCEPT !.worn = [s.worn EXCEPT ![w] = i], !.bag = With(Without(s.bag, i), {s.worn[w]} \ {None})]
  BY DEF Equip, Sound, Holdings
<1>2. /\ [s.worn EXCEPT ![w] = i] \in [Slots -> Items \union {None}]
      /\ With(Without(s.bag, i), {s.worn[w]} \ {None}) \in [Items -> Nat]
  BY <1>0, <1>9 DEF With, Without
<1>3. t \in Holdings
  BY <1>1, <1>2 DEF Holdings, Sound
<1>4. /\ t.worn = [s.worn EXCEPT ![w] = i]
      /\ t.bag = With(Without(s.bag, i), {s.worn[w]} \ {None})
      /\ t.got = s.got /\ t.lost = s.lost /\ t.gold = s.gold /\ t.due = s.due /\ t.income = s.income /\ t.cost = s.cost
      /\ t.ops = s.ops
  BY <1>1 DEF Sound, Holdings
<1>5. \A j \in Items :
       t.bag[j] + (IF On(t, j) THEN 1 ELSE 0) = IF j \in t.got \ t.lost THEN 1 ELSE 0
  <2> SUFFICES ASSUME NEW j \in Items
               PROVE t.bag[j] + (IF On(t, j) THEN 1 ELSE 0) = IF j \in t.got \ t.lost THEN 1 ELSE 0
    OBVIOUS
  <2>1. /\ s.bag[j] + (IF On(s, j) THEN 1 ELSE 0) = IF j \in s.got \ s.lost THEN 1 ELSE 0
        /\ s.bag[i] + (IF On(s, i) THEN 1 ELSE 0) = IF i \in s.got \ s.lost THEN 1 ELSE 0
        /\ s.worn[w] # None => SlotOf[s.worn[w]] = w
        /\ s.bag[j] \in Nat /\ s.bag[i] \in Nat
    BY <1>0, <1>9 DEF Sound, Balanced
  <2>2. t.bag[j] = (IF j = i THEN 0 ELSE s.bag[j]) + (IF j \in {s.worn[w]} \ {None} THEN 1 ELSE 0)
    BY <1>0, <1>4, <2>1 DEF With, Without
  <2>3. On(t, j) <=> IF SlotOf[j] = w THEN j = i ELSE On(s, j)
    BY <1>0, <1>4, <1>9 DEF On
  <2>4. (On(s, i) <=> s.worn[w] = i) /\ (SlotOf[j] = w => (On(s, j) <=> s.worn[w] = j))
    BY <1>9 DEF On
  <2>5. s.worn[w] = j => SlotOf[j] = w
    BY <2>1, <1>0
  <2> QED BY <2>1, <2>2, <2>3, <2>4, <2>5, <1>4, <1>0
<1>6. \A slot \in Slots : t.worn[slot] # None => SlotOf[t.worn[slot]] = slot
  BY <1>0, <1>4, <1>9 DEF Sound, Balanced
<1> QED BY <1>3, <1>4, <1>5, <1>6 DEF Sound, Balanced, On

(* Taking an item off.                                                     *)
LEMMA UnequipSound ==
  ASSUME NEW s, Sound(s), NEW slot \in Slots, s.worn[slot] # None
  PROVE  Sound(Unequip(s, slot)) /\ Unequip(s, slot).got = s.got
<1> DEFINE t == Unequip(s, slot)
<1>0. /\ s.bag \in [Items -> Nat] /\ s.worn \in [Slots -> Items \union {None}] /\ s.got \subseteq Items
      /\ SlotOf \in [Items -> Slots \union {None}] /\ None \notin Items \union Slots
      /\ s.lost \subseteq s.got
  BY BelongingsAssumption DEF Sound, Balanced, Holdings
<1>1. t = [s EXCEPT !.worn = [s.worn EXCEPT ![slot] = None], !.bag = With(s.bag, {s.worn[slot]})]
  BY DEF Unequip, Sound, Holdings
<1>2. /\ [s.worn EXCEPT ![slot] = None] \in [Slots -> Items \union {None}]
      /\ With(s.bag, {s.worn[slot]}) \in [Items -> Nat]
  BY <1>0 DEF With
<1>3. t \in Holdings
  BY <1>1, <1>2 DEF Holdings, Sound
<1>4. /\ t.worn = [s.worn EXCEPT ![slot] = None]
      /\ t.bag = With(s.bag, {s.worn[slot]})
      /\ t.got = s.got /\ t.lost = s.lost /\ t.gold = s.gold /\ t.due = s.due /\ t.income = s.income /\ t.cost = s.cost
      /\ t.ops = s.ops
  BY <1>1 DEF Sound, Holdings
<1>5. ASSUME NEW j \in Items
      PROVE t.bag[j] + (IF On(t, j) THEN 1 ELSE 0) = IF j \in t.got \ t.lost THEN 1 ELSE 0
  <2>1. /\ s.bag[j] + (IF On(s, j) THEN 1 ELSE 0) = IF j \in s.got \ s.lost THEN 1 ELSE 0
        /\ s.worn[slot] \in Items /\ SlotOf[s.worn[slot]] = slot
        /\ s.bag[j] \in Nat
    BY <1>0 DEF Sound, Balanced
  <2>2. t.bag[j] = s.bag[j] + (IF j = s.worn[slot] THEN 1 ELSE 0)
    BY <1>0, <1>4, <2>1 DEF With
  <2>3. On(t, j) <=> SlotOf[j] # slot /\ On(s, j)
    BY <1>0, <1>4 DEF On
  <2>4. SlotOf[j] = slot => (On(s, j) <=> s.worn[slot] = j)
    BY DEF On
  <2> QED BY <2>1, <2>2, <2>3, <2>4, <1>4, <1>0
<1>6. \A w \in Slots : t.worn[w] # None => SlotOf[t.worn[w]] = w
  BY <1>0, <1>4 DEF Sound, Balanced
<1> QED BY <1>3, <1>4, <1>5, <1>6 DEF Sound, Balanced, On

(* An item of the bag that equip refuses is lost.                          *)
LEMMA DropSound ==
  ASSUME NEW s, Sound(s), NEW i \in Items \cap Refused, s.bag[i] > 0
  PROVE  Sound(Drop(s, i))
<1> DEFINE t == Drop(s, i)
<1>0. /\ s.bag \in [Items -> Nat] /\ s.got \subseteq Items /\ s.lost \subseteq Items
      /\ s.lost \subseteq s.got \cap Refused
  BY DEF Sound, Balanced, Holdings
<1>1. t = [s EXCEPT !.bag = Without(s.bag, i), !.lost = s.lost \union {i}]
  BY DEF Drop, Sound, Holdings
<1>2. Without(s.bag, i) \in [Items -> Nat] /\ s.lost \union {i} \in SUBSET Items
  BY <1>0 DEF Without
<1>3. t \in Holdings
  BY <1>1, <1>2 DEF Holdings, Sound
<1>4. /\ t.bag = Without(s.bag, i) /\ t.lost = s.lost \union {i}
      /\ t.worn = s.worn /\ t.got = s.got
      /\ t.gold = s.gold /\ t.due = s.due /\ t.income = s.income /\ t.cost = s.cost
      /\ t.ops = s.ops
  BY <1>1 DEF Sound, Holdings
<1>5. \A j \in Items : s.bag[j] + (IF On(s, j) THEN 1 ELSE 0) = IF j \in s.got \ s.lost THEN 1 ELSE 0
  BY DEF Sound, Balanced
<1>6. i \in s.got /\ ~On(s, i)
  <2>1. s.bag[i] + (IF On(s, i) THEN 1 ELSE 0) = (IF i \in s.got \ s.lost THEN 1 ELSE 0) /\ s.bag[i] \in Nat
    BY <1>0, <1>5
  <2> QED BY <2>1
<1>7. ASSUME NEW j \in Items
      PROVE t.bag[j] + (IF On(t, j) THEN 1 ELSE 0) = IF j \in t.got \ t.lost THEN 1 ELSE 0
  <2>1. On(t, j) <=> On(s, j)
    BY <1>4 DEF On
  <2>2. t.bag[j] = IF j = i THEN 0 ELSE s.bag[j]
    BY <1>0, <1>4 DEF Without
  <2> QED BY <2>1, <2>2, <1>4, <1>5, <1>6, <1>0
<1>8. t.lost \subseteq t.got \cap Refused
  BY <1>0, <1>4, <1>6
<1> QED BY <1>3, <1>4, <1>7, <1>8 DEF Sound, Balanced, On

(* New instances are in the bag once, because no instance that exists is   *)
(* made again.                                                             *)
LEMMA GrantSound ==
  ASSUME NEW s, Sound(s), s.got \subseteq born, NEW n, NEW t \in Grant(s, n)
  PROVE  /\ Sound(t)
         /\ t.gold = s.gold /\ t.due = s.due /\ t.dueGear = s.dueGear
         /\ t.income = s.income /\ t.cost = s.cost
<1>0. /\ s.bag \in [Items -> Nat] /\ s.worn \in [Slots -> Items \union {None}] /\ s.got \subseteq Items
      /\ SlotOf \in [Items -> Slots \union {None}] /\ None \notin Items \union Slots
      /\ s.lost \subseteq s.got
  BY BelongingsAssumption DEF Sound, Balanced, Holdings
<1>1. PICK new \in SUBSET (Items \ born) : t = [s EXCEPT !.bag = With(s.bag, new), !.got = s.got \union new]
  BY DEF Grant, kSubset, Sound, Holdings
<1>2. With(s.bag, new) \in [Items -> Nat] /\ s.got \union new \in SUBSET Items
  BY <1>0 DEF With
<1>3. t \in Holdings
  BY <1>1, <1>2 DEF Holdings, Sound
<1>4. /\ t.worn = s.worn
      /\ t.bag = With(s.bag, new)
      /\ t.got = s.got \union new
      /\ t.gold = s.gold /\ t.due = s.due /\ t.income = s.income /\ t.cost = s.cost
      /\ t.ops = s.ops /\ t.dueGear = s.dueGear /\ t.lost = s.lost
  BY <1>1 DEF Sound, Holdings
<1>5. ASSUME NEW j \in Items
      PROVE t.bag[j] + (IF On(t, j) THEN 1 ELSE 0) = IF j \in t.got \ t.lost THEN 1 ELSE 0
  <2>1. /\ s.bag[j] + (IF On(s, j) THEN 1 ELSE 0) = IF j \in s.got \ s.lost THEN 1 ELSE 0
        /\ s.bag[j] \in Nat
    BY <1>0 DEF Sound, Balanced
  <2>2. t.bag[j] = IF j \in new THEN s.bag[j] + 1 ELSE s.bag[j]
    BY <1>4 DEF With
  <2>3. j \in new => j \notin s.got
    OBVIOUS
  <2>4. On(t, j) <=> On(s, j)
    BY <1>4 DEF On
  <2>5. j \in t.got \ t.lost <=> j \in new \/ j \in s.got \ s.lost
    BY <1>0, <1>4
  <2> QED BY <2>1, <2>2, <2>3, <2>4, <2>5, <1>0
<1> QED BY <1>3, <1>4, <1>5 DEF Sound, Balanced, On

(* Consumables are not part of the books.                                  *)
LEMMA PotionSound ==
  ASSUME NEW s, Sound(s)
  PROVE  /\ s.potions > 0 => Sound([s EXCEPT !.potions = @ - 1]) /\ [s EXCEPT !.potions = @ - 1].got = s.got
         /\ Sound([s EXCEPT !.potions = @ + 1]) /\ [s EXCEPT !.potions = @ + 1].got = s.got
<1>1. ASSUME NEW n \in Nat
      PROVE Sound([s EXCEPT !.potions = n]) /\ [s EXCEPT !.potions = n].got = s.got
  BY DEF Sound, Balanced, Holdings, On
<1>2. s.potions \in Nat /\ s.potions + 1 \in Nat /\ (s.potions > 0 => s.potions - 1 \in Nat)
  BY DEF Sound, Holdings
<1>3. /\ [s EXCEPT !.potions = @ - 1] = [s EXCEPT !.potions = s.potions - 1]
      /\ [s EXCEPT !.potions = @ + 1] = [s EXCEPT !.potions = s.potions + 1]
  BY DEF Sound, Holdings
<1> QED BY ONLY <1>1, <1>2, <1>3

(* Gold that is earned.                                                    *)
LEMMA EarnSound ==
  ASSUME NEW s, Sound(s), NEW g \in Nat
  PROVE  Sound(Earn(s, g)) /\ Earn(s, g).got = s.got
<1>1. s.gold \in Nat /\ s.income \in Nat /\ s.due \in Nat /\ s.cost \in Nat /\ Gold0 \in Nat
  BY BelongingsAssumption DEF Sound, Holdings
<1>0. Earn(s, g) = [s EXCEPT !.gold = s.gold + g, !.income = s.income + g]
  BY DEF Earn, Sound, Holdings
<1>4. s.gold + g \in Nat /\ s.income + g \in Nat
  BY <1>1
<1>2. Earn(s, g) \in Holdings
  BY <1>0, <1>4 DEF Sound, Holdings
<1>3. LET t == Earn(s, g)
      IN  /\ t.gold = s.gold + g /\ t.income = s.income + g /\ t.due = s.due /\ t.cost = s.cost
          /\ t.bag = s.bag /\ t.worn = s.worn /\ t.got = s.got /\ t.lost = s.lost /\ t.ops = s.ops
  BY DEF Earn, Sound, Holdings
<1> QED BY <1>1, <1>2, <1>3 DEF Sound, Balanced, On

(* Gold that is spent: never more than there is.                           *)
LEMMA SpendSound ==
  ASSUME NEW s, Sound(s), NEW g \in Nat
  PROVE  Sound(Spend(s, g)) /\ Spend(s, g).got = s.got
<1> DEFINE c == Least(g, s.gold)
<1>4. s.gold \in Nat /\ s.income \in Nat /\ s.due \in Nat /\ s.cost \in Nat /\ Gold0 \in Nat
  BY BelongingsAssumption DEF Sound, Holdings
<1>5. c \in Nat /\ c <= s.gold
  BY <1>4 DEF Least
<1>1. /\ s.gold \in Nat /\ s.income \in Nat /\ s.due \in Nat /\ s.cost \in Nat /\ Gold0 \in Nat
      /\ c \in Nat /\ s.gold - c \in Nat /\ s.cost + c \in Nat
  BY <1>4, <1>5
<1> HIDE DEF c
<1>0. Spend(s, g) = [s EXCEPT !.gold = s.gold - c, !.cost = s.cost + c]
  BY DEF Spend, Sound, Holdings, c
<1>2. Spend(s, g) \in Holdings
  BY <1>1, <1>0 DEF Sound, Holdings
<1>3. LET t == Spend(s, g)
      IN  /\ t.gold = s.gold - c /\ t.income = s.income /\ t.due = s.due /\ t.cost = s.cost + c
          /\ t.bag = s.bag /\ t.worn = s.worn /\ t.got = s.got /\ t.lost = s.lost /\ t.ops = s.ops
  BY <1>0 DEF Sound, Holdings
<1> QED BY <1>1, <1>2, <1>3 DEF Sound, Balanced, On

(* What the client owes from now on counts as earned.                      *)
LEMMA AccrueSound ==
  ASSUME NEW s, Sound(s)
  PROVE  Sound(Accrue(s)) /\ Accrue(s).got = s.got
<1>1. /\ s.gold \in Nat /\ s.income \in Nat /\ s.due \in Nat /\ s.cost \in Nat /\ Gold0 \in Nat
      /\ Fee \in Nat /\ s.dueGear \in Nat
  BY BelongingsAssumption DEF Sound, Holdings
<1>0. Accrue(s) = [s EXCEPT !.due = s.due + Fee, !.dueGear = s.dueGear + 1, !.income = s.income + Fee]
  BY DEF Accrue, Sound, Holdings
<1>4. s.due + Fee \in Nat /\ s.dueGear + 1 \in Nat /\ s.income + Fee \in Nat
  BY <1>1
<1>2. Accrue(s) \in Holdings
  BY <1>0, <1>4 DEF Sound, Holdings
<1>3. LET t == Accrue(s)
      IN  /\ t.gold = s.gold /\ t.income = s.income + Fee /\ t.due = s.due + Fee /\ t.cost = s.cost
          /\ t.bag = s.bag /\ t.worn = s.worn /\ t.got = s.got /\ t.lost = s.lost /\ t.ops = s.ops
  BY DEF Accrue, Sound, Holdings
<1> QED BY <1>1, <1>2, <1>3 DEF Sound, Balanced, On

(* What the client pays is owed no more.                                   *)
LEMMA SettleSound ==
  ASSUME NEW s, Sound(s), s.got \subseteq born, NEW t \in Settle(s)
  PROVE  Sound(t)
<1>1. PICK p \in Grant(s, s.dueGear) : t = [p EXCEPT !.gold = @ + s.due, !.due = 0, !.dueGear = 0]
  BY DEF Settle
<1>2. Sound(p) /\ p.gold = s.gold /\ p.due = s.due /\ p.income = s.income /\ p.cost = s.cost
  BY GrantSound
<1>3. /\ s.gold \in Nat /\ s.income \in Nat /\ s.due \in Nat /\ s.cost \in Nat /\ Gold0 \in Nat
  BY BelongingsAssumption DEF Sound, Holdings
<1>4. t = [p EXCEPT !.gold = s.gold + s.due, !.due = 0, !.dueGear = 0]
  BY <1>1, <1>2 DEF Sound, Holdings
<1>7. s.gold + s.due \in Nat /\ 0 \in Nat
  BY <1>3
<1>5. t \in Holdings
  BY <1>2, <1>7, <1>4 DEF Sound, Holdings
<1>6. /\ t.gold = p.gold + p.due /\ t.income = p.income /\ t.due = 0 /\ t.cost = p.cost
      /\ t.bag = p.bag /\ t.worn = p.worn /\ t.got = p.got /\ t.lost = p.lost /\ t.ops = p.ops
  BY <1>2, <1>4 DEF Sound, Holdings
<1> QED BY <1>2, <1>3, <1>5, <1>6 DEF Sound, Balanced, On

(* Legendary items for a contained incident.                               *)
LEMMA ContainedSound ==
  ASSUME NEW s, Sound(s), s.got \subseteq born, NEW t \in Contained(s)
  PROVE  Sound(t)
<1>1. PICK tiers \in {0, 1, 2} :
        t \in LET k == Least(tiers, Legends - s.legends)
              IN  Grant([s EXCEPT !.contained = s.contained + 1, !.legends = s.legends + k], k)
  BY DEF Contained, Sound, Holdings
<1> DEFINE k == Least(tiers, Legends - s.legends)
           c == s.contained + 1
           l == s.legends + k
           p == [s EXCEPT !.contained = c, !.legends = l]
<1>7. s.contained \in Nat /\ s.legends \in Nat /\ Legends \in Nat
  BY BelongingsAssumption DEF Sound, Holdings
<1>2. c \in Nat /\ l \in Nat
  BY <1>7 DEF Least
<1>3. t \in Grant(p, k)
  BY <1>1 DEF Sound, Holdings
<1> HIDE DEF c, l, k
<1>4. p \in Holdings
  BY <1>2 DEF Sound, Holdings
<1>5. /\ p.gold = s.gold /\ p.due = s.due /\ p.income = s.income /\ p.cost = s.cost
      /\ p.bag = s.bag /\ p.worn = s.worn /\ p.got = s.got /\ p.lost = s.lost /\ p.ops = s.ops
  BY DEF Sound, Holdings
<1>6. Sound(p) /\ p.got \subseteq born
  BY <1>4, <1>5 DEF Sound, Balanced, On
<1> QED BY ONLY <1>3, <1>6, GrantSound

(* A function on 1..n is a sequence of length n.                           *)
LEMMA FunctionIsSeq ==
  ASSUME NEW n \in Nat, NEW S, NEW f \in [1..n -> S]
  PROVE  f \in Seq(S)
BY SeqDef

(* Half of a sequence, rounded up, is a sequence.                          *)
LEMMA HalfIsSeq ==
  ASSUME NEW S, NEW q \in Seq(S)
  PROVE  SubSeq(q, 1, (Len(q) + 1) \div 2) \in Seq(S)
<1>1. ASSUME NEW n \in Nat PROVE (n + 1) \div 2 \in Int /\ (n + 1) \div 2 <= n
  BY Z3
<1>2. Len(q) \in Nat /\ \A i \in 1..Len(q) : q[i] \in S
  BY LenProperties, ElementOfSeq
<1>3. PICK m \in Int : m = (Len(q) + 1) \div 2 /\ m <= Len(q)
  BY <1>1, <1>2
<1>4. \A i \in 1..m : q[i] \in S
  BY <1>2, <1>3
<1>5. SubSeq(q, 1, m) \in Seq(S)
  BY ONLY <1>4, SubSeqProperties, 1 \in Int, m \in Int
<1> QED BY <1>3, <1>5

(* A new stock is a sequence of lines and changes nothing else.            *)
LEMMA RestockedSound ==
  ASSUME NEW s, Sound(s), NEW no \in Nat, NEW t \in Restocked(s, no)
  PROVE  Sound(t) /\ t.got = s.got
<1> DEFINE Line == [good : Goods, qty : Nat]
           kept == SubSeq(s.stock, 1, (Len(s.stock) + 1) \div 2)
           pool == Goods \ {line.good : line \in Range(kept)}
           room == Least(StockSize - Len(kept), Cardinality(pool))
           Lines(g) == IF g \in Gear THEN {[good |-> g, qty |-> 1]}
                       ELSE {[good |-> g, qty |-> q] : q \in 1..MaxQty}
           News == UNION {{f \in [1..n -> UNION {Lines(g) : g \in pool}] :
                             \A j, k \in 1..n : f[j].good = f[k].good => j = k} : n \in 0..room}
<1>1. s.stock \in Seq(Line)
  BY DEF Sound, Holdings
<1>2. kept \in Seq(Line)
  BY ONLY <1>1, HalfIsSeq
<1>3. PICK f \in News : t = [s EXCEPT !.stock = kept \o f, !.refreshed = no]
  BY DEF Restocked
<1>4. f \in Seq(Line)
  <2>1. PICK n \in 0..room : f \in [1..n -> UNION {Lines(g) : g \in pool}]
    OBVIOUS
  <2>2. n \in Nat
    OBVIOUS
  <2>3. UNION {Lines(g) : g \in pool} \subseteq Line
    <3>1. ASSUME NEW g \in Goods PROVE Lines(g) \subseteq Line
      OBVIOUS
    <3> HIDE DEF Lines, Line
    <3> QED BY <3>1
  <2>4. f \in [1..n -> Line]
    BY ONLY <2>1, <2>3
  <2> QED BY ONLY <2>2, <2>4, FunctionIsSeq
<1>5. kept \o f \in Seq(Line)
  BY <1>2, <1>4, ConcatProperties
<1> HIDE DEF kept, pool, room, Lines, News
<1>6. t \in Holdings
  BY <1>3, <1>5 DEF Sound, Holdings
<1>7. /\ t.gold = s.gold /\ t.due = s.due /\ t.income = s.income /\ t.cost = s.cost
      /\ t.bag = s.bag /\ t.worn = s.worn /\ t.got = s.got /\ t.lost = s.lost /\ t.ops = s.ops
  BY <1>3 DEF Sound, Holdings
<1> QED BY <1>6, <1>7 DEF Sound, Balanced, On

(* The same, when the time for it has come or not.                         *)
LEMMA RefreshedSound ==
  ASSUME NEW s, Sound(s), NEW no \in Nat, NEW t \in Refreshed(s, no)
  PROVE  Sound(t) /\ t.got = s.got
BY RestockedSound DEF Refreshed

(* A purchase: the price is there, and so is the line of the stock.        *)
LEMMA BoughtSound ==
  ASSUME NEW s, Sound(s), s.got \subseteq born, NEW t \in Bought(s)
  PROVE  Sound(t)
<1> DEFINE Line == [good : Goods, qty : Nat]
<1>1. PICK k \in DOMAIN s.stock :
        t \in LET g == s.stock[k].good
                  paid == [s EXCEPT !.stock[k].qty = @ - 1, !.gold = @ - Price[g], !.cost = @ + Price[g]]
              IN  IF s.stock[k].qty = 0 \/ s.gold < Price[g] THEN {s}
                  ELSE IF g \in Gear THEN Grant(paid, 1)
                  ELSE {[paid EXCEPT !.potions = @ + 1]}
  BY DEF Bought
<1> DEFINE g == s.stock[k].good
           q == s.stock[k].qty
           stock == [s.stock EXCEPT ![k].qty = q - 1]
           gold == s.gold - Price[g]
           cost == s.cost + Price[g]
           paid == [s EXCEPT !.stock = stock, !.gold = gold, !.cost = cost]
<1>2. CASE q = 0 \/ s.gold < Price[g]
  BY <1>1, <1>2
<1>3. CASE ~(q = 0 \/ s.gold < Price[g])
  <2>0. s.stock \in Seq(Line)
    BY DEF Sound, Holdings
  <2>1. s.stock[k] \in Line /\ g \in Goods /\ q \in Nat
    <3>1. k \in 1..Len(s.stock)
      BY <2>0, LenProperties
    <3>2. s.stock[k] \in Line
      BY ONLY <2>0, <3>1, ElementOfSeq
    <3> QED BY <3>2
  <2>2. /\ s.gold \in Nat /\ s.income \in Nat /\ s.due \in Nat /\ s.cost \in Nat /\ Gold0 \in Nat
        /\ Price[g] \in Nat
    BY <2>1, BelongingsAssumption DEF Sound, Holdings
  <2>3. gold \in Nat /\ cost \in Nat /\ q - 1 \in Nat
    BY <2>1, <2>2, <1>3
  <2>4. stock \in Seq(Line)
    BY <2>0, <2>1, <2>3
  <2>5. t \in IF g \in Gear THEN Grant(paid, 1) ELSE {[paid EXCEPT !.potions = @ + 1]}
    BY <1>1, <1>3, <2>0 DEF Sound, Holdings
  <2>6. gold + s.due = Gold0 + s.income - cost
    BY <2>2 DEF Sound, Balanced
  <2> HIDE DEF stock, gold, cost, g
  <2>7. paid \in Holdings
    BY <2>3, <2>4 DEF Sound, Holdings
  <2>8. /\ paid.gold = gold /\ paid.due = s.due /\ paid.income = s.income /\ paid.cost = cost
        /\ paid.bag = s.bag /\ paid.worn = s.worn /\ paid.got = s.got /\ paid.lost = s.lost /\ paid.ops = s.ops
    BY DEF Sound, Holdings
  <2>9. Sound(paid) /\ paid.got \subseteq born
    BY <2>6, <2>7, <2>8 DEF Sound, Balanced, On
  <2> HIDE DEF paid
  <2> QED BY <2>5, <2>9, GrantSound, PotionSound
<1> QED BY <1>2, <1>3

(* The outcomes of an action at a place.                                   *)
LEMMA ActionSound ==
  ASSUME NEW s, Sound(s), s.got \subseteq born, NEW t \in ActionResults(s)
  PROVE  Sound(t)
<1>1. 1 \in Nat /\ 2 \in Nat
  OBVIOUS
<1>2. \/ t \in Grant(s, 1) \/ t = Earn(s, 1) \/ t = Spend(s, 2) \/ t = [s EXCEPT !.potions = @ + 1]
      \/ t = Accrue(s) \/ t \in Settle(Accrue(s)) \/ t \in Contained(s)
  BY DEF ActionResults
<1>3. Sound(Accrue(s)) /\ Accrue(s).got \subseteq born
  BY AccrueSound
<1>4. CASE t \in Grant(s, 1)
  BY <1>4, GrantSound
<1>5. CASE t = Earn(s, 1) \/ t = Spend(s, 2)
  BY ONLY <1>1, <1>5, Sound(s), EarnSound, SpendSound
<1>6. CASE t = [s EXCEPT !.potions = @ + 1] \/ t = Accrue(s)
  BY <1>6, <1>3, PotionSound
<1>7. CASE t \in Settle(Accrue(s))
  BY ONLY <1>3, <1>7, SettleSound
<1>8. CASE t \in Contained(s)
  BY <1>8, ContainedSound
<1> QED BY ONLY <1>2, <1>4, <1>5, <1>6, <1>7, <1>8

-----------------------------------------------------------------------------
\* Types, and that the books balance

(* The labels of a request and its kinds.                                  *)
Labels == {"idle", "insert", "update", "commit", "enter", "again", "write"}
(* The kinds of request.                                                   *)
Kinds == {"api", "turn", "equip", "fight", "return", "end", "round", "won", "lost"}
(* A request.                                                              *)
Requested == [pc : Labels, id : Nat, no : Nat, next : Holdings, kind : Kinds]

(* A state somebody works on or has stored: it adds up, and its instances  *)
(* exist.                                                                  *)
Books(s) == Balanced(s) /\ s.got \subseteq born

(* How far a request of each kind gets.                                    *)
Legs(q) ==
  /\ q.pc = "write" => q.kind = "api"
  /\ q.pc \in {"insert", "update"} => q.kind \in {"turn", "equip", "fight", "return", "end"}
  /\ q.pc = "commit" => q.kind \in Atomic
  /\ q.pc = "enter" => q.kind \in {"return", "fight", "won"}
  /\ q.pc = "again" => q.kind \in {"return", "fight", "won", "equip", "end", "lost"}

(* The stored state and every copy that will overwrite it balance.         *)
BooksInv ==
  /\ TypeOK
  /\ \A r \in Requests : Legs(req[r])
  /\ Range(Kit) \subseteq born
  /\ Books(row)
  /\ \A r \in Requests : Books(req[r].next)

(* The state a run starts with balances: the first item of the kit for a   *)
(* slot is worn, every other is in the bag.                                *)
LEMMA StartSound == Start \in Holdings /\ Balanced(Start) /\ Start.got = Range(Kit) /\ Start.ops = {}
<1> DEFINE First(slot) == CHOOSE k \in KitFor(slot) : \A j \in KitFor(slot) : k <= j
           worn == [slot \in Slots |-> IF KitFor(slot) = {} THEN None ELSE Kit[First(slot)]]
           bag == [i \in Items |-> IF i \in Range(Kit) \ Range(worn) THEN 1 ELSE 0]
<1>1. /\ Start.bag = bag /\ Start.worn = worn /\ Start.got = Range(Kit) /\ Start.ops = {}
      /\ Start.lost = {} /\ Start.gold = Gold0 /\ Start.due = 0 /\ Start.income = 0 /\ Start.cost = 0
      /\ Start = [bag |-> bag, worn |-> worn, potions |-> Potions0,
                  gold |-> Gold0, due |-> 0, dueGear |-> 0, stock |-> <<>>, refreshed |-> 0,
                  contained |-> 0, legends |-> 0,
                  got |-> Range(Kit), lost |-> {}, income |-> 0, cost |-> 0, ops |-> {}]
  BY DEF Start
<1>2. ASSUME NEW slot \in Slots, KitFor(slot) # {}
      PROVE Kit[First(slot)] \in Range(Kit) /\ SlotOf[Kit[First(slot)]] = slot
  <2>1. KitFor(slot) \in SUBSET Nat
    BY BelongingsAssumption, LenProperties DEF KitFor
  <2>2. First(slot) \in KitFor(slot)
    BY <1>2, <2>1, LeastIs
  <2> HIDE DEF First
  <2> QED BY <2>2 DEF KitFor, Range
<1>3. Range(Kit) \subseteq Items
  <2>1. \A k \in DOMAIN Kit : Kit[k] \in Items
    BY BelongingsAssumption, LenProperties, ElementOfSeq
  <2> QED BY <2>1 DEF Range
<1> HIDE DEF First
<1>4. worn \in [Slots -> Items \union {None}]
  BY <1>2, <1>3
<1>5. \A slot \in Slots : worn[slot] # None => worn[slot] \in Range(Kit) /\ SlotOf[worn[slot]] = slot
  BY <1>2
<1> HIDE DEF worn
<1>6. bag \in [Items -> Nat]
  OBVIOUS
<1>7. \A i \in Items : bag[i] + (IF i \in Range(worn) THEN 1 ELSE 0) = IF i \in Range(Kit) THEN 1 ELSE 0
  <2> SUFFICES ASSUME NEW i \in Items
               PROVE bag[i] + (IF i \in Range(worn) THEN 1 ELSE 0) = IF i \in Range(Kit) THEN 1 ELSE 0
    OBVIOUS
  <2>1. i # None /\ Range(worn) = {worn[slot] : slot \in Slots}
    BY BelongingsAssumption, <1>4 DEF Range
  <2>2. i \in Range(worn) => i \in Range(Kit)
    BY <1>5, <2>1
  <2>3. bag[i] = IF i \in Range(Kit) \ Range(worn) THEN 1 ELSE 0
    OBVIOUS
  <2> QED BY <2>2, <2>3
<1> HIDE DEF bag
<1>8. Gold0 \in Nat /\ Potions0 \in Nat /\ <<>> \in Seq([good : Goods, qty : Nat])
  BY BelongingsAssumption, EmptySeq
<1>9. Start \in Holdings
  BY <1>1, <1>3, <1>4, <1>6, <1>8 DEF Holdings
<1>10. \A i \in Items : i \in Range(worn) <=> On(Start, i)
  BY <1>1, <1>5, <1>9, WornIsOn
<1>11. \A i \in Items : Start.bag[i] + (IF On(Start, i) THEN 1 ELSE 0)
                            = IF i \in Start.got \ Start.lost THEN 1 ELSE 0
  BY <1>1, <1>7, <1>10
<1>12. Start.gold + Start.due = Gold0 + Start.income - Start.cost
  BY <1>1, <1>8
<1>13. \A slot \in Slots : Start.worn[slot] # None => SlotOf[Start.worn[slot]] = slot
  BY <1>1, <1>5
<1> QED BY <1>1, <1>9, <1>11, <1>12, <1>13 DEF Balanced

(* What the requests compute from a sound state is sound.                  *)
LEMMA Beginnings ==
  ASSUME BooksInv, NEW r \in Requests,
         \/ ApiRequest(r) \/ ActionTurn(r) \/ ShopTurn(r) \/ EquipTurn(r) \/ FightTurn(r)
         \/ CombatTurn(r) \/ ReturnTurn(r) \/ EndTurn(r)
  PROVE  \E kind \in Kinds : \E next : Sound(next) /\ Begin(r, kind, next)
<1>1. Sound(row) /\ row.got \subseteq born /\ turn + 1 \in Nat
  BY DEF BooksInv, Books, Sound, TypeOK
<1>2. /\ \A i \in Bagged \ Refused : Sound(Equip(row, i))
      /\ \A i \in Bagged \cap Refused : Sound(Drop(row, i))
  BY <1>1, EquipSound, DropSound DEF Bagged
<1>3. \A slot \in Slots : row.worn[slot] # None => Sound(Unequip(row, slot))
  BY <1>1, UnequipSound
<1>4. \A s \in Settle(row) : Sound(s)
  BY <1>1, SettleSound
<1>5. Sound(Accrue(row)) /\ Accrue(row).got \subseteq born
  BY <1>1, AccrueSound
<1>6. \A s \in Settle(Accrue(row)) : Sound(s)
  BY <1>5, SettleSound
<1>7. CASE ApiRequest(r)
  <2>1. row.potions > 0 => Sound([row EXCEPT !.potions = @ - 1])
    BY <1>1, PotionSound
  <2>2. "api" \in Kinds
    BY DEF Kinds
  <2> QED BY ONLY <1>2, <1>3, <1>7, <2>1, <2>2 DEF ApiRequest
<1>8. CASE ActionTurn(r)
  <2>1. PICK s \in ActionResults(row) \union {row} : \E n \in Refreshed(s, turn + 1) : Begin(r, "turn", n)
    BY <1>8 DEF ActionTurn
  <2>2. Sound(s)
    BY ONLY <1>1, <2>1, ActionSound
  <2>3. "turn" \in Kinds
    BY DEF Kinds
  <2> QED BY ONLY <1>1, <2>1, <2>2, <2>3, RefreshedSound
<1>9. CASE ShopTurn(r)
  <2>1. PICK s \in Refreshed(row, turn + 1) : \E n \in Bought(s) : Begin(r, "turn", n)
    BY <1>9 DEF ShopTurn
  <2>2. Sound(s) /\ s.got = row.got
    BY ONLY <1>1, <2>1, RefreshedSound
  <2>3. "turn" \in Kinds
    BY DEF Kinds
  <2> QED BY ONLY <1>1, <2>1, <2>2, <2>3, BoughtSound
<1>10. CASE EquipTurn(r)
  <2>1. "equip" \in Kinds
    BY DEF Kinds
  <2> QED BY ONLY <1>2, <1>3, <1>10, <2>1 DEF EquipTurn
<1>11. CASE FightTurn(r)
  BY <1>1, <1>11 DEF FightTurn, Kinds
<1>12. CASE CombatTurn(r)
  <2>1. /\ Sound(Earn(row, 1)) /\ Sound(Spend(row, 1))
        /\ \A s \in Grant(row, 1) : Sound(s)
    <3>1. 1 \in Nat
      OBVIOUS
    <3> QED BY ONLY <3>1, <1>1, EarnSound, SpendSound, GrantSound
  <2>3. {"round", "lost", "won"} \subseteq Kinds
    BY DEF Kinds
  <2>4. CASE \E kind \in {"round", "lost"} : Begin(r, kind, row)
    BY ONLY <1>1, <2>3, <2>4
  <2>5. CASE \E s \in Grant(row, 1) \union {Earn(row, 1), Spend(row, 1), row} : Begin(r, "won", s)
    BY ONLY <1>1, <2>1, <2>3, <2>5
  <2> QED BY ONLY <1>12, <2>4, <2>5 DEF CombatTurn
<1>13. CASE ReturnTurn(r)
  BY <1>4, <1>13 DEF ReturnTurn, Kinds
<1>14. CASE EndTurn(r)
  BY <1>4, <1>6, <1>14 DEF EndTurn, Kinds
<1> QED BY ONLY <1>7, <1>8, <1>9, <1>10, <1>11, <1>12, <1>13, <1>14,
           \/ ApiRequest(r) \/ ActionTurn(r) \/ ShopTurn(r) \/ EquipTurn(r) \/ FightTurn(r)
           \/ CombatTurn(r) \/ ReturnTurn(r) \/ EndTurn(r)

(* The other requests stay as they are.                                    *)
Others(r) == req' \in [Requests -> Requested] /\ \A o \in Requests : o # r => req'[o] = req[o]

(* A request goes on, and keeps what it computed.                          *)
Goes(r, pc) ==
  /\ Others(r) /\ done' = done
  /\ req'[r].pc = pc /\ req'[r].id = req[r].id /\ req'[r].no = req[r].no
  /\ req'[r].kind = req[r].kind /\ req'[r].next = req[r].next

(* A request is over.                                                      *)
Stops(r) == Others(r) /\ req'[r].pc = "idle" /\ req'[r].next = Start

(* Goto is such a step.                                                    *)
LEMMA GotoGoes ==
  ASSUME req \in [Requests -> Requested], NEW r \in Requests, NEW pc \in Labels, Goto(r, pc)
  PROVE  Goes(r, pc)
<1> DEFINE q == [req[r] EXCEPT !.pc = pc]
<1>1. req' = [req EXCEPT ![r] = q] /\ done' = done
  BY DEF Goto
<1>2. q \in Requested
  BY DEF Requested
<1>3. q.pc = pc /\ q.id = req[r].id /\ q.no = req[r].no /\ q.kind = req[r].kind /\ q.next = req[r].next
  BY DEF Requested
<1> HIDE DEF q
<1>4. req' \in [Requests -> Requested] /\ req'[r] = q /\ \A o \in Requests : o # r => req'[o] = req[o]
  BY ONLY <1>1, <1>2, req \in [Requests -> Requested], r \in Requests
<1> QED BY ONLY <1>1, <1>3, <1>4 DEF Goes, Others

(* Answer and Fail are the end of a request.                               *)
LEMMA IdleStops ==
  ASSUME req \in [Requests -> Requested], NEW r \in Requests, req' = [req EXCEPT ![r] = Idle]
  PROVE  Stops(r)
<1>1. Idle \in Requested /\ Idle.pc = "idle" /\ Idle.next = Start
  BY StartSound DEF Idle, Requested, Labels, Kinds
<1> QED BY ONLY <1>1, req \in [Requests -> Requested], r \in Requests, req' = [req EXCEPT ![r] = Idle]
        DEF Stops, Others

(* The first state balances.                                               *)
LEMMA BooksInit == Init => BooksInv
<1> SUFFICES ASSUME Init PROVE BooksInv
  OBVIOUS
<1>1. row \in Restocked(Start, 0)
  BY DEF Init
<1>2. row.ops = Start.ops
  BY <1>1, StartSound DEF Restocked, Holdings
<1>3. Sound(Start)
  BY <1>2, StartSound DEF Sound
<1>4. Sound(row) /\ row.got = Range(Kit)
  <2>1. 0 \in Nat
    OBVIOUS
  <2> QED BY ONLY <1>1, <1>3, <2>1, RestockedSound, StartSound
<1>5. \A r \in Requests : req[r] = Idle
  BY DEF Init
<1>6. Idle \in Requested /\ Idle.next = Start
  BY StartSound DEF Idle, Requested, Labels, Kinds
<1>7. TypeOK
  <2>1. born \subseteq Items
    BY StartSound DEF Init, Holdings
  <2>2. req \in [Requests -> Requested]
    BY <1>6 DEF Init
  <2> QED BY <1>4, <2>1, <2>2 DEF Init, TypeOK, Sound, Requested, Labels, Kinds
<1>8. Books(Start) /\ Books(row) /\ Range(Kit) \subseteq born
  BY <1>4, StartSound DEF Init, Books, Sound
<1>9. Legs(Idle)
  BY DEF Legs, Idle
<1> QED BY ONLY <1>5, <1>6, <1>7, <1>8, <1>9 DEF BooksInv

(* TypeOK with names for its parts.                                        *)
LEMMA TypedIs ==
  TypeOK <=> /\ row \in Holdings /\ turn \in Nat /\ played \subseteq Nat
             /\ status \in {"RUN_ACTIVE", "RUN_ENDED"} /\ fighting \in BOOLEAN
             /\ req \in [Requests -> Requested]
             /\ born \subseteq Items /\ count \in Nat /\ done \subseteq Nat /\ exposed \subseteq Nat
BY DEF TypeOK, Requested, Labels, Kinds

(* A request that begins.                                                  *)
LEMMA Begun ==
  ASSUME BooksInv, NEW r \in Requests, NEW kind \in Kinds, NEW next, Sound(next), Begin(r, kind, next)
  PROVE  /\ req[r].pc = "idle"
         /\ Others(r)
         /\ req'[r].pc = IF kind = "api" THEN "write" ELSE IF kind \in Atomic THEN "commit" ELSE "insert"
         /\ req'[r].id = count + 1 /\ req'[r].no = turn + 1 /\ req'[r].kind = kind
         /\ req'[r].next.ops = row.ops \union {count + 1}
         /\ Balanced(req'[r].next) /\ req'[r].next.got = next.got /\ next.got \subseteq Items
         /\ count' = count + 1 /\ born' = born \union next.got
         /\ row' = row /\ turn' = turn /\ played' = played /\ status' = status
         /\ fighting' = fighting /\ done' = done
<1> DEFINE id == count + 1
           pc == IF kind = "api" THEN "write" ELSE IF kind \in Atomic THEN "commit" ELSE "insert"
           held == [next EXCEPT !.ops = row.ops \union {id}]
           q == [pc |-> pc, id |-> id, no |-> turn + 1, kind |-> kind, next |-> held]
<1>1. /\ row \in Holdings /\ turn \in Nat /\ req \in [Requests -> Requested] /\ count \in Nat
  BY TypedIs DEF BooksInv
<1>2. /\ req[r].pc = "idle" /\ count' = count + 1 /\ born' = born \union next.got
      /\ req' = [req EXCEPT ![r] = q]
      /\ row' = row /\ turn' = turn /\ played' = played /\ status' = status
      /\ fighting' = fighting /\ done' = done
  <2>1. next.ops = row.ops
    BY DEF Sound
  <2>2. [next EXCEPT !.ops = @ \union {id}] = held
    BY <2>1 DEF Sound, Holdings
  <2> QED BY <2>2 DEF Begin
<1>3. held \in Holdings /\ Balanced(held) /\ held.got = next.got /\ held.ops = row.ops \union {id} /\ held.got \subseteq Items
  <2>1. row.ops \union {id} \in SUBSET Nat
    BY <1>1 DEF Holdings
  <2>2. held \in Holdings
    BY <2>1 DEF Sound, Holdings
  <2>3. /\ held.gold = next.gold /\ held.due = next.due /\ held.income = next.income /\ held.cost = next.cost
        /\ held.bag = next.bag /\ held.worn = next.worn /\ held.got = next.got /\ held.ops = row.ops \union {id}
        /\ held.lost = next.lost /\ held.got \subseteq Items
    BY DEF Sound, Holdings
  <2> QED BY <2>2, <2>3 DEF Sound, Balanced, On
<1>4. q \in Requested
  BY <1>1, <1>3 DEF Requested, Labels
<1>5. /\ q.pc = pc /\ q.id = count + 1 /\ q.no = turn + 1 /\ q.kind = kind /\ q.next = held
  OBVIOUS
<1> HIDE DEF q, held
<1>6. req' \in [Requests -> Requested] /\ req'[r] = q /\ \A o \in Requests : o # r => req'[o] = req[o]
  BY ONLY <1>1, <1>2, <1>4, r \in Requests
<1> QED BY ONLY <1>2, <1>3, <1>5, <1>6 DEF Others

-----------------------------------------------------------------------------
\* What the steps of a request do

(* Who comes second with the number of a turn fails.                       *)
LEMMA InsertTurnDoes ==
  ASSUME BooksInv, NEW r \in Requests, InsertTurn(r)
  PROVE  /\ req[r].pc = "insert"
         /\ \/ req[r].no \in played /\ Stops(r) /\ done' = done /\ played' = played
            \/ req[r].no \notin played /\ Goes(r, "update") /\ played' = played \union {req[r].no}
<1>1. req \in [Requests -> Requested] /\ "update" \in Labels
  BY TypedIs DEF BooksInv, Labels
<1>2. req[r].pc = "insert" /\ ClaimTurn(r, req[r].no, "update")
  BY DEF InsertTurn
<1>3. CASE req[r].no \in played
  BY ONLY <1>1, <1>2, <1>3, r \in Requests, IdleStops DEF ClaimTurn, Fail
<1>4. CASE req[r].no \notin played
  BY ONLY <1>1, <1>2, <1>4, r \in Requests, GotoGoes DEF ClaimTurn
<1> QED BY ONLY <1>2, <1>3, <1>4

(* The copy is stored, and some turns are not over.                        *)
LEMMA UpdateRunDoes ==
  ASSUME BooksInv, NEW r \in Requests, UpdateRun(r)
  PROVE  /\ req[r].pc = "update" /\ row' = req[r].next /\ turn' = req[r].no
         /\ \/ Stops(r) /\ done' = done \union {req[r].id}
            \/ req[r].kind \in {"return", "fight"} /\ Goes(r, "enter")
            \/ req[r].kind \in {"equip", "end"} /\ Goes(r, "again")
<1>1. req \in [Requests -> Requested] /\ "enter" \in Labels /\ "again" \in Labels
  BY TypedIs DEF BooksInv, Labels
<1>2. req[r].pc = "update" /\ row' = req[r].next /\ turn' = req[r].no
  BY DEF UpdateRun
<1>3. req[r].kind \in {"turn", "equip", "fight", "return", "end"}
  BY <1>2 DEF BooksInv, Legs
<1>4. \/ req[r].kind = "turn" /\ Answer(r)
      \/ req[r].kind \in {"return", "fight"} /\ Goto(r, "enter")
      \/ req[r].kind \in {"equip", "end"} /\ Goto(r, "again")
  BY <1>3 DEF UpdateRun
<1> QED BY ONLY <1>1, <1>2, <1>4, r \in Requests, IdleStops, GotoGoes DEF Answer

(* A round of combat is logged and stored in one step, or not at all.      *)
LEMMA CommitCombatDoes ==
  ASSUME BooksInv, NEW r \in Requests, CommitCombat(r)
  PROVE  /\ req[r].pc = "commit"
         /\ \/ /\ Stops(r) /\ done' = done
               /\ played' = played /\ row' = row /\ turn' = turn
            \/ /\ req[r].no \notin played /\ played' = played \union {req[r].no}
               /\ row' = req[r].next /\ turn' = req[r].no
               /\ \/ Stops(r) /\ done' = done \union {req[r].id}
                  \/ req[r].kind = "won" /\ Goes(r, "enter")
                  \/ req[r].kind = "lost" /\ Goes(r, "again")
<1>1. req \in [Requests -> Requested] /\ "enter" \in Labels /\ "again" \in Labels
  BY TypedIs DEF BooksInv, Labels
<1>2. req[r].pc = "commit"
  BY DEF CommitCombat
<1>3. req[r].kind \in {"round", "won", "lost"}
  BY <1>2 DEF BooksInv, Legs, Atomic
<1>4. CASE req[r].no \in played
  <2>1. Fail(r) /\ played' = played /\ row' = row /\ turn' = turn
    BY <1>4 DEF CommitCombat
  <2> QED BY ONLY <1>1, <1>2, <2>1, r \in Requests, IdleStops DEF Fail
<1>5. CASE req[r].no \notin played
  <2>1. /\ played' = played \union {req[r].no} /\ row' = req[r].next /\ turn' = req[r].no
        /\ \/ req[r].kind = "round" /\ Answer(r)
           \/ req[r].kind = "won" /\ Goto(r, "enter")
           \/ req[r].kind = "lost" /\ Goto(r, "again")
    BY <1>3, <1>5 DEF CommitCombat
  <2> QED BY ONLY <1>1, <1>2, <1>5, <2>1, r \in Requests, IdleStops, GotoGoes DEF Answer
<1> QED BY <1>4, <1>5

(* The way to another node takes the next number, or fails.                *)
LEMMA EnterNodeDoes ==
  ASSUME BooksInv, NEW r \in Requests, EnterNode(r)
  PROVE  /\ req[r].pc = "enter" /\ fighting' \in BOOLEAN
         /\ \/ Stops(r) /\ done' = done /\ played' = played
            \/ /\ req[r].no + 1 \notin played /\ Goes(r, "again")
               /\ played' = played \union {req[r].no + 1}
<1>1. req \in [Requests -> Requested] /\ "again" \in Labels
  BY TypedIs DEF BooksInv, Labels
<1>2. req[r].pc = "enter" /\ ClaimTurn(r, req[r].no + 1, "again") /\ fighting' \in BOOLEAN
  BY DEF EnterNode
<1>3. CASE req[r].no + 1 \in played
  BY ONLY <1>1, <1>2, <1>3, r \in Requests, IdleStops DEF ClaimTurn, Fail
<1>4. CASE req[r].no + 1 \notin played
  BY ONLY <1>1, <1>2, <1>4, r \in Requests, GotoGoes DEF ClaimTurn
<1> QED BY ONLY <1>2, <1>3, <1>4

(* The second write of a turn.                                             *)
LEMMA UpdateAgainDoes ==
  ASSUME BooksInv, NEW r \in Requests, UpdateAgain(r)
  PROVE  /\ req[r].pc = "again" /\ Stops(r) /\ done' = done \union {req[r].id}
         /\ \/ row' = row /\ turn' = turn /\ status' = "RUN_ENDED"
            \/ req[r].kind = "equip" /\ row' = req[r].next /\ turn' = turn /\ status' = status
            \/ /\ req[r].kind \in {"return", "fight", "won"} /\ row' = req[r].next
               /\ turn' = req[r].no + 1 /\ status' = status
<1>1. req \in [Requests -> Requested]
  BY TypedIs DEF BooksInv
<1>2. req[r].pc = "again" /\ Answer(r)
  BY DEF UpdateAgain
<1>3. Stops(r) /\ done' = done \union {req[r].id}
  BY ONLY <1>1, <1>2, r \in Requests, IdleStops DEF Answer
<1>4. req[r].kind \in {"return", "fight", "won", "equip", "end", "lost"}
  BY <1>2 DEF BooksInv, Legs
<1> QED BY <1>2, <1>3, <1>4 DEF UpdateAgain

(* The write of a request that takes no turn.                              *)
LEMMA WriteDoes ==
  ASSUME BooksInv, NEW r \in Requests, Write(r)
  PROVE  /\ req[r].pc = "write" /\ row' = req[r].next /\ Stops(r) /\ done' = done \union {req[r].id}
<1>1. req \in [Requests -> Requested]
  BY TypedIs DEF BooksInv
<1> QED BY <1>1, IdleStops DEF Write, Answer

-----------------------------------------------------------------------------
\* The theorems on types and balance

(* A request that goes on or stops, and may have stored its copy.          *)
LEMMA BooksMove ==
  ASSUME BooksInv, NEW r \in Requests,
         \/ Stops(r)
         \/ \E pc \in Labels : Goes(r, pc) /\ (Legs(req[r]) => Legs(req'[r])),
         row' \in {row, req[r].next}, turn' \in Nat, played' \in SUBSET Nat, status' \in {"RUN_ACTIVE", "RUN_ENDED"},
         fighting' \in BOOLEAN, born' = born, count' = count, exposed' = exposed, done' \in SUBSET Nat
  PROVE  BooksInv'
<1>1. /\ row \in Holdings /\ req[r].next \in Holdings /\ born \subseteq Items /\ count \in Nat /\ exposed \subseteq Nat
  BY TypedIs DEF BooksInv, Requested
<1>2. /\ Others(r) /\ req'[r].next \in {Start, req[r].next} /\ Legs(req'[r])
  <2>1. CASE Stops(r)
    BY <2>1 DEF Stops, Legs
  <2>2. CASE \E pc \in Labels : Goes(r, pc) /\ (Legs(req[r]) => Legs(req'[r]))
    BY <2>2 DEF Goes, BooksInv
  <2> QED BY <2>1, <2>2
<1>3. req' \in [Requests -> Requested] /\ \A o \in Requests : o # r => req'[o] = req[o]
  BY <1>2 DEF Others
<1>4. Books(Start) /\ Books(row) /\ \A o \in Requests : Books(req[o].next)
  BY StartSound DEF BooksInv, Books
<1>5. TypeOK'
  BY <1>1, <1>3 DEF TypeOK, Requested, Labels, Kinds
<1>6. \A o \in Requests : Legs(req'[o])
  BY <1>2, <1>3 DEF BooksInv
<1>7. \A o \in Requests : req'[o].next = Start \/ req'[o].next = req[o].next
  BY <1>2, <1>3
<1>8. /\ Books(row') /\ \A o \in Requests : Books(req'[o].next)
  BY <1>1, <1>4, <1>7
<1>9. Range(Kit) \subseteq born'
  BY DEF BooksInv
<1>10. /\ \A o \in Requests : Books(req[o].next)'
       /\ Books(row)'
  BY <1>8 DEF Books, Balanced
<1> QED BY <1>5, <1>6, <1>9, <1>10 DEF BooksInv, Legs

(* Every step keeps the balance.                                           *)
LEMMA BooksStep ==
  ASSUME BooksInv, [Next]_vars
  PROVE  BooksInv'
<1>1. CASE UNCHANGED vars
  BY <1>1 DEF vars, BooksInv, TypeOK, Books, Balanced, Legs
<1> SUFFICES ASSUME Next PROVE BooksInv'
  BY <1>1
<1>0. /\ row \in Holdings /\ turn \in Nat /\ played \subseteq Nat /\ status \in {"RUN_ACTIVE", "RUN_ENDED"}
      /\ fighting \in BOOLEAN /\ req \in [Requests -> Requested]
      /\ born \subseteq Items /\ count \in Nat /\ done \subseteq Nat /\ exposed \subseteq Nat
  BY TypedIs DEF BooksInv
<1>2. PICK r \in Requests :
    \/ ApiRequest(r) \/ ActionTurn(r) \/ ShopTurn(r) \/ EquipTurn(r) \/ FightTurn(r)
    \/ CombatTurn(r) \/ ReturnTurn(r) \/ EndTurn(r)
    \/ InsertTurn(r) \/ UpdateRun(r) \/ CommitCombat(r) \/ EnterNode(r) \/ UpdateAgain(r)
    \/ Write(r)
  BY DEF Next
<1>3. req[r].no \in Nat /\ req[r].id \in Nat /\ req[r].no + 1 \in Nat
  BY <1>0 DEF Requested
<1>4. CASE \/ ApiRequest(r) \/ ActionTurn(r) \/ ShopTurn(r) \/ EquipTurn(r) \/ FightTurn(r)
           \/ CombatTurn(r) \/ ReturnTurn(r) \/ EndTurn(r)
  <2>1. PICK kind \in Kinds : \E next : Sound(next) /\ Begin(r, kind, next)
    BY <1>4, Beginnings
  <2>2. PICK next : Sound(next) /\ Begin(r, kind, next)
    BY <2>1
  <2>3. /\ Others(r)
        /\ req'[r].pc = IF kind = "api" THEN "write" ELSE IF kind \in Atomic THEN "commit" ELSE "insert"
        /\ req'[r].kind = kind
        /\ Balanced(req'[r].next) /\ req'[r].next.got = next.got /\ next.got \subseteq Items
        /\ count' = count + 1 /\ born' = born \union next.got
        /\ row' = row /\ turn' = turn /\ played' = played /\ status' = status
        /\ fighting' = fighting /\ done' = done
    BY ONLY BooksInv, r \in Requests, kind \in Kinds, <2>2, Begun
  <2>4. exposed' \subseteq Nat
    <3>1. \A o \in Requests : req[o].id \in Nat
      BY <1>0 DEF Requested
    <3>2. PICK met \in SUBSET Requests :
            exposed' = IF met = {} THEN exposed ELSE exposed \union {req[o].id : o \in met} \union {count + 1}
      BY <2>2 DEF Begin
    <3>3. {req[o].id : o \in met} \subseteq Nat /\ count + 1 \in Nat
      BY <3>1, <1>0
    <3> QED BY <3>2, <3>3, <1>0
  <2>5. req' \in [Requests -> Requested] /\ \A o \in Requests : o # r => req'[o] = req[o]
    BY <2>3 DEF Others
  <2>6. TypeOK'
    <3>1. count' \in Nat /\ born' \subseteq Items
      BY <1>0, <2>3
    <3> QED BY <1>0, <2>3, <2>4, <2>5, <3>1 DEF TypeOK, Requested, Labels, Kinds
  <2>7. Legs(req'[r])
    BY <2>3 DEF Legs, Atomic, Kinds
  <2>8. \A o \in Requests : Legs(req[o])'
    BY <2>5, <2>7 DEF BooksInv, Legs
  <2>9. born \subseteq born'
    BY <2>3
  <2>10. Books(row)' /\ (Range(Kit) \subseteq born)'
    BY <2>3, <2>9 DEF BooksInv, Books, Balanced
  <2>11. ASSUME NEW o \in Requests PROVE Books(req[o].next)'
    <3>1. CASE o = r
      BY <3>1, <2>3 DEF Books, Balanced
    <3>2. CASE o # r
      BY <3>2, <2>5, <2>9 DEF BooksInv, Books, Balanced
    <3> QED BY <3>1, <3>2
  <2> QED BY <2>6, <2>8, <2>10, <2>11 DEF BooksInv
<1>5. CASE InsertTurn(r)
  <2>1. /\ row' = row /\ turn' = turn /\ status' = status /\ fighting' = fighting
        /\ born' = born /\ count' = count /\ exposed' = exposed
    BY <1>5 DEF InsertTurn
  <2>2. \/ Stops(r)
        \/ \E pc \in Labels : Goes(r, pc) /\ (Legs(req[r]) => Legs(req'[r]))
    BY <1>5, InsertTurnDoes DEF Goes, Legs, Labels
  <2>3. done' \in SUBSET Nat /\ played' \in SUBSET Nat
    BY <1>0, <1>3, <1>5, InsertTurnDoes DEF Goes
  <2> QED BY <1>0, <2>1, <2>2, <2>3, BooksMove
<1>6. CASE UpdateRun(r)
  <2>1. /\ played' = played /\ status' = status /\ fighting' = fighting
        /\ born' = born /\ count' = count /\ exposed' = exposed
    BY <1>6 DEF UpdateRun
  <2>2. \/ Stops(r)
        \/ \E pc \in Labels : Goes(r, pc) /\ (Legs(req[r]) => Legs(req'[r]))
    BY <1>6, UpdateRunDoes DEF Goes, Legs, Labels
  <2>3. done' \in SUBSET Nat /\ row' = req[r].next /\ turn' \in Nat
    BY <1>0, <1>3, <1>6, UpdateRunDoes DEF Goes
  <2> QED BY <1>0, <2>1, <2>2, <2>3, BooksMove
<1>7. CASE CommitCombat(r)
  <2>1. /\ status' = status /\ fighting' = fighting
        /\ born' = born /\ count' = count /\ exposed' = exposed
    BY <1>7 DEF CommitCombat
  <2>2. \/ Stops(r)
        \/ \E pc \in Labels : Goes(r, pc) /\ (Legs(req[r]) => Legs(req'[r]))
    BY <1>7, CommitCombatDoes DEF Goes, Legs, Labels
  <2>3. done' \in SUBSET Nat /\ row' \in {row, req[r].next} /\ turn' \in Nat /\ played' \in SUBSET Nat
    BY <1>0, <1>3, <1>7, CommitCombatDoes DEF Goes
  <2> QED BY <1>0, <2>1, <2>2, <2>3, BooksMove
<1>8. CASE EnterNode(r)
  <2>1. /\ row' = row /\ turn' = turn /\ status' = status
        /\ born' = born /\ count' = count /\ exposed' = exposed
    BY <1>8 DEF EnterNode
  <2>2. \/ Stops(r)
        \/ \E pc \in Labels : Goes(r, pc) /\ (Legs(req[r]) => Legs(req'[r]))
    BY <1>8, EnterNodeDoes DEF Goes, Legs, Labels
  <2>3. done' \in SUBSET Nat /\ played' \in SUBSET Nat /\ fighting' \in BOOLEAN
    BY <1>0, <1>3, <1>8, EnterNodeDoes DEF Goes
  <2> QED BY <1>0, <2>1, <2>2, <2>3, BooksMove
<1>9. CASE UpdateAgain(r)
  <2>1. /\ played' = played /\ fighting' = fighting
        /\ born' = born /\ count' = count /\ exposed' = exposed
    BY <1>9 DEF UpdateAgain
  <2>2. Stops(r)
    BY <1>9, UpdateAgainDoes
  <2>3. /\ done' \in SUBSET Nat /\ row' \in {row, req[r].next} /\ turn' \in Nat
        /\ status' \in {"RUN_ACTIVE", "RUN_ENDED"}
    BY <1>0, <1>3, <1>9, UpdateAgainDoes
  <2> QED BY <1>0, <2>1, <2>2, <2>3, BooksMove
<1>10. CASE Write(r)
  <2>1. /\ turn' = turn /\ played' = played /\ status' = status /\ fighting' = fighting
        /\ born' = born /\ count' = count /\ exposed' = exposed
    BY <1>10 DEF Write
  <2>2. Stops(r) /\ row' = req[r].next /\ done' \in SUBSET Nat
    BY <1>0, <1>3, <1>10, WriteDoes
  <2> QED BY <1>0, <2>1, <2>2, BooksMove
<1> QED BY ONLY <1>2, <1>4, <1>5, <1>6, <1>7, <1>8, <1>9, <1>10

(* The books balance in every state.                                       *)
LEMMA BooksKept == Spec => []BooksInv
<1>1. BooksInv /\ [Next]_vars => BooksInv'
  BY BooksStep
<1> QED BY BooksInit, <1>1, PTL DEF Spec

(* Types, for any number of requests and goods: neither gold nor a stock   *)
(* is ever negative, however the requests interleave.                      *)
THEOREM BelongingsTypes == Spec => []TypeOK
<1>1. BooksInv => TypeOK
  BY DEF BooksInv
<1> QED BY BooksKept, <1>1, PTL

(* Every instance the player came by is in the bag or worn, exactly once,  *)
(* in its own slot, unless equip refuses it and an equip turn has lost it, *)
(* and gold and fee are what was earned less what was     *)
(* spent, whatever the writes of runs.service.ts and turns.service.ts      *)
(* overwrite.                                                              *)
THEOREM BooksBalance == Spec => []Accounted
<1>1. BooksInv => Accounted
  BY BalancedIs DEF BooksInv, Books, TypeOK
<1> QED BY BooksKept, <1>1, PTL

-----------------------------------------------------------------------------
\* Turns keep turns: the inductive invariant

(* A request in flight.                                                    *)
Busy(r) == req[r].pc # "idle"

(* The kinds of turn that lead to another node.                            *)
Leading == {"return", "fight", "won"}

(* A request whose turn is logged and not in the stored state yet.         *)
Pending(r) == req[r].pc = "update" \/ (req[r].pc = "again" /\ req[r].kind \in Leading)

(* The number of the turn of a request.                                    *)
LogOf(r) ==
  /\ Busy(r) => req[r].no \in 1..(turn + 1)
  /\ req[r].pc \in {"enter", "again"} => req[r].no <= turn
  /\ req[r].pc = "update" => req[r].no = turn + 1
  /\ req[r].pc = "again" /\ req[r].kind \in Leading => req[r].no = turn
  /\ Pending(r) => turn + 1 \in played

(* The log of turns runs at most one ahead of the stored state, on behalf  *)
(* of one request.                                                         *)
LogInv ==
  /\ 1..turn \subseteq played /\ played \subseteq 1..(turn + 1)
  /\ \A r \in Requests : LogOf(r)
  /\ \A r, o \in Requests : Pending(r) /\ Pending(o) => r = o

(* Requests that met one that takes no turn are exposed, and so is that.   *)
MetInv ==
  \A r, o \in Requests :
    r # o /\ Busy(r) /\ Busy(o) /\ req[r].kind \in Turnless => {req[r].id, req[o].id} \subseteq exposed

(* The requests that have stored what they did.                            *)
Stored == done \union {req[r].id : r \in {o \in Requests : req[o].pc \in {"enter", "again"}}}

(* A turn that can still be logged or stored: nothing was since it began.  *)
Current(r) ==
  \/ req[r].pc \in {"insert", "commit", "update"} /\ req[r].no = turn + 1
  \/ req[r].pc \in {"enter", "again"} /\ req[r].no = turn

(* Nothing that was stored is lost with a write to come.                   *)
KeepInv ==
  /\ Stored \subseteq row.ops \union exposed
  /\ \A r \in Requests :
       /\ Busy(r) => req[r].id \in req[r].next.ops
       /\ Busy(r) /\ req[r].kind \in Turnless => Stored \subseteq req[r].next.ops \union exposed
       /\ Current(r) => Stored \subseteq req[r].next.ops \union exposed

(* The steps by their kinds.                                               *)
LEMMA StepIs ==
  ASSUME BooksInv, Next
  PROVE  \E r \in Requests :
           \/ \E kind \in Kinds : \E next : Sound(next) /\ Begin(r, kind, next)
           \/ InsertTurn(r) \/ UpdateRun(r) \/ CommitCombat(r) \/ EnterNode(r) \/ UpdateAgain(r)
           \/ Write(r)
<1>1. PICK r \in Requests :
    \/ ApiRequest(r) \/ ActionTurn(r) \/ ShopTurn(r) \/ EquipTurn(r) \/ FightTurn(r)
    \/ CombatTurn(r) \/ ReturnTurn(r) \/ EndTurn(r)
    \/ InsertTurn(r) \/ UpdateRun(r) \/ CommitCombat(r) \/ EnterNode(r) \/ UpdateAgain(r)
    \/ Write(r)
  BY DEF Next
<1> QED BY ONLY <1>1, BooksInv, Beginnings

(* Requests do not change on their way.                                    *)
LEMMA StepsKeep ==
  ASSUME BooksInv, NEW r \in Requests,
         \/ InsertTurn(r) \/ UpdateRun(r) \/ CommitCombat(r) \/ EnterNode(r) \/ UpdateAgain(r)
         \/ Write(r)
  PROVE  /\ exposed' = exposed
         /\ req[r].pc # "idle"
         /\ \A o \in Requests : o # r => req'[o] = req[o]
         /\ \A o \in Requests : req'[o].pc # "idle" =>
              /\ req[o].pc # "idle" /\ req'[o].id = req[o].id /\ req'[o].no = req[o].no
              /\ req'[o].kind = req[o].kind /\ req'[o].next = req[o].next
<1>1. exposed' = exposed
  BY DEF InsertTurn, UpdateRun, CommitCombat, EnterNode, UpdateAgain, Write
<1>2. /\ req[r].pc # "idle"
      /\ Stops(r) \/ \E pc \in Labels : Goes(r, pc)
  <2>1. {"update", "enter", "again"} \subseteq Labels
    BY DEF Labels
  <2>2. CASE InsertTurn(r)
    BY <2>1, <2>2, InsertTurnDoes
  <2>3. CASE UpdateRun(r)
    BY <2>1, <2>3, UpdateRunDoes
  <2>4. CASE CommitCombat(r)
    BY <2>1, <2>4, CommitCombatDoes
  <2>5. CASE EnterNode(r)
    BY <2>1, <2>5, EnterNodeDoes
  <2>6. CASE UpdateAgain(r) \/ Write(r)
    BY <2>6, UpdateAgainDoes, WriteDoes
  <2> QED BY <2>2, <2>3, <2>4, <2>5, <2>6
<1>3. \A o \in Requests : o # r => req'[o] = req[o]
  BY <1>2 DEF Stops, Goes, Others
<1>4. req'[r].pc # "idle" =>
        /\ req'[r].id = req[r].id /\ req'[r].no = req[r].no
        /\ req'[r].kind = req[r].kind /\ req'[r].next = req[r].next
  BY <1>2 DEF Stops, Goes
<1> QED BY ONLY <1>1, <1>2, <1>3, <1>4

(* Every step keeps the record of requests that met.                       *)
LEMMA MetStep ==
  ASSUME BooksInv, MetInv, [Next]_vars
  PROVE  MetInv'
<1>1. CASE UNCHANGED vars
  BY <1>1 DEF vars, MetInv, Busy
<1>2. ASSUME NEW r \in Requests, NEW kind \in Kinds, NEW next, Sound(next), Begin(r, kind, next)
      PROVE  MetInv'
  <2>1. /\ req[r].pc = "idle" /\ Others(r) /\ req'[r].id = count + 1 /\ req'[r].kind = kind
    BY ONLY BooksInv, <1>2, Begun
  <2> DEFINE others == {o \in Requests \ {r} : req[o].pc # "idle"}
             met == {o \in others : kind \in Turnless \/ req[o].kind \in Turnless}
  <2>2. exposed' = IF met = {} THEN exposed ELSE exposed \union {req[o].id : o \in met} \union {count + 1}
    BY <1>2 DEF Begin
  <2>3. exposed \subseteq exposed' /\ \A o \in met : {req[o].id, count + 1} \subseteq exposed'
    BY ONLY <2>2
  <2>4. SUFFICES ASSUME NEW p \in Requests, NEW o \in Requests, p # o, req'[p].pc # "idle", req'[o].pc # "idle",
                        req'[p].kind \in Turnless
                 PROVE  {req'[p].id, req'[o].id} \subseteq exposed'
    BY DEF MetInv, Busy, Turnless
  <2>5. CASE p = r
    <3>1. req'[o] = req[o] /\ o \in met
      BY <2>1, <2>4, <2>5 DEF Others
    <3> QED BY <2>1, <2>3, <2>5, <3>1
  <2>6. CASE o = r
    <3>1. req'[p] = req[p] /\ p \in met
      BY <2>1, <2>4, <2>6 DEF Others
    <3> QED BY <2>1, <2>3, <2>6, <3>1
  <2>7. CASE p # r /\ o # r
    <3>1. req'[p] = req[p] /\ req'[o] = req[o]
      BY <2>1, <2>7 DEF Others
    <3> QED BY <2>3, <2>4, <3>1 DEF MetInv, Busy
  <2> QED BY <2>5, <2>6, <2>7
<1>3. ASSUME NEW r \in Requests,
             \/ InsertTurn(r) \/ UpdateRun(r) \/ CommitCombat(r) \/ EnterNode(r) \/ UpdateAgain(r)
             \/ Write(r)
      PROVE  MetInv'
  <2>1. /\ exposed' = exposed
        /\ \A o \in Requests : req'[o].pc # "idle" =>
              req[o].pc # "idle" /\ req'[o].id = req[o].id /\ req'[o].kind = req[o].kind
    BY ONLY BooksInv, <1>3, StepsKeep
  <2> QED BY <2>1 DEF MetInv, Busy, Turnless
<1> QED BY ONLY <1>1, <1>2, <1>3, BooksInv, [Next]_vars, StepIs

(* A request that goes on or stops and leaves turn and log alone.          *)
LEMMA LogRest ==
  ASSUME LogInv, NEW r \in Requests, turn' = turn, played' = played,
         \A o \in Requests : o # r => req'[o] = req[o],
         LogOf(r)', ~Pending(r)'
  PROVE  LogInv'
<1>1. ASSUME NEW o \in Requests, o # r PROVE LogOf(o)' /\ (Pending(o)' <=> Pending(o))
  BY <1>1 DEF LogInv, LogOf, Pending, Busy, Leading
<1>2. /\ \A o \in Requests : LogOf(o)'
      /\ \A p, o \in Requests : Pending(p)' /\ Pending(o)' => p = o
  BY <1>1 DEF LogInv
<1> QED BY <1>2 DEF LogInv

(* A request that logs the next turn: who stores it is one.                *)
LEMMA LogClaim ==
  ASSUME LogInv, turn \in Nat, NEW r \in Requests, turn' = turn,
         turn + 1 \notin played, played' = played \union {turn + 1},
         \A o \in Requests : o # r => req'[o] = req[o],
         LogOf(r)'
  PROVE  LogInv'
<1>1. ASSUME NEW o \in Requests, o # r PROVE LogOf(o)' /\ ~Pending(o)'
  <2>1. ~Pending(o) /\ req'[o] = req[o] /\ LogOf(o)
    BY <1>1 DEF LogInv, LogOf
  <2> QED BY <2>1 DEF LogOf, Pending, Busy, Leading
<1>2. /\ \A o \in Requests : LogOf(o)'
      /\ \A p, o \in Requests : Pending(p)' /\ Pending(o)' => p = o
  BY <1>1
<1>3. 1..turn \subseteq played' /\ played' \subseteq 1..(turn + 1)
  BY DEF LogInv
<1> QED BY <1>2, <1>3 DEF LogInv

(* A request that stores the turn that is logged.                          *)
LEMMA LogStore ==
  ASSUME LogInv, turn \in Nat, NEW r \in Requests, turn' = turn + 1, played' = played \union {turn + 1},
         \A o \in Requests : o # r => req'[o] = req[o],
         \A o \in Requests : o # r => ~Pending(o),
         LogOf(r)', ~Pending(r)'
  PROVE  LogInv'
<1>1. ASSUME NEW o \in Requests, o # r PROVE LogOf(o)' /\ ~Pending(o)'
  <2>1. ~Pending(o) /\ req'[o] = req[o] /\ LogOf(o)
    BY <1>1 DEF LogInv
  <2>2. ~Pending(o)'
    BY <2>1 DEF Pending, Leading
  <2> QED BY <2>1, <2>2 DEF LogOf, Pending, Busy, Leading
<1>2. /\ \A o \in Requests : LogOf(o)'
      /\ \A p, o \in Requests : Pending(p)' /\ Pending(o)' => p = o
  BY <1>1
<1>3. 1..(turn + 1) \subseteq played' /\ played' \subseteq 1..((turn + 1) + 1)
  BY DEF LogInv
<1> QED BY <1>2, <1>3 DEF LogInv

(* Every step keeps the log at most one turn ahead.                        *)
LEMMA LogStep ==
  ASSUME BooksInv, LogInv, [Next]_vars
  PROVE  LogInv'
<1>0. turn \in Nat /\ \A r \in Requests : req[r] \in Requested /\ req[r].no \in Nat
  BY TypedIs DEF BooksInv, Requested
<1>1. CASE UNCHANGED vars
  BY <1>1 DEF vars, LogInv, LogOf, Pending, Busy, Leading
<1>2. ASSUME NEW r \in Requests, NEW kind \in Kinds, NEW next, Sound(next), Begin(r, kind, next)
      PROVE  LogInv'
  <2>1. /\ Others(r) /\ req'[r].no = turn + 1 /\ turn' = turn /\ played' = played
        /\ req'[r].pc = IF kind = "api" THEN "write" ELSE IF kind \in Atomic THEN "commit" ELSE "insert"
    BY ONLY BooksInv, <1>2, Begun
  <2>2. req'[r].pc \notin {"update", "enter", "again"}
    BY <2>1
  <2>3. LogOf(r)' /\ ~Pending(r)'
    BY <1>0, <2>1, <2>2 DEF LogOf, Pending, Busy
  <2> QED BY <2>1, <2>3, LogRest DEF Others
<1>3. ASSUME NEW r \in Requests,
             \/ InsertTurn(r) \/ UpdateRun(r) \/ CommitCombat(r) \/ EnterNode(r) \/ UpdateAgain(r)
             \/ Write(r)
      PROVE  LogInv'
  <2>1. \A o \in Requests : o # r => req'[o] = req[o]
    BY ONLY BooksInv, <1>3, StepsKeep
  <2>2. ASSUME Stops(r) PROVE LogOf(r)' /\ ~Pending(r)'
    BY <2>2 DEF Stops, LogOf, Pending, Busy
  <2>3. LogOf(r) /\ req[r].no \in Nat /\ turn \in Nat
    BY <1>0 DEF LogInv
  <2>4. CASE InsertTurn(r)
    <3>1. req[r].pc = "insert" /\ turn' = turn
      BY <2>4, InsertTurnDoes DEF InsertTurn
    <3>2. CASE Stops(r) /\ played' = played
      BY <2>1, <2>2, <3>1, <3>2, LogRest
    <3>3. CASE req[r].no \notin played /\ Goes(r, "update") /\ played' = played \union {req[r].no}
      <4>1. req[r].no = turn + 1
        BY <2>3, <3>1, <3>3 DEF LogOf, Busy, LogInv
      <4>2. LogOf(r)'
        BY <2>3, <3>1, <3>3, <4>1 DEF LogOf, Busy, Pending, Goes
      <4> QED BY <2>1, <2>3, <3>1, <3>3, <4>1, <4>2, LogClaim
    <3> QED BY ONLY BooksInv, r \in Requests, <2>4, <3>2, <3>3, InsertTurnDoes
  <2>5. CASE UpdateRun(r)
    <3>1. /\ req[r].pc = "update" /\ turn' = req[r].no /\ played' = played
          /\ \/ Stops(r)
             \/ req[r].kind \in {"return", "fight"} /\ Goes(r, "enter")
             \/ req[r].kind \in {"equip", "end"} /\ Goes(r, "again")
      BY <2>5, UpdateRunDoes DEF UpdateRun
    <3>2. turn' = turn + 1 /\ played' = played \union {turn + 1} /\ Pending(r)
      BY <2>3, <3>1 DEF LogOf, Pending
    <3>3. \A o \in Requests : o # r => ~Pending(o)
      BY <3>2 DEF LogInv
    <3>4. LogOf(r)' /\ ~Pending(r)'
      <4>1. CASE Stops(r)
        BY <4>1, <2>2
      <4>2. CASE req[r].kind \in {"return", "fight"} /\ Goes(r, "enter")
        BY <4>2, <3>1, <3>2, <2>3 DEF Goes, LogOf, Pending, Busy
      <4>3. CASE req[r].kind \in {"equip", "end"} /\ Goes(r, "again")
        BY <4>3, <3>1, <3>2, <2>3 DEF Goes, LogOf, Pending, Busy, Leading
      <4> QED BY <3>1, <4>1, <4>2, <4>3
    <3> QED BY <2>1, <2>3, <3>2, <3>3, <3>4, LogStore
  <2>6. CASE CommitCombat(r)
    <3>1. req[r].pc = "commit"
      BY <2>6, CommitCombatDoes
    <3>2. CASE Stops(r) /\ played' = played /\ turn' = turn
      BY <2>1, <2>2, <3>2, LogRest
    <3>3. CASE /\ req[r].no \notin played /\ played' = played \union {req[r].no}
               /\ turn' = req[r].no
               /\ \/ Stops(r)
                  \/ req[r].kind = "won" /\ Goes(r, "enter")
                  \/ req[r].kind = "lost" /\ Goes(r, "again")
      <4>1. req[r].no = turn + 1
        BY <2>3, <3>1, <3>3 DEF LogOf, Busy, LogInv
      <4>2. \A o \in Requests : o # r => ~Pending(o)
        BY <3>3, <4>1 DEF LogInv, LogOf
      <4>3. LogOf(r)' /\ ~Pending(r)'
        <5>1. CASE Stops(r)
          BY <5>1, <2>2
        <5>2. CASE req[r].kind = "won" /\ Goes(r, "enter")
          BY <5>2, <3>1, <3>3, <2>3, <4>1 DEF Goes, LogOf, Pending, Busy
        <5>3. CASE req[r].kind = "lost" /\ Goes(r, "again")
          BY <5>3, <3>1, <3>3, <2>3, <4>1 DEF Goes, LogOf, Pending, Busy, Leading
        <5> QED BY <3>3, <5>1, <5>2, <5>3
      <4> QED BY <2>1, <2>3, <3>3, <4>1, <4>2, <4>3, LogStore
    <3>4. \/ Stops(r) /\ played' = played /\ turn' = turn
          \/ /\ req[r].no \notin played /\ played' = played \union {req[r].no}
             /\ turn' = req[r].no
             /\ \/ Stops(r)
                \/ req[r].kind = "won" /\ Goes(r, "enter")
                \/ req[r].kind = "lost" /\ Goes(r, "again")
      BY <2>6, CommitCombatDoes
    <3> QED BY ONLY <3>2, <3>3, <3>4
  <2>7. CASE EnterNode(r)
    <3>1. req[r].pc = "enter" /\ turn' = turn /\ req[r].kind \in Leading
      <4>1. req[r].pc = "enter" /\ turn' = turn
        BY <2>7, EnterNodeDoes DEF EnterNode
      <4> QED BY <4>1 DEF BooksInv, Legs, Leading
    <3>2. CASE Stops(r) /\ played' = played
      BY <2>1, <2>2, <3>1, <3>2, LogRest
    <3>3. CASE /\ req[r].no + 1 \notin played /\ Goes(r, "again")
               /\ played' = played \union {req[r].no + 1}
      <4>1. req[r].no = turn
        BY <2>3, <3>1, <3>3 DEF LogOf, Busy, LogInv
      <4>2. LogOf(r)'
        BY <2>3, <3>1, <3>3, <4>1 DEF LogOf, Busy, Pending, Goes, Leading
      <4> QED BY <2>1, <2>3, <3>1, <3>3, <4>1, <4>2, LogClaim
    <3> QED BY ONLY BooksInv, r \in Requests, <2>7, <3>2, <3>3, EnterNodeDoes
  <2>8. CASE UpdateAgain(r)
    <3>1. /\ req[r].pc = "again" /\ Stops(r) /\ played' = played
          /\ \/ turn' = turn
             \/ req[r].kind \in {"return", "fight", "won"} /\ turn' = req[r].no + 1
      BY <2>8, UpdateAgainDoes DEF UpdateAgain
    <3>2. CASE turn' = turn
      BY <2>1, <2>2, <3>1, <3>2, LogRest
    <3>3. CASE req[r].kind \in {"return", "fight", "won"} /\ turn' = req[r].no + 1
      <4>1. turn' = turn + 1 /\ played' = played \union {turn + 1} /\ Pending(r)
        BY <2>3, <3>1, <3>3 DEF LogOf, Pending, Leading
      <4>2. \A o \in Requests : o # r => ~Pending(o)
        BY <4>1 DEF LogInv
      <4> QED BY <2>1, <2>2, <2>3, <3>1, <4>1, <4>2, LogStore
    <3> QED BY <3>1, <3>2, <3>3
  <2>9. CASE Write(r)
    <3>1. Stops(r) /\ turn' = turn /\ played' = played
      BY <2>9, WriteDoes DEF Write
    <3> QED BY <2>1, <2>2, <3>1, LogRest
  <2> QED BY <1>3, <2>4, <2>5, <2>6, <2>7, <2>8, <2>9
<1> QED BY ONLY <1>1, <1>2, <1>3, BooksInv, [Next]_vars, StepIs

(* A request that goes on or stops without a write.                        *)
LEMMA KeepRest ==
  ASSUME KeepInv, NEW r \in Requests, row' = row, turn' = turn, exposed' = exposed,
         \A o \in Requests : o # r => req'[o] = req[o],
         Stored' \subseteq Stored, ~Busy(r)' \/ (Goes(r, "update") /\ req[r].pc = "insert")
                                              \/ (Goes(r, "again") /\ req[r].pc = "enter")
  PROVE  KeepInv'
<1> DEFINE Safe(o) == /\ Busy(o) => req[o].id \in req[o].next.ops
                      /\ Busy(o) /\ req[o].kind \in Turnless => Stored \subseteq req[o].next.ops \union exposed
                      /\ Current(o) => Stored \subseteq req[o].next.ops \union exposed
<1>1. Stored \subseteq row.ops \union exposed /\ \A o \in Requests : Safe(o)
  BY DEF KeepInv
<1>2. ASSUME NEW o \in Requests, o # r PROVE Safe(o)'
  <2>1. req'[o] = req[o] /\ Safe(o)
    BY <1>1, <1>2
  <2> QED BY <2>1 DEF Busy, Current, Turnless
<1>3. Safe(r)'
  <2>1. CASE ~Busy(r)'
    BY <2>1 DEF Busy, Current
  <2>2. CASE \/ (Goes(r, "update") /\ req[r].pc = "insert")
             \/ (Goes(r, "again") /\ req[r].pc = "enter")
    <3>1. /\ Busy(r) /\ (Current(r)' => Current(r))
          /\ req'[r].id = req[r].id /\ req'[r].kind = req[r].kind /\ req'[r].next = req[r].next
      BY <2>2 DEF Goes, Busy, Current
    <3> QED BY <1>1, <3>1 DEF Turnless
  <2> QED BY <2>1, <2>2
<1>4. Stored' \subseteq row'.ops \union exposed'
  BY <1>1
<1> QED BY <1>2, <1>3, <1>4 DEF KeepInv

(* A request that writes its copy.  The copy of another one is exposed to  *)
(* it, or cannot be written any more.                                      *)
LEMMA KeepStore ==
  ASSUME KeepInv, LogInv, MetInv, turn \in Nat, \A o \in Requests : req[o].no \in Nat,
         NEW r \in Requests, Busy(r), row' = req[r].next, exposed' = exposed,
         \A o \in Requests : o # r => req'[o] = req[o],
         Busy(r)' => req'[r].id = req[r].id /\ req'[r].next = req[r].next,
         Stored' \subseteq Stored \union {req[r].id},
         Current(r) \/ req[r].kind \in Turnless,
         turn' = turn + 1 \/ (turn' = turn /\ req[r].kind \in Turnless)
  PROVE  KeepInv'
<1>1. Stored' \subseteq req[r].next.ops \union exposed /\ req[r].id \in req[r].next.ops
  BY DEF KeepInv
<1> DEFINE Safe(o) == /\ Busy(o) => req[o].id \in req[o].next.ops
                      /\ Busy(o) /\ req[o].kind \in Turnless => Stored \subseteq req[o].next.ops \union exposed
                      /\ Current(o) => Stored \subseteq req[o].next.ops \union exposed
<1>2. ASSUME NEW o \in Requests, o # r PROVE Safe(o)'
  <2>1. req'[o] = req[o] /\ Safe(o) /\ LogOf(o) /\ req[o].no \in Nat
    BY <1>2 DEF KeepInv, LogInv
  <2>2. ASSUME Busy(o), req[o].kind \in Turnless \/ req[r].kind \in Turnless
        PROVE  req[r].id \in exposed
    BY <1>2, <2>2 DEF MetInv
  <2>3. (Busy(o) => req[o].id \in req[o].next.ops)'
    BY <2>1 DEF Busy
  <2>4. (Busy(o) /\ req[o].kind \in Turnless => Stored \subseteq req[o].next.ops \union exposed)'
    BY <2>1, <2>2 DEF Busy, Turnless
  <2>5. ASSUME Current(o)' PROVE turn' = turn /\ Current(o) /\ Busy(o)
    BY <2>1, <2>5 DEF Current, Busy, LogOf
  <2>6. (Current(o) => Stored \subseteq req[o].next.ops \union exposed)'
    <3> SUFFICES ASSUME Current(o)' PROVE Stored' \subseteq req'[o].next.ops \union exposed'
      OBVIOUS
    <3>1. req[r].kind \in Turnless
      BY <2>5
    <3> QED BY <2>1, <2>2, <2>5, <3>1
  <2> QED BY ONLY <2>3, <2>4, <2>6
<1>3. Safe(r)'
  BY <1>1 DEF Busy, Current
<1> QED BY <1>1, <1>2, <1>3 DEF KeepInv

(* No step loses what was stored.                                          *)
LEMMA KeepStep ==
  ASSUME BooksInv, LogInv, MetInv, KeepInv, [Next]_vars
  PROVE  KeepInv'
<1>0. turn \in Nat /\ \A r \in Requests : req[r] \in Requested /\ req[r].no \in Nat
  BY TypedIs DEF BooksInv, Requested
<1>1. CASE UNCHANGED vars
  BY <1>1 DEF vars, KeepInv, Stored, Busy, Current
<1>2. ASSUME NEW r \in Requests, NEW kind \in Kinds, NEW next, Sound(next), Begin(r, kind, next)
      PROVE  KeepInv'
  <2>1. /\ req[r].pc = "idle" /\ Others(r) /\ req'[r].id = count + 1
        /\ req'[r].pc = IF kind = "api" THEN "write" ELSE IF kind \in Atomic THEN "commit" ELSE "insert"
        /\ req'[r].next.ops = row.ops \union {count + 1}
        /\ row' = row /\ turn' = turn /\ done' = done
    BY ONLY BooksInv, <1>2, Begun
  <2>2. exposed \subseteq exposed'
    BY <1>2 DEF Begin
  <2>3. \A o \in Requests : o # r => req'[o] = req[o]
    BY <2>1 DEF Others
  <2>4. Stored' = Stored
    <3>1. req[r].pc \notin {"enter", "again"} /\ req'[r].pc \notin {"enter", "again"}
      BY <2>1
    <3>2. {o \in Requests : req'[o].pc \in {"enter", "again"}} = {o \in Requests : req[o].pc \in {"enter", "again"}}
      BY <2>3, <3>1
    <3>3. \A o \in {o \in Requests : req[o].pc \in {"enter", "again"}} : req'[o] = req[o]
      BY <2>3, <3>1
    <3> QED BY <2>1, <3>2, <3>3 DEF Stored
  <2>5. Stored \subseteq row.ops \union exposed
    BY DEF KeepInv
  <2>6. ASSUME NEW o \in Requests
        PROVE  (/\ Busy(o) => req[o].id \in req[o].next.ops
                /\ Busy(o) /\ req[o].kind \in Turnless => Stored \subseteq req[o].next.ops \union exposed
                /\ Current(o) => Stored \subseteq req[o].next.ops \union exposed)'
    <3>1. CASE o = r
      <4>1. Stored' \subseteq req'[o].next.ops \union exposed' /\ req'[o].id \in req'[o].next.ops
        BY <3>1, <2>1, <2>2, <2>4, <2>5
      <4> QED BY <4>1
    <3>2. CASE o # r
      <4>1. req'[o] = req[o]
        BY <3>2, <2>3
      <4>2. /\ Busy(o) => req[o].id \in req[o].next.ops
            /\ Busy(o) /\ req[o].kind \in Turnless => Stored \subseteq req[o].next.ops \union exposed
            /\ Current(o) => Stored \subseteq req[o].next.ops \union exposed
        BY DEF KeepInv
      <4>3. (Busy(o)' <=> Busy(o)) /\ (Current(o)' <=> Current(o))
        BY <4>1, <2>1 DEF Busy, Current
      <4> QED BY <4>1, <4>2, <4>3, <2>2, <2>4 DEF Turnless
    <3> QED BY <3>1, <3>2
  <2> QED BY <2>1, <2>2, <2>4, <2>5, <2>6 DEF KeepInv
<1>3. ASSUME NEW r \in Requests,
             \/ InsertTurn(r) \/ UpdateRun(r) \/ CommitCombat(r) \/ EnterNode(r) \/ UpdateAgain(r)
             \/ Write(r)
      PROVE  KeepInv'
  <2>1. /\ exposed' = exposed /\ Busy(r)
        /\ \A o \in Requests : o # r => req'[o] = req[o]
        /\ Busy(r)' => req'[r].id = req[r].id /\ req'[r].next = req[r].next
    BY ONLY BooksInv, <1>3, StepsKeep DEF Busy
  <2>2. ASSUME done' \in {done, done \union {req[r].id}}
        PROVE  /\ Stored' \subseteq Stored \union {req[r].id}
               /\ done' = done /\ (req'[r].pc \in {"enter", "again"} => req[r].pc \in {"enter", "again"})
                    => Stored' \subseteq Stored
               /\ req[r].pc \in {"enter", "again"} => Stored' \subseteq Stored
    <3>1. ASSUME NEW o \in Requests, req'[o].pc \in {"enter", "again"}
          PROVE  /\ o # r => req[o].pc \in {"enter", "again"}
                 /\ req'[o].id = req[o].id
      BY <2>1, <3>1 DEF Busy
    <3>2. ASSUME NEW o \in Requests, req[o].pc \in {"enter", "again"}
          PROVE  req[o].id \in Stored
      BY <3>2 DEF Stored
    <3>3. done \subseteq Stored
      BY DEF Stored
    <3>4. \A i \in Stored' : \/ i \in done'
                            \/ \E o \in Requests : req'[o].pc \in {"enter", "again"} /\ i = req'[o].id
      BY DEF Stored
    <3> QED BY <2>2, <3>1, <3>2, <3>3, <3>4
  <2>3. LogOf(r) /\ req[r].no \in Nat
    BY <1>0 DEF LogInv
  <2>4. CASE InsertTurn(r)
    <3>1. row' = row /\ turn' = turn
      BY <2>4 DEF InsertTurn
    <3>2. /\ done' = done
          /\ ~Busy(r)' \/ (Goes(r, "update") /\ req[r].pc = "insert")
      BY <2>4, InsertTurnDoes DEF Stops, Goes, Busy
    <3>3. Stored' \subseteq Stored
      BY <2>2, <3>2 DEF Goes, Busy
    <3> QED BY <2>1, <3>1, <3>2, <3>3, KeepRest
  <2>5. CASE EnterNode(r)
    <3>1. row' = row /\ turn' = turn
      BY <2>5 DEF EnterNode
    <3>2. /\ done' = done /\ req[r].pc = "enter"
          /\ ~Busy(r)' \/ (Goes(r, "again") /\ req[r].pc = "enter")
      BY <2>5, EnterNodeDoes DEF Stops, Goes, Busy
    <3>3. Stored' \subseteq Stored
      BY <2>2, <3>2
    <3> QED BY <2>1, <3>1, <3>2, <3>3, KeepRest
  <2>6. CASE UpdateRun(r)
    <3>1. /\ req[r].pc = "update" /\ row' = req[r].next /\ turn' = req[r].no
          /\ done' \in {done, done \union {req[r].id}}
      BY <2>6, UpdateRunDoes DEF Goes
    <3>2. turn' = turn + 1 /\ Current(r)
      BY <2>3, <3>1 DEF LogOf, Current
    <3> QED BY <1>0, <2>1, <2>2, <3>1, <3>2, KeepStore
  <2>7. CASE CommitCombat(r)
    <3>1. req[r].pc = "commit"
      BY <2>7, CommitCombatDoes
    <3>2. CASE Stops(r) /\ done' = done /\ row' = row /\ turn' = turn
      <4>1. ~Busy(r)' /\ Stored' \subseteq Stored
        BY <2>2, <3>2 DEF Stops, Busy
      <4> QED BY <2>1, <3>2, <4>1, KeepRest
    <3>3. CASE /\ req[r].no \notin played /\ row' = req[r].next /\ turn' = req[r].no
               /\ done' \in {done, done \union {req[r].id}}
      <4>1. req[r].no = turn + 1
        BY <2>3, <3>1, <3>3, <1>0 DEF LogOf, Busy, LogInv
      <4>2. turn' = turn + 1 /\ Current(r)
        BY <4>1, <3>1, <3>3 DEF Current
      <4> QED BY <1>0, <2>1, <2>2, <3>3, <4>2, KeepStore
    <3>4. \/ Stops(r) /\ done' = done /\ row' = row /\ turn' = turn
          \/ /\ req[r].no \notin played /\ row' = req[r].next /\ turn' = req[r].no
             /\ done' \in {done, done \union {req[r].id}}
      BY <2>7, CommitCombatDoes DEF Goes
    <3> QED BY ONLY <3>2, <3>3, <3>4
  <2>8. CASE UpdateAgain(r)
    <3>1. /\ req[r].pc = "again" /\ Stops(r) /\ done' = done \union {req[r].id}
          /\ \/ row' = row /\ turn' = turn
             \/ req[r].kind = "equip" /\ row' = req[r].next /\ turn' = turn
             \/ /\ req[r].kind \in {"return", "fight", "won"} /\ row' = req[r].next
                /\ turn' = req[r].no + 1
      BY <2>8, UpdateAgainDoes
    <3>2. ~Busy(r)' /\ Stored' \subseteq Stored
      BY <2>2, <3>1 DEF Stops, Busy
    <3>3. CASE row' = row /\ turn' = turn
      BY <2>1, <3>2, <3>3, KeepRest
    <3>4. CASE req[r].kind = "equip" /\ row' = req[r].next /\ turn' = turn
      <4>1. req[r].kind \in Turnless
        BY <3>4 DEF Turnless
      <4> QED BY <1>0, <2>1, <3>2, <3>4, <4>1, KeepStore
    <3>5. CASE /\ req[r].kind \in {"return", "fight", "won"} /\ row' = req[r].next
               /\ turn' = req[r].no + 1
      <4>1. turn' = turn + 1 /\ Current(r)
        BY <2>3, <3>1, <3>5 DEF LogOf, Current, Leading
      <4> QED BY <1>0, <2>1, <3>2, <3>5, <4>1, KeepStore
    <3> QED BY <3>1, <3>3, <3>4, <3>5
  <2>9. CASE Write(r)
    <3>1. /\ req[r].pc = "write" /\ row' = req[r].next /\ Stops(r) /\ done' = done \union {req[r].id}
          /\ turn' = turn
      BY <2>9, WriteDoes DEF Write
    <3>2. req[r].kind \in Turnless
      BY <3>1 DEF BooksInv, Legs, Turnless
    <3> QED BY <1>0, <2>1, <2>2, <3>1, <3>2, KeepStore
  <2> QED BY <1>3, <2>4, <2>5, <2>6, <2>7, <2>8, <2>9
<1> QED BY ONLY <1>1, <1>2, <1>3, BooksInv, [Next]_vars, StepIs

(* All requests rest at first, and nothing is stored or logged.            *)
LEMMA KeepInit == Init => LogInv /\ MetInv /\ KeepInv
<1> SUFFICES ASSUME Init PROVE LogInv /\ MetInv /\ KeepInv
  OBVIOUS
<1>1. \A r \in Requests : req[r].pc = "idle"
  BY DEF Init, Idle
<1>2. turn = 0 /\ played = {} /\ done = {}
  BY DEF Init
<1>3. LogInv
  BY <1>1, <1>2 DEF LogInv, LogOf, Busy, Pending
<1>4. MetInv
  BY <1>1 DEF MetInv, Busy
<1>5. Stored = {}
  BY <1>1, <1>2 DEF Stored
<1>6. KeepInv
  BY <1>1, <1>5 DEF KeepInv, Busy, Current
<1> QED BY <1>3, <1>4, <1>6

(* What an answered request did stays in the stored state for good, for    *)
(* any number of requests and steps, unless the request met one of those   *)
(* that write runState without claiming a turn.                            *)
THEOREM TurnsStay == Spec => []TurnsKeepTurns
<1> DEFINE Inv == BooksInv /\ LogInv /\ MetInv /\ KeepInv
<1>1. Init => Inv
  BY BooksInit, KeepInit
<1>2. Inv /\ [Next]_vars => Inv'
  BY BooksStep, LogStep, MetStep, KeepStep
<1>3. Inv => TurnsKeepTurns
  BY DEF KeepInv, Stored, TurnsKeepTurns
<1> QED BY <1>1, <1>2, <1>3, PTL DEF Spec
=============================================================================
