SPECIFICATION CombatSpec
CONSTANTS
  f1 = f1
  f2 = f2
  potion = potion
  tonic = tonic
  dart = dart
  Foes = {f1, f2}
  Items = {potion, tonic, dart}
  Personality <- MCPersonality
  FoeHp <- MCFoeHp
  Effect <- MCEffect
  Value <- MCValue
  Slot <- MCSlot
  Plans <- MCPlans
  MaxHp = 2
  MaxStamina = 1
  MaxDistance = 2
  Starts = {0, 2}
  Packs <- MCPacks
  Loot = {tonic}
  MaxQty = 1
  NoFoe = NoFoe
INVARIANTS
  OutcomeFits
PROPERTIES
  ItemStunYields
  UsedWereHeld
CHECK_DEADLOCK FALSE
