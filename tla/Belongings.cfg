SPECIFICATION Spec
CONSTANTS
  Requests = {r1, r2}
  Items = {"blade", "spear", "idol"}
  Slots = {"WEAPON", "ARMOR"}
  SlotOf <- SmallSlots
  Refused = {"idol"}
  None = None
  Goods = {"blades", "potion"}
  Gear = {"blades"}
  Price <- SmallPrices
  StockSize = 2
  RefreshInterval = 2
  MaxQty = 1
  Kit <- SmallKit
  Gold0 = 2
  Potions0 = 1
  Fee = 1
  Legends = 1
  MaxOps = 3
SYMMETRY Symmetry
INVARIANTS
  Accounted
  TurnsKeepTurns
CHECK_DEADLOCK FALSE
