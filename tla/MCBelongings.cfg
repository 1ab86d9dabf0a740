SPECIFICATION Spec
CONSTANTS
  potion = potion
  sword = sword
  Types <- MCTypes
  None = none
  Usable <- MCUsable
  Part <- MCPart
  MaxSlots = 2
  Capacity = 2
  Price <- MCPrice
  Offer <- MCOffer
  GoldInit = 1
  GoldMax = 0
  UINT16 = 2
  MaxSize = 5
  MaxUnits = 5
  MaxGold = 2
INVARIANTS
  SizeCoversTheSlots
  NothingIsDuplicated
  GoldIsConserved
PROPERTIES
  LossNeedsAFullBag
CHECK_DEADLOCK FALSE
