----------------------------- MODULE Belongings -----------------------------
(***************************************************************************)
(* What a player owns: Inventory and its Slots, Equipment, the safe box    *)
(* and the gold (server/src/inventory.cpp, slot.cpp, equipment.cpp,        *)
(* player.cpp, npc/banker.cpp, npc/trader.cpp, npc/merchant.cpp), the      *)
(* floor they come from and fall on (items_positions.cpp), and the         *)
(* handlers of the game loop that move things between them (gameloop.cpp). *)
(*                                                                         *)
(* Inventory keeps two accounts of itself: the quantity in each slot, and  *)
(* size_current, which its guards read.  Things on the floor lie on tiles  *)
(* of their own; the tile is left out.                                     *)
(***************************************************************************)
EXTENDS Naturals, Sequences, FiniteSetsExt

CONSTANTS
  Types,           \* TypeItem
  None,            \* NONE
  Usable,          \* the types whose use() does something: potions
  Part,            \* body_part_use of the defensive types, "hand" for others
  MaxSlots,        \* max_slots
  Capacity,        \* capacity_slot
  Price, Offer,    \* purchase_price and selling_price of each type
  GoldInit,        \* golden_init
  GoldMax,         \* calculationGoldenMax of the player's level
  UINT16,          \* what getGolden() counts modulo: 2^16
  MaxSize,         \* bound: how far size_current is followed
  MaxUnits,        \* bound: units of items in the game
  MaxGold          \* bound: gold in the game

\* INDEX_HEAD, INDEX_BACK, INDEX_SHIELD and INDEX_HAND.
Parts == {"head", "back", "shield", "hand"}

ASSUME BelongingsAssumption ==
  /\ None \notin Types /\ Usable \subseteq Types
  /\ Part \in [Types -> Parts]
  /\ MaxSlots \in Nat \ {0} /\ Capacity \in Nat \ {0}
  /\ Price \in [Types -> Nat] /\ Offer \in [Types -> Nat]
  /\ GoldInit \in Nat /\ GoldMax \in Nat /\ UINT16 \in Nat \ {0} /\ GoldInit < UINT16
  /\ MaxSize \in Nat /\ MaxUnits \in Nat /\ MaxGold \in Nat

VARIABLES
  inv,        \* the slots of Inventory, and its size_current
  equipment,  \* equipment_container, None for a null pointer
  safe_box,   \* Account::safe_box: units of each type
  floor,      \* items_on_floor: units of each type
  alive,      \* Player::isAlive
  golden,     \* Inventory::golden
  deposited,  \* Account::golden
  gold_bags,  \* gold_bags_on_floor: the gold of them all
  made,       \* history: units that entered the game and did not leave it
  gold_made,  \* history: gold that entered the game and did not leave it
  was_rich    \* history: golden did not fit in 16 bits at some time

goods == <<inv, equipment, safe_box, floor>>
gold == <<golden, deposited, gold_bags>>
vars == <<goods, alive, gold, made, gold_made, was_rich>>

Slots == 1..MaxSlots
Nothing == [item |-> None, qty |-> 0]

-----------------------------------------------------------------------------
\* Inventory.
isInventoryFull(v) == v.size_current = MaxSlots * Capacity
isInventoryEmpty(v) == v.size_current = 0

Holding(v, t) == {i \in Slots : v.slots[i].item = t}

\* searchItemInInventory: the first slot of a type is the only one looked at.
searchItem(v, t) == Min(Holding(v, t))

\* setItemInInventory: a new unit in the first empty slot, if there is one.
setItem(v, t) ==
  IF Holding(v, None) = {} THEN v
  ELSE [slots |-> [v.slots EXCEPT ![searchItem(v, None)] = [item |-> t, qty |-> 1]],
        size_current |-> v.size_current + 1]

\* The mutant that stacks on a full slot.
addItemToFullSlot(v, t) ==
  IF Holding(v, t) = {} THEN setItem(v, t)
  ELSE [slots |-> [v.slots EXCEPT ![searchItem(v, t)].qty = @ + 1],
        size_current |-> v.size_current + 1]

\* addItemToInventory and incrementSlotInventory; v itself when it fails.
addItem(v, t) ==
  IF Holding(v, t) = {} THEN setItem(v, t)
  ELSE LET i == searchItem(v, t)
       IN IF v.slots[i].qty = Capacity THEN setItem(v, t)
          ELSE [slots |-> [v.slots EXCEPT ![i].qty = @ + 1],
                size_current |-> v.size_current + 1]

\* Slot::decrease.
Decreased(s) == IF s.qty <= 1 THEN Nothing ELSE [s EXCEPT !.qty = @ - 1]

\* removeItemFromInventory of a slot.
removeItem(v, i) ==
  [slots |-> [v.slots EXCEPT ![i] = Decreased(@)], size_current |-> v.size_current - 1]

\* The mutant that counts a unit even if it only leaves a smaller stack.
TakenAlways(v, i) ==
  [slots |-> [v.slots EXCEPT ![i] = Decreased(@)],
   size_current |-> v.size_current - v.slots[i].qty]

\* The unit setItemInTheEquipment takes: size_current follows only when the
\* slot is left empty.
TakenToEquip(v, i) ==
  [slots |-> [v.slots EXCEPT ![i] = Decreased(@)],
   size_current |-> IF v.slots[i].qty <= 1 THEN v.size_current - 1 ELSE v.size_current]

\* Player::addItemToInventory.
addItemIfNotFull(v, t) == IF isInventoryFull(v) THEN v ELSE addItem(v, t)

\* Player::addItemToInventory of each unit of a sequence.
addWhileNotFull(v, units) ==
  LET after[n \in 0..Len(units)] ==
        IF n = 0 THEN v ELSE addItemIfNotFull(after[n - 1], units[n])
  IN after[Len(units)]

\* The sum of what a function on the slots tells.
SumOver(q) ==
  LET upTo[n \in 0..MaxSlots] == IF n = 0 THEN 0 ELSE upTo[n - 1] + q[n]
  IN upTo[MaxSlots]

-----------------------------------------------------------------------------
NewInventory == [slots |-> [i \in Slots |-> Nothing], size_current |-> 0]

Init ==
  /\ inv = NewInventory
  /\ equipment = [p \in Parts |-> None]
  /\ safe_box = [t \in Types |-> 0] /\ floor = [t \in Types |-> 0]
  /\ alive = TRUE
  /\ golden = GoldInit /\ deposited = 0 /\ gold_bags = 0
  /\ made = [t \in Types |-> 0] /\ gold_made = GoldInit
  /\ was_rich = FALSE

getGolden == golden % UINT16

Total(f) == MapThenSumSet(LAMBDA t : f[t], Types)

\* Room within the bounds for more units, and for more gold.
UnitsFit(n) == Total(made) + n <= MaxUnits
GoldFits(a) == gold_made + a <= MaxGold

\* incrementGolden.
Earn(a) == golden' = golden + a /\ was_rich' = (was_rich \/ golden + a >= UINT16)

\* A refusal changes nothing.  The result of addItemToInventory is not looked at.
buyItem(t) ==
  /\ getGolden >= Price[t] /\ ~isInventoryFull(inv)
  /\ golden' = golden - Price[t]
  /\ inv' = addItem(inv, t)

\* executeBuyItem.
Buy(t) ==
  /\ alive /\ UnitsFit(1)
  /\ buyItem(t)
  /\ gold_made' = gold_made - Price[t]
  /\ made' = [made EXCEPT ![t] = @ + 1]
  /\ UNCHANGED <<equipment, safe_box, floor, alive, deposited, gold_bags, was_rich>>

sellItem(t) ==
  /\ ~isInventoryEmpty(inv) /\ Holding(inv, t) # {}
  /\ Earn(Offer[t])
  /\ inv' = removeItem(inv, searchItem(inv, t))

\* executePlayerSellsItem.
Sell(t) ==
  /\ alive /\ GoldFits(Offer[t])
  /\ sellItem(t)
  /\ gold_made' = gold_made + Offer[t]
  /\ made' = [made EXCEPT ![t] = @ - 1]
  /\ UNCHANGED <<equipment, safe_box, floor, alive, deposited, gold_bags>>

\* A creature dies and drops an item, or a bag of gold.
CreatureDropsItem(t) ==
  /\ UnitsFit(1)
  /\ floor' = [floor EXCEPT ![t] = @ + 1]
  /\ made' = [made EXCEPT ![t] = @ + 1]
  /\ UNCHANGED <<inv, equipment, safe_box, alive, gold, gold_made, was_rich>>

CreatureDropsGold(a) ==
  /\ GoldFits(a)
  /\ gold_bags' = gold_bags + a /\ gold_made' = gold_made + a
  /\ UNCHANGED <<goods, alive, golden, deposited, made, was_rich>>

\* The mutant that leaves the item on the floor as well.
PickUpCopy(t) ==
  /\ alive /\ floor[t] > 0 /\ inv.size_current < MaxSize
  /\ inv' = addItemIfNotFull(inv, t)
  /\ UNCHANGED <<equipment, safe_box, floor, alive, gold, made, gold_made, was_rich>>

\* removeItemTakeToPlayer, an item: it leaves the floor whether or not the
\* inventory took it.
PickUpItem(t) ==
  /\ alive /\ floor[t] > 0
  /\ floor' = [floor EXCEPT ![t] = @ - 1]
  /\ inv' = addItemIfNotFull(inv, t)
  /\ UNCHANGED <<equipment, safe_box, alive, gold, made, gold_made, was_rich>>

\* removeItemTakeToPlayer, a bag, which may hold any part of that gold.
PickUpGold(a) ==
  /\ alive /\ a <= gold_bags
  /\ gold_bags' = gold_bags - a /\ Earn(a)
  /\ UNCHANGED <<goods, alive, deposited, made, gold_made>>

\* removeItemTakeToPlayer, a treasure with gold and items.
OpenTreasure(a, units) ==
  /\ alive /\ GoldFits(a) /\ UnitsFit(Len(units))
  /\ Earn(a) /\ gold_made' = gold_made + a
  /\ inv' = addWhileNotFull(inv, units)
  /\ made' = [t \in Types |-> made[t] + Cardinality({k \in 1..Len(units) : units[k] = t})]
  /\ UNCHANGED <<equipment, safe_box, floor, alive, deposited, gold_bags>>

\* processPlayerDropItem.
DropItem(i) ==
  /\ alive /\ inv.slots[i] # Nothing
  /\ floor' = [floor EXCEPT ![inv.slots[i].item] = @ + 1]
  /\ inv' = removeItem(inv, i)
  /\ UNCHANGED <<equipment, safe_box, alive, gold, made, gold_made, was_rich>>

-----------------------------------------------------------------------------
\* The mutant that forgets what was worn.
EquipSlotOver(v, i) ==
  /\ inv' = TakenToEquip(v, i)
  /\ equipment' = [equipment EXCEPT ![Part[v.slots[i].item]] = v.slots[i].item]

\* setItemInTheEquipment: the unit in the slot changes places with the one
\* worn.  When the inventory has no place for that one it is put on again,
\* and the unit just taken is put in an empty slot.
EquipSlot(v, i) ==
  LET t == v.slots[i].item
      p == Part[t]
      old == equipment[p]
      taken == TakenToEquip(v, i)
      back == addItem(taken, old)
  IN IF old # None /\ back = taken
     THEN inv' = setItem(taken, t) /\ UNCHANGED equipment
     ELSE /\ inv' = IF old = None THEN taken ELSE back
          /\ equipment' = [equipment EXCEPT ![p] = t]

\* processPlayerEquipItem: a potion is drunk, and what is then left in the
\* slot, potion or not, is equipped.  On an empty slot nothing happens if the
\* inventory is empty too; otherwise useItem reads through a null pointer and
\* the process ends, and so does this behaviour.
EquipItem(i) ==
  /\ alive /\ inv.slots[i] # Nothing
  /\ LET t == inv.slots[i].item
         drunk == t \in Usable /\ ~isInventoryEmpty(inv)
         v == IF drunk THEN removeItem(inv, i) ELSE inv
     IN /\ IF v.slots[i] = Nothing THEN inv' = v /\ UNCHANGED equipment
           ELSE EquipSlot(v, i)
        /\ inv'.size_current <= MaxSize
        /\ made' = IF drunk THEN [made EXCEPT ![t] = @ - 1] ELSE made
  /\ UNCHANGED <<safe_box, floor, alive, gold, gold_made, was_rich>>

\* processPlayerUnequipItem and removeItemFromEquipment.
UnequipItem(p) ==
  /\ alive /\ ~isInventoryFull(inv) /\ equipment[p] # None
  /\ equipment' = [equipment EXCEPT ![p] = None]
  /\ inv' = addItem(inv, equipment[p])
  /\ UNCHANGED <<safe_box, floor, alive, gold, made, gold_made, was_rich>>

\* playerDepositItem.
DepositItem(t) ==
  /\ alive /\ ~isInventoryEmpty(inv) /\ Holding(inv, t) # {}
  /\ inv' = removeItem(inv, searchItem(inv, t))
  /\ safe_box' = [safe_box EXCEPT ![t] = @ + 1]
  /\ UNCHANGED <<equipment, floor, alive, gold, made, gold_made, was_rich>>

\* playerWithdrawItem: what addItemToInventory answers is not looked at.
WithdrawItem(t) ==
  /\ alive /\ safe_box[t] > 0
  /\ safe_box' = [safe_box EXCEPT ![t] = @ - 1]
  /\ inv' = addItemIfNotFull(inv, t)
  /\ UNCHANGED <<equipment, floor, alive, gold, made, gold_made, was_rich>>

\* What decreaseGold takes: no more than getGolden tells.
decreaseGold(a) == IF a <= getGolden THEN a ELSE getGolden

\* playerDepositGold.
DepositGold(a) ==
  /\ alive
  /\ golden' = golden - decreaseGold(a) /\ deposited' = deposited + decreaseGold(a)
  /\ UNCHANGED <<goods, alive, gold_bags, made, gold_made, was_rich>>

\* The mutant that pays out what was asked for.
WithdrawAsked(a) ==
  /\ alive
  /\ Earn(a) /\ deposited' = IF a <= deposited THEN deposited - a ELSE 0
  /\ UNCHANGED <<goods, alive, gold_bags, made, gold_made>>

\* playerWithdrawGold with decreaseGoldAccount.
WithdrawGold(a) ==
  /\ alive
  /\ LET moved == IF a <= deposited THEN a ELSE deposited
     IN Earn(moved) /\ deposited' = deposited - moved
  /\ UNCHANGED <<goods, alive, gold_bags, made, gold_made>>

-----------------------------------------------------------------------------
\* The units in the slots, and those of a type.
Held(v) == SumOver([i \in Slots |-> v.slots[i].qty])
UnitsIn(v, t) == SumOver([i \in Slots |-> IF v.slots[i].item = t THEN v.slots[i].qty ELSE 0])
Worn(t) == Cardinality({p \in Parts : equipment[p] = t})

\* onDeath: dropInventory, dropEquipment, and the gold above GoldMax.
Die ==
  /\ alive /\ alive' = FALSE
  /\ inv' = NewInventory
  /\ equipment' = [p \in Parts |-> None]
  /\ floor' = [t \in Types |-> floor[t] + UnitsIn(inv, t) + Worn(t)]
  /\ LET excess == IF getGolden > GoldMax THEN getGolden - GoldMax ELSE 0
     IN golden' = golden - excess /\ gold_bags' = gold_bags + excess
  /\ UNCHANGED <<safe_box, deposited, made, gold_made, was_rich>>

\* A priest brings the player back.
Resurrect ==
  /\ ~alive /\ alive' = TRUE
  /\ UNCHANGED <<goods, gold, made, gold_made, was_rich>>

\* A saved slot is loaded unit by unit.
loadSlot(v, s) ==
  LET after[n \in 0..s.qty] == IF n = 0 THEN v ELSE addItem(after[n - 1], s.item)
  IN after[s.qty]

\* loadingPlayerData: the saved slots are loaded in their order.
loadSlots(v) ==
  LET after[n \in 0..MaxSlots] ==
        IF n = 0 THEN NewInventory ELSE loadSlot(after[n - 1], v.slots[n])
  IN after[MaxSlots]

\* getPlayerData at the logout and loadingPlayerData at the login: units are
\* added one by one, and the gold is what getGolden told.  A dead player comes
\* back alive.
Relogin ==
  /\ inv' = loadSlots(inv)
  /\ golden' = getGolden
  /\ alive' = TRUE
  /\ UNCHANGED <<equipment, safe_box, floor, deposited, gold_bags, made, gold_made, was_rich>>

Amounts == 1..MaxGold
Loots == UNION {[1..n -> Types] : n \in 1..2}

Trade == \E t \in Types : Buy(t) \/ Sell(t)
Find ==
  \/ \E t \in Types : CreatureDropsItem(t) \/ PickUpItem(t)
  \/ \E a \in Amounts : CreatureDropsGold(a) \/ PickUpGold(a)
  \/ \E a \in Amounts, units \in Loots : OpenTreasure(a, units)
Carry == (\E i \in Slots : DropItem(i) \/ EquipItem(i)) \/ \E p \in Parts : UnequipItem(p)
Bank ==
  \/ \E t \in Types : DepositItem(t) \/ WithdrawItem(t)
  \/ \E a \in Amounts : DepositGold(a) \/ WithdrawGold(a)

Next == Trade \/ Find \/ Carry \/ Bank \/ Die \/ Resurrect \/ Relogin

Spec == Init /\ [][Next]_vars

-----------------------------------------------------------------------------
Contents == [item : Types, qty : 1..Capacity] \union {Nothing}
Inventory == [slots : [Slots -> Contents], size_current : Nat]

\* Every variable has its type: a slot never holds more than its capacity and
\* a part of the body only what is worn there.
TypeOK ==
  /\ inv \in Inventory
  /\ equipment \in [Parts -> Types \union {None}]
  /\ \A p \in Parts : equipment[p] # None => Part[equipment[p]] = p
  /\ safe_box \in [Types -> Nat] /\ floor \in [Types -> Nat]
  /\ alive \in BOOLEAN
  /\ golden \in Nat /\ deposited \in Nat /\ gold_bags \in Nat
  /\ made \in [Types -> Nat] /\ gold_made \in Nat
  /\ was_rich \in BOOLEAN

\* size_current may run ahead of what is in the slots (equipping from a stack
\* leaves it), but never behind: an inventory that holds something is not
\* taken for an empty one, and removing a unit never wraps it round.  And no
\* slot ever holds more than fits.
SizeCoversTheSlots ==
  TypeOK /\ inv.size_current >= Held(inv)

\* Every unit the game has, wherever it is.
UnitsOf(t) == UnitsIn(inv, t) + Worn(t) + safe_box[t] + floor[t]

\* No sequence of trades, deposits, swaps, deaths and logins makes a second
\* unit out of one.
NothingIsDuplicated == \A t \in Types : UnitsOf(t) <= made[t]

Missing(t) == made[t] - UnitsOf(t)

\* A unit can only be lost on its way into an inventory that says it is full,
\* or all of whose slots are taken.
LossNeedsAFullBag ==
  [][\A t \in Types : Missing(t)' > Missing(t) =>
       isInventoryFull(inv) \/ isInventoryFull(inv') \/ Holding(inv', None) = {}]_vars

\* While the gold of the player always fitted the 16 bits getGolden answers,
\* none is lost or made by trades, the bank, deaths and logins; and never is
\* any made.
GoldIsConserved ==
  /\ golden + deposited + gold_bags <= gold_made
  /\ ~was_rich => golden + deposited + gold_bags = gold_made
=============================================================================
