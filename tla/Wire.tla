-------------------------------- MODULE Wire --------------------------------
(***************************************************************************)
(* The binary protocol: what ClientProtocol and ServerProtocol write for   *)
(* each message and what the other one reads.                              *)
(*                                                                         *)
(* Both ends use packed structs and there is no length in front of a       *)
(* message, so a reader that takes one byte more or less than was written  *)
(* reads everything after it wrong.  A field is its name, its bytes and    *)
(* whether it is in network order.  What is written is a sequence of       *)
(* fields.  What is read is a sequence of groups, one for each call to     *)
(* recvall: a connection that ends between two groups makes the rest       *)
(* return 0, which nearly no reader looks at, and one that ends inside a   *)
(* group throws.                                                           *)
(*                                                                         *)
(* Texts and lists are as long as the shape of the message says.           *)
(***************************************************************************)
EXTENDS Integers, SequencesExt

Host(name, width) == <<name, width, FALSE>>
Net(name, width) == <<name, width, TRUE>>

\* A struct some of whose fields were converted with hton or ntoh.
Converted(struct, names) ==
  [i \in DOMAIN struct |-> IF struct[i][1] \in names THEN Net(struct[i][1], struct[i][2])
                                                      ELSE struct[i]]

\* What a loop writes: n times the same fields.
Times(n, fields) == FlattenSeq([i \in 1 .. n |-> fields])

\* What a loop reads: n times the same groups.
Loop(n, groups) == Times(n, groups)

-----------------------------------------------------------------------------
\* The packed structs.

Position == <<Host("x", 4), Host("y", 4)>>

PlayerStats ==
  <<Host("level", 1), Host("xp", 4), Host("current_hp", 2), Host("max_hp", 2),
    Host("current_mana", 2), Host("max_mana", 2), Host("safe_gold", 4), Host("excess_gold", 4)>>

CharacterTraits == <<Host("head", 2), Host("body", 2), Host("race", 1), Host("clase", 1)>>

PlayerSnapshotData ==
  <<Host("name", 30), Host("id", 4)>> \o Position \o <<Host("direction", 1)>>
    \o PlayerStats \o CharacterTraits
    \o <<Host("weapon_id", 1), Host("shield_id", 1), Host("helmet_id", 1), Host("armor_id", 1),
         Host("flags", 1), Host("resurrection_time_left_ms", 2)>>

CitizenNpcSnapshot ==
  <<Host("name", 30), Host("id", 4), Host("type", 1)>> \o Position \o <<Host("direction", 1)>>

NpcSnapshotData ==
  <<Host("name", 30), Host("id", 4), Host("type_id", 1)>> \o Position
    \o <<Host("direction", 1), Host("current_hp", 2), Host("max_hp", 2)>>

ItemGroundSnapshotData == <<Host("item_id", 1)>> \o Position

SoundEffectSnapshotData == <<Host("effect_id", 2), Host("pos_x", 4), Host("pos_y", 4)>>

VisualEffectSnapshotData ==
  <<Host("effect_id", 2), Host("recipient_id", 4), Host("pos_x", 4), Host("pos_y", 4)>>

MsgSlot == <<Host("slot_index", 1), Host("type_item", 1), Host("quantity", 2)>>

MsgPlayerStats ==
  <<Host("PLAYER_STATS", 1), Host("hp", 4), Host("max_hp", 4), Host("mana", 4),
    Host("max_mana", 4), Host("safe_gold", 4), Host("excess_gold", 4), Host("exp", 4),
    Host("exp_next_level", 4), Host("level", 1)>>

MsgLogin == <<Host("LOGIN", 1), Host("name", 30), Host("pass", 30)>>

MsgMove == <<Host("MOVE", 1), Host("direction", 1)>>

MsgAttack == <<Host("ATTACK", 1), Host("target_id", 4)>>

MsgSlotItem(opcode) == <<Host(opcode, 1), Host("instance_id", 4)>>

MsgInteract == <<Host("INTERACT", 1), Host("npc_id", 4), Host("action", 1)>>

MsgTrade(opcode) ==
  <<Host(opcode, 1), Host("npc_id", 4), Host("item_id", 1), Host("quantity", 2)>>

MsgSignup == <<Host("SIGNUP", 1), Host("user", 30), Host("password", 30)>> \o CharacterTraits

-----------------------------------------------------------------------------
\* What ServerProtocol writes.

\* A text and its length, as both ends write it.
Text(length) == <<Net("len", 2)>> \o IF length = 0 THEN <<>> ELSE <<Host("text", length)>>

makeTextResponse(opcode, length) == <<Host(opcode, 1)>> \o Text(length)

appendPlayers(n) ==
  <<Net("players", 2)>> \o
    Times(n, Converted(PlayerSnapshotData,
                       {"id", "x", "y", "max_hp", "current_hp", "current_mana", "max_mana", "xp",
                        "body", "head", "resurrection_time_left_ms"}))

appendNpcs(n) ==
  <<Net("npcs", 2)>> \o
    Times(n, Converted(NpcSnapshotData, {"id", "x", "y", "current_hp", "max_hp"}))

appendItems(n) == <<Net("items", 2)>> \o Times(n, Converted(ItemGroundSnapshotData, {"x", "y"}))

appendSoundEffects(n) ==
  <<Net("sounds", 2)>> \o
    Times(n, Converted(SoundEffectSnapshotData, {"effect_id", "pos_x", "pos_y"}))

appendVisualEffects(n) ==
  <<Net("visuals", 2)>> \o
    Times(n, Converted(VisualEffectSnapshotData, {"effect_id", "recipient_id", "pos_x", "pos_y"}))

\* The counts of a snapshot are those of its five lists, in this order.
sendSnapshot(n) ==
  <<Host("SNAPSHOT", 1)>> \o appendPlayers(n[1]) \o appendNpcs(n[2]) \o appendItems(n[3])
    \o appendSoundEffects(n[4]) \o appendVisualEffects(n[5])

sendPlayerStats ==
  Converted(MsgPlayerStats, {"hp", "max_hp", "mana", "max_mana", "safe_gold", "excess_gold",
                             "exp", "exp_next_level"})

makeSlotsUpdate(opcode, n) ==
  <<Host(opcode, 1), Net("slots", 2)>> \o Times(n, Converted(MsgSlot, {"quantity"}))

sendSimpleResponse(opcode, length) == <<Host(opcode, 1), Host("success", 1)>> \o Text(length)

\* Two calls to sendall, with no other message between them.
sendLoginResponse(length) ==
  sendSimpleResponse("LOGIN_RESPONSE", length) \o <<Net("player_id", 4)>>

sendChangeMap == <<Host("CHANGE_MAP", 1), Net("map_id", 2)>>

appendMapTiles(w, h) ==
  Times(4 * w * h, <<Net("sprite_id", 4), Host("walkable", 1), Host("region", 1)>>)

appendCitizens(n) ==
  <<Net("citizens", 2)>> \o Times(n, Converted(CitizenNpcSnapshot, {"id", "x", "y"}))

\* A map is width, height and the number of citizens.
sendMap(n) ==
  <<Host("MAP_DATA", 1), Net("width", 4), Net("height", 4)>>
    \o appendMapTiles(n[1], n[2]) \o appendCitizens(n[3])

sendTraderCatalog(n) ==
  <<Host("TRADER_CATALOG", 1), Net("total", 2)>>
    \o Times(n, <<Host("type", 1), Net("purchase_price", 4), Net("selling_price", 4)>>)

\* Mutant: the gold after the items.
sendBankContentLast(n) ==
  <<Host("BANK_CONTENT", 1), Net("total", 2)>>
    \o Times(n, <<Host("type", 1), Net("amount", 4)>>) \o <<Net("gold", 4)>>

sendBankContent(n) ==
  <<Host("BANK_CONTENT", 1), Net("gold", 4), Net("total", 2)>>
    \o Times(n, <<Host("type", 1), Net("amount", 4)>>)

-----------------------------------------------------------------------------
\* What ClientProtocol reads.

recvText(length) == <<<<Net("len", 2)>>>> \o IF length = 0 THEN <<>> ELSE <<<<Host("text", length)>>>>

receivePlayers(n) ==
  <<<<Net("players", 2)>>>> \o
    Loop(n, <<Converted(PlayerSnapshotData,
                        {"id", "x", "y", "max_hp", "current_hp", "current_mana", "max_mana", "xp",
                         "body", "head", "resurrection_time_left_ms"})>>)

receiveNpcs(n) ==
  <<<<Net("npcs", 2)>>>> \o
    Loop(n, <<Converted(NpcSnapshotData, {"id", "x", "y", "current_hp", "max_hp"})>>)

receiveItemsOnFloor(n) ==
  <<<<Net("items", 2)>>>> \o Loop(n, <<Converted(ItemGroundSnapshotData, {"x", "y"})>>)

receiveSoundEffects(n) ==
  <<<<Net("sounds", 2)>>>> \o
    Loop(n, <<Converted(SoundEffectSnapshotData, {"effect_id", "pos_x", "pos_y"})>>)

receiveVisualEffects(n) ==
  <<<<Net("visuals", 2)>>>> \o
    Loop(n, <<Converted(VisualEffectSnapshotData,
                        {"effect_id", "recipient_id", "pos_x", "pos_y"})>>)

receiveSnapshot(n) ==
  receivePlayers(n[1]) \o receiveNpcs(n[2]) \o receiveItemsOnFloor(n[3])
    \o receiveSoundEffects(n[4]) \o receiveVisualEffects(n[5])

receivePlayerStats ==
  <<<<Net("hp", 4)>>, <<Net("max_hp", 4)>>, <<Net("mana", 4)>>, <<Net("max_mana", 4)>>,
    <<Net("safe_gold", 4)>>, <<Net("excess_gold", 4)>>, <<Net("exp", 4)>>,
    <<Net("exp_next_level", 4)>>, <<Host("level", 1)>>>>

receiveLoginResponse(length) ==
  <<<<Host("success", 1)>>>> \o recvText(length) \o <<<<Net("player_id", 4)>>>>

receiveMapData(n) ==
  <<<<Net("width", 4)>>, <<Net("height", 4)>>>>
    \o Loop(4 * n[1] * n[2], <<<<Net("sprite_id", 4)>>, <<Host("walkable", 1)>>, <<Host("region", 1)>>>>)
    \o <<<<Net("citizens", 2)>>>> \o Loop(n[3], <<Converted(CitizenNpcSnapshot, {"id", "x", "y"})>>)

receiveSlots(n) == <<<<Net("slots", 2)>>>> \o Loop(n, <<Converted(MsgSlot, {"quantity"})>>)

receiveTraderCatalog(n) ==
  <<<<Net("total", 2)>>>>
    \o Loop(n, <<<<Host("type", 1)>>, <<Net("purchase_price", 4)>>, <<Net("selling_price", 4)>>>>)

receiveBankContent(n) ==
  <<<<Net("gold", 4)>>, <<Net("total", 2)>>>> \o Loop(n, <<<<Host("type", 1)>>, <<Net("amount", 4)>>>>)

\* The menu reads the answer to a login without the player_id at its end.
recvResponse(opcode, length) == <<<<Host(opcode, 1)>>, <<Host("success", 1)>>>> \o recvText(length)

-----------------------------------------------------------------------------
\* The messages of the server.

ToClient ==
  {"LOGIN_RESPONSE", "SNAPSHOT", "CHANGE_MAP", "PLAYER_STATS", "INVENTORY_UPDATE", "CHAT_MSG",
   "ACTION_ERROR", "MAP_DATA", "TRADER_CATALOG", "BANK_CONTENT", "EQUIPMENT_UPDATE"}

\* Bound: lists and texts of up to two, maps of up to two tiles.
Shapes(opcode) ==
  CASE opcode = "SNAPSHOT" -> [1 .. 5 -> 0 .. 1] \cup {<<2, 2, 2, 2, 2>>}
    [] opcode = "MAP_DATA" -> {<<1, 1, 0>>, <<2, 1, 0>>, <<1, 2, 2>>}
    [] OTHER -> {<<n>> : n \in 0 .. 2}

ServerWrites(opcode, n) ==
  CASE opcode = "SNAPSHOT" -> sendSnapshot(n)
    [] opcode = "PLAYER_STATS" -> sendPlayerStats
    [] opcode = "LOGIN_RESPONSE" -> sendLoginResponse(n[1])
    [] opcode = "CHANGE_MAP" -> sendChangeMap
    [] opcode \in {"CHAT_MSG", "ACTION_ERROR"} -> makeTextResponse(opcode, n[1])
    [] opcode = "MAP_DATA" -> sendMap(n)
    [] opcode \in {"INVENTORY_UPDATE", "EQUIPMENT_UPDATE"} -> makeSlotsUpdate(opcode, n[1])
    [] opcode = "TRADER_CATALOG" -> sendTraderCatalog(n[1])
    [] opcode = "BANK_CONTENT" -> sendBankContent(n[1])

\* ClientProtocol::receiveMessage: the opcode, and what it says there is.
receiveMessage(opcode, n) ==
  <<<<Host(opcode, 1)>>>> \o
    CASE opcode = "SNAPSHOT" -> receiveSnapshot(n)
      [] opcode = "PLAYER_STATS" -> receivePlayerStats
      [] opcode = "LOGIN_RESPONSE" -> receiveLoginResponse(n[1])
      [] opcode = "CHANGE_MAP" -> <<<<Net("map_id", 2)>>>>
      [] opcode \in {"CHAT_MSG", "ACTION_ERROR"} -> recvText(n[1])
      [] opcode = "MAP_DATA" -> receiveMapData(n)
      [] opcode \in {"INVENTORY_UPDATE", "EQUIPMENT_UPDATE"} -> receiveSlots(n[1])
      [] opcode = "TRADER_CATALOG" -> receiveTraderCatalog(n[1])
      [] opcode = "BANK_CONTENT" -> receiveBankContent(n[1])

-----------------------------------------------------------------------------
\* The messages of the client.

makeTextMessage(opcode, length) == <<Host(opcode, 1)>> \o Text(length)

makeNpcItemMessage(opcode) == <<Host(opcode, 1), Net("npc_id", 4), Net("item_id", 2)>>

makeNpcAmountMessage(opcode) == <<Host(opcode, 1), Net("npc_id", 4), Net("amount", 4)>>

makeIdMessage(opcode) == <<Host(opcode, 1), Net("id", 4)>>

ToServer ==
  {"LOGIN", "SIGNUP", "MOVE", "ATTACK", "CHAT", "COMMAND", "USE_ITEM", "DROP_ITEM", "INTERACT",
   "TAKE_ITEM", "BUY_ITEM", "SELL_ITEM", "DISCONNECT", "LIST_ITEMS", "DEPOSIT_ITEM",
   "WITHDRAW_ITEM", "DEPOSIT_GOLD", "WITHDRAW_GOLD", "EQUIP_ITEM", "UNEQUIP_ITEM", "RESURRECT"}

ClientWrites(opcode, n) ==
  CASE opcode = "LOGIN" -> MsgLogin
    [] opcode = "SIGNUP" -> Converted(MsgSignup, {"head", "body"})
    [] opcode = "MOVE" -> MsgMove
    [] opcode = "ATTACK" -> Converted(MsgAttack, {"target_id"})
    [] opcode \in {"CHAT", "COMMAND"} -> makeTextMessage(opcode, n[1])
    [] opcode \in {"USE_ITEM", "DROP_ITEM"} -> Converted(MsgSlotItem(opcode), {"instance_id"})
    [] opcode = "INTERACT" -> Converted(MsgInteract, {"npc_id"})
    [] opcode \in {"TAKE_ITEM", "DISCONNECT", "RESURRECT"} -> <<Host(opcode, 1)>>
    [] opcode \in {"BUY_ITEM", "SELL_ITEM"} -> Converted(MsgTrade(opcode), {"npc_id", "quantity"})
    [] opcode \in {"DEPOSIT_ITEM", "WITHDRAW_ITEM"} -> makeNpcItemMessage(opcode)
    [] opcode \in {"DEPOSIT_GOLD", "WITHDRAW_GOLD"} -> makeNpcAmountMessage(opcode)
    [] opcode \in {"LIST_ITEMS", "EQUIP_ITEM", "UNEQUIP_ITEM"} -> makeIdMessage(opcode)

\* How long a thing is taken to be, and nothing else, by who does not use it.
Unused(width) == <<"unused", width, FALSE>>

pushTradeCommand == <<<<Net("npc_id", 4)>>, <<Host("item_id", 1)>>, <<Unused(2)>>>>

pushItemBankCommand == <<<<Net("npc_id", 4)>>, <<Net("item_id", 2)>>>>

pushGoldBankCommand == <<<<Net("npc_id", 4)>>, <<Net("amount", 4)>>>>

\* ServerProtocol::readCommand.  It reads structs one field at a time.
readCommand(opcode, n) ==
  <<<<Host(opcode, 1)>>>> \o
    CASE opcode = "LOGIN" -> <<<<Host("name", 30)>>, <<Host("pass", 30)>>>>
      [] opcode = "SIGNUP" ->
           <<<<Host("user", 30)>>, <<Host("password", 30)>>, <<Net("head", 2)>>, <<Net("body", 2)>>,
             <<Host("race", 1)>>, <<Host("clase", 1)>>>>
      [] opcode = "MOVE" -> <<<<Host("direction", 1)>>>>
      [] opcode = "ATTACK" -> <<<<Net("target_id", 4)>>>>
      [] opcode \in {"CHAT", "COMMAND"} -> recvText(n[1])
      [] opcode \in {"USE_ITEM", "DROP_ITEM"} -> <<<<Net("instance_id", 4)>>>>
      [] opcode = "INTERACT" -> <<<<Net("npc_id", 4)>>, <<Host("action", 1)>>>>
      [] opcode \in {"TAKE_ITEM", "DISCONNECT", "RESURRECT"} -> <<>>
      [] opcode \in {"BUY_ITEM", "SELL_ITEM"} -> pushTradeCommand
      [] opcode \in {"DEPOSIT_ITEM", "WITHDRAW_ITEM"} -> pushItemBankCommand
      [] opcode \in {"DEPOSIT_GOLD", "WITHDRAW_GOLD"} -> pushGoldBankCommand
      [] opcode \in {"LIST_ITEMS", "EQUIP_ITEM", "UNEQUIP_ITEM"} -> <<<<Net("id", 4)>>>>

-----------------------------------------------------------------------------
\* What becomes of a message.

\* The reader takes what was written, in the same widths, places and order of bytes.
InStep(groups, written) ==
  LET read == FlattenSeq(groups)
  IN  /\ Len(read) = Len(written)
      /\ \A i \in DOMAIN read :
           IF read[i][1] = "unused" THEN read[i][2] = written[i][2] ELSE read[i] = written[i]

ReadInStep ==
  {o \in ToClient : \A n \in Shapes(o) : InStep(receiveMessage(o, n), ServerWrites(o, n))}
    \cup {o \in ToServer : \A n \in Shapes(o) : InStep(readCommand(o, n), ClientWrites(o, n))}

\* The answers of the menu, of which one leaves an id unread.
AnswersInStep ==
  {o \in {"LOGIN_RESPONSE", "SIGNUP_RESPONSE"} : \A n \in 0 .. 2 :
     InStep(recvResponse(o, n), sendSimpleResponse(o, n))}

\* What comes of a message whose end never comes.  Between two groups the next recvall
\* returns 0, and the rest of the message is whatever was in memory; inside a group it
\* throws, and so may the measures of a map that were not read.
Cut(groups) ==
  {outcome \in {"garbage", "error"} :
     \/ outcome = "garbage" /\ Len(groups) > 1
     \/ outcome = "error" /\ \E i \in DOMAIN groups : Len(groups[i]) > 1 \/ groups[i][1][2] > 1}

\* A list of slots whose length did not come ends the reading, with the event of an
\* update in the hands of the caller.
CutSlots(groups) == {"no_slots"} \cup Cut(Tail(groups))

CutToClient ==
  [o \in ToClient |->
     UNION {IF o \in {"INVENTORY_UPDATE", "EQUIPMENT_UPDATE"}
            THEN CutSlots(receiveMessage(o, n)) ELSE Cut(receiveMessage(o, n)) : n \in Shapes(o)}]
=============================================================================
