------------------------------ MODULE Commands ------------------------------
(***************************************************************************)
(* What becomes of what the user asks: the message that the client sends   *)
(* for a line of the chat (ChatCommandClient), the command the server      *)
(* makes of a message (ServerProtocol::readCommand), and the handler of    *)
(* Gameloop that the command calls (Command::execute).                     *)
(*                                                                         *)
(* A line is the sequence of its words, typed in lower case, and the "@"   *)
(* of a private message is a word.  A request is a message to the server:  *)
(* its opcode, the id or the slot it carries, what else it carries as      *)
(* words, and, which the code does not keep, the line it was typed as.  A  *)
(* call is a handler and what it is given besides the player.              *)
(***************************************************************************)
EXTENDS Integers, SequencesExt, TLC

CONSTANTS item_names   \* the items by their names: a function from lists of words

\* Bound: the numbers that are typed.
Numbers == 0 .. 300

Number == [word \in {ToString(n) : n \in Numbers} |-> CHOOSE n \in Numbers : ToString(n) = word]

NoNpc == -1

Request(op, id, what) == [op |-> op, id |-> id, what |-> what, line |-> <<>>]

-----------------------------------------------------------------------------
\* The client.

\* Some items have more than one name.
resolve_item_id(words) == IF words \in DOMAIN item_names THEN item_names[words] ELSE "NONE"

\* What a line asks of the npc that is selected.  "oro" is an item too.
RequestsToNpc(line, npc_id) ==
  LET rest == Tail(line)
      gold == Len(line) >= 3 /\ line[2] = "oro" /\ line[3] \in DOMAIN Number
      item == resolve_item_id(rest)
      Of(word) == Head(line) = word /\ item # "NONE"
  IN  CASE line = <<"/curar">> -> <<Request("INTERACT", npc_id, <<"heal">>)>>
        [] line = <<"/resucitar">> -> <<Request("INTERACT", npc_id, <<"resurrect">>)>>
        [] line = <<"/listar">> -> <<Request("LIST_ITEMS", npc_id, <<>>)>>
        [] Of("/comprar") -> <<Request("BUY_ITEM", npc_id, <<item>>)>>
        [] Of("/vender") -> <<Request("SELL_ITEM", npc_id, <<item>>)>>
        [] Head(line) = "/depositar" /\ gold -> <<Request("DEPOSIT_GOLD", npc_id, <<line[3]>>)>>
        [] Of("/depositar") -> <<Request("DEPOSIT_ITEM", npc_id, <<item>>)>>
        [] Head(line) = "/retirar" /\ gold -> <<Request("WITHDRAW_GOLD", npc_id, <<line[3]>>)>>
        [] Of("/retirar") -> <<Request("WITHDRAW_ITEM", npc_id, <<item>>)>>
        [] OTHER -> <<>>

\* "/tirar", and "/tirar N", which gives the slot before N in a byte.
DropRequests(line, selected_slot) ==
  IF Len(line) = 1 THEN SetToSeq({Request("DROP_ITEM", slot, <<>>) : slot \in selected_slot})
  ELSE IF line[2] \in DOMAIN Number /\ Number[line[2]] >= 1
       THEN <<Request("DROP_ITEM", (Number[line[2]] - 1) % 256, <<>>)>>
  ELSE <<>>

\* selected_slot has at most one slot.
ChatCommandClient(line, npc_id, selected_slot) ==
  LET to_npc == IF npc_id = NoNpc THEN <<>> ELSE RequestsToNpc(line, npc_id)
      requests == CASE to_npc # <<>> -> to_npc
                    [] to_npc = <<>> /\ line = <<"/tomar">> -> <<Request("TAKE_ITEM", 0, <<>>)>>
                    [] to_npc = <<>> /\ Head(line) = "/tirar" -> DropRequests(line, selected_slot)
                    [] OTHER -> <<Request("CHAT", 0, line)>>
  IN  [i \in DOMAIN requests |-> [requests[i] EXCEPT !.line = line]]

-----------------------------------------------------------------------------
\* The server: Command::execute of each command.

Call(handler, id, what) == [handler |-> handler, id |-> id, what |-> what]

MoveCommand(id, what) == Call("processMovePlayer", id, what)

AttackCommand(id, what) == Call("executeAttackPlayer", id, what)

\* Nothing is called.
UseItemCommand(id, what) == Call("none", id, what)

DropItemCommand(id, what) == Call("processPlayerDropItem", id, what)

InteractCommand(id, what) == Call("processPlayerInteract", id, what)

ResurrectCommand(id, what) == Call("processPlayerResurrect", id, what)

TakeItemCommand(id, what) == Call("processPlayerPickUp", id, what)

BuyItemCommand(id, what) == Call("processBuyItem", id, what)

SellItemCommand(id, what) == Call("processSellItem", id, what)

DepositItemCommand(id, what) == Call("processPlayerDepositItem", id, what)

WithdrawItemCommand(id, what) == Call("processPlayerWithdrawItem", id, what)

\* Mutant: copied from the withdrawal.
DepositCopied(id, what) == Call("processPlayerWithdrawGold", id, what)

DepositGoldCommand(id, what) == Call("processPlayerDepositGold", id, what)

WithdrawGoldCommand(id, what) == Call("processPlayerWithdrawGold", id, what)

ListItemsCommand(id, what) == Call("processListItems", id, what)

EquipCommand(id, what) == Call("processPlayerEquipItem", id, what)

CommandUnequip(id, what) == Call("processPlayerUnequipItem", id, what)

DisconnectCommand(id, what) == Call("processPlayerDisconnet", id, what)

LoginCommand(id, what) == Call("processHandleLogin", id, what)

SignupCommand(id, what) == Call("processHandleSignup", id, what)

MeditateCommand == Call("processPlayerMeditate", 0, <<>>)

ClanFoundCommand(name) == Call("processClanFound", 0, name)

ClanJoinCommand(name) == Call("processClanJoin", 0, name)

ClanReviewCommand == Call("processClanReview", 0, <<>>)

ClanAcceptCommand(nick) == Call("processClanAccept", 0, nick)

ClanRejectCommand(nick) == Call("processClanReject", 0, nick)

ClanBanCommand(nick) == Call("processClanBan", 0, nick)

ClanKickCommand(nick) == Call("processClanKick", 0, nick)

ClanLeaveCommand == Call("processClanLeave", 0, <<>>)

ClanListCommand == Call("processClanList", 0, <<>>)

\* A private message without a text is dropped, and so is nothing else: a command
\* that lacks its name, or has one too many, is said aloud.
ChatCommand(line) ==
  LET rest == Tail(line)
      Named(word) == Head(line) = word /\ rest # <<>>
  IN  CASE Head(line) = "@" /\ Len(line) > 2 ->
             Call("processDirectChatByName", 0, rest)
        [] Head(line) = "@" /\ Len(line) <= 2 -> Call("none", 0, <<>>)
        [] line = <<"/meditar">> -> MeditateCommand
        [] line = <<"/resucitar">> -> ResurrectCommand(NoNpc, <<>>)
        [] line = <<"/debug_morir">> -> Call("processPlayerDebugKill", 0, <<>>)
        [] line = <<"/debug_vida_infinita">> -> Call("processPlayerToggleInfiniteHp", 0, <<>>)
        [] line = <<"/debug_mana_infinito">> -> Call("processPlayerToggleInfiniteMana", 0, <<>>)
        [] Named("/fundar-clan") -> ClanFoundCommand(rest)
        [] Named("/unirse") -> ClanJoinCommand(rest)
        [] line = <<"/revisar-clan">> -> ClanReviewCommand
        [] Named("/clan-aceptar") -> ClanAcceptCommand(rest)
        [] Named("/clan-rechazar") -> ClanRejectCommand(rest)
        [] Named("/clan-ban") -> ClanBanCommand(rest)
        [] Named("/clan-kick") -> ClanKickCommand(rest)
        [] line = <<"/dejar-clan">> -> ClanLeaveCommand
        [] line = <<"/listar-clanes">> -> ClanListCommand
        [] OTHER -> Call("processBroadcastChat", 0, line)

\* The command that readCommand makes of a request, executed.
executed(r) ==
  CASE r.op = "MOVE" -> MoveCommand(r.id, r.what)
    [] r.op = "ATTACK" -> AttackCommand(r.id, r.what)
    [] r.op \in {"CHAT", "COMMAND"} -> ChatCommand(r.what)
    [] r.op = "USE_ITEM" -> UseItemCommand(r.id, r.what)
    [] r.op = "DROP_ITEM" -> DropItemCommand(r.id, r.what)
    [] r.op = "INTERACT" /\ r.what = <<"resurrect">> -> ResurrectCommand(r.id, <<>>)
    [] r.op = "INTERACT" /\ r.what # <<"resurrect">> -> InteractCommand(r.id, r.what)
    [] r.op = "RESURRECT" -> ResurrectCommand(NoNpc, <<>>)
    [] r.op = "TAKE_ITEM" -> TakeItemCommand(r.id, r.what)
    [] r.op = "BUY_ITEM" -> BuyItemCommand(r.id, r.what)
    [] r.op = "SELL_ITEM" -> SellItemCommand(r.id, r.what)
    [] r.op = "DEPOSIT_ITEM" -> DepositItemCommand(r.id, r.what)
    [] r.op = "WITHDRAW_ITEM" -> WithdrawItemCommand(r.id, r.what)
    [] r.op = "DEPOSIT_GOLD" -> DepositGoldCommand(r.id, r.what)
    [] r.op = "WITHDRAW_GOLD" -> WithdrawGoldCommand(r.id, r.what)
    [] r.op = "LIST_ITEMS" -> ListItemsCommand(r.id, r.what)
    [] r.op = "EQUIP_ITEM" -> EquipCommand(r.id, r.what)
    [] r.op = "UNEQUIP_ITEM" -> CommandUnequip(r.id, r.what)
    [] r.op = "LOGIN" -> LoginCommand(r.id, r.what)
    [] r.op = "SIGNUP" -> SignupCommand(r.id, r.what)
    [] r.op = "DISCONNECT" -> DisconnectCommand(r.id, r.what)
=============================================================================
