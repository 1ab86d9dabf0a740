------------------------------- MODULE Client -------------------------------
(***************************************************************************)
(* The game client: its login, its game loop, its threads and its end, and *)
(* the menu that signs up and tries a login for the launcher.              *)
(*                                                                         *)
(* main handles the login by itself, then starts a ClientReceiver, which   *)
(* turns messages into events, and a ClientSender, which takes commands    *)
(* from a queue to the socket.  Every frame main drains the events, reads  *)
(* the input and moves what is drawn.                                      *)
(*                                                                         *)
(* The server is what it writes, in order, from Gameloop: to_client is its *)
(* queue of responses and the wire together.  It may go at any time, which *)
(* loses what it had not written and may cut the message it was writing.   *)
(* Wire says what the two protocols make of a message, Commands what a     *)
(* request of the user asks for, View what the client shows.               *)
(***************************************************************************)
EXTENDS Wire, Commands, View

CONSTANTS
  Me,          \* the id the server gives to the player
  Citizens,    \* the citizens of the map: a function from their ids to tiles
  Snapshots,   \* the snapshots the server may send
  Slots,       \* what an inventory or an equipment may hold: at the login, Slots[1]
  Texts,       \* texts of the chat that the game writes
  Spoken,      \* those of the players, with a ": " after the name
  Lists,       \* lists the server may send: "TRADER_CATALOG" or "BANK_CONTENT"
  Lines,       \* what the user may type
  DebugWords,  \* the debug commands whose keys the user presses
  MaxSteps     \* bound: messages of the server besides its answers, and inputs of the user

ASSUME ClientAssumption ==
  /\ DOMAIN Citizens \subseteq Nat
  /\ Lists \subseteq {"TRADER_CATALOG", "BANK_CONTENT"}
  /\ 1 \in DOMAIN Slots /\ \A i \in DOMAIN Slots : DOMAIN Slots[i] \subseteq Int
  /\ 0 \notin DOMAIN Snapshots
  /\ \A i \in DOMAIN Snapshots :
       /\ DOMAIN Snapshots[i].players \subseteq Ids /\ DOMAIN Snapshots[i].npcs \subseteq Ids
       /\ DOMAIN Snapshots[i].items_on_floor \subseteq Tiles
       /\ Snapshots[i].sound_effects \in Seq(Range(Snapshots[i].sound_effects))

VARIABLES
  mode,               \* what the program was started for: a game or a menu's request
  main, receiver, sender,
  is_running,
  events_queue, cmd_queue, queues_closed,
  to_client, to_server,
  conn, err,          \* the connection, and the error that waits in the socket
  view, chat,         \* what is shown, and what is selected
  server, steps

vars == <<mode, main, receiver, sender, is_running, events_queue, cmd_queue, queues_closed,
          to_client, to_server, conn, err, view, chat, server, steps>>

threads == <<receiver, sender>>
queues == <<events_queue, cmd_queue, queues_closed>>
wire == <<to_client, to_server, conn, err>>
screen == <<view, chat>>
peer == <<server, steps>>

\* How the program ends: in order, with a failed login, by std::terminate because
\* threads are not joined, or with what the menu tells the launcher.
Over == {"ended", "failed", "aborted", "accepted", "refused"}

Message(op, arg) == [op |-> op, arg |-> arg, cut |-> FALSE]

-----------------------------------------------------------------------------
\* The server.

\* Mutant: the slots before the answer.
LoginWithSlotsFirst(ok) ==
  IF ok THEN <<Message("INVENTORY_UPDATE", 1), Message("EQUIPMENT_UPDATE", 1),
               Message("LOGIN_RESPONSE", 1), Message("MAP_DATA", 0)>>
  ELSE <<Message("LOGIN_RESPONSE", 0)>>

\* What Gameloop::processHandleLogin queues, all of it in one tick, if nothing throws.
processHandleLogin(ok) ==
  IF ok THEN <<Message("LOGIN_RESPONSE", 1), Message("MAP_DATA", 0),
               Message("INVENTORY_UPDATE", 1), Message("EQUIPMENT_UPDATE", 1)>>
  ELSE <<Message("LOGIN_RESPONSE", 0)>>

processHandleSignup(ok) == <<Message("SIGNUP_RESPONSE", IF ok THEN 1 ELSE 0)>>

\* Gameloop takes the commands of a tick.  A login or a signup is the first of its
\* connection, and only these are answered here.  A login gets no answer if a notice to
\* a clan mate throws before it: the player is in the game, and its client waits.
ServerReads ==
  /\ conn = "open" /\ to_server # <<>>
  /\ to_server' = <<>>
  /\ \/ Head(to_server).op # "SIGNUP" /\ UNCHANGED <<to_client, server>>
     \/ /\ Head(to_server).op \in {"LOGIN", "SIGNUP"}
        /\ \E ok \in BOOLEAN :
             /\ to_client' = to_client \o (IF Head(to_server).op = "LOGIN" THEN processHandleLogin(ok)
                                           ELSE processHandleSignup(ok))
             /\ server' = [answer |-> IF ok THEN "accepted" ELSE "refused", snapshot |-> 0,
                           inventory |-> 1, equipment |-> 1, text |-> "none"]
  /\ UNCHANGED <<mode, main, is_running, conn, err, steps, threads, queues, screen>>

\* MonitorQueues::executeBroadcast, which reaches connections with no player too.
ServerBroadcasts(i) ==
  /\ conn = "open" /\ steps < MaxSteps /\ main \notin Over
  /\ to_client' = Append(to_client, Message("SNAPSHOT", i))
  /\ server' = [server EXCEPT !.snapshot = i]
  /\ steps' = steps + 1
  /\ UNCHANGED <<mode, main, is_running, to_server, conn, err, threads, queues, screen>>

\* sendUpdateInventoryToPlayer and sendUpdateEquipmentToPlayer, of other slots.
UpdatesOfSlots ==
  {Message(op, i) : op \in {"INVENTORY_UPDATE", "EQUIPMENT_UPDATE"}, i \in DOMAIN Slots \ {1}}

\* sendCombatMessage, and what other handlers tell one player.
sendCombatMessage == {Message("CHAT_MSG", text) : text \in Texts}

\* processBroadcastChat and processDirectChat: to all, or to the two it is between.
processBroadcastChat == {Message("CHAT_MSG", text) : text \in Spoken}

\* The catalog of a trader or the content of a bank, here of one thing.
processListItems == {Message(op, 1) : op \in Lists}

\* What else the server sends to a player whose login was answered.
ServerSends(m) ==
  /\ conn = "open" /\ steps < MaxSteps /\ main \notin Over
  /\ mode = "GAME" /\ server.answer = "accepted"
  /\ to_client' = Append(to_client, m)
  /\ server' = CASE m.op = "INVENTORY_UPDATE" -> [server EXCEPT !.inventory = m.arg]
                 [] m.op = "EQUIPMENT_UPDATE" -> [server EXCEPT !.equipment = m.arg]
                 [] m.op = "CHAT_MSG" -> [server EXCEPT !.text = m.arg]
                 [] OTHER -> server
  /\ steps' = steps + 1
  /\ UNCHANGED <<mode, main, is_running, to_server, conn, err, threads, queues, screen>>

\* The server closes the connection or dies.  Its kernel ends the stream in order if
\* all that came was read, and resets it if not.
ServerGoes ==
  /\ conn = "open" /\ main \notin Over
  /\ conn' = IF to_server = <<>> THEN "fin" ELSE "reset"
  /\ err' = IF to_server = <<>> THEN "none" ELSE "reset"
  /\ \E n \in 0 .. Len(to_client), cut \in BOOLEAN :
       /\ cut => n > 0
       /\ to_client' = [i \in 1 .. n |-> [to_client[i] EXCEPT !.cut = cut /\ i = n]]
  /\ to_server' = <<>>
  /\ UNCHANGED <<mode, main, is_running, threads, queues, screen, peer>>

-----------------------------------------------------------------------------
\* The socket.

\* A message sent to a server that is gone is answered with a reset, and the error it
\* leaves is that of a broken pipe.
Send(m) ==
  \/ conn = "open" /\ to_server' = Append(to_server, m) /\ UNCHANGED <<to_client, conn, err>>
  \/ /\ conn = "fin" /\ conn' \in {"fin", "reset"}
     /\ err' = IF conn' = "reset" THEN "pipe" ELSE err
     /\ UNCHANGED <<to_client, to_server>>
  \/ conn = "reset" /\ err # "reset" /\ err' = "none" /\ UNCHANGED <<to_client, to_server, conn>>
  \/ conn = "closed" /\ UNCHANGED wire

\* sendsome takes a broken pipe for a send of 0 bytes, and throws anything else.
SendThrows ==
  \/ conn = "reset" /\ err = "reset" /\ err' = "none" /\ UNCHANGED <<to_client, to_server, conn>>
  \/ conn = "closed" /\ UNCHANGED wire

\* An event as receiveMessage returns it, with true or false.
Event(op, arg, more) == [op |-> op, arg |-> arg, more |-> more]

\* A message whose end never comes.
Torn(m) ==
  IF err # "none" THEN {Event("error", 0, FALSE)}
  ELSE {CASE outcome = "garbage" -> Event("garbage", 0, TRUE)
          [] outcome = "error" -> Event("error", 0, FALSE)
          [] outcome = "no_slots" -> Event(m.op, 0, FALSE) : outcome \in CutToClient[m.op]}

\* What ClientProtocol::receiveMessage may return or throw now; nothing if it waits.
Receivable ==
  IF to_client # <<>>
  THEN LET m == Head(to_client)
       IN  IF m.cut THEN Torn(m)
           ELSE IF m.op \in ReadInStep THEN {Event(m.op, m.arg, TRUE)}
           ELSE {Event("garbage", 0, TRUE)}
  ELSE IF conn = "open" THEN {}
  ELSE IF conn = "closed" THEN {Event("error", 0, FALSE), Event("DISCONNECTION", 0, FALSE)}
  ELSE {IF err # "none" THEN Event("error", 0, FALSE) ELSE Event("DISCONNECTION", 0, FALSE)}

Receive(e) ==
  /\ e \in Receivable
  /\ to_client' = IF to_client = <<>> THEN <<>> ELSE Tail(to_client)
  /\ err' = IF e.op = "error" THEN "none" ELSE err
  /\ UNCHANGED <<to_server, conn>>

-----------------------------------------------------------------------------
\* The threads.

\* ClientReceiver::recvEventClient: a read, and the push of what was read.  An end
\* pushes its event too, whatever its type is by then, and throws.
recvEventClient ==
  /\ receiver = "running" /\ main \notin Over
  /\ \E e \in Receivable :
       /\ Receive(e)
       /\ events_queue' = IF queues_closed \/ e.op = "error" THEN events_queue
                          ELSE Append(events_queue, e)
       /\ receiver' = IF e.more /\ ~queues_closed THEN "running" ELSE "exited"
  /\ UNCHANGED <<mode, main, sender, is_running, cmd_queue, queues_closed, screen, peer>>

\* ClientSender::sendCmd: a pop, and the send of the command.
sendCmd ==
  /\ sender = "running" /\ main \notin Over /\ cmd_queue # <<>>
  /\ cmd_queue' = Tail(cmd_queue)
  /\ \/ Send(Head(cmd_queue)) /\ sender' = IF queues_closed THEN "exited" ELSE "running"
     \/ SendThrows /\ sender' = "exited"
  /\ UNCHANGED <<mode, main, receiver, is_running, events_queue, queues_closed, screen, peer>>

\* pop throws ClosedQueue.
SenderEnds ==
  /\ sender = "running" /\ cmd_queue = <<>> /\ queues_closed
  /\ sender' = "exited"
  /\ UNCHANGED <<mode, main, receiver, is_running, queues, wire, screen, peer>>

-----------------------------------------------------------------------------
\* The login of the game.

\* Client::handle_login_sequence up to its loop.  A game without a user skips it.
sendLogin ==
  /\ main = "login"
  /\ \/ Send(Request("LOGIN", 0, <<>>)) /\ main' = "waiting"
     \/ SendThrows /\ main' = "closing"
  /\ UNCHANGED <<mode, is_running, threads, queues, screen, peer>>

SkipLogin ==
  /\ main = "login"
  /\ main' = "starting"
  /\ UNCHANGED <<mode, is_running, threads, queues, wire, screen, peer>>

handle_login_success ==
  [add_chat_messages(view, <<"bienvenido", "escribi /help">>) EXCEPT !.local_player_id = Me]

\* What the loop of the login makes of an event.
handle_login_event(e) ==
  CASE e.op = "LOGIN_RESPONSE" /\ e.arg = 1 -> handle_login_success
    [] e.op = "MAP_DATA" -> load_map(view, Citizens)
    [] e.op = "INVENTORY_UPDATE" -> update_inventory(view, Slots[e.arg])
    [] OTHER -> view

\* The loop ends at an answer, whatever it says, or at the end of the connection.
ReceiveLogin ==
  /\ main = "waiting"
  /\ \E e \in Receivable :
       /\ Receive(e)
       /\ view' = IF e.more THEN handle_login_event(e) ELSE view
       /\ main' = IF e.op = "error" THEN "closing"
                  ELSE IF \/ ~e.more \/ e.op = "LOGIN_RESPONSE"
                          \/ e.op = "garbage" /\ Head(to_client).op = "LOGIN_RESPONSE"
                       THEN "starting" ELSE "waiting"
  /\ UNCHANGED <<mode, is_running, threads, queues, chat, peer>>

StartThreads ==
  /\ main = "starting"
  /\ main' = "loop" /\ sender' = "running" /\ receiver' = "running"
  /\ UNCHANGED <<mode, is_running, queues, wire, screen, peer>>

-----------------------------------------------------------------------------
\* The loop of the game.

\* Mutant: only the flag ends the loop.
FlagEndsTheLoop == ~is_running

LoopEnds == ~is_running \/ receiver # "running" \/ sender # "running"

BeginFrame ==
  /\ main = "loop"
  /\ main' = IF LoopEnds THEN "closing" ELSE "events"
  /\ UNCHANGED <<mode, is_running, threads, queues, wire, screen, peer>>

\* Who speaks gets a bubble, which is not followed here; all else is for the console.
parse_server_message(text) == IF text \in Spoken THEN "PUBLIC" ELSE "SYSTEM"

handle_chat_event(text) ==
  IF parse_server_message(text) = "PUBLIC" THEN view ELSE add_chat_message(view, text)

handle_merchant_event(n) == add_chat_messages(view, <<"catalogo">> \o [i \in 1 .. n |-> "articulo"])

handle_bank_event(n) == add_chat_messages(view, <<"banco", "oro">> \o [i \in 1 .. n |-> "articulo"])

\* One turn of Client::update_state_from_server.  Garbage may do anything to the view:
\* it is left as it is, for what matters is that nothing comes after it.
HandleEvent ==
  /\ main = "events" /\ events_queue # <<>>
  /\ LET e == Head(events_queue)
     IN  /\ view' \in CASE e.op = "SNAPSHOT" -> update_from_snapshot(view, Snapshots[e.arg])
                        [] e.op = "MAP_DATA" -> {load_map(view, Citizens)}
                        [] e.op = "INVENTORY_UPDATE" -> {update_inventory(view, Slots[e.arg])}
                        [] e.op = "EQUIPMENT_UPDATE" -> {update_equipment(view, Slots[e.arg])}
                        [] e.op = "CHAT_MSG" -> {handle_chat_event(e.arg)}
                        [] e.op = "TRADER_CATALOG" -> {handle_merchant_event(e.arg)}
                        [] e.op = "BANK_CONTENT" -> {handle_bank_event(e.arg)}
                        [] OTHER -> {view}
         /\ is_running' = (is_running /\ e.op # "DISCONNECTION")
  /\ events_queue' = Tail(events_queue)
  /\ UNCHANGED <<mode, main, cmd_queue, queues_closed, chat, threads, wire, peer>>

EventsHandled ==
  /\ main = "events" /\ events_queue = <<>>
  /\ main' = "input"
  /\ UNCHANGED <<mode, is_running, threads, queues, wire, screen, peer>>

\* An input of the user, between the events and the drawing of a frame.
Input ==
  /\ main = "input" /\ steps < MaxSteps
  /\ steps' = steps + 1
  /\ UNCHANGED <<mode, main, events_queue, queues_closed, server, threads, wire>>

Push(commands) == cmd_queue' = cmd_queue \o commands

\* The window is closed, or Escape.
Quit ==
  /\ Input
  /\ is_running' = FALSE
  /\ UNCHANGED <<cmd_queue, chat, view>>

\* Control-C, or a click on the console, or outside of it.
SetChatActive ==
  /\ Input
  /\ chat' = [chat EXCEPT !.active = ~@]
  /\ UNCHANGED <<is_running, cmd_queue, view>>

\* F5, F7 and F8.
DebugKey ==
  /\ Input /\ ~chat.active
  /\ \E word \in DebugWords : Push(ChatCommandClient(<<word>>, NoNpc, {}))
  /\ UNCHANGED <<is_running, chat, view>>

\* handle_mouse_event: a double click equips or takes off.
DoubleClick ==
  /\ Input
  /\ \/ \E slot \in equipment_slot_at(view) : Push(<<Request("UNEQUIP_ITEM", slot, <<>>)>>)
     \/ \E slot \in inventory_slot_at(view) : Push(<<Request("EQUIP_ITEM", slot, <<>>)>>)
  /\ UNCHANGED <<is_running, chat, view>>

\* handle_left_click, on a slot.  Nothing unselects it.
SelectSlot ==
  /\ Input
  /\ \E slot \in inventory_slot_at(view) : chat' = [chat EXCEPT !.selected_slot = {slot}]
  /\ UNCHANGED <<is_running, cmd_queue, view>>

\* handle_left_click, on somebody in the world.
ClickEntity ==
  /\ Input /\ ~chat.active
  /\ \E hit \in get_entity_at_screen(view) :
       IF hit.type = "CITIZEN"
       THEN chat' = [chat EXCEPT !.selected_npc_id = hit.id] /\ UNCHANGED cmd_queue
       ELSE Push(<<Request("ATTACK", hit.id, <<>>)>>) /\ UNCHANGED chat
  /\ UNCHANGED <<is_running, view>>

\* handle_left_click, on nobody in the world.
ClickNobody ==
  /\ Input /\ ~chat.active
  /\ chat' = [chat EXCEPT !.selected_npc_id = NoNpc]
  /\ UNCHANGED <<is_running, cmd_queue, view>>

\* handle_mouse_event: the wheel over the console.
Scroll ==
  /\ Input
  /\ \E delta \in {-1, 1} : view' = scroll_console(view, delta)
  /\ UNCHANGED <<is_running, cmd_queue, chat>>

\* The twenty-one lines of process_help_command.
process_help_command == add_chat_messages(view, [i \in 1 .. 21 |-> "ayuda"])

\* handle_chat_input_event: Enter, with a line typed or none.  "/help" stays here.
EnterLine ==
  /\ Input /\ chat.active
  /\ \E line \in Lines \cup {<<>>} :
       /\ view' = IF line = <<"/help">> THEN process_help_command ELSE view
       /\ Push(IF line \in {<<>>, <<"/help">>} THEN <<>>
               ELSE ChatCommandClient(line, chat.selected_npc_id, chat.selected_slot))
  /\ chat' = [chat EXCEPT !.active = FALSE, !.selected_npc_id = NoNpc]
  /\ UNCHANGED is_running

\* process_movement_input, unless the player is on the way to a tile.
Move ==
  /\ Input /\ ~chat.active /\ ~is_local_player_moving(view)
  /\ Push(<<Request("MOVE", 0, <<>>)>>)
  /\ UNCHANGED <<is_running, chat, view>>

EndFrame ==
  /\ main = "input"
  /\ \E arriving \in SUBSET Walking(view) : view' = update_animations(view, arriving)
  /\ main' = "loop"
  /\ UNCHANGED <<mode, is_running, chat, threads, queues, wire, peer>>

-----------------------------------------------------------------------------
\* Client::close.

\* shutdown of a connection that was reset fails, in the handler of that failure too.
\* The destructor of a thread that was started and not joined ends the program.
CloseFails ==
  /\ main = "closing" /\ conn = "reset"
  /\ main' = IF receiver = "new" THEN "failed" ELSE "aborted"
  /\ UNCHANGED <<mode, is_running, threads, queues, wire, screen, peer>>

CloseSocket ==
  /\ main = "closing" /\ conn # "reset"
  /\ conn' = "closed" /\ main' = "closing_queues"
  /\ UNCHANGED <<mode, is_running, to_client, to_server, err, threads, queues, screen, peer>>

CloseQueues ==
  /\ main = "closing_queues"
  /\ queues_closed' = TRUE /\ main' = "joining"
  /\ UNCHANGED <<mode, is_running, events_queue, cmd_queue, threads, wire, screen, peer>>

Join ==
  /\ main = "joining" /\ receiver # "running" /\ sender # "running"
  /\ main' = "ended"
  /\ UNCHANGED <<mode, is_running, threads, queues, wire, screen, peer>>

-----------------------------------------------------------------------------
\* MenuHandler::doLogin and doSignup: a request, and one message for an answer.

Answer == IF mode = "LOGIN" THEN "LOGIN_RESPONSE" ELSE "SIGNUP_RESPONSE"

MenuAsks ==
  /\ main = "menu"
  /\ \/ Send(Request(mode, 0, <<>>)) /\ main' = "asking"
     \/ SendThrows /\ main' = "refused"
  /\ UNCHANGED <<mode, is_running, threads, queues, screen, peer>>

\* ClientProtocol::recvResponse.  An answer that is cut may still say yes.
MenuIsAnswered ==
  /\ main = "asking" /\ (to_client # <<>> \/ conn # "open")
  /\ \/ /\ to_client # <<>> /\ Head(to_client).op = Answer
        /\ Answer \in AnswersInStep
        /\ Head(to_client).arg = 1 \/ Head(to_client).cut
        /\ main' = "accepted"
     \/ /\ to_client # <<>> =>
             Head(to_client).op # Answer \/ Head(to_client).arg = 0 \/ Head(to_client).cut
        /\ main' = "refused"
  /\ UNCHANGED <<mode, is_running, threads, queues, wire, screen, peer>>

-----------------------------------------------------------------------------
\* CommandProcessor::run: the game, or a request of the menu.
run ==
  /\ mode \in {"GAME", "LOGIN", "SIGNUP"}
  /\ main = IF mode = "GAME" THEN "login" ELSE "menu"

\* Nothing is typed or selected; the slot is one of Client's fields.
ChatManager == [active |-> FALSE, selected_npc_id |-> NoNpc, selected_slot |-> {}]

Init ==
  /\ run
  /\ receiver = "new" /\ sender = "new"
  /\ is_running = TRUE
  /\ events_queue = <<>> /\ cmd_queue = <<>> /\ queues_closed = FALSE
  /\ to_client = <<>> /\ to_server = <<>>
  /\ conn = "open" /\ err = "none"
  /\ view = NoView
  /\ chat = ChatManager
  /\ server = [answer |-> "none", snapshot |-> 0, inventory |-> 0, equipment |-> 0,
               text |-> "none"]
  /\ steps = 0

ServerSteps ==
  \/ ServerReads \/ ServerGoes
  \/ \E i \in DOMAIN Snapshots : ServerBroadcasts(i)
  \/ \E m \in UpdatesOfSlots \cup sendCombatMessage \cup processBroadcastChat
               \cup processListItems : ServerSends(m)

UserSteps ==
  \/ Quit \/ SetChatActive \/ DebugKey \/ DoubleClick \/ SelectSlot \/ ClickEntity
  \/ ClickNobody \/ Scroll \/ EnterLine \/ Move

MainSteps ==
  \/ sendLogin \/ ReceiveLogin \/ StartThreads
  \/ BeginFrame \/ HandleEvent \/ EventsHandled \/ EndFrame
  \/ CloseFails \/ CloseSocket \/ CloseQueues \/ Join
  \/ MenuAsks \/ MenuIsAnswered

SenderSteps == sendCmd \/ SenderEnds

Next == ServerSteps \/ UserSteps \/ SkipLogin \/ MainSteps \/ recvEventClient \/ SenderSteps

\* The three threads run on when nothing keeps them waiting.  Nothing is assumed of the
\* server or of the user.
Fairness == WF_vars(MainSteps) /\ WF_vars(recvEventClient) /\ WF_vars(SenderSteps)

Spec == Init /\ [][Next]_vars /\ Fairness

-----------------------------------------------------------------------------
\* Nothing the server said is left to be shown.
CaughtUp ==
  /\ main = "input" /\ conn = "open" /\ receiver = "running"
  /\ to_client = <<>> /\ events_queue = <<>>

\* The loop of the login and the events of the game share out what the server sends
\* to whoever enters: whatever the interleaving, nothing of it is lost.
SessionShown ==
  server.answer = "accepted" =>
    /\ view.local_player_id = Me
    /\ view.static_entity_keys = {citizen_entity_key(id) : id \in DOMAIN Citizens}
    /\ view.inventory_slots = Slots[server.inventory]
    /\ equipment_slot_at(view) = DOMAIN Slots[server.equipment]
    /\ \/ server.text \in Spoken \cup {"none"} \cup Range(view.console)
       \/ Len(view.console) = MAX_CHAT_LOG_SIZE

\* Whoever is shown was in the last snapshot since the login, on that tile, or is a
\* citizen of the map.  Before one comes only the citizens are.
SnapshotShown ==
  LET shown == DOMAIN view.entities \ view.static_entity_keys
  IN  IF server.snapshot = 0 THEN shown = {}
      ELSE LET snapshot == Snapshots[server.snapshot]
           IN  /\ shown = ids_en_snapshot(snapshot)
               /\ \A id \in DOMAIN snapshot.players :
                    view.entities[player_entity_key(id)].tile = snapshot.players[id]
               /\ \A id \in DOMAIN snapshot.npcs :
                    view.entities[npc_entity_key(id)].tile = snapshot.npcs[id]

\* Of the sounds of the last snapshot the player is in, one that was not played was
\* near one like it that was, or gave way to as many as fit, none less important.
SoundsHeard ==
  server.answer = "accepted" /\ server.snapshot # 0 =>
    LET snapshot == Snapshots[server.snapshot]
        effects == Range(snapshot.sound_effects)
    IN  Me \in DOMAIN snapshot.players =>
          /\ view.heard \subseteq effects
          /\ \A s \in effects \ view.heard :
               \/ \E t \in view.heard : is_same_sound_nearby(t, s)
               \/ /\ Cardinality(view.heard) = MAX_SOUNDS_PER_SNAPSHOT
                  /\ \A t \in view.heard : sound_effect_priority(t.id) >= sound_effect_priority(s.id)

\* The console never scrolls past its lines.
ConsoleInBounds == view.console_scroll_offset \in 0 .. max_scroll(view.console)

\* A client that caught up shows what the server said last, of the session and of the
\* world, and has played its sounds.  Of texts this says less: the console holds those the
\* server says of its own accord, unless it is full; what players say goes to bubbles, and
\* so, shown nowhere, do whispers and clan reviews, which have a ": " in them.
TheViewCatchesUp ==
  CaughtUp => SessionShown /\ SnapshotShown /\ SoundsHeard /\ ConsoleInBounds

\* Who is not walking is drawn on the tile the server has it on, whatever snapshots
\* and frames came in between: otherwise clicks would hit the wrong one.
RestIsHome ==
  \A key \in DOMAIN view.entities :
    view.entities[key].is_moving \/ view.entities[key].pixel = view.entities[key].tile

\* A message out of step with its reader makes garbage of all that follows.  Only a
\* message cut by the end of the connection is read as garbage: after it comes the
\* end, and no other event.
GarbageIsLast ==
  \A i \in DOMAIN events_queue :
    events_queue[i].op = "garbage" =>
      /\ conn # "open" /\ to_client = <<>>
      /\ \A j \in i + 1 .. Len(events_queue) : events_queue[j].op = "DISCONNECTION"

\* What each line of the help is for.
Promised ==
  [word \in {"/comprar", "/vender", "/listar", "/depositar", "/retirar", "/curar", "/resucitar",
             "/meditar", "@", "/fundar-clan", "/unirse", "/revisar-clan", "/clan-aceptar",
             "/clan-rechazar", "/clan-ban", "/dejar-clan", "/listar-clanes", "/clan-kick"} |->
     CASE word = "/comprar" -> {"processBuyItem"}
       [] word = "/vender" -> {"processSellItem"}
       [] word = "/listar" -> {"processListItems"}
       [] word = "/depositar" -> {"processPlayerDepositItem", "processPlayerDepositGold"}
       [] word = "/retirar" -> {"processPlayerWithdrawItem", "processPlayerWithdrawGold"}
       [] word = "/curar" -> {"processPlayerInteract"}
       [] word = "/resucitar" -> {"processPlayerResurrect"}
       [] word = "/meditar" -> {"processPlayerMeditate"}
       [] word = "@" -> {"processDirectChatByName", "none"}
       [] word = "/fundar-clan" -> {"processClanFound"}
       [] word = "/unirse" -> {"processClanJoin"}
       [] word = "/revisar-clan" -> {"processClanReview"}
       [] word = "/clan-aceptar" -> {"processClanAccept"}
       [] word = "/clan-rechazar" -> {"processClanReject"}
       [] word = "/clan-ban" -> {"processClanBan"}
       [] word = "/dejar-clan" -> {"processClanLeave"}
       [] word = "/listar-clanes" -> {"processClanList"}
       [] word = "/clan-kick" -> {"processClanKick"}]

Requests == Range(cmd_queue) \cup Range(to_server)

\* What a citizen is asked for, or is waiting to be, is asked of one the client shows:
\* from the click that selected it to the server no snapshot takes it away.
CitizensStay ==
  LET npcs == {chat.selected_npc_id} \cup
              {r.id : r \in {q \in Requests : q.op \in {"INTERACT", "LIST_ITEMS"}}}
  IN  \A id \in npcs \ {NoNpc} : citizen_entity_key(id) \in DOMAIN view.entities

\* A request is read by the server in step with how it was written, and executing it
\* does what the help says of the line it was typed as, or says the line aloud.
RequestsKeepTheirMeaning ==
  /\ CitizensStay
  /\ \A r \in Requests :
       /\ r.op \in ReadInStep
       /\ r.line # <<>> /\ Head(r.line) \in DOMAIN Promised =>
            \/ executed(r).handler \in Promised[Head(r.line)]
            \/ executed(r) = Call("processBroadcastChat", 0, r.line)

\* The menu reports a failure only if the server refused, the connection ended, or a
\* snapshot was broadcast before the answer; and the game fails or is aborted only by
\* a connection that was reset.
FailuresHaveACause ==
  /\ main = "refused" =>
       server.answer = "refused" \/ conn # "open" \/ Head(to_client).op = "SNAPSHOT"
  /\ main \in {"failed", "aborted"} => conn = "reset"

\* Whoever quits, and whoever loses the connection at any point, sees the program end.
EveryEndIsReached == (conn # "open" \/ ~is_running) ~> main \in Over
=============================================================================
