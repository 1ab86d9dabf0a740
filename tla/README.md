# Argentum Online: verification project

Models in TLA+ of the Argentum Online server, its client and the protocol
between them (`src/server`, `src/client`, `src/common`), the TLC runs that check
them on small instances, and TLAPS proofs of the results that hold for every
instance. Every definition is translated from the C++ source; `PROJECT.json` maps
each to its lines.

## 1. The system

One server process, many client processes, TCP between them.

```
 client:  main: login, then events, input, drawing
            events_queue ^          | cmd_queue
          ClientReceiver |          v ClientSender
 ------------------------ TCP ---------------------------
 server:  ClientSender            ClientReceiver
            ^ MonitorQueues         | commands_queue
            '------- Gameloop <-----'  --> World, Bank, ClanManager
 main: Server::start    Acceptor: accept, reap    '--two queues--> Persistence -> files
```

| Part | State it keeps | Operations | Talks to |
|---|---|---|---|
| `Queue<T>` | a deque, `closed`, one mutex, two condition variables | push, try_push, pop, try_pop, close | every pair of threads below |
| `Server`, `main` | the acceptor, the monitor, the commands queue, the game loop | start, and the shutdown at "q" | Acceptor, Gameloop |
| `Acceptor` | the listening socket, the list of handlers, `next_id` | run, reap, stop, clear, join | ClientHandler |
| `ClientHandler`, `ClientReceiver`, `ClientSender` | the socket, two threads, the outgoing queue (by reference) | start, is_alive, stop, join; the two `run` | sockets, commands queue, MonitorQueues |
| `MonitorQueues` | an outgoing queue per connection, never taken out | addQueuePlayer, queueTheServerResponse, executeBroadcast | Gameloop, ClientSender |
| `Gameloop` | players, creatures, citizens, pending resurrections and messages, timers | about 40 handlers of commands; the tick at 30 Hz | all below |
| `World`, `NpcPositions`, `ItemsPositions` | positions of players and npcs, things on the floor, a table of taken tiles for each kind, zones and their counters | add, remove, move, teleport, free and random tiles | Gameloop, SpawnManager |
| `SpawnManager` | thresholds of the regions | spawn and respawn creatures and treasures, load them | World |
| `Player`, `CombatEntity`, `Creature`, `GameFormulas` | level, hp, mana, experience, cooldowns, what it is doing | hurt, die, earn, recover, meditate, resurrect | Gameloop |
| `Inventory`, `Slot`, `Equipment` | slots, `size_current`, four worn parts, gold | add, remove, equip, use, drop, buy, sell | World, shops, bank |
| `Bank`, `Account`, `Banker` | gold and items of each user | deposits and withdrawals | Player, Persistence (at login) |
| `ClanManager` | clans with founder, members, pending, banned; the index `player_clan` | found, join, accept, reject, ban, kick, leave, save, load | Gameloop, its file |
| `Persistence`, `DataStorage` | two queues and a thread; `players.dat`, its index, `world.dat` | schedule, run; save, update, load | Gameloop, files |
| `Client` with its `ClientReceiver`, `ClientSender` | the connection, two queues and threads, the line being typed, what is selected | login, events of the server, input, close | the server, the renderers |
| `ClientProtocol`, `ServerProtocol`, commands, responses | nothing | write and read each message, field by field; execute a command | sockets, Gameloop |
| `WorldRenderer`, `HudRenderer`, `RenderableEntity` | entities with tile, pixel and way; slots, console, sounds | take a snapshot, take slots, animate, hit test, draw | Client |
| `MenuHandler`, launcher | a connection of its own | doSignup, doLogin: a request and one answer | the server |
| Editor, configuration, maps, log | files | (not modelled) | |

What is hard here:

* five kinds of threads of the server, and three of the client, share queues; all
  of them stop by flags that a blocked thread does not look at;
* a connection ends in one thread, its player in another, its handler in a third,
  in an order nobody fixes; at the other end it may end inside a message;
* messages have no length: both ends must agree on every field, for ever;
* the rest of the session may overtake the client's own login, which reads the
  connection in another thread, by another loop;
* a login reads a file that another thread has still to write;
* records of varying size are rewritten in place, files are truncated before
  they are written, and the process may die between any two writes;
* a message to a player whose handler was reaped throws out of the middle of whatever
  was sending it: a command ends half done, a tick ends the game loop;
* the same fact is kept in several places (positions, tile tables, counters,
  `player_clan`, `size_current`, what is drawn) by code with early returns and steps
  that fail;
* hp, mana and level live in 8 and 16 bits that products reach;
* timers end things many ticks after they were asked for, when the player may
  have left or died.

What makes the parts correct: no lost wakeup and no lost element (queue); no thread that
outlives its handler, players that leave with their connection unless a message that
throws keeps them, a shutdown that ends (server); each item in one place and each state
saved (sessions); an index that always finds its players (storage); nobody in two clans,
in memory and on disk (clans); no item duplicated, no gold made (belongings); tile tables,
zones and counters that tell the truth (world); levels that are earned, blows that are
spaced, deaths that are noticed (combat); a screen that catches up with the server,
requests that do what the help says of them, and a program that ends (client).
`PROJECT.json` lists 40 hazards at their lines, with the property for each.

## 2. Modules

| Module | Models | State and actions |
|---|---|---|
| `QueueContract` | what a queue promises, without wait sets | a call is accepted, blocks, or is finished; Close |
| `BlockingQueue` | `queue.h` | `q`, `closed` and the two wait sets; each call that needs no wait is one action, one that waits is two (`PushWaits`, `PushResumes`); notifications move threads out of the wait sets; `SpuriousWakeup` |
| `Server` | `server.cpp`, `acceptor.cpp`, `client_*.cpp`, `monitor_queues.cpp`, the ticks | a program counter for each thread; queues by their length as far as it matters |
| `Sessions` | login, logout, saves, `persistence.cpp`, end of the game loop | bag, box, floor, the queue of snapshots, the disk; what a player owns is a set of items; `saver` is also "failed", ended by an exception |
| `PlayerStorage` | `data_storage.cpp` | files as sequences of cells; a record is a fixed cell and one for each saved slot; `saver` is "misled" when a name was read that may have no entry, and "ended" when it had none |
| `Clans` | `clan_manager.cpp`, `processClan*` | the tables, the file, `pc` inside a command (tables changed, file truncated, written), the newest stored message of each user |
| `Belongings` | `inventory.cpp`, `slot.cpp`, `equipment.cpp`, `player.cpp`, bank, shops | slots with quantities, `size_current`, worn parts, account, floor, gold |
| `World` | `world.cpp`, `npcs_positions.cpp`, `items_positions.cpp`, `spawn_manager.cpp` and the handlers that use them | positions and tile tables, zones by flood fill over the grid, counters, pending resurrections, creatures dead and not erased |
| `Combat` | `combat_entity.cpp`, `player.cpp`, `game_formulas.cpp`, `executeAttackPlayer`, `executeCreatureAttack`, the recovery of a tick | level, hp, mana and experience in their widths, cooldowns, who meditates or waits; random parts are choices |
| `Wire` | both protocols | a message is the sequence of its fields with their types, once as it is written and once as it is read; constant operators, no state |
| `Commands` | `Command::execute` of each command, `ChatCommand` of both sides, `command_processor.cpp` | from a typed line to the request, and from the request to the handler it reaches; constant operators |
| `View` | `world_renderer.cpp`, `hud_renderer.cpp`, `renderable_entity.cpp` | operators on one record, what the client shows: entities with tile, pixel and way, slots, console, sounds |
| `Client` | `client.cpp`, its receiver and sender, `menu_handler.cpp` | a program counter for each thread, both queues, both directions of the connection and its error, the view; the server as what it writes |
| `MCClans`, `MCSessions`, `MCBelongings`, `MCWorld`, `MCCombat`, `MCClient` | constants of the runs | |
| `Client_proofs`, `Server_proofs`, `Sessions_proofs`, `PlayerStorage_proofs`, `Clans_proofs`, `Belongings_proofs`, `World_proofs`, `Combat_proofs` | theorems | |

How they fit together. `BlockingQueue` implements `QueueContract`, and the other
modules use queues as the contract has them: elements in order, a closed queue
refuses pushes and gives out what is left. `Server` has the threads of the server and
leaves out what a command does; `Sessions` has one thread of game commands
against the Persistence thread and leaves out connections; `PlayerStorage` is
under `Sessions`: `Sessions` takes an update as an atomic replacement of a record,
`PlayerStorage` says when that is so. `Belongings`, `World` and `Combat` are
what the game loop's handlers do to one player's goods, to the map and to
everybody's body. The handlers of one game loop run one after another, so one
command is one action. `Client` EXTENDS `Wire`, `Commands` and `View`: it is the
other end of one of `Server`'s connections, with the order in which
`processHandleLogin` and the broadcasts queue what they send.

**Messages that throw.** `MonitorQueues::queueTheServerResponse` throws `ClosedQueue`
once the handler of its addressee was reaped. Inside a command `executeRequest`
(`gameloop.cpp:950`) swallows that, and what the handler had still to do is not done;
in a tick it ends `Gameloop::run`. `Server` says exactly when a queue is closed. The
other modules, which have no connections, let each message that stands between two
changes throw or not, as a choice; one before the first change of a command or after its
last needs no step of its own. Four history variables remember what was cut short:

| Variable | Holds | Left undone |
|---|---|---|
| `Server!cut` | players whose DisconnectCommand was cut off by a notice to a clan mate (`:531`) | they stay in the game, for ever |
| `Clans!overdue` | users of whom a message was kept back, by the answer to the caller (`:1205`) or before the telling at the login (`:238`, `:242`) | an older message stays the newest, or one waits for a user who plays |
| `Combat!unpaid` | players whose blow was broken off (`:420`, `:474-487`) | neither cooldown nor mana |
| `World!haunted`, with `corpses` | that a restart loaded a creature that was killed and not erased (`:487`) | the creature is alive again, on a tile others may have taken |

The properties exempt these and say that nothing else leads to such a state.

Definitions with a comment "The mutant that ..." or "Mutant: ..." are not part of any
specification: each is a plausible slip in the definition after it, and TLC
refutes a property with it (the pairs are in `PROJECT.json`).

## 3. Runs

| Run | Instance | States | Shows |
|---|---|---|---|
| `queue` | 3 threads, 2 values, size 2 | 2 041 | no lost wakeup; refinement of `QueueContract`, with fairness |
| `clans` | 3 users (2 may found), 2 clans of 2, 1 failed save | 1 380 314 | clans well formed in memory and file, true messages |
| `storage` | 3 users, records of 0 to 2 items, 1 crash | 2 149 326 | the index replays; causes of damage, silence and the end of the saver |
| `sessions` | 2 users, 2 connections, 1 item, queue of 3 | 329 130 | each item in one place |
| `sessions_liveness` | 2 users, 2 connections | 20 648 | leavers are saved, the loop ends its thread |
| `sessions_shutdown` | 1 user | violated | the last save may be lost |
| `server` | 2 connections, 1 command, 1 response told apart | 609 056 | handlers and threads, disconnects, shutdown |
| `belongings` | 2 types, 2 slots of 2, 5 units, gold of 2 | 203 332 | nothing duplicated, gold conserved, losses |
| `world` | 8 tiles, 1 player, 4 creatures, 1 of them left dead, 1 restart | 1 041 812 | tile tables, zones, population |
| `world_players` | 8 tiles, 2 players, 2 creatures, 1 treasure | 303 469 | nobody on a taken tile, nobody awaited who left, resurrections end |
| `combat` | a mage and a warrior, 3 levels, 5 values of hp and mana | 1 952 276 | levels, ceilings, cooldowns, deaths |
| `client` | 2 snapshots of 3 beings, 5 lines, 3 further steps | 731 108 | the view, the requests, the ends of the client |

What the merged names say: `NobodySleepsInVain` is about both wait sets;
`ClansConsistent` about the lists and the index; `MailIsTrue` about messages that are
only kept for the absent and agree with what is true; `LevelIsEarned`,
`EveryItemInOnePlace`, `RestartFindsEveryPlayer`, `SizeCoversTheSlots` and
`PopulationIsCounted` have the type invariant of their module in them.

**Why the bounds are enough.** Queue: two threads asleep on one side and one on the other,
with a queue that can be neither full nor empty. Clans: an applicant two founders compete
for, and clans that fill up; three users keep every pair of roles. Storage: three records,
so that one can be damaged from one side and damage on the other; two items let a record
grow, shrink and grow again. Sessions: two users on two connections allow every crossing
of login, logout and save; items are independent of each other, so one is enough to be
lost or doubled. A login that breaks the premise of `EveryItemInOnePlace` (of a user in
the game or not yet saved, or of a damaged record) stays broken for good, and the
constraint `ItemsWhileClean` of `MCSessions` follows such a behaviour no further;
`sessions_liveness` has no such constraint. Server: one connection that dies while another
is accepted or joined. Belongings: two slots of two give a full slot, a full bag and a
type in two slots; `UINT16 = 2` makes the counter of gold wrap within the bound. World:
the forest has a way to itself through the city, four creatures are the least with which a
respawn can happen while the last creature loaded still lives. Combat: the level wraps
after 2 and the mage's ceiling of hp wraps at level 2, as those of the game do at levels
that can be reached; a kill can give two levels. In `world_players` the map is never full,
so that a resurrection always finds a tile, and nothing respawns or restarts, which
`world` has; there in turn nobody uses the debug commands. Client: from one snapshot to
the other somebody steps, jumps, appears, stays and goes; the login has four messages and
the server or the user does three more things in any order with them, with a cut anywhere;
of the lines one asks a citizen, one is rewritten on its way, one needs a slot, one is
read by the server only and one stays in the client.

**Bounds in the guards.** `MaxFailures` (clans); `MaxCrashes` (storage); `MaxQueue`,
`MaxWorlds` (sessions: room in the queues; the real ones have none); `MaxConns`,
`MaxCmds`, `MaxOut` (server); `MaxUnits`, `MaxGold`, `MaxSize` (belongings); `MaxNpcId`,
`MaxFloor`, `MaxCorpses`, `MaxRestarts`, `Cheaters` (world: who uses the debug commands);
`MaxExp`, `Cheaters` (combat); `MaxSteps` (client). In `Wire`, `Numbers` and `Shapes` are
the values and the lengths with which messages are compared. Each stands where it is
declared.

**Symmetry** only in `clans` and `sessions`, which check no liveness.

**Deadlock** is checked in `clans`, `storage` and `combat`, where something can
always happen next. The others say `CHECK_DEADLOCK FALSE`, because there the
program may stop: the threads of a queue may all wait for calls nobody makes; the
sessions, the server and the client end; `belongings` and `world` reach their
bounds, and `world` has a game loop that may end. That nothing hangs which should
go on is the liveness of `queue`, `sessions_liveness`, `server` and `client`.

**Fairness.** `queue`: a thread woken up runs on (`WF` of its resumption); nobody
is forced to call. `sessions_liveness`: `WF` of the Persistence thread and of
a game loop past its ticks, which never block but on each other; `SF` that the
Persistence thread finds each queue empty now and then, because a save comes once
a minute and takes milliseconds. `server`: `WF` of each thread where it can step;
clients and the operator may never act, and a receiver is only
forced to step once its client is gone. `world_players`: `WF` of the timer that ends a
resurrection. `client`: `WF` of main, of the receiver and of the sender, each where
nothing keeps it waiting; nothing is asked of the server or of the user.

**A disagreement with the documents** (the violation run). `sessions_shutdown`:
saved *"también al shutdown limpio del servidor"* (`docs/documento-tecnico.md:302`).
Persistence is told to stop before the last save is queued.

Also seen while reading, with no run of its own. In the server:

* `docs/documento-tecnico.md:294` has *"structs de tamaño fijo"*, and the comment at
  `data_storage.cpp:135` says that an update goes to the end if the size changed.
  Records vary in size and are rewritten in place, so one that grows runs into the
  next (`DamageNeedsOverlap` says when).
* `:298` says the world *"se recarga al iniciar, permitiendo preservar el estado entre
  reinicios"*. A crash between `trunc` and the writes leaves an empty file
  (`data_storage.cpp:176`), which is loaded.
* `queue.h:25` says any method raises on a closed queue, while `pop` and `try_pop`
  first give out what is left (the contract says what the code does).
* The documents give 30 slots of inventory where the configuration has 18.
* `treasures_count` never falls (`spawn_manager.cpp:220`): a zone gets its treasures
  once.
* A player whose clan mate's handler was reaped first cannot leave: the notice to the
  mate throws before the player is saved and erased (`gameloop.cpp:531-539`). If both lose
  the connection, the player stays in the game until the server ends (`TheGoneLeaveTheGame`
  names this case).
* For one whose opponent, or whose opponent's clan mate, is gone in this way a blow costs
  no cooldown and no mana (`BlowsAreSpaced`).
* A creature killed by a player who is gone stays in `creatures`, is saved with the world
  with no hp, and is loaded alive (`spawn_manager.cpp:231`): then a zone can have more than
  its maximum, and two may share a tile, which the first to leave frees for both
  (`PopulationIsCounted`, `NoTwoOnATile`, `TilesAreTrue`).
* A message to an absent user can be lost, and an older one that is no longer true be told
  (`MailIsTrue`).
* A damaged record can end the Persistence thread: the player goes by the name that was
  read, and if that is nobody's its next save throws (`data_storage.cpp:137`,
  `persistence.cpp:50`). Nothing is saved from then on, and the game goes on.
* A new login sets cooldowns to zero and brings a ghost back to life
  (`player.cpp:22-24`).

Between client and server:

* A login whose notice to a clan mate throws (`gameloop.cpp:238`) gets no answer: the
  player is in the game, and its client waits in its login.
* The menu takes the next message for its answer (`client_protocol.cpp:456`), and
  snapshots reach every connection: one that comes first makes an accepted login a
  failure. `FailuresHaveACause` names this cause, beside a refusal and an end.
* Line 228 of the document says that the client receives map and inventory
  synchronously after the login. The server sends the answer first and the client's
  loop ends with it, so they arrive as events of the game (`SessionShown`).
* A private message comes as "[De x]: t", which has a ": " in it:
  `chat_manager.cpp:55-74` takes it for public and never for a whisper (`:236` of the
  document), and nothing is shown of it though the help promises it. So it goes with the
  answer to "/revisar-clan", "=== Clan: ..." (`clan_manager.cpp:138`).
* "/depositar oro" without an amount deposits the item GOLD. "/tirar 257" wraps to a
  byte (`command_chat.cpp:86-90` of the client). Commands in capitals are chat for the
  server, while the client lowers those to citizens.
* `HealCommand` is never created; "/curar" is an interaction.
* The gold that is safe and in excess goes in host order, on both ends alike.
* `client_receiver.cpp:11` says that a read that fails ends the thread. One that is cut
  in the slots ends it after an event with no slots was pushed (`CutToClient`).

In the client alone: the lookup in `inventory_slot_at` of worn slots by a key offset by
100 finds nothing; a thing that replaces another on a tile keeps the look of the first
(`world_renderer.cpp:309`).

## 4. Proofs

TLAPS checks these for every value of the constants that the named assumptions
(`QueueAssumption` and the like, each in the module that declares its constants)
allow.

* **`Client_proofs`**, on `BlockingQueue`, which is what the client's two queues are
  and the server's as well. `NoLostWakeup`, `QueueTypeCorrect` and
  `StepImplementsContract`, all from the invariant `QInv`: the types, and for each
  wait set that it is empty unless the queue is at that edge. The second part
  has to be in the invariant with the types because a notification is given only
  at the edges: that `Dequeue` wakes all pushers needs that none sleeps over a
  queue that is not full. The refinement maps `blocked` to the calls that wait, and
  its fairness half stays with TLC.
* **`Clans_proofs`**. `TypeCorrect`; `ClansCorrect` from `IInv`, which adds to the
  properties that every list is finite (for the count of members) and that what is being
  written is well formed too, since a restart loads it; `DeliveryCorrect` from the types,
  the program counter of the save, and that a message of a user in the game is `overdue`.
  `MailCorrect` from `MailInv`: the message an operation is about to store is true, and so
  is the newest one stored of everybody else who is not `overdue`. `OthersStayTrue` is
  why: what is said of an absent user can only be changed by an operation on that user,
  which stores a newer message.
* **`Belongings_proofs`**, for any number and capacity of slots, any items and widths.
  `GoldCorrect` from `GoldInv`: the sum of the gold in
  hand, bank and bags, with the history of what entered the game, and that a
  player who was never rich has a counter equal to what `getGolden` answers.
  `CutNeverAdds` bounds the 16-bit answer by the counter, `EarnTellsRiches` keeps
  the history. `SizeCorrect`, `ItemsCorrect` and `LossCorrect` count over slots, with a sum
  that is a recursive function: `RecursionExists` shows for every length that there is
  such a function, `UpTo` that what goes from each number to the next holds of all, and
  `SumChanges` that the sum follows the one slot that changes. `BelongingsInv` is the
  types, that `size_current` is at least the sum (`Covers`), and that nothing is held more
  often than it was made. Without the second, removing a unit could wrap the counter and
  open a full bag; `made` itself is a number only because of the third. Each method of
  the inventory has a lemma for what it does to the slots, the sum and the counter, with
  each way it fails (`AddItem`, `TakeToEquip`, `Swapped`, `LoadSlots`); `GoodStep` is what
  all steps have in common, that no unit comes from nowhere and one is lost only at a full
  bag. `LossCorrect` is of every step from a state of the invariant.
* **`Server_proofs`**, for any number of connections. `ServerTypeCorrect`.
  `HandlersCorrect` from `HandlersInv`: a handler just accepted is not yet in the
  list, and of the listed ones told to stop only the one `clear` is joining may
  have a thread that runs; without this, `players.clear()` could not be known to
  destroy finished handlers only. `EarlyEndCorrect` from `EndInv`: the loop is
  stopped only after its queue is closed, and a destroyed handler stays
  destroyed. `GoodbyeCorrect` from `GoodbyeInv`: behind every queued command of a
  connection that is no more read stands its DisconnectCommand, unless the player is
  `cut`, and who is cut has a mate whose handler stays destroyed. The property alone
  is not inductive, because a login executed after its client has gone makes a
  player; `PushKeepsGoodbyes` and `PopKeepsGoodbyes` keep this order as the queue
  moves.
* **`Combat_proofs`**, for any number of players, weapons and amounts of damage.
  `LevelCorrect`, `CooldownCorrect`, `DeathsCorrect`, `GhostsCorrect` and
  `CeilingsCorrect` from `CombatInv`: the types and these properties, the ones of levels
  and cooldowns over all players, also those out of the game, since a login starts from
  what they left with; only those in the game can be `unpaid`. Two lemmas on how a body
  may change carry the steps: `Buried` says that whatever a step takes, one who has
  nothing left becomes a ghost in the same step, and `Fills` that hp and mana are taken
  from or filled up to a ceiling that no level lowers.

* **`Sessions_proofs`**, for any users, items and lengths of the queue. `ItemsCorrect`
  from `SessionInv`: the property, and that no user is on two connections while no login
  was of someone in the game or still to be saved, or read a damaged record. Until then
  every snapshot queued is of a user with a record, so no save throws. What a login reads
  is the disk, what counts is the newest record of the user, queued or on disk:
  `OneBehind` and `HeadSaved` say that a save changes only that of its user and that the
  Persistence thread changes none; `ItemMoves`, `ItemsStay` and `ItemEnters` what a step
  may do to the places. `SessionAssumption`: what stands for "no record" is none, and
  connections are finitely many.
* **`World_proofs`**, on every map. `TilesCorrect`, `TilesNotShared` and `WaitersCorrect`
  from `WorldInv`: the table of the players is injective and its set of tiles is its
  range, things lie one to a tile, and, as long as no restart loaded a dead creature
  (`~haunted`), the table of the npcs is so too and npcs are apart from all else; no part
  is inductive without the others, since a free tile is one in none of the sets. That the
  world has every living creature, and of the dead only what the game loop still has,
  holds without that premise. `OneMoves`, `SomeJoin` and `OneGoes` are what the handlers
  do to a table. That ghosts are in the game is needed with `PendingPlayersAreHere`, for
  it is they who ask. `ZonesCorrect` from `ZonesInv`, with nothing asked of what a zone
  is. `PopulationCorrect` from `Counted`: the count of a zone is that of its living
  creatures, or after a restart one more; and while the last id given is in use, which
  only a restart brings about, every count is still exact. So the creature that is counted
  and then not added is the only one, and the next restart counts anew. It stands on the
  flood fill: a filled area is the least set closed under steps, so a zone is the same
  from whichever of its tiles it is filled (`SameZone`), and a creature counts in one
  zone.
* **`PlayerStorage_proofs`**, for any players, sizes of records and crashes.
  `RestartCorrect`, `DamageCorrect` and `SilenceCorrect` from `StorageInv`, which
  speaks of the index a restart would find (`Kept`) rather than of the one in memory: a
  record cut off from its entry by a crash is nobody's, and the user starts
  anew behind it. Each kept record ends in the file and is whole or met another, and a
  saver that is not sound has read one that met another or has no place;
  `OverwriteIsSound` shows that a rewrite keeps this, whatever the size, and
  `LoadAppended` that an entry appended replaces the one of its user only.

* **`Client_proofs`**, on `Wire`, `Commands`, `View` and `Client`, for any lists, texts,
  snapshots, lines and citizens.
  *The connection.* `ToClientIsRead` and `ToServerIsRead`: what one end writes is what the
  other reads, field by field, with lists and texts of any length; TLC compares a few
  lengths. A message is a concatenation of groups of fields, and `Reads` says of
  groups and fields that the first make the second; it is kept by concatenation (`Both`)
  and by loops (`LoopReads`), so each message is put together from its parts.
  `AllIsReadInStep` is what the state machine uses of it.
  *The menu.* `FailuresCorrect` from `Control`, which threads run at which place of main
  and what a connection that ended still holds, and `Menu`: while the menu waits, what
  comes first is a snapshot, or the answer the server gave.
  *The view.* `RestCorrect` from `IsView`: the types of a view, who rests is at home, and
  the citizens of the map are never removed. `Leads` is what any step of the client does
  to a view; it is an order, so that the parts of a snapshot can be taken one by one.
  *The game.* `GarbageCorrect` and `RequestsCorrect` from `GameInv`, which is `Control`,
  `IsView`, `Asks` (each request on its way has one of the forms the input gives),
  `Said` (each message and event one of the forms the server gives) and `GarbageEnds`.
  They are one invariant because none goes alone: a request keeps its meaning only while
  the citizen it names is shown, a citizen is shown only while every message is read in
  step, and a message is in step only if it is of a form the server writes. `ChatCommandIs`
  goes through the arms of both parsers.
  *Nothing is lost.* `ViewCorrect` from `GameInv` and `NothingIsLost`, which speaks of all
  that is on its way to the screen (`Pending`: the events, then the messages) together
  with what is shown. Whatever the server said last of each kind (map, slots, text,
  snapshot) is still to come, as the last of its kind, or none of the kind is to come and
  the screen shows it (`Due`). While the login waits this holds of what is behind the
  answer, which no more than snapshots precede; the answer is where the two readers
  meet. `DueComing`, `DueNearer` and `DueTaken` say that a message more, a message read
  and an event shown keep it. That a snapshot is shown needs that the four ranges of keys
  stay apart, and that of its sounds, sorted by what they matter, only those near a
  louder one or beyond the limit are not played.
  `ClientAssumption` and `ViewAssumption`: lists are of the two kinds there are, the
  slots sent at the login exist, snapshots are numbered from 1, beings have ids below a
  million and tiles coordinates below a thousand. The last two are what the offsets of
  `constants.h` and the 1000 of `item_entity_key` take for granted: ids are dealt out
  from the start of the server on.

Model-checked only: liveness, since fairness and `ENABLED` are beyond the prover (the
safety half of the queue's refinement is proved). Every safety invariant and action
property of the runs is a theorem. Induction over data by the theorems of the library is
out of reach (they take an operator); where the proofs need it they take the least
element of a set of numbers instead (`WFMin`), for recursive functions that are
defined by `CHOOSE`. No module declares a RECURSIVE operator.

## 5. What the models leave out

* **Data races.** `Acceptor::clear` runs in main over the list that the acceptor
  thread changes, without a lock; `Server` interleaves the two by whole operations
  on the list and cannot say what a torn one does. Flags of threads are atomic.
* **Server.** Responses are counted up to `MaxOut`, commands are "play" (may make
  a player) and "bye". A send does not block for ever. Exceptions of the tick that do
  not come from a closed queue are in `World` (a zone with no free tile). Who is in whose
  clan is `Clans`: here any player may be a mate of any other.
* **Sessions.** A damaged record whose content the loader refuses (an unknown class or
  item throws, and may do so after the player was added and before its account is) is left
  out; any other content and name is a choice. No crashes (`PlayerStorage` has them) and
  bags without limits (`Belongings` has them). World snapshots are counted, not looked
  into.
* **PlayerStorage.** Passwords, positions and levels are part of the fixed cell;
  a user name longer than the key is left out.
* **Clans.** A file fits the buffer of its stream, so that a save the process
  dies in leaves an empty file or the whole one. Chat, listings and the bonus of near
  members change nothing. Of stored messages only the newest of each user is kept: none is
  told without the others. A login of one who plays already is in `Sessions`.
* **Belongings.** One player; tiles of the floor are left out, and so are uses
  of an empty slot (the null pointer read of `Player::useItem`, in the hazards).
* **World.** A logout that a message cuts off changes nothing and is no step. The map
  never fills up (the code answers with the centre tile then). A death drops at most one
  thing that is followed. One creature takes its turn in a step. Zones of citizens are
  safe zones, as in the maps of the repository. A restart loads the world as the last save
  had it. A login on a connection that plays is left out here (`Sessions` has it). Ids of
  players are unlike those of creatures.
* **Combat.** A message that throws in the tick ends the game loop, and with it this
  model: no step is taken after. Where everybody stands (`World`) and what is carried
  (`Belongings`): a blow is one in reach and outside of safe zones, of any weapon. One
  creature. What strength, weapon, shields and clan mates make of a blow are sets of
  numbers. `HpAssumption` is what the races and classes of the configuration give; the
  level that wraps to 0 takes experience of which no player is likely to see.
* **Wire, Commands, View, Client.** One connection. A player whose login got no answer is
  sent no more than the snapshots here: the client would drop the rest. What is read when
  a message is cut or out of step is "garbage", with no content; that nothing comes after
  it is checked, what it may do to the screen is not. A line is typed in one step; names
  and texts are model values. Drawing, camera, bubbles, visual effects, textures and the
  playing of sounds show what the view has and change nothing of it. The windows of the
  launcher only fill in the arguments of its two requests.
* **Not modelled**: the editor, the readers of configuration and maps (before any
  thread starts), the builders of what is shown, the fonts, textures, sound and window
  of the client, the log. `PROJECT.json` gives the reason for each.

## 6. Plan

1. Done: `QueueContract` and `BlockingQueue`, `Clans`, `PlayerStorage`, `Sessions`,
   `Server`, `Belongings`, `World`, `Combat`, `Wire`, `Commands`, `View` and `Client`,
   with their runs and the proofs above.
2. That `Sessions` implements an abstract store with one place for each item.
