------------------------------- MODULE World -------------------------------
(***************************************************************************)
(* Who stands where: World, NpcPositions, ItemsPositions and SpawnManager, *)
(* with the gameloop's handlers that move, kill, resurrect, spawn and drop *)
(* things.  Positions are kept several times: the world's map of players,  *)
(* the pose inside each Player, the pose inside each Creature, the one in  *)
(* NpcPositions, and three sets of occupied tiles that the free-tile tests *)
(* read.  Everything runs in the gameloop thread, so a command is one step *)
(* and so is one creature's turn: a tick in which only that creature's     *)
(* cooldown has run out.                                                   *)
(*                                                                         *)
(* Directions, damage and delays are abstracted to what they decide: the   *)
(* tile stepped on, whether a blow kills, whether the delay is over.  Of   *)
(* what a dying player or creature drops, at most one thing is followed.   *)
(* A restart loads the world as it is now: players are gone after one, so  *)
(* nothing done after the last save shows in it.                           *)
(* Any message may find the queue of its addressee closed: Server says     *)
(* when.  That ends a command where it is, and in a creature's turn or at  *)
(* the end of a wait it ends the loop.  A command that sends only before   *)
(* its first change or after its last needs no step of its own for that,   *)
(* nor does a logout: a notice that fails leaves the player in the game.   *)
(***************************************************************************)
EXTENDS Integers, FiniteSets, Functions

CONSTANTS
  Width, Height,     \* limit_width, limit_height
  Walls,             \* the tiles that are not walkable
  SafeTiles,         \* the tiles whose region is a city or a town
  PriestTile,        \* where the map puts the one citizen, a priest
  Vision,            \* VISION_RANGE
  AggroRange,        \* how far a creature sees
  MaxCreatures,      \* max_creatures of every hostile region
  Treasures,         \* how many treasures a hostile zone is given
  Players,           \* ids of connections
  Cheaters,          \* bound: players who use the debug commands
  MaxNpcId,          \* bound: ids handed to npcs in one life of the server
  MaxFloor,          \* bound: things on the floor
  MaxCorpses,        \* bound: dead creatures that were not erased
  MaxRestarts        \* bound: restarts of the server

Tiles == (0 .. Width - 1) \X (0 .. Height - 1)

Walkable == Tiles \ Walls

ASSUME WorldAssumption ==
  /\ Width \in Nat \ {0} /\ Height \in Nat \ {0}
  /\ Walls \subseteq Tiles /\ SafeTiles \subseteq Tiles
  /\ PriestTile \in SafeTiles \ Walls
  /\ Vision \in Nat /\ AggroRange \in Nat
  /\ MaxCreatures \in Nat /\ Treasures \in Nat
  /\ Players \subseteq Nat /\ Cheaters \subseteq Players
  /\ MaxNpcId \in Nat /\ MaxFloor \in Nat /\ MaxCorpses \in Nat /\ MaxRestarts \in Nat

VARIABLES
  players_positions,  \* World: where each player in the game is
  player_tiles,       \* World: the tiles taken by players
  pose,               \* Gameloop: the pose kept in each Player
  ghosts,             \* players with no hp
  infinite_hp,        \* players with infinite_hp
  resurrecting,       \* players with is_resurrecting
  pending_resurrects, \* Gameloop: players waiting for a resurrection
  creatures,          \* Gameloop: the pose kept in each Creature
  creature_zone,      \* Gameloop: the zone_id kept in each Creature
  corpses,            \* Gameloop: the creatures without hp that were not erased
  npc_positions,      \* NpcPositions: where each creature is
  npc_tiles,          \* NpcPositions: the tiles taken by npcs
  creatures_count,    \* hostile zones: creatures_count
  treasures_count,    \* hostile zones: treasures_count
  next_npc_id,
  floor,              \* ItemsPositions: items and bags on each tile
  treasures,          \* ItemsPositions: tiles of the closed treasures
  items_tiles,        \* ItemsPositions: the tiles taken by things
  running,            \* the gameloop has not been ended by an exception
  haunted,            \* history: a restart has loaded a dead creature
  restarts            \* bound variable: restarts so far

playerVars == <<players_positions, player_tiles, pose, ghosts, infinite_hp,
                resurrecting, pending_resurrects>>
npcVars == <<creatures, creature_zone, corpses, npc_positions, npc_tiles, creatures_count, next_npc_id>>
floorVars == <<floor, treasures, items_tiles, treasures_count>>
bootVars == <<running, haunted, restarts>>
vars == <<playerVars, npcVars, floorVars, bootVars>>

-----------------------------------------------------------------------------
\* The map.

Apart(i, j) == IF i < j THEN j - i ELSE i - j

distanceBetweenPositions(s, t) == Apart(s[1], t[1]) + Apart(s[2], t[2])

Neighbours(t) == {u \in Tiles : distanceBetweenPositions(t, u) = 1}

\* floodFill: the tiles of t's region that can be reached from t inside it, so
\* the smallest set with t that no neighbour inside the region is missing from.
zoneOf(t) ==
  LET Same == IF t \in SafeTiles THEN SafeTiles ELSE Tiles \ SafeTiles
      Filled(area) == t \in area /\ \A u \in area : Neighbours(u) \cap Same \subseteq area
  IN  {u \in Same : \A area \in SUBSET Same : Filled(area) => u \in area}

\* identifyZones: zones without a walkable tile are left out.
hostile_zones == {z \in {zoneOf(t) : t \in Tiles \ SafeTiles} : z \cap Walkable # {}}

isSafeZONE(t) == t \in SafeTiles

-----------------------------------------------------------------------------
\* Free tiles.  Every place that needs one excludes the same three sets.

InGame == DOMAIN players_positions

Occupied == player_tiles \union npc_tiles \union items_tiles

\* findNearbyFreePosition: the nearest free tile.  Bound: the map is never full
\* (there the code answers with the centre), so the set is not empty.
findNearbyFreePosition(center, occupied) ==
  LET Free == Walkable \ occupied
      Far(t) == distanceBetweenPositions(center, t)
  IN  {t \in Free : \A u \in Free : Far(t) <= Far(u)}

isInPlayerVisionRange(t) ==
  \E p \in InGame : \A axis \in 1 .. 2 : Apart(t[axis], players_positions[p][axis]) <= Vision

\* calculatePositionRandom picks any of these and throws when there is none.
RandomPositions(zone) ==
  {t \in (zone \cap Walkable) \ Occupied : ~isInPlayerVisionRange(t)}

-----------------------------------------------------------------------------
\* The npcs.

\* isAlive: updateCreatures and an attack pass over the others.
Living == DOMAIN creatures \ corpses

\* An emplace: an id that is taken keeps what it has.
Emplaced(f, new) == [c \in DOMAIN f \union DOMAIN new |-> IF c \in DOMAIN f THEN f[c] ELSE new[c]]

Without(f, c) == Restrict(f, DOMAIN f \ {c})

\* The ways to hand out the ids from first on to new creatures on these tiles.
Numberings(first, tiles) ==
  LET ids == first .. first + Cardinality(tiles) - 1
  IN  {at \in [ids -> tiles] : \A c, d \in ids : at[c] = at[d] => c = d}

\* addNpcWorld and the emplace into creatures, for creatures new in a zone.
AddNpcs(new, zone) ==
  /\ creatures' = Emplaced(creatures, new)
  /\ npc_positions' = Emplaced(npc_positions, new)
  /\ creature_zone' = Emplaced(creature_zone, [c \in DOMAIN new |-> zone])
  /\ npc_tiles' = npc_tiles \union {new[c] : c \in DOMAIN new}
  /\ creatures_count' = [creatures_count EXCEPT ![zone] = @ + Cardinality(DOMAIN new)]
  /\ UNCHANGED corpses

Unlist(c) ==
  /\ npc_tiles' = npc_tiles \ {npc_positions[c]}
  /\ npc_positions' = Without(npc_positions, c)

\* Mutant: the zone keeps counting a creature that is gone.
RemoveUncounted(c) == Unlist(c) /\ UNCHANGED creatures_count

removeCreature(c) ==
  /\ Unlist(c)
  /\ creatures_count' = [creatures_count EXCEPT ![creature_zone[c]] = @ - 1]

\* Mutant: the border of the zone does not stop a creature.
WalkableAnywhere(c, t) == t \in Walkable \ Occupied

\* Mutant: creatures walk over things, as players do.
WalkableOverThings(c, t) == t \in (creature_zone[c] \cap Walkable) \ (player_tiles \union npc_tiles)

isCreatureWalkable(c, t) ==
  t \in (creature_zone[c] \cap Walkable) \ Occupied

\* findNearestPlayer: the living players of c's zone that c sees best; the
\* first of them in the order of ids.
Targets(c) ==
  LET Far(p) == distanceBetweenPositions(creatures[c], pose[p])
      Seen == {p \in InGame \ ghosts : /\ pose[p] \in creature_zone[c]
                                       /\ ~isSafeZONE(pose[p])
                                       /\ Far(p) <= AggroRange}
  IN  {p \in Seen : \A r \in Seen : Far(p) < Far(r) \/ (Far(p) = Far(r) /\ p <= r)}

\* moveCreatureTowards: along the longer axis if that tile can be walked on,
\* along the other one if not.
StepsTowards(c, target) ==
  LET from == creatures[c]
      Nearer(i) == IF target[i] < from[i] THEN from[i] - 1 ELSE from[i] + 1
      along(axis) == IF axis = 1 THEN <<Nearer(1), from[2]>> ELSE <<from[1], Nearer(2)>>
      can(axis) == target[axis] # from[axis] /\ isCreatureWalkable(c, along(axis))
      first == IF Apart(from[1], target[1]) >= Apart(from[2], target[2]) THEN 1 ELSE 2
  IN  IF can(first) THEN {along(first)}
      ELSE {along(axis) : axis \in {a \in {3 - first} : can(a)}}

moveCreature(c, t) ==
  /\ npc_tiles' = (npc_tiles \ {npc_positions[c]}) \union {t}
  /\ npc_positions' = [npc_positions EXCEPT ![c] = t]

\* A creature's turn with somebody to chase: moveCreature and updatePose.
CreatureMoves(c) ==
  /\ running
  /\ \E p \in Targets(c) :
       /\ distanceBetweenPositions(creatures[c], pose[p]) > 1
       /\ \E t \in StepsTowards(c, pose[p]) :
            moveCreature(c, t) /\ creatures' = [creatures EXCEPT ![c] = t]
  /\ UNCHANGED <<creature_zone, corpses, creatures_count, next_npc_id, playerVars, floorVars, bootVars>>

\* respawnDeadNpcs in one zone: the creatures if there are few, then the
\* treasures if there never was one.  When tiles run out the exception ends the
\* gameloop, and what was placed before it stays.
respawnDeadNpcs(zone) ==
  LET lacking == IF creatures_count[zone] < MaxCreatures \div 2
                 THEN MaxCreatures - creatures_count[zone] ELSE 0
      missing == IF treasures_count[zone] = 0 THEN Treasures ELSE 0
      room == RandomPositions(zone)
      AtMost(n, tiles) == IF n < Cardinality(tiles) THEN n ELSE Cardinality(tiles)
  IN  /\ running /\ lacking + missing > 0 /\ next_npc_id + lacking <= MaxNpcId
      /\ \E spawned \in SUBSET room :
           \E hidden \in SUBSET (room \ spawned) :
             /\ Cardinality(spawned) = AtMost(lacking, room)
             /\ Cardinality(hidden) = IF Cardinality(spawned) < lacking THEN 0
                                      ELSE AtMost(missing, room \ spawned)
             /\ \E new \in Numberings(next_npc_id, spawned) : AddNpcs(new, zone)
             /\ next_npc_id' = next_npc_id + Cardinality(spawned)
             /\ treasures' = treasures \union hidden
             /\ items_tiles' = items_tiles \union hidden
             /\ treasures_count' = [treasures_count EXCEPT ![zone] = @ + Cardinality(hidden)]
             /\ running' = (Cardinality(spawned) + Cardinality(hidden) = lacking + missing)
      /\ UNCHANGED <<floor, haunted, restarts, playerVars>>

-----------------------------------------------------------------------------
\* Things on the floor.

\* A thing falls as near to the centre as a free tile allows.
Drop(center) ==
  /\ Cardinality({t \in Tiles : floor[t] > 0}) < MaxFloor
  /\ \E t \in findNearbyFreePosition(center, Occupied) :
       /\ floor' = [floor EXCEPT ![t] = @ + 1]
       /\ items_tiles' = items_tiles \union {t}

DropNothing == UNCHANGED <<floor, items_tiles>>

\* dropItem
DropItem(p) ==
  /\ running /\ p \in InGame \ ghosts
  /\ Drop(pose[p])
  /\ UNCHANGED <<treasures, treasures_count, playerVars, npcVars, bootVars>>

\* removeItemTakeToPlayer: one item, one bag of gold and one treasure of the
\* player's tile, which is then free for the tests whatever still lies on it.
PickUp(p) ==
  LET t == pose[p] IN
  /\ running /\ p \in InGame \ ghosts
  /\ t \in items_tiles
  /\ \E left \in {n \in 0 .. floor[t] : n \in {floor[t] - 1, floor[t] - 2} \/ floor[t] = 0} :
       floor' = [floor EXCEPT ![t] = left]
  /\ treasures' = treasures \ {t}
  /\ items_tiles' = items_tiles \ {t}
  /\ UNCHANGED <<treasures_count, playerVars, npcVars, bootVars>>

-----------------------------------------------------------------------------
\* The players.

\* loadingPlayerData and addPlayerWorld.  The saved position is any tile the
\* player once stood on; a player saved without hp comes back with all of it.
Login(p) ==
  /\ running /\ p \notin InGame
  /\ \E saved \in Walkable : \E t \in findNearbyFreePosition(saved, Occupied) :
       /\ players_positions' = Emplaced(players_positions, [c \in {p} |-> t])
       /\ pose' = Emplaced(pose, [c \in {p} |-> t])
       /\ player_tiles' = player_tiles \union {t}
  /\ UNCHANGED <<ghosts, infinite_hp, resurrecting, pending_resurrects, npcVars, floorVars, bootVars>>

\* Mutant: the wait is not erased.
KeepsWaiting(p) == UNCHANGED pending_resurrects

StopsWaiting(p) == pending_resurrects' = pending_resurrects \ {p}

\* processPlayerDisconnet and removePlayer; the Player object goes with all it
\* knows.
Disconnect(p) ==
  /\ running /\ p \in InGame
  /\ player_tiles' = player_tiles \ {players_positions[p]}
  /\ players_positions' = Without(players_positions, p)
  /\ pose' = Without(pose, p)
  /\ StopsWaiting(p)
  /\ ghosts' = ghosts \ {p} /\ infinite_hp' = infinite_hp \ {p}
  /\ resurrecting' = resurrecting \ {p}
  /\ UNCHANGED <<npcVars, floorVars, bootVars>>

\* Mutant: the walls are forgotten.
WalkableThroughWalls(t) == t \notin player_tiles \union npc_tiles

\* isWalkable: players walk over things, not over players and npcs.
isWalkable(t) == t \in Walkable \ (player_tiles \union npc_tiles)

movePlayer(p, t) ==
  /\ player_tiles' = (player_tiles \ {players_positions[p]}) \union {t}
  /\ players_positions' = [players_positions EXCEPT ![p] = t]

\* processMovePlayer.  Ghosts move too.
MovePlayer(p) ==
  /\ running /\ p \in InGame \ pending_resurrects
  /\ \E t \in Neighbours(players_positions[p]) :
       isWalkable(t) /\ movePlayer(p, t) /\ pose' = [pose EXCEPT ![p] = t]
  /\ UNCHANGED <<ghosts, infinite_hp, resurrecting, pending_resurrects, npcVars, floorVars, bootVars>>

\* receiveDamage with as much damage as the victim has hp, and onDeath.
Dies(p) ==
  /\ p \in InGame \ (ghosts \union infinite_hp)
  /\ ghosts' = ghosts \union {p}
  /\ Drop(pose[p]) \/ DropNothing
  /\ UNCHANGED <<players_positions, player_tiles, pose, infinite_hp, resurrecting, pending_resurrects,
                 treasures, treasures_count, npcVars>>

\* processPlayerDebugKill
DebugKill(p) == running /\ p \in Cheaters /\ Dies(p) /\ UNCHANGED bootVars

\* executeCreatureAttack, when the blow kills.  The victim is sent what it has
\* left, which may end the loop.
CreatureAttacks(c) ==
  /\ running
  /\ \E p \in Targets(c) : distanceBetweenPositions(creatures[c], pose[p]) = 1 /\ Dies(p)
  /\ running' \in BOOLEAN /\ UNCHANGED <<haunted, restarts>>

\* executeAttackPlayer, when the blow kills.  An id is looked for among the
\* players first, so a player in the game hides the creature with the same id.
AttackPlayer(p, victim) ==
  /\ running /\ p \in InGame \ ghosts
  /\ victim # p /\ victim \in InGame
  /\ ~isSafeZONE(pose[p]) /\ ~isSafeZONE(pose[victim])
  /\ Dies(victim) /\ UNCHANGED bootVars

erase(c) ==
  /\ creatures' = Without(creatures, c) /\ creature_zone' = Without(creature_zone, c)
  /\ UNCHANGED corpses

\* The message to the attacker ends the command before the erase.
LeftBehind(c) ==
  /\ Cardinality(corpses) < MaxCorpses
  /\ corpses' = corpses \union {c} /\ UNCHANGED <<creatures, creature_zone>>

\* executeAttackPlayer against a creature, when the blow kills.  Its onDeath drops
\* first and frees its tile after.
AttackCreature(p, victim) ==
  /\ running /\ p \in InGame \ ghosts
  /\ victim # p /\ victim \notin InGame /\ victim \in Living
  /\ ~isSafeZONE(pose[p])
  /\ Drop(creatures[victim]) \/ DropNothing
  /\ removeCreature(victim)
  /\ erase(victim) \/ LeftBehind(victim)
  /\ UNCHANGED <<next_npc_id, treasures, treasures_count, playerVars, bootVars>>

\* processPlayerToggleInfiniteHp
ToggleInfiniteHp(p) ==
  /\ running /\ p \in InGame \cap Cheaters
  /\ IF p \in infinite_hp
     THEN infinite_hp' = infinite_hp \ {p} /\ UNCHANGED ghosts
     ELSE infinite_hp' = infinite_hp \union {p} /\ ghosts' = ghosts \ {p}
  /\ UNCHANGED <<players_positions, player_tiles, pose, resurrecting, pending_resurrects,
                 npcVars, floorVars, bootVars>>

\* Mutant: the old tile stays taken.
TeleportLeavesTile(p, center) ==
  \E t \in findNearbyFreePosition(center, Occupied) :
    /\ player_tiles' = player_tiles \union {t}
    /\ players_positions' = [players_positions EXCEPT ![p] = t]
    /\ pose' = [pose EXCEPT ![p] = t]

\* teleportPlayer: the old tile is given up before a free one is looked for.
teleportPlayer(p, center) ==
  LET others == player_tiles \ {players_positions[p]}
      occupied == others \union npc_tiles \union items_tiles
  IN  \E t \in findNearbyFreePosition(center, occupied) :
           /\ player_tiles' = others \union {t}
           /\ players_positions' = [players_positions EXCEPT ![p] = t]
           /\ pose' = [pose EXCEPT ![p] = t]

\* resurrectPlayerAtHealer and the priest's resurrect.
resurrectPlayerAtHealer(p) ==
  /\ teleportPlayer(p, PriestTile)
  /\ ghosts' = ghosts \ {p}
  /\ resurrecting' = resurrecting \ {p}
  /\ UNCHANGED <<infinite_hp, npcVars, floorVars>>

\* processPlayerResurrect for a ghost, with a priest at hand or without.
CanAskToResurrect(p) == running /\ p \in ghosts \ (resurrecting \union pending_resurrects)

ResurrectAtPriest(p) ==
  /\ CanAskToResurrect(p)
  /\ distanceBetweenPositions(pose[p], PriestTile) <= 3
  /\ resurrectPlayerAtHealer(p)
  /\ UNCHANGED <<pending_resurrects, bootVars>>

StartResurrection(p) ==
  /\ CanAskToResurrect(p)
  /\ resurrecting' = resurrecting \union {p}
  /\ pending_resurrects' = pending_resurrects \union {p}
  /\ UNCHANGED <<players_positions, player_tiles, pose, ghosts, infinite_hp, npcVars, floorVars, bootVars>>

\* Mutant: a player who is alive by now is passed over.
FinishGhosts(p) ==
  /\ running /\ p \in pending_resurrects \cap ghosts
  /\ resurrectPlayerAtHealer(p)
  /\ StopsWaiting(p) /\ UNCHANGED bootVars

\* updatePendingResurrects, when a delay is over.  The code looks the player up
\* with at().  The player is told before the wait is erased, which may end the loop.
FinishResurrection(p) ==
  /\ running /\ p \in pending_resurrects
  /\ \/ StopsWaiting(p) /\ UNCHANGED running
     \/ UNCHANGED pending_resurrects /\ running' = FALSE
  /\ resurrectPlayerAtHealer(p)
  /\ UNCHANGED <<haunted, restarts>>

-----------------------------------------------------------------------------
\* The server starts.

\* What a fresh zone is given: with a maximum of one, the threshold is zero.
Spawned == IF MaxCreatures \div 2 > 0 THEN MaxCreatures ELSE 0

\* The citizen of a first start takes id 0.  spawnCreaturesZones then gives every
\* zone its creatures, on free tiles, spawnTreasuresZones its treasures; were there no room for
\* them the server would not start.
Init ==
  /\ players_positions = <<>> /\ player_tiles = {} /\ pose = <<>>
  /\ ghosts = {} /\ infinite_hp = {} /\ resurrecting = {} /\ pending_resurrects = {}
  /\ \E homes \in SUBSET UNION hostile_zones :
       /\ homes \subseteq Walkable \ {PriestTile}
       /\ \A z \in hostile_zones : Cardinality(homes \cap z) = Spawned
       /\ npc_tiles = {PriestTile} \union homes
       /\ creatures \in Numberings(1, homes)
       /\ next_npc_id = 1 + Cardinality(homes)
  /\ npc_positions = creatures /\ corpses = {}
  /\ creature_zone = [c \in DOMAIN creatures |-> CHOOSE z \in hostile_zones : creatures[c] \in z]
  /\ creatures_count = [z \in hostile_zones |-> Spawned]
  /\ treasures \in SUBSET (Walkable \ (SafeTiles \union npc_tiles))
  /\ \A z \in hostile_zones : Cardinality(treasures \cap z) = Treasures
  /\ treasures_count = [z \in hostile_zones |-> Treasures]
  /\ floor = [t \in Tiles |-> 0] /\ items_tiles = treasures
  /\ running = TRUE /\ haunted = FALSE /\ restarts = 0

\* loadCitizen and then loadCreature, in the order of the old ids.  Here the counter
\* is raised before an id is used, so the last creature keeps the value of the
\* counter as its id.  What is read is a creature with all its hp, on the tile
\* where it was: updateStateWorld saved the dead with the others.
loadCreatures ==
  LET renumbered(c) == 1 + Cardinality({d \in DOMAIN creatures : d <= c})
      old(id) == CHOOSE c \in DOMAIN creatures : renumbered(c) = id
      ids == {renumbered(c) : c \in DOMAIN creatures}
  IN  /\ corpses' = {} /\ haunted' = (haunted \/ corpses # {})
      /\ creatures' = [id \in ids |-> creatures[old(id)]]
      /\ npc_positions' = creatures'
      /\ creature_zone' = [id \in ids |-> creature_zone[old(id)]]
      /\ npc_tiles' = {PriestTile} \union Range(creatures')
      /\ creatures_count' = [z \in hostile_zones |-> Cardinality({c \in ids : creature_zone'[c] = z})]
      /\ next_npc_id' = 1 + Cardinality(ids)

\* loadTreasuresZones, loadGoldBags and loadItems.
loadItemsInTheFloor ==
  /\ treasures_count' = [z \in hostile_zones |-> Cardinality(treasures \cap z)]
  /\ items_tiles' = treasures \union {t \in Tiles : floor[t] > 0}
  /\ UNCHANGED <<floor, treasures>>

\* A restart loads what was saved.
Restart ==
  /\ restarts < MaxRestarts /\ restarts' = restarts + 1 /\ running' = TRUE
  /\ players_positions' = <<>> /\ player_tiles' = {} /\ pose' = <<>>
  /\ ghosts' = {} /\ infinite_hp' = {} /\ resurrecting' = {} /\ pending_resurrects' = {}
  /\ loadCreatures
  /\ loadItemsInTheFloor

Next ==
  \/ \E p \in Players :
       \/ Login(p) \/ Disconnect(p) \/ MovePlayer(p) \/ DropItem(p) \/ PickUp(p)
       \/ DebugKill(p) \/ ToggleInfiniteHp(p)
       \/ \E victim \in Players : AttackPlayer(p, victim)
       \/ \E victim \in 1 .. MaxNpcId : AttackCreature(p, victim)
       \/ ResurrectAtPriest(p) \/ StartResurrection(p) \/ FinishResurrection(p)
  \/ \E c \in Living : CreatureMoves(c) \/ CreatureAttacks(c)
  \/ \E zone \in hostile_zones : respawnDeadNpcs(zone)
  \/ Restart

\* The gameloop ticks on, so a delay that has begun ends.  Nothing is assumed of
\* players, creatures or restarts.
Fairness == \A p \in Players : WF_vars(FinishResurrection(p))

Spec == Init /\ [][Next]_vars /\ Fairness

-----------------------------------------------------------------------------
\* Players in the game, and creatures and counters of the zones.  The world
\* has every living creature and none that the gameloop has erased.
TypeOK ==
  /\ InGame \subseteq Players /\ DOMAIN pose = InGame
  /\ ghosts \subseteq InGame /\ infinite_hp \subseteq InGame \ ghosts
  /\ DOMAIN creature_zone = DOMAIN creatures /\ corpses \subseteq DOMAIN creatures
  /\ Living \subseteq DOMAIN npc_positions /\ DOMAIN npc_positions \subseteq DOMAIN creatures
  /\ creatures_count \in [hostile_zones -> Nat]
  /\ treasures_count \in [hostile_zones -> 0 .. Treasures]
  /\ floor \in [Tiles -> 0 .. MaxFloor] /\ treasures \subseteq Walkable
  /\ running \in BOOLEAN /\ haunted \in BOOLEAN

\* The copies of a position agree, and the three sets that the free-tile tests
\* read hold the tiles that are really taken, through moves, teleports, deaths,
\* drops and reloads.  No player is on a tile that cannot be walked on.  A
\* creature killed for an attacker who had gone has left the world and not the
\* gameloop; a restart sets it back on its tile, which somebody else may have by
\* then and give up for both.
TilesAreTrue ==
  /\ pose = players_positions
  /\ player_tiles = Range(players_positions) /\ player_tiles \subseteq Walkable
  /\ \A c \in Living : npc_positions[c] = creatures[c]
  /\ ~haunted => Range(npc_positions) \union {PriestTile} \subseteq npc_tiles
  /\ items_tiles = treasures \union {t \in Tiles : floor[t] > 0}

\* Two players or two things are never on one tile, nor anyone on the priest.
\* Nor are two creatures, or a creature and a player or a thing, until a restart
\* loads a dead creature.
NoTwoOnATile ==
  /\ IsInjective(players_positions)
  /\ PriestTile \notin Range(npc_positions) \union player_tiles
  /\ \A t \in Tiles : floor[t] + (IF t \in treasures THEN 1 ELSE 0) <= 1
  /\ ~haunted => /\ IsInjective(npc_positions)
                 /\ npc_tiles \cap (player_tiles \union items_tiles) = {}

\* Creatures that chase players stop at the border of the zone they were
\* spawned in, so a city is safe from them.
CreaturesKeepTheirZone == \A c \in Living : npc_positions[c] \in creature_zone[c]

LivingIn(z) == {c \in Living : creature_zone[c] = z}

\* "SpawnManager respawnea criaturas periodicamente respetando la poblacion
\* maxima por zona".  The count a zone respawns by is that of its living
\* creatures, but for at most one creature that is counted and does not exist,
\* after a restart: the first creature spawned then may get the id of the last
\* one loaded.  Only a dead creature that is loaded again may exceed the maximum.
PopulationIsCounted ==
  /\ TypeOK
  /\ \A z \in hostile_zones :
       /\ creatures_count[z] - Cardinality(LivingIn(z)) \in {0, IF restarts > 0 THEN 1 ELSE 0}
       /\ ~haunted => creatures_count[z] <= MaxCreatures

\* Everyone who waits to be resurrected is in the game: updatePendingResurrects
\* would end the gameloop on a player who left.  And while the loop runs nobody
\* keeps is_resurrecting without waiting, which would forbid asking again.
PendingPlayersAreHere ==
  pending_resurrects \subseteq InGame /\ (running => resurrecting = pending_resurrects)

\* A player who waits to be resurrected does not wait, unable to move, for ever.
ResurrectionComes ==
  \A p \in Players : p \in pending_resurrects ~> (p \notin pending_resurrects \/ ~running)
=============================================================================
