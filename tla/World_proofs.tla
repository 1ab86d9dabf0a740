---------------------------- MODULE World_proofs ----------------------------
(***************************************************************************)
(* The tables of tiles are true, nobody shares a tile and whoever waits to *)
(* be resurrected is in the game, creatures keep to their zones, and the   *)
(* counts that zones respawn by are true, on every map and for any number  *)
(* of players and creatures.                                               *)
(***************************************************************************)
EXTENDS World, FiniteSetTheorems, TLAPS

-----------------------------------------------------------------------------
(***************************************************************************)
(* Tables of positions.                                                    *)
(***************************************************************************)

\* One of a table goes to a tile that no other has.
LEMMA OneMoves ==
  ASSUME NEW f, IsInjective(f), NEW p \in DOMAIN f, NEW t, t \notin Range(f) \ {f[p]}, NEW g,
         DOMAIN g = DOMAIN f, g[p] = t, \A x \in DOMAIN f : x # p => g[x] = f[x]
  PROVE  /\ IsInjective(g)
         /\ Range(g) = (Range(f) \ {f[p]}) \union {t}
<1>1. DOMAIN g = DOMAIN f /\ g[p] = t /\ \A x \in DOMAIN f : x # p => g[x] = f[x]
  OBVIOUS
<1>2. \A x \in DOMAIN f : x # p => f[x] # f[p] /\ f[x] \in Range(f)
  BY DEF IsInjective, Range
<1>3. \A x \in DOMAIN f : x # p => g[x] # t
  BY <1>1, <1>2
<1>4. IsInjective(g)
  <2> SUFFICES ASSUME NEW x \in DOMAIN f, NEW y \in DOMAIN f, g[x] = g[y] PROVE x = y
    BY <1>1 DEF IsInjective
  <2>1. CASE x = p \/ y = p
    BY <1>1, <1>3, <2>1
  <2>2. CASE x # p /\ y # p
    BY <1>1, <2>2 DEF IsInjective
  <2> QED BY <2>1, <2>2
<1>5. Range(g) = (Range(f) \ {f[p]}) \union {t}
  <2>1. ASSUME NEW v \in Range(g) PROVE v \in (Range(f) \ {f[p]}) \union {t}
    <3>1. PICK x \in DOMAIN f : v = g[x]
      BY <1>1 DEF Range
    <3> QED BY <1>1, <1>2, <3>1
  <2>2. ASSUME NEW v \in Range(f), v # f[p] PROVE v \in Range(g)
    <3>1. PICK x \in DOMAIN f : v = f[x]
      BY DEF Range
    <3> QED BY <1>1, <2>2, <3>1 DEF Range
  <2>3. t \in Range(g)
    BY <1>1 DEF Range
  <2> QED BY <2>1, <2>2, <2>3
<1> QED BY <1>1, <1>4, <1>5

\* New ones with tiles of their own join a table.
LEMMA SomeJoin ==
  ASSUME NEW f, IsInjective(f), NEW new, IsInjective(new), Range(f) \cap Range(new) = {}, NEW g,
         g = Emplaced(f, new)
  PROVE  /\ IsInjective(g) /\ DOMAIN g = DOMAIN f \union DOMAIN new
         /\ Range(f) \subseteq Range(g) /\ Range(g) \subseteq Range(f) \union Range(new)
         /\ DOMAIN f \cap DOMAIN new = {} => Range(g) = Range(f) \union Range(new)
<1>1. /\ DOMAIN g = DOMAIN f \union DOMAIN new
      /\ \A x \in DOMAIN f : g[x] = f[x]
      /\ \A x \in DOMAIN new : x \notin DOMAIN f => g[x] = new[x]
  BY DEF Emplaced
<1>2. (\A x \in DOMAIN f : f[x] \in Range(f)) /\ (\A x \in DOMAIN new : new[x] \in Range(new))
  BY DEF Range
<1>3. IsInjective(g)
  <2> SUFFICES ASSUME NEW x \in DOMAIN g, NEW y \in DOMAIN g, g[x] = g[y] PROVE x = y
    BY DEF IsInjective
  <2>1. CASE x \in DOMAIN f /\ y \in DOMAIN f
    BY <1>1, <2>1 DEF IsInjective
  <2>2. CASE x \in DOMAIN f /\ y \notin DOMAIN f
    BY <1>1, <1>2, <2>2
  <2>3. CASE x \notin DOMAIN f /\ y \in DOMAIN f
    BY <1>1, <1>2, <2>3
  <2>4. CASE x \notin DOMAIN f /\ y \notin DOMAIN f
    BY <1>1, <2>4 DEF IsInjective
  <2> QED BY <2>1, <2>2, <2>3, <2>4
<1>4. Range(f) \subseteq Range(g)
  BY <1>1 DEF Range
<1>5. Range(g) \subseteq Range(f) \union Range(new)
  BY <1>1 DEF Range
<1>6. DOMAIN f \cap DOMAIN new = {} => Range(new) \subseteq Range(g)
  BY <1>1 DEF Range
<1> QED BY <1>1, <1>3, <1>4, <1>5, <1>6

\* One of a table goes, and leaves its tile.
LEMMA OneGoes ==
  ASSUME NEW f, NEW p \in DOMAIN f, NEW g, g = Without(f, p)
  PROVE  /\ DOMAIN g = DOMAIN f \ {p} /\ (\A x \in DOMAIN g : g[x] = f[x]) /\ Range(g) \subseteq Range(f)
         /\ IsInjective(f) => IsInjective(g) /\ Range(g) = Range(f) \ {f[p]}
<1>1. DOMAIN g = DOMAIN f \ {p} /\ \A x \in DOMAIN g : g[x] = f[x]
  BY DEF Without, Restrict
<1>2. IsInjective(f) => IsInjective(g)
  BY <1>1 DEF IsInjective
<1>3. Range(g) \subseteq Range(f)
  BY <1>1 DEF Range
<1>4. IsInjective(f) => \A v : v \in Range(g) <=> v \in Range(f) \ {f[p]}
  BY <1>1 DEF Range, IsInjective
<1> QED BY <1>1, <1>2, <1>3, <1>4

-----------------------------------------------------------------------------
(***************************************************************************)
(* The invariant: the tables of the players, of the npcs and of the floor  *)
(* are true, each injective, and kept apart.                               *)
(***************************************************************************)

PlayersTrue ==
  /\ pose = players_positions
  /\ player_tiles = Range(players_positions) /\ player_tiles \subseteq Walkable
  /\ IsInjective(players_positions)
  /\ PriestTile \notin player_tiles

\* The gameloop has every creature of the world, and the world the living ones
\* of the gameloop.
NpcsTrue ==
  /\ DOMAIN creature_zone = DOMAIN creatures /\ corpses \subseteq DOMAIN creatures
  /\ Living \subseteq DOMAIN npc_positions /\ DOMAIN npc_positions \subseteq DOMAIN creatures
  /\ \A c \in Living : npc_positions[c] = creatures[c]
  /\ PriestTile \notin Range(npc_positions) \union Range(creatures)
  /\ PriestTile \in npc_tiles

FloorTrue ==
  /\ floor \in [Tiles -> Nat]
  /\ items_tiles = treasures \union {t \in Tiles : floor[t] > 0}
  /\ \A t \in Tiles : floor[t] + (IF t \in treasures THEN 1 ELSE 0) <= 1

\* What a dead creature that is loaded again breaks.
NpcsApart == IsInjective(npc_positions) /\ Range(npc_positions) \subseteq npc_tiles

TilesApart == npc_tiles \cap (player_tiles \union items_tiles) = {}

\* Ghosts are in the game too: only they may ask to be resurrected.
WaitersHere == ghosts \subseteq InGame /\ PendingPlayersAreHere

WorldInv ==
  /\ PlayersTrue /\ NpcsTrue /\ FloorTrue /\ WaitersHere
  /\ ~haunted => NpcsApart /\ TilesApart

LEMMA FreeTiles ==
  /\ Walkable \subseteq Tiles /\ PriestTile \in Walkable
  /\ \A center, occupied : findNearbyFreePosition(center, occupied) \subseteq Walkable \ occupied
  /\ \A zone : RandomPositions(zone) \subseteq Walkable \ Occupied
BY WorldAssumption DEF WorldAssumption, Walkable, findNearbyFreePosition, RandomPositions

\* A player goes to a tile no player and no npc is on.
LEMMA PlayerGoes ==
  ASSUME PlayersTrue, PriestTile \in npc_tiles, NEW p \in InGame, NEW t \in Walkable,
         t \notin player_tiles \ {players_positions[p]}, t \notin npc_tiles,
         players_positions' = [players_positions EXCEPT ![p] = t], pose' = [pose EXCEPT ![p] = t],
         player_tiles' = (player_tiles \ {players_positions[p]}) \union {t},
         UNCHANGED <<npc_tiles, items_tiles>>
  PROVE  PlayersTrue' /\ (TilesApart => TilesApart') /\ InGame' = InGame
<1> DEFINE f == players_positions
           g == players_positions'
<1>1. /\ IsInjective(f) /\ p \in DOMAIN f /\ t \notin Range(f) \ {f[p]}
      /\ DOMAIN g = DOMAIN f /\ g[p] = t /\ \A x \in DOMAIN f : x # p => g[x] = f[x]
  BY DEF PlayersTrue, InGame
<1> HIDE DEF f, g
<1>2. IsInjective(g) /\ DOMAIN g = DOMAIN f /\ Range(g) = (Range(f) \ {f[p]}) \union {t}
  BY <1>1, OneMoves
<1>3. PlayersTrue'
  <2>1. /\ pose' = g /\ player_tiles' = Range(g) /\ player_tiles' \subseteq Walkable
        /\ PriestTile \notin player_tiles'
    BY <1>2 DEF PlayersTrue, f, g
  <2> QED BY <1>2, <2>1 DEF PlayersTrue, g
<1>4. TilesApart => TilesApart'
  BY DEF TilesApart
<1> QED BY <1>2, <1>3, <1>4 DEF InGame, f, g

LEMMA TeleportKeeps ==
  ASSUME PlayersTrue, PriestTile \in npc_tiles, NEW p \in InGame, NEW center, teleportPlayer(p, center),
         UNCHANGED <<npc_tiles, items_tiles>>
  PROVE  PlayersTrue' /\ (TilesApart => TilesApart') /\ InGame' = InGame
<1> DEFINE others == player_tiles \ {players_positions[p]}
<1>1. PICK t \in findNearbyFreePosition(center, others \union npc_tiles \union items_tiles) :
        /\ player_tiles' = others \union {t}
        /\ players_positions' = [players_positions EXCEPT ![p] = t]
        /\ pose' = [pose EXCEPT ![p] = t]
  BY DEF teleportPlayer
<1>2. t \in Walkable /\ t \notin others /\ t \notin npc_tiles
  BY FreeTiles
<1> QED BY <1>1, <1>2, PlayerGoes

\* Steps that leave the npcs, or the things, as they are.
LEMMA NpcsStay ==
  ASSUME NpcsTrue, UNCHANGED npcVars
  PROVE  NpcsTrue' /\ (NpcsApart => NpcsApart')
BY DEF NpcsTrue, NpcsApart, Living, npcVars

LEMMA FloorStays ==
  ASSUME FloorTrue, UNCHANGED floorVars
  PROVE  FloorTrue'
BY DEF FloorTrue, floorVars

LEMMA LoginKeeps ==
  ASSUME WorldInv, NEW p \in Players, Login(p)
  PROVE  WorldInv'
<1>1. PICK t \in Walkable \ Occupied :
        /\ players_positions' = Emplaced(players_positions, [c \in {p} |-> t])
        /\ pose' = Emplaced(pose, [c \in {p} |-> t])
        /\ player_tiles' = player_tiles \union {t}
  BY FreeTiles DEF Login
<1>2. /\ UNCHANGED <<ghosts, infinite_hp, resurrecting, pending_resurrects, npcVars, floorVars, bootVars>>
      /\ p \notin InGame
  BY DEF Login
<1> DEFINE f == players_positions
           g == players_positions'
           new == [c \in {p} |-> t]
<1>3. IsInjective(new) /\ Range(new) = {t} /\ DOMAIN new = {p}
  BY DEF IsInjective, Range
<1>4. IsInjective(f) /\ Range(f) \cap {t} = {} /\ DOMAIN f \cap {p} = {} /\ g = Emplaced(f, new)
  BY <1>1, <1>2 DEF WorldInv, PlayersTrue, InGame, Occupied
<1> HIDE DEF f, g, new
<1>5. /\ IsInjective(g) /\ DOMAIN g = DOMAIN f \union {p} /\ Range(g) = Range(f) \union {t}
  BY <1>3, <1>4, SomeJoin
<1>6. PlayersTrue'
  <2>1. /\ pose' = g /\ player_tiles' = Range(g) /\ player_tiles' \subseteq Walkable
        /\ PriestTile \notin player_tiles'
    BY <1>1, <1>5 DEF WorldInv, PlayersTrue, NpcsTrue, Occupied, f, g, new
  <2> QED BY <1>5, <2>1 DEF PlayersTrue, g
<1>7. TilesApart => TilesApart'
  BY <1>1, <1>2 DEF TilesApart, Occupied, npcVars, floorVars
<1>8. WaitersHere'
  BY <1>2, <1>5 DEF WorldInv, WaitersHere, PendingPlayersAreHere, InGame, bootVars, f, g
<1>9. NpcsTrue' /\ FloorTrue' /\ (NpcsApart => NpcsApart')
  BY <1>2, NpcsStay, FloorStays DEF WorldInv
<1> QED BY <1>2, <1>6, <1>7, <1>8, <1>9 DEF WorldInv, bootVars

LEMMA DisconnectKeeps ==
  ASSUME WorldInv, NEW p \in Players, Disconnect(p)
  PROVE  WorldInv'
<1> DEFINE f == players_positions
           g == players_positions'
<1>1. /\ IsInjective(f) /\ p \in DOMAIN f /\ g = Without(f, p)
      /\ UNCHANGED <<npcVars, floorVars, bootVars>>
      /\ player_tiles' = player_tiles \ {f[p]} /\ pose' = g
      /\ player_tiles = Range(f) /\ player_tiles \subseteq Walkable /\ PriestTile \notin player_tiles
  BY DEF Disconnect, InGame, WorldInv, PlayersTrue
<1> HIDE DEF f, g
<1>2. IsInjective(g) /\ DOMAIN g = DOMAIN f \ {p} /\ Range(g) = Range(f) \ {f[p]}
  BY <1>1, OneGoes
<1>3. PlayersTrue'
  BY <1>1, <1>2 DEF PlayersTrue, g
<1>4. TilesApart => TilesApart'
  BY <1>1 DEF TilesApart, npcVars, floorVars
<1>5. WaitersHere'
  <2>1. /\ ghosts' = ghosts \ {p} /\ resurrecting' = resurrecting \ {p}
        /\ pending_resurrects' = pending_resurrects \ {p} /\ running' = running
    BY <1>1 DEF Disconnect, StopsWaiting, bootVars
  <2> QED BY <1>2, <2>1 DEF WorldInv, WaitersHere, PendingPlayersAreHere, InGame, f, g
<1>6. NpcsTrue' /\ FloorTrue' /\ (NpcsApart => NpcsApart')
  BY <1>1, NpcsStay, FloorStays DEF WorldInv
<1> QED BY <1>1, <1>3, <1>4, <1>5, <1>6 DEF WorldInv, bootVars

LEMMA MovePlayerKeeps ==
  ASSUME WorldInv, NEW p \in Players, MovePlayer(p)
  PROVE  WorldInv'
<1>1. PICK t : isWalkable(t) /\ movePlayer(p, t) /\ pose' = [pose EXCEPT ![p] = t]
  BY DEF MovePlayer
<1>2. /\ UNCHANGED <<ghosts, resurrecting, pending_resurrects, npcVars, floorVars, bootVars>>
      /\ p \in InGame
  BY DEF MovePlayer
<1>3. PlayersTrue' /\ (TilesApart => TilesApart') /\ InGame' = InGame
  <2>1. t \in Walkable /\ t \notin player_tiles /\ t \notin npc_tiles
    BY <1>1 DEF isWalkable
  <2>2. UNCHANGED <<npc_tiles, items_tiles>>
    BY <1>2 DEF npcVars, floorVars
  <2>3. PlayersTrue /\ PriestTile \in npc_tiles
    BY DEF WorldInv, NpcsTrue
  <2> QED BY <1>1, <1>2, <2>1, <2>2, <2>3, PlayerGoes DEF movePlayer
<1>4. NpcsTrue' /\ FloorTrue' /\ (NpcsApart => NpcsApart')
  BY <1>2, NpcsStay, FloorStays DEF WorldInv
<1>5. WaitersHere'
  BY <1>2, <1>3 DEF WorldInv, WaitersHere, PendingPlayersAreHere, bootVars
<1> QED BY <1>2, <1>3, <1>4, <1>5 DEF WorldInv, bootVars

LEMMA ResurrectionKeeps ==
  ASSUME WorldInv, NEW p \in InGame, resurrectPlayerAtHealer(p), haunted' = haunted,
         \/ StopsWaiting(p) /\ running' = running
         \/ UNCHANGED pending_resurrects /\ (running' => running /\ p \notin resurrecting)
  PROVE  WorldInv'
<1>1. /\ teleportPlayer(p, PriestTile) /\ UNCHANGED <<npcVars, floorVars>>
      /\ ghosts' = ghosts \ {p} /\ resurrecting' = resurrecting \ {p}
  BY DEF resurrectPlayerAtHealer
<1>2. PlayersTrue' /\ (TilesApart => TilesApart') /\ InGame' = InGame
  <2>1. UNCHANGED <<npc_tiles, items_tiles>>
    BY <1>1 DEF npcVars, floorVars
  <2>2. PlayersTrue /\ PriestTile \in npc_tiles
    BY DEF WorldInv, NpcsTrue
  <2> QED BY <1>1, <2>1, <2>2, TeleportKeeps
<1>3. WaitersHere'
  BY <1>1, <1>2 DEF WorldInv, WaitersHere, PendingPlayersAreHere, StopsWaiting
<1>4. NpcsTrue' /\ FloorTrue' /\ (NpcsApart => NpcsApart')
  BY <1>1, NpcsStay, FloorStays DEF WorldInv
<1> QED BY <1>2, <1>3, <1>4 DEF WorldInv

-----------------------------------------------------------------------------
(***************************************************************************)
(* The floor.                                                              *)
(***************************************************************************)

\* A thing falls on a tile nothing and nobody is on.
LEMMA DropKeeps ==
  ASSUME FloorTrue, NEW center, Drop(center) \/ DropNothing,
         UNCHANGED <<treasures, player_tiles>>, npc_tiles' \subseteq npc_tiles
  PROVE  FloorTrue' /\ (TilesApart => TilesApart')
<1>1. CASE DropNothing
  BY <1>1 DEF DropNothing, FloorTrue, TilesApart
<1>2. CASE Drop(center)
  <2>1. PICK t \in Walkable \ Occupied :
          /\ floor' = [floor EXCEPT ![t] = @ + 1]
          /\ items_tiles' = items_tiles \union {t}
    BY <1>2, FreeTiles DEF Drop
  <2>2. t \in Tiles /\ t \notin items_tiles /\ t \notin npc_tiles
    BY <2>1, FreeTiles DEF Occupied
  <2>3. floor[t] = 0 /\ t \notin treasures
    BY <2>2 DEF FloorTrue
  <2>4. /\ floor' \in [Tiles -> Nat] /\ floor'[t] = 1
        /\ \A u \in Tiles : u # t => floor'[u] = floor[u]
    BY <2>1, <2>2, <2>3 DEF FloorTrue
  <2>5. items_tiles' = treasures' \union {u \in Tiles : floor'[u] > 0}
    BY <2>1, <2>2, <2>4 DEF FloorTrue
  <2>6. \A u \in Tiles : floor'[u] + (IF u \in treasures' THEN 1 ELSE 0) <= 1
    BY <2>2, <2>3, <2>4 DEF FloorTrue
  <2>7. TilesApart => TilesApart'
    BY <2>1, <2>2 DEF TilesApart
  <2> QED BY <2>4, <2>5, <2>6, <2>7 DEF FloorTrue
<1> QED BY <1>1, <1>2

\* Steps that leave the players, and whether the loop runs, as they are.
LEMMA PlayersStay ==
  ASSUME PlayersTrue, WaitersHere, UNCHANGED playerVars, running' = running
  PROVE  PlayersTrue' /\ WaitersHere'
BY DEF PlayersTrue, WaitersHere, PendingPlayersAreHere, InGame, playerVars

LEMMA DropItemKeeps ==
  ASSUME WorldInv, NEW p \in Players, DropItem(p)
  PROVE  WorldInv'
<1>1. Drop(pose[p]) /\ UNCHANGED <<treasures, playerVars, npcVars, bootVars>>
  BY DEF DropItem
<1>2. FloorTrue' /\ (TilesApart => TilesApart')
  <2>1. UNCHANGED <<treasures, player_tiles>> /\ npc_tiles' \subseteq npc_tiles
    BY <1>1 DEF playerVars, npcVars
  <2> QED BY <1>1, <2>1, DropKeeps DEF WorldInv
<1>3. NpcsTrue' /\ (NpcsApart => NpcsApart')
  BY <1>1, NpcsStay DEF WorldInv
<1>4. PlayersTrue' /\ WaitersHere' /\ haunted' = haunted
  BY <1>1, PlayersStay DEF WorldInv, bootVars
<1> QED BY <1>2, <1>3, <1>4 DEF WorldInv

LEMMA PickUpKeeps ==
  ASSUME WorldInv, NEW p \in Players, PickUp(p)
  PROVE  WorldInv'
<1>1. PICK t : t = pose[p]
  OBVIOUS
<1>2. PICK left \in {n \in 0 .. floor[t] : n \in {floor[t] - 1, floor[t] - 2} \/ floor[t] = 0} :
        floor' = [floor EXCEPT ![t] = left]
  BY <1>1 DEF PickUp
<1>3. /\ treasures' = treasures \ {t} /\ items_tiles' = items_tiles \ {t}
      /\ UNCHANGED <<playerVars, npcVars, bootVars>> /\ p \in InGame
  BY <1>1 DEF PickUp
<1>4. t \in Tiles
  BY <1>1, <1>3, FreeTiles DEF WorldInv, PlayersTrue, InGame, Range
<1>5. left = 0
  <2>1. floor[t] \in Nat /\ floor[t] <= 1
    BY <1>4 DEF WorldInv, FloorTrue
  <2> QED BY <1>2, <2>1
<1>6. /\ floor' \in [Tiles -> Nat] /\ floor'[t] = 0
      /\ \A u \in Tiles : u # t => floor'[u] = floor[u]
  BY <1>2, <1>4, <1>5 DEF WorldInv, FloorTrue
<1>7. items_tiles' = treasures' \union {u \in Tiles : floor'[u] > 0}
  BY <1>3, <1>6 DEF WorldInv, FloorTrue
<1>8. \A u \in Tiles : floor'[u] + (IF u \in treasures' THEN 1 ELSE 0) <= 1
  BY <1>3, <1>6 DEF WorldInv, FloorTrue
<1>9. TilesApart => TilesApart'
  BY <1>3 DEF TilesApart, playerVars, npcVars
<1>10. NpcsTrue' /\ (NpcsApart => NpcsApart')
  BY <1>3, NpcsStay DEF WorldInv
<1>11. PlayersTrue' /\ WaitersHere' /\ haunted' = haunted
  BY <1>3, PlayersStay DEF WorldInv, bootVars
<1> QED BY <1>6, <1>7, <1>8, <1>9, <1>10, <1>11 DEF WorldInv, FloorTrue

\* Who dies stays where it was, and what it drops lies on a tile of its own.
LEMMA DiesKeeps ==
  ASSUME WorldInv, NEW p, Dies(p), haunted' = haunted, running' => running
  PROVE  WorldInv'
<1>1. /\ p \in InGame /\ ghosts' = ghosts \union {p}
      /\ Drop(pose[p]) \/ DropNothing
      /\ UNCHANGED <<players_positions, player_tiles, pose, resurrecting, pending_resurrects, treasures, npcVars>>
  BY DEF Dies
<1>2. FloorTrue' /\ (TilesApart => TilesApart')
  <2>1. UNCHANGED <<treasures, player_tiles>> /\ npc_tiles' \subseteq npc_tiles
    BY <1>1 DEF npcVars
  <2> QED BY <1>1, <2>1, DropKeeps DEF WorldInv
<1>3. NpcsTrue' /\ (NpcsApart => NpcsApart')
  BY <1>1, NpcsStay DEF WorldInv
<1>4. PlayersTrue' /\ WaitersHere'
  BY <1>1 DEF WorldInv, PlayersTrue, WaitersHere, PendingPlayersAreHere, InGame
<1> QED BY <1>2, <1>3, <1>4 DEF WorldInv

-----------------------------------------------------------------------------
(***************************************************************************)
(* The creatures.                                                          *)
(***************************************************************************)

\* A chase ends on tiles nothing and nobody is on.
LEMMA StepsAreFree ==
  ASSUME NEW c, NEW goal, NEW t \in StepsTowards(c, goal)
  PROVE  t \in Walkable \ Occupied
BY DEF StepsTowards, isCreatureWalkable

LEMMA CreatureMovesKeeps ==
  ASSUME WorldInv, NEW c \in Living, CreatureMoves(c)
  PROVE  WorldInv'
<1> PICK goal : \E t \in StepsTowards(c, goal) :
        moveCreature(c, t) /\ creatures' = [creatures EXCEPT ![c] = t]
  BY DEF CreatureMoves
<1>1. PICK t \in StepsTowards(c, goal) : moveCreature(c, t) /\ creatures' = [creatures EXCEPT ![c] = t]
  OBVIOUS
<1>2. t \in Walkable \ Occupied
  BY StepsAreFree
<1>3. UNCHANGED <<playerVars, floorVars, bootVars, creature_zone, corpses>>
  BY DEF CreatureMoves
<1> DEFINE f == npc_positions
           g == npc_positions'
<1>4. /\ c \in DOMAIN f /\ t \notin npc_tiles /\ PriestTile \in npc_tiles
      /\ DOMAIN g = DOMAIN f /\ g[c] = t /\ \A x \in DOMAIN f : x # c => g[x] = f[x]
      /\ npc_tiles' = (npc_tiles \ {f[c]}) \union {t}
      /\ PriestTile \notin Range(f)
  BY <1>1, <1>2 DEF moveCreature, WorldInv, NpcsTrue, Occupied
<1>5. PriestTile # t /\ PriestTile # f[c] /\ PriestTile \notin Range(g)
  BY <1>4 DEF Range
<1> HIDE DEF f, g
<1>6. ASSUME NpcsApart PROVE NpcsApart'
  <2>1. IsInjective(f) /\ Range(f) \subseteq npc_tiles
    BY <1>6 DEF NpcsApart, f
  <2>2. IsInjective(g) /\ Range(g) = (Range(f) \ {f[c]}) \union {t}
    BY <1>4, <2>1, OneMoves
  <2> QED BY <1>4, <2>1, <2>2 DEF NpcsApart, g
<1>7. NpcsTrue'
  <2>1. /\ DOMAIN creatures' = DOMAIN creatures /\ creatures'[c] = t
        /\ \A x \in DOMAIN creatures : x # c => creatures'[x] = creatures[x]
    BY <1>1 DEF Living
  <2>2. Living' = Living
    BY <1>3, <2>1 DEF Living
  <2>3. /\ DOMAIN creature_zone' = DOMAIN creatures' /\ corpses' \subseteq DOMAIN creatures'
        /\ Living' \subseteq DOMAIN g /\ DOMAIN g \subseteq DOMAIN creatures'
    BY <1>3, <1>4, <2>1, <2>2 DEF WorldInv, NpcsTrue, f
  <2>4. \A x \in Living' : g[x] = creatures'[x]
    BY <1>4, <2>1, <2>2 DEF WorldInv, NpcsTrue, Living, f
  <2>5. PriestTile \notin Range(creatures')
    BY <1>5, <2>1 DEF WorldInv, NpcsTrue, Range
  <2> QED BY <1>4, <1>5, <2>3, <2>4, <2>5 DEF NpcsTrue, g
<1>8. TilesApart => TilesApart'
  BY <1>2, <1>3, <1>4 DEF TilesApart, Occupied, playerVars, floorVars
<1>9. PlayersTrue' /\ WaitersHere' /\ FloorTrue' /\ haunted' = haunted
  BY <1>3, PlayersStay, FloorStays DEF WorldInv, bootVars
<1> QED BY <1>6, <1>7, <1>8, <1>9 DEF WorldInv

\* Either way one less is alive.
LEMMA VictimGoes ==
  ASSUME WorldInv, NEW p, NEW victim, AttackCreature(p, victim)
  PROVE  /\ Living' = Living \ {victim} /\ DOMAIN creatures' \subseteq DOMAIN creatures
         /\ \A c \in DOMAIN creatures' : /\ creatures'[c] = creatures[c]
                                         /\ creature_zone'[c] = creature_zone[c]
         /\ DOMAIN creatures \ {victim} \subseteq DOMAIN creatures'
         /\ DOMAIN creature_zone' = DOMAIN creatures' /\ corpses' \subseteq DOMAIN creatures'
<1>1. /\ erase(victim) \/ LeftBehind(victim)
      /\ victim \in Living
      /\ DOMAIN creature_zone = DOMAIN creatures /\ corpses \subseteq DOMAIN creatures
  BY DEF AttackCreature, WorldInv, NpcsTrue
<1>2. CASE erase(victim)
  BY <1>1, <1>2 DEF erase, Without, Restrict, Living
<1>3. CASE LeftBehind(victim)
  BY <1>1, <1>3 DEF LeftBehind, Living
<1> QED BY <1>1, <1>2, <1>3

\* A creature drops what it has before its tile is free, and leaves the world,
\* and the gameloop too or is left there among the dead.
LEMMA AttackCreatureKeeps ==
  ASSUME WorldInv, NEW p, NEW victim, AttackCreature(p, victim)
  PROVE  WorldInv'
<1> DEFINE f == npc_positions
           g == npc_positions'
<1>1. /\ Drop(creatures[victim]) \/ DropNothing
      /\ g = Without(f, victim)
      /\ erase(victim) \/ LeftBehind(victim)
      /\ npc_tiles' = npc_tiles \ {f[victim]}
      /\ UNCHANGED <<treasures, playerVars, bootVars>>
      /\ victim \in Living /\ victim \in DOMAIN f
      /\ PriestTile \notin Range(f) /\ PriestTile \in npc_tiles
  BY DEF AttackCreature, removeCreature, Unlist, WorldInv, NpcsTrue
<1>2. f[victim] # PriestTile
  BY <1>1 DEF Range
<1> HIDE DEF f, g
<1>3. /\ DOMAIN g = DOMAIN f \ {victim} /\ (\A x \in DOMAIN g : g[x] = f[x]) /\ Range(g) \subseteq Range(f)
      /\ IsInjective(f) => IsInjective(g) /\ Range(g) = Range(f) \ {f[victim]}
  BY <1>1, OneGoes
<1>4. NpcsTrue'
  <2>1. /\ Living' = Living \ {victim}
        /\ DOMAIN creatures \ {victim} \subseteq DOMAIN creatures'
        /\ DOMAIN creatures' \subseteq DOMAIN creatures
        /\ \A c \in DOMAIN creatures' : creatures'[c] = creatures[c]
        /\ DOMAIN creature_zone' = DOMAIN creatures' /\ corpses' \subseteq DOMAIN creatures'
    BY VictimGoes
  <2>2. Living' \subseteq DOMAIN g /\ DOMAIN g \subseteq DOMAIN creatures'
    BY <1>3, <2>1 DEF WorldInv, NpcsTrue, f
  <2>3. \A c \in Living' : g[c] = creatures'[c]
    <3>1. Living' \subseteq DOMAIN creatures'
      BY DEF Living
    <3> QED BY <1>3, <2>1, <2>2, <3>1 DEF WorldInv, NpcsTrue, f
  <2>4. PriestTile \notin Range(g) \union Range(creatures')
    BY <1>1, <1>3, <2>1 DEF WorldInv, NpcsTrue, Range
  <2> QED BY <1>1, <1>2, <2>1, <2>2, <2>3, <2>4 DEF NpcsTrue, g
<1>5. FloorTrue' /\ (TilesApart => TilesApart')
  <2>1. UNCHANGED <<treasures, player_tiles>> /\ npc_tiles' \subseteq npc_tiles
    BY <1>1 DEF playerVars
  <2> QED BY <1>1, <2>1, DropKeeps DEF WorldInv
<1>6. NpcsApart => NpcsApart'
  BY <1>1, <1>3 DEF NpcsApart, f, g
<1>7. PlayersTrue' /\ WaitersHere' /\ haunted' = haunted
  BY <1>1, PlayersStay DEF WorldInv, bootVars
<1> QED BY <1>4, <1>5, <1>6, <1>7 DEF WorldInv

\* New creatures and treasures get free tiles, each its own.
LEMMA RespawnKeeps ==
  ASSUME WorldInv, NEW zone, respawnDeadNpcs(zone)
  PROVE  WorldInv'
<1> PICK spawned \in SUBSET RandomPositions(zone) :
       \E hidden \in SUBSET (RandomPositions(zone) \ spawned), new \in Numberings(next_npc_id, spawned) :
         /\ AddNpcs(new, zone)
         /\ treasures' = treasures \union hidden
         /\ items_tiles' = items_tiles \union hidden
  BY DEF respawnDeadNpcs
<1>1. PICK hidden \in SUBSET (RandomPositions(zone) \ spawned), new \in Numberings(next_npc_id, spawned) :
        /\ AddNpcs(new, zone)
        /\ treasures' = treasures \union hidden
        /\ items_tiles' = items_tiles \union hidden
  OBVIOUS
<1>2. UNCHANGED <<floor, haunted, playerVars>> /\ (running' => running)
  BY DEF respawnDeadNpcs
<1>3. /\ spawned \subseteq Walkable \ Occupied /\ hidden \subseteq Walkable \ Occupied
      /\ spawned \cap hidden = {}
  BY FreeTiles
<1>4. IsInjective(new) /\ Range(new) \subseteq spawned
  BY DEF Numberings, IsInjective, Range
<1> DEFINE f == npc_positions
           g == npc_positions'
<1>5. /\ g = Emplaced(f, new)
      /\ PriestTile \notin Range(f) /\ PriestTile \in npc_tiles
      /\ npc_tiles' = npc_tiles \union Range(new)
  BY <1>1 DEF AddNpcs, WorldInv, NpcsTrue, Range
<1>6. ASSUME NpcsApart PROVE NpcsApart'
  <2> HIDE DEF f, g
  <2>1. IsInjective(f) /\ Range(f) \subseteq npc_tiles
    BY <1>6 DEF NpcsApart, f
  <2>2. Range(f) \cap Range(new) = {}
    BY <1>3, <1>4, <2>1 DEF Occupied
  <2>3. IsInjective(g) /\ Range(g) \subseteq Range(f) \union Range(new)
    BY <1>4, <1>5, <2>1, <2>2, SomeJoin
  <2> QED BY <1>5, <2>1, <2>3 DEF NpcsApart, g
<1>7. NpcsTrue'
  <2>1. PriestTile \notin Range(new)
    BY <1>3, <1>4, <1>5 DEF Occupied
  <2>2. /\ creatures' = Emplaced(creatures, new) /\ corpses' = corpses
        /\ creature_zone' = Emplaced(creature_zone, [c \in DOMAIN new |-> zone])
    BY <1>1 DEF AddNpcs
  <2>3. /\ DOMAIN creatures' = DOMAIN creatures \union DOMAIN new
        /\ DOMAIN creature_zone' = DOMAIN creature_zone \union DOMAIN new
        /\ DOMAIN g = DOMAIN f \union DOMAIN new
        /\ \A c \in DOMAIN creatures' :
             creatures'[c] = IF c \in DOMAIN creatures THEN creatures[c] ELSE new[c]
        /\ \A c \in DOMAIN g : g[c] = IF c \in DOMAIN f THEN f[c] ELSE new[c]
    BY <1>5, <2>2 DEF Emplaced
  <2>4. /\ DOMAIN creature_zone' = DOMAIN creatures' /\ corpses' \subseteq DOMAIN creatures'
        /\ Living' \subseteq DOMAIN g /\ DOMAIN g \subseteq DOMAIN creatures'
    BY <2>2, <2>3 DEF WorldInv, NpcsTrue, Living
  <2>5. \A c \in Living' : g[c] = creatures'[c]
    BY <2>2, <2>3, <2>4 DEF WorldInv, NpcsTrue, Living
  <2>6. PriestTile \notin Range(g) \union Range(creatures')
    BY <2>1, <2>3 DEF WorldInv, NpcsTrue, Range
  <2> QED BY <1>5, <2>4, <2>5, <2>6 DEF NpcsTrue
<1> HIDE DEF f, g
<1>8. FloorTrue'
  <2>1. \A t \in hidden : t \in Tiles /\ t \notin items_tiles
    BY <1>3, FreeTiles DEF Occupied
  <2>2. \A t \in Tiles : floor[t] \in Nat /\ (t \in hidden => floor[t] = 0 /\ t \notin treasures)
    BY <2>1 DEF WorldInv, FloorTrue
  <2>3. items_tiles' = treasures' \union {t \in Tiles : floor'[t] > 0}
    BY <1>1, <1>2 DEF WorldInv, FloorTrue
  <2>4. \A t \in Tiles : floor'[t] + (IF t \in treasures' THEN 1 ELSE 0) <= 1
    BY <1>1, <1>2, <2>2 DEF WorldInv, FloorTrue
  <2> QED BY <1>2, <2>3, <2>4 DEF WorldInv, FloorTrue
<1>9. TilesApart => TilesApart'
  <2>1. /\ Range(new) \cap (player_tiles \union items_tiles) = {}
        /\ hidden \cap npc_tiles = {} /\ hidden \cap Range(new) = {}
    BY <1>3, <1>4 DEF Occupied
  <2>2. player_tiles' = player_tiles
    BY <1>2 DEF playerVars
  <2> QED BY <1>1, <1>5, <2>1, <2>2 DEF TilesApart
<1>10. PlayersTrue' /\ WaitersHere'
  BY <1>2 DEF WorldInv, PlayersTrue, WaitersHere, PendingPlayersAreHere, InGame, playerVars
<1> QED BY <1>2, <1>6, <1>7, <1>8, <1>9, <1>10 DEF WorldInv

\* Nobody is in the game after a start.
LEMMA NobodyHere ==
  ASSUME players_positions = <<>>, player_tiles = {}, pose = <<>>, ghosts = {}, resurrecting = {},
         pending_resurrects = {}
  PROVE  PlayersTrue /\ WaitersHere
<1>1. DOMAIN players_positions = {}
  OBVIOUS
<1> QED BY <1>1 DEF PlayersTrue, WaitersHere, PendingPlayersAreHere, InGame, Range, IsInjective

LEMMA NobodyHereNext ==
  ASSUME players_positions' = <<>>, player_tiles' = {}, pose' = <<>>, ghosts' = {}, resurrecting' = {},
         pending_resurrects' = {}
  PROVE  PlayersTrue' /\ WaitersHere'
<1>1. DOMAIN players_positions' = {}
  OBVIOUS
<1> QED BY <1>1 DEF PlayersTrue, WaitersHere, PendingPlayersAreHere, InGame, Range, IsInjective

\* The load numbers the creatures anew and leaves each where it was.
LEMMA RestartKeeps ==
  ASSUME WorldInv, Restart
  PROVE  WorldInv'
<1>1. /\ players_positions' = <<>> /\ player_tiles' = {} /\ pose' = <<>> /\ ghosts' = {}
      /\ resurrecting' = {} /\ pending_resurrects' = {}
      /\ loadCreatures /\ loadItemsInTheFloor
  BY DEF Restart
<1>2. PlayersTrue' /\ WaitersHere'
  BY <1>1, NobodyHereNext
<1>3. FloorTrue' /\ items_tiles' = items_tiles
  BY <1>1 DEF loadItemsInTheFloor, WorldInv, FloorTrue
<1> DEFINE renumbered(c) == 1 + Cardinality({d \in DOMAIN creatures : d <= c})
           old(id) == CHOOSE c \in DOMAIN creatures : renumbered(c) = id
           ids == {renumbered(c) : c \in DOMAIN creatures}
           g == creatures'
<1>4. /\ g = [id \in ids |-> creatures[old(id)]] /\ corpses' = {} /\ haunted' = (haunted \/ corpses # {})
      /\ npc_positions' = g /\ npc_tiles' = {PriestTile} \union Range(g)
      /\ DOMAIN creature_zone' = ids
  BY <1>1 DEF loadCreatures
<1>5. \A id \in ids : old(id) \in DOMAIN creatures /\ renumbered(old(id)) = id
  <2> SUFFICES ASSUME NEW id \in ids PROVE old(id) \in DOMAIN creatures /\ renumbered(old(id)) = id
    OBVIOUS
  <2> HIDE DEF renumbered
  <2>1. \E c \in DOMAIN creatures : renumbered(c) = id
    OBVIOUS
  <2> QED BY <2>1
<1> HIDE DEF old, renumbered, ids, g
<1>6. DOMAIN g = ids /\ \A id \in ids : g[id] = creatures[old(id)]
  BY <1>4
<1>7. PriestTile \notin Range(g)
  BY <1>5, <1>6 DEF WorldInv, NpcsTrue, Range
<1>8. NpcsTrue'
  BY <1>4, <1>6, <1>7 DEF NpcsTrue, Living, g
<1>9. ASSUME ~haunted' PROVE NpcsApart' /\ TilesApart'
  <2>1. NpcsApart /\ TilesApart /\ PriestTile \in npc_tiles
    BY <1>4, <1>9 DEF WorldInv, NpcsTrue
  <2>2. /\ DOMAIN npc_positions = DOMAIN creatures
        /\ \A c \in DOMAIN creatures : creatures[c] = npc_positions[c]
    BY <1>4, <1>9 DEF WorldInv, NpcsTrue, Living
  <2>3. IsInjective(g)
    <3> SUFFICES ASSUME NEW i \in ids, NEW j \in ids, g[i] = g[j] PROVE i = j
      BY <1>6 DEF IsInjective
    <3>1. old(i) = old(j)
      BY <1>5, <1>6, <2>1, <2>2 DEF NpcsApart, IsInjective
    <3> QED BY <1>5, <3>1
  <2>4. Range(g) \subseteq npc_tiles
    BY <1>5, <1>6, <2>1, <2>2 DEF NpcsApart, Range
  <2>5. NpcsApart'
    BY <1>4, <2>3 DEF NpcsApart, g
  <2> QED BY <1>1, <1>3, <1>4, <2>1, <2>4, <2>5 DEF TilesApart
<1> QED BY <1>2, <1>3, <1>8, <1>9 DEF WorldInv

-----------------------------------------------------------------------------
LEMMA InitWorld == Init => WorldInv
<1> SUFFICES ASSUME Init PROVE WorldInv
  OBVIOUS
<1>1. PlayersTrue /\ WaitersHere
  BY NobodyHere DEF Init
<1>2. PICK homes \in SUBSET UNION hostile_zones :
        /\ homes \subseteq Walkable \ {PriestTile}
        /\ npc_tiles = {PriestTile} \union homes
        /\ creatures \in Numberings(1, homes)
  BY DEF Init
<1>3. IsInjective(creatures) /\ Range(creatures) \subseteq homes
  BY <1>2 DEF Numberings, IsInjective, Range
<1>4. NpcsTrue
  <2>1. npc_positions = creatures /\ corpses = {} /\ DOMAIN creature_zone = DOMAIN creatures
    BY DEF Init
  <2> QED BY <1>2, <1>3, <2>1 DEF NpcsTrue, Living
<1>5. FloorTrue
  BY DEF Init, FloorTrue
<1>6. NpcsApart /\ TilesApart
  <2>1. npc_positions = creatures /\ items_tiles = treasures /\ player_tiles = {}
        /\ treasures \in SUBSET (Walkable \ (SafeTiles \union npc_tiles))
    BY DEF Init
  <2> QED BY <1>2, <1>3, <2>1 DEF NpcsApart, TilesApart
<1> QED BY <1>1, <1>4, <1>5, <1>6 DEF WorldInv

LEMMA StepWorld == WorldInv /\ [Next]_vars => WorldInv'
<1> SUFFICES ASSUME WorldInv, [Next]_vars PROVE WorldInv'
  OBVIOUS
<1>1. ASSUME NEW p \in Players, Login(p) \/ Disconnect(p) \/ MovePlayer(p) \/ DropItem(p) \/ PickUp(p)
      PROVE  WorldInv'
  BY <1>1, LoginKeeps, DisconnectKeeps, MovePlayerKeeps, DropItemKeeps, PickUpKeeps
<1>2. ASSUME NEW p \in Players, DebugKill(p) PROVE WorldInv'
  BY <1>2, DiesKeeps DEF DebugKill, bootVars
<1>3. ASSUME NEW p \in Players, ToggleInfiniteHp(p) PROVE WorldInv'
  <2>1. /\ ghosts' = ghosts \/ ghosts' = ghosts \ {p}
        /\ UNCHANGED <<players_positions, player_tiles, pose, resurrecting, pending_resurrects,
                       npcVars, floorVars, bootVars>>
    BY <1>3 DEF ToggleInfiniteHp
  <2>2. PlayersTrue' /\ WaitersHere'
    BY <2>1 DEF WorldInv, PlayersTrue, WaitersHere, PendingPlayersAreHere, InGame, bootVars
  <2>3. NpcsTrue' /\ FloorTrue' /\ (NpcsApart => NpcsApart') /\ (TilesApart => TilesApart')
    BY <2>1, NpcsStay, FloorStays DEF WorldInv, TilesApart, npcVars, floorVars
  <2> QED BY <2>1, <2>2, <2>3 DEF WorldInv, bootVars
<1>4. ASSUME NEW p \in Players, NEW victim \in Players, AttackPlayer(p, victim) PROVE WorldInv'
  BY <1>4, DiesKeeps DEF AttackPlayer, bootVars
<1>5. ASSUME NEW p \in Players, NEW victim, AttackCreature(p, victim) PROVE WorldInv'
  BY <1>5, AttackCreatureKeeps
<1>6. ASSUME NEW p \in Players, ResurrectAtPriest(p) PROVE WorldInv'
  <2>1. /\ p \in InGame /\ p \notin resurrecting /\ resurrectPlayerAtHealer(p) /\ running
        /\ UNCHANGED <<pending_resurrects, haunted>>
    BY <1>6 DEF ResurrectAtPriest, CanAskToResurrect, WorldInv, WaitersHere, bootVars
  <2> QED BY <2>1, ResurrectionKeeps
<1>7. ASSUME NEW p \in Players, StartResurrection(p) PROVE WorldInv'
  <2>1. /\ p \in ghosts /\ resurrecting' = resurrecting \union {p}
        /\ pending_resurrects' = pending_resurrects \union {p}
        /\ UNCHANGED <<players_positions, player_tiles, pose, ghosts, npcVars, floorVars, bootVars>>
    BY <1>7 DEF StartResurrection, CanAskToResurrect
  <2>2. PlayersTrue' /\ WaitersHere'
    BY <2>1 DEF WorldInv, PlayersTrue, WaitersHere, PendingPlayersAreHere, InGame, bootVars
  <2>3. NpcsTrue' /\ FloorTrue' /\ (NpcsApart => NpcsApart') /\ (TilesApart => TilesApart')
    BY <2>1, NpcsStay, FloorStays DEF WorldInv, TilesApart, npcVars, floorVars
  <2> QED BY <2>1, <2>2, <2>3 DEF WorldInv, bootVars
<1>8. ASSUME NEW p \in Players, FinishResurrection(p) PROVE WorldInv'
  <2>1. /\ p \in InGame /\ resurrectPlayerAtHealer(p) /\ haunted' = haunted
        /\ \/ StopsWaiting(p) /\ running' = running
           \/ UNCHANGED pending_resurrects /\ running' = FALSE
    BY <1>8 DEF FinishResurrection, WorldInv, WaitersHere, PendingPlayersAreHere
  <2> QED BY <2>1, ResurrectionKeeps
<1>9. ASSUME NEW c \in Living, CreatureMoves(c) \/ CreatureAttacks(c) PROVE WorldInv'
  <2>1. CASE CreatureMoves(c)
    BY <2>1, CreatureMovesKeeps
  <2>2. CASE CreatureAttacks(c)
    BY <2>2, DiesKeeps DEF CreatureAttacks
  <2> QED BY <1>9, <2>1, <2>2
<1>10. ASSUME NEW zone \in hostile_zones, respawnDeadNpcs(zone) PROVE WorldInv'
  BY <1>10, RespawnKeeps
<1>11. CASE Restart
  BY <1>11, RestartKeeps
<1>12. CASE UNCHANGED vars
  <2>1. UNCHANGED <<playerVars, npcVars, floorVars, bootVars>>
    BY <1>12 DEF vars
  <2>2. PlayersTrue' /\ WaitersHere' /\ NpcsTrue' /\ FloorTrue' /\ (NpcsApart => NpcsApart')
    BY <2>1, PlayersStay, NpcsStay, FloorStays DEF WorldInv, bootVars
  <2>3. (TilesApart => TilesApart') /\ haunted' = haunted
    BY <2>1 DEF TilesApart, playerVars, npcVars, floorVars, bootVars
  <2> QED BY <2>2, <2>3 DEF WorldInv
<1> QED BY <1>1, <1>2, <1>3, <1>4, <1>5, <1>6, <1>7, <1>8, <1>9, <1>10, <1>11, <1>12 DEF Next

LEMMA WorldIsRight == Spec => []WorldInv
BY InitWorld, StepWorld, PTL DEF Spec

\* The copies of a position agree and the sets the free-tile tests read are true, on
\* every map, through every move, teleport, death, drop, respawn and restart, and
\* with creatures that were killed and not erased.  Only the set of the npcs' tiles
\* may fail, after a restart that loaded a dead one.
THEOREM TilesCorrect == Spec => []TilesAreTrue
<1>1. WorldInv => TilesAreTrue
  BY DEF WorldInv, PlayersTrue, NpcsTrue, NpcsApart, FloorTrue, TilesAreTrue
<1> QED BY WorldIsRight, <1>1, PTL

\* No two players and no two things are on one tile and nobody is on the priest; nor
\* are two creatures, or a creature and a player or a thing, as long as no restart
\* has loaded a dead creature.
THEOREM TilesNotShared == Spec => []NoTwoOnATile
<1>1. WorldInv => NoTwoOnATile
  BY DEF WorldInv, PlayersTrue, NpcsTrue, FloorTrue, NpcsApart, TilesApart, NoTwoOnATile
<1> QED BY WorldIsRight, <1>1, PTL

\* Whoever waits to be resurrected is in the game, whatever leaves, deaths and debug
\* commands come in between: the lookup that ends the wait finds the player.
THEOREM WaitersCorrect == Spec => []PendingPlayersAreHere
<1>1. WorldInv => PendingPlayersAreHere
  BY DEF WorldInv, WaitersHere
<1> QED BY WorldIsRight, <1>1, PTL

-----------------------------------------------------------------------------
(***************************************************************************)
(* The zones.  Nothing is asked of what a zone is.                         *)
(***************************************************************************)

ZonesInv == \A c \in DOMAIN creatures : creatures[c] \in creature_zone[c]

\* New creatures join both tables, and those on their ids stay as they are.
LEMMA NewKeepTheirZone ==
  ASSUME ZonesInv, DOMAIN creature_zone = DOMAIN creatures,
         NEW new, NEW zone, \A c \in DOMAIN new : new[c] \in zone,
         creatures' = Emplaced(creatures, new),
         creature_zone' = Emplaced(creature_zone, [c \in DOMAIN new |-> zone])
  PROVE  ZonesInv'
<1> DEFINE at == creatures'
           of == creature_zone'
<1>1. /\ DOMAIN at = DOMAIN creatures \union DOMAIN new /\ DOMAIN of = DOMAIN at
      /\ \A c \in DOMAIN creatures : at[c] = creatures[c] /\ of[c] = creature_zone[c]
      /\ \A c \in DOMAIN new : c \notin DOMAIN creatures => at[c] = new[c] /\ of[c] = zone
  BY DEF Emplaced
<1> HIDE DEF at, of
<1>2. \A c \in DOMAIN at : at[c] \in of[c]
  BY <1>1 DEF ZonesInv
<1> QED BY <1>2 DEF ZonesInv, at, of

LEMMA InitZones == Init => ZonesInv
<1> SUFFICES ASSUME Init PROVE ZonesInv
  OBVIOUS
<1>1. PICK homes \in SUBSET UNION hostile_zones : creatures \in Numberings(1, homes)
  BY DEF Init
<1>2. \A c \in DOMAIN creatures : \E z \in hostile_zones : creatures[c] \in z
  BY <1>1 DEF Numberings
<1>3. creature_zone = [c \in DOMAIN creatures |-> CHOOSE z \in hostile_zones : creatures[c] \in z]
  BY DEF Init
<1>4. \A c \in DOMAIN creatures : creatures[c] \in creature_zone[c]
  BY <1>2, <1>3
<1> QED BY <1>4 DEF ZonesInv

LEMMA StepZones == WorldInv /\ ZonesInv /\ [Next]_vars => ZonesInv'
<1> SUFFICES ASSUME WorldInv, ZonesInv, [Next]_vars PROVE ZonesInv'
  OBVIOUS
<1>1. /\ DOMAIN creature_zone = DOMAIN creatures
      /\ \A c \in DOMAIN creatures : creatures[c] \in creature_zone[c]
  BY DEF WorldInv, NpcsTrue, ZonesInv
<1>2. ASSUME NEW c \in Living, CreatureMoves(c) PROVE ZonesInv'
  <2>1. UNCHANGED creature_zone
    BY <1>2 DEF CreatureMoves
  <2>2. PICK goal : \E t \in StepsTowards(c, goal) : creatures' = [creatures EXCEPT ![c] = t]
    BY <1>2 DEF CreatureMoves
  <2>3. PICK t \in StepsTowards(c, goal) : creatures' = [creatures EXCEPT ![c] = t]
    BY <2>2
  <2>4. t \in creature_zone[c]
    BY <2>3 DEF StepsTowards, isCreatureWalkable
  <2> QED BY <1>1, <2>1, <2>3, <2>4 DEF ZonesInv
<1>3. ASSUME NEW p, NEW victim, AttackCreature(p, victim) PROVE ZonesInv'
  <2>1. erase(victim) \/ UNCHANGED <<creatures, creature_zone>>
    BY <1>3 DEF AttackCreature, LeftBehind
  <2> QED BY <1>1, <2>1 DEF ZonesInv, erase, Without, Restrict
<1>4. ASSUME NEW zone, respawnDeadNpcs(zone) PROVE ZonesInv'
  <2>1. PICK spawned \in SUBSET RandomPositions(zone) :
          \E new \in Numberings(next_npc_id, spawned) : AddNpcs(new, zone)
    BY <1>4 DEF respawnDeadNpcs
  <2>2. PICK new \in Numberings(next_npc_id, spawned) : AddNpcs(new, zone)
    BY <2>1
  <2>3. \A c \in DOMAIN new : new[c] \in zone
    BY DEF Numberings, RandomPositions
  <2> QED BY <1>1, <2>2, <2>3, NewKeepTheirZone DEF AddNpcs
<1>5. CASE Restart
  <2> DEFINE renumbered(c) == 1 + Cardinality({d \in DOMAIN creatures : d <= c})
             old(id) == CHOOSE c \in DOMAIN creatures : renumbered(c) = id
             ids == {renumbered(c) : c \in DOMAIN creatures}
  <2>1. /\ creatures' = [id \in ids |-> creatures[old(id)]]
        /\ creature_zone' = [id \in ids |-> creature_zone[old(id)]]
    BY <1>5 DEF Restart, loadCreatures
  <2>2. \A id \in ids : old(id) \in DOMAIN creatures
    <3> SUFFICES ASSUME NEW id \in ids PROVE old(id) \in DOMAIN creatures
      OBVIOUS
    <3> HIDE DEF renumbered
    <3>1. \E c \in DOMAIN creatures : renumbered(c) = id
      OBVIOUS
    <3> QED BY <3>1
  <2> HIDE DEF ids, old
  <2> QED BY <1>1, <2>1, <2>2 DEF ZonesInv
<1>6. ASSUME UNCHANGED npcVars PROVE ZonesInv'
  BY <1>6 DEF npcVars, ZonesInv
<1>7. ASSUME NEW p \in Players,
             \/ Login(p) \/ Disconnect(p) \/ MovePlayer(p) \/ DropItem(p) \/ PickUp(p)
             \/ DebugKill(p) \/ ToggleInfiniteHp(p)
             \/ ResurrectAtPriest(p) \/ StartResurrection(p) \/ FinishResurrection(p)
      PROVE  ZonesInv'
  <2>1. UNCHANGED npcVars
    BY <1>7 DEF Login, Disconnect, MovePlayer, DropItem, PickUp, DebugKill, Dies, ToggleInfiniteHp,
           ResurrectAtPriest, StartResurrection, FinishResurrection, resurrectPlayerAtHealer
  <2> QED BY <1>6, <2>1
<1>8. ASSUME NEW p, NEW victim, AttackPlayer(p, victim) \/ CreatureAttacks(p) PROVE ZonesInv'
  <2>1. UNCHANGED npcVars
    BY <1>8 DEF AttackPlayer, CreatureAttacks, Dies
  <2> QED BY <1>6, <2>1
<1>9. CASE UNCHANGED vars
  BY <1>6, <1>9 DEF vars
<1> QED BY <1>2, <1>3, <1>4, <1>5, <1>7, <1>8, <1>9 DEF Next

\* Whatever a creature chases, it stays in the zone it was spawned in, through deaths,
\* respawns with taken ids and restarts that number the creatures anew.
THEOREM ZonesCorrect == Spec => []CreaturesKeepTheirZone
<1>1. WorldInv /\ ZonesInv => CreaturesKeepTheirZone
  BY DEF WorldInv, NpcsTrue, ZonesInv, CreaturesKeepTheirZone, Living
<1> QED BY WorldIsRight, InitZones, StepZones, <1>1, PTL DEF Spec


-----------------------------------------------------------------------------
(***************************************************************************)
(* The population of the zones.                                            *)
(***************************************************************************)

\* A zone is given by any of its tiles: the flood fill from one of them
\* finds the same.
LEMMA SameZone ==
  ASSUME NEW s \in Tiles, NEW t \in Tiles, NEW u \in zoneOf(s), u \in zoneOf(t)
  PROVE  zoneOf(s) = zoneOf(t)
<1> DEFINE Region(x) == IF x \in SafeTiles THEN SafeTiles ELSE Tiles \ SafeTiles
           Filled(x, area) == x \in area /\ \A v \in area : Neighbours(v) \cap Region(x) \subseteq area
<1>1. ASSUME NEW x \in Tiles
      PROVE  /\ zoneOf(x) \subseteq Region(x) /\ Region(x) \subseteq Tiles
             /\ Filled(x, zoneOf(x)) /\ x \in Region(x)
             /\ \A area \in SUBSET Region(x) : Filled(x, area) => zoneOf(x) \subseteq area
  <2>1. x \in Region(x) /\ Region(x) \subseteq Tiles
    BY WorldAssumption
  <2>2. zoneOf(x) = {v \in Region(x) : \A area \in SUBSET Region(x) : Filled(x, area) => v \in area}
    BY DEF zoneOf
  <2>3. ASSUME NEW v \in zoneOf(x), NEW w \in Neighbours(v) \cap Region(x) PROVE w \in zoneOf(x)
    <3> SUFFICES ASSUME NEW area \in SUBSET Region(x), Filled(x, area) PROVE w \in area
      BY <2>2
    <3>1. v \in area
      BY <2>2
    <3> QED BY <2>3, <3>1
  <2>4. x \in zoneOf(x)
    BY <2>1, <2>2
  <2> QED BY <2>1, <2>2, <2>3, <2>4
<1>2. \A v \in Tiles, w \in Tiles : w \in Neighbours(v) => v \in Neighbours(w)
  <2> SUFFICES ASSUME NEW v \in Tiles, NEW w \in Tiles, w \in Neighbours(v) PROVE v \in Neighbours(w)
    OBVIOUS
  <2>1. v[1] \in Int /\ v[2] \in Int /\ w[1] \in Int /\ w[2] \in Int
    BY WorldAssumption DEF Tiles
  <2>2. distanceBetweenPositions(v, w) = distanceBetweenPositions(w, v)
    BY <2>1 DEF distanceBetweenPositions, Apart
  <2> QED BY <2>2 DEF Neighbours
<1>3. ASSUME NEW x \in Tiles, NEW y \in zoneOf(x) PROVE zoneOf(y) = zoneOf(x)
  <2>1. y \in Region(x) /\ y \in Tiles
    BY <1>1
  <2>2. Region(y) = Region(x)
    BY <2>1
  <2> HIDE DEF Region
  <2>3. zoneOf(y) \subseteq zoneOf(x)
    <3>1. zoneOf(x) \in SUBSET Region(y) /\ Filled(y, zoneOf(x))
      BY <1>1, <2>2
    <3> QED BY <1>1, <2>1, <3>1
  <2>4. x \in zoneOf(y)
    <3> SUFFICES ASSUME x \notin zoneOf(y) PROVE FALSE
      OBVIOUS
    <3> DEFINE rest == zoneOf(x) \ zoneOf(y)
    <3>1. \A v \in rest : Neighbours(v) \cap Region(x) \subseteq rest
      <4> SUFFICES ASSUME NEW v \in rest, NEW w \in Neighbours(v) \cap Region(x) PROVE w \in rest
        OBVIOUS
      <4>1. w \in zoneOf(x) /\ v \in Region(x) /\ v \in Tiles /\ w \in Tiles
        BY <1>1
      <4>2. v \in Neighbours(w)
        BY <1>2, <4>1
      <4>3. w \notin zoneOf(y)
        BY <1>1, <2>1, <2>2, <4>1, <4>2
      <4> QED BY <4>1, <4>3
    <3>2. rest \in SUBSET Region(x) /\ x \in rest
      BY <1>1
    <3>3. Filled(x, rest)
      BY <3>1, <3>2
    <3>4. zoneOf(x) \subseteq rest
      <4> HIDE DEF Filled, rest
      <4> QED BY <1>1, <3>2, <3>3
    <3>5. y \in zoneOf(y)
      BY <1>1, <2>1
    <3> QED BY <3>4, <3>5
  <2>5. zoneOf(x) \subseteq zoneOf(y)
    <3>1. zoneOf(y) \in SUBSET Region(x) /\ Filled(x, zoneOf(y))
      BY <1>1, <2>1, <2>2, <2>4
    <3> QED BY <1>1, <3>1
  <2> QED BY <2>3, <2>5
<1> QED BY <1>3

\* No tile is in two zones.
LEMMA ZonesAreApart ==
  ASSUME NEW y \in hostile_zones, NEW z \in hostile_zones, y # z
  PROVE  y \cap z = {}
<1>1. PICK s \in Tiles, t \in Tiles : y = zoneOf(s) /\ z = zoneOf(t)
  BY DEF hostile_zones
<1> QED BY <1>1, SameZone

\* Any set of tiles can be counted.
LEMMA TilesAreFinite ==
  \A S : S \subseteq Tiles => IsFiniteSet(S) /\ Cardinality(S) \in Nat
<1>1. IsFiniteSet(0 .. Width - 1) /\ IsFiniteSet(0 .. Height - 1)
  BY WorldAssumption, FS_Interval
<1>2. IsFiniteSet(Tiles)
  BY <1>1, FS_Product DEF Tiles
<1> SUFFICES ASSUME NEW S, S \subseteq Tiles PROVE IsFiniteSet(S) /\ Cardinality(S) \in Nat
  OBVIOUS
<1> QED BY <1>2, FS_Subset, FS_CardinalityType

\* How far a count may be ahead of the creatures there are.
Ahead == {0, IF restarts > 0 THEN 1 ELSE 0}

\* The counts, with what they rest on.  No id is above the counter.  Only after a
\* restart is the counter itself in use, by the last creature loaded; then every
\* count is still right, so the one creature that will not be added to the tables
\* for it is the first that is counted and is not there, and the last.
Counted ==
  /\ next_npc_id \in Nat \ {0} /\ restarts \in Nat
  /\ DOMAIN creatures \subseteq 1 .. next_npc_id
  /\ \A c \in DOMAIN creatures : creature_zone[c] \in hostile_zones
  /\ creatures_count \in [hostile_zones -> Nat]
  /\ \A z \in hostile_zones : creatures_count[z] - Cardinality(LivingIn(z)) \in Ahead
  /\ ~haunted => \A z \in hostile_zones : creatures_count[z] <= MaxCreatures
  /\ next_npc_id \in DOMAIN creatures =>
       restarts > 0 /\ \A z \in hostile_zones : creatures_count[z] = Cardinality(LivingIn(z))

\* A zone has as many treasures as it was given, or fewer: they are not counted
\* down when they are picked up, but at a restart.
TreasuresCounted ==
  /\ treasures \subseteq Walkable
  /\ treasures_count \in [hostile_zones -> 0 .. Treasures]
  /\ \A z \in hostile_zones : Cardinality(treasures \cap z) <= treasures_count[z]

\* What else has a type.
OthersTyped ==
  /\ InGame \subseteq Players
  /\ infinite_hp \subseteq InGame \ ghosts
  /\ floor \in [Tiles -> 0 .. MaxFloor]
  /\ running \in BOOLEAN /\ haunted \in BOOLEAN

\* So can the creatures of a zone: no two have an id.
LEMMA LivingIsFinite ==
  ASSUME Counted
  PROVE  /\ IsFiniteSet(DOMAIN creatures)
         /\ \A z : IsFiniteSet(LivingIn(z)) /\ Cardinality(LivingIn(z)) \in Nat
<1>1. IsFiniteSet(1 .. next_npc_id)
  BY FS_Interval DEF Counted
<1>2. IsFiniteSet(DOMAIN creatures)
  BY <1>1, FS_Subset DEF Counted
<1>3. \A z : LivingIn(z) \subseteq DOMAIN creatures
  BY DEF LivingIn, Living
<1>4. ASSUME NEW z PROVE IsFiniteSet(LivingIn(z)) /\ Cardinality(LivingIn(z)) \in Nat
  BY <1>2, <1>3, FS_Subset, FS_CardinalityType
<1> QED BY <1>2, <1>4

\* A creature leaves the living and the count of its zone.
LEMMA LeavingIsCounted ==
  ASSUME Counted, WorldInv, NEW p, NEW victim, AttackCreature(p, victim)
  PROVE  Counted'
<1>1. /\ victim \in Living /\ victim \in DOMAIN creatures
      /\ creatures_count' = [creatures_count EXCEPT ![creature_zone[victim]] = @ - 1]
      /\ next_npc_id' = next_npc_id /\ restarts' = restarts /\ haunted' = haunted
  BY DEF AttackCreature, removeCreature, Living, bootVars
<1>2. /\ Living' = Living \ {victim} /\ DOMAIN creatures' \subseteq DOMAIN creatures
      /\ \A c \in DOMAIN creatures' : creature_zone'[c] = creature_zone[c]
  BY VictimGoes
<1>3. PICK home : home = creature_zone[victim]
  OBVIOUS
<1>4. home \in hostile_zones
  BY <1>1, <1>3 DEF Counted
<1>5. /\ LivingIn(home)' = LivingIn(home) \ {victim} /\ victim \in LivingIn(home)
      /\ \A z : z # home => LivingIn(z)' = LivingIn(z)
  <2>1. Living' \subseteq DOMAIN creatures'
    BY DEF Living
  <2> QED BY <1>1, <1>2, <1>3, <2>1 DEF LivingIn
<1>6. Cardinality(LivingIn(home)') = Cardinality(LivingIn(home)) - 1 /\ Cardinality(LivingIn(home)') \in Nat
  <2>1. IsFiniteSet(LivingIn(home)) /\ IsFiniteSet(LivingIn(home) \ {victim})
    BY LivingIsFinite, FS_RemoveElement
  <2>2. Cardinality(LivingIn(home) \ {victim}) = Cardinality(LivingIn(home)) - 1
    BY <1>5, <2>1, FS_RemoveElement
  <2> QED BY <1>5, <2>1, <2>2, FS_CardinalityType
<1>7. ASSUME NEW z \in hostile_zones
      PROVE  /\ creatures_count'[z] \in Nat /\ creatures_count'[z] <= creatures_count[z]
             /\ creatures_count'[z] - Cardinality(LivingIn(z)') = creatures_count[z] - Cardinality(LivingIn(z))
  <2>1. creatures_count[z] \in Nat /\ Cardinality(LivingIn(z)) \in Nat /\ creatures_count[z] >= Cardinality(LivingIn(z))
    <3>1. creatures_count[z] \in Nat /\ Cardinality(LivingIn(z)) \in Nat
      BY LivingIsFinite DEF Counted
    <3>2. creatures_count[z] - Cardinality(LivingIn(z)) \in Ahead
      BY DEF Counted
    <3> QED BY <3>1, <3>2 DEF Ahead
  <2>2. CASE z = home
    <3>1. creatures_count'[z] = creatures_count[z] - 1
      BY <1>1, <1>3, <1>4, <2>2 DEF Counted
    <3> QED BY <1>6, <2>1, <2>2, <3>1
  <2>3. CASE z # home
    <3>1. creatures_count'[z] = creatures_count[z]
      BY <1>1, <1>3, <1>4, <2>3 DEF Counted
    <3> QED BY <1>5, <2>1, <2>3, <3>1
  <2> QED BY <2>2, <2>3
<1>8. creatures_count' \in [hostile_zones -> Nat]
  <2>1. DOMAIN creatures_count' = hostile_zones /\ creatures_count' = [z \in hostile_zones |-> creatures_count'[z]]
    BY <1>1 DEF Counted
  <2> QED BY <1>7, <2>1
<1>9. ASSUME NEW z \in hostile_zones, creatures_count[z] = Cardinality(LivingIn(z))
      PROVE  creatures_count'[z] = Cardinality(LivingIn(z)')
  <2>1. creatures_count'[z] \in Nat
    BY <1>7
  <2>2. Cardinality(LivingIn(z)) \in Nat
    BY LivingIsFinite
  <2>3. Cardinality(LivingIn(z)') \in Nat
    BY <1>5, <1>6, <2>2
  <2>4. creatures_count'[z] - Cardinality(LivingIn(z)') = creatures_count[z] - Cardinality(LivingIn(z))
    BY <1>7
  <2>5. PICK a, b, c : a = creatures_count'[z] /\ b = Cardinality(LivingIn(z)') /\ c = Cardinality(LivingIn(z))
    OBVIOUS
  <2> QED BY <1>9, <2>1, <2>2, <2>3, <2>4, <2>5
<1>10. Ahead' = Ahead
  BY <1>1 DEF Ahead
<1>11. \A z \in hostile_zones : creatures_count'[z] - Cardinality(LivingIn(z)') \in Ahead'
  BY <1>7, <1>10 DEF Counted
<1>12. next_npc_id' \in DOMAIN creatures' =>
         restarts' > 0 /\ \A z \in hostile_zones : creatures_count'[z] = Cardinality(LivingIn(z)')
  BY <1>1, <1>2, <1>9 DEF Counted
<1>13. \A c \in DOMAIN creatures' : creature_zone'[c] \in hostile_zones
  BY <1>2 DEF Counted
<1>14. ~haunted' => \A z \in hostile_zones : creatures_count'[z] <= MaxCreatures
  <2> SUFFICES ASSUME ~haunted', NEW z \in hostile_zones PROVE creatures_count'[z] <= MaxCreatures
    OBVIOUS
  <2>1. creatures_count[z] <= MaxCreatures /\ creatures_count[z] \in Nat
    BY <1>1 DEF Counted
  <2> QED BY <1>7, <2>1, WorldAssumption
<1> QED BY <1>1, <1>2, <1>8, <1>11, <1>12, <1>13, <1>14 DEF Counted

\* New creatures of a zone are counted, all of them; one may find its id taken.
LEMMA RespawnIsCounted ==
  ASSUME Counted, WorldInv, NEW zone \in hostile_zones, respawnDeadNpcs(zone)
  PROVE  Counted'
<1> DEFINE D == DOMAIN creatures
<1>1. PICK lacking, spawned :
        /\ lacking = IF creatures_count[zone] < MaxCreatures \div 2
                     THEN MaxCreatures - creatures_count[zone] ELSE 0
        /\ spawned \subseteq RandomPositions(zone)
        /\ Cardinality(spawned) = IF lacking < Cardinality(RandomPositions(zone)) THEN lacking
                                  ELSE Cardinality(RandomPositions(zone))
        /\ \E new \in Numberings(next_npc_id, spawned) : AddNpcs(new, zone)
        /\ next_npc_id' = next_npc_id + Cardinality(spawned)
  BY DEF respawnDeadNpcs
<1>2. PICK new \in Numberings(next_npc_id, spawned) : AddNpcs(new, zone)
  BY <1>1
<1>3. PICK n, first : n = Cardinality(spawned) /\ first = next_npc_id
  OBVIOUS
<1>4. /\ creatures_count[zone] \in Nat /\ MaxCreatures \in Nat
      /\ first \in Nat \ {0} /\ restarts \in Nat /\ D \subseteq 1 .. first
  BY <1>3, WorldAssumption DEF Counted
<1>5. n \in Nat /\ (n = 0 \/ creatures_count[zone] + n <= MaxCreatures)
  <2>1. RandomPositions(zone) \subseteq Tiles /\ spawned \subseteq Tiles
    BY <1>1, FreeTiles
  <2>2. Cardinality(RandomPositions(zone)) \in Nat /\ n \in Nat
    BY <1>3, <2>1, TilesAreFinite
  <2>3. lacking = 0 \/ (lacking \in Nat /\ lacking = MaxCreatures - creatures_count[zone])
    BY <1>1, <1>4
  <2>4. n <= lacking
    BY <1>1, <1>3, <2>2, <2>3
  <2> QED BY <1>4, <2>2, <2>3, <2>4
<1>6. PICK ids : ids = first .. first + n - 1
  OBVIOUS
<1>7. DOMAIN new = ids /\ IsFiniteSet(ids) /\ Cardinality(ids) = n
  <2>1. DOMAIN new = ids
    BY <1>3, <1>6 DEF Numberings
  <2>2. Cardinality(first .. first + n - 1) = n /\ IsFiniteSet(first .. first + n - 1)
    <3>1. PICK last : last = first + n - 1
      OBVIOUS
    <3>2. last \in Int /\ first \in Int
      BY <1>4, <1>5, <3>1
    <3>3. IsFiniteSet(first .. last) /\ Cardinality(first .. last) = IF first > last THEN 0 ELSE last - first + 1
      BY <3>2, FS_Interval
    <3> QED BY <1>4, <1>5, <3>1, <3>3
  <2> QED BY <1>6, <2>1, <2>2
<1>8. /\ creatures_count' = [creatures_count EXCEPT ![zone] = @ + n] /\ corpses' = corpses
      /\ DOMAIN creatures' = D \union ids
      /\ \A c \in D : creature_zone'[c] = creature_zone[c]
      /\ \A c \in ids : c \notin D => creature_zone'[c] = zone
  <2>1. DOMAIN creature_zone = D
    BY DEF WorldInv, NpcsTrue
  <2> QED BY <1>2, <1>3, <1>7, <2>1 DEF AddNpcs, Emplaced
<1>9. /\ LivingIn(zone)' = LivingIn(zone) \union (ids \ D) /\ LivingIn(zone) \cap (ids \ D) = {}
      /\ \A z : z # zone => LivingIn(z)' = LivingIn(z)
  <2>1. corpses \subseteq D
    BY DEF WorldInv, NpcsTrue
  <2> QED BY <1>8, <2>1 DEF LivingIn, Living
<1>10. PICK k : k = Cardinality(ids \cap D)
  OBVIOUS
<1>11. k \in Nat /\ Cardinality(LivingIn(zone)') = Cardinality(LivingIn(zone)) + n - k
  <2>1. /\ IsFiniteSet(ids \ D) /\ Cardinality(ids \ D) = n - k
        /\ IsFiniteSet(ids \cap D) /\ k \in Nat
    BY <1>7, <1>10, FS_Difference, FS_Intersection, FS_CardinalityType
  <2>2. IsFiniteSet(LivingIn(zone)) /\ Cardinality(LivingIn(zone)) \in Nat
    BY LivingIsFinite
  <2>3. Cardinality(LivingIn(zone)') = Cardinality(LivingIn(zone)) + Cardinality(ids \ D) - Cardinality({})
    BY <1>9, <2>1, <2>2, FS_Union
  <2> QED BY <1>5, <2>1, <2>2, <2>3, FS_EmptySet
<1>12. k = IF n > 0 /\ first \in D THEN 1 ELSE 0
  <2>1. CASE n > 0 /\ first \in D
    <3>1. ids \cap D = {first}
      BY <1>4, <1>5, <1>6, <2>1
    <3> QED BY <1>10, <2>1, <3>1, FS_Singleton
  <2>2. CASE ~(n > 0 /\ first \in D)
    <3>1. ids \cap D = {}
      BY <1>4, <1>5, <1>6, <2>2
    <3> QED BY <1>10, <2>2, <3>1, FS_EmptySet
  <2> QED BY <2>1, <2>2
<1>13. next_npc_id' = first + n /\ restarts' = restarts /\ haunted' = haunted
  BY <1>1, <1>3 DEF respawnDeadNpcs
<1>14. D \union ids \subseteq 1 .. first + n /\ (n > 0 => first + n \notin D \union ids)
  <2>1. D \subseteq 1 .. first + n /\ (n > 0 => first + n \notin D)
    BY <1>4, <1>5
  <2>2. ids \subseteq 1 .. first + n /\ first + n \notin ids
    BY <1>4, <1>5, <1>6
  <2> QED BY <2>1, <2>2
<1>15. /\ creatures_count' \in [hostile_zones -> Nat]
       /\ ~haunted' => \A z \in hostile_zones : creatures_count'[z] <= MaxCreatures
  <2>1. creatures_count' \in [hostile_zones -> Nat]
    BY <1>4, <1>5, <1>8 DEF Counted
  <2>2. ASSUME ~haunted', NEW z \in hostile_zones PROVE creatures_count'[z] <= MaxCreatures
    <3>1. creatures_count[z] <= MaxCreatures /\ creatures_count[z] \in Nat
      BY <1>13, <2>2 DEF Counted
    <3>2. CASE z = zone
      <4>1. creatures_count'[z] = creatures_count[z] + n
        BY <1>8, <3>2 DEF Counted
      <4> QED BY <1>5, <3>1, <3>2, <4>1
    <3>3. CASE z # zone
      BY <1>8, <3>1, <3>3 DEF Counted
    <3> QED BY <3>2, <3>3
  <2> QED BY <2>1, <2>2
<1>16. ASSUME NEW z \in hostile_zones
       PROVE  /\ z = zone => creatures_count'[z] = creatures_count[z] + n
              /\ z # zone => creatures_count'[z] = creatures_count[z]
              /\ creatures_count[z] \in Nat /\ Cardinality(LivingIn(z)) \in Nat
              /\ creatures_count[z] - Cardinality(LivingIn(z)) \in Ahead
              /\ first \in D => restarts > 0 /\ creatures_count[z] = Cardinality(LivingIn(z))
  BY <1>3, <1>8, LivingIsFinite DEF Counted
<1>17. Ahead' = Ahead
  BY <1>13 DEF Ahead
<1>18. ASSUME NEW z \in hostile_zones
       PROVE  creatures_count'[z] - Cardinality(LivingIn(z)') \in Ahead'
  <2>1. CASE z = zone
    <3>1. PICK a, b : a = creatures_count[z] /\ b = Cardinality(LivingIn(z))
      OBVIOUS
    <3>2. a \in Nat /\ b \in Nat /\ creatures_count'[z] = a + n /\ Cardinality(LivingIn(z)') = b + n - k
      BY <1>11, <1>16, <2>1, <3>1
    <3>3. (a + n) - (b + n - k) = (a - b) + k
      BY <1>5, <1>11, <3>2
    <3>4. (a - b) + k \in Ahead
      <4>1. a - b \in Ahead /\ (first \in D => restarts > 0 /\ a = b)
        BY <1>16, <3>1
      <4>2. CASE k = 0
        BY <3>2, <4>1, <4>2
      <4>3. CASE k # 0
        <5>1. k = 1 /\ restarts > 0 /\ a = b
          BY <1>12, <4>1, <4>3
        <5> QED BY <3>2, <5>1 DEF Ahead
      <4> QED BY <4>2, <4>3
    <3> QED BY <1>17, <3>2, <3>3, <3>4
  <2>2. CASE z # zone
    BY <1>9, <1>16, <1>17, <2>2
  <2> QED BY <2>1, <2>2
<1>19. next_npc_id' \in DOMAIN creatures' =>
         restarts' > 0 /\ \A z \in hostile_zones : creatures_count'[z] = Cardinality(LivingIn(z)')
  <2> SUFFICES ASSUME first + n \in D \union ids
               PROVE  restarts > 0 /\ \A z \in hostile_zones : creatures_count'[z] = Cardinality(LivingIn(z)')
    BY <1>8, <1>13
  <2>1. n = 0 /\ ids = {} /\ first \in D
    BY <1>4, <1>5, <1>6, <1>14
  <2>2. restarts > 0 /\ k = 0
    <3>1. restarts > 0
      BY <1>3, <2>1 DEF Counted
    <3> QED BY <1>12, <2>1, <3>1
  <2>3. ASSUME NEW z \in hostile_zones PROVE creatures_count'[z] = Cardinality(LivingIn(z)')
    <3>1. CASE z = zone
      BY <1>11, <1>16, <2>1, <2>2, <3>1
    <3>2. CASE z # zone
      BY <1>9, <1>16, <2>1, <3>2
    <3> QED BY <3>1, <3>2
  <2> QED BY <2>2, <2>3
<1>20. \A c \in DOMAIN creatures' : creature_zone'[c] \in hostile_zones
  BY <1>8 DEF Counted
<1>21. next_npc_id' \in Nat \ {0}
  BY <1>4, <1>5, <1>13
<1> QED BY <1>4, <1>8, <1>13, <1>14, <1>15, <1>18, <1>19, <1>20, <1>21 DEF Counted

\* The load gives every creature an id of its own again, and counts.
LEMMA RestartCounts ==
  ASSUME Counted, WorldInv, Restart
  PROVE  Counted'
<1> DEFINE D == DOMAIN creatures
           upTo(c) == {d \in D : d <= c}
           renumbered(c) == 1 + Cardinality(upTo(c))
           old(id) == CHOOSE c \in D : renumbered(c) = id
           ids == {renumbered(c) : c \in D}
<1>1. /\ DOMAIN creatures' = ids /\ corpses' = {} /\ haunted' = (haunted \/ corpses # {})
      /\ creature_zone' = [id \in ids |-> creature_zone[old(id)]]
      /\ creatures_count' = [z \in hostile_zones |-> Cardinality({c \in ids : creature_zone'[c] = z})]
      /\ next_npc_id' = 1 + Cardinality(ids)
      /\ restarts' = restarts + 1
  BY DEF Restart, loadCreatures
<1>2. /\ IsFiniteSet(D) /\ D \subseteq Nat /\ restarts \in Nat
      /\ \A c \in D : IsFiniteSet(upTo(c)) /\ Cardinality(upTo(c)) \in Nat
  <2>1. IsFiniteSet(D) /\ D \subseteq Nat /\ restarts \in Nat
    BY LivingIsFinite DEF Counted
  <2>2. \A c : upTo(c) \subseteq D
    OBVIOUS
  <2> HIDE DEF upTo
  <2>3. ASSUME NEW c \in D PROVE IsFiniteSet(upTo(c)) /\ Cardinality(upTo(c)) \in Nat
    BY <2>1, <2>2, FS_Subset, FS_CardinalityType
  <2> QED BY <2>1, <2>3
<1>3. \A c \in D : c \in upTo(c)
  BY <1>2
<1>4. \A c \in D, d \in D : c < d => upTo(c) \subseteq upTo(d) \ {d}
  BY <1>2
<1> HIDE DEF upTo
<1>5. ASSUME NEW c \in D, NEW d \in D, c < d PROVE renumbered(c) < renumbered(d)
  <2>1. IsFiniteSet(upTo(d) \ {d}) /\ Cardinality(upTo(d) \ {d}) = Cardinality(upTo(d)) - 1
    BY <1>2, <1>3, FS_RemoveElement
  <2>2. Cardinality(upTo(c)) <= Cardinality(upTo(d) \ {d})
    BY <1>4, <1>5, <2>1, FS_Subset
  <2> QED BY <1>2, <2>1, <2>2
<1>6. \A c \in D : renumbered(c) \in Nat
  BY <1>2
<1> HIDE DEF renumbered
<1>7. \A c \in D, d \in D : renumbered(c) = renumbered(d) => c = d
  <2> SUFFICES ASSUME NEW c \in D, NEW d \in D, renumbered(c) = renumbered(d), c # d PROVE FALSE
    OBVIOUS
  <2>1. c < d \/ d < c
    BY <1>2
  <2> QED BY <1>5, <1>6, <2>1
<1>8. /\ \A c \in D : renumbered(c) \in ids /\ old(renumbered(c)) = c
      /\ \A id \in ids : old(id) \in D /\ renumbered(old(id)) = id
  <2>1. ASSUME NEW id \in ids PROVE old(id) \in D /\ renumbered(old(id)) = id
    <3>1. \E c \in D : renumbered(c) = id
      OBVIOUS
    <3> QED BY <3>1
  <2>2. ASSUME NEW c \in D PROVE renumbered(c) \in ids
    OBVIOUS
  <2> HIDE DEF ids, old
  <2> QED BY <1>7, <2>1, <2>2
<1> HIDE DEF ids, old
<1>9. IsFiniteSet(ids) /\ Cardinality(ids) \in Nat
  <2> DEFINE f == [id \in ids |-> old(id)]
  <2>1. f \in Injection(ids, D)
    BY <1>8 DEF Injection, IsInjective
  <2> HIDE DEF f
  <2>2. IsFiniteSet(ids)
    BY <1>2, <2>1, FS_Injection
  <2> QED BY <2>2, FS_CardinalityType
<1>10. ids \subseteq 1 .. 1 + Cardinality(ids)
  <2> SUFFICES ASSUME NEW id \in ids PROVE id \in 1 .. 1 + Cardinality(ids)
    OBVIOUS
  <2>1. PICK c \in D : id = renumbered(c)
    BY <1>8
  <2> DEFINE f == [d \in upTo(c) |-> renumbered(d)]
  <2>2. upTo(c) \subseteq D
    BY DEF upTo
  <2>3. f \in Injection(upTo(c), ids)
    BY <1>7, <1>8, <2>2 DEF Injection, IsInjective
  <2> HIDE DEF f
  <2>4. Cardinality(upTo(c)) <= Cardinality(ids)
    BY <1>9, <2>3, FS_Injection
  <2>5. id = 1 + Cardinality(upTo(c)) /\ Cardinality(upTo(c)) \in Nat
    BY <1>2, <2>1 DEF renumbered
  <2> QED BY <1>9, <2>4, <2>5
<1>11. \A z : LivingIn(z)' = {c \in ids : creature_zone'[c] = z}
  BY <1>1 DEF LivingIn, Living
<1>12. ASSUME NEW z \in hostile_zones
       PROVE  /\ creatures_count'[z] = Cardinality(LivingIn(z)') /\ creatures_count'[z] \in Nat
              /\ ~haunted' => creatures_count'[z] <= MaxCreatures
  <2> DEFINE loaded == {c \in ids : creature_zone'[c] = z}
             f == [id \in loaded |-> old(id)]
  <2>1. ASSUME ~haunted' PROVE f \in Injection(loaded, LivingIn(z))
    <3>1. \A id \in loaded : old(id) \in LivingIn(z) /\ renumbered(old(id)) = id
      BY <1>1, <1>8, <2>1 DEF LivingIn, Living
    <3> HIDE DEF loaded
    <3> QED BY <3>1 DEF Injection, IsInjective
  <2>2. IsFiniteSet(LivingIn(z)) /\ Cardinality(LivingIn(z)) \in Nat
    BY LivingIsFinite
  <2>3. IsFiniteSet(loaded) /\ Cardinality(loaded) \in Nat
    BY <1>9, FS_Subset, FS_CardinalityType
  <2>4. creatures_count'[z] = Cardinality(loaded) /\ loaded = LivingIn(z)'
    BY <1>1, <1>11
  <2> HIDE DEF loaded, f
  <2>5. ASSUME ~haunted' PROVE creatures_count'[z] <= MaxCreatures
    <3>1. Cardinality(loaded) <= Cardinality(LivingIn(z))
      BY <2>1, <2>2, <2>5, FS_Injection
    <3>2. /\ creatures_count[z] \in Nat /\ MaxCreatures \in Nat /\ creatures_count[z] <= MaxCreatures
          /\ creatures_count[z] - Cardinality(LivingIn(z)) \in Ahead
      BY <1>1, <2>5, WorldAssumption DEF Counted
    <3>3. Cardinality(LivingIn(z)) <= creatures_count[z]
      BY <2>2, <3>2 DEF Ahead
    <3> QED BY <2>2, <2>3, <2>4, <3>1, <3>2, <3>3
  <2> QED BY <2>3, <2>4, <2>5
<1>13. creatures_count' \in [hostile_zones -> Nat]
  BY <1>1, <1>12
<1>14. \A z \in hostile_zones : creatures_count'[z] - Cardinality(LivingIn(z)') \in Ahead'
  BY <1>12 DEF Ahead
<1>15. \A c \in DOMAIN creatures' : creature_zone'[c] \in hostile_zones
  BY <1>1, <1>8 DEF Counted
<1>16. restarts' \in Nat /\ restarts' > 0 /\ next_npc_id' \in Nat \ {0}
  BY <1>1, <1>2, <1>9
<1> QED BY <1>1, <1>10, <1>12, <1>13, <1>14, <1>15, <1>16 DEF Counted

\* A fresh world is counted.
LEMMA FreshIsCounted ==
  ASSUME Init
  PROVE  Counted
<1>1. PICK homes \in SUBSET UNION hostile_zones :
        /\ homes \subseteq Walkable \ {PriestTile}
        /\ \A z \in hostile_zones : Cardinality(homes \cap z) = Spawned
        /\ creatures \in Numberings(1, homes)
        /\ next_npc_id = 1 + Cardinality(homes)
  BY DEF Init
<1>2. /\ corpses = {} /\ restarts = 0 /\ Living = DOMAIN creatures
      /\ creature_zone = [c \in DOMAIN creatures |-> CHOOSE z \in hostile_zones : creatures[c] \in z]
      /\ creatures_count = [z \in hostile_zones |-> Spawned]
  BY DEF Init, Living
<1>3. PICK n : n = Cardinality(homes)
  OBVIOUS
<1>4. IsFiniteSet(homes) /\ n \in Nat
  BY <1>1, <1>3, FreeTiles, TilesAreFinite
<1>5. DOMAIN creatures = 1 .. n /\ IsFiniteSet(1 .. n) /\ Cardinality(1 .. n) = n
  <2>1. creatures \in [1 .. 1 + n - 1 -> homes]
    BY <1>1, <1>3 DEF Numberings
  <2>2. 1 .. 1 + n - 1 = 1 .. n
    BY <1>4
  <2> QED BY <1>4, <2>1, <2>2, FS_Interval
<1>6. creatures \in Injection(1 .. n, homes)
  BY <1>1, <1>5 DEF Numberings, Injection, IsInjective
<1>7. \A h \in homes : \E c \in 1 .. n : creatures[c] = h
  <2>1. creatures \in Surjection(1 .. n, homes)
    BY <1>3, <1>4, <1>5, <1>6, FS_Injection
  <2> QED BY <2>1 DEF Surjection
<1>8. ASSUME NEW c \in 1 .. n
      PROVE  /\ creature_zone[c] \in hostile_zones
             /\ \A z \in hostile_zones : creature_zone[c] = z <=> creatures[c] \in z
  <2>1. creatures[c] \in homes
    BY <1>6 DEF Injection
  <2>2. \E z \in hostile_zones : creatures[c] \in z
    BY <1>1, <2>1
  <2>3. creature_zone[c] \in hostile_zones /\ creatures[c] \in creature_zone[c]
    BY <1>2, <1>5, <2>2
  <2> QED BY <2>3, ZonesAreApart
<1>9. ASSUME NEW z \in hostile_zones PROVE Cardinality(LivingIn(z)) = Spawned
  <2> DEFINE f == [c \in LivingIn(z) |-> creatures[c]]
  <2>1. LivingIn(z) = {c \in 1 .. n : creatures[c] \in z}
    BY <1>2, <1>5, <1>8 DEF LivingIn
  <2>2. f \in Injection(LivingIn(z), homes \cap z)
    BY <1>6, <2>1 DEF Injection, IsInjective
  <2>3. f \in Surjection(LivingIn(z), homes \cap z)
    <3>1. \A h \in homes \cap z : \E c \in LivingIn(z) : creatures[c] = h
      BY <1>7, <2>1
    <3>2. f \in [LivingIn(z) -> homes \cap z]
      BY <2>2 DEF Injection
    <3> QED BY <3>1, <3>2 DEF Surjection
  <2>4. IsFiniteSet(homes \cap z)
    BY <1>4, FS_Intersection
  <2> HIDE DEF f
  <2>5. Cardinality(LivingIn(z)) = Cardinality(homes \cap z)
    BY <2>2, <2>3, <2>4, FS_Injection
  <2> QED BY <1>1, <2>5
<1>10. Spawned \in Nat /\ Spawned <= MaxCreatures
  BY WorldAssumption DEF Spawned
<1>11. \A z \in hostile_zones : creatures_count[z] - Cardinality(LivingIn(z)) \in Ahead
  BY <1>2, <1>9, <1>10 DEF Ahead
<1>12. /\ DOMAIN creatures \subseteq 1 .. next_npc_id /\ next_npc_id \notin DOMAIN creatures
       /\ next_npc_id \in Nat \ {0}
  BY <1>1, <1>2, <1>3, <1>4, <1>5
<1> QED BY <1>2, <1>5, <1>8, <1>10, <1>11, <1>12 DEF Counted

\* A step that neither makes nor ends a creature.
LEMMA CountedStays ==
  ASSUME Counted, DOMAIN creatures' = DOMAIN creatures,
         UNCHANGED <<creature_zone, corpses, creatures_count, next_npc_id, restarts, haunted>>
  PROVE  Counted'
<1>1. \A z : LivingIn(z)' = LivingIn(z)
  BY DEF LivingIn, Living
<1>2. Ahead' = Ahead
  BY DEF Ahead
<1> QED BY <1>1, <1>2 DEF Counted

\* Fewer treasures, perhaps, and the same counts.
LEMMA TreasuresStay ==
  ASSUME TreasuresCounted, treasures' \subseteq treasures, UNCHANGED treasures_count
  PROVE  TreasuresCounted'
<1>1. treasures \subseteq Tiles /\ treasures' \subseteq Walkable
  BY FreeTiles DEF TreasuresCounted
<1>2. ASSUME NEW z \in hostile_zones PROVE Cardinality(treasures' \cap z) <= treasures_count'[z]
  <2>1. /\ IsFiniteSet(treasures \cap z) /\ treasures' \cap z \subseteq treasures \cap z
        /\ Cardinality(treasures \cap z) \in Nat /\ Cardinality(treasures' \cap z) \in Nat
    BY <1>1, TilesAreFinite
  <2>2. Cardinality(treasures' \cap z) <= Cardinality(treasures \cap z)
    BY <2>1, FS_Subset
  <2>3. Cardinality(treasures \cap z) <= treasures_count[z] /\ treasures_count[z] \in Nat
    BY WorldAssumption DEF TreasuresCounted
  <2> QED BY <2>1, <2>2, <2>3
<1> QED BY <1>1, <1>2 DEF TreasuresCounted

\* A zone without treasures, so far, is given them; they are in no other zone.
LEMMA RespawnHides ==
  ASSUME TreasuresCounted, NEW zone \in hostile_zones, respawnDeadNpcs(zone)
  PROVE  TreasuresCounted'
<1>1. PICK hidden, missing :
        /\ missing = IF treasures_count[zone] = 0 THEN Treasures ELSE 0
        /\ hidden \subseteq RandomPositions(zone)
        /\ \/ Cardinality(hidden) = 0
           \/ \E other : /\ other \subseteq RandomPositions(zone)
                         /\ Cardinality(hidden) = IF missing < Cardinality(other) THEN missing
                                                  ELSE Cardinality(other)
        /\ treasures' = treasures \union hidden
        /\ treasures_count' = [treasures_count EXCEPT ![zone] = @ + Cardinality(hidden)]
  <2> DEFINE lacking == IF creatures_count[zone] < MaxCreatures \div 2
                        THEN MaxCreatures - creatures_count[zone] ELSE 0
             missing == IF treasures_count[zone] = 0 THEN Treasures ELSE 0
             room == RandomPositions(zone)
  <2>1. PICK spawned \in SUBSET room : \E hidden \in SUBSET (room \ spawned) :
          /\ Cardinality(hidden) = IF Cardinality(spawned) < lacking THEN 0
                                   ELSE IF missing < Cardinality(room \ spawned) THEN missing
                                        ELSE Cardinality(room \ spawned)
          /\ treasures' = treasures \union hidden
          /\ treasures_count' = [treasures_count EXCEPT ![zone] = @ + Cardinality(hidden)]
    BY DEF respawnDeadNpcs
  <2>2. PICK hidden \in SUBSET (room \ spawned) :
          /\ Cardinality(hidden) = IF Cardinality(spawned) < lacking THEN 0
                                   ELSE IF missing < Cardinality(room \ spawned) THEN missing
                                        ELSE Cardinality(room \ spawned)
          /\ treasures' = treasures \union hidden
          /\ treasures_count' = [treasures_count EXCEPT ![zone] = @ + Cardinality(hidden)]
    BY <2>1
  <2>3. room \ spawned \subseteq room
    OBVIOUS
  <2>4. hidden \subseteq RandomPositions(zone) /\ room \ spawned \subseteq RandomPositions(zone)
    BY <2>2, <2>3
  <2> HIDE DEF lacking, room
  <2>5. \/ Cardinality(hidden) = 0
        \/ Cardinality(hidden) = IF missing < Cardinality(room \ spawned) THEN missing
                                 ELSE Cardinality(room \ spawned)
    BY <2>2
  <2> QED BY <2>2, <2>4, <2>5
<1>2. hidden \subseteq zone /\ hidden \subseteq Walkable /\ treasures \subseteq Walkable /\ Walkable \subseteq Tiles
  BY <1>1, FreeTiles DEF TreasuresCounted, RandomPositions
<1>3. PICK n : n = Cardinality(hidden)
  OBVIOUS
<1>4. n \in Nat /\ treasures_count[zone] + n \in 0 .. Treasures
  <2>1. n \in Nat /\ treasures_count[zone] \in 0 .. Treasures /\ Treasures \in Nat
    BY <1>2, <1>3, TilesAreFinite, WorldAssumption DEF TreasuresCounted
  <2>2. missing \in Nat /\ n <= missing
    <3>1. missing \in Nat
      BY <1>1, <2>1
    <3>2. ASSUME NEW other, other \subseteq RandomPositions(zone),
                 n = IF missing < Cardinality(other) THEN missing ELSE Cardinality(other)
          PROVE  n <= missing
      <4>1. Cardinality(other) \in Nat
        BY <3>2, FreeTiles, TilesAreFinite
      <4> QED BY <3>1, <3>2, <4>1
    <3> QED BY <1>1, <1>3, <2>1, <3>1, <3>2
  <2> QED BY <1>1, <2>1, <2>2
<1>5. /\ treasures_count'[zone] = treasures_count[zone] + n
      /\ \A z \in hostile_zones : z # zone => treasures_count'[z] = treasures_count[z]
      /\ treasures_count' \in [hostile_zones -> 0 .. Treasures]
  BY <1>1, <1>3, <1>4 DEF TreasuresCounted
<1>6. ASSUME NEW z \in hostile_zones PROVE Cardinality(treasures' \cap z) <= treasures_count'[z]
  <2>1. Cardinality(treasures \cap z) <= treasures_count[z]
    BY DEF TreasuresCounted
  <2>2. CASE z = zone
    <3>1. treasures' \cap z = (treasures \cap z) \union hidden
      BY <1>1, <1>2, <2>2
    <3>2. /\ IsFiniteSet(treasures \cap z) /\ IsFiniteSet(hidden)
          /\ Cardinality(treasures \cap z) \in Nat
          /\ Cardinality((treasures \cap z) \cap hidden) \in Nat
      BY <1>2, TilesAreFinite
    <3>3. Cardinality(treasures' \cap z)
            = Cardinality(treasures \cap z) + n - Cardinality((treasures \cap z) \cap hidden)
      BY <1>3, <3>1, <3>2, FS_Union
    <3>4. treasures_count[z] \in Nat
      BY WorldAssumption DEF TreasuresCounted
    <3> QED BY <1>4, <1>5, <2>1, <2>2, <3>2, <3>3, <3>4
  <2>3. CASE z # zone
    <3>1. hidden \cap z = {}
      BY <1>2, <2>3, ZonesAreApart
    <3>2. treasures' \cap z = treasures \cap z
      BY <1>1, <3>1
    <3> QED BY <1>5, <2>1, <2>3, <3>2
  <2> QED BY <2>2, <2>3
<1> QED BY <1>1, <1>2, <1>5, <1>6 DEF TreasuresCounted

\* The load counts what is left.
LEMMA RestartCountsTreasures ==
  ASSUME TreasuresCounted, Restart
  PROVE  TreasuresCounted'
<1>1. /\ treasures' = treasures
      /\ treasures_count' = [z \in hostile_zones |-> Cardinality(treasures \cap z)]
  BY DEF Restart, loadItemsInTheFloor
<1>2. ASSUME NEW z \in hostile_zones PROVE Cardinality(treasures \cap z) \in 0 .. Treasures
  <2>1. Cardinality(treasures \cap z) \in Nat
    BY FreeTiles, TilesAreFinite DEF TreasuresCounted
  <2>2. Cardinality(treasures \cap z) <= treasures_count[z] /\ treasures_count[z] \in 0 .. Treasures
    BY DEF TreasuresCounted
  <2> QED BY <2>1, <2>2, WorldAssumption
<1>3. treasures_count' \in [hostile_zones -> 0 .. Treasures]
  BY <1>1, <1>2
<1>4. ASSUME NEW z \in hostile_zones PROVE Cardinality(treasures' \cap z) <= treasures_count'[z]
  <2>1. treasures_count'[z] = Cardinality(treasures' \cap z)
    BY <1>1
  <2> QED BY <1>1, <1>2, <2>1
<1> QED BY <1>1, <1>3, <1>4 DEF TreasuresCounted

\* A thing falls on a tile with nothing on it.
LEMMA DropFits ==
  ASSUME OthersTyped, FloorTrue, NEW center, Drop(center) \/ DropNothing
  PROVE  floor' \in [Tiles -> 0 .. MaxFloor]
<1>1. floor \in [Tiles -> 0 .. MaxFloor] /\ MaxFloor \in Nat
  BY WorldAssumption DEF OthersTyped
<1>2. ASSUME Drop(center) PROVE floor' \in [Tiles -> 0 .. MaxFloor]
  <2>1. PICK t \in Walkable \ Occupied : floor' = [floor EXCEPT ![t] = @ + 1]
    BY <1>2, FreeTiles DEF Drop
  <2>2. t \in Tiles /\ floor[t] = 0
    BY <1>1, <2>1, FreeTiles DEF FloorTrue, Occupied
  <2>3. MaxFloor > 0
    <3>1. Cardinality({u \in Tiles : floor[u] > 0}) \in Nat
      BY TilesAreFinite
    <3>2. Cardinality({u \in Tiles : floor[u] > 0}) < MaxFloor
      BY <1>2 DEF Drop
    <3> QED BY <1>1, <3>1, <3>2
  <2> QED BY <1>1, <2>1, <2>2, <2>3
<1>3. ASSUME DropNothing PROVE floor' \in [Tiles -> 0 .. MaxFloor]
  BY <1>1, <1>3 DEF DropNothing
<1> QED BY <1>2, <1>3

\* A death of a player who can be hurt leaves the types.
LEMMA DyingFits ==
  ASSUME OthersTyped, WorldInv, NEW p, Dies(p), running' \in BOOLEAN, haunted' = haunted
  PROVE  OthersTyped'
<1>1. /\ p \in InGame \ (ghosts \union infinite_hp) /\ ghosts' = ghosts \union {p}
      /\ Drop(pose[p]) \/ DropNothing
      /\ UNCHANGED <<players_positions, infinite_hp>>
  BY DEF Dies
<1>2. floor' \in [Tiles -> 0 .. MaxFloor]
  BY <1>1, DropFits DEF WorldInv
<1> QED BY <1>1, <1>2 DEF OthersTyped, InGame

PopulationInv == Counted /\ TreasuresCounted /\ OthersTyped

\* The fresh world.
LEMMA InitPopulation == Init => PopulationInv
<1> SUFFICES ASSUME Init PROVE PopulationInv
  OBVIOUS
<1>1. /\ players_positions = <<>> /\ infinite_hp = {} /\ running = TRUE /\ haunted = FALSE
      /\ floor = [t \in Tiles |-> 0]
      /\ treasures \in SUBSET (Walkable \ (SafeTiles \union npc_tiles))
      /\ \A z \in hostile_zones : Cardinality(treasures \cap z) = Treasures
      /\ treasures_count = [z \in hostile_zones |-> Treasures]
  BY DEF Init
<1>2. OthersTyped
  <2>1. DOMAIN players_positions = {}
    BY <1>1
  <2>2. floor \in [Tiles -> 0 .. MaxFloor]
    BY <1>1, WorldAssumption
  <2>3. running \in BOOLEAN /\ haunted \in BOOLEAN
    BY <1>1
  <2>4. InGame \subseteq Players /\ infinite_hp \subseteq InGame \ ghosts
    BY <1>1, <2>1 DEF InGame
  <2> QED BY <2>2, <2>3, <2>4 DEF OthersTyped
<1>3. TreasuresCounted
  <2>1. Treasures \in 0 .. Treasures
    BY WorldAssumption
  <2> QED BY <1>1, <2>1 DEF TreasuresCounted
<1> QED BY <1>2, <1>3, FreshIsCounted DEF PopulationInv

\* Steps of players: no creature and no treasure comes.
LEMMA PlayersKeepPopulation ==
  ASSUME PopulationInv, WorldInv, NEW p \in Players,
         \/ Login(p) \/ Disconnect(p) \/ MovePlayer(p) \/ DropItem(p) \/ PickUp(p)
         \/ DebugKill(p) \/ ToggleInfiniteHp(p) \/ \E victim \in Players : AttackPlayer(p, victim)
         \/ ResurrectAtPriest(p) \/ StartResurrection(p) \/ FinishResurrection(p)
  PROVE  PopulationInv'
<1>1. OthersTyped /\ Counted /\ TreasuresCounted /\ FloorTrue
  BY DEF PopulationInv, WorldInv
<1>2. UNCHANGED <<npcVars, restarts, haunted, treasures_count>>
  BY DEF Login, Disconnect, MovePlayer, DropItem, PickUp, DebugKill, AttackPlayer, Dies, ToggleInfiniteHp,
         ResurrectAtPriest, StartResurrection, FinishResurrection, resurrectPlayerAtHealer, bootVars, floorVars
<1>3. Counted'
  <2>1. UNCHANGED <<creatures, creature_zone, corpses, creatures_count, next_npc_id, restarts, haunted>>
    BY <1>2 DEF npcVars
  <2> QED BY <1>1, <2>1, CountedStays
<1>4. treasures' \subseteq treasures
  BY DEF Login, Disconnect, MovePlayer, DropItem, PickUp, DebugKill, AttackPlayer, Dies, ToggleInfiniteHp,
         ResurrectAtPriest, StartResurrection, FinishResurrection, resurrectPlayerAtHealer, floorVars
<1>5. TreasuresCounted'
  BY <1>1, <1>2, <1>4, TreasuresStay
<1>6. ASSUME Login(p) PROVE OthersTyped'
  <2>1. /\ DOMAIN players_positions' = DOMAIN players_positions \union {p}
        /\ UNCHANGED <<ghosts, infinite_hp, floor, running, haunted>>
    BY <1>6 DEF Login, Emplaced, floorVars, bootVars
  <2> QED BY <1>1, <2>1 DEF OthersTyped, InGame
<1>7. ASSUME Disconnect(p) PROVE OthersTyped'
  <2>1. /\ DOMAIN players_positions' = DOMAIN players_positions \ {p}
        /\ ghosts' = ghosts \ {p} /\ infinite_hp' = infinite_hp \ {p}
        /\ UNCHANGED <<floor, running, haunted>>
    BY <1>7 DEF Disconnect, Without, Restrict, floorVars, bootVars
  <2> QED BY <1>1, <2>1 DEF OthersTyped, InGame
<1>8. ASSUME MovePlayer(p) PROVE OthersTyped'
  <2>1. /\ DOMAIN players_positions' = DOMAIN players_positions
        /\ UNCHANGED <<ghosts, infinite_hp, floor, running, haunted>>
    BY <1>8 DEF MovePlayer, movePlayer, floorVars, bootVars
  <2> QED BY <1>1, <2>1 DEF OthersTyped, InGame
<1>9. ASSUME DropItem(p) PROVE OthersTyped'
  <2>1. Drop(pose[p]) /\ UNCHANGED <<players_positions, ghosts, infinite_hp, running, haunted>>
    BY <1>9 DEF DropItem, playerVars, bootVars
  <2>2. floor' \in [Tiles -> 0 .. MaxFloor]
    BY <1>1, <2>1, DropFits
  <2> QED BY <1>1, <2>1, <2>2 DEF OthersTyped, InGame
<1>10. ASSUME PickUp(p) PROVE OthersTyped'
  <2>1. PICK left \in 0 .. floor[pose[p]] : floor' = [floor EXCEPT ![pose[p]] = left]
    BY <1>10 DEF PickUp
  <2>2. pose[p] \in Tiles /\ UNCHANGED <<players_positions, ghosts, infinite_hp, running, haunted>>
    <3>1. pose[p] \in items_tiles /\ UNCHANGED <<players_positions, ghosts, infinite_hp, running, haunted>>
      BY <1>10 DEF PickUp, playerVars, bootVars
    <3> QED BY <1>1, <3>1, FreeTiles DEF FloorTrue, TreasuresCounted
  <2>3. floor' \in [Tiles -> 0 .. MaxFloor]
    <3>1. floor[pose[p]] \in 0 .. MaxFloor /\ MaxFloor \in Nat
      BY <1>1, <2>2, WorldAssumption DEF OthersTyped
    <3>2. left \in 0 .. MaxFloor
      BY <3>1
    <3> QED BY <1>1, <2>1, <2>2, <3>2 DEF OthersTyped
  <2> QED BY <1>1, <2>2, <2>3 DEF OthersTyped, InGame
<1>11. ASSUME DebugKill(p) \/ \E victim \in Players : AttackPlayer(p, victim) PROVE OthersTyped'
  <2>1. UNCHANGED <<running, haunted>> /\ \E victim : Dies(victim)
    BY <1>11 DEF DebugKill, AttackPlayer, bootVars
  <2>2. running' \in BOOLEAN
    BY <1>1, <2>1 DEF OthersTyped
  <2> QED BY <1>1, <2>1, <2>2, DyingFits DEF WorldInv
<1>12. ASSUME ToggleInfiniteHp(p) PROVE OthersTyped'
  <2>1. /\ p \in InGame /\ UNCHANGED <<players_positions, floor, running, haunted>>
        /\ \/ infinite_hp' = infinite_hp \ {p} /\ ghosts' = ghosts
           \/ infinite_hp' = infinite_hp \union {p} /\ ghosts' = ghosts \ {p}
    BY <1>12 DEF ToggleInfiniteHp, floorVars, bootVars
  <2> QED BY <1>1, <2>1 DEF OthersTyped, InGame
<1>13. ASSUME ResurrectAtPriest(p) \/ FinishResurrection(p) PROVE OthersTyped'
  <2>1. resurrectPlayerAtHealer(p)
    BY <1>13 DEF ResurrectAtPriest, FinishResurrection
  <2>2. /\ DOMAIN players_positions' = DOMAIN players_positions /\ ghosts' = ghosts \ {p}
        /\ UNCHANGED <<infinite_hp, floor>>
    BY <2>1 DEF resurrectPlayerAtHealer, teleportPlayer, floorVars
  <2>3. haunted' = haunted /\ (running' = running \/ running' = FALSE)
    BY <1>13 DEF ResurrectAtPriest, FinishResurrection, bootVars
  <2> QED BY <1>1, <2>2, <2>3 DEF OthersTyped, InGame
<1>14. ASSUME StartResurrection(p) PROVE OthersTyped'
  <2>1. UNCHANGED <<players_positions, ghosts, infinite_hp, floor, running, haunted>>
    BY <1>14 DEF StartResurrection, floorVars, bootVars
  <2> QED BY <1>1, <2>1 DEF OthersTyped, InGame
<1>15. OthersTyped'
  BY <1>6, <1>7, <1>8, <1>9, <1>10, <1>11, <1>12, <1>13, <1>14
<1> QED BY <1>3, <1>5, <1>15 DEF PopulationInv

\* Every step.
LEMMA StepPopulation == WorldInv /\ PopulationInv /\ [Next]_vars => PopulationInv'
<1> SUFFICES ASSUME WorldInv, PopulationInv, [Next]_vars PROVE PopulationInv'
  OBVIOUS
<1>1. OthersTyped /\ Counted /\ TreasuresCounted /\ FloorTrue
  BY DEF PopulationInv, WorldInv
<1>2. ASSUME NEW c, CreatureMoves(c) PROVE PopulationInv'
  <2>1. /\ DOMAIN creatures' = DOMAIN creatures
        /\ UNCHANGED <<creature_zone, corpses, creatures_count, next_npc_id, restarts, treasures, treasures_count>>
        /\ UNCHANGED <<players_positions, infinite_hp, ghosts, floor, running, haunted>>
    BY <1>2 DEF CreatureMoves, moveCreature, playerVars, floorVars, bootVars
  <2> QED BY <1>1, <2>1, CountedStays, TreasuresStay DEF PopulationInv, OthersTyped, InGame
<1>3. ASSUME NEW c, CreatureAttacks(c) PROVE PopulationInv'
  <2>1. (\E p : Dies(p)) /\ running' \in BOOLEAN /\ UNCHANGED <<haunted, restarts>>
    BY <1>3 DEF CreatureAttacks
  <2>2. UNCHANGED <<creatures, creature_zone, corpses, creatures_count, next_npc_id, restarts, haunted,
                    treasures, treasures_count>>
    BY <2>1 DEF Dies, npcVars
  <2> QED BY <1>1, <2>1, <2>2, CountedStays, TreasuresStay, DyingFits DEF PopulationInv
<1>4. ASSUME NEW p, NEW victim, AttackCreature(p, victim) PROVE PopulationInv'
  <2>1. /\ Drop(creatures[victim]) \/ DropNothing
        /\ UNCHANGED <<treasures, treasures_count, players_positions, infinite_hp, ghosts, running, haunted>>
    BY <1>4 DEF AttackCreature, playerVars, bootVars
  <2>2. OthersTyped'
    BY <1>1, <2>1, DropFits DEF OthersTyped, InGame
  <2> QED BY <1>1, <1>4, <2>1, <2>2, LeavingIsCounted, TreasuresStay DEF PopulationInv
<1>5. ASSUME NEW zone \in hostile_zones, respawnDeadNpcs(zone) PROVE PopulationInv'
  <2>1. running' \in BOOLEAN /\ UNCHANGED <<players_positions, infinite_hp, ghosts, floor, haunted>>
    BY <1>5 DEF respawnDeadNpcs, playerVars
  <2> QED BY <1>1, <1>5, <2>1, RespawnIsCounted, RespawnHides DEF PopulationInv, OthersTyped, InGame
<1>6. CASE Restart
  <2>1. /\ players_positions' = <<>> /\ infinite_hp' = {} /\ running' = TRUE /\ floor' = floor
        /\ haunted' = (haunted \/ corpses # {})
    BY <1>6 DEF Restart, loadItemsInTheFloor, loadCreatures
  <2>2. DOMAIN players_positions' = {}
    BY <2>1
  <2>3. OthersTyped'
    BY <1>1, <2>1, <2>2 DEF OthersTyped, InGame
  <2> QED BY <1>1, <1>6, <2>3, RestartCounts, RestartCountsTreasures DEF PopulationInv
<1>7. CASE UNCHANGED vars
  <2>1. UNCHANGED <<creatures, creature_zone, corpses, creatures_count, next_npc_id, restarts,
                    treasures, treasures_count, players_positions, infinite_hp, ghosts, floor, running, haunted>>
    BY <1>7 DEF vars, npcVars, playerVars, floorVars, bootVars
  <2> QED BY <1>1, <2>1, CountedStays, TreasuresStay DEF PopulationInv, OthersTyped, InGame
<1> QED BY <1>2, <1>3, <1>4, <1>5, <1>6, <1>7, PlayersKeepPopulation DEF Next

\* The count a zone respawns by is that of its living creatures, on any map, but for
\* at most one creature after a restart, however many were killed and not erased and
\* however often the server restarts: it never drifts, and never is less than there
\* are.  It exceeds the maximum of the zone only once a dead creature is loaded.
THEOREM PopulationCorrect == Spec => []PopulationIsCounted
<1>1. WorldInv /\ PopulationInv => PopulationIsCounted
  BY DEF PopulationIsCounted, TypeOK, WorldInv, PlayersTrue, NpcsTrue, WaitersHere, InGame,
         PopulationInv, Counted, TreasuresCounted, OthersTyped, Ahead
<1> QED BY WorldIsRight, InitPopulation, StepPopulation, <1>1, PTL DEF Spec
=============================================================================
