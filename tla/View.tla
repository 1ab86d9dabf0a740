-------------------------------- MODULE View --------------------------------
(***************************************************************************)
(* What the client shows: WorldRenderer with its RenderableEntity objects, *)
(* the slots and the console of HudRenderer, and what a click on them      *)
(* finds; and the sounds it plays.  These are operators on a view, which   *)
(* Client keeps in a variable.                                             *)
(*                                                                         *)
(* A view has the entities by their keys, the keys that no snapshot        *)
(* removes, the id of the local player, the slots of the inventory and of  *)
(* the equipment, the lines of the console and how far it is scrolled, and *)
(* the sounds of the last snapshot that were played.  An entity has the    *)
(* tile the server gave it and the place it is drawn at: a tile, or        *)
(* Between while it is on its way.                                         *)
(***************************************************************************)
EXTENDS Integers, SequencesExt, TLC

CONSTANTS
  MAX_CHAT_LOG_SIZE,        \* lines that the console keeps
  VisibleLines,             \* lines that it has room for
  MAX_SOUNDS_PER_SNAPSHOT,
  SOUND_PRIORITIES          \* those of some sounds: a function from their ids

ASSUME ViewAssumption ==
  /\ MAX_CHAT_LOG_SIZE \in Nat \ {0} /\ VisibleLines \in Nat
  /\ SOUND_PRIORITIES \in [DOMAIN SOUND_PRIORITIES -> Int]

PLAYER_ENTITY_OFFSET == 0
NPC_ENTITY_OFFSET == 1000000
ITEM_ENTITY_OFFSET == 2000000
CITIZEN_ENTITY_OFFSET == 3000000

player_entity_key(id) == PLAYER_ENTITY_OFFSET + id

npc_entity_key(id) == NPC_ENTITY_OFFSET + id

item_entity_key(tile) == ITEM_ENTITY_OFFSET + tile[1] * 1000 + tile[2]

citizen_entity_key(id) == CITIZEN_ENTITY_OFFSET + id

\* The ids and the tiles that the offsets leave room for.
Ids == {id \in Nat : id < NPC_ENTITY_OFFSET}

Tiles == (0 .. 999) \X (0 .. 999)

Between == <<>>

Abs(n) == IF n < 0 THEN -n ELSE n

distance_tiles(a, b) == Abs(a[1] - b[1]) + Abs(a[2] - b[2])

-----------------------------------------------------------------------------
\* RenderableEntity: its constructor, move_to and update.

NewEntity(type, tile, body_id) ==
  [type |-> type, tile |-> tile, pixel |-> tile, is_moving |-> FALSE, body_id |-> body_id]

\* Mutant: a jump of more than a tile leaves the entity where it was drawn.
MoveWithoutSnap(e, tile) ==
  IF e.type = "ITEM" THEN e
  ELSE IF e.tile = tile THEN [e EXCEPT !.is_moving = e.pixel # tile]
  ELSE [e EXCEPT !.tile = tile, !.is_moving = distance_tiles(e.tile, tile) = 1]

\* A jump of more than a tile is drawn at once.
move_to(e, tile) ==
  IF e.type = "ITEM" THEN e
  ELSE IF e.tile = tile THEN [e EXCEPT !.is_moving = e.pixel # tile]
  ELSE IF distance_tiles(e.tile, tile) > 1
       THEN [e EXCEPT !.tile = tile, !.pixel = tile, !.is_moving = FALSE]
  ELSE [e EXCEPT !.tile = tile, !.is_moving = TRUE]

\* A frame takes a walking entity to its tile or nearer to it, as its time says,
\* and only the frame after that stops it.
update(e, arrives) ==
  IF e.type = "ITEM" THEN e
  ELSE IF e.pixel # e.tile THEN [e EXCEPT !.pixel = IF arrives THEN e.tile ELSE Between]
  ELSE [e EXCEPT !.is_moving = FALSE]

-----------------------------------------------------------------------------
\* WorldRenderer.

NoView ==
  [entities |-> <<>>, static_entity_keys |-> {}, local_player_id |-> 0,
   inventory_slots |-> <<>>, equipped_inventory_slots |-> <<>>,
   console |-> <<>>, console_scroll_offset |-> 0, heard |-> {}]

\* The citizens of a map, by their ids.
load_map(view, citizens) ==
  [view EXCEPT
    !.entities = [key \in {citizen_entity_key(id) : id \in DOMAIN citizens} |->
                    NewEntity("CITIZEN", citizens[key - CITIZEN_ENTITY_OFFSET], 0)],
    !.static_entity_keys = {citizen_entity_key(id) : id \in DOMAIN citizens}]

\* Who is known moves, and who is not appears.
Moved(entities, type, key, tile, body_id) ==
  IF key \in DOMAIN entities THEN move_to(entities[key], tile) ELSE NewEntity(type, tile, body_id)

update_players(entities, players) ==
  LET keys == {player_entity_key(id) : id \in DOMAIN players}
  IN  [key \in DOMAIN entities \cup keys |->
         IF key \in keys
         THEN Moved(entities, "PLAYER", key, players[key - PLAYER_ENTITY_OFFSET], 0)
         ELSE entities[key]]

update_npcs(entities, npcs) ==
  LET keys == {npc_entity_key(id) : id \in DOMAIN npcs}
  IN  [key \in DOMAIN entities \cup keys |->
         IF key \in keys THEN Moved(entities, "NPC", key, npcs[key - NPC_ENTITY_OFFSET], 0)
         ELSE entities[key]]

\* A thing on a tile where one is already shown is shown as that one.
update_floor_items(entities, items) ==
  LET TileOf(key) == CHOOSE tile \in DOMAIN items : item_entity_key(tile) = key
  IN  [key \in DOMAIN entities \cup {item_entity_key(tile) : tile \in DOMAIN items} |->
         IF key \in DOMAIN entities THEN entities[key]
         ELSE NewEntity("ITEM", TileOf(key), items[TileOf(key)])]

ids_en_snapshot(snapshot) ==
  {player_entity_key(id) : id \in DOMAIN snapshot.players}
    \cup {npc_entity_key(id) : id \in DOMAIN snapshot.npcs}
    \cup {item_entity_key(tile) : tile \in DOMAIN snapshot.items_on_floor}

\* Mutant: the citizens, which no snapshot names, go too.
CleanupEverybody(entities, static_entity_keys, ids) == Restrict(entities, ids)

cleanup_stale_entities(entities, static_entity_keys, ids) ==
  Restrict(entities, DOMAIN entities \cap (ids \cup static_entity_keys))

\* Its last part, process_sound_effects, comes below.
update_entities(view, snapshot) ==
  LET with_players == update_players(view.entities, snapshot.players)
      with_npcs == update_npcs(with_players, snapshot.npcs)
      with_items == update_floor_items(with_npcs, snapshot.items_on_floor)
  IN  [view EXCEPT !.entities = cleanup_stale_entities(with_items, view.static_entity_keys,
                                                       ids_en_snapshot(snapshot))]

\* A frame, in which the entities with the keys of "arriving" get to their tiles.
update_animations(view, arriving) ==
  [view EXCEPT !.entities = [key \in DOMAIN @ |-> update(@[key], key \in arriving)]]

Walking(view) == {key \in DOMAIN view.entities : view.entities[key].pixel # view.entities[key].tile}

is_local_player_moving(view) ==
  LET key == player_entity_key(view.local_player_id)
  IN  key \in DOMAIN view.entities /\ view.entities[key].is_moving

\* What a click in the world can hit, as a type and the id the server knows.  The
\* nearest one is hit, which depends on the pixel.
get_entity_at_screen(view) ==
  {[type |-> view.entities[key].type,
    id |-> key - CASE view.entities[key].type = "NPC" -> NPC_ENTITY_OFFSET
                   [] view.entities[key].type = "CITIZEN" -> CITIZEN_ENTITY_OFFSET
                   [] view.entities[key].type = "PLAYER" -> PLAYER_ENTITY_OFFSET] :
   key \in {k \in DOMAIN view.entities : view.entities[k].type # "ITEM"}}

-----------------------------------------------------------------------------
\* The sounds of a snapshot.

squared_distance(a, b) == (a[1] - b[1]) * (a[1] - b[1]) + (a[2] - b[2]) * (a[2] - b[2])

\* The same sound within two tiles.
is_same_sound_nearby(s, t) == s.id = t.id /\ squared_distance(s.tile, t.tile) <= 4

sound_effect_priority(id) ==
  IF id \in DOMAIN SOUND_PRIORITIES THEN SOUND_PRIORITIES[id] ELSE 1

\* By priority and then by distance; the sort leaves ties in any order.
Orders(effects, at) ==
  LET Before(s, t) ==
        \/ sound_effect_priority(s.id) > sound_effect_priority(t.id)
        \/ /\ sound_effect_priority(s.id) = sound_effect_priority(t.id)
           /\ squared_distance(s.tile, at) < squared_distance(t.tile, at)
  IN  {sorted \in SetToSeqs(DOMAIN effects) :
         \A i, j \in DOMAIN effects : i < j => ~Before(effects[sorted[j]], effects[sorted[i]])}

\* The sounds that may be picked, one set for each order.
select_audible_sound_effects(effects, at) ==
  LET Pick(selected, s) ==
        IF \/ Cardinality(selected) = MAX_SOUNDS_PER_SNAPSHOT
           \/ \E t \in selected : is_same_sound_nearby(t, s)
        THEN selected ELSE selected \cup {s}
      Selected(sorted) ==
        LET picked[n \in 0 .. Len(sorted)] ==
              IF n = 0 THEN {} ELSE Pick(picked[n - 1], effects[sorted[n]])
        IN  picked[Len(sorted)]
  IN  {Selected(sorted) : sorted \in Orders(effects, at)}

\* The tiles the pixel of an entity may be in.
TilesOf(e) ==
  IF e.pixel # Between THEN {e.pixel}
  ELSE {<<e.tile[1] + dx, e.tile[2] + dy>> : dx, dy \in -1 .. 1}

\* Nothing is played for a player who is not there.
process_sound_effects(view, effects) ==
  LET key == player_entity_key(view.local_player_id)
  IN  IF key \notin DOMAIN view.entities THEN {{}}
      ELSE UNION {select_audible_sound_effects(effects, at) : at \in TilesOf(view.entities[key])}

\* The views that a snapshot may lead to.
update_from_snapshot(view, snapshot) ==
  LET updated == update_entities(view, snapshot)
  IN  {[updated EXCEPT !.heard = heard] :
         heard \in process_sound_effects(updated, snapshot.sound_effects)}

-----------------------------------------------------------------------------
\* HudRenderer: slots are functions from indexes to items.

EQUIP_KEY_OFFSET == 100

update_inventory(view, slots) == [view EXCEPT !.inventory_slots = slots]

\* Mutant: the items worn before are still there.
EquipmentAdded(view, slots) ==
  [view EXCEPT !.equipped_inventory_slots =
     [key \in {s + EQUIP_KEY_OFFSET : s \in DOMAIN slots} |-> slots[key - EQUIP_KEY_OFFSET]] @@ @]

update_equipment(view, slots) ==
  [view EXCEPT !.equipped_inventory_slots =
     [key \in {s + EQUIP_KEY_OFFSET : s \in DOMAIN slots} |-> slots[key - EQUIP_KEY_OFFSET]]]

\* The slots a click finds.  The keys of the equipment are never those of slots, so
\* the slots of the items that are worn are found too.
inventory_slot_at(view) == DOMAIN view.inventory_slots \ DOMAIN view.equipped_inventory_slots

equipment_slot_at(view) == {key - EQUIP_KEY_OFFSET : key \in DOMAIN view.equipped_inventory_slots}

\* The console.

max_scroll(lines) == IF Len(lines) > VisibleLines THEN Len(lines) - VisibleLines ELSE 0

\* The lines that are kept when one more comes.
Logged(log, line) ==
  LET longer == Append(log, line)
  IN  IF Len(longer) > MAX_CHAT_LOG_SIZE THEN Tail(longer) ELSE longer

\* add_chat_message for each line: the last one scrolls down to itself.
add_chat_messages(view, lines) ==
  LET log[n \in 0 .. Len(lines)] ==
        IF n = 0 THEN view.console ELSE Logged(log[n - 1], lines[n])
      kept == log[Len(lines)]
  IN  [view EXCEPT !.console = kept, !.console_scroll_offset = max_scroll(kept)]

add_chat_message(view, line) == add_chat_messages(view, <<line>>)

scroll_console(view, delta) ==
  LET offset == view.console_scroll_offset + delta
      most == max_scroll(view.console)
  IN  [view EXCEPT !.console_scroll_offset =
         IF offset > most THEN most ELSE IF offset < 0 THEN 0 ELSE offset]
=============================================================================
