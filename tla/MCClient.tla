------------------------------ MODULE MCClient ------------------------------
(* A citizen, the player and a creature on a row of tiles: from one snapshot *)
(* to the next they stay, step, jump, appear and go.                          *)
EXTENDS Client

MCCitizens == (7 :> <<0, 1>>)

Snapshot(players, npcs, items, sounds) ==
  [players |-> players, npcs |-> npcs, items_on_floor |-> items, sound_effects |-> sounds]

Sound(id, tile) == [id |-> id, tile |-> tile]

MCSnapshots ==
  <<Snapshot((1 :> <<0, 0>>), (7 :> <<2, 0>>), (<<2, 0>> :> 5),
             <<Sound("step", <<0, 0>>), Sound("blow", <<9, 0>>), Sound("blow", <<2, 0>>)>>),
    Snapshot((1 :> <<1, 0>>), (7 :> <<5, 0>>) @@ (8 :> <<2, 0>>), <<>>,
             <<Sound("step", <<1, 0>>), Sound("step", <<3, 0>>), Sound("step", <<9, 0>>)>>)>>

MCSoundPriorities == ("step" :> 0) @@ ("blow" :> 3)

MCLines ==
  {<<"/listar">>, <<"/depositar", "oro", "5">>, <<"/tirar">>,
   <<"/clan-kick", "beto">>, <<"/help">>}

MCItemNames ==
  (<<"oro">> :> "GOLD") @@ (<<"casco">> :> "IRON_HELMET")
    @@ (<<"casco", "de", "hierro">> :> "IRON_HELMET")

MCSlots == (0 :> <<>>) @@ (1 :> (0 :> "SWORD"))
=============================================================================
