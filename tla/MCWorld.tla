------------------------------ MODULE MCWorld ------------------------------
(* A city of two tiles inside a forest of five and a rock, so that the way *)
(* from one forest tile to another may lead through the city:              *)
(*                        rock   priest  city    forest                    *)
(*                        forest forest  forest  forest                    *)
EXTENDS World

MCSafeTiles == {<<1, 0>>, <<2, 0>>}

MCPriestTile == <<1, 0>>

MCWalls == {<<0, 0>>}
=============================================================================
