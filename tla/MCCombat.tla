------------------------------ MODULE MCCombat ------------------------------
(***************************************************************************)
(* A mage who cheats and a warrior.  Three levels and five values of hp:   *)
(* the level wraps after 2, and at level 2 the mage's ceiling wraps from   *)
(* 6 to 1, as a gnome warrior's wraps from 64900 to 464 at level 60.       *)
(***************************************************************************)
EXTENDS Combat, TLC

MCPlayers == {1, 2}
MCHpPerLevel == 1 :> 3 @@ 2 :> 1
MCManaPerLevel == 1 :> 1 @@ 2 :> 0
MCHpFactor == 1 :> 2 @@ 2 :> 1
MCMeditation == 1 :> 2 @@ 2 :> 0
MCLimit == 0 :> 0 @@ 1 :> 1 @@ 2 :> 2
=============================================================================
