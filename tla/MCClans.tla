------------------------------- MODULE MCClans -------------------------------
(* Three users, two of whom can found, and two clan names of at most two      *)
(* members: two clans competing for one applicant, and a full clan.           *)
EXTENDS Clans, TLC

CONSTANTS ana, beto, caro, c1, c2

MCUsers == {ana, beto, caro}
MCVeterans == {ana, beto}
MCClanNames == {c1, c2}

Symmetry == Permutations(MCVeterans) \union Permutations(MCClanNames)
=============================================================================
