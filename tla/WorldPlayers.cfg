\* Two players, two creatures, a treasure and one more thing, without respawns and
\* restarts, which the other run has.  One of the seven tiles is always free: a
\* resurrection finds it.
SPECIFICATION Spec
CONSTANTS
  Width = 4
  Height = 2
  Walls <- MCWalls
  SafeTiles <- MCSafeTiles
  PriestTile <- MCPriestTile
  Vision = 0
  AggroRange = 8
  MaxCreatures = 2
  Treasures = 1
  Players = {1, 2}
  MaxNpcId = 2
  Cheaters = {1}
  MaxFloor = 1
  MaxCorpses = 0
  MaxRestarts = 0
INVARIANTS
  NoTwoOnATile
  PendingPlayersAreHere
PROPERTY ResurrectionComes
CHECK_DEADLOCK FALSE
