\* One player, and a forest that can fall below its respawn threshold while the
\* last creature loaded is alive: that takes a maximum of four.  One dead
\* creature may be left behind, before the restart or after it.  The debug
\* commands are in WorldPlayers.cfg.
SPECIFICATION Spec
CONSTANTS
  Width = 4
  Height = 2
  Walls <- MCWalls
  SafeTiles <- MCSafeTiles
  PriestTile <- MCPriestTile
  Vision = 0
  AggroRange = 8
  MaxCreatures = 4
  Treasures = 0
  Players = {1}
  MaxNpcId = 5
  Cheaters = {}
  MaxFloor = 1
  MaxCorpses = 1
  MaxRestarts = 1
INVARIANTS
  TilesAreTrue
  CreaturesKeepTheirZone
  PopulationIsCounted
CHECK_DEADLOCK FALSE
