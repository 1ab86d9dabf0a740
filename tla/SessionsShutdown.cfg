\* The save at a clean shutdown.
SPECIFICATION SafeSpec
CONSTANTS
  Users = {ana}
  Conns = {c1}
  Items = {sword}
  Nobody = nobody
  NoRecord = norecord
  MaxQueue = 1
  MaxWorlds = 1
INVARIANT CleanShutdownSaves
CHECK_DEADLOCK FALSE
