\* Two users on two connections, one item, short queues.
SPECIFICATION SafeSpec
CONSTANTS
  Users = {ana, beto}
  Conns = {c1, c2}
  Items = {sword}
  Nobody = nobody
  NoRecord = norecord
  MaxQueue = 3
  MaxWorlds = 1
SYMMETRY Symmetry
CONSTRAINT ItemsWhileClean
INVARIANTS
  EveryItemInOnePlace
CHECK_DEADLOCK FALSE
