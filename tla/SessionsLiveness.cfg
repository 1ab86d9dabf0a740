\* Two users on two connections; what they own does not matter here.
SPECIFICATION Spec
CONSTANTS
  Users = {ana, beto}
  Conns = {c1, c2}
  Items = {}
  Nobody = nobody
  NoRecord = norecord
  MaxQueue = 2
  MaxWorlds = 1
PROPERTIES
  LeaversAreSaved
  LoopEndsTheSaver
CHECK_DEADLOCK FALSE
