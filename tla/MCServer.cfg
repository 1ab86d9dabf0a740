\* Two connections in the life of the server.
SPECIFICATION Spec
CONSTANTS
  MaxConns = 2
  MaxCmds = 1
  MaxOut = 1
INVARIANTS
  TypeOK
  NoThreadOutlivesItsHandler
  GoodbyeIsOnItsWay
  EarlyEndHasACause
PROPERTIES
  TheGoneLeaveTheGame
  ShutdownEnds
CHECK_DEADLOCK FALSE
