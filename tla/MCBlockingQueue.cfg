CONSTANTS
  Threads = {t1, t2, t3}
  Values = {v1, v2}
  NoValue = NoValue
  MaxSize = 2

SPECIFICATION QueueSpec

INVARIANTS
  TypeOK
  NobodySleepsInVain

PROPERTIES
  ImplementsContract

CHECK_DEADLOCK FALSE
