\* A session with its map and its slots, cut anywhere, and three more things that the
\* server sends or the user does.
SPECIFICATION Spec
CONSTANTS
  Me = 1
  Citizens <- MCCitizens
  Snapshots <- MCSnapshots
  Slots <- MCSlots
  Texts = {"Has muerto."}
  Spoken = {"beto: hola"}
  Lists = {"BANK_CONTENT"}
  Lines <- MCLines
  item_names <- MCItemNames
  DebugWords = {"/debug_morir"}
  MAX_CHAT_LOG_SIZE = 3
  VisibleLines = 2
  MAX_SOUNDS_PER_SNAPSHOT = 2
  SOUND_PRIORITIES <- MCSoundPriorities
  MaxSteps = 3
INVARIANTS
  TheViewCatchesUp
  RestIsHome
  GarbageIsLast
  RequestsKeepTheirMeaning
  FailuresHaveACause
PROPERTY EveryEndIsReached
CHECK_DEADLOCK FALSE
