\* Three players, records of up to two items, one crash.
SPECIFICATION Spec
CONSTANTS
  Users = {ana, beto, caro}
  Nobody = nobody
  MaxItems = 2
  MaxCrashes = 1
INVARIANTS
  RestartFindsEveryPlayer
  DamageNeedsOverlap
  SilenceHasACause
