\* Clans is empty: the two may fight.
SPECIFICATION Spec
CONSTANTS
  UINT8 = 3
  UINT16 = 5
  Players <- MCPlayers
  Warriors = {2}
  Cheaters = {1}
  Clans = {}
  HpPerLevel <- MCHpPerLevel
  ManaPerLevel <- MCManaPerLevel
  HpFactor <- MCHpFactor
  Meditation <- MCMeditation
  Damages = {1}
  Bonuses = {0}
  Defenses = {0, 1}
  StaffCost = 1
  FluteCost = 2
  KillPart = 1
  Limit <- MCLimit
  NewbieLevel = 0
  LevelGap = 1
  ExpGap = 1
  Cooldown = 1
  NpcCooldown = 1
  NpcHp = 1
  NpcLevel = 1
  MaxExp = 2
INVARIANTS
  LevelIsEarned
  NobodyIsOverfull
  BlowsAreSpaced
  NobodyDiesUnnoticed
  GhostsDoNotMeditate
