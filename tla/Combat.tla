------------------------------- MODULE Combat -------------------------------
(***************************************************************************)
(* Blows, wounds, mana and experience: Player, CombatEntity, Creature,     *)
(* Priest and GameFormulas, with the gameloop's handlers that use them and *)
(* the part of its tick that makes players recover.                        *)
(*                                                                         *)
(* The server keeps level, hp, mana and experience of everybody: in the    *)
(* Player of who is in the game, in the saved record of who is not.        *)
(* Where everybody stands is in World: here a blow is one in reach and     *)
(* outside the safe zones, the others return with nothing changed.  What   *)
(* is carried is in Belongings: here any weapon may be in the hand.  The   *)
(* strength of a character times what its weapon rolls is one of Damages,  *)
(* and what shields and clan mates take away one of Defenses.  The factors *)
(* of race and class are one number for each player and formula, and one   *)
(* unit of time is one tick.                                               *)
(***************************************************************************)
EXTENDS Integers, FiniteSets

CONSTANTS
  UINT8, UINT16,     \* how many values level and hp have
  Players,
  Warriors,          \* players whose class does not meditate
  Cheaters,          \* bound: players who use the debug commands
  Clans,             \* sets of players of one clan
  HpPerLevel,        \* constitution * hp factor of the race * of the class
  ManaPerLevel,      \* intelligence * mana factor of the race * of the class
  HpFactor,          \* hp factor of the race, times the seconds between updates
  Meditation,        \* meditation factor * intelligence, times those seconds
  Damages, Bonuses, Defenses,
  StaffCost, FluteCost,
  KillPart,          \* 10: a kill is worth up to one part in so many of the hp
  Limit,             \* 1000 * level^1.8, for each level
  NewbieLevel,       \* the last level of a newbie
  LevelGap,          \* how many levels apart players may fight
  ExpGap,            \* levels below one's own at which blows teach nothing
  Cooldown,          \* player_attack_cooldown, in ticks
  NpcCooldown,       \* npc_attack_cooldown, in ticks
  NpcHp, NpcLevel,
  MaxExp             \* bound: experience, well below 2^32

Levels == 0 .. UINT8 - 1
Points == 0 .. UINT16 - 1

ASSUME CombatAssumption ==
  /\ UINT8 \in Nat \ {0, 1} /\ UINT16 \in Nat \ {0}
  /\ Warriors \subseteq Players /\ Cheaters \subseteq Players
  /\ HpPerLevel \in [Players -> Nat] /\ ManaPerLevel \in [Players -> Nat]
  /\ HpFactor \in [Players -> Nat] /\ Meditation \in [Players -> Nat]
  /\ Damages \subseteq Nat /\ Bonuses \subseteq Nat /\ Defenses \subseteq Nat
  /\ StaffCost \in Nat /\ FluteCost \in Nat
  /\ Limit \in [Levels -> Nat] /\ \A l, m \in Levels : l <= m => Limit[l] <= Limit[m]
  /\ KillPart \in Nat \ {0}
  /\ NewbieLevel \in Nat /\ LevelGap \in Nat /\ ExpGap \in Nat
  /\ Cooldown \in Nat /\ NpcCooldown \in Nat
  /\ NpcHp \in Points \ {0} /\ NpcLevel \in Levels /\ MaxExp \in Nat

VARIABLES
  online,          \* Gameloop::players
  level, hp, mana, exp,
  max_hp,          \* CombatEntity::max_hp, set when the player comes in
  attack_cooldown, \* attack_cooldown_current
  meditating,      \* players with is_meditating
  resurrecting,    \* players with is_resurrecting, and in pending_resurrects
  infinite_hp,     \* players with infinite_hp
  infinite_mana,   \* players with infinite_mana
  npc_hp,          \* hp of the one creature, 0 when there is none
  npc_cooldown,
  stage,           \* what the tick does next
  since_blow,      \* history: ticks since the last blow of this session
  unpaid,          \* history: players whose last blow, less than a cooldown ago, a
                   \* closed queue broke off
  fell             \* history: what called onDeath since hp was last restored

body == <<level, hp, mana, exp, max_hp>>
flags == <<meditating, resurrecting, infinite_hp, infinite_mana>>
npcVars == <<npc_hp, npc_cooldown>>
vars == <<online, body, attack_cooldown, flags, npcVars, stage, since_blow, unpaid, fell>>

-----------------------------------------------------------------------------
\* GameFormulas.  The results are 16 bits wide.

Lesser(a, b) == IF a < b THEN a ELSE b

hpMax(p, l) == (HpPerLevel[p] * l) % UINT16

manaMax(p, l) == (ManaPerLevel[p] * l) % UINT16

\* So it is with the races and classes of config: a ceiling may wrap, but never
\* to zero, and never so near the width that a recovery wraps.  Mana does wrap:
\* that of an elf mage who meditates at level 72.
ASSUME HpAssumption ==
  \A p \in Players, l \in Levels :
    /\ l > 0 => hpMax(p, l) > 0
    /\ hpMax(p, l) + HpFactor[p] <= UINT16

limitMoveUpToNextLevel(l) == Limit[l]

\* calculationDamage: one in ten is critical and counts twice.
calculationDamage(base, critical) == (base * (IF critical THEN 2 ELSE 1)) % UINT16

\* calculationDefense, and what it leaves of a blow.
Softened(blow, defense) == IF blow > defense THEN blow - defense ELSE 0

Lead(theirs, mine) == IF theirs + ExpGap > mine THEN theirs + ExpGap - mine ELSE 0

calculationPointsExpAttack(damage, theirs, mine) == damage * Lead(theirs, mine)

\* calculationPointsExpKill: any part, up to that one.
calculationPointsExpKill(most, theirs, mine) == 0 .. (most * Lead(theirs, mine)) \div KillPart

-----------------------------------------------------------------------------
\* What a Player does with its numbers.

isAlive(p) == hp[p] > 0

isNewbie(p) == level[p] <= NewbieLevel

isValidOpponent(p, q) ==
  /\ ~isNewbie(p) /\ ~isNewbie(q)
  /\ level[p] - level[q] \in -LevelGap .. LevelGap

\* Mutant: recovery goes past the ceiling.
updateHpUncapped(p, now) ==
  IF now = 0 \/ now >= hpMax(p, level[p]) THEN now ELSE now + HpFactor[p]

updateHp(p, now) ==
  IF now = 0 \/ now >= hpMax(p, level[p]) THEN now
  ELSE Lesser((now + HpFactor[p]) % UINT16, hpMax(p, level[p]))

\* updateMana grows by the factor of hp, meditating by the one of meditation.
updateMana(p, now, gain) ==
  IF now >= manaMax(p, level[p]) THEN now
  ELSE Lesser((now + gain) % UINT16, manaMax(p, level[p]))

consumeMana(p, amount) ==
  mana' = [mana EXCEPT ![p] = IF p \in infinite_mana THEN @
                              ELSE IF @ >= amount THEN @ - amount ELSE 0]

restoreAllHp(p) ==
  /\ hp' = [hp EXCEPT ![p] = hpMax(p, level[p])]
  /\ fell' = [fell EXCEPT ![p] = "no"]

restoreAllMana(p) == mana' = [mana EXCEPT ![p] = manaMax(p, level[p])]

\* Priest::heal.
heal(p) == restoreAllHp(p) /\ restoreAllMana(p)

\* Mutant: a blow as large as the hp that is left leaves a body nobody buries.
receiveDamageExact(q, damage, cause) ==
  IF q \in infinite_hp \/ ~isAlive(q) THEN UNCHANGED <<hp, fell>>
  ELSE /\ hp' = [hp EXCEPT ![q] = IF damage > @ THEN 0 ELSE @ - damage]
       /\ fell' = [fell EXCEPT ![q] = IF damage > hp[q] THEN cause ELSE @]

\* receiveDamage, and onDeath when no hp is left.
receiveDamage(q, damage, cause) ==
  IF q \in infinite_hp \/ ~isAlive(q) THEN UNCHANGED <<hp, fell>>
  ELSE /\ hp' = [hp EXCEPT ![q] = IF damage >= @ THEN 0 ELSE @ - damage]
       /\ fell' = [fell EXCEPT ![q] = IF damage >= hp[q] THEN cause ELSE @]

\* Mutant: the limit of the level below is enough.
PromotedEarly(l, total) ==
  IF l = 0 \/ total >= limitMoveUpToNextLevel(l - 1) THEN (l + 1) % UINT8 ELSE l

\* Experience is added, then one level at most.
Promoted(l, total) == IF total >= limitMoveUpToNextLevel(l) THEN (l + 1) % UINT8 ELSE l

\* earnExperiencePoints for the blow, earnKillExp if it killed.
Earned(p, damage, theirs, most, kills) ==
  LET blow == exp[p] + calculationPointsExpAttack(damage, theirs, level[p])
      after == Promoted(level[p], blow)
  IN  IF kills
      THEN {[exp |-> blow + k, level |-> Promoted(after, blow + k)] :
              k \in calculationPointsExpKill(most, theirs, after)}
      ELSE {[exp |-> blow, level |-> after]}

-----------------------------------------------------------------------------
\* Coming and going.

Init ==
  /\ online = {}
  /\ level = [p \in Players |-> 1]
  /\ hp = [p \in Players |-> hpMax(p, 1)]
  /\ mana = [p \in Players |-> manaMax(p, 1)]
  /\ exp = [p \in Players |-> 0]
  /\ max_hp = [p \in Players |-> 0]
  /\ attack_cooldown = [p \in Players |-> 0]
  /\ meditating = {} /\ resurrecting = {} /\ infinite_hp = {} /\ infinite_mana = {}
  /\ npc_hp = NpcHp /\ npc_cooldown = 0
  /\ stage = "commands"
  /\ since_blow = [p \in Players |-> Cooldown] /\ unpaid = {}
  /\ fell = [p \in Players |-> "no"]

\* Player::Player from the saved data: who has no hp or no mana gets it all.
Login(p) ==
  LET l == IF level[p] = 0 THEN 1 ELSE level[p]
      Loaded(saved, ceiling) == IF saved = 0 THEN ceiling ELSE Lesser(saved, ceiling)
  IN  /\ stage = "commands" /\ p \notin online
      /\ online' = online \union {p}
      /\ level' = [level EXCEPT ![p] = l]
      /\ max_hp' = [max_hp EXCEPT ![p] = hpMax(p, l)]
      /\ hp' = [hp EXCEPT ![p] = Loaded(@, hpMax(p, l))]
      /\ mana' = [mana EXCEPT ![p] = Loaded(@, manaMax(p, l))]
      /\ UNCHANGED <<exp, attack_cooldown, flags, npcVars, stage, since_blow, unpaid, fell>>

\* Mutant: who leaves while waiting for a priest is still waited for.
ForgetButWait(p) ==
  /\ meditating' = meditating \ {p} /\ UNCHANGED resurrecting
  /\ infinite_hp' = infinite_hp \ {p} /\ infinite_mana' = infinite_mana \ {p}

Forget(p) ==
  /\ meditating' = meditating \ {p} /\ resurrecting' = resurrecting \ {p}
  /\ infinite_hp' = infinite_hp \ {p} /\ infinite_mana' = infinite_mana \ {p}

\* processPlayerDisconnet: the numbers are saved, the rest is gone.  One that the
\* notice to a clan mate cuts off leaves everything as it was.
Logout(p) ==
  /\ stage = "commands" /\ p \in online
  /\ online' = online \ {p}
  /\ max_hp' = [max_hp EXCEPT ![p] = 0]
  /\ attack_cooldown' = [attack_cooldown EXCEPT ![p] = 0]
  /\ since_blow' = [since_blow EXCEPT ![p] = Cooldown] /\ unpaid' = unpaid \ {p}
  /\ fell' = [fell EXCEPT ![p] = "no"]
  /\ Forget(p)
  /\ UNCHANGED <<level, hp, mana, exp, npcVars, stage>>

-----------------------------------------------------------------------------
\* Commands: all but the debug ones and Resurrect need a living player.

Commands(p) == stage = "commands" /\ p \in online

Able(p) == Commands(p) /\ isAlive(p)

\* processMovePlayer and the other handlers that only break a meditation here.
breakMeditation(p) ==
  /\ Able(p)
  /\ meditating' = meditating \ {p}
  /\ UNCHANGED <<online, body, attack_cooldown, resurrecting, infinite_hp, infinite_mana,
                 npcVars, stage, since_blow, unpaid, fell>>

toggleMeditation(p) ==
  meditating' = IF p \in meditating \union Warriors THEN meditating \ {p}
                ELSE meditating \union {p}

\* processPlayerMeditate.
Meditate(p) ==
  /\ Able(p)
  /\ toggleMeditation(p)
  /\ UNCHANGED <<online, body, attack_cooldown, resurrecting, infinite_hp, infinite_mana,
                 npcVars, stage, since_blow, unpaid, fell>>

\* processPlayerEquipItem of a potion, Item::use.  The meditation is broken after
\* the answers, if none of them throws.
DrinkPotion(p) ==
  /\ Able(p)
  /\ \/ restoreAllHp(p) /\ UNCHANGED mana
     \/ restoreAllMana(p) /\ UNCHANGED <<hp, fell>>
  /\ meditating' \in {meditating \ {p}, meditating}
  /\ UNCHANGED <<online, level, exp, max_hp, attack_cooldown, resurrecting, infinite_hp,
                 infinite_mana, npcVars, stage, since_blow, unpaid>>

\* processPlayerInteract with a priest near by, Priest::heal.
Heal(p) ==
  /\ Able(p)
  /\ heal(p)
  /\ UNCHANGED <<online, level, exp, max_hp, attack_cooldown, flags, npcVars, stage, since_blow,
                 unpaid>>

startResurrection(p) ==
  /\ resurrecting' = resurrecting \union {p}
  /\ meditating' = meditating \ {p}

\* processPlayerResurrect: at once beside a priest, Priest::resurrect, or after
\* a delay.
Resurrect(p) ==
  /\ Commands(p) /\ ~isAlive(p) /\ p \notin resurrecting
  /\ \/ heal(p) /\ UNCHANGED <<resurrecting, meditating>>
     \/ startResurrection(p) /\ UNCHANGED <<hp, mana, fell>>
  /\ UNCHANGED <<online, level, exp, max_hp, attack_cooldown, infinite_hp, infinite_mana,
                 npcVars, stage, since_blow, unpaid>>

\* processPlayerDebugKill.
DebugKill(p) ==
  /\ Able(p) /\ p \in Cheaters
  /\ receiveDamage(p, UINT16 - 1, "debug")
  /\ UNCHANGED <<online, level, mana, exp, max_hp, attack_cooldown, flags, npcVars, stage,
                 since_blow, unpaid>>

\* processPlayerToggleInfiniteHp: a ghost too.
ToggleInfiniteHp(p) ==
  /\ Commands(p) /\ p \in Cheaters
  /\ IF p \in infinite_hp
     THEN infinite_hp' = infinite_hp \ {p} /\ UNCHANGED <<hp, fell>>
     ELSE infinite_hp' = infinite_hp \union {p} /\ restoreAllHp(p)
  /\ UNCHANGED <<online, level, mana, exp, max_hp, attack_cooldown, meditating, resurrecting,
                 infinite_mana, npcVars, stage, since_blow, unpaid>>

\* processPlayerToggleInfiniteMana.
ToggleInfiniteMana(p) ==
  /\ Commands(p) /\ p \in Cheaters
  /\ IF p \in infinite_mana
     THEN infinite_mana' = infinite_mana \ {p} /\ UNCHANGED mana
     ELSE infinite_mana' = infinite_mana \union {p} /\ restoreAllMana(p)
  /\ UNCHANGED <<online, level, hp, exp, max_hp, attack_cooldown, meditating, resurrecting,
                 infinite_hp, npcVars, stage, since_blow, unpaid, fell>>

\* ChatCommand::execute: the commands that come as text.
ChatCommand(p) ==
  \/ Meditate(p)
  \/ Resurrect(p)
  \/ DebugKill(p)
  \/ ToggleInfiniteHp(p)
  \/ ToggleInfiniteMana(p)

-----------------------------------------------------------------------------
\* executeAttackPlayer.

CanStrike(p) == Able(p) /\ attack_cooldown[p] = 0

hasEnoughMana(p, amount) == mana[p] >= amount

resetAttackCooldown(p) ==
  /\ attack_cooldown' = [attack_cooldown EXCEPT ![p] = Cooldown]
  /\ since_blow' = [since_blow EXCEPT ![p] = 0]
  /\ unpaid' = unpaid \ {p}

\* A message on the way, to a clan mate or to one of the two, throws: the blow was
\* struck, and nothing that follows the message is done.
brokenOff(p) ==
  /\ since_blow' = [since_blow EXCEPT ![p] = 0]
  /\ unpaid' = unpaid \union {p}
  /\ UNCHANGED attack_cooldown

\* The elven flute heals who plays it.
PlayFlute(p) ==
  /\ CanStrike(p) /\ hasEnoughMana(p, FluteCost)
  /\ restoreAllHp(p) /\ consumeMana(p, FluteCost)
  /\ meditating' = meditating \ {p}
  /\ resetAttackCooldown(p)
  /\ UNCHANGED <<online, level, exp, max_hp, resurrecting, infinite_hp, infinite_mana,
                 npcVars, stage>>

\* Mutant: who misses may strike again at once.
DodgedForFree(p) ==
  /\ since_blow' = [since_blow EXCEPT ![p] = 0]
  /\ UNCHANGED <<online, body, attack_cooldown, flags, npcVars, stage, unpaid, fell>>

\* A blow that is not critical may be dodged: no mana is paid for it.
Dodged(p) ==
  /\ resetAttackCooldown(p) \/ brokenOff(p)
  /\ UNCHANGED <<online, body, flags, npcVars, stage, fell>>

\* What the attacker gets for a blow that landed.
Learned(p, damage, theirs, most, kills) ==
  \E got \in Earned(p, damage, theirs, most, kills) :
    /\ got.exp <= MaxExp
    /\ exp' = [exp EXCEPT ![p] = got.exp]
    /\ level' = [level EXCEPT ![p] = got.level]

\* What the attacker pays for it, after the messages.
Paid(p, cost) == consumeMana(p, cost) /\ resetAttackCooldown(p)

\* Mutant: only who strikes stops meditating.
InterruptedAttacker(p, q) == meditating' = meditating \ {p}

\* reportPlayerInterruptedMeditation, of both.
Interrupted(p, q) == meditating' = meditating \ {p, q}

\* The cost of the weapon in the hand: 0 unless it is a MagicWeapon.
WeaponCosts == {0, StaffCost}

AttackPlayer(p, q) ==
  /\ CanStrike(p)
  /\ p # q /\ q \in online /\ isAlive(q)
  /\ isValidOpponent(p, q)
  /\ ~\E clan \in Clans : {p, q} \subseteq clan
  /\ \E cost \in WeaponCosts, base \in Damages, critical \in BOOLEAN :
       /\ hasEnoughMana(p, cost)
       /\ \/ ~critical /\ Dodged(p)
          \/ \E bonus \in Bonuses, defense \in Defenses :
               LET blow == (calculationDamage(base, critical) + bonus) % UINT16
                   damage == Softened(blow, defense)
                   kills == q \notin infinite_hp /\ damage >= hp[q]
               IN  /\ receiveDamage(q, damage, "blow")
                   /\ Learned(p, damage, level[q], max_hp[q], kills)
                   /\ \/ Paid(p, cost) /\ Interrupted(p, q)
                      \/ brokenOff(p) /\ meditating' = meditating \ {q} /\ UNCHANGED mana
                   /\ UNCHANGED <<online, max_hp, resurrecting, infinite_hp, infinite_mana,
                                  npcVars, stage>>

AttackCreature(p) ==
  /\ CanStrike(p) /\ npc_hp > 0
  /\ \E cost \in WeaponCosts, base \in Damages, critical \in BOOLEAN :
       /\ hasEnoughMana(p, cost)
       /\ \/ ~critical /\ Dodged(p)
          \/ \E bonus \in Bonuses :
               LET damage == (calculationDamage(base, critical) + bonus) % UINT16
               IN  /\ npc_hp' = IF damage >= npc_hp THEN 0 ELSE npc_hp - damage
                   /\ npc_cooldown' = IF damage >= npc_hp THEN 0 ELSE npc_cooldown
                   /\ Learned(p, damage, NpcLevel, NpcHp, damage >= npc_hp)
                   /\ \/ Paid(p, cost) /\ meditating' = meditating \ {p}
                      \/ brokenOff(p) /\ UNCHANGED <<mana, meditating>>
                   /\ UNCHANGED <<online, hp, max_hp, resurrecting, infinite_hp,
                                  infinite_mana, stage, fell>>

-----------------------------------------------------------------------------
\* The rest of a tick: Gameloop::run.

Cooled(left) == IF left > 0 THEN left - 1 ELSE 0

\* executeCreatureAttack: the damage of a creature is its level, at least 1,
\* once or twice.
CreatureStrikes(q) ==
  \/ /\ UNCHANGED <<hp, fell, meditating>>
     /\ npc_cooldown' = NpcCooldown
  \/ \E base \in 1 .. 2, critical \in BOOLEAN, defense \in Defenses :
       LET strength == IF NpcLevel > 1 THEN NpcLevel ELSE 1
           blow == calculationDamage(strength * base, critical)
       IN  /\ receiveDamage(q, Softened(blow, defense), "blow")
           /\ meditating' = meditating \ {q}
           /\ npc_cooldown' = NpcCooldown

\* updateCreatures, when executeRequest finds no more commands: it strikes a
\* living player beside it if it may.
updateCreatures ==
  /\ stage = "commands" /\ stage' = "players"
  /\ IF npc_hp = 0 THEN UNCHANGED <<hp, fell, meditating, npc_cooldown>>
     ELSE \/ npc_cooldown' = Cooled(npc_cooldown) /\ UNCHANGED <<hp, fell, meditating>>
          \/ /\ Cooled(npc_cooldown) = 0
             /\ \E q \in online : isAlive(q) /\ CreatureStrikes(q)
  /\ UNCHANGED <<online, level, mana, exp, max_hp, attack_cooldown, resurrecting, infinite_hp,
                 infinite_mana, npc_hp, since_blow, unpaid>>

\* updatePlayersAttributes of one player.
updatedHp(p, now) == IF p \in infinite_hp THEN hpMax(p, level[p]) ELSE updateHp(p, now)

updatedMana(p, now) ==
  IF p \in infinite_mana THEN manaMax(p, level[p])
  ELSE updateMana(p, now, IF p \in meditating THEN Meditation[p] ELSE HpFactor[p])

\* updatePendingResurrects for those whose delay is over, updateAttackCooldown,
\* updatePlayersAttributes when its timer says so, and the spawn of a creature.
updatePlayers ==
  /\ stage = "players" /\ stage' = "commands"
  /\ \E arrived \in SUBSET resurrecting, recover \in BOOLEAN :
       LET healedHp(p) == IF p \in arrived THEN hpMax(p, level[p]) ELSE hp[p]
           healedMana(p) == IF p \in arrived THEN manaMax(p, level[p]) ELSE mana[p]
       IN  /\ hp' = [p \in Players |-> IF recover /\ p \in online THEN updatedHp(p, healedHp(p))
                                       ELSE healedHp(p)]
           /\ mana' = [p \in Players |-> IF recover /\ p \in online
                                         THEN updatedMana(p, healedMana(p)) ELSE healedMana(p)]
           /\ fell' = [p \in Players |-> IF p \in arrived \/ (recover /\ p \in infinite_hp)
                                         THEN "no" ELSE fell[p]]
           /\ resurrecting' = resurrecting \ arrived
  /\ attack_cooldown' = [p \in Players |-> IF p \in online THEN Cooled(attack_cooldown[p])
                                           ELSE attack_cooldown[p]]
  /\ since_blow' = [p \in Players |-> IF p \in online THEN Lesser(since_blow[p] + 1, Cooldown)
                                      ELSE since_blow[p]]
  /\ unpaid' = {p \in unpaid : since_blow[p] + 1 < Cooldown}
  /\ \/ UNCHANGED npcVars
     \/ npc_hp = 0 /\ npc_hp' = NpcHp /\ UNCHANGED npc_cooldown
  /\ UNCHANGED <<online, level, exp, max_hp, meditating, infinite_hp, infinite_mana>>

Next ==
  \/ \E p \in Players :
       \/ Login(p) \/ Logout(p)
       \/ breakMeditation(p) \/ DrinkPotion(p) \/ Heal(p) \/ ChatCommand(p)
       \/ PlayFlute(p) \/ AttackCreature(p)
       \/ \E q \in Players : AttackPlayer(p, q)
  \/ updateCreatures
  \/ updatePlayers

Spec == Init /\ [][Next]_vars

-----------------------------------------------------------------------------
\* Every number has its width, and only who is in the game has flags.
TypeOK ==
  /\ online \subseteq Players
  /\ level \in [Players -> Levels]
  /\ hp \in [Players -> Points] /\ mana \in [Players -> Points]
  /\ max_hp \in [Players -> Points]
  /\ exp \in [Players -> 0 .. MaxExp]
  /\ attack_cooldown \in [Players -> 0 .. Cooldown]
  /\ meditating \subseteq online /\ resurrecting \subseteq online
  /\ infinite_hp \subseteq online /\ infinite_mana \subseteq online
  /\ npc_hp \in 0 .. NpcHp /\ npc_cooldown \in 0 .. NpcCooldown
  /\ stage \in {"commands", "players"}
  /\ since_blow \in [Players -> 0 .. Cooldown] /\ unpaid \subseteq online
  /\ fell \in [Players -> {"no", "blow", "debug"}]

\* The levels the experience of a player has reached.
Reached(p) == {l \in Levels : l <= 1 \/ exp[p] >= limitMoveUpToNextLevel(l - 1)}

\* Nobody has a level his experience does not reach, though a kill may give two
\* levels, a login gives one to who has none, and a level may wrap to none.  And
\* who left the game neither meditates nor waits for anything in it.
LevelIsEarned == TypeOK /\ \A p \in Players : level[p] \in Reached(p)

\* No potion, priest, meditation, recovery or login fills a player beyond the
\* ceiling of a level he has reached.  Not of the level he has: the product
\* wraps at 16 bits and the level at 8, and then the ceiling falls while hp and
\* mana stay.
NobodyIsOverfull ==
  \A p \in Players :
    /\ \E l \in Reached(p) : hp[p] <= hpMax(p, l)
    /\ \E l \in Reached(p) : mana[p] <= manaMax(p, l)

\* Between two blows of one session there is the whole cooldown, also when the
\* first one was dodged or was a flute: who has waited for less still waits.  Only
\* a blow that a closed queue broke off sets none.
BlowsAreSpaced ==
  \A p \in online \ unpaid : attack_cooldown[p] + since_blow[p] >= Cooldown

\* Whoever has no hp dropped what he carried: no hp is lost past onDeath.  Only
\* a level that wrapped to zero makes a ghost without a death.
NobodyDiesUnnoticed ==
  \A p \in online : isAlive(p) \/ fell[p] # "no" \/ level[p] = 0

\* A death ends a meditation, whoever dealt the blow; the debug command is the
\* one that forgets it.
GhostsDoNotMeditate ==
  \A p \in meditating : isAlive(p) \/ fell[p] = "debug" \/ level[p] = 0
=============================================================================
