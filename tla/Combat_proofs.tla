---------------------------- MODULE Combat_proofs ----------------------------
(***************************************************************************)
(* Proofs about Combat, for any players, clans, widths, limits, blows and  *)
(* cooldowns.                                                              *)
(***************************************************************************)
EXTENDS Combat, TLAPS

LEMMA CutFits ==
  ASSUME NEW n \in Nat, NEW w \in Nat \ {0}
  PROVE  n % w \in 0 .. w - 1
OBVIOUS

LEMMA ProductIsNatural ==
  ASSUME NEW a \in Nat, NEW b \in Nat
  PROVE  a * b \in Nat
OBVIOUS

LEMMA WidthsAreNatural == /\ UINT8 \in Nat /\ UINT8 > 1 /\ UINT16 \in Nat /\ UINT16 > 0
                          /\ Levels \subseteq Nat /\ Points \subseteq Nat
BY CombatAssumption DEF CombatAssumption, Levels, Points

\* A ceiling fits its width.
LEMMA CeilingsFit ==
  ASSUME NEW p \in Players, NEW l \in Levels
  PROVE  hpMax(p, l) \in Points /\ manaMax(p, l) \in Points
<1>1. HpPerLevel[p] \in Nat /\ ManaPerLevel[p] \in Nat /\ UINT16 \in Nat \ {0} /\ l \in Nat
  BY WidthsAreNatural, CombatAssumption DEF CombatAssumption
<1>2. HpPerLevel[p] * l \in Nat /\ ManaPerLevel[p] * l \in Nat
  BY <1>1, ProductIsNatural
<1>3. /\ (HpPerLevel[p] * l) % UINT16 \in 0 .. UINT16 - 1
      /\ (ManaPerLevel[p] * l) % UINT16 \in 0 .. UINT16 - 1
  BY <1>1, <1>2, CutFits
<1>4. QED
  BY <1>3 DEF hpMax, manaMax, Points

\* A recovery leaves the ghosts alone and brings nobody else to zero.
LEMMA RecoveryFits ==
  ASSUME NEW p \in Players, level[p] \in Levels, NEW now \in Points, NEW gain \in Nat
  PROVE  /\ updateHp(p, now) \in Points /\ updateMana(p, now, gain) \in Points
         /\ now = 0 <=> updateHp(p, now) = 0
<1>1. hpMax(p, level[p]) \in Points /\ manaMax(p, level[p]) \in Points
  BY CeilingsFit
<1>2. /\ HpFactor[p] \in Nat /\ now \in Nat /\ UINT16 \in Nat \ {0}
      /\ hpMax(p, level[p]) + HpFactor[p] <= UINT16
  BY WidthsAreNatural, CombatAssumption, HpAssumption DEF CombatAssumption, HpAssumption
<1>3. now + HpFactor[p] \in Nat /\ now + gain \in Nat
  BY <1>2
<1>4. (now + HpFactor[p]) % UINT16 \in 0 .. UINT16 - 1 /\ (now + gain) % UINT16 \in 0 .. UINT16 - 1
  BY <1>2, <1>3, CutFits
<1>5. updateMana(p, now, gain) \in Points
  BY <1>1, <1>4 DEF updateMana, Lesser, Points
<1>6. updateHp(p, now) \in Points
  BY <1>1, <1>4 DEF updateHp, Lesser, Points
<1>7. ASSUME now # 0, now < hpMax(p, level[p])
      PROVE  (now + HpFactor[p]) % UINT16 = now + HpFactor[p]
  BY <1>1, <1>2, <1>7 DEF Points
<1>8. now = 0 <=> updateHp(p, now) = 0
  BY <1>1, <1>2, <1>7 DEF updateHp, Lesser, Points
<1>9. QED
  BY <1>5, <1>6, <1>8

-----------------------------------------------------------------------------
\* Levels.

Deserved(l, total) == l <= 1 \/ total >= Limit[l - 1]

\* A promotion gives a level that the experience has reached.
LEMMA PromotedIsDeserved ==
  ASSUME NEW l \in Levels, NEW before \in Nat, NEW total \in Nat, total >= before,
         Deserved(l, before)
  PROVE  Promoted(l, total) \in Levels /\ Deserved(Promoted(l, total), total)
<1>1. /\ UINT8 \in Nat /\ UINT8 > 1 /\ l \in Nat /\ l + 1 <= UINT8
      /\ \A m \in Levels : Limit[m] \in Nat
  BY WidthsAreNatural, CombatAssumption DEF CombatAssumption, Levels
<1>2. l > 1 => l - 1 \in Levels
  BY <1>1 DEF Levels
<1>3. CASE total >= Limit[l] /\ l + 1 < UINT8
  <2>1. (l + 1) % UINT8 = l + 1 /\ l + 1 \in Levels /\ (l + 1) - 1 = l
    BY <1>1, <1>3 DEF Levels
  <2>2. QED
    BY <1>3, <2>1 DEF Promoted, limitMoveUpToNextLevel, Deserved
<1>4. CASE total >= Limit[l] /\ l + 1 = UINT8
  <2>1. (l + 1) % UINT8 = 0 /\ 0 \in Levels
    BY <1>1, <1>4 DEF Levels
  <2>2. QED
    BY <1>4, <2>1 DEF Promoted, limitMoveUpToNextLevel, Deserved
<1>5. CASE ~(total >= Limit[l])
  BY <1>1, <1>2, <1>5 DEF Promoted, limitMoveUpToNextLevel, Deserved
<1>6. QED
  BY <1>1, <1>3, <1>4, <1>5

\* What a blow teaches keeps the level deserved, also with the part of a kill.
LEMMA EarnedIsDeserved ==
  ASSUME NEW p \in Players, NEW damage \in Nat, NEW theirs \in Nat, NEW most \in Nat,
         NEW kills \in BOOLEAN, exp[p] \in Nat, level[p] \in Levels,
         Deserved(level[p], exp[p]), NEW got \in Earned(p, damage, theirs, most, kills)
  PROVE  got.exp \in Nat /\ got.level \in Levels /\ Deserved(got.level, got.exp)
<1> DEFINE lead(m) == Lead(theirs, m)
           blow == exp[p] + calculationPointsExpAttack(damage, theirs, level[p])
           after == Promoted(level[p], blow)
<1>1. \A m \in Levels : lead(m) \in Nat
  BY WidthsAreNatural, CombatAssumption DEF CombatAssumption, Lead
<1>2. damage * lead(level[p]) \in Nat
  BY <1>1, ProductIsNatural
<1>3. blow \in Nat /\ blow >= exp[p]
  BY <1>2 DEF calculationPointsExpAttack
<1>4. after \in Levels /\ Deserved(after, blow)
  BY <1>3, PromotedIsDeserved
<1>5. CASE ~kills
  BY <1>3, <1>4, <1>5 DEF Earned
<1>6. CASE kills
  <2> HIDE DEF blow, after, lead
  <2>1. PICK k \in calculationPointsExpKill(most, theirs, after) :
          got = [exp |-> blow + k, level |-> Promoted(after, blow + k)]
    BY <1>6 DEF Earned, blow, after
  <2>2. most * lead(after) \in Nat /\ KillPart \in Nat \ {0}
    BY <1>1, <1>4, ProductIsNatural, CombatAssumption DEF CombatAssumption
  <2>3. k \in Nat
    BY <2>1, <2>2 DEF calculationPointsExpKill, lead
  <2>4. blow + k \in Nat /\ blow + k >= blow
    BY <1>3, <2>3
  <2>5. Promoted(after, blow + k) \in Levels /\ Deserved(Promoted(after, blow + k), blow + k)
    BY <1>3, <1>4, <2>4, PromotedIsDeserved
  <2>6. QED
    BY <2>1, <2>4, <2>5
<1>7. QED
  BY <1>5, <1>6

-----------------------------------------------------------------------------
\* What the parts of the actions do to the numbers, one function at a time.

LEMMA RestoredHp ==
  ASSUME TypeOK, NEW p \in Players, restoreAllHp(p)
  PROVE  /\ hp' \in [Players -> Points] /\ fell' \in [Players -> {"no", "blow", "debug"}]
         /\ hp'[p] = hpMax(p, level[p]) /\ fell'[p] = "no"
         /\ \A q \in Players \ {p} : hp'[q] = hp[q] /\ fell'[q] = fell[q]
<1>1. level[p] \in Levels
  BY DEF TypeOK
<1>2. hpMax(p, level[p]) \in Points
  BY <1>1, CeilingsFit
<1>3. QED
  BY <1>2 DEF TypeOK, restoreAllHp

LEMMA RestoredMana ==
  ASSUME TypeOK, NEW p \in Players, restoreAllMana(p)
  PROVE  mana' \in [Players -> Points]
<1>1. level[p] \in Levels
  BY DEF TypeOK
<1>2. manaMax(p, level[p]) \in Points
  BY <1>1, CeilingsFit
<1>3. QED
  BY <1>2 DEF TypeOK, restoreAllMana

LEMMA ConsumedMana ==
  ASSUME TypeOK, NEW p \in Players, NEW amount \in Nat, consumeMana(p, amount)
  PROVE  mana' \in [Players -> Points]
<1>1. mana \in [Players -> Points] /\ UINT16 \in Nat
  BY WidthsAreNatural DEF TypeOK
<1>2. \A m \in Points : (IF m >= amount THEN m - amount ELSE 0) \in Points
  BY <1>1 DEF Points
<1>3. QED
  BY <1>1, <1>2 DEF consumeMana

\* Who loses the last hp falls, and who has none is not hurt again.
LEMMA Damaged ==
  ASSUME TypeOK, NEW q \in Players, NEW damage \in Nat, NEW cause \in {"blow", "debug"},
         receiveDamage(q, damage, cause)
  PROVE  /\ hp' \in [Players -> Points] /\ fell' \in [Players -> {"no", "blow", "debug"}]
         /\ hp[q] = 0 => hp' = hp /\ fell' = fell
         /\ hp[q] # 0 => hp'[q] # 0 \/ fell'[q] = cause
         /\ \A p \in Players \ {q} : hp'[p] = hp[p] /\ fell'[p] = fell[p]
<1>1. /\ hp \in [Players -> Points] /\ fell \in [Players -> {"no", "blow", "debug"}]
      /\ UINT16 \in Nat /\ Points \subseteq Nat
      /\ hp[q] \in Nat
  BY WidthsAreNatural DEF TypeOK
<1>2. \A m \in Points : (IF damage >= m THEN 0 ELSE m - damage) \in Points
  BY <1>1 DEF Points
<1>3. CASE UNCHANGED <<hp, fell>>
  <2>1. hp' = hp /\ fell' = fell
    BY <1>3
  <2>2. QED
    BY <1>1, <2>1
<1>4. CASE /\ hp' = [hp EXCEPT ![q] = IF damage >= @ THEN 0 ELSE @ - damage]
           /\ fell' = [fell EXCEPT ![q] = IF damage >= hp[q] THEN cause ELSE @]
           /\ isAlive(q)
  <2>1. hp[q] \in Nat /\ hp[q] # 0
    BY <1>1, <1>4 DEF isAlive
  <2>2. hp'[q] # 0 \/ fell'[q] = cause
    BY <1>1, <1>4, <2>1
  <2>3. hp' \in [Players -> Points]
    BY <1>1, <1>2, <1>4
  <2>4. fell' \in [Players -> {"no", "blow", "debug"}]
    BY <1>1, <1>4
  <2>5. \A p \in Players \ {q} : hp'[p] = hp[p] /\ fell'[p] = fell[p]
    BY <1>1, <1>4
  <2>6. QED
    BY <2>1, <2>2, <2>3, <2>4, <2>5
<1>5. QED
  BY <1>3, <1>4 DEF receiveDamage

\* Also for who is out of the game: it is this that a login starts from.
EveryBlowSpaced ==
  \A p \in Players \ unpaid : attack_cooldown[p] + since_blow[p] >= Cooldown

\* A blow is followed by the whole cooldown, or broken off.
Struck(p) == resetAttackCooldown(p) \/ brokenOff(p)

LEMMA StruckIsSpaced ==
  ASSUME TypeOK, EveryBlowSpaced, NEW p \in online, Struck(p)
  PROVE  /\ attack_cooldown' \in [Players -> 0 .. Cooldown]
         /\ since_blow' \in [Players -> 0 .. Cooldown]
         /\ unpaid' \subseteq online
         /\ EveryBlowSpaced'
<1>1. /\ Cooldown \in Nat /\ 0 \in 0 .. Cooldown /\ Cooldown \in 0 .. Cooldown
      /\ p \in Players /\ unpaid \subseteq online
  BY CombatAssumption DEF CombatAssumption, TypeOK
<1>2. CASE resetAttackCooldown(p)
  <2>1. /\ attack_cooldown' \in [Players -> 0 .. Cooldown]
        /\ since_blow' \in [Players -> 0 .. Cooldown]
        /\ attack_cooldown'[p] = Cooldown /\ since_blow'[p] = 0
        /\ unpaid' = unpaid \ {p}
        /\ \A q \in Players \ {p} : /\ attack_cooldown'[q] = attack_cooldown[q]
                                    /\ since_blow'[q] = since_blow[q]
    BY <1>1, <1>2 DEF TypeOK, resetAttackCooldown
  <2>2. Cooldown + 0 >= Cooldown
    BY <1>1
  <2>3. EveryBlowSpaced'
    BY <2>1, <2>2 DEF EveryBlowSpaced
  <2>4. QED
    BY <1>1, <2>1, <2>3
<1>3. CASE brokenOff(p)
  <2>1. /\ attack_cooldown' = attack_cooldown
        /\ since_blow' \in [Players -> 0 .. Cooldown]
        /\ unpaid' = unpaid \union {p}
        /\ \A q \in Players \ {p} : since_blow'[q] = since_blow[q]
    BY <1>1, <1>3 DEF TypeOK, brokenOff
  <2>2. EveryBlowSpaced'
    BY <2>1 DEF EveryBlowSpaced
  <2>3. QED
    BY <1>1, <2>1, <2>2 DEF TypeOK
<1>4. QED
  BY <1>2, <1>3 DEF Struck

\* What a blow costs is taken from the mana, or not when it is broken off.
LEMMA CostTaken ==
  ASSUME TypeOK, NEW p \in Players, NEW cost \in Nat,
         Paid(p, cost) \/ (brokenOff(p) /\ UNCHANGED mana)
  PROVE  mana' \in [Players -> Points] /\ Struck(p)
BY ConsumedMana DEF Paid, Struck, TypeOK

EveryLevelDeserved == \A p \in Players : Deserved(level[p], exp[p])

LEMMA LearnedTypes ==
  ASSUME TypeOK, EveryLevelDeserved, NEW p \in Players, NEW damage \in Nat,
         NEW theirs \in Nat, NEW most \in Nat, NEW kills \in BOOLEAN,
         Learned(p, damage, theirs, most, kills)
  PROVE  /\ level' \in [Players -> Levels] /\ exp' \in [Players -> 0 .. MaxExp]
         /\ EveryLevelDeserved'
         /\ \A q \in Players \ {p} : level'[q] = level[q]
<1>1. PICK got \in Earned(p, damage, theirs, most, kills) :
        /\ got.exp <= MaxExp
        /\ exp' = [exp EXCEPT ![p] = got.exp]
        /\ level' = [level EXCEPT ![p] = got.level]
  BY DEF Learned
<1>2. /\ level \in [Players -> Levels] /\ exp \in [Players -> 0 .. MaxExp] /\ MaxExp \in Nat
      /\ exp[p] \in Nat /\ level[p] \in Levels /\ Deserved(level[p], exp[p])
  BY CombatAssumption DEF CombatAssumption, TypeOK, EveryLevelDeserved
<1>3. got.exp \in Nat /\ got.level \in Levels /\ Deserved(got.level, got.exp)
  BY <1>2, EarnedIsDeserved
<1>4. got.exp \in 0 .. MaxExp
  BY <1>1, <1>2, <1>3
<1>5. level' \in [Players -> Levels] /\ exp' \in [Players -> 0 .. MaxExp]
  BY <1>1, <1>2, <1>3, <1>4
<1>6. \A q \in Players \ {p} : level'[q] = level[q] /\ exp'[q] = exp[q]
  BY <1>1, <1>2
<1>7. level'[p] = got.level /\ exp'[p] = got.exp
  BY <1>1, <1>2
<1>8. EveryLevelDeserved'
  BY <1>3, <1>6, <1>7 DEF EveryLevelDeserved, Deserved
<1>9. QED
  BY <1>5, <1>6, <1>8

-----------------------------------------------------------------------------
\* Bodies.

\* What a step may do to a body in the game: leave it alive, or without a level, or
\* fallen now, or as dead as it was.
Buried(p) ==
  \/ hp'[p] # 0 \/ level'[p] = 0
  \/ fell'[p] = "debug"
  \/ fell'[p] = "blow" /\ p \notin meditating'
  \/ /\ hp[p] = 0 /\ fell'[p] = fell[p] /\ level'[p] = level[p]
     /\ p \in meditating' => p \in meditating

LEMMA BuriedIsNoticed ==
  ASSUME NobodyDiesUnnoticed, GhostsDoNotMeditate, TypeOK, TypeOK', online' = online,
         \A p \in online : Buried(p)
  PROVE  NobodyDiesUnnoticed' /\ GhostsDoNotMeditate'
<1>1. /\ online \subseteq Players /\ meditating' \subseteq online
      /\ \A p \in Players : hp[p] \in Nat /\ hp'[p] \in Nat
  BY WidthsAreNatural DEF TypeOK
<1>2. \A p \in online : (hp[p] > 0 <=> hp[p] # 0) /\ (hp'[p] > 0 <=> hp'[p] # 0)
  BY <1>1
<1>3. ASSUME NEW p \in online PROVE hp'[p] > 0 \/ fell'[p] # "no" \/ level'[p] = 0
  <2>1. Buried(p)
    OBVIOUS
  <2>2. CASE /\ hp[p] = 0 /\ fell'[p] = fell[p] /\ level'[p] = level[p]
             /\ p \in meditating' => p \in meditating
    <3>1. fell[p] # "no" \/ level[p] = 0
      BY <1>2, <2>2 DEF NobodyDiesUnnoticed, isAlive
    <3>2. QED
      BY <2>2, <3>1
  <2>3. QED
    BY <1>2, <2>1, <2>2 DEF Buried
<1>4. ASSUME NEW p \in meditating' PROVE hp'[p] > 0 \/ fell'[p] = "debug" \/ level'[p] = 0
  <2>1. p \in online /\ Buried(p)
    BY <1>1
  <2>2. CASE /\ hp[p] = 0 /\ fell'[p] = fell[p] /\ level'[p] = level[p]
             /\ p \in meditating' => p \in meditating
    <3>1. fell[p] = "debug" \/ level[p] = 0
      BY <1>2, <2>1, <2>2 DEF GhostsDoNotMeditate, isAlive
    <3>2. QED
      BY <2>2, <3>1
  <2>3. QED
    BY <1>2, <2>1, <2>2 DEF Buried
<1>5. QED
  BY <1>3, <1>4 DEF NobodyDiesUnnoticed, GhostsDoNotMeditate, isAlive

\* A ceiling of none is one of no level.
LEMMA CeilingOfNone ==
  ASSUME NEW p \in Players, NEW l \in Levels, hpMax(p, l) = 0
  PROVE  l = 0
<1>1. l \in Nat /\ hpMax(p, l) \in Nat
  BY WidthsAreNatural, CeilingsFit
<1>2. l > 0 => hpMax(p, l) > 0
  BY HpAssumption DEF HpAssumption
<1>3. QED
  BY <1>1, <1>2

LEMMA RestoredIsBuried ==
  ASSUME TypeOK, NEW p \in Players, restoreAllHp(p), level' = level,
         meditating' \subseteq meditating
  PROVE  \A q \in online : Buried(q)
<1>1. /\ hp'[p] = hpMax(p, level[p])
      /\ \A q \in Players \ {p} : hp'[q] = hp[q] /\ fell'[q] = fell[q]
  BY RestoredHp
<1>2. level[p] \in Levels /\ online \subseteq Players
  BY DEF TypeOK
<1>3. hp'[p] = 0 => level'[p] = 0
  BY <1>1, <1>2, CeilingOfNone
<1>4. Buried(p)
  BY <1>3 DEF Buried
<1>5. \A q \in Players \ {p} : Buried(q)
  BY <1>1 DEF Buried
<1>6. QED
  BY <1>2, <1>4, <1>5

LEMMA UntouchedIsBuried ==
  ASSUME TypeOK, hp' = hp, fell' = fell, level' = level, meditating' \subseteq meditating
  PROVE  \A q \in online : Buried(q)
BY DEF Buried

\* The invariant of the proofs.
CombatInv ==
  /\ TypeOK
  /\ EveryLevelDeserved
  /\ EveryBlowSpaced
  /\ NobodyDiesUnnoticed
  /\ GhostsDoNotMeditate

LEMMA StartIsSound == Init => CombatInv
<1> SUFFICES ASSUME Init PROVE CombatInv
  OBVIOUS
<1>1. 0 \in Levels /\ 1 \in Levels /\ 0 \in Points /\ Cooldown \in Nat /\ NpcCooldown \in Nat
      /\ NpcHp \in Nat /\ MaxExp \in Nat
  BY WidthsAreNatural, CombatAssumption DEF CombatAssumption, Levels, Points
<1>2. \A p \in Players : hpMax(p, 1) \in Points /\ manaMax(p, 1) \in Points
  BY <1>1, CeilingsFit
<1>3. TypeOK
  BY <1>1, <1>2 DEF Init, TypeOK
<1>4. EveryLevelDeserved
  BY DEF Init, EveryLevelDeserved, Deserved
<1>5. EveryBlowSpaced
  BY <1>1 DEF Init, EveryBlowSpaced
<1>6. NobodyDiesUnnoticed /\ GhostsDoNotMeditate
  BY DEF Init, NobodyDiesUnnoticed, GhostsDoNotMeditate
<1>7. QED
  BY <1>3, <1>4, <1>5, <1>6 DEF CombatInv

\* Who comes in has hp, whatever the record says.
LEMMA LoginIsSound ==
  ASSUME CombatInv, NEW p \in Players, Login(p)
  PROVE  CombatInv'
<1> DEFINE l == IF level[p] = 0 THEN 1 ELSE level[p]
           Loaded(saved, ceiling) == IF saved = 0 THEN ceiling ELSE Lesser(saved, ceiling)
<1>1. /\ TypeOK /\ EveryLevelDeserved /\ EveryBlowSpaced
      /\ NobodyDiesUnnoticed /\ GhostsDoNotMeditate
  BY DEF CombatInv
<1>2. l \in Levels /\ l # 0 /\ Deserved(l, exp[p])
  BY <1>1, WidthsAreNatural DEF TypeOK, Levels, EveryLevelDeserved, Deserved
<1>3. /\ hpMax(p, l) \in Points /\ hpMax(p, l) # 0 /\ manaMax(p, l) \in Points
  BY <1>2, CeilingsFit, CeilingOfNone
<1>4. \A m \in Points, c \in Points : Loaded(m, c) \in Points /\ (c # 0 => Loaded(m, c) # 0)
  BY WidthsAreNatural DEF Lesser
<1> HIDE DEF l
<1>5. /\ p \notin online /\ online' = online \union {p}
      /\ level' = [level EXCEPT ![p] = l]
      /\ max_hp' = [max_hp EXCEPT ![p] = hpMax(p, l)]
      /\ hp' = [hp EXCEPT ![p] = Loaded(@, hpMax(p, l))]
      /\ mana' = [mana EXCEPT ![p] = Loaded(@, manaMax(p, l))]
      /\ UNCHANGED <<exp, attack_cooldown, flags, npcVars, stage, since_blow, unpaid, fell>>
  BY DEF Login, l
<1> HIDE DEF Loaded
<1>6. TypeOK'
  BY <1>1, <1>2, <1>3, <1>4, <1>5 DEF TypeOK, flags, npcVars
<1>7. EveryLevelDeserved'
  BY <1>1, <1>2, <1>5 DEF TypeOK, EveryLevelDeserved, Deserved
<1>8. EveryBlowSpaced'
  BY <1>1, <1>5 DEF EveryBlowSpaced
<1>9. /\ hp'[p] # 0 /\ hp'[p] \in Nat
      /\ \A q \in online : hp'[q] = hp[q] /\ fell'[q] = fell[q] /\ level'[q] = level[q]
      /\ online \subseteq Players /\ meditating' = meditating /\ meditating \subseteq online
  BY <1>1, <1>3, <1>4, <1>5, WidthsAreNatural DEF TypeOK, flags
<1>10. NobodyDiesUnnoticed'
  BY <1>1, <1>5, <1>9 DEF NobodyDiesUnnoticed, isAlive
<1>11. GhostsDoNotMeditate'
  BY <1>1, <1>9 DEF GhostsDoNotMeditate, isAlive
<1>12. QED
  BY <1>6, <1>7, <1>8, <1>10, <1>11 DEF CombatInv

LEMMA LogoutIsSound ==
  ASSUME CombatInv, NEW p \in Players, Logout(p)
  PROVE  CombatInv'
<1>1. /\ TypeOK /\ EveryLevelDeserved /\ EveryBlowSpaced
      /\ NobodyDiesUnnoticed /\ GhostsDoNotMeditate
  BY DEF CombatInv
<1>2. Cooldown \in Nat /\ 0 \in Points
  BY WidthsAreNatural, CombatAssumption DEF CombatAssumption, Points
<1>3. TypeOK'
  BY <1>1, <1>2 DEF Logout, Forget, TypeOK, npcVars
<1>4. EveryLevelDeserved'
  BY <1>1 DEF Logout, EveryLevelDeserved, Deserved
<1>5. EveryBlowSpaced'
  BY <1>1, <1>2 DEF Logout, TypeOK, EveryBlowSpaced
<1>6. /\ online' = online \ {p} /\ meditating' = meditating \ {p}
      /\ hp' = hp /\ level' = level /\ \A q \in online' : fell'[q] = fell[q]
      /\ meditating' \subseteq online'
  BY <1>1 DEF Logout, Forget, TypeOK
<1>7. NobodyDiesUnnoticed' /\ GhostsDoNotMeditate'
  BY <1>1, <1>6 DEF NobodyDiesUnnoticed, GhostsDoNotMeditate, isAlive
<1>8. QED
  BY <1>3, <1>4, <1>5, <1>7 DEF CombatInv

\* A step that leaves levels, cooldowns and who is here alone is sound if its types
\* are, and if whoever has no hp after it was noticed.
LEMMA QuietStepIsSound ==
  ASSUME CombatInv, TypeOK', UNCHANGED <<online, level, exp, attack_cooldown, since_blow, unpaid>>,
         \A p \in online : Buried(p)
  PROVE  CombatInv'
<1>1. NobodyDiesUnnoticed' /\ GhostsDoNotMeditate'
  BY BuriedIsNoticed DEF CombatInv
<1>2. EveryLevelDeserved' /\ EveryBlowSpaced'
  BY DEF CombatInv, EveryLevelDeserved, Deserved, EveryBlowSpaced
<1>3. QED
  BY <1>1, <1>2 DEF CombatInv

LEMMA MeditationIsSound ==
  ASSUME CombatInv, NEW p \in Players, breakMeditation(p) \/ Meditate(p)
  PROVE  CombatInv'
<1>1. TypeOK
  BY DEF CombatInv
<1>2. /\ p \in online /\ hp[p] > 0
      /\ meditating' \subseteq meditating \union {p}
      /\ UNCHANGED <<online, body, attack_cooldown, resurrecting, infinite_hp, infinite_mana,
                     npcVars, stage, since_blow, unpaid, fell>>
  BY DEF breakMeditation, Meditate, toggleMeditation, Able, Commands, isAlive
<1>3. TypeOK'
  BY <1>1, <1>2 DEF TypeOK, body, npcVars
<1>4. hp'[p] # 0
  BY <1>1, <1>2, WidthsAreNatural DEF TypeOK, body
<1>5. \A q \in online : Buried(q)
  BY <1>2, <1>4 DEF Buried, body
<1>6. QED
  BY <1>2, <1>3, <1>5, QuietStepIsSound DEF body

\* A cure: a potion, a priest, or a debug command that begins to keep hp or mana full.
LEMMA CureIsSound ==
  ASSUME CombatInv, NEW p \in Players, p \in online,
         UNCHANGED <<online, level, exp, max_hp, attack_cooldown, npcVars, stage, since_blow,
                     unpaid>>,
         restoreAllHp(p) \/ UNCHANGED <<hp, fell>>,
         restoreAllMana(p) \/ UNCHANGED mana,
         meditating' \subseteq meditating, resurrecting' \subseteq online,
         infinite_hp' \subseteq online, infinite_mana' \subseteq online
  PROVE  CombatInv'
<1>1. TypeOK
  BY DEF CombatInv
<1>2. hp' \in [Players -> Points] /\ fell' \in [Players -> {"no", "blow", "debug"}]
  BY <1>1, RestoredHp DEF TypeOK
<1>3. mana' \in [Players -> Points]
  BY <1>1, RestoredMana DEF TypeOK
<1>4. TypeOK'
  BY <1>1, <1>2, <1>3 DEF TypeOK, npcVars
<1>5. \A q \in online : Buried(q)
  BY <1>1, RestoredIsBuried, UntouchedIsBuried
<1>6. QED
  BY <1>4, <1>5, QuietStepIsSound

LEMMA CuringCommandsAreSound ==
  ASSUME CombatInv, NEW p \in Players,
         \/ DrinkPotion(p) \/ Heal(p) \/ Resurrect(p)
         \/ ToggleInfiniteHp(p) \/ ToggleInfiniteMana(p)
  PROVE  CombatInv'
<1>1. /\ meditating \subseteq online /\ resurrecting \subseteq online
      /\ infinite_hp \subseteq online /\ infinite_mana \subseteq online
  BY DEF CombatInv, TypeOK
<1>2. CASE DrinkPotion(p)
  BY <1>1, <1>2, CureIsSound DEF DrinkPotion, Able, Commands
<1>3. CASE Heal(p)
  BY <1>1, <1>3, CureIsSound DEF Heal, heal, Able, Commands, flags
<1>4. CASE Resurrect(p)
  BY <1>1, <1>4, CureIsSound DEF Resurrect, startResurrection, heal, Commands
<1>5. CASE ToggleInfiniteHp(p)
  BY <1>1, <1>5, CureIsSound DEF ToggleInfiniteHp, Commands
<1>6. CASE ToggleInfiniteMana(p)
  BY <1>1, <1>6, CureIsSound DEF ToggleInfiniteMana, Commands
<1>7. QED
  BY <1>2, <1>3, <1>4, <1>5, <1>6

LEMMA DebugKillIsSound ==
  ASSUME CombatInv, NEW p \in Players, DebugKill(p)
  PROVE  CombatInv'
<1>1. TypeOK /\ UINT16 - 1 \in Nat
  BY WidthsAreNatural DEF CombatInv
<1>2. /\ receiveDamage(p, UINT16 - 1, "debug")
      /\ UNCHANGED <<online, level, mana, exp, max_hp, attack_cooldown, flags, npcVars, stage,
                     since_blow, unpaid>>
  BY DEF DebugKill
<1>3. /\ hp' \in [Players -> Points] /\ fell' \in [Players -> {"no", "blow", "debug"}]
      /\ hp[p] = 0 => hp' = hp /\ fell' = fell
      /\ hp[p] # 0 => hp'[p] # 0 \/ fell'[p] = "debug"
      /\ \A q \in Players \ {p} : hp'[q] = hp[q] /\ fell'[q] = fell[q]
  BY <1>1, <1>2, Damaged
<1>4. TypeOK'
  BY <1>1, <1>2, <1>3 DEF TypeOK, flags, npcVars
<1>5. online \subseteq Players
  BY <1>1 DEF TypeOK
<1>6. \A q \in online : Buried(q)
  BY <1>2, <1>3, <1>5 DEF Buried, flags
<1>7. QED
  BY <1>2, <1>4, <1>6, QuietStepIsSound

\* A step with a blow: its types, and that whoever it kills was noticed, are enough.
LEMMA BlowIsSound ==
  ASSUME CombatInv, TypeOK', NEW p \in online, Struck(p), online' = online,
         EveryLevelDeserved', \A q \in online : Buried(q)
  PROVE  CombatInv'
<1>1. NobodyDiesUnnoticed' /\ GhostsDoNotMeditate'
  BY BuriedIsNoticed DEF CombatInv
<1>2. EveryBlowSpaced'
  BY StruckIsSpaced DEF CombatInv
<1>3. QED
  BY <1>1, <1>2 DEF CombatInv

LEMMA FluteIsSound ==
  ASSUME CombatInv, NEW p \in Players, PlayFlute(p)
  PROVE  CombatInv'
<1>1. TypeOK /\ EveryBlowSpaced /\ EveryLevelDeserved /\ FluteCost \in Nat
  BY CombatAssumption DEF CombatInv, CombatAssumption
<1>2. /\ p \in online
      /\ restoreAllHp(p) /\ consumeMana(p, FluteCost)
      /\ meditating' = meditating \ {p}
      /\ Struck(p)
      /\ UNCHANGED <<online, level, exp, max_hp, resurrecting, infinite_hp, infinite_mana,
                     npcVars, stage>>
  BY DEF PlayFlute, CanStrike, Able, Commands, Struck
<1>3. /\ hp' \in [Players -> Points] /\ fell' \in [Players -> {"no", "blow", "debug"}]
      /\ mana' \in [Players -> Points]
      /\ attack_cooldown' \in [Players -> 0 .. Cooldown]
      /\ since_blow' \in [Players -> 0 .. Cooldown] /\ unpaid' \subseteq online
  BY <1>1, <1>2, RestoredHp, ConsumedMana, StruckIsSpaced
<1>4. TypeOK'
  BY <1>1, <1>2, <1>3 DEF TypeOK, npcVars
<1>5. EveryLevelDeserved'
  BY <1>1, <1>2 DEF EveryLevelDeserved, Deserved
<1>6. \A q \in online : Buried(q)
  BY <1>1, <1>2, RestoredIsBuried
<1>7. QED
  BY <1>2, <1>4, <1>5, <1>6, BlowIsSound

LEMMA DodgeIsSound ==
  ASSUME CombatInv, NEW p \in online, Dodged(p)
  PROVE  CombatInv'
<1>1. TypeOK /\ EveryBlowSpaced /\ EveryLevelDeserved
  BY DEF CombatInv
<1>2. Struck(p) /\ UNCHANGED <<online, body, flags, npcVars, stage, fell>>
  BY DEF Dodged, Struck
<1>3. /\ attack_cooldown' \in [Players -> 0 .. Cooldown]
      /\ since_blow' \in [Players -> 0 .. Cooldown] /\ unpaid' \subseteq online
  BY <1>1, <1>2, StruckIsSpaced
<1>4. TypeOK'
  BY <1>1, <1>2, <1>3 DEF TypeOK, body, flags, npcVars
<1>5. EveryLevelDeserved'
  BY <1>1, <1>2 DEF EveryLevelDeserved, Deserved, body
<1>6. \A q \in online : Buried(q)
  BY <1>1, <1>2, UntouchedIsBuried DEF body, flags
<1>7. QED
  BY <1>2, <1>4, <1>5, <1>6, BlowIsSound

\* What is added up to a blow is never negative.
LEMMA BlowsAreNatural ==
  ASSUME NEW base \in Nat, NEW critical \in BOOLEAN, NEW bonus \in Nat, NEW defense \in Nat
  PROVE  /\ calculationDamage(base, critical) \in Nat
         /\ (calculationDamage(base, critical) + bonus) % UINT16 \in Nat
         /\ \A blow \in Nat : Softened(blow, defense) \in Nat
<1>1. UINT16 \in Nat \ {0}
  BY WidthsAreNatural
<1>2. base * (IF critical THEN 2 ELSE 1) \in Nat
  OBVIOUS
<1>3. calculationDamage(base, critical) \in Nat
  BY <1>1, <1>2, CutFits DEF calculationDamage
<1>4. calculationDamage(base, critical) + bonus \in Nat
  BY <1>3
<1>5. (calculationDamage(base, critical) + bonus) % UINT16 \in Nat
  BY <1>1, <1>4, CutFits
<1>6. \A blow \in Nat : Softened(blow, defense) \in Nat
  BY DEF Softened
<1>7. QED
  BY <1>3, <1>5, <1>6

LEMMA NumbersAreNatural ==
  /\ StaffCost \in Nat /\ \A cost \in WeaponCosts : cost \in Nat
  /\ Damages \subseteq Nat /\ Bonuses \subseteq Nat /\ Defenses \subseteq Nat
  /\ NpcLevel \in Nat /\ NpcHp \in Nat /\ NpcCooldown \in Nat /\ Cooldown \in Nat
BY WidthsAreNatural, CombatAssumption DEF CombatAssumption, WeaponCosts

LEMMA LandedOnPlayerIsSound ==
  ASSUME CombatInv, NEW p \in online, NEW q \in online, p # q, CanStrike(p),
         NEW cost \in Nat, NEW damage \in Nat, NEW kills \in BOOLEAN,
         receiveDamage(q, damage, "blow"),
         Learned(p, damage, level[q], max_hp[q], kills),
         Paid(p, cost) \/ (brokenOff(p) /\ UNCHANGED mana),
         meditating' \subseteq meditating \ {q},
         UNCHANGED <<online, max_hp, resurrecting, infinite_hp, infinite_mana, npcVars, stage>>
  PROVE  CombatInv'
<1>1. TypeOK /\ EveryBlowSpaced /\ EveryLevelDeserved /\ online \subseteq Players
      /\ p \in Players /\ q \in Players
  BY DEF CombatInv, TypeOK
<1>2. level[q] \in Nat /\ max_hp[q] \in Nat
  BY <1>1, WidthsAreNatural DEF TypeOK
<1>3. /\ hp' \in [Players -> Points] /\ fell' \in [Players -> {"no", "blow", "debug"}]
      /\ hp[q] = 0 => hp' = hp /\ fell' = fell
      /\ hp[q] # 0 => hp'[q] # 0 \/ fell'[q] = "blow"
      /\ \A r \in Players \ {q} : hp'[r] = hp[r] /\ fell'[r] = fell[r]
  BY <1>1, Damaged
<1>4. /\ level' \in [Players -> Levels] /\ exp' \in [Players -> 0 .. MaxExp]
      /\ EveryLevelDeserved'
      /\ \A r \in Players \ {p} : level'[r] = level[r]
  <2>1. PICK theirs \in Nat, most \in Nat : Learned(p, damage, theirs, most, kills)
    BY <1>2
  <2>2. QED
    BY <1>1, <2>1, LearnedTypes
<1>5. mana' \in [Players -> Points] /\ Struck(p)
  BY <1>1, CostTaken
<1>6. /\ attack_cooldown' \in [Players -> 0 .. Cooldown]
      /\ since_blow' \in [Players -> 0 .. Cooldown] /\ unpaid' \subseteq online
  BY <1>1, <1>5, StruckIsSpaced
<1>7. TypeOK'
  BY <1>1, <1>3, <1>4, <1>5, <1>6 DEF TypeOK, npcVars
<1>8. ASSUME NEW r \in online PROVE Buried(r)
  <2>1. r \in Players
    BY <1>1
  <2>2. CASE r = p
    <3>1. hp[p] # 0 /\ hp'[p] = hp[p]
      BY <1>1, <1>3, WidthsAreNatural DEF CanStrike, Able, isAlive, TypeOK
    <3>2. QED
      BY <2>2, <3>1 DEF Buried
  <2>3. CASE r = q
    <3>1. level'[q] = level[q] /\ q \notin meditating'
      BY <1>1, <1>4
    <3>2. QED
      BY <1>3, <2>3, <3>1 DEF Buried
  <2>4. CASE r \notin {p, q}
    BY <1>3, <1>4, <2>1, <2>4 DEF Buried
  <2>5. QED
    BY <2>2, <2>3, <2>4
<1>9. QED
  BY <1>4, <1>5, <1>7, <1>8, BlowIsSound

LEMMA AttackPlayerIsSound ==
  ASSUME CombatInv, NEW p \in Players, NEW q \in Players, AttackPlayer(p, q)
  PROVE  CombatInv'
<1>1. CanStrike(p) /\ p # q /\ q \in online /\ p \in online
  BY DEF AttackPlayer, CanStrike, Able, Commands
<1>2. PICK cost \in WeaponCosts, base \in Damages, critical \in BOOLEAN :
        \/ ~critical /\ Dodged(p)
        \/ \E bonus \in Bonuses, defense \in Defenses :
             LET blow == (calculationDamage(base, critical) + bonus) % UINT16
                 damage == Softened(blow, defense)
                 kills == q \notin infinite_hp /\ damage >= hp[q]
             IN  /\ receiveDamage(q, damage, "blow")
                 /\ Learned(p, damage, level[q], max_hp[q], kills)
                 /\ \/ Paid(p, cost) /\ Interrupted(p, q)
                    \/ brokenOff(p) /\ meditating' = meditating \ {q} /\ UNCHANGED mana
                 /\ UNCHANGED <<online, max_hp, resurrecting, infinite_hp, infinite_mana,
                                npcVars, stage>>
  BY DEF AttackPlayer
<1>3. CASE Dodged(p)
  BY <1>1, <1>3, DodgeIsSound
<1>4. ASSUME NEW bonus \in Bonuses, NEW defense \in Defenses,
             LET blow == (calculationDamage(base, critical) + bonus) % UINT16
                 damage == Softened(blow, defense)
                 kills == q \notin infinite_hp /\ damage >= hp[q]
             IN  /\ receiveDamage(q, damage, "blow")
                 /\ Learned(p, damage, level[q], max_hp[q], kills)
                 /\ \/ Paid(p, cost) /\ Interrupted(p, q)
                    \/ brokenOff(p) /\ meditating' = meditating \ {q} /\ UNCHANGED mana
                 /\ UNCHANGED <<online, max_hp, resurrecting, infinite_hp, infinite_mana,
                                npcVars, stage>>
      PROVE  CombatInv'
  <2> DEFINE damage == Softened((calculationDamage(base, critical) + bonus) % UINT16, defense)
             kills == q \notin infinite_hp /\ damage >= hp[q]
  <2>1. damage \in Nat /\ cost \in Nat
    BY NumbersAreNatural, BlowsAreNatural
  <2>2. kills \in BOOLEAN
    OBVIOUS
  <2>3. /\ receiveDamage(q, damage, "blow")
        /\ Learned(p, damage, level[q], max_hp[q], kills)
        /\ Paid(p, cost) \/ (brokenOff(p) /\ UNCHANGED mana)
        /\ meditating' \subseteq meditating \ {q}
        /\ UNCHANGED <<online, max_hp, resurrecting, infinite_hp, infinite_mana, npcVars, stage>>
    BY <1>4 DEF Interrupted
  <2> HIDE DEF damage, kills
  <2>4. QED
    BY <1>1, <2>1, <2>2, <2>3, LandedOnPlayerIsSound
<1>5. QED
  BY <1>2, <1>3, <1>4

LEMMA LandedOnCreatureIsSound ==
  ASSUME CombatInv, NEW p \in online, CanStrike(p), NEW cost \in Nat, NEW damage \in Nat,
         npc_hp' = (IF damage >= npc_hp THEN 0 ELSE npc_hp - damage),
         npc_cooldown' = (IF damage >= npc_hp THEN 0 ELSE npc_cooldown),
         Learned(p, damage, NpcLevel, NpcHp, damage >= npc_hp),
         Paid(p, cost) \/ (brokenOff(p) /\ UNCHANGED mana),
         meditating' \subseteq meditating,
         UNCHANGED <<online, hp, max_hp, resurrecting, infinite_hp, infinite_mana, stage, fell>>
  PROVE  CombatInv'
<1>1. TypeOK /\ EveryBlowSpaced /\ EveryLevelDeserved /\ online \subseteq Players /\ p \in Players
  BY DEF CombatInv, TypeOK
<1>2. /\ NpcLevel \in Nat /\ NpcHp \in Nat /\ NpcCooldown \in Nat
      /\ npc_hp \in 0 .. NpcHp /\ npc_cooldown \in 0 .. NpcCooldown
  BY <1>1, NumbersAreNatural DEF TypeOK
<1>3. npc_hp' \in 0 .. NpcHp /\ npc_cooldown' \in 0 .. NpcCooldown
  BY <1>2
<1>4. /\ level' \in [Players -> Levels] /\ exp' \in [Players -> 0 .. MaxExp]
      /\ EveryLevelDeserved'
      /\ \A r \in Players \ {p} : level'[r] = level[r]
  <2> DEFINE kills == damage >= npc_hp
  <2>1. kills \in BOOLEAN /\ Learned(p, damage, NpcLevel, NpcHp, kills)
    OBVIOUS
  <2> HIDE DEF kills
  <2>2. QED
    BY <1>1, <1>2, <2>1, LearnedTypes
<1>5. mana' \in [Players -> Points] /\ Struck(p)
  BY <1>1, CostTaken
<1>6. /\ attack_cooldown' \in [Players -> 0 .. Cooldown]
      /\ since_blow' \in [Players -> 0 .. Cooldown] /\ unpaid' \subseteq online
  BY <1>1, <1>5, StruckIsSpaced
<1>7. TypeOK'
  BY <1>1, <1>3, <1>4, <1>5, <1>6 DEF TypeOK
<1>8. ASSUME NEW r \in online PROVE Buried(r)
  <2>1. CASE r = p
    <3>1. hp'[p] # 0
      BY <1>1, WidthsAreNatural DEF CanStrike, Able, isAlive, TypeOK
    <3>2. QED
      BY <2>1, <3>1 DEF Buried
  <2>2. CASE r # p
    BY <1>1, <1>4, <2>2 DEF Buried
  <2>3. QED
    BY <2>1, <2>2
<1>9. QED
  BY <1>4, <1>5, <1>7, <1>8, BlowIsSound

LEMMA AttackCreatureIsSound ==
  ASSUME CombatInv, NEW p \in Players, AttackCreature(p)
  PROVE  CombatInv'
<1>1. CanStrike(p) /\ p \in online
  BY DEF AttackCreature, CanStrike, Able, Commands
<1>2. PICK cost \in WeaponCosts, base \in Damages, critical \in BOOLEAN :
        \/ ~critical /\ Dodged(p)
        \/ \E bonus \in Bonuses :
             LET damage == (calculationDamage(base, critical) + bonus) % UINT16
             IN  /\ npc_hp' = IF damage >= npc_hp THEN 0 ELSE npc_hp - damage
                 /\ npc_cooldown' = IF damage >= npc_hp THEN 0 ELSE npc_cooldown
                 /\ Learned(p, damage, NpcLevel, NpcHp, damage >= npc_hp)
                 /\ \/ Paid(p, cost) /\ meditating' = meditating \ {p}
                    \/ brokenOff(p) /\ UNCHANGED <<mana, meditating>>
                 /\ UNCHANGED <<online, hp, max_hp, resurrecting, infinite_hp,
                                infinite_mana, stage, fell>>
  BY DEF AttackCreature
<1>3. CASE Dodged(p)
  BY <1>1, <1>3, DodgeIsSound
<1>4. ASSUME NEW bonus \in Bonuses,
             LET damage == (calculationDamage(base, critical) + bonus) % UINT16
             IN  /\ npc_hp' = IF damage >= npc_hp THEN 0 ELSE npc_hp - damage
                 /\ npc_cooldown' = IF damage >= npc_hp THEN 0 ELSE npc_cooldown
                 /\ Learned(p, damage, NpcLevel, NpcHp, damage >= npc_hp)
                 /\ \/ Paid(p, cost) /\ meditating' = meditating \ {p}
                    \/ brokenOff(p) /\ UNCHANGED <<mana, meditating>>
                 /\ UNCHANGED <<online, hp, max_hp, resurrecting, infinite_hp,
                                infinite_mana, stage, fell>>
      PROVE  CombatInv'
  <2> DEFINE damage == (calculationDamage(base, critical) + bonus) % UINT16
  <2>1. damage \in Nat /\ cost \in Nat
    BY NumbersAreNatural, BlowsAreNatural
  <2>2. /\ npc_hp' = (IF damage >= npc_hp THEN 0 ELSE npc_hp - damage)
        /\ npc_cooldown' = (IF damage >= npc_hp THEN 0 ELSE npc_cooldown)
        /\ Learned(p, damage, NpcLevel, NpcHp, damage >= npc_hp)
        /\ Paid(p, cost) \/ (brokenOff(p) /\ UNCHANGED mana)
        /\ meditating' \subseteq meditating
        /\ UNCHANGED <<online, hp, max_hp, resurrecting, infinite_hp, infinite_mana, stage, fell>>
    BY <1>4
  <2> HIDE DEF damage
  <2>3. QED
    BY <1>1, <2>1, <2>2, LandedOnCreatureIsSound
<1>5. QED
  BY <1>2, <1>3, <1>4

-----------------------------------------------------------------------------
\* The tick.

\* What the creature's turn does to bodies: nothing, or one blow.
LEMMA CreaturesAreSound ==
  ASSUME CombatInv, updateCreatures
  PROVE  CombatInv'
<1>1. TypeOK /\ online \subseteq Players
  BY DEF CombatInv, TypeOK
<1>2. /\ NpcLevel \in Nat /\ NpcCooldown \in Nat /\ npc_cooldown \in 0 .. NpcCooldown
      /\ Defenses \subseteq Nat
  BY <1>1, NumbersAreNatural DEF TypeOK
<1>3. /\ stage' = "players"
      /\ UNCHANGED <<online, level, mana, exp, max_hp, attack_cooldown, resurrecting,
                     infinite_hp, infinite_mana, npc_hp, since_blow, unpaid>>
  BY DEF updateCreatures
<1>4. ASSUME UNCHANGED <<hp, fell, meditating>>, npc_cooldown' \in 0 .. NpcCooldown
      PROVE  CombatInv'
  <2>1. TypeOK'
    BY <1>1, <1>3, <1>4 DEF TypeOK
  <2>2. \A q \in online : Buried(q)
    BY <1>3, <1>4 DEF Buried
  <2>3. QED
    BY <1>3, <2>1, <2>2, QuietStepIsSound
<1>5. ASSUME NEW q \in online, NEW damage \in Nat, receiveDamage(q, damage, "blow"),
             meditating' = meditating \ {q}, npc_cooldown' = NpcCooldown
      PROVE  CombatInv'
  <2>1. /\ hp' \in [Players -> Points] /\ fell' \in [Players -> {"no", "blow", "debug"}]
        /\ hp[q] = 0 => hp' = hp /\ fell' = fell
        /\ hp[q] # 0 => hp'[q] # 0 \/ fell'[q] = "blow"
        /\ \A r \in Players \ {q} : hp'[r] = hp[r] /\ fell'[r] = fell[r]
    BY <1>1, <1>5, Damaged
  <2>2. TypeOK'
    BY <1>1, <1>2, <1>3, <1>5, <2>1 DEF TypeOK
  <2>3. \A r \in online : Buried(r)
    BY <1>1, <1>3, <1>5, <2>1 DEF Buried
  <2>4. QED
    BY <1>3, <2>2, <2>3, QuietStepIsSound
<1>6. ASSUME NEW q \in online, CreatureStrikes(q)
      PROVE  CombatInv'
  <2>1. CASE UNCHANGED <<hp, fell, meditating>> /\ npc_cooldown' = NpcCooldown
    BY <1>2, <1>4, <2>1
  <2>2. ASSUME NEW base \in 1 .. 2, NEW critical \in BOOLEAN, NEW defense \in Defenses,
               LET strength == IF NpcLevel > 1 THEN NpcLevel ELSE 1
                   blow == calculationDamage(strength * base, critical)
               IN  /\ receiveDamage(q, Softened(blow, defense), "blow")
                   /\ meditating' = meditating \ {q}
                   /\ npc_cooldown' = NpcCooldown
        PROVE  CombatInv'
    <3> DEFINE strength == IF NpcLevel > 1 THEN NpcLevel ELSE 1
               blow == calculationDamage(strength * base, critical)
               damage == Softened(blow, defense)
    <3>1. strength * base \in Nat
      BY <1>2, ProductIsNatural
    <3>2. 0 \in Nat /\ defense \in Nat
      BY <1>2
    <3>3. damage \in Nat
      BY <3>1, <3>2, BlowsAreNatural
    <3>4. /\ receiveDamage(q, damage, "blow")
          /\ meditating' = meditating \ {q} /\ npc_cooldown' = NpcCooldown
      BY <2>2
    <3> HIDE DEF damage
    <3>5. QED
      BY <1>5, <3>3, <3>4
  <2>3. QED
    BY <1>6, <2>1, <2>2 DEF CreatureStrikes
<1>7. Cooled(npc_cooldown) \in 0 .. NpcCooldown
  BY <1>2 DEF Cooled
<1>8. QED
  BY <1>2, <1>4, <1>6, <1>7 DEF updateCreatures

\* Waiting goes on as the cooldown runs down.
LEMMA CooldownsRunDown ==
  ASSUME TypeOK, EveryBlowSpaced,
         attack_cooldown' = [p \in Players |-> IF p \in online THEN Cooled(attack_cooldown[p])
                                               ELSE attack_cooldown[p]],
         since_blow' = [p \in Players |-> IF p \in online
                                          THEN Lesser(since_blow[p] + 1, Cooldown)
                                          ELSE since_blow[p]],
         unpaid' = {p \in unpaid : since_blow[p] + 1 < Cooldown}
  PROVE  /\ attack_cooldown' \in [Players -> 0 .. Cooldown]
         /\ since_blow' \in [Players -> 0 .. Cooldown]
         /\ unpaid' \subseteq online
         /\ EveryBlowSpaced'
<1>1. Cooldown \in Nat /\ unpaid \subseteq online
  BY NumbersAreNatural DEF TypeOK
<1>2. ASSUME NEW p \in Players
      PROVE  /\ attack_cooldown'[p] \in 0 .. Cooldown /\ since_blow'[p] \in 0 .. Cooldown
             /\ p \notin unpaid' => attack_cooldown'[p] + since_blow'[p] >= Cooldown
  <2>1. /\ attack_cooldown[p] \in 0 .. Cooldown /\ since_blow[p] \in 0 .. Cooldown
        /\ p \notin unpaid => attack_cooldown[p] + since_blow[p] >= Cooldown
    BY DEF TypeOK, EveryBlowSpaced
  <2>2. CASE p \in unpaid
    BY <1>1, <2>1, <2>2 DEF Cooled, Lesser
  <2>3. CASE p \notin unpaid
    BY <1>1, <2>1, <2>3 DEF Cooled, Lesser
  <2>4. QED
    BY <2>2, <2>3
<1>3. QED
  BY <1>1, <1>2 DEF EveryBlowSpaced

\* A resurrection, a recovery, both or neither.
LEMMA PlayersAreSound ==
  ASSUME CombatInv, updatePlayers
  PROVE  CombatInv'
<1>1. /\ TypeOK /\ EveryBlowSpaced /\ EveryLevelDeserved /\ online \subseteq Players
      /\ NpcHp \in Nat
  BY NumbersAreNatural DEF CombatInv, TypeOK
<1> DEFINE healedHp(p, arrived) == IF p \in arrived THEN hpMax(p, level[p]) ELSE hp[p]
           healedMana(p, arrived) == IF p \in arrived THEN manaMax(p, level[p]) ELSE mana[p]
<1>2. PICK arrived \in SUBSET resurrecting, recover \in BOOLEAN :
        /\ hp' = [p \in Players |-> IF recover /\ p \in online
                                    THEN updatedHp(p, healedHp(p, arrived))
                                    ELSE healedHp(p, arrived)]
        /\ mana' = [p \in Players |-> IF recover /\ p \in online
                                      THEN updatedMana(p, healedMana(p, arrived))
                                      ELSE healedMana(p, arrived)]
        /\ fell' = [p \in Players |-> IF p \in arrived \/ (recover /\ p \in infinite_hp)
                                      THEN "no" ELSE fell[p]]
        /\ resurrecting' = resurrecting \ arrived
  BY DEF updatePlayers
<1>3. /\ stage' = "commands"
      /\ attack_cooldown' = [p \in Players |-> IF p \in online THEN Cooled(attack_cooldown[p])
                                               ELSE attack_cooldown[p]]
      /\ since_blow' = [p \in Players |-> IF p \in online
                                          THEN Lesser(since_blow[p] + 1, Cooldown)
                                          ELSE since_blow[p]]
      /\ unpaid' = {p \in unpaid : since_blow[p] + 1 < Cooldown}
      /\ npc_hp' \in 0 .. NpcHp /\ npc_cooldown' = npc_cooldown
      /\ UNCHANGED <<online, level, exp, max_hp, meditating, infinite_hp, infinite_mana>>
  BY <1>1 DEF updatePlayers, TypeOK, npcVars
<1>4. /\ attack_cooldown' \in [Players -> 0 .. Cooldown]
      /\ since_blow' \in [Players -> 0 .. Cooldown] /\ unpaid' \subseteq online
      /\ EveryBlowSpaced'
  BY <1>1, <1>3, CooldownsRunDown
<1>5. ASSUME NEW p \in Players
      PROVE  /\ hp'[p] \in Points /\ mana'[p] \in Points
             /\ fell'[p] \in {"no", "blow", "debug"}
             /\ p \in online => Buried(p)
  <2>1. /\ level[p] \in Levels /\ hp[p] \in Points /\ mana[p] \in Points
        /\ fell[p] \in {"no", "blow", "debug"} /\ HpFactor[p] \in Nat /\ Meditation[p] \in Nat
    BY <1>1, CombatAssumption DEF TypeOK, CombatAssumption
  <2>2. /\ hpMax(p, level[p]) \in Points /\ manaMax(p, level[p]) \in Points
        /\ hpMax(p, level[p]) = 0 => level[p] = 0
    BY <2>1, CeilingsFit, CeilingOfNone
  <2>3. /\ healedHp(p, arrived) \in Points /\ healedMana(p, arrived) \in Points
        /\ p \in arrived /\ healedHp(p, arrived) = 0 => level[p] = 0
    BY <2>1, <2>2
  <2>4. /\ updateHp(p, healedHp(p, arrived)) \in Points
        /\ healedHp(p, arrived) = 0 <=> updateHp(p, healedHp(p, arrived)) = 0
        /\ updateMana(p, healedMana(p, arrived), HpFactor[p]) \in Points
        /\ updateMana(p, healedMana(p, arrived), Meditation[p]) \in Points
    BY <2>1, <2>3, RecoveryFits
  <2>5. updatedMana(p, healedMana(p, arrived)) \in Points
    BY <2>2, <2>4 DEF updatedMana
  <2>6. updatedHp(p, healedHp(p, arrived)) \in Points
    BY <2>2, <2>4 DEF updatedHp
  <2>7. hp'[p] \in Points /\ mana'[p] \in Points /\ fell'[p] \in {"no", "blow", "debug"}
    BY <1>2, <2>1, <2>3, <2>5, <2>6
  <2>8. CASE p \in arrived
    <3>1. hp'[p] = 0 => level[p] = 0
      BY <1>2, <2>2, <2>3, <2>4, <2>8 DEF updatedHp
    <3>2. QED
      BY <1>3, <2>7, <3>1 DEF Buried
  <2>9. CASE p \notin arrived /\ recover /\ p \in infinite_hp
    <3>1. p \in online /\ hp'[p] = 0 => level[p] = 0
      BY <1>2, <2>2, <2>9 DEF updatedHp
    <3>2. QED
      BY <1>3, <2>7, <3>1 DEF Buried
  <2>10. CASE p \notin arrived /\ ~(recover /\ p \in infinite_hp)
    <3>1. fell'[p] = fell[p]
      BY <1>2, <2>10
    <3>2. hp'[p] = 0 => hp[p] = 0
      BY <1>2, <2>4, <2>10 DEF updatedHp
    <3>3. QED
      BY <1>3, <2>7, <3>1, <3>2 DEF Buried
  <2>11. QED
    BY <2>8, <2>9, <2>10
<1>6. /\ hp' \in [Players -> Points] /\ mana' \in [Players -> Points]
      /\ fell' \in [Players -> {"no", "blow", "debug"}]
  BY <1>2, <1>5
<1>7. TypeOK'
  BY <1>1, <1>2, <1>3, <1>4, <1>6 DEF TypeOK
<1>8. EveryLevelDeserved'
  BY <1>1, <1>3 DEF EveryLevelDeserved, Deserved
<1>9. NobodyDiesUnnoticed' /\ GhostsDoNotMeditate'
  BY <1>1, <1>3, <1>5, <1>7, BuriedIsNoticed DEF CombatInv
<1>10. QED
  BY <1>4, <1>7, <1>8, <1>9 DEF CombatInv

-----------------------------------------------------------------------------
LEMMA StepIsSound == CombatInv /\ [Next]_vars => CombatInv'
<1> SUFFICES ASSUME CombatInv, [Next]_vars PROVE CombatInv'
  OBVIOUS
<1>1. CASE UNCHANGED vars
  BY <1>1 DEF vars, body, flags, npcVars, CombatInv, TypeOK, EveryLevelDeserved, Deserved,
              EveryBlowSpaced, NobodyDiesUnnoticed, GhostsDoNotMeditate, isAlive
<1>2. ASSUME NEW p \in Players,
             \/ Login(p) \/ Logout(p)
             \/ breakMeditation(p) \/ DrinkPotion(p) \/ Heal(p) \/ ChatCommand(p)
             \/ PlayFlute(p) \/ AttackCreature(p)
             \/ \E q \in Players : AttackPlayer(p, q)
      PROVE  CombatInv'
  BY <1>2, LoginIsSound, LogoutIsSound, MeditationIsSound, CuringCommandsAreSound,
     DebugKillIsSound, FluteIsSound, AttackCreatureIsSound, AttackPlayerIsSound DEF ChatCommand
<1>3. QED
  BY <1>1, <1>2, CreaturesAreSound, PlayersAreSound DEF Next

LEMMA AlwaysSound == Spec => []CombatInv
BY StartIsSound, StepIsSound, PTL DEF Spec

\* Whatever blows teach, and however the limits rise, nobody has a level that the
\* experience does not reach; and every number fits its width.
THEOREM LevelCorrect == Spec => []LevelIsEarned
<1>1. CombatInv => LevelIsEarned
  <2> SUFFICES ASSUME CombatInv, NEW p \in Players PROVE level[p] \in Reached(p)
    BY DEF CombatInv, LevelIsEarned
  <2>1. level[p] \in Levels /\ Deserved(level[p], exp[p])
    BY DEF CombatInv, TypeOK, EveryLevelDeserved
  <2>2. QED
    BY <2>1 DEF Reached, Deserved, limitMoveUpToNextLevel
<1>2. QED
  BY AlwaysSound, <1>1, PTL

\* However blows, dodges, flutes, logouts and logins follow each other, the whole
\* cooldown is between two blows of a session, unless a closed queue broke the first
\* one off less than a cooldown ago.
THEOREM CooldownCorrect == Spec => []BlowsAreSpaced
<1>1. CombatInv => BlowsAreSpaced
  BY DEF CombatInv, TypeOK, EveryBlowSpaced, BlowsAreSpaced
<1>2. QED
  BY AlwaysSound, <1>1, PTL

\* Whatever the blows, cures and recoveries, hp runs out only in a death, or with a
\* level that wrapped to none.
THEOREM DeathsCorrect == Spec => []NobodyDiesUnnoticed
<1>1. CombatInv => NobodyDiesUnnoticed
  BY DEF CombatInv
<1>2. QED
  BY AlwaysSound, <1>1, PTL

\* Only a player killed by the debug command goes on meditating.
THEOREM GhostsCorrect == Spec => []GhostsDoNotMeditate
<1>1. CombatInv => GhostsDoNotMeditate
  BY DEF CombatInv
<1>2. QED
  BY AlwaysSound, <1>1, PTL

-----------------------------------------------------------------------------
\* Ceilings.

\* What a step may do to hp and mana: take from them, or fill them to the ceiling.
Fills(p) ==
  /\ exp'[p] >= exp[p]
  /\ hp'[p] <= hp[p] \/ hp'[p] <= hpMax(p, level'[p])
  /\ mana'[p] <= mana[p] \/ mana'[p] <= manaMax(p, level'[p])

\* A level once reached stays reached.
LEMMA FillingIsNotOverfull ==
  ASSUME CombatInv, CombatInv', NobodyIsOverfull, \A p \in Players : Fills(p)
  PROVE  NobodyIsOverfull'
<1> SUFFICES ASSUME NEW p \in Players
             PROVE  /\ \E l \in Reached(p)' : hp'[p] <= hpMax(p, l)
                    /\ \E l \in Reached(p)' : mana'[p] <= manaMax(p, l)
  BY DEF NobodyIsOverfull
<1>1. /\ hp[p] \in Nat /\ mana[p] \in Nat /\ hp'[p] \in Nat /\ mana'[p] \in Nat
      /\ exp[p] \in Nat /\ exp'[p] \in Nat /\ Fills(p)
  <2>1. MaxExp \in Nat /\ Points \subseteq Nat
    BY WidthsAreNatural, CombatAssumption DEF CombatAssumption
  <2>2. hp[p] \in Points /\ mana[p] \in Points /\ exp[p] \in 0 .. MaxExp
    BY DEF CombatInv, TypeOK
  <2>3. hp'[p] \in Points /\ mana'[p] \in Points /\ exp'[p] \in 0 .. MaxExp
    BY DEF CombatInv, TypeOK
  <2>4. Fills(p)
    OBVIOUS
  <2>5. hp[p] \in Nat /\ mana[p] \in Nat /\ hp'[p] \in Nat /\ mana'[p] \in Nat
    BY <2>1, <2>2, <2>3, Zenon
  <2>6. \A e \in 0 .. MaxExp : e \in Nat
    BY <2>1
  <2>7. QED
    BY <2>2, <2>3, <2>4, <2>5, <2>6, Zenon
<1>2. ASSUME NEW l \in Levels
      PROVE  /\ hpMax(p, l) \in Nat /\ manaMax(p, l) \in Nat /\ Limit[l] \in Nat
             /\ l \in Nat /\ (l > 1 => l - 1 \in Levels)
  <2>1. hpMax(p, l) \in Points /\ manaMax(p, l) \in Points
    BY CeilingsFit
  <2>2. Limit[l] \in Nat
    BY CombatAssumption DEF CombatAssumption
  <2>3. l \in Nat /\ (l > 1 => l - 1 \in Levels)
    BY WidthsAreNatural DEF Levels
  <2>4. QED
    BY <2>1, <2>2, <2>3, WidthsAreNatural
<1>3. Reached(p) \subseteq Reached(p)' /\ Reached(p) \subseteq Levels
  BY <1>1, <1>2 DEF Fills, Reached, limitMoveUpToNextLevel
<1>4. level'[p] \in Levels /\ level'[p] \in Reached(p)'
  BY DEF CombatInv, TypeOK, EveryLevelDeserved, Deserved, Reached, limitMoveUpToNextLevel
<1>5. \E l \in Reached(p)' : hp'[p] <= hpMax(p, l)
  <2>1. PICK l \in Reached(p) : hp[p] <= hpMax(p, l)
    BY DEF NobodyIsOverfull
  <2>2. CASE hp'[p] <= hp[p]
    <3>1. hp'[p] <= hpMax(p, l)
      BY <1>1, <1>2, <1>3, <2>1, <2>2
    <3>2. QED
      BY <1>3, <2>1, <3>1
  <2>3. QED
    BY <1>1, <1>4, <2>2 DEF Fills
<1>6. \E l \in Reached(p)' : mana'[p] <= manaMax(p, l)
  <2>1. PICK l \in Reached(p) : mana[p] <= manaMax(p, l)
    BY DEF NobodyIsOverfull
  <2>2. CASE mana'[p] <= mana[p]
    <3>1. mana'[p] <= manaMax(p, l)
      BY <1>1, <1>2, <1>3, <2>1, <2>2
    <3>2. QED
      BY <1>3, <2>1, <3>1
  <2>3. QED
    BY <1>1, <1>4, <2>2 DEF Fills
<1>7. QED
  BY <1>5, <1>6

\* The numbers a step compares.
LEMMA NumbersCompare ==
  ASSUME CombatInv, NEW p \in Players
  PROVE  /\ hp[p] \in Points /\ mana[p] \in Points /\ exp[p] \in Nat /\ level[p] \in Levels
         /\ hp[p] \in Nat /\ mana[p] \in Nat /\ hp[p] <= hp[p] /\ mana[p] <= mana[p]
         /\ exp[p] >= exp[p]
         /\ hpMax(p, level[p]) \in Nat /\ manaMax(p, level[p]) \in Nat
         /\ hpMax(p, level[p]) <= hpMax(p, level[p]) /\ manaMax(p, level[p]) <= manaMax(p, level[p])
<1>1. hp[p] \in Points /\ mana[p] \in Points /\ exp[p] \in Nat /\ level[p] \in Levels
  BY CombatAssumption DEF CombatInv, TypeOK, CombatAssumption
<1>2. hpMax(p, level[p]) \in Nat /\ manaMax(p, level[p]) \in Nat
  BY <1>1, CeilingsFit, WidthsAreNatural
<1>3. hp[p] \in Nat /\ mana[p] \in Nat
  BY <1>1, WidthsAreNatural
<1>4. \A n \in Nat : n <= n /\ n >= n
  OBVIOUS
<1>5. QED
  BY <1>1, <1>2, <1>3, <1>4

LEMMA RestoringFills ==
  ASSUME CombatInv, NEW p \in Players, level' = level, exp' = exp,
         restoreAllHp(p) \/ UNCHANGED hp,
         \/ restoreAllMana(p)
         \/ UNCHANGED mana
         \/ \E amount \in Nat : consumeMana(p, amount)
  PROVE  \A q \in Players : Fills(q)
<1> SUFFICES ASSUME NEW q \in Players PROVE Fills(q)
  OBVIOUS
<1>1. hp \in [Players -> Points] /\ mana \in [Players -> Points]
  BY DEF CombatInv, TypeOK
<1>2. hp'[q] = hp[q] \/ hp'[q] = hpMax(q, level[q])
  BY <1>1 DEF restoreAllHp
<1>3. mana'[q] <= mana[q] \/ mana'[q] = manaMax(q, level[q])
  BY <1>1, NumbersCompare DEF restoreAllMana, consumeMana
<1>4. QED
  BY <1>2, <1>3, NumbersCompare DEF Fills

\* A blow takes hp from one and mana from the other.
LEMMA BlowFills ==
  ASSUME CombatInv, NEW p \in Players, NEW cost \in Nat, NEW damage \in Nat, NEW theirs \in Nat,
         NEW most \in Nat, NEW kills, Learned(p, damage, theirs, most, kills),
         Paid(p, cost) \/ (brokenOff(p) /\ UNCHANGED mana),
         \/ UNCHANGED hp
         \/ \E q \in Players, wound \in Nat : receiveDamage(q, wound, "blow")
  PROVE  \A q \in Players : Fills(q)
<1> SUFFICES ASSUME NEW q \in Players PROVE Fills(q)
  OBVIOUS
<1>1. /\ hp \in [Players -> Points] /\ mana \in [Players -> Points] /\ exp \in [Players -> 0 .. MaxExp]
      /\ MaxExp \in Nat
  BY CombatAssumption DEF CombatInv, TypeOK, CombatAssumption
<1>2. hp'[q] <= hp[q]
  BY <1>1, NumbersCompare DEF receiveDamage
<1>3. mana'[q] <= mana[q]
  BY <1>1, NumbersCompare DEF Paid, consumeMana
<1>4. exp'[q] >= exp[q]
  <2>1. PICK got \in Earned(p, damage, theirs, most, kills) : exp' = [exp EXCEPT ![p] = got.exp]
    BY DEF Learned
  <2> DEFINE lead(m) == Lead(theirs, m)
             blow == exp[p] + calculationPointsExpAttack(damage, theirs, level[p])
             after == Promoted(level[p], blow)
  <2>2. \A m \in Levels : lead(m) \in Nat
    BY WidthsAreNatural, CombatAssumption DEF CombatAssumption, Lead
  <2>3. damage * lead(level[p]) \in Nat
    BY <2>2, NumbersCompare, ProductIsNatural
  <2>4. blow \in Nat /\ blow >= exp[p]
    BY <2>3, NumbersCompare DEF calculationPointsExpAttack
  <2>5. after \in Levels
    BY <2>4, NumbersCompare, PromotedIsDeserved DEF CombatInv, EveryLevelDeserved
  <2>6. most * lead(after) \in Nat /\ KillPart \in Nat \ {0}
    BY <2>2, <2>5, ProductIsNatural, CombatAssumption DEF CombatAssumption
  <2>7. \A k \in calculationPointsExpKill(most, theirs, after) : k \in Nat
    BY <2>6 DEF calculationPointsExpKill
  <2>8. got.exp = blow \/ \E k \in calculationPointsExpKill(most, theirs, after) : got.exp = blow + k
    <3>1. CASE kills
      BY <2>1, <3>1 DEF Earned
    <3>2. CASE ~kills
      BY <2>1, <3>2 DEF Earned
    <3>3. QED
      BY <3>1, <3>2
  <2> HIDE DEF blow, after
  <2>9. got.exp \in Nat /\ got.exp >= exp[p]
    BY <2>4, <2>7, <2>8, NumbersCompare
  <2>10. QED
    BY <1>1, <2>1, <2>9, NumbersCompare
<1>5. QED
  BY <1>2, <1>3, <1>4 DEF Fills

LEMMA LoginFills ==
  ASSUME CombatInv, NEW p \in Players, Login(p)
  PROVE  \A q \in Players : Fills(q)
<1> SUFFICES ASSUME NEW q \in Players PROVE Fills(q)
  OBVIOUS
<1> DEFINE l == IF level[p] = 0 THEN 1 ELSE level[p]
           Loaded(saved, ceiling) == IF saved = 0 THEN ceiling ELSE Lesser(saved, ceiling)
<1>1. /\ hp \in [Players -> Points] /\ mana \in [Players -> Points]
      /\ level \in [Players -> Levels] /\ 1 \in Levels /\ Points \subseteq Nat
  BY WidthsAreNatural DEF CombatInv, TypeOK, Levels
<1>2. /\ level' = [level EXCEPT ![p] = l]
      /\ hp' = [hp EXCEPT ![p] = Loaded(@, hpMax(p, l))]
      /\ mana' = [mana EXCEPT ![p] = Loaded(@, manaMax(p, l))]
      /\ exp' = exp
  BY DEF Login
<1>3. l \in Levels /\ level'[p] = l
  BY <1>1, <1>2
<1>4. hpMax(p, l) \in Nat /\ manaMax(p, l) \in Nat
  BY <1>1, <1>3, CeilingsFit
<1> HIDE DEF l
<1>5. \A m, c \in Nat : Loaded(m, c) <= c
  BY DEF Lesser
<1> HIDE DEF Loaded
<1>6. CASE q = p
  <2>1. hp'[p] <= hpMax(p, l) /\ mana'[p] <= manaMax(p, l)
    BY <1>1, <1>2, <1>4, <1>5
  <2>2. QED
    BY <1>2, <1>3, <1>6, <2>1, NumbersCompare DEF Fills
<1>7. CASE q # p
  <2>1. hp'[q] = hp[q] /\ mana'[q] = mana[q]
    BY <1>1, <1>2, <1>7
  <2>2. QED
    BY <1>2, <2>1, NumbersCompare DEF Fills
<1>8. QED
  BY <1>6, <1>7

LEMMA WoundFills ==
  ASSUME CombatInv, level' = level, exp' = exp, mana' = mana,
         \/ UNCHANGED hp
         \/ \E q \in Players, wound \in Nat, cause \in {"blow", "debug"} :
              receiveDamage(q, wound, cause)
  PROVE  \A p \in Players : Fills(p)
<1> SUFFICES ASSUME NEW p \in Players PROVE Fills(p)
  OBVIOUS
<1>1. hp \in [Players -> Points]
  BY DEF CombatInv, TypeOK
<1>2. hp'[p] <= hp[p]
  BY <1>1, NumbersCompare DEF receiveDamage
<1>3. QED
  BY <1>2, NumbersCompare DEF Fills

LEMMA CreaturesFill ==
  ASSUME CombatInv, updateCreatures
  PROVE  \A p \in Players : Fills(p)
<1>1. UNCHANGED <<level, exp, mana>>
  BY DEF updateCreatures
<1>2. CASE UNCHANGED hp
  BY <1>1, <1>2, WoundFills
<1>3. ASSUME NEW q \in online, NEW base \in 1 .. 2, NEW critical \in BOOLEAN,
             NEW defense \in Defenses,
             LET strength == IF NpcLevel > 1 THEN NpcLevel ELSE 1
                 blow == calculationDamage(strength * base, critical)
             IN  receiveDamage(q, Softened(blow, defense), "blow")
      PROVE  \A p \in Players : Fills(p)
  <2> DEFINE strength == IF NpcLevel > 1 THEN NpcLevel ELSE 1
             damage == Softened(calculationDamage(strength * base, critical), defense)
  <2>1. strength * base \in Nat /\ defense \in Nat /\ 0 \in Nat
    BY NumbersAreNatural, ProductIsNatural
  <2>2. damage \in Nat /\ q \in Players
    BY <2>1, BlowsAreNatural DEF CombatInv, TypeOK
  <2>3. receiveDamage(q, damage, "blow")
    BY <1>3
  <2> HIDE DEF damage
  <2>4. QED
    BY <1>1, <2>2, <2>3, WoundFills
<1>4. QED
  BY <1>2, <1>3 DEF updateCreatures, CreatureStrikes

LEMMA PlayersFill ==
  ASSUME CombatInv, updatePlayers
  PROVE  \A p \in Players : Fills(p)
<1> SUFFICES ASSUME NEW p \in Players PROVE Fills(p)
  OBVIOUS
<1>1. PICK arrived \in SUBSET resurrecting, recover \in BOOLEAN :
        LET healedHp == IF p \in arrived THEN hpMax(p, level[p]) ELSE hp[p]
            healedMana == IF p \in arrived THEN manaMax(p, level[p]) ELSE mana[p]
        IN  /\ hp'[p] = IF recover /\ p \in online THEN updatedHp(p, healedHp) ELSE healedHp
            /\ mana'[p] = IF recover /\ p \in online THEN updatedMana(p, healedMana)
                          ELSE healedMana
  BY DEF updatePlayers
<1>2. level' = level /\ exp' = exp
  BY DEF updatePlayers
<1>3. \A n, m \in Nat : Lesser(n, m) <= m
  BY DEF Lesser
<1>4. ASSUME NEW now \in Nat
      PROVE  /\ updatedHp(p, now) = now \/ updatedHp(p, now) <= hpMax(p, level[p])
             /\ updatedMana(p, now) = now \/ updatedMana(p, now) <= manaMax(p, level[p])
  <2>1. /\ UINT16 \in Nat \ {0} /\ HpFactor[p] \in Nat /\ Meditation[p] \in Nat
        /\ hpMax(p, level[p]) \in Nat /\ manaMax(p, level[p]) \in Nat
    BY WidthsAreNatural, NumbersCompare, CombatAssumption DEF CombatAssumption
  <2>2. /\ (now + HpFactor[p]) % UINT16 \in Nat
        /\ (now + Meditation[p]) % UINT16 \in Nat
    BY <2>1, CutFits
  <2>3. updateHp(p, now) = now \/ updateHp(p, now) <= hpMax(p, level[p])
    BY <1>3, <2>1, <2>2 DEF updateHp
  <2>4. \A gain \in {HpFactor[p], Meditation[p]} :
          updateMana(p, now, gain) = now \/ updateMana(p, now, gain) <= manaMax(p, level[p])
    BY <1>3, <2>1, <2>2 DEF updateMana
  <2>5. QED
    BY <2>3, <2>4, NumbersCompare DEF updatedHp, updatedMana
<1>5. hp'[p] = hp[p] \/ hp'[p] <= hpMax(p, level[p])
  BY <1>1, <1>4, NumbersCompare
<1>6. mana'[p] = mana[p] \/ mana'[p] <= manaMax(p, level[p])
  BY <1>1, <1>4, NumbersCompare
<1>7. QED
  BY <1>2, <1>5, <1>6, NumbersCompare DEF Fills

LEMMA AttacksFill ==
  ASSUME CombatInv, NEW p \in Players,
         AttackCreature(p) \/ \E q \in Players : AttackPlayer(p, q)
  PROVE  \A q \in Players : Fills(q)
<1>1. CASE Dodged(p)
  BY <1>1, WoundFills DEF Dodged, body
<1>2. ASSUME AttackCreature(p), ~Dodged(p)
      PROVE  \A q \in Players : Fills(q)
  <2>1. PICK cost \in WeaponCosts, base \in Damages, critical \in BOOLEAN, bonus \in Bonuses :
          LET damage == (calculationDamage(base, critical) + bonus) % UINT16
          IN  /\ Learned(p, damage, NpcLevel, NpcHp, damage >= npc_hp) /\ UNCHANGED hp
              /\ Paid(p, cost) \/ (brokenOff(p) /\ UNCHANGED mana)
    BY <1>2 DEF AttackCreature
  <2> DEFINE damage == (calculationDamage(base, critical) + bonus) % UINT16
             kills == damage >= npc_hp
  <2>2. damage \in Nat /\ cost \in Nat /\ NpcLevel \in Nat /\ NpcHp \in Nat
    BY NumbersAreNatural, BlowsAreNatural
  <2>3. /\ Learned(p, damage, NpcLevel, NpcHp, kills) /\ UNCHANGED hp
        /\ Paid(p, cost) \/ (brokenOff(p) /\ UNCHANGED mana)
    BY <2>1
  <2> HIDE DEF damage, kills
  <2>4. QED
    BY <2>2, <2>3, BlowFills
<1>3. ASSUME NEW q \in Players, AttackPlayer(p, q), ~Dodged(p)
      PROVE  \A r \in Players : Fills(r)
  <2>1. PICK cost \in WeaponCosts, base \in Damages, critical \in BOOLEAN, bonus \in Bonuses,
             defense \in Defenses :
          LET blow == (calculationDamage(base, critical) + bonus) % UINT16
              damage == Softened(blow, defense)
              kills == q \notin infinite_hp /\ damage >= hp[q]
          IN  /\ receiveDamage(q, damage, "blow")
              /\ Learned(p, damage, level[q], max_hp[q], kills)
              /\ Paid(p, cost) \/ (brokenOff(p) /\ UNCHANGED mana)
    BY <1>3 DEF AttackPlayer
  <2> DEFINE damage == Softened((calculationDamage(base, critical) + bonus) % UINT16, defense)
             kills == q \notin infinite_hp /\ damage >= hp[q]
  <2>2. damage \in Nat /\ cost \in Nat
    BY NumbersAreNatural, BlowsAreNatural
  <2>3. level[q] \in Nat /\ max_hp[q] \in Nat
    BY WidthsAreNatural DEF CombatInv, TypeOK
  <2>4. /\ receiveDamage(q, damage, "blow")
        /\ Learned(p, damage, level[q], max_hp[q], kills)
        /\ Paid(p, cost) \/ (brokenOff(p) /\ UNCHANGED mana)
    BY <2>1
  <2> HIDE DEF damage, kills
  <2>5. PICK theirs \in Nat, most \in Nat : Learned(p, damage, theirs, most, kills)
    BY <2>3, <2>4
  <2>6. QED
    BY <2>2, <2>4, <2>5, BlowFills
<1>4. QED
  BY <1>1, <1>2, <1>3

LEMMA StepFills ==
  ASSUME CombatInv, [Next]_vars
  PROVE  \A p \in Players : Fills(p)
<1>1. ASSUME NEW p \in Players,
             \/ Logout(p) \/ breakMeditation(p) \/ Meditate(p) \/ UNCHANGED vars
      PROVE  \A q \in Players : Fills(q)
  <2>1. UNCHANGED <<level, exp, mana, hp>>
    BY <1>1 DEF Logout, breakMeditation, Meditate, vars, body
  <2>2. QED
    BY <2>1, WoundFills
<1>2. ASSUME NEW p \in Players,
             \/ DrinkPotion(p) \/ Heal(p) \/ Resurrect(p) \/ PlayFlute(p)
             \/ ToggleInfiniteHp(p) \/ ToggleInfiniteMana(p)
      PROVE  \A q \in Players : Fills(q)
  <2>1. /\ level' = level /\ exp' = exp
        /\ restoreAllHp(p) \/ UNCHANGED hp
        /\ restoreAllMana(p) \/ UNCHANGED mana \/ consumeMana(p, FluteCost)
    BY <1>2 DEF DrinkPotion, Heal, heal, Resurrect, PlayFlute, ToggleInfiniteHp,
                ToggleInfiniteMana
  <2>2. FluteCost \in Nat
    BY CombatAssumption DEF CombatAssumption
  <2>3. QED
    BY <2>1, <2>2, RestoringFills
<1>3. ASSUME NEW p \in Players, DebugKill(p)
      PROVE  \A q \in Players : Fills(q)
  <2>1. UINT16 - 1 \in Nat
    BY WidthsAreNatural
  <2>2. receiveDamage(p, UINT16 - 1, "debug") /\ UNCHANGED <<level, exp, mana>>
    BY <1>3 DEF DebugKill
  <2>3. QED
    BY <2>1, <2>2, WoundFills
<1>4. ASSUME NEW p \in Players,
             Login(p) \/ AttackCreature(p) \/ \E q \in Players : AttackPlayer(p, q)
      PROVE  \A q \in Players : Fills(q)
  BY <1>4, LoginFills, AttacksFill
<1>5. CASE updateCreatures \/ updatePlayers
  BY <1>5, CreaturesFill, PlayersFill
<1>6. CASE Players = {}
  BY <1>6
<1>7. QED
  BY <1>1, <1>2, <1>3, <1>4, <1>5, <1>6 DEF Next, ChatCommand

\* Whatever wraps and however fast levels are won, no cure or recovery takes hp or mana
\* beyond the ceiling of a level that was reached.
THEOREM CeilingsCorrect == Spec => []NobodyIsOverfull
<1>1. Init => NobodyIsOverfull
  <2> SUFFICES ASSUME Init, NEW p \in Players
               PROVE  /\ \E l \in Reached(p) : hp[p] <= hpMax(p, l)
                      /\ \E l \in Reached(p) : mana[p] <= manaMax(p, l)
    BY DEF NobodyIsOverfull
  <2>1. 1 \in Levels /\ hp[p] = hpMax(p, 1) /\ mana[p] = manaMax(p, 1)
    BY WidthsAreNatural DEF Init, Levels
  <2>2. hpMax(p, 1) \in Nat /\ manaMax(p, 1) \in Nat
    BY <2>1, CeilingsFit, WidthsAreNatural
  <2>3. hp[p] <= hpMax(p, 1) /\ mana[p] <= manaMax(p, 1)
    BY <2>1, <2>2
  <2>4. 1 \in Reached(p)
    BY <2>1 DEF Reached
  <2>5. QED
    BY <2>3, <2>4
<1>2. NobodyIsOverfull /\ CombatInv /\ CombatInv' /\ [Next]_vars => NobodyIsOverfull'
  BY StepFills, FillingIsNotOverfull
<1>3. QED
  BY <1>1, <1>2, AlwaysSound, PTL DEF Spec
=============================================================================
