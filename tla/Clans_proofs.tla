---------------------------- MODULE Clans_proofs ----------------------------
(***************************************************************************)
(* Proofs about Clans, for any users, clan names and limits.               *)
(*                                                                         *)
(* IndexMatchesMembers and ClansWellFormed are inductive only together:    *)
(* accepting keeps a user in one clan because the index it asks agrees     *)
(* with the members, and the index can be rebuilt after a restart because  *)
(* the file lists every user once.  The size limit needs the members to be *)
(* finite sets, which they are because they grow one user at a time.       *)
(***************************************************************************)
EXTENDS Clans, FiniteSetTheorems, TLAPS

Finite(t) == \A c \in ClanNames : IsFiniteSet(t.members[c])

IInv ==
  /\ TypeOK
  /\ IndexMatchesMembers
  /\ ClansWellFormed
  /\ Finite(Clans) /\ Finite(disk)

-----------------------------------------------------------------------------
LEMMA TypeInit == Init => TypeOK
<1> SUFFICES ASSUME Init PROVE TypeOK
  OBVIOUS
<1>1. Clans \in Table /\ disk \in Table
  BY DEF Init, Clans, Table, EmptyTable
<1>2. mail \in [Users -> Notice \union {NoMail}]
  BY DEF Init
<1>3. QED
  BY <1>1, <1>2, ClanAssumption DEF Init, TypeOK, NoNote

LEMMA TypeStep == TypeOK /\ [Next]_vars => TypeOK'
<1> SUFFICES ASSUME TypeOK, [Next]_vars PROVE TypeOK'
  OBVIOUS
<1> USE DEF TypeOK, Clans, Table, NoNote, tables
<1>1. ASSUME NEW u \in Users, Login(u) \/ Logout(u) PROVE TypeOK'
  <2>1. CASE Login(u)
    BY <2>1 DEF Login
  <2>2. CASE Logout(u)
    BY <2>2 DEF Logout
  <2>3. QED
    BY <1>1, <2>1, <2>2
<1>2. ASSUME NEW u \in Users, NEW c \in ClanNames,
             FoundClan(u, c) \/ RequestJoin(u, c) \/ LeaveClan(u, c)
      PROVE TypeOK'
  <2> USE ClanAssumption DEF Mutates
  <2>1. CASE FoundClan(u, c)
    BY <2>1 DEF FoundClan
  <2>2. CASE RequestJoin(u, c)
    BY <2>2 DEF RequestJoin
  <2>3. CASE LeaveClan(u, c)
    BY <2>3 DEF LeaveClan
  <2>4. QED
    BY <1>2, <2>1, <2>2, <2>3
<1>3. ASSUME NEW f \in Users, NEW u \in Users, NEW c \in ClanNames,
             \/ AcceptMember(f, u, c) \/ RejectMember(f, u, c)
             \/ BanMember(f, u, c) \/ KickMember(f, u, c)
      PROVE TypeOK'
  <2> USE DEF Tell, Kinds
  <2>2. CASE AcceptMember(f, u, c)
    BY <2>2 DEF AcceptMember, Mutates
  <2>3. CASE RejectMember(f, u, c)
    BY <2>3 DEF RejectMember, Mutates
  <2>4. CASE BanMember(f, u, c)
    BY <2>4, ClanAssumption DEF BanMember, Mutates
  <2>5. CASE KickMember(f, u, c)
    BY <2>5, ClanAssumption DEF KickMember, Mutates
  <2>6. QED
    BY <1>3, <2>2, <2>3, <2>4, <2>5
<1>4. CASE Truncate
  BY <1>4, ClanAssumption DEF Truncate, EmptyTable
<1>5. CASE WriteAndTell
  <2>1. note.to \in Users \ online => [kind |-> note.kind, clan |-> note.clan] \in Notice
    BY ClanAssumption DEF Notice
  <2>2. mail' \in [Users -> Notice \union {NoMail}] /\ overdue' \in SUBSET Users
    BY <1>5, <2>1 DEF WriteAndTell, Deliver
  <2>3. QED
    BY <1>5, <2>2, ClanAssumption DEF WriteAndTell
<1>6. CASE SaveFails
  BY <1>6, ClanAssumption DEF SaveFails
<1>7. CASE Stop
  <2>1. mail' \in [Users -> Notice \union {NoMail}]
    BY <1>7 DEF Stop
  <2>2. Clans' \in Table
    BY <1>7 DEF Stop, EmptyTable
  <2>3. QED
    BY <1>7, <2>1, <2>2, ClanAssumption DEF Stop
<1>8. CASE Load
  BY <1>8, ClanAssumption DEF Load
<1>9. CASE UNCHANGED vars
  BY <1>9 DEF vars
<1>10. QED
  BY <1>1, <1>2, <1>3, <1>4, <1>5, <1>6, <1>7, <1>8, <1>9 DEF Next

\* The tables hold their types: every command, save, crash and restart of the
\* clan subsystem keeps them.
THEOREM TypeCorrect == Spec => []TypeOK
BY TypeInit, TypeStep, PTL DEF Spec

-----------------------------------------------------------------------------
\* A server that has founded no clan is well formed.
LEMMA EmptyIsWellFormed == WellFormed(EmptyTable) /\ Finite(EmptyTable)
  BY FS_EmptySet DEF WellFormed, OneClanEach, ClanOK, EmptyTable, Finite

\* Adding one user to a finite set or removing one, with the size that results.
LEMMA AddOrRemoveOne ==
  ASSUME NEW S, IsFiniteSet(S), NEW u
  PROVE  /\ IsFiniteSet(S \union {u}) /\ IsFiniteSet(S \ {u})
         /\ Cardinality(S) \in Nat
         /\ Cardinality(S \union {u}) <= Cardinality(S) + 1
         /\ Cardinality(S \ {u}) <= Cardinality(S)
<1>1. Cardinality(S) \in Nat
  BY FS_CardinalityType
<1>2. IsFiniteSet(S \union {u}) /\ Cardinality(S \union {u}) <= Cardinality(S) + 1
  BY <1>1, FS_AddElement
<1>3. IsFiniteSet(S \ {u}) /\ Cardinality(S \ {u}) <= Cardinality(S)
  BY <1>1, FS_RemoveElement
<1>4. QED
  BY <1>1, <1>2, <1>3

\* The four operations that take a user out of a clan's members or applicants
\* (reject, kick, ban, leave) as one: whatever is removed, what is left is well
\* formed and the index follows.
LEMMA RemovalKeepsInv ==
  ASSUME IInv, NEW c \in ClanNames, NEW u \in Users, pc # "down",
         founder[c] # u, founder[c] # NoUser,
         founder' = founder,
         \/ members' = members
         \/ members' = [members EXCEPT ![c] = @ \ {u}],
         \/ pending' = pending
         \/ pending' = [pending EXCEPT ![c] = @ \ {u}],
         \/ banned' = banned
         \/ /\ banned' = [banned EXCEPT ![c] = @ \union {u}]
            /\ u \notin members'[c] /\ u \notin pending'[c],
         player_clan' = IF u \in members[c] /\ u \notin members'[c]
                          THEN [player_clan EXCEPT ![u] = NoClan]
                          ELSE player_clan
  PROVE  /\ WellFormed(Clans)' /\ Finite(Clans)'
         /\ \A v \in Users, d \in ClanNames : player_clan'[v] = d <=> v \in members'[d]
<1>1. /\ founder \in [ClanNames -> Users \union {NoUser}]
      /\ members \in [ClanNames -> SUBSET Users]
      /\ pending \in [ClanNames -> SUBSET Users]
      /\ banned \in [ClanNames -> SUBSET Users]
      /\ player_clan \in [Users -> ClanNames \union {NoClan}]
  BY DEF IInv, TypeOK, Clans, Table
<1>2. ASSUME NEW d \in ClanNames
      PROVE  /\ members'[d] = members[d] \/ (d = c /\ members'[d] = members[d] \ {u})
             /\ pending'[d] = pending[d] \/ (d = c /\ pending'[d] = pending[d] \ {u})
             /\ \/ banned'[d] = banned[d]
                \/ /\ d = c /\ banned'[d] = banned[d] \union {u}
                   /\ u \notin members'[d] /\ u \notin pending'[d]
  BY <1>1
<1>3. \A d \in ClanNames : ClanOK(Clans, d) /\ IsFiniteSet(members[d])
  BY DEF IInv, ClansWellFormed, WellFormed, Finite, Clans
<1>4. ASSUME NEW d \in ClanNames
      PROVE  /\ IsFiniteSet(members'[d])
             /\ Cardinality(members[d]) \in Nat /\ Cardinality(members'[d]) \in Nat
             /\ Cardinality(members'[d]) <= Cardinality(members[d])
  <2>1. IsFiniteSet(members[d]) /\ Cardinality(members[d]) \in Nat
    BY <1>3, FS_CardinalityType
  <2>2. CASE members'[d] = members[d]
    BY <2>1, <2>2
  <2>3. CASE members'[d] = members[d] \ {u}
    <3>1. IsFiniteSet(members[d] \ {u})
          /\ Cardinality(members[d] \ {u}) <= Cardinality(members[d])
      BY <2>1, AddOrRemoveOne
    <3>2. Cardinality(members[d] \ {u}) \in Nat
      BY <3>1, FS_CardinalityType
    <3>3. QED
      BY <2>1, <2>3, <3>1, <3>2
  <2>4. QED
    BY <1>2, <2>2, <2>3
<1>5. ASSUME NEW d \in ClanNames PROVE ClanOK(Clans, d)'
  <2>1. CASE /\ founder[d] = NoUser
             /\ members[d] = {} /\ pending[d] = {} /\ banned[d] = {}
    <3>1. d # c
      BY <2>1
    <3>2. QED
      BY <1>2, <2>1, <3>1 DEF ClanOK, Clans
  <2>2. CASE /\ founder[d] \in members[d]
             /\ Cardinality(members[d]) <= MaxMembers
             /\ members[d] \intersect pending[d] = {}
             /\ banned[d] \intersect (members[d] \union pending[d]) = {}
    <3>1. founder'[d] \in members'[d]
      BY <1>2, <2>2
    <3>2. Cardinality(members'[d]) <= MaxMembers
      BY <1>4, <2>2, ClanAssumption
    <3>3. members'[d] \intersect pending'[d] = {}
      BY <1>2, <2>2
    <3>4. banned'[d] \intersect (members'[d] \union pending'[d]) = {}
      BY <1>2, <2>2
    <3>5. QED
      BY <3>1, <3>2, <3>3, <3>4 DEF ClanOK, Clans
  <2>3. QED
    BY <1>3, <2>1, <2>2 DEF ClanOK, Clans
<1>6. OneClanEach(Clans)'
  <2>1. OneClanEach(Clans)
    BY DEF IInv, ClansWellFormed, WellFormed
  <2>2. QED
    BY <1>2, <2>1 DEF OneClanEach, Clans
<1>7. ASSUME NEW v \in Users, NEW d \in ClanNames
      PROVE player_clan'[v] = d <=> v \in members'[d]
  <2>1. \A e \in ClanNames, w \in Users : player_clan[w] = e <=> w \in members[e]
    BY DEF IInv, IndexMatchesMembers
  <2>2. CASE u \in members[c] /\ u \notin members'[c]
    BY <1>1, <1>2, <2>1, <2>2, ClanAssumption
  <2>3. CASE ~(u \in members[c] /\ u \notin members'[c])
    BY <1>1, <1>2, <2>1, <2>3
  <2>4. QED
    BY <2>2, <2>3
<1>8. QED
  BY <1>4, <1>5, <1>6, <1>7 DEF WellFormed, Finite, Clans

\* What the tables promise after a step that ends with the process up.
LEMMA TablesGiveInv ==
  ASSUME WellFormed(Clans)', Finite(Clans)',
         \A v \in Users, d \in ClanNames : player_clan'[v] = d <=> v \in members'[d],
         WellFormed(disk)', Finite(disk)', TypeOK'
  PROVE  IInv'
BY DEF IInv, IndexMatchesMembers, ClansWellFormed

LEMMA FoundKeepsInv ==
  ASSUME IInv, TypeOK', NEW u \in Users, NEW c \in ClanNames, FoundClan(u, c)
  PROVE  IInv'
<1> USE ClanAssumption
<1>1. /\ founder \in [ClanNames -> Users \union {NoUser}]
      /\ members \in [ClanNames -> SUBSET Users]
      /\ pending \in [ClanNames -> SUBSET Users]
      /\ banned \in [ClanNames -> SUBSET Users]
      /\ player_clan \in [Users -> ClanNames \union {NoClan}]
  BY DEF IInv, TypeOK, Clans, Table
<1>2. /\ pc = "idle" /\ player_clan[u] = NoClan
      /\ founder' = [founder EXCEPT ![c] = u]
      /\ members' = [members EXCEPT ![c] = {u}]
      /\ pending' = [pending EXCEPT ![c] = {}]
      /\ banned' = [banned EXCEPT ![c] = {}]
      /\ player_clan' = [player_clan EXCEPT ![u] = c]
      /\ disk' = disk
  BY DEF FoundClan, Mutates
<1>3. \A e \in ClanNames, w \in Users : player_clan[w] = e <=> w \in members[e]
  BY <1>2 DEF IInv, IndexMatchesMembers
<1>4. \A e \in ClanNames : u \notin members[e]
  BY <1>2, <1>3
<1>5. \A e \in ClanNames : ClanOK(Clans, e) /\ IsFiniteSet(members[e])
  BY DEF IInv, ClansWellFormed, WellFormed, Finite, Clans
<1>6. members[c] = {}
  BY <1>1, <1>5, founder[c] = NoUser DEF ClanOK, Clans, FoundClan
<1>7. IsFiniteSet({u}) /\ Cardinality({u}) = 1
  BY FS_Singleton
<1>8. ASSUME NEW d \in ClanNames PROVE ClanOK(Clans, d)' /\ IsFiniteSet(members'[d])
  <2>1. CASE d = c
    BY <1>1, <1>2, <1>7, <2>1 DEF ClanOK, Clans
  <2>2. CASE d # c
    BY <1>1, <1>2, <1>5, <2>2 DEF ClanOK, Clans
  <2>3. QED
    BY <2>1, <2>2
<1>9. OneClanEach(Clans)'
  <2>1. OneClanEach(Clans)
    BY DEF IInv, ClansWellFormed, WellFormed
  <2>2. QED
    BY <1>1, <1>2, <1>4, <2>1 DEF OneClanEach, Clans
<1>10. \A v \in Users, d \in ClanNames : player_clan'[v] = d <=> v \in members'[d]
  BY <1>1, <1>2, <1>3, <1>6
<1>11. WellFormed(disk)' /\ Finite(disk)'
  BY <1>2 DEF IInv, ClansWellFormed, WellFormed, OneClanEach, ClanOK, Finite
<1>12. WellFormed(Clans)' /\ Finite(Clans)'
  BY <1>8, <1>9 DEF WellFormed, Finite, Clans
<1>13. QED
  BY <1>10, <1>11, <1>12, TablesGiveInv

LEMMA AcceptKeepsInv ==
  ASSUME IInv, TypeOK', NEW f \in Users, NEW u \in Users, NEW c \in ClanNames,
         AcceptMember(f, u, c)
  PROVE  IInv'
<1> USE ClanAssumption
<1>1. /\ founder \in [ClanNames -> Users \union {NoUser}]
      /\ members \in [ClanNames -> SUBSET Users]
      /\ pending \in [ClanNames -> SUBSET Users]
      /\ banned \in [ClanNames -> SUBSET Users]
      /\ player_clan \in [Users -> ClanNames \union {NoClan}]
  BY DEF IInv, TypeOK, Clans, Table
<1>2. /\ pc = "idle" /\ founder[c] = f /\ u \in pending[c] /\ player_clan[u] = NoClan
      /\ Cardinality(members[c]) < MaxMembers
      /\ founder' = founder /\ banned' = banned
      /\ members' = [members EXCEPT ![c] = @ \union {u}]
      /\ pending' = [pending EXCEPT ![c] = @ \ {u}]
      /\ player_clan' = [player_clan EXCEPT ![u] = c]
      /\ disk' = disk
  BY DEF AcceptMember, Leads, Mutates
<1>3. \A e \in ClanNames, w \in Users : player_clan[w] = e <=> w \in members[e]
  BY <1>2 DEF IInv, IndexMatchesMembers
<1>4. \A e \in ClanNames : u \notin members[e]
  BY <1>2, <1>3
<1>5. \A e \in ClanNames : ClanOK(Clans, e) /\ IsFiniteSet(members[e])
  BY DEF IInv, ClansWellFormed, WellFormed, Finite, Clans
<1>6. /\ IsFiniteSet(members[c] \union {u})
      /\ Cardinality(members[c]) \in Nat
      /\ Cardinality(members[c] \union {u}) <= Cardinality(members[c]) + 1
  BY <1>5, AddOrRemoveOne
<1>7. Cardinality(members[c] \union {u}) \in Nat
  BY <1>6, FS_CardinalityType
<1>8. ASSUME NEW d \in ClanNames PROVE ClanOK(Clans, d)' /\ IsFiniteSet(members'[d])
  <2>1. CASE d = c
    <3>1. Cardinality(members'[c]) <= MaxMembers
      BY <1>1, <1>2, <1>6, <1>7
    <3>2. QED
      BY <1>1, <1>2, <1>5, <1>6, <2>1, <3>1 DEF ClanOK, Clans
  <2>2. CASE d # c
    BY <1>1, <1>2, <1>5, <2>2 DEF ClanOK, Clans
  <2>3. QED
    BY <2>1, <2>2
<1>9. OneClanEach(Clans)'
  <2>1. OneClanEach(Clans)
    BY DEF IInv, ClansWellFormed, WellFormed
  <2>2. QED
    BY <1>1, <1>2, <1>4, <2>1 DEF OneClanEach, Clans
<1>10. \A v \in Users, d \in ClanNames : player_clan'[v] = d <=> v \in members'[d]
  BY <1>1, <1>2, <1>3
<1>11. WellFormed(disk)' /\ Finite(disk)'
  BY <1>2 DEF IInv, ClansWellFormed, WellFormed, OneClanEach, ClanOK, Finite
<1>12. WellFormed(Clans)' /\ Finite(Clans)'
  BY <1>8, <1>9 DEF WellFormed, Finite, Clans
<1>13. QED
  BY <1>10, <1>11, <1>12, TablesGiveInv

LEMMA RequestKeepsInv ==
  ASSUME IInv, TypeOK', NEW u \in Users, NEW c \in ClanNames, RequestJoin(u, c)
  PROVE  IInv'
<1> USE ClanAssumption
<1>1. /\ pending \in [ClanNames -> SUBSET Users]
      /\ player_clan \in [Users -> ClanNames \union {NoClan}]
  BY DEF IInv, TypeOK, Clans, Table
<1>2. /\ pc = "idle" /\ player_clan[u] = NoClan
      /\ founder[c] # NoUser /\ u \notin banned[c]
      /\ founder' = founder /\ members' = members /\ banned' = banned
      /\ pending' = [pending EXCEPT ![c] = @ \union {u}]
      /\ player_clan' = player_clan
      /\ disk' = disk
  BY DEF RequestJoin, Mutates
<1>3. \A e \in ClanNames, w \in Users : player_clan[w] = e <=> w \in members[e]
  BY <1>2 DEF IInv, IndexMatchesMembers
<1>4. u \notin members[c]
  BY <1>2, <1>3
<1>5. \A e \in ClanNames : ClanOK(Clans, e) /\ IsFiniteSet(members[e])
  BY DEF IInv, ClansWellFormed, WellFormed, Finite, Clans
<1>6. ASSUME NEW d \in ClanNames PROVE ClanOK(Clans, d)'
  <2>1. CASE d = c
    BY <1>1, <1>2, <1>4, <1>5, <2>1 DEF ClanOK, Clans
  <2>2. CASE d # c
    BY <1>1, <1>2, <1>5, <2>2 DEF ClanOK, Clans
  <2>3. QED
    BY <2>1, <2>2
<1>7. OneClanEach(Clans)'
  BY <1>2 DEF IInv, ClansWellFormed, WellFormed, OneClanEach, Clans
<1>8. WellFormed(disk)' /\ Finite(disk)'
  BY <1>2 DEF IInv, ClansWellFormed, WellFormed, OneClanEach, ClanOK, Finite
<1>9. WellFormed(Clans)' /\ Finite(Clans)'
  BY <1>2, <1>5, <1>6, <1>7 DEF WellFormed, Finite, Clans
<1>10. QED
  BY <1>2, <1>3, <1>8, <1>9, TablesGiveInv

\* Reject, kick, ban and leave.
LEMMA DepartureKeepsInv ==
  ASSUME IInv, TypeOK', NEW f \in Users, NEW u \in Users, NEW c \in ClanNames,
         \/ RejectMember(f, u, c) \/ BanMember(f, u, c)
         \/ KickMember(f, u, c) \/ LeaveClan(u, c)
  PROVE  IInv'
<1> USE ClanAssumption
<1>1. /\ members \in [ClanNames -> SUBSET Users]
      /\ pending \in [ClanNames -> SUBSET Users]
      /\ banned \in [ClanNames -> SUBSET Users]
      /\ player_clan \in [Users -> ClanNames \union {NoClan}]
  BY DEF IInv, TypeOK, Clans, Table
<1>2. pc = "idle" /\ disk' = disk
  BY DEF RejectMember, BanMember, KickMember, LeaveClan, Mutates
<1>3. \A e \in ClanNames, w \in Users : player_clan[w] = e <=> w \in members[e]
  BY <1>2 DEF IInv, IndexMatchesMembers
<1>4. ClanOK(Clans, c)
  BY DEF IInv, ClansWellFormed, WellFormed
<1>5. /\ WellFormed(Clans)' /\ Finite(Clans)'
      /\ \A v \in Users, d \in ClanNames : player_clan'[v] = d <=> v \in members'[d]
  <2>1. CASE RejectMember(f, u, c)
    <3>1. founder[c] # u /\ founder[c] # NoUser
      BY <1>3, <1>4, <2>1 DEF RejectMember, Leads, ClanOK, Clans
    <3>2. /\ founder' = founder /\ members' = members /\ banned' = banned
          /\ pending' = [pending EXCEPT ![c] = @ \ {u}] /\ player_clan' = player_clan
      BY <2>1 DEF RejectMember
    <3>3. QED
      BY <1>2, <3>1, <3>2, RemovalKeepsInv
  <2>2. CASE BanMember(f, u, c)
    <3>1. founder[c] # u /\ founder[c] # NoUser /\ founder' = founder
      BY <2>2 DEF BanMember, Leads
    <3>2. /\ members' = [members EXCEPT ![c] = @ \ {u}]
          /\ pending' = [pending EXCEPT ![c] = @ \ {u}]
          /\ banned' = [banned EXCEPT ![c] = @ \union {u}]
          /\ player_clan' = [player_clan EXCEPT ![u] = IF u \in members[c] THEN NoClan ELSE @]
      BY <2>2 DEF BanMember
    <3>3. u \notin members'[c] /\ u \notin pending'[c]
      BY <1>1, <3>2
    <3>4. player_clan' = IF u \in members[c] /\ u \notin members'[c]
                           THEN [player_clan EXCEPT ![u] = NoClan] ELSE player_clan
      BY <1>1, <3>2, <3>3
    <3>5. QED
      BY <1>2, <3>1, <3>2, <3>3, <3>4, RemovalKeepsInv
  <2>3. CASE KickMember(f, u, c)
    <3>1. founder[c] # u /\ founder[c] # NoUser /\ founder' = founder /\ u \in members[c]
      BY <2>3 DEF KickMember, Leads
    <3>2. /\ members' = [members EXCEPT ![c] = @ \ {u}]
          /\ pending' = pending /\ banned' = banned
          /\ player_clan' = [player_clan EXCEPT ![u] = NoClan]
      BY <2>3 DEF KickMember
    <3>3. u \notin members'[c]
      BY <1>1, <3>2
    <3>4. QED
      BY <1>2, <3>1, <3>2, <3>3, RemovalKeepsInv
  <2>4. CASE LeaveClan(u, c)
    <3>1. u \in members[c] /\ founder[c] # u /\ founder' = founder
      BY <1>3, <2>4 DEF LeaveClan
    <3>2. founder[c] # NoUser
      BY <1>1, <1>4, <3>1 DEF ClanOK, Clans
    <3>3. /\ members' = [members EXCEPT ![c] = @ \ {u}]
          /\ pending' = pending /\ banned' = banned
          /\ player_clan' = [player_clan EXCEPT ![u] = NoClan]
      BY <2>4 DEF LeaveClan
    <3>4. u \notin members'[c]
      BY <1>1, <3>3
    <3>5. QED
      BY <1>2, <3>1, <3>2, <3>3, <3>4, RemovalKeepsInv
  <2>5. QED
    BY <2>1, <2>2, <2>3, <2>4
<1>6. WellFormed(disk)' /\ Finite(disk)'
  BY <1>2 DEF IInv, ClansWellFormed, WellFormed, OneClanEach, ClanOK, Finite
<1>7. QED
  BY <1>5, <1>6, TablesGiveInv

\* The step that saves, and the two that lose and rebuild the memory.
LEMMA StorageKeepsInv ==
  ASSUME IInv, TypeOK', Truncate \/ WriteAndTell \/ SaveFails \/ Stop \/ Load
  PROVE  IInv'
<1>1. CASE Truncate
  BY <1>1, EmptyIsWellFormed
  DEF Truncate, IInv, IndexMatchesMembers, ClansWellFormed, WellFormed, OneClanEach,
      ClanOK, Finite, Clans, tables
<1>2. CASE WriteAndTell
  BY <1>2
  DEF WriteAndTell, IInv, IndexMatchesMembers, ClansWellFormed, WellFormed, OneClanEach,
      ClanOK, Finite, Clans, tables
<1>3. CASE SaveFails
  BY <1>3
  DEF SaveFails, IInv, IndexMatchesMembers, ClansWellFormed, WellFormed, OneClanEach,
      ClanOK, Finite, Clans, tables
<1>4. CASE Stop
  <2>1. Clans' = EmptyTable /\ disk' = disk /\ pc' = "down"
    BY <1>4 DEF Stop, Clans, EmptyTable
  <2>2. WellFormed(Clans)' /\ Finite(Clans)'
    BY <2>1, EmptyIsWellFormed DEF WellFormed, OneClanEach, ClanOK, Finite
  <2>3. WellFormed(disk)' /\ Finite(disk)'
    BY <2>1 DEF IInv, ClansWellFormed, WellFormed, OneClanEach, ClanOK, Finite
  <2>4. QED
    BY <2>1, <2>2, <2>3 DEF IInv, IndexMatchesMembers, ClansWellFormed
<1>5. CASE Load
  <2>1. /\ founder' = disk.founder /\ members' = disk.members
        /\ pending' = disk.pending /\ banned' = disk.banned /\ disk' = disk
        /\ IndexOf(disk, player_clan')
    BY <1>5 DEF Load
  <2>2. WellFormed(disk) /\ Finite(disk)
    BY DEF IInv, ClansWellFormed
  <2>3. WellFormed(Clans)' /\ Finite(Clans)' /\ WellFormed(disk)' /\ Finite(disk)'
    BY <2>1, <2>2 DEF WellFormed, OneClanEach, ClanOK, Finite, Clans
  <2>4. \A v \in Users, d \in ClanNames : player_clan'[v] = d <=> v \in members'[d]
    BY <2>1, <2>2, ClanAssumption DEF WellFormed, OneClanEach, IndexOf
  <2>5. QED
    BY <2>3, <2>4, TablesGiveInv
<1>6. QED
  BY <1>1, <1>2, <1>3, <1>4, <1>5

LEMMA InvInit == Init => IInv
<1> SUFFICES ASSUME Init PROVE IInv
  OBVIOUS
<1>1. Clans = EmptyTable /\ disk = EmptyTable
  BY DEF Init, Clans, EmptyTable
<1>2. TypeOK
  BY TypeInit
<1>3. IndexMatchesMembers
  BY ClanAssumption DEF Init, IndexMatchesMembers, EmptyTable
<1>4. QED
  BY <1>1, <1>2, <1>3, EmptyIsWellFormed DEF IInv, ClansWellFormed

LEMMA InvStep == IInv /\ [Next]_vars => IInv'
<1> SUFFICES ASSUME IInv, [Next]_vars PROVE IInv'
  OBVIOUS
<1>0. TypeOK'
  BY TypeStep DEF IInv
<1>1. CASE UNCHANGED <<tables, disk, pc>>
  BY <1>0, <1>1
  DEF IInv, IndexMatchesMembers, ClansWellFormed, WellFormed, OneClanEach, ClanOK,
      Finite, Clans, tables
<1>2. ASSUME NEW u \in Users, Login(u) \/ Logout(u) PROVE IInv'
  BY <1>1, <1>2 DEF Login, Logout
<1>3. ASSUME NEW u \in Users, NEW c \in ClanNames,
             FoundClan(u, c) \/ RequestJoin(u, c) \/ LeaveClan(u, c)
      PROVE IInv'
  BY <1>0, <1>3, FoundKeepsInv, RequestKeepsInv, DepartureKeepsInv
<1>4. ASSUME NEW f \in Users, NEW u \in Users, NEW c \in ClanNames,
             \/ AcceptMember(f, u, c) \/ RejectMember(f, u, c)
             \/ BanMember(f, u, c) \/ KickMember(f, u, c)
      PROVE IInv'
  BY <1>0, <1>4, AcceptKeepsInv, DepartureKeepsInv
<1>5. CASE Truncate \/ WriteAndTell \/ SaveFails \/ Stop \/ Load
  BY <1>0, <1>5, StorageKeepsInv
<1>6. CASE UNCHANGED vars
  BY <1>1, <1>6 DEF vars
<1>7. QED
  BY <1>2, <1>3, <1>4, <1>5, <1>6 DEF Next

\* No run of the clan subsystem, with its crashes and its failed saves, puts a
\* user in two clans, lets a banned one in, overfills a clan or leaves one
\* without its founder, in memory or in the file.
THEOREM ClansCorrect == Spec => []ClansConsistent
<1>1. Init => IInv
  BY InvInit
<1>2. IInv /\ [Next]_vars => IInv'
  BY InvStep
<1>3. IInv => ClansConsistent
  BY DEF IInv, ClansConsistent
<1>4. QED
  BY <1>1, <1>2, <1>3, PTL DEF Spec

\* Between two commands the file holds every operation that was answered, and
\* messages wait only for users who are out of the game, or whose login a closed
\* queue cut off.
THEOREM DeliveryCorrect == Spec => [](AnsweredIsSaved /\ MailIsForTheAbsent)
<1> DEFINE D == TypeOK /\ AnsweredIsSaved /\ MailIsForTheAbsent
<1>1. Init => D
  <2> SUFFICES ASSUME Init PROVE D
    OBVIOUS
  <2>1. TypeOK
    BY TypeInit
  <2>2. QED
    BY <2>1 DEF Init, AnsweredIsSaved, MailIsForTheAbsent, Clans, EmptyTable
<1>2. D /\ [Next]_vars => D'
  <2> SUFFICES ASSUME D, [Next]_vars PROVE AnsweredIsSaved' /\ MailIsForTheAbsent'
    BY TypeStep
  <2> USE DEF AnsweredIsSaved, MailIsForTheAbsent
  <2>1. /\ mail \in [Users -> Notice \union {NoMail}] /\ overdue \in SUBSET Users
        /\ online \in SUBSET Users /\ disk \in Table
    BY DEF TypeOK
  <2>2. ASSUME NEW u \in Users, Login(u) \/ Logout(u) PROVE AnsweredIsSaved' /\ MailIsForTheAbsent'
    BY <2>1, <2>2 DEF Login, Logout, tables, Clans
  <2>3. ASSUME NEW n, Mutates(n) PROVE AnsweredIsSaved' /\ MailIsForTheAbsent'
    BY <2>3 DEF Mutates
  <2>4. CASE Truncate \/ SaveFails
    BY <2>4 DEF Truncate, SaveFails
  <2>5. CASE WriteAndTell
    BY <2>1, <2>5 DEF WriteAndTell, Deliver, Clans, tables
  <2>6. CASE Stop
    BY <2>6 DEF Stop
  <2>7. CASE Load
    BY <2>1, <2>7 DEF Load, Clans, Table
  <2>8. CASE UNCHANGED vars
    BY <2>8 DEF vars, tables, Clans
  <2>9. QED
    BY <2>2, <2>3, <2>4, <2>5, <2>6, <2>7, <2>8
    DEF Next, FoundClan, RequestJoin, LeaveClan, AcceptMember, RejectMember,
        BanMember, KickMember
<1>3. QED
  BY <1>1, <1>2, PTL DEF Spec

-----------------------------------------------------------------------------
(***************************************************************************)
(* The truth of stored messages.  Only an operation on a user can make one *)
(* false, and it has a newer message to store; what the user does alone    *)
(* has to wait for the login, which takes the messages.  Either can be cut *)
(* off by a closed queue, and the user is overdue from then on.            *)
(***************************************************************************)

\* What a message of this kind says of u.
Truth(kind, clan, u) ==
  /\ kind = "accepted" => player_clan[u] = clan
  /\ kind = "rejected" => u \notin pending[clan]
  /\ kind = "banned" => u \in banned[clan] /\ player_clan[u] # clan
  /\ kind = "kicked" => player_clan[u] # clan

MailInv ==
  /\ IInv /\ MailIsForTheAbsent
  /\ pc = "down" => \A u \in Users : mail[u] = NoMail
  /\ failures = 0 /\ note.to \in Users => Truth(note.kind, note.clan, note.to)
  /\ failures = 0 => \A u \in Users \ overdue : mail[u] # NoMail /\ u # note.to =>
                       Truth(mail[u].kind, mail[u].clan, u)

LEMMA NewestTyped ==
  ASSUME TypeOK, NEW u \in Users, mail[u] # NoMail
  PROVE  mail[u].kind \in Kinds /\ mail[u].clan \in ClanNames
<1>1. mail[u] \in Notice
  BY DEF TypeOK
<1> QED BY <1>1 DEF Notice

\* A command on somebody else leaves what was said of an absent user true.
LEMMA OthersStayTrue ==
  ASSUME IInv, TypeOK', pc = "idle", NEW u \in Users, NEW v \in Users, u # v,
         NEW f \in Users, NEW c \in ClanNames, NEW kind, NEW d \in ClanNames, Truth(kind, d, u),
         \/ FoundClan(v, c) \/ RequestJoin(v, c) \/ LeaveClan(v, c)
         \/ AcceptMember(f, v, c) \/ RejectMember(f, v, c) \/ BanMember(f, v, c) \/ KickMember(f, v, c)
  PROVE  Truth(kind, d, u)'
<1>1. /\ founder \in [ClanNames -> Users \union {NoUser}]
      /\ pending \in [ClanNames -> SUBSET Users] /\ banned \in [ClanNames -> SUBSET Users]
      /\ player_clan \in [Users -> ClanNames \union {NoClan}]
  BY DEF IInv, TypeOK, Clans, Table
<1>2. player_clan'[u] = player_clan[u]
  BY <1>1 DEF FoundClan, RequestJoin, LeaveClan, AcceptMember, RejectMember, BanMember, KickMember
<1>3. u \notin pending[d] => u \notin pending'[d]
  BY <1>1 DEF FoundClan, RequestJoin, LeaveClan, AcceptMember, RejectMember, BanMember, KickMember
<1>4. u \in banned[d] => u \in banned'[d]
  <2>1. CASE FoundClan(v, c)
    <3>1. founder[c] = NoUser /\ banned' = [banned EXCEPT ![c] = {}]
      BY <2>1 DEF FoundClan
    <3>2. ClanOK(Clans, c)
      BY DEF IInv, ClansWellFormed, WellFormed
    <3>3. founder[c] \in members[c] => founder[c] \in Users
      BY DEF IInv, TypeOK, Clans, Table
    <3>4. banned[c] = {}
      BY <3>1, <3>2, <3>3, ClanAssumption DEF ClanOK, Clans
    <3> QED BY <1>1, <3>1, <3>4
  <2>2. CASE ~FoundClan(v, c)
    BY <1>1, <2>2 DEF RequestJoin, LeaveClan, AcceptMember, RejectMember, BanMember, KickMember
  <2> QED BY <2>1, <2>2
<1> QED BY <1>2, <1>3, <1>4 DEF Truth

\* What an operation tells its target is so.
LEMMA TargetIsTold ==
  ASSUME IInv, NEW u \in Users, NEW f \in Users, NEW c \in ClanNames,
         AcceptMember(f, u, c) \/ RejectMember(f, u, c) \/ BanMember(f, u, c) \/ KickMember(f, u, c)
  PROVE  /\ note'.to = u /\ note'.clan = c
         /\ Truth(note.kind, c, u)'
<1>1. /\ pending \in [ClanNames -> SUBSET Users] /\ banned \in [ClanNames -> SUBSET Users]
      /\ player_clan \in [Users -> ClanNames \union {NoClan}] /\ NoClan # c
  BY ClanAssumption DEF IInv, TypeOK, Clans, Table
<1>2. CASE AcceptMember(f, u, c)
  BY <1>1, <1>2 DEF AcceptMember, Mutates, Tell, Truth
<1>3. CASE RejectMember(f, u, c)
  BY <1>1, <1>3 DEF RejectMember, Mutates, Tell, Truth
<1>4. CASE BanMember(f, u, c)
  <2>1. /\ note' = Tell(u, "banned", c) /\ u \in banned'[c]
        /\ player_clan'[u] = IF u \in members[c] THEN NoClan ELSE player_clan[u]
    BY <1>1, <1>4 DEF BanMember, Mutates
  <2>2. player_clan'[u] # c
    BY <1>1, <1>4, <2>1 DEF IInv, IndexMatchesMembers, BanMember, Mutates
  <2> QED BY <2>1, <2>2 DEF Tell, Truth
<1>5. CASE KickMember(f, u, c)
  BY <1>1, <1>5 DEF KickMember, Mutates, Tell, Truth
<1> QED BY <1>2, <1>3, <1>4, <1>5

\* A command on v: the messages of the others stay true, v's own is replaced.
LEMMA CommandKeepsMail ==
  ASSUME MailInv, IInv', NEW f \in Users, NEW v \in Users, NEW c \in ClanNames,
         \/ FoundClan(v, c) \/ RequestJoin(v, c) \/ LeaveClan(v, c)
         \/ AcceptMember(f, v, c) \/ RejectMember(f, v, c) \/ BanMember(f, v, c) \/ KickMember(f, v, c)
  PROVE  MailInv'
<1>1. /\ pc = "idle" /\ pc' = "mutated" /\ UNCHANGED <<failures, online, mail, overdue>>
      /\ \/ v \in online /\ note' = NoNote
         \/ AcceptMember(f, v, c) \/ RejectMember(f, v, c) \/ BanMember(f, v, c) \/ KickMember(f, v, c)
  BY DEF FoundClan, RequestJoin, LeaveClan, AcceptMember, RejectMember, BanMember, KickMember, Mutates
<1>2. IInv /\ TypeOK /\ TypeOK' /\ MailIsForTheAbsent
  BY DEF MailInv, IInv
<1>3. MailIsForTheAbsent'
  BY <1>1, <1>2 DEF MailIsForTheAbsent
<1>4. \A u \in Users : u # note.to
  BY <1>1, <1>2, ClanAssumption DEF TypeOK, NoNote
<1>5. (v \in online /\ note'.to = NoUser) \/ (note'.to = v /\ Truth(note.kind, note.clan, note.to)')
  <2>1. CASE AcceptMember(f, v, c) \/ RejectMember(f, v, c) \/ BanMember(f, v, c) \/ KickMember(f, v, c)
    <3>1. note'.to = v /\ note'.clan = c /\ Truth(note.kind, c, v)'
      BY <1>2, <2>1, TargetIsTold
    <3> QED BY <3>1
  <2>2. CASE v \in online /\ note' = NoNote
    BY <2>2 DEF NoNote
  <2> QED BY <1>1, <2>1, <2>2
<1>6. ASSUME failures = 0, NEW u \in Users \ overdue, mail[u] # NoMail, u # note'.to
      PROVE  Truth(mail[u].kind, mail[u].clan, u)'
  <2>1. u # v
    BY <1>2, <1>5, <1>6 DEF MailIsForTheAbsent
  <2>2. PICK d \in ClanNames : d = mail[u].clan
    BY <1>2, <1>6, NewestTyped
  <2>3. PICK kind : kind = mail[u].kind
    OBVIOUS
  <2>4. Truth(kind, d, u)
    BY <1>4, <1>6, <2>2, <2>3 DEF MailInv
  <2>5. Truth(kind, d, u)'
    BY <1>1, <1>2, <2>1, <2>4, OthersStayTrue
  <2>6. mail'[u] = mail[u]
    BY <1>1
  <2> QED BY <2>2, <2>3, <2>5, <2>6
<1>7. failures = 0 => \A u \in Users \ overdue : mail[u] # NoMail /\ u # note'.to =>
                        Truth(mail[u].kind, mail[u].clan, u)'
  BY <1>6
<1>8. note'.to \in Users => Truth(note.kind, note.clan, note.to)'
  BY <1>5, ClanAssumption
<1> QED BY <1>1, <1>3, <1>7, <1>8 DEF MailInv

\* The file, the messages and the sessions, with the tables as they are or anew.
LEMMA StorageKeepsMail ==
  ASSUME MailInv, IInv',
         \/ (\E u \in Users : Login(u) \/ Logout(u))
         \/ Truncate \/ WriteAndTell \/ SaveFails \/ Stop \/ Load \/ UNCHANGED vars
  PROVE  MailInv'
<1>1. /\ IInv /\ TypeOK /\ MailIsForTheAbsent /\ TypeOK'
      /\ mail \in [Users -> Notice \union {NoMail}]
  BY DEF MailInv, IInv, TypeOK
<1>2. ASSUME UNCHANGED <<pending, banned, player_clan, failures, note, mail, overdue>>,
             MailIsForTheAbsent', pc # "down" => pc' # "down"
      PROVE  MailInv'
  BY <1>2 DEF MailInv, Truth
<1>3. ASSUME NEW u \in Users, Logout(u) PROVE MailInv'
  <2>1. MailIsForTheAbsent'
    BY <1>1, <1>3 DEF Logout, MailIsForTheAbsent
  <2> QED BY <1>2, <1>3, <2>1 DEF Logout, tables
<1>4. ASSUME NEW u \in Users, Login(u) PROVE MailInv'
  <2>1. /\ UNCHANGED <<pending, banned, player_clan, failures, note, pc>> /\ pc = "idle"
        /\ online' = online \union {u}
        /\ \/ mail' = [mail EXCEPT ![u] = NoMail] /\ overdue' = overdue \ {u}
           \/ mail' = mail /\ overdue' = overdue \union {u}
    BY <1>4 DEF Login, tables
  <2>2. mail'[u] = NoMail \/ u \in overdue'
    BY <1>1, <2>1
  <2>3. \A w \in Users : w # u => mail'[w] = mail[w] /\ (w \in overdue' <=> w \in overdue)
    BY <1>1, <2>1
  <2>4. MailIsForTheAbsent'
    BY <1>1, <2>1, <2>2, <2>3 DEF MailIsForTheAbsent, TypeOK
  <2>5. ASSUME failures = 0, NEW w \in Users \ overdue', mail'[w] # NoMail, w # note.to
        PROVE  Truth(mail'[w].kind, mail'[w].clan, w)
    BY <2>2, <2>3, <2>5 DEF MailInv
  <2> QED BY <2>1, <2>4, <2>5 DEF MailInv, Truth
<1>5. ASSUME Truncate PROVE MailInv'
  <2>1. MailIsForTheAbsent'
    BY <1>1, <1>5 DEF Truncate, MailIsForTheAbsent
  <2> QED BY <1>2, <1>5, <2>1 DEF Truncate, tables
<1>6. ASSUME SaveFails PROVE MailInv'
  <2>1. failures' # 0 /\ pc' = "idle" /\ UNCHANGED <<online, mail, overdue>>
    BY <1>1, <1>6 DEF SaveFails, TypeOK
  <2> QED BY <1>1, <2>1 DEF MailInv, MailIsForTheAbsent
<1>7. ASSUME WriteAndTell PROVE MailInv'
  <2> DEFINE m == [kind |-> note.kind, clan |-> note.clan]
  <2>1. /\ UNCHANGED <<pending, banned, player_clan, failures, online>> /\ pc' = "idle"
        /\ note' = NoNote
        /\ \/ note.to \notin Users \ online /\ UNCHANGED <<mail, overdue>>
           \/ /\ note.to \in Users \ online
              /\ mail' = [mail EXCEPT ![note.to] = m] /\ overdue' = overdue \ {note.to}
           \/ /\ note.to \in Users \ online /\ mail' = mail
              /\ overdue' = IF mail[note.to] = NoMail THEN overdue ELSE overdue \union {note.to}
    BY <1>7 DEF WriteAndTell, Deliver, tables
  <2>2. \A u \in Users : u # note.to => mail'[u] = mail[u] /\ (u \in overdue' <=> u \in overdue)
    BY <1>1, <2>1
  <2>3. MailIsForTheAbsent'
    BY <1>1, <2>1 DEF MailIsForTheAbsent, TypeOK
  <2>4. ASSUME failures = 0, NEW u \in Users \ overdue', mail'[u] # NoMail
        PROVE  Truth(mail[u].kind, mail[u].clan, u)'
    <3>1. CASE u # note.to
      BY <2>1, <2>2, <2>4, <3>1 DEF MailInv, Truth
    <3>2. CASE u = note.to
      <4>1. u \notin online
        BY <2>3, <2>1, <2>4 DEF MailIsForTheAbsent
      <4>2. mail' = [mail EXCEPT ![u] = m]
        BY <2>1, <2>4, <3>2, <4>1
      <4>3. mail'[u].kind = note.kind /\ mail'[u].clan = note.clan
        BY <1>1, <4>2
      <4>4. Truth(note.kind, note.clan, u)
        BY <2>4, <3>2 DEF MailInv
      <4> QED BY <2>1, <4>3, <4>4 DEF Truth
    <3> QED BY <3>1, <3>2
  <2>5. note'.to \notin Users
    BY <2>1, ClanAssumption DEF NoNote
  <2> QED BY <2>1, <2>3, <2>4, <2>5 DEF MailInv
<1>8. ASSUME Stop PROVE MailInv'
  <2>1. /\ \A u \in Users : mail'[u] = NoMail
        /\ online' = {} /\ note'.to \notin Users
    BY <1>8, ClanAssumption DEF Stop, NoNote
  <2> QED BY <2>1 DEF MailInv, MailIsForTheAbsent
<1>9. ASSUME Load PROVE MailInv'
  <2>1. /\ pc = "down" /\ UNCHANGED <<note, online, mail, overdue>>
    BY <1>9 DEF Load
  <2>2. \A u \in Users : mail'[u] = NoMail
    BY <2>1 DEF MailInv
  <2>3. note'.to \notin Users
    BY <1>1, <2>1 DEF TypeOK
  <2> QED BY <1>1, <2>1, <2>2, <2>3 DEF MailInv, MailIsForTheAbsent, TypeOK
<1>10. ASSUME UNCHANGED vars PROVE MailInv'
  <2>1. MailIsForTheAbsent'
    BY <1>1, <1>10 DEF vars, MailIsForTheAbsent
  <2> QED BY <1>2, <1>10, <2>1 DEF vars, tables
<1> QED BY <1>3, <1>4, <1>5, <1>6, <1>7, <1>8, <1>9, <1>10

\* A player who comes back reads what is still true: as long as no save threw and
\* no closed queue cut off a command or a login, no command makes the newest
\* stored message false without storing another.
THEOREM MailCorrect == Spec => []MailIsTrue
<1>1. Init => MailInv
  BY InvInit, ClanAssumption DEF Init, MailInv, MailIsForTheAbsent, NoNote
<1>2. MailInv /\ [Next]_vars => MailInv'
  <2> SUFFICES ASSUME MailInv, [Next]_vars PROVE MailInv'
    OBVIOUS
  <2>1. IInv'
    BY InvStep DEF MailInv
  <2>2. ASSUME NEW f \in Users, NEW v \in Users, NEW c \in ClanNames,
               \/ FoundClan(v, c) \/ RequestJoin(v, c) \/ LeaveClan(v, c)
               \/ AcceptMember(f, v, c) \/ RejectMember(f, v, c)
               \/ BanMember(f, v, c) \/ KickMember(f, v, c)
        PROVE  MailInv'
    BY <2>1, <2>2, CommandKeepsMail
  <2>3. ASSUME \/ (\E u \in Users : Login(u) \/ Logout(u))
               \/ Truncate \/ WriteAndTell \/ SaveFails \/ Stop \/ Load \/ UNCHANGED vars
        PROVE  MailInv'
    BY <2>1, <2>3, StorageKeepsMail
  <2> QED BY <2>2, <2>3 DEF Next
<1>3. MailInv => MailIsTrue
  <2> SUFFICES ASSUME MailInv, pc = "idle", failures = 0,
                      NEW u \in Users \ overdue, mail[u] # NoMail
               PROVE  LET m == mail[u]
                      IN  CASE m.kind = "accepted" -> player_clan[u] = m.clan
                            [] m.kind = "rejected" -> u \notin pending[m.clan]
                            [] m.kind = "banned" -> u \in banned[m.clan] /\ player_clan[u] # m.clan
                            [] m.kind = "kicked" -> player_clan[u] # m.clan
    BY DEF MailInv, MailIsTrue, NewestMailIsTrue
  <2>1. u # note.to
    BY ClanAssumption DEF MailInv, IInv, TypeOK, NoNote
  <2>2. Truth(mail[u].kind, mail[u].clan, u)
    BY <2>1 DEF MailInv
  <2>3. mail[u].kind \in Kinds
    BY NewestTyped DEF MailInv, IInv
  <2> QED BY <2>2, <2>3 DEF Truth, Kinds
<1> QED BY <1>1, <1>2, <1>3, PTL DEF Spec
=============================================================================
