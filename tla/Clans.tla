-------------------------------- MODULE Clans --------------------------------
(***************************************************************************)
(* The clan subsystem of the server: ClanManager                           *)
(* (server/src/clan_manager.cpp) with its two in-memory tables and its     *)
(* file, and the game loop's processClan* handlers that deliver the        *)
(* outcome to the target of an operation (server/src/gameloop.cpp).        *)
(*                                                                         *)
(* The game loop runs one command at a time.  A command that changes the   *)
(* tables goes through three points the process can die at: the tables     *)
(* changed, the file truncated, the file rewritten and the target told.    *)
(* A refused command changes nothing and is no action.                     *)
(***************************************************************************)
EXTENDS Naturals, FiniteSets

CONSTANTS
  Users,       \* usernames
  Veterans,    \* the users of level min_level_to_found or more
  ClanNames,   \* names a clan can be founded under
  NoUser, NoClan,
  MaxMembers,  \* clan.max_members
  MaxFailures  \* bound: saves that cannot open the file, per server process

ASSUME ClanAssumption ==
  /\ NoUser \notin Users /\ NoClan \notin ClanNames
  /\ Veterans \subseteq Users
  /\ MaxMembers \in Nat \ {0} /\ MaxFailures \in Nat

VARIABLES
  founder, members, pending, banned,  \* clans: the entry of each clan name
  player_clan,   \* player_clan: the clan each user is indexed under
  disk,          \* what load() would read from the clan file
  pc,            \* "idle", "mutated", "truncated", or "down"
  note,          \* target_nick and target_msg of the operation in progress
  failures,      \* saves of this process that threw, up to MaxFailures
  unsaved,       \* the last save threw
  online,        \* usernames of the players in the game
  mail,          \* pending_clan_msgs: the newest message stored for each user
  overdue        \* history: users whose stored messages a closed queue kept back,
                 \* or kept a newer one from

tables == <<founder, members, pending, banned, player_clan>>
vars == <<tables, disk, pc, note, failures, unsaved, online, mail, overdue>>

Kinds == {"accepted", "rejected", "banned", "kicked"}
Notice == [kind : Kinds, clan : ClanNames]
NoMail == [kind |-> "none", clan |-> NoClan]
NoNote == [to |-> NoUser, kind |-> "none", clan |-> NoClan]

\* A value of the `clans` map.  A name with no founder has no entry.
Table == [founder : [ClanNames -> Users \union {NoUser}],
          members : [ClanNames -> SUBSET Users],
          pending : [ClanNames -> SUBSET Users],
          banned : [ClanNames -> SUBSET Users]]

EmptyTable == [founder |-> [c \in ClanNames |-> NoUser],
               members |-> [c \in ClanNames |-> {}],
               pending |-> [c \in ClanNames |-> {}],
               banned |-> [c \in ClanNames |-> {}]]

Clans == [founder |-> founder, members |-> members,
          pending |-> pending, banned |-> banned]

\* rebuildIndex: a user listed by several clans gets one of them.
IndexOf(t, index) ==
  /\ index \in [Users -> ClanNames \union {NoClan}]
  /\ \A u \in Users :
       \/ index[u] # NoClan /\ u \in t.members[index[u]]
       \/ index[u] = NoClan /\ \A c \in ClanNames : u \notin t.members[c]

-----------------------------------------------------------------------------
Init ==
  /\ founder = EmptyTable.founder /\ members = EmptyTable.members
  /\ pending = EmptyTable.pending /\ banned = EmptyTable.banned
  /\ player_clan = [u \in Users |-> NoClan]
  /\ disk = EmptyTable
  /\ pc = "idle" /\ note = NoNote
  /\ failures = 0 /\ unsaved = FALSE
  /\ online = {}
  /\ mail = [u \in Users |-> NoMail] /\ overdue = {}

\* A command changes the tables and then calls save().
Mutates(n) ==
  /\ pc = "idle" /\ pc' = "mutated"
  /\ note' = n
  /\ UNCHANGED <<disk, failures, unsaved, online, mail, overdue>>

Tell(u, k, c) == [to |-> u, kind |-> k, clan |-> c]

\* What accept, reject, ban and kick test first.
Leads(f, c) == f \in online /\ player_clan[f] = c /\ founder[c] = f

FoundClan(u, c) ==
  /\ u \in online /\ u \in Veterans
  /\ player_clan[u] = NoClan /\ founder[c] = NoUser
  /\ founder' = [founder EXCEPT ![c] = u]
  /\ members' = [members EXCEPT ![c] = {u}]
  /\ pending' = [pending EXCEPT ![c] = {}]
  /\ banned' = [banned EXCEPT ![c] = {}]
  /\ player_clan' = [player_clan EXCEPT ![u] = c]
  /\ Mutates(NoNote)

RequestJoinIfBanned(u, c) ==
  /\ u \in online /\ player_clan[u] = NoClan
  /\ founder[c] # NoUser /\ u \notin pending[c]
  /\ pending' = [pending EXCEPT ![c] = @ \union {u}]
  /\ UNCHANGED <<founder, members, banned, player_clan>>
  /\ Mutates(NoNote)

RequestJoin(u, c) ==
  /\ u \in online /\ player_clan[u] = NoClan
  /\ founder[c] # NoUser /\ u \notin banned[c] /\ u \notin pending[c]
  /\ pending' = [pending EXCEPT ![c] = @ \union {u}]
  /\ UNCHANGED <<founder, members, banned, player_clan>>
  /\ Mutates(NoNote)

\* The mutant that trusts the request made earlier.
AcceptWithoutLookup(f, u, c) ==
  /\ Leads(f, c)
  /\ Cardinality(members[c]) < MaxMembers /\ u \in pending[c]
  /\ pending' = [pending EXCEPT ![c] = @ \ {u}]
  /\ members' = [members EXCEPT ![c] = @ \union {u}]
  /\ player_clan' = [player_clan EXCEPT ![u] = c]
  /\ UNCHANGED <<founder, banned>>
  /\ Mutates(Tell(u, "accepted", c))

\* A request outlives the user's joining another clan, so the index is asked.
AcceptMember(f, u, c) ==
  /\ Leads(f, c)
  /\ Cardinality(members[c]) < MaxMembers
  /\ u \in pending[c] /\ player_clan[u] = NoClan
  /\ pending' = [pending EXCEPT ![c] = @ \ {u}]
  /\ members' = [members EXCEPT ![c] = @ \union {u}]
  /\ player_clan' = [player_clan EXCEPT ![u] = c]
  /\ UNCHANGED <<founder, banned>>
  /\ Mutates(Tell(u, "accepted", c))

RejectMember(f, u, c) ==
  /\ Leads(f, c) /\ u \in pending[c]
  /\ pending' = [pending EXCEPT ![c] = @ \ {u}]
  /\ UNCHANGED <<founder, members, banned, player_clan>>
  /\ Mutates(Tell(u, "rejected", c))

\* The mutant that leaves the request of a banned user in place.
BanOnlyMembers(f, u, c) ==
  /\ Leads(f, c) /\ u # f
  /\ members' = [members EXCEPT ![c] = @ \ {u}]
  /\ player_clan' = [player_clan EXCEPT ![u] = IF u \in members[c] THEN NoClan ELSE @]
  /\ banned' = [banned EXCEPT ![c] = @ \union {u}]
  /\ UNCHANGED <<founder, pending>>
  /\ Mutates(Tell(u, "banned", c))

\* Anyone but the founder can be banned: a member, an applicant or a stranger,
\* and again if banned already.
BanMember(f, u, c) ==
  /\ Leads(f, c) /\ u # f
  /\ pending' = [pending EXCEPT ![c] = @ \ {u}]
  /\ members' = [members EXCEPT ![c] = @ \ {u}]
  /\ player_clan' = [player_clan EXCEPT ![u] = IF u \in members[c] THEN NoClan ELSE @]
  /\ banned' = [banned EXCEPT ![c] = @ \union {u}]
  /\ UNCHANGED founder
  /\ Mutates(Tell(u, "banned", c))

\* The mutant that forgets the target's message.
KickInSilence(f, u, c) ==
  /\ Leads(f, c) /\ u # f /\ u \in members[c]
  /\ members' = [members EXCEPT ![c] = @ \ {u}]
  /\ player_clan' = [player_clan EXCEPT ![u] = NoClan]
  /\ UNCHANGED <<founder, pending, banned>>
  /\ Mutates(NoNote)

KickMember(f, u, c) ==
  /\ Leads(f, c) /\ u # f /\ u \in members[c]
  /\ members' = [members EXCEPT ![c] = @ \ {u}]
  /\ player_clan' = [player_clan EXCEPT ![u] = NoClan]
  /\ UNCHANGED <<founder, pending, banned>>
  /\ Mutates(Tell(u, "kicked", c))

LeaveClan(u, c) ==
  /\ u \in online /\ player_clan[u] = c /\ founder[c] # u
  /\ members' = [members EXCEPT ![c] = @ \ {u}]
  /\ player_clan' = [player_clan EXCEPT ![u] = NoClan]
  /\ UNCHANGED <<founder, pending, banned>>
  /\ Mutates(NoNote)

-----------------------------------------------------------------------------
\* save(): the file is opened with trunc ...
Truncate ==
  /\ pc = "mutated" /\ pc' = "truncated"
  /\ disk' = EmptyTable
  /\ UNCHANGED <<tables, note, failures, unsaved, online, mail, overdue>>

SaveFailsKeepsTarget ==
  /\ pc = "mutated" /\ pc' = "idle"
  /\ failures < MaxFailures /\ failures' = failures + 1
  /\ unsaved' = TRUE
  /\ UNCHANGED <<tables, disk, note, online, mail, overdue>>

\* ... or cannot be opened: the exception skips the messages, and the tables
\* stay ahead of the file.
SaveFails ==
  /\ pc = "mutated" /\ pc' = "idle"
  /\ failures < MaxFailures /\ failures' = failures + 1
  /\ unsaved' = TRUE
  /\ note' = NoNote
  /\ UNCHANGED <<tables, disk, online, mail, overdue>>

WriteUnflushed ==
  /\ pc = "truncated" /\ pc' = "idle"
  /\ unsaved' = FALSE
  /\ note' = NoNote
  /\ UNCHANGED <<tables, disk, failures, online, mail, overdue>>

\* sendClanOpResult.  A target who is in the game is told or, if that queue is
\* closed, is not: nothing is stored.  One who is not in the game gets the
\* message at the next login, unless the answer to the caller, which goes first,
\* throws: the command then ends without it.
Deliver ==
  LET u == note.to
  IN \/ u \notin Users \ online /\ UNCHANGED <<mail, overdue>>
     \/ /\ u \in Users \ online
        /\ mail' = [mail EXCEPT ![u] = [kind |-> note.kind, clan |-> note.clan]]
        /\ overdue' = overdue \ {u}
     \/ /\ u \in Users \ online
        /\ overdue' = IF mail[u] = NoMail THEN overdue ELSE overdue \union {u}
        /\ UNCHANGED mail

\* The rest of save(), and the answers.
WriteAndTell ==
  /\ pc = "truncated" /\ pc' = "idle"
  /\ disk' = Clans
  /\ unsaved' = FALSE
  /\ Deliver
  /\ note' = NoNote
  /\ UNCHANGED <<tables, failures, online>>

LoginKeepsMail(u) ==
  /\ pc = "idle" /\ u \notin online
  /\ online' = online \union {u}
  /\ UNCHANGED <<tables, disk, pc, note, failures, unsaved, mail, overdue>>

\* processHandleLogin puts the player in the game, tells the mates and answers.
\* The stored messages are sent last, and erased, unless a closed queue ended
\* the handler before: that of a mate or, of late, the user's own.
Login(u) ==
  /\ pc = "idle" /\ u \notin online
  /\ online' = online \union {u}
  /\ \/ mail' = [mail EXCEPT ![u] = NoMail] /\ overdue' = overdue \ {u}
     \/ mail[u] # NoMail /\ mail' = mail /\ overdue' = overdue \union {u}
  /\ UNCHANGED <<tables, disk, pc, note, failures, unsaved>>

\* A logout that a closed queue cuts off leaves everything as it was.
Logout(u) ==
  /\ pc = "idle" /\ u \in online
  /\ online' = online \ {u}
  /\ UNCHANGED <<tables, disk, pc, note, failures, unsaved, mail, overdue>>

\* The process ends, between any two of the steps above: only the file stays.
Stop ==
  /\ pc # "down" /\ pc' = "down"
  /\ founder' = EmptyTable.founder /\ members' = EmptyTable.members
  /\ pending' = EmptyTable.pending /\ banned' = EmptyTable.banned
  /\ player_clan' = [u \in Users |-> NoClan]
  /\ note' = NoNote /\ failures' = 0 /\ unsaved' = FALSE
  /\ online' = {}
  /\ mail' = [u \in Users |-> NoMail] /\ overdue' = {}
  /\ UNCHANGED disk

\* load() in the constructor of the game loop; the index is not in the file.
Load ==
  /\ pc = "down" /\ pc' = "idle"
  /\ founder' = disk.founder /\ members' = disk.members
  /\ pending' = disk.pending /\ banned' = disk.banned
  /\ \E index \in [Users -> ClanNames \union {NoClan}] :
       IndexOf(disk, index) /\ player_clan' = index
  /\ UNCHANGED <<disk, note, failures, unsaved, online, mail, overdue>>

Next ==
  \/ \E u \in Users : Login(u) \/ Logout(u)
  \/ \E u \in Users, c \in ClanNames :
       FoundClan(u, c) \/ RequestJoin(u, c) \/ LeaveClan(u, c)
  \/ \E f \in Users, u \in Users, c \in ClanNames :
       \/ AcceptMember(f, u, c) \/ RejectMember(f, u, c)
       \/ BanMember(f, u, c) \/ KickMember(f, u, c)
  \/ Truncate \/ WriteAndTell \/ SaveFails
  \/ Stop \/ Load

Spec == Init /\ [][Next]_vars

-----------------------------------------------------------------------------
\* The tables, in memory and on disk, have their type; a message is under way
\* only between an operation and the end of its save.
TypeOK ==
  /\ Clans \in Table /\ disk \in Table
  /\ player_clan \in [Users -> ClanNames \union {NoClan}]
  /\ pc \in {"idle", "mutated", "truncated", "down"}
  /\ note.to \in Users \union {NoUser}
  /\ IF note.to \in Users
       THEN pc \in {"mutated", "truncated"} /\ note.kind \in Kinds /\ note.clan \in ClanNames
       ELSE note = NoNote
  /\ failures \in Nat /\ unsaved \in BOOLEAN
  /\ online \in SUBSET Users
  /\ mail \in [Users -> Notice \union {NoMail}] /\ overdue \in SUBSET Users

\* The two tables agree, so nobody belongs to two clans: a user is indexed
\* under exactly the clan that lists them, although requests stay in other
\* clans' lists and the index is rebuilt, not saved.
IndexMatchesMembers ==
  pc # "down" =>
    \A u \in Users, c \in ClanNames : player_clan[u] = c <=> u \in members[c]

\* What every founded clan looks like.
ClanOK(t, c) ==
  \/ /\ t.founder[c] = NoUser
     /\ t.members[c] = {} /\ t.pending[c] = {} /\ t.banned[c] = {}
  \/ /\ t.founder[c] \in t.members[c]
     /\ Cardinality(t.members[c]) <= MaxMembers
     /\ t.members[c] \intersect t.pending[c] = {}
     /\ t.banned[c] \intersect (t.members[c] \union t.pending[c]) = {}

OneClanEach(t) ==
  \A c, d \in ClanNames : c # d => t.members[c] \intersect t.members[d] = {}

WellFormed(t) == OneClanEach(t) /\ \A c \in ClanNames : ClanOK(t, c)

\* In memory and, whatever point the process dies at, in the file: the founder
\* of a clan is one of its at most MaxMembers members, a banned user is neither
\* a member nor an applicant, and no user is in two clans.
ClansWellFormed == WellFormed(Clans) /\ WellFormed(disk)

\* The tables keep the rules of a clan, and the index says what they say.
ClansConsistent == IndexMatchesMembers /\ ClansWellFormed

\* An operation that answered is on disk, unless its save threw: between two
\* commands the file holds the tables.
AnsweredIsSaved == pc = "idle" /\ ~unsaved => disk = Clans

\* A message is stored only for a user who is out of the game, or whose login
\* was cut off before it was told.
MailIsForTheAbsent == \A u \in online : mail[u] = NoMail \/ u \in overdue

\* The newest stored message tells its reader the truth about where they stand,
\* as long as no save of this process threw (which drops a later message) and
\* no closed queue kept it, or a later one, back.
NewestMailIsTrue ==
  pc = "idle" /\ failures = 0 =>
    \A u \in Users \ overdue : mail[u] # NoMail =>
      LET m == mail[u]
      IN  CASE m.kind = "accepted" -> player_clan[u] = m.clan
            [] m.kind = "rejected" -> u \notin pending[m.clan]
            [] m.kind = "banned" -> u \in banned[m.clan] /\ player_clan[u] # m.clan
            [] m.kind = "kicked" -> player_clan[u] # m.clan

\* Stored messages are for those who are out of the game, and true when they
\* come back, but for those a closed queue has made overdue.
MailIsTrue == MailIsForTheAbsent /\ NewestMailIsTrue
=============================================================================
