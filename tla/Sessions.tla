------------------------------ MODULE Sessions ------------------------------
(***************************************************************************)
(* The life of what players own: the game loop's sessions and bank         *)
(* (server/src/gameloop.cpp), the Persistence thread with its two queues   *)
(* (server/src/persistence.cpp), the records on disk, and the shutdown that *)
(* the main thread drives (server/src/server.cpp).                         *)
(*                                                                         *)
(* The game loop reads records directly and writes them through the        *)
(* Persistence thread.  Items stand for everything a record holds; each    *)
(* is an individual, so that losing one or having it twice can be told.    *)
(***************************************************************************)
EXTENDS Naturals, Sequences, FiniteSets

CONSTANTS
  Users,        \* usernames
  Conns,        \* ids of client connections; a closed one is given again
  Items,        \* the items the game can hand out
  Nobody, NoRecord,
  MaxQueue,     \* bound: players_data_queue while the game runs
  MaxWorlds     \* bound: world_data_queue while the game runs

ASSUME SessionAssumption ==
  /\ Nobody \notin Users /\ IsFiniteSet(Conns)
  /\ NoRecord \notin [bag : SUBSET Items, box : SUBSET Items]
  /\ MaxQueue \in Nat /\ MaxWorlds \in Nat

VARIABLES
  player,         \* players: the user each connection plays, or Nobody
  bag,            \* inventory and equipment of the player of a connection
  box,            \* bank.accounts
  floor,          \* items on the floor
  players_queue,  \* players_data_queue
  world_queue,    \* world_data_queue: how many worlds wait
  disk,           \* players.dat: the record of each user
  loop,           \* Gameloop::run: "ticking", "saving", "joining", or "down"
  saver,          \* Persistence::run: "check", "players", "world"; "exited", or
                  \* "failed": ended by an exception
  keep,           \* should_keep_running() of Persistence
  main,           \* Server::start: "serving" until "q", then "joining"
  given,          \* history: the items handed out
  clean           \* history: every login was of an absent user, fully saved,
                  \* and read an undamaged record

sessions == <<player, bag, box, floor>>
saves == <<players_queue, world_queue>>
control == <<loop, saver, keep, main>>
vars == <<sessions, saves, disk, control, given, clean>>

Record == [bag : SUBSET Items, box : SUBSET Items]
Snapshot == [user : Users, bag : SUBSET Items, box : SUBSET Items]

Online == {player[c] : c \in Conns} \ {Nobody}

\* getPlayerData, with the account of the player's username.
DataOf(c) == [user |-> player[c], bag |-> bag[c], box |-> box[player[c]]]

Waiting(u) == {i \in 1..Len(players_queue) : players_queue[i].user = u}

\* The newest record of u outside the game.
NewestRecord(u) ==
  IF Waiting(u) = {} THEN disk[u]
  ELSE LET i == CHOOSE j \in Waiting(u) : \A k \in Waiting(u) : k <= j
       IN [bag |-> players_queue[i].bag, box |-> players_queue[i].box]

-----------------------------------------------------------------------------
Init ==
  /\ player = [c \in Conns |-> Nobody]
  /\ bag = [c \in Conns |-> {}] /\ box = [u \in Users |-> {}]
  /\ floor = {}
  /\ players_queue = <<>> /\ world_queue = 0
  /\ disk = [u \in Users |-> NoRecord]
  /\ loop = "ticking" /\ saver = "check" /\ keep = TRUE /\ main = "serving"
  /\ given = {} /\ clean = TRUE

\* processHandleSignup: the first record is written at once.
Signup(u) ==
  /\ loop = "ticking" /\ disk[u] = NoRecord
  /\ disk' = [disk EXCEPT ![u] = [bag |-> {}, box |-> {}]]
  /\ UNCHANGED <<sessions, saves, control, given, clean>>

\* loadingPlayerData: the account of the record's username is replaced, and a
\* connection that already plays keeps its player.
Load(c, u, r) ==
  /\ box' = [box EXCEPT ![u] = r.box]
  /\ IF player[c] = Nobody
     THEN /\ player' = [player EXCEPT ![c] = u]
          /\ bag' = [bag EXCEPT ![c] = r.bag]
     ELSE UNCHANGED <<player, bag>>

\* processHandleLogin: the record is read from disk whatever is queued.  The
\* messages that follow, which may throw, change nothing here.
Login(c, u) ==
  /\ loop = "ticking" /\ disk[u] # NoRecord
  /\ Load(c, u, disk[u])
  /\ clean' = (clean /\ u \notin Online /\ Waiting(u) = {})
  /\ UNCHANGED <<floor, saves, disk, control, given>>

\* A damaged record (see PlayerStorage) says anything, its username included:
\* the player goes by that name, which may have no record.  One that the loader
\* itself refuses (an unknown class or item) is left out.
LoginDamaged(c, u) ==
  /\ loop = "ticking" /\ disk[u] # NoRecord
  /\ \E name \in Users, r \in Record : Load(c, name, r)
  /\ clean' = FALSE
  /\ UNCHANGED <<floor, saves, disk, control, given>>

\* processPlayerDisconnet.  A notice to a clan mate that throws leaves all as it was.
Logout(c) ==
  /\ loop = "ticking" /\ player[c] # Nobody
  /\ Len(players_queue) < MaxQueue
  /\ players_queue' = Append(players_queue, DataOf(c))
  /\ player' = [player EXCEPT ![c] = Nobody]
  /\ bag' = [bag EXCEPT ![c] = {}]
  /\ UNCHANGED <<box, floor, world_queue, disk, control, given, clean>>

\* An item enters the game in the hands of a player: bought, or looted.
Receive(c, i) ==
  /\ loop = "ticking" /\ player[c] # Nobody /\ i \notin given
  /\ bag' = [bag EXCEPT ![c] = @ \union {i}]
  /\ given' = given \union {i}
  /\ UNCHANGED <<player, box, floor, saves, disk, control, clean>>

DepositItem(c, i) ==
  /\ loop = "ticking" /\ player[c] # Nobody /\ i \in bag[c]
  /\ bag' = [bag EXCEPT ![c] = @ \ {i}]
  /\ box' = [box EXCEPT ![player[c]] = @ \union {i}]
  /\ UNCHANGED <<player, floor, saves, disk, control, given, clean>>

WithdrawItem(c, i) ==
  /\ loop = "ticking" /\ player[c] # Nobody /\ i \in box[player[c]]
  /\ box' = [box EXCEPT ![player[c]] = @ \ {i}]
  /\ bag' = [bag EXCEPT ![c] = @ \union {i}]
  /\ UNCHANGED <<player, floor, saves, disk, control, given, clean>>

DropItem(c, i) ==
  /\ loop = "ticking" /\ player[c] # Nobody /\ i \in bag[c]
  /\ bag' = [bag EXCEPT ![c] = @ \ {i}]
  /\ floor' = floor \union {i}
  /\ UNCHANGED <<player, box, saves, disk, control, given, clean>>

PickUpItem(c, i) ==
  /\ loop = "ticking" /\ player[c] # Nobody /\ i \in floor
  /\ floor' = floor \ {i}
  /\ bag' = [bag EXCEPT ![c] = @ \union {i}]
  /\ UNCHANGED <<player, box, saves, disk, control, given, clean>>

-----------------------------------------------------------------------------
\* updateStatePlayers and updateStateWorld: every player, in the order of an
\* unordered map, and the world.
ScheduleAll ==
  LET playing == {c \in Conns : player[c] # Nobody}
      n == Cardinality(playing)
  IN /\ \E order \in [1..n -> playing] :
          /\ \A c \in playing : \E i \in 1..n : order[i] = c
          /\ players_queue' = players_queue \o [i \in 1..n |-> DataOf(order[i])]
     /\ world_queue' = world_queue + 1

PeriodicSave ==
  /\ loop = "ticking"
  /\ Len(players_queue) + Cardinality(Online) <= MaxQueue
  /\ world_queue < MaxWorlds
  /\ ScheduleAll
  /\ UNCHANGED <<sessions, disk, control, given, clean>>

\* The loop leaves its ticks: the commands queue closed, the flag cleared, or
\* an exception that no command caught.
LeaveTicks ==
  /\ loop = "ticking" /\ loop' = "saving"
  /\ UNCHANGED <<sessions, saves, disk, saver, keep, main, given, clean>>

\* The mutant that waits for the thread without stopping it.
FinalSaveOnly ==
  /\ loop = "saving" /\ loop' = "joining"
  /\ ScheduleAll
  /\ UNCHANGED <<sessions, disk, saver, keep, main, given, clean>>

\* The last save, and stop() of Persistence.
FinalSave ==
  /\ loop = "saving" /\ loop' = "joining"
  /\ ScheduleAll
  /\ keep' = FALSE
  /\ UNCHANGED <<sessions, disk, saver, main, given, clean>>

JoinSaver ==
  /\ loop = "joining" /\ saver \in {"exited", "failed"}
  /\ loop' = "down"
  /\ UNCHANGED <<sessions, saves, disk, saver, keep, main, given, clean>>

\* Server::start after "q", up to Gameloop::stop, which tells Persistence to
\* stop before the loop has made its last save.
Shutdown ==
  /\ main = "serving" /\ loop # "down"
  /\ main' = "joining" /\ keep' = FALSE
  /\ UNCHANGED <<sessions, saves, disk, loop, saver, given, clean>>

-----------------------------------------------------------------------------
\* Persistence::run.
SaverChecks ==
  /\ saver = "check"
  /\ saver' = IF keep THEN "players" ELSE "exited"
  /\ UNCHANGED <<sessions, saves, disk, loop, keep, main, given, clean>>

\* updateStatePlayer: the index has no entry for a name without a record, and
\* what at() throws then ends the thread.
Update(r) ==
  \/ /\ disk[r.user] # NoRecord
     /\ disk' = [disk EXCEPT ![r.user] = [bag |-> r.bag, box |-> r.box]]
     /\ UNCHANGED saver
  \/ /\ disk[r.user] = NoRecord
     /\ saver' = "failed"
     /\ UNCHANGED disk

\* The mutant that writes the newest snapshot first.
SaveNewestFirst ==
  /\ saver = "players" /\ players_queue # <<>>
  /\ Update(players_queue[Len(players_queue)])
  /\ players_queue' = SubSeq(players_queue, 1, Len(players_queue) - 1)
  /\ UNCHANGED <<sessions, world_queue, loop, keep, main, given, clean>>

SavePlayer ==
  /\ saver = "players" /\ players_queue # <<>>
  /\ Update(Head(players_queue))
  /\ players_queue' = Tail(players_queue)
  /\ UNCHANGED <<sessions, world_queue, loop, keep, main, given, clean>>

PlayersSaved ==
  /\ saver = "players" /\ players_queue = <<>> /\ saver' = "world"
  /\ UNCHANGED <<sessions, saves, disk, loop, keep, main, given, clean>>

SaveWorld ==
  /\ saver = "world" /\ world_queue > 0
  /\ world_queue' = world_queue - 1
  /\ UNCHANGED <<sessions, players_queue, disk, control, given, clean>>

\* The mutant that leaves the loop after one round.
SaverLeaves ==
  /\ saver = "world" /\ world_queue = 0 /\ saver' = "exited"
  /\ UNCHANGED <<sessions, saves, disk, loop, keep, main, given, clean>>

WorldSaved ==
  /\ saver = "world" /\ world_queue = 0 /\ saver' = "check"
  /\ UNCHANGED <<sessions, saves, disk, loop, keep, main, given, clean>>

Play ==
  \/ \E u \in Users : Signup(u)
  \/ \E c \in Conns, u \in Users : Login(c, u) \/ LoginDamaged(c, u)
  \/ \E c \in Conns : Logout(c)
  \/ \E c \in Conns, i \in Items :
       \/ Receive(c, i) \/ DepositItem(c, i) \/ WithdrawItem(c, i)
       \/ DropItem(c, i) \/ PickUpItem(c, i)
  \/ PeriodicSave

Saver == SaverChecks \/ SavePlayer \/ PlayersSaved \/ SaveWorld \/ WorldSaved
Leave == FinalSave \/ JoinSaver

Next == Play \/ LeaveTicks \/ Leave \/ Shutdown \/ Saver

\* The Persistence thread is scheduled, and a game loop past its ticks runs on.
\* A queue that empties again and again is found empty: saves come once a
\* minute, so the loops over the two queues end.
Fairness ==
  /\ WF_vars(Saver) /\ WF_vars(Leave)
  /\ SF_vars(PlayersSaved) /\ SF_vars(WorldSaved)

SafeSpec == Init /\ [][Next]_vars
Spec == SafeSpec /\ Fairness

-----------------------------------------------------------------------------
\* Every variable has its type; the Persistence thread only leaves its loop after
\* it was told to, and the game loop only joins a thread it has told.
TypeOK ==
  /\ player \in [Conns -> Users \union {Nobody}]
  /\ bag \in [Conns -> SUBSET Items] /\ box \in [Users -> SUBSET Items]
  /\ floor \in SUBSET Items
  /\ players_queue \in Seq(Snapshot) /\ world_queue \in Nat
  /\ disk \in [Users -> Record \union {NoRecord}]
  /\ loop \in {"ticking", "saving", "joining", "down"}
  /\ saver \in {"check", "players", "world", "exited", "failed"}
  /\ keep \in BOOLEAN
  /\ main \in {"serving", "joining"}
  /\ given \in SUBSET Items /\ clean \in BOOLEAN
  /\ saver = "exited" \/ loop = "joining" => ~keep

\* Where an item can be while the game runs: on the floor, with the player
\* and in the account of a user in the game, or in the newest record of a
\* user who is not.
Places == {<<"floor", Nobody>>} \union ({"bag", "box"} \X Users)

At(p) ==
  LET u == p[2]
  IN CASE p[1] = "floor" -> floor
       [] p[1] = "box" /\ u \in Online -> box[u]
       [] p[1] = "bag" /\ u \in Online ->
            UNION {bag[c] : c \in {d \in Conns : player[d] = u}}
       [] OTHER -> IF NewestRecord(u) = NoRecord THEN {} ELSE NewestRecord(u)[p[1]]

\* As long as every login of this process was of an absent user with nothing
\* waiting to be saved and read an undamaged record, no item of the game is
\* lost and none is in two places, across deposits, drops, logouts and the
\* queue to the disk; and no exception has ended the saver.
EveryItemInOnePlace ==
  /\ TypeOK
  /\ clean => saver # "failed"
  /\ loop = "ticking" /\ clean =>
       /\ given = UNION {At(p) : p \in Places}
       /\ \A p, r \in Places : p # r => At(p) \cap At(r) = {}

\* A user who left and stays away is on disk in the end, unless the server
\* goes down first, or a player whose damaged record named nobody ended the
\* Persistence thread.
LeaversAreSaved ==
  \A u \in Users :
    (u \notin Online /\ Waiting(u) # {})
      ~> (u \in Online \/ Waiting(u) = {} \/ loop # "ticking" \/ ~keep
           \/ saver = "failed")

\* A game loop that left its ticks ends: it never waits for a Persistence
\* thread that was not told to stop.
LoopEndsTheSaver == loop = "saving" ~> loop = "down"

\* The Persistence thread saves at a clean shutdown too: when the server has
\* ended as the operator asked, the disk has every player as the game had it
\* (damaged records and users logged in twice left aside).
CleanShutdownSaves ==
  loop = "down" /\ main = "joining" /\ clean =>
    \A c \in Conns : player[c] # Nobody =>
      disk[player[c]] = [bag |-> bag[c], box |-> box[player[c]]]
=============================================================================
