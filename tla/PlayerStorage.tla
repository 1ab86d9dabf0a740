---------------------------- MODULE PlayerStorage ----------------------------
(***************************************************************************)
(* DataStorage (server/src/data_storage.cpp): the file of player records,  *)
(* its index in memory and on disk, and the file of the world.             *)
(*                                                                         *)
(* A record is one cell for the fixed fields and the three counts, and one *)
(* cell for each item of the inventory and the safe box, so its length     *)
(* changes with what the player owns.  Every operation holds file_mutex    *)
(* from end to end; the steps of one are separate because the process can  *)
(* die between two files.                                                  *)
(***************************************************************************)
EXTENDS Integers, Sequences

CONSTANTS
  Users,
  MaxItems,    \* bound: items in one record
  MaxCrashes,  \* bound: times the process dies
  Nobody

ASSUME StorageAssumption ==
  Nobody \notin Users /\ MaxItems \in Nat /\ MaxCrashes \in Nat

VARIABLES
  data_file,   \* players.dat, a sequence of cells
  index,       \* index: where each record starts, Absent for no entry
  index_file,  \* players.idx, the entries in the order they were appended
  failed,      \* the failbit of the data_file stream
  world_file,  \* world.dat: "absent", "empty" or "whole"
  world,       \* where the running world came from
  pc,          \* the operation in progress, or "idle", or "down"
  saving,      \* the user whose index entry is still to be appended
  saver,       \* the thread of Persistence: "misled" since a name that was read from a
               \* damaged record plays, "ended" by the catch of its run
  reach,       \* history: the items of the longest record written for a user
  crashes      \* deaths so far, up to MaxCrashes

files == <<data_file, index_file, world_file>>
vars == <<files, index, failed, world, pc, saving, saver, reach, crashes>>

Absent == 0
Nowhere == -1   \* what tellp() answers on a failed stream

FixedPart(u, n) == [kind |-> "fixed", user |-> u, items |-> n]
Slot(u) == [kind |-> "slot", user |-> u, items |-> 0]
Cells == [kind : {"fixed", "slot"}, user : Users, items : 0..MaxItems]

\* The record of u with n items, as the chain of write() calls lays it out.
Record(u, n) == [i \in 1..(n + 1) |-> IF i = 1 THEN FixedPart(u, n) ELSE Slot(u)]

\* The file f after r is written from position at on.
WriteAt(f, at, r) ==
  LET past == at + Len(r) - 1
  IN [i \in 1..(IF past > Len(f) THEN past ELSE Len(f)) |->
        IF i \in at..past THEN r[i - at + 1] ELSE f[i]]

\* loadIndex: a later entry of a name replaces an earlier one.
LoadIndex(entries) ==
  [u \in Users |->
     LET mine == {i \in 1..Len(entries) : entries[i].user = u}
     IN IF mine = {} THEN Absent
        ELSE entries[CHOOSE i \in mine : \A j \in mine : j <= i].offset]

\* The record of u can be read back from its offset.
Intact(u) ==
  LET at == index[u]
  IN /\ at \in 1..Len(data_file)
     /\ data_file[at].kind = "fixed" /\ data_file[at].user = u
     /\ at + data_file[at].items <= Len(data_file)
     /\ \A i \in (at + 1)..(at + data_file[at].items) : data_file[i] = Slot(u)

-----------------------------------------------------------------------------
Init ==
  /\ data_file = <<>> /\ index_file = <<>> /\ world_file = "absent"
  /\ index = LoadIndex(<<>>)
  /\ failed = FALSE
  /\ world = "generated"
  /\ pc = "idle" /\ saving = Nobody /\ saver = "sound"
  /\ reach = [u \in Users |-> 0]
  /\ crashes = 0

\* The mutant that seeks to the last cell instead of the end.
AppendOverLast(u) ==
  /\ pc = "idle" /\ index[u] = Absent
  /\ LET at == IF data_file = <<>> THEN 1 ELSE Len(data_file)
     IN /\ index' = [index EXCEPT ![u] = IF failed THEN Nowhere ELSE at]
        /\ data_file' = IF failed THEN data_file ELSE WriteAt(data_file, at, Record(u, 0))
  /\ reach' = [reach EXCEPT ![u] = 0]
  /\ pc' = "indexing" /\ saving' = u
  /\ UNCHANGED <<index_file, world_file, failed, world, saver, crashes>>

\* savePlayer up to flush(): a failed stream writes nothing and tells -1.
\* A new player owns no item.
AppendRecord(u) ==
  /\ pc = "idle" /\ index[u] = Absent
  /\ index' = [index EXCEPT ![u] = IF failed THEN Nowhere ELSE Len(data_file) + 1]
  /\ data_file' = IF failed THEN data_file
                  ELSE WriteAt(data_file, Len(data_file) + 1, Record(u, 0))
  /\ reach' = [reach EXCEPT ![u] = 0]
  /\ pc' = "indexing" /\ saving' = u
  /\ UNCHANGED <<index_file, world_file, failed, world, saver, crashes>>

\* The mutant that leaves the index file to a later save.
SaveNoIndexEntry ==
  /\ pc = "indexing"
  /\ pc' = "idle" /\ saving' = Nobody
  /\ UNCHANGED <<files, index, failed, world, saver, reach, crashes>>

\* savePlayer after flush(): saveIndexEntry.
SaveIndexEntry ==
  /\ pc = "indexing"
  /\ index_file' = Append(index_file, [user |-> saving, offset |-> index[saving]])
  /\ pc' = "idle" /\ saving' = Nobody
  /\ UNCHANGED <<data_file, world_file, index, failed, world, saver, reach, crashes>>

\* The mutant that counts one item more than the player has.
UpdateOneItemMore(u, n) ==
  /\ pc = "idle" /\ saver # "ended" /\ index[u] # Absent
  /\ failed' = (failed \/ index[u] = Nowhere)
  /\ data_file' = IF failed' THEN data_file
                  ELSE WriteAt(data_file, index[u], Record(u, n + 1))
  /\ reach' = IF failed' \/ n < reach[u] THEN reach ELSE [reach EXCEPT ![u] = n + 1]
  /\ UNCHANGED <<index_file, world_file, index, world, pc, saving, saver, crashes>>

\* updateStatePlayer: in place, whatever the size was.  Seeking to -1 fails,
\* and a failed stream drops the writes.
UpdateStatePlayer(u, n) ==
  /\ pc = "idle" /\ saver # "ended" /\ index[u] # Absent
  /\ failed' = (failed \/ index[u] = Nowhere)
  /\ data_file' = IF failed' THEN data_file
                  ELSE WriteAt(data_file, index[u], Record(u, n))
  /\ reach' = IF failed' \/ n <= reach[u] THEN reach ELSE [reach EXCEPT ![u] = n]
  /\ UNCHANGED <<index_file, world_file, index, world, pc, saving, saver, crashes>>

\* updateStatePlayer of a name without an entry: index.at throws before anything is
\* written, and the thread that saves the players and the world ends.
UpdateStranger ==
  /\ pc = "idle" /\ saver = "misled"
  /\ saver' = "ended"
  /\ UNCHANGED <<files, index, failed, world, pc, saving, reach, crashes>>

\* The mutant that reads one item more than the record has.
LoadOneItemMore(u) ==
  /\ pc = "idle" /\ index[u] # Absent
  /\ failed' \in IF index[u] = Nowhere THEN {TRUE}
                 ELSE IF Intact(u) THEN {index[u] + data_file[index[u]].items = Len(data_file)}
                 ELSE BOOLEAN
  /\ UNCHANGED <<files, index, world, pc, saving, saver, reach, crashes>>

\* loadPlayer: clear(), seek, read.  A damaged record holds counts of items
\* nobody wrote, and reading that many may run past the end of the file.  Its name,
\* under which the player then plays, may be nobody's.
LoadPlayer(u) ==
  /\ pc = "idle" /\ index[u] # Absent
  /\ failed' \in IF index[u] = Nowhere THEN {TRUE}
                 ELSE IF Intact(u) THEN {FALSE} ELSE BOOLEAN
  /\ saver' \in IF Intact(u) \/ saver = "ended" THEN {saver} ELSE {saver, "misled"}
  /\ UNCHANGED <<files, index, world, pc, saving, reach, crashes>>

\* saveWorldState: the file is truncated by the open and written back later.
TruncateWorld ==
  /\ pc = "idle" /\ pc' = "saving world" /\ saver # "ended"
  /\ world_file' = "empty"
  /\ UNCHANGED <<data_file, index_file, index, failed, world, saving, saver, reach, crashes>>

WriteWorld ==
  /\ pc = "saving world" /\ pc' = "idle"
  /\ world_file' = "whole"
  /\ UNCHANGED <<data_file, index_file, index, failed, world, saving, saver, reach, crashes>>

\* The process dies, or ends between two operations.
Crash ==
  /\ pc # "down" /\ pc' = "down"
  /\ crashes < MaxCrashes /\ crashes' = crashes + 1
  /\ saving' = Nobody
  /\ UNCHANGED <<files, index, failed, world, saver, reach>>

\* The constructor, and the game loop's choice between a saved and a new
\* world.  From an empty file loadWorldState reads counts it never set: the
\* start fails, or the world holds whatever those counts made of it.
Start ==
  /\ pc = "down"
  /\ index' = LoadIndex(index_file)
  /\ failed' = FALSE /\ saver' = "sound"
  /\ \/ world_file = "absent" /\ world' = "generated" /\ pc' = "idle"
     \/ world_file = "whole" /\ world' = "saved" /\ pc' = "idle"
     \/ world_file = "empty" /\ world' = "unset" /\ pc' \in {"idle", "down"}
  /\ UNCHANGED <<files, saving, reach, crashes>>

Next ==
  \/ \E u \in Users : AppendRecord(u) \/ LoadPlayer(u)
  \/ \E u \in Users, n \in 0..MaxItems : UpdateStatePlayer(u, n)
  \/ UpdateStranger
  \/ SaveIndexEntry \/ TruncateWorld \/ WriteWorld
  \/ Crash \/ Start

Spec == Init /\ [][Next]_vars

-----------------------------------------------------------------------------
\* Every variable has its type, and a name waits for its index entry exactly
\* while savePlayer is between its two files.
TypeOK ==
  /\ data_file \in Seq(Cells)
  /\ index \in [Users -> Int]
  /\ index_file \in Seq([user : Users, offset : Int])
  /\ failed \in BOOLEAN
  /\ world_file \in {"absent", "empty", "whole"}
  /\ world \in {"generated", "saved", "unset"}
  /\ pc \in {"idle", "indexing", "saving world", "down"}
  /\ saving \in Users \union {Nobody} /\ (pc = "indexing") = (saving # Nobody)
  /\ saver \in {"sound", "misled", "ended"}
  /\ reach \in [Users -> 0..MaxItems]
  /\ crashes \in 0..MaxCrashes

\* The server can restart between any two operations and find every player
\* where it had them: the index file replayed is the index in memory, and no
\* entry of it points past the data (savePlayer's order of the two files).  No
\* record is ever wider than a player with all it may carry.  Of the world less
\* is true: a process that dies inside saveWorldState leaves an empty file, but
\* no other server runs over one than that which started from it.
RestartFindsEveryPlayer ==
  /\ TypeOK
  /\ pc \in {"idle", "saving world"} => LoadIndex(index_file) = index
  /\ \A i \in 1..Len(index_file) : index_file[i].offset <= Len(data_file)
  /\ pc \in {"idle", "indexing"} /\ world_file = "empty" => world = "unset"

Starts(u) == index[u] \notin {Absent, Nowhere}

Overlap(u, w) ==
  /\ index[u] <= index[w] + reach[w]
  /\ index[w] <= index[u] + reach[u]

\* savePlayer always appends and updateStatePlayer stays on its own record,
\* so a record that cannot be read back is one whose widest extent ran into
\* the widest extent of another.  And the thread that saves ends by itself only in
\* a server where that happened, or where a record has no place at all: with every
\* record in its place no name can be read that the index does not have.
RunsIntoAnother(u) == Starts(u) /\ \E w \in Users \ {u} : Starts(w) /\ Overlap(u, w)

DamageNeedsOverlap ==
  pc # "down" =>
    /\ \A u \in Users : Starts(u) /\ ~Intact(u) => RunsIntoAnother(u)
    /\ saver # "sound" => \E u \in Users : index[u] = Nowhere \/ RunsIntoAnother(u)

\* loadPlayer's clear() ends the silence of a failed stream at the next login
\* of a healthy player, so while writes are dropped there is still a player
\* whose record cannot be read.
SilenceHasACause ==
  failed /\ pc # "down" => \E u \in Users : index[u] # Absent /\ ~Intact(u)
=============================================================================
