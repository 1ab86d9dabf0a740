------------------------ MODULE PlayerStorage_proofs ------------------------
(***************************************************************************)
(* A restart finds every player, a record that cannot be read ran into     *)
(* another, and a stream that drops writes has such a record to blame, for *)
(* any players, sizes of records and number of crashes.                    *)
(***************************************************************************)
EXTENDS PlayerStorage, WellFoundedInduction, TLAPS

Entry == [user : Users, offset : Int]

\* The entries of u in the index file.
Mine(entries, u) == {i \in 1..Len(entries) : entries[i].user = u}

LEMMA Bounds == Nobody \notin Users /\ MaxItems \in Nat /\ MaxCrashes \in Nat
BY StorageAssumption DEF StorageAssumption

-----------------------------------------------------------------------------
(***************************************************************************)
(* The index file.                                                         *)
(***************************************************************************)

\* Some numbers up to a bound have a greatest one.
LEMMA GreatestExists ==
  ASSUME NEW n \in Nat, NEW S \in SUBSET (1..n), S # {}
  PROVE  \E i \in S : \A j \in S : j <= i
<1> DEFINE T == {n - i : i \in S}
           Less == {s \in Nat \X Nat : s[1] < s[2]}
<1>1. T \subseteq Nat /\ T # {}
  <2>1. \A i \in S : i \in 1..n
    OBVIOUS
  <2>2. \A i \in S : n - i \in Nat
    BY <2>1
  <2>3. PICK i \in S : TRUE
    OBVIOUS
  <2> QED BY <2>2, <2>3
<1>2. IsWellFoundedOn(Less, Nat)
  BY NatLessThanWellFounded DEF OpToRel
<1>3. PICK x \in T : \A y \in T : ~(<<y, x>> \in Less)
  <2> HIDE DEF T, Less
  <2> QED BY <1>1, <1>2, WFMin
<1>4. PICK i \in S : x = n - i
  OBVIOUS
<1>5. \A j \in S : j <= i
  <2> SUFFICES ASSUME NEW j \in S PROVE j <= i
    OBVIOUS
  <2>1. n - j \in T /\ n - j \in Nat /\ x \in Nat /\ i \in Nat /\ j \in Nat
    BY <1>1
  <2>2. ~(n - j < x)
    BY <1>3, <2>1
  <2> QED BY <1>4, <2>1, <2>2
<1> QED BY <1>5

\* loadIndex gives the offset of the last entry.
LEMMA LastEntry ==
  ASSUME NEW e \in Seq(Entry), NEW u \in Users,
         NEW i \in Mine(e, u), \A j \in Mine(e, u) : j <= i
  PROVE  LoadIndex(e)[u] = e[i].offset
<1> DEFINE k == CHOOSE m \in Mine(e, u) : \A j \in Mine(e, u) : j <= m
<1>1. Mine(e, u) # {} /\ k \in Mine(e, u) /\ \A j \in Mine(e, u) : j <= k
  OBVIOUS
<1>2. k = i
  <2> HIDE DEF k
  <2>1. k <= i /\ i <= k
    BY <1>1
  <2>2. k \in Nat /\ i \in Nat
    BY <1>1 DEF Mine
  <2> QED BY <2>1, <2>2
<1>3. LoadIndex(e)[u] = e[k].offset
  BY <1>1 DEF LoadIndex, Mine
<1> HIDE DEF k
<1> QED BY <1>2, <1>3

LEMMA NoEntry ==
  ASSUME NEW e, NEW u \in Users, Mine(e, u) = {}
  PROVE  LoadIndex(e)[u] = Absent
BY DEF LoadIndex, Mine

LEMMA EntryExists ==
  ASSUME NEW e \in Seq(Entry), NEW u \in Users, Mine(e, u) # {}
  PROVE  \E i \in Mine(e, u) : \A j \in Mine(e, u) : j <= i
<1>1. Len(e) \in Nat /\ Mine(e, u) \in SUBSET (1..Len(e))
  BY DEF Mine
<1> QED BY <1>1, GreatestExists

\* An index read back points where the entries of the file do.
LEMMA LoadedOffsets ==
  ASSUME NEW e \in Seq(Entry), NEW m \in Nat, \A i \in 1..Len(e) : e[i].offset \in -1..m
  PROVE  LoadIndex(e) \in [Users -> -1..m]
<1>1. ASSUME NEW u \in Users PROVE LoadIndex(e)[u] \in -1..m
  <2>1. CASE Mine(e, u) = {}
    BY <2>1, NoEntry DEF Absent
  <2>2. CASE Mine(e, u) # {}
    <3>1. PICK i \in Mine(e, u) : \A j \in Mine(e, u) : j <= i
      BY <2>2, EntryExists
    <3> QED BY <3>1, LastEntry DEF Mine
  <2> QED BY <2>1, <2>2
<1>2. LoadIndex(e) = [u \in Users |-> LoadIndex(e)[u]]
  BY DEF LoadIndex
<1> QED BY <1>1, <1>2

\* An entry appended to the file replaces the one of its user, and no other.
LEMMA LoadAppended ==
  ASSUME NEW e \in Seq(Entry), NEW new \in Entry, NEW u \in Users
  PROVE  LoadIndex(Append(e, new))[u] = IF u = new.user THEN new.offset ELSE LoadIndex(e)[u]
<1> DEFINE a == Append(e, new)
<1>1. /\ a \in Seq(Entry) /\ Len(e) \in Nat /\ Len(a) = Len(e) + 1 /\ a[Len(e) + 1] = new
      /\ \A i \in 1..Len(e) : a[i] = e[i]
  OBVIOUS
<1> HIDE DEF a
<1>2. CASE u = new.user
  <2>1. Len(e) + 1 \in Mine(a, u) /\ \A j \in Mine(a, u) : j <= Len(e) + 1
    BY <1>1, <1>2 DEF Mine
  <2>2. LoadIndex(a)[u] = a[Len(e) + 1].offset
    BY <1>1, <2>1, LastEntry
  <2> QED BY <1>1, <1>2, <2>2 DEF a
<1>3. CASE u # new.user
  <2>1. Mine(a, u) = Mine(e, u)
    <3>1. ASSUME NEW i \in Mine(a, u) PROVE i \in Mine(e, u)
      <4>1. i \in 1..(Len(e) + 1) /\ a[i].user = u /\ i # Len(e) + 1
        BY <1>1, <1>3 DEF Mine
      <4>2. i \in 1..Len(e)
        BY <1>1, <4>1
      <4> QED BY <1>1, <4>1, <4>2 DEF Mine
    <3>2. ASSUME NEW i \in Mine(e, u) PROVE i \in Mine(a, u)
      BY <1>1 DEF Mine
    <3> QED BY <3>1, <3>2
  <2>2. CASE Mine(e, u) = {}
    BY <1>3, <2>1, <2>2, NoEntry DEF a
  <2>3. CASE Mine(e, u) # {}
    <3>1. PICK i \in Mine(e, u) : \A j \in Mine(e, u) : j <= i
      BY <2>3, EntryExists
    <3>2. LoadIndex(e)[u] = e[i].offset /\ LoadIndex(a)[u] = a[i].offset
      BY <1>1, <2>1, <3>1, LastEntry
    <3>3. a[i] = e[i]
      BY <1>1 DEF Mine
    <3> QED BY <1>3, <3>2, <3>3 DEF a
  <2> QED BY <2>2, <2>3
<1> QED BY <1>2, <1>3

-----------------------------------------------------------------------------
(***************************************************************************)
(* The data file.                                                          *)
(***************************************************************************)

LEMMA RecordIs ==
  ASSUME NEW u \in Users, NEW n \in 0..MaxItems
  PROVE  /\ Record(u, n) \in Seq(Cells) /\ Len(Record(u, n)) = n + 1
         /\ Record(u, n)[1] = FixedPart(u, n)
         /\ \A i \in 2..(n + 1) : Record(u, n)[i] = Slot(u)
         /\ FixedPart(u, n).kind = "fixed" /\ FixedPart(u, n).user = u /\ FixedPart(u, n).items = n
<1>1. n \in Nat
  BY Bounds
<1>2. FixedPart(u, n) \in Cells /\ Slot(u) \in Cells
  BY Bounds DEF FixedPart, Slot, Cells
<1>3. \A i \in 1..(n + 1) : (IF i = 1 THEN FixedPart(u, n) ELSE Slot(u)) \in Cells
  BY <1>2
<1>4. Record(u, n) \in Seq(Cells) /\ Len(Record(u, n)) = n + 1
  BY <1>1, <1>3 DEF Record
<1>5. Record(u, n)[1] = FixedPart(u, n) /\ \A i \in 2..(n + 1) : Record(u, n)[i] = Slot(u)
  BY <1>1 DEF Record
<1>6. FixedPart(u, n).kind = "fixed" /\ FixedPart(u, n).user = u /\ FixedPart(u, n).items = n
  BY DEF FixedPart
<1> QED BY <1>4, <1>5, <1>6

\* A write from inside the file, or from its end, leaves no hole and nothing else
\* changed.
LEMMA WriteIs ==
  ASSUME NEW f \in Seq(Cells), NEW r \in Seq(Cells), NEW at \in 1..(Len(f) + 1), Len(r) > 0
  PROVE  /\ WriteAt(f, at, r) \in Seq(Cells)
         /\ Len(WriteAt(f, at, r)) >= Len(f) /\ Len(WriteAt(f, at, r)) >= at + Len(r) - 1
         /\ at = Len(f) + 1 => Len(WriteAt(f, at, r)) = Len(f) + Len(r)
         /\ \A i \in 1..Len(r) : WriteAt(f, at, r)[at + i - 1] = r[i]
         /\ \A i \in 1..Len(f) : i \notin at..(at + Len(r) - 1) => WriteAt(f, at, r)[i] = f[i]
<1> DEFINE past == at + Len(r) - 1
           top == IF past > Len(f) THEN past ELSE Len(f)
           g == [i \in 1..top |-> IF i \in at..past THEN r[i - at + 1] ELSE f[i]]
<1>1. WriteAt(f, at, r) = g
  BY DEF WriteAt
<1>2. Len(f) \in Nat /\ Len(r) \in Nat \ {0} /\ at \in Nat \ {0} /\ at <= Len(f) + 1
  OBVIOUS
<1>3. past \in Nat /\ top \in Nat /\ top >= past /\ top >= Len(f) /\ past >= at
  BY <1>2
<1>4. at = Len(f) + 1 => top = Len(f) + Len(r)
  BY <1>2
<1>5. \A i \in 1..top : (IF i \in at..past THEN r[i - at + 1] ELSE f[i]) \in Cells
  <2> SUFFICES ASSUME NEW i \in 1..top
               PROVE  (IF i \in at..past THEN r[i - at + 1] ELSE f[i]) \in Cells
    OBVIOUS
  <2>1. CASE i \in at..past
    <3>1. i - at + 1 \in 1..Len(r)
      BY <1>2, <2>1
    <3> QED BY <2>1, <3>1
  <2>2. CASE i \notin at..past
    <3>1. i \in 1..Len(f)
      BY <1>2, <2>2
    <3> QED BY <2>2, <3>1
  <2> QED BY <2>1, <2>2
<1>6. g \in Seq(Cells) /\ Len(g) = top
  <2> HIDE DEF top, past
  <2> QED BY <1>3, <1>5
<1>7. \A i \in 1..Len(r) : g[at + i - 1] = r[i]
  <2> SUFFICES ASSUME NEW i \in 1..Len(r) PROVE g[at + i - 1] = r[i]
    OBVIOUS
  <2>1. at + i - 1 \in at..past /\ at + i - 1 \in 1..top /\ (at + i - 1) - at + 1 = i
    BY <1>2
  <2> QED BY <2>1
<1>8. \A i \in 1..Len(f) : i \notin at..past => g[i] = f[i]
  BY <1>2
<1> HIDE DEF g, top
<1> QED BY <1>1, <1>3, <1>4, <1>6, <1>7, <1>8

-----------------------------------------------------------------------------
(***************************************************************************)
(* The invariant.  What matters is the index a restart would find: the one *)
(* in memory but for the entry that savePlayer has still to append.        *)
(***************************************************************************)

Kept == LoadIndex(index_file)

\* Under an index, with the widest extents reach.
StartsIn(at) == at \notin {Absent, Nowhere}

ReadableAt(f, at, u) ==
  /\ at \in 1..Len(f)
  /\ f[at].kind = "fixed" /\ f[at].user = u
  /\ at + f[at].items <= Len(f)
  /\ \A i \in (at + 1)..(at + f[at].items) : f[i] = Slot(u)

\* The record of u is no longer than its widest extent.
WholeAt(f, at, u, wide) == ReadableAt(f, at, u) /\ f[at].items <= wide

Meet(at, wide, from, broad) == at <= from + broad /\ from <= at + wide

MeetsAnother(u, ind, r) ==
  \E w \in Users \ {u} : StartsIn(ind[w]) /\ Meet(ind[u], r[u], ind[w], r[w])

\* Each record is whole or ran into another, and ends in the file.
RecordsSound(f, ind, r) ==
  \A u \in Users : StartsIn(ind[u]) =>
    /\ ind[u] + r[u] <= Len(f)
    /\ WholeAt(f, ind[u], u, r[u]) \/ MeetsAnother(u, ind, r)

IndexInv ==
  /\ TypeOK
  /\ \A i \in 1..Len(index_file) : index_file[i].offset \in -1..Len(data_file)
  /\ pc \in {"idle", "saving world"} => index = Kept
  /\ pc = "indexing" =>
       /\ \A u \in Users : u # saving => index[u] = Kept[u]
       /\ Kept[saving] = Absent /\ index[saving] \in -1..Len(data_file)
  /\ pc \in {"idle", "indexing"} /\ world_file = "empty" => world = "unset"

\* A record just appended is whole.
NewestIsWhole ==
  pc = "indexing" /\ StartsIn(index[saving]) =>
    WholeAt(data_file, index[saving], saving, 0) /\ reach[saving] = 0

StorageInv ==
  /\ IndexInv
  /\ RecordsSound(data_file, Kept, reach)
  /\ NewestIsWhole
  /\ SilenceHasACause

LEMMA KeptIs ==
  ASSUME IndexInv
  PROVE  /\ Kept \in [Users -> -1..Len(data_file)] /\ Len(data_file) \in Nat
         /\ index_file \in Seq(Entry)
<1>1. index_file \in Seq(Entry) /\ data_file \in Seq(Cells)
  BY DEF IndexInv, TypeOK, Entry
<1>2. Len(data_file) \in Nat /\ \A i \in 1..Len(index_file) : index_file[i].offset \in -1..Len(data_file)
  <2>1. Len(data_file) \in Nat
    BY <1>1
  <2> QED BY <2>1 DEF IndexInv
<1>3. PICK m \in Nat : m = Len(data_file)
  BY <1>2
<1>4. LoadIndex(index_file) \in [Users -> -1..m]
  BY <1>1, <1>2, <1>3, LoadedOffsets
<1> QED BY <1>1, <1>3, <1>4 DEF Kept

LEMMA IntactIs == \A u : Intact(u) <=> ReadableAt(data_file, index[u], u)
BY DEF Intact, ReadableAt

\* What a longer file keeps of a record.
LEMMA WholeStays ==
  ASSUME NEW f \in Seq(Cells), NEW g \in Seq(Cells), NEW at, NEW u, NEW wide,
         WholeAt(f, at, u, wide), Len(g) >= Len(f),
         \A i \in at..(at + f[at].items) : g[i] = f[i]
  PROVE  WholeAt(g, at, u, wide)
<1>1. at \in 1..Len(f) /\ Len(f) \in Nat /\ Len(g) \in Nat /\ f[at].items \in Int /\ f[at].items >= 0
  <2>1. at \in 1..Len(f)
    BY DEF WholeAt, ReadableAt
  <2>2. f[at] \in Cells
    BY <2>1
  <2> QED BY <2>1, <2>2, Bounds DEF Cells
<1>2. g[at] = f[at] /\ at \in 1..Len(g)
  BY <1>1
<1>3. \A i \in (at + 1)..(at + f[at].items) : g[i] = f[i]
  BY <1>1
<1> QED BY <1>1, <1>2, <1>3 DEF WholeAt, ReadableAt

\* Records stay as they are when the file only grows behind its end.
LEMMA SoundStays ==
  ASSUME NEW f \in Seq(Cells), NEW g \in Seq(Cells), Len(g) >= Len(f),
         \A i \in 1..Len(f) : g[i] = f[i],
         NEW ind \in [Users -> Int], NEW r \in [Users -> 0..MaxItems], NEW s \in [Users -> 0..MaxItems],
         \A u \in Users : StartsIn(ind[u]) => s[u] = r[u],
         RecordsSound(f, ind, r)
  PROVE  RecordsSound(g, ind, s)
<1> SUFFICES ASSUME NEW u \in Users, StartsIn(ind[u])
             PROVE  /\ ind[u] + s[u] <= Len(g)
                    /\ WholeAt(g, ind[u], u, s[u]) \/ MeetsAnother(u, ind, s)
  BY DEF RecordsSound
<1>1. s[u] = r[u] /\ ind[u] + r[u] <= Len(f) /\ (WholeAt(f, ind[u], u, r[u]) \/ MeetsAnother(u, ind, r))
  BY DEF RecordsSound
<1>2. ind[u] + s[u] <= Len(g)
  <2>1. ind[u] \in Int /\ r[u] \in Int /\ Len(f) \in Nat /\ Len(g) \in Nat
    BY Bounds
  <2> QED BY <1>1, <2>1
<1>3. ASSUME WholeAt(f, ind[u], u, r[u]) PROVE WholeAt(g, ind[u], u, s[u])
  <2>1. \A i \in ind[u]..(ind[u] + f[ind[u]].items) : g[i] = f[i]
    <3>1. ind[u] \in 1..Len(f) /\ f[ind[u]] \in Cells /\ ind[u] + f[ind[u]].items <= Len(f)
      BY <1>3 DEF WholeAt, ReadableAt
    <3>2. f[ind[u]].items \in 0..MaxItems
      BY <3>1 DEF Cells
    <3>3. PICK k \in Nat : k = f[ind[u]].items
      BY <3>2, Bounds
    <3>4. PICK at \in 1..Len(f) : at = ind[u]
      BY <3>1
    <3>5. at + k <= Len(f)
      BY <3>1, <3>3, <3>4
    <3>6. \A i \in at..(at + k) : i \in 1..Len(f)
      BY <3>5
    <3> QED BY <3>3, <3>4, <3>6
  <2>2. PICK at \in Int : at = ind[u]
    OBVIOUS
  <2>3. PICK k \in 0..MaxItems : k = r[u]
    OBVIOUS
  <2>4. WholeAt(f, at, u, k) /\ \A i \in at..(at + f[at].items) : g[i] = f[i]
    BY <1>3, <2>1, <2>2, <2>3
  <2>5. WholeAt(g, at, u, k)
    BY <2>4, WholeStays
  <2> QED BY <1>1, <2>2, <2>3, <2>5
<1>4. ASSUME MeetsAnother(u, ind, r) PROVE MeetsAnother(u, ind, s)
  BY <1>1, <1>4 DEF MeetsAnother
<1> QED BY <1>1, <1>2, <1>3, <1>4

-----------------------------------------------------------------------------
(***************************************************************************)
(* The steps.                                                              *)
(***************************************************************************)

LEMMA Types ==
  ASSUME StorageInv
  PROVE  /\ data_file \in Seq(Cells) /\ Len(data_file) \in Nat /\ reach \in [Users -> 0..MaxItems]
         /\ Kept \in [Users -> Int] /\ Kept \in [Users -> -1..Len(data_file)]
         /\ index \in [Users -> Int] /\ index_file \in Seq(Entry)
<1>1. Kept \in [Users -> -1..Len(data_file)] /\ Len(data_file) \in Nat /\ index_file \in Seq(Entry)
  BY KeptIs DEF StorageInv
<1>2. \A u \in Users : Kept[u] \in Int
  BY <1>1
<1>3. Kept \in [Users -> Int]
  BY <1>1, <1>2
<1> QED BY <1>1, <1>3 DEF StorageInv, IndexInv, TypeOK

\* A new record goes behind the file, or nowhere if the stream has failed.
LEMMA AppendKeeps ==
  ASSUME StorageInv, NEW u \in Users, AppendRecord(u)
  PROVE  StorageInv'
<1> DEFINE f == data_file
           g == data_file'
           at == index'[u]
<1>1. /\ pc = "idle" /\ index[u] = Absent /\ pc' = "indexing" /\ saving' = u
      /\ index' = [index EXCEPT ![u] = IF failed THEN Nowhere ELSE Len(f) + 1]
      /\ g = IF failed THEN f ELSE WriteAt(f, Len(f) + 1, Record(u, 0))
      /\ reach' = [reach EXCEPT ![u] = 0]
      /\ UNCHANGED <<index_file, world_file, failed, world, saver, crashes>>
      /\ index = Kept /\ Kept' = Kept
  BY DEF AppendRecord, StorageInv, IndexInv, Kept
<1>2. f \in Seq(Cells) /\ Len(f) \in Nat /\ reach \in [Users -> 0..MaxItems] /\ Kept \in [Users -> Int]
      /\ index \in [Users -> Int] /\ index_file \in Seq(Entry)
  BY Types
<1>3. /\ g \in Seq(Cells) /\ Len(g) \in Nat /\ Len(g) >= Len(f) /\ \A i \in 1..Len(f) : g[i] = f[i]
      /\ ~failed => Len(g) = Len(f) + 1 /\ g[Len(f) + 1] = FixedPart(u, 0)
  <2>1. CASE failed
    BY <1>1, <1>2, <2>1
  <2>2. CASE ~failed
    <3>1. PICK z \in 0..MaxItems : z = 0
      BY Bounds
    <3>2. PICK r \in Seq(Cells) : r = Record(u, z) /\ Len(r) = z + 1 /\ r[1] = FixedPart(u, z)
      BY RecordIs
    <3>3. Len(r) = 1 /\ Len(r) > 0 /\ r[1] = FixedPart(u, 0)
      BY <3>1, <3>2
    <3>4. PICK k \in 1..(Len(f) + 1) : k = Len(f) + 1
      <4>1. Len(f) \in Nat
        BY <1>2
      <4> HIDE DEF f
      <4>2. Len(f) + 1 \in 1..(Len(f) + 1)
        BY <4>1
      <4> QED BY <4>2
    <3>5. PICK h \in Seq(Cells) : h = f
      BY <1>2
    <3>6. k \in 1..(Len(h) + 1) /\ k = Len(h) + 1 /\ k \in Nat
      BY <1>2, <3>4, <3>5
    <3>7. /\ WriteAt(h, k, r) \in Seq(Cells)
          /\ Len(WriteAt(h, k, r)) = Len(h) + Len(r)
          /\ \A i \in 1..Len(r) : WriteAt(h, k, r)[k + i - 1] = r[i]
          /\ \A i \in 1..Len(h) : i \notin k..(k + Len(r) - 1) => WriteAt(h, k, r)[i] = h[i]
      BY <3>3, <3>6, WriteIs
    <3>8. g = WriteAt(h, k, r)
      BY <1>1, <2>2, <3>1, <3>2, <3>4, <3>5
    <3> HIDE DEF g, f
    <3>9. WriteAt(h, k, r)[k] = FixedPart(u, 0)
      <4>1. 1 \in 1..Len(r) /\ k + 1 - 1 = k
        BY <3>3, <3>6
      <4>2. WriteAt(h, k, r)[k + 1 - 1] = r[1]
        BY <3>7, <4>1
      <4> QED BY <3>3, <4>1, <4>2
    <3>10. \A i \in 1..Len(h) : i \notin k..(k + Len(r) - 1)
      BY <3>3, <3>6
    <3>11. \A i \in 1..Len(h) : g[i] = h[i]
      BY <3>7, <3>8, <3>10
    <3>12. Len(g) = Len(h) + 1 /\ g \in Seq(Cells)
      BY <3>3, <3>7, <3>8
    <3> QED BY <2>2, <3>4, <3>5, <3>6, <3>8, <3>9, <3>11, <3>12
  <2> QED BY <2>1, <2>2
<1>4. /\ at = IF failed THEN Nowhere ELSE Len(f) + 1
      /\ \A v \in Users : v # u => index'[v] = index[v]
      /\ index' \in [Users -> Int] /\ reach' \in [Users -> 0..MaxItems]
      /\ reach'[u] = 0 /\ \A v \in Users : v # u => reach'[v] = reach[v]
  BY <1>1, <1>2, Bounds DEF Nowhere
<1>5. IndexInv'
  <2>1. TypeOK'
    <3>1. TypeOK
      BY DEF StorageInv, IndexInv
    <3>2. saving' \in Users /\ saving' # Nobody
      BY <1>1, Bounds
    <3> QED BY <1>1, <1>3, <1>4, <3>1, <3>2 DEF TypeOK
  <2>2. \A i \in 1..Len(index_file') : index_file'[i].offset \in -1..Len(g)
    <3>1. \A i \in 1..Len(index_file) : index_file[i].offset \in -1..Len(f)
      BY DEF StorageInv, IndexInv
    <3> QED BY <1>1, <1>2, <1>3, <3>1
  <2>3. at \in -1..Len(g)
    BY <1>2, <1>3, <1>4 DEF Nowhere
  <2>4. world_file' = "empty" => world' = "unset"
    BY <1>1 DEF StorageInv, IndexInv
  <2> HIDE DEF g, f
  <2> QED BY <1>1, <1>4, <2>1, <2>2, <2>3, <2>4 DEF IndexInv, g
<1>6. RecordsSound(data_file, Kept, reach)'
  <2>1. \A v \in Users : StartsIn(Kept[v]) => reach'[v] = reach[v]
    BY <1>1, <1>4 DEF StartsIn
  <2>2. RecordsSound(f, Kept, reach)
    BY DEF StorageInv
  <2> HIDE DEF f, g
  <2>3. RecordsSound(g, Kept, reach')
    BY <1>2, <1>3, <1>4, <2>1, <2>2, SoundStays
  <2> QED BY <1>1, <2>3 DEF g
<1>7. NewestIsWhole'
  <2>1. StartsIn(at) => WholeAt(g, at, u, 0)
    <3> SUFFICES ASSUME StartsIn(at) PROVE WholeAt(g, at, u, 0)
      OBVIOUS
    <3>1. ~failed /\ at = Len(f) + 1 /\ g[at] = FixedPart(u, 0) /\ at \in 1..Len(g) /\ at + 0 <= Len(g)
      BY <1>2, <1>3, <1>4 DEF StartsIn
    <3>2. g[at].kind = "fixed" /\ g[at].user = u /\ g[at].items = 0
      BY <3>1 DEF FixedPart
    <3>3. \A i \in (at + 1)..(at + g[at].items) : FALSE
      BY <3>1, <3>2
    <3> QED BY <3>1, <3>2, <3>3 DEF WholeAt, ReadableAt
  <2> QED BY <1>1, <1>4, <2>1 DEF NewestIsWhole
<1>8. SilenceHasACause'
  <2> SUFFICES ASSUME failed PROVE \E v \in Users : index'[v] # Absent /\ ~Intact(v)'
    BY <1>1 DEF SilenceHasACause
  <2>1. PICK v \in Users : index[v] # Absent /\ ~Intact(v)
    BY <1>1 DEF StorageInv, SilenceHasACause
  <2>2. v # u /\ index'[v] = index[v] /\ g = f
    BY <1>1, <1>4, <2>1
  <2>3. ~Intact(v)'
    BY <2>1, <2>2 DEF Intact
  <2> QED BY <2>1, <2>2, <2>3
<1> QED BY <1>5, <1>6, <1>7, <1>8 DEF StorageInv

\* The entry of a new record makes the index file what the memory has.
LEMMA SaveEntryKeeps ==
  ASSUME StorageInv, SaveIndexEntry
  PROVE  StorageInv'
<1>1. /\ pc = "indexing" /\ pc' = "idle" /\ saving' = Nobody
      /\ index_file' = Append(index_file, [user |-> saving, offset |-> index[saving]])
      /\ UNCHANGED <<data_file, world_file, index, failed, world, saver, reach, crashes>>
  BY DEF SaveIndexEntry
<1>2. /\ data_file \in Seq(Cells) /\ Len(data_file) \in Nat /\ reach \in [Users -> 0..MaxItems]
      /\ Kept \in [Users -> Int] /\ index \in [Users -> Int] /\ index_file \in Seq(Entry)
  BY Types
<1>3. saving \in Users /\ Kept[saving] = Absent /\ \A u \in Users : u # saving => index[u] = Kept[u]
  BY <1>1 DEF StorageInv, IndexInv, TypeOK
<1>4. PICK new \in Entry : new = [user |-> saving, offset |-> index[saving]]
  BY <1>2, <1>3 DEF Entry
<1>5. \A u \in Users : Kept'[u] = index[u]
  <2>1. \A u \in Users : LoadIndex(Append(index_file, new))[u]
                           = IF u = new.user THEN new.offset ELSE LoadIndex(index_file)[u]
    BY <1>2, LoadAppended
  <2> QED BY <1>1, <1>3, <1>4, <2>1 DEF Kept
<1>6. Kept' = index
  <2>1. Kept' = [u \in Users |-> Kept'[u]]
    BY DEF Kept, LoadIndex
  <2>2. index = [u \in Users |-> index[u]]
    BY <1>2
  <2> QED BY <1>5, <2>1, <2>2
<1>7. IndexInv'
  <2>1. TypeOK'
    <3>1. TypeOK
      BY DEF StorageInv, IndexInv
    <3>2. index_file' \in Seq([user : Users, offset : Int])
      BY <1>1, <1>2, <1>4 DEF Entry
    <3> QED BY <1>1, <3>1, <3>2 DEF TypeOK
  <2>2. \A i \in 1..Len(index_file') : index_file'[i].offset \in -1..Len(data_file')
    <3>1. \A i \in 1..Len(index_file) : index_file[i].offset \in -1..Len(data_file)
      BY DEF StorageInv, IndexInv
    <3>2. new.offset \in -1..Len(data_file)
      BY <1>1, <1>4 DEF StorageInv, IndexInv
    <3>3. /\ Len(index_file') = Len(index_file) + 1 /\ index_file'[Len(index_file) + 1] = new
          /\ \A i \in 1..Len(index_file) : index_file'[i] = index_file[i] /\ Len(index_file) \in Nat
      BY <1>1, <1>2, <1>4
    <3> QED BY <1>1, <1>2, <3>1, <3>2, <3>3
  <2>3. index' = Kept'
    BY <1>1, <1>6
  <2>4. world_file' = "empty" => world' = "unset"
    BY <1>1 DEF StorageInv, IndexInv
  <2> QED BY <1>1, <2>1, <2>2, <2>3, <2>4 DEF IndexInv
<1>8. RecordsSound(data_file, Kept, reach)'
  <2>1. RecordsSound(data_file, index, reach)
    <3> SUFFICES ASSUME NEW u \in Users, StartsIn(index[u])
                 PROVE  /\ index[u] + reach[u] <= Len(data_file)
                        /\ WholeAt(data_file, index[u], u, reach[u]) \/ MeetsAnother(u, index, reach)
      BY DEF RecordsSound
    <3>1. CASE u = saving
      <4>1. WholeAt(data_file, index[u], u, 0) /\ reach[u] = 0
        BY <1>1, <3>1 DEF StorageInv, NewestIsWhole
      <4>2. index[u] \in 1..Len(data_file)
        BY <4>1 DEF WholeAt, ReadableAt
      <4> QED BY <1>2, <4>1, <4>2
    <3>2. CASE u # saving
      <4>1. /\ index[u] = Kept[u] /\ Kept[u] + reach[u] <= Len(data_file)
            /\ WholeAt(data_file, Kept[u], u, reach[u]) \/ MeetsAnother(u, Kept, reach)
        BY <1>3, <3>2 DEF StorageInv, RecordsSound
      <4>2. MeetsAnother(u, Kept, reach) => MeetsAnother(u, index, reach)
        <5>1. \A w \in Users : StartsIn(Kept[w]) => index[w] = Kept[w]
          BY <1>3 DEF StartsIn
        <5> QED BY <4>1, <5>1 DEF MeetsAnother
      <4> QED BY <4>1, <4>2
    <3> QED BY <3>1, <3>2
  <2> QED BY <1>1, <1>6, <2>1
<1>9. NewestIsWhole' /\ SilenceHasACause'
  BY <1>1 DEF StorageInv, NewestIsWhole, SilenceHasACause, Intact
<1> QED BY <1>7, <1>8, <1>9 DEF StorageInv

\* A record written over the last one of its user, longer or not, stays clear of the
\* others or runs into one of them.
LEMMA OverwriteIsSound ==
  ASSUME NEW f \in Seq(Cells), NEW ind \in [Users -> Int], NEW r \in [Users -> 0..MaxItems],
         NEW s \in [Users -> 0..MaxItems], NEW u \in Users, NEW n \in 0..MaxItems,
         RecordsSound(f, ind, r), ind[u] \in 1..Len(f),
         n <= s[u], s[u] = n \/ s[u] = r[u], \A v \in Users : r[v] <= s[v],
         \A v \in Users \ {u} : s[v] = r[v],
         NEW g, g = WriteAt(f, ind[u], Record(u, n))
  PROVE  /\ RecordsSound(g, ind, s)
         /\ g \in Seq(Cells) /\ Len(g) >= Len(f)
<1>1. PICK at \in 1..Len(f) : at = ind[u]
  OBVIOUS
<1>2. PICK w \in Seq(Cells) : /\ w = Record(u, n) /\ Len(w) = n + 1 /\ w[1] = FixedPart(u, n)
                             /\ \A i \in 2..(n + 1) : w[i] = Slot(u)
  BY RecordIs
<1>3. n \in Nat /\ Len(f) \in Nat /\ at \in Nat /\ at >= 1 /\ at <= Len(f) /\ Len(w) > 0
  BY <1>2, Bounds
<1>4. at \in 1..(Len(f) + 1)
  BY <1>3
<1>5. /\ WriteAt(f, at, w) \in Seq(Cells)
      /\ Len(WriteAt(f, at, w)) >= Len(f) /\ Len(WriteAt(f, at, w)) >= at + Len(w) - 1
      /\ \A i \in 1..Len(w) : WriteAt(f, at, w)[at + i - 1] = w[i]
      /\ \A i \in 1..Len(f) : i \notin at..(at + Len(w) - 1) => WriteAt(f, at, w)[i] = f[i]
  BY <1>3, <1>4, WriteIs
<1>6. g = WriteAt(f, at, w)
  BY <1>1, <1>2
<1>7. g \in Seq(Cells) /\ Len(g) \in Nat /\ Len(g) >= Len(f) /\ Len(g) >= at + n
  <2>1. g \in Seq(Cells) /\ Len(g) >= Len(f) /\ Len(g) >= at + Len(w) - 1
    BY <1>5, <1>6
  <2>2. Len(g) \in Nat
    BY <2>1
  <2> QED BY <1>2, <1>3, <2>1, <2>2
<1>8. \A i \in 1..Len(w) : g[at + i - 1] = w[i]
  BY <1>5, <1>6
<1>9. \A i \in 1..Len(f) : i \notin at..(at + n) => g[i] = f[i]
  <2>1. at + Len(w) - 1 = at + n
    BY <1>2, <1>3
  <2> QED BY <1>5, <1>6, <2>1
<1>10. \A v \in Users : ind[v] \in Int /\ r[v] \in Nat /\ s[v] \in Nat /\ r[v] <= s[v]
  <2> SUFFICES ASSUME NEW v \in Users PROVE ind[v] \in Int /\ r[v] \in Nat /\ s[v] \in Nat /\ r[v] <= s[v]
    OBVIOUS
  <2>1. r[v] \in 0..MaxItems /\ s[v] \in 0..MaxItems /\ ind[v] \in Int /\ r[v] <= s[v]
    OBVIOUS
  <2> QED BY <2>1, Bounds
<1>11. ind[u] + s[u] <= Len(g) /\ WholeAt(g, ind[u], u, s[u])
  <2>1. StartsIn(ind[u])
    BY <1>1, <1>3 DEF StartsIn, Absent, Nowhere
  <2>2. ind[u] + r[u] <= Len(f)
    BY <2>1 DEF RecordsSound
  <2>3. at + s[u] <= Len(g)
    BY <1>1, <1>3, <1>7, <1>10, <2>2
  <2>4. g[at] = FixedPart(u, n)
    <3>1. 1 \in 1..Len(w) /\ at + 1 - 1 = at
      BY <1>2, <1>3
    <3>2. g[at + 1 - 1] = w[1]
      BY <1>8, <3>1
    <3> QED BY <1>2, <3>1, <3>2
  <2>5. g[at].kind = "fixed" /\ g[at].user = u /\ g[at].items = n
    BY <2>4, RecordIs
  <2>6. \A i \in (at + 1)..(at + n) : g[i] = Slot(u)
    <3> SUFFICES ASSUME NEW i \in (at + 1)..(at + n) PROVE g[i] = Slot(u)
      OBVIOUS
    <3>1. PICK k \in 2..(n + 1) : k = i - at + 1
      <4>1. i - at + 1 \in 2..(n + 1)
        BY <1>3
      <4> QED BY <4>1
    <3>2. k \in 1..Len(w) /\ at + k - 1 = i
      BY <1>2, <1>3, <3>1
    <3> QED BY <1>2, <1>8, <3>2
  <2>7. at \in 1..Len(g)
    BY <1>3, <1>7
  <2>8. WholeAt(g, at, u, s[u])
    BY <1>7, <2>5, <2>6, <2>7 DEF WholeAt, ReadableAt
  <2> QED BY <1>1, <2>3, <2>8
<1>12. ASSUME NEW v \in Users \ {u}, StartsIn(ind[v])
       PROVE  /\ ind[v] + s[v] <= Len(g)
              /\ WholeAt(g, ind[v], v, s[v]) \/ MeetsAnother(v, ind, s)
  <2>1. /\ s[v] = r[v] /\ ind[v] + r[v] <= Len(f)
        /\ WholeAt(f, ind[v], v, r[v]) \/ MeetsAnother(v, ind, r)
    BY <1>12 DEF RecordsSound
  <2>2. ind[v] + s[v] <= Len(g)
    BY <1>3, <1>7, <1>10, <2>1
  <2>3. ASSUME MeetsAnother(v, ind, r) PROVE MeetsAnother(v, ind, s)
    <3>1. PICK x \in Users \ {v} : StartsIn(ind[x]) /\ Meet(ind[v], r[v], ind[x], r[x])
      BY <2>3 DEF MeetsAnother
    <3>2. ind[v] <= ind[x] + r[x] /\ ind[x] <= ind[v] + r[v]
      BY <3>1 DEF Meet
    <3>3. ind[v] <= ind[x] + s[x] /\ ind[x] <= ind[v] + s[v]
      BY <1>10, <3>2
    <3> QED BY <3>1, <3>3 DEF MeetsAnother, Meet
  <2>4. ASSUME WholeAt(f, ind[v], v, r[v]), ~Meet(ind[v], s[v], ind[u], s[u])
        PROVE  WholeAt(g, ind[v], v, s[v])
    <3>1. PICK a \in Int : a = ind[v]
      OBVIOUS
    <3>2. PICK k \in Nat : k = s[v]
      BY <1>10
    <3>3. WholeAt(f, a, v, k)
      BY <2>1, <2>4, <3>1, <3>2
    <3>4. a \in 1..Len(f) /\ f[a] \in Cells /\ a + f[a].items <= Len(f) /\ f[a].items <= k
      BY <3>3 DEF WholeAt, ReadableAt
    <3>5. PICK m \in Nat : m = f[a].items
      <4>1. f[a].items \in 0..MaxItems
        BY <3>4 DEF Cells
      <4> QED BY <4>1, Bounds
    <3>6. PICK b \in Nat : b = s[u]
      BY <1>10
    <3>7. ~(a <= at + b /\ at <= a + k)
      BY <1>1, <2>4, <3>1, <3>2, <3>6 DEF Meet
    <3>8. n <= b /\ m <= k /\ a + m <= Len(f) /\ a \in 1..Len(f)
      BY <3>4, <3>5, <3>6
    <3>9. \A i \in a..(a + m) : i \in 1..Len(f) /\ i \notin at..(at + n)
      BY <1>3, <3>7, <3>8
    <3>10. \A i \in a..(a + f[a].items) : g[i] = f[i]
      BY <1>9, <3>5, <3>9
    <3>11. WholeAt(g, a, v, k)
      BY <1>7, <3>3, <3>10, WholeStays
    <3> QED BY <3>1, <3>2, <3>11
  <2>5. ASSUME Meet(ind[v], s[v], ind[u], s[u]) PROVE MeetsAnother(v, ind, s)
    <3>1. StartsIn(ind[u])
      BY <1>1, <1>3 DEF StartsIn, Absent, Nowhere
    <3> QED BY <2>5, <3>1 DEF MeetsAnother
  <2> QED BY <2>1, <2>2, <2>3, <2>4, <2>5
<1>13. RecordsSound(g, ind, s)
  BY <1>11, <1>12 DEF RecordsSound
<1> QED BY <1>7, <1>13

\* A record is rewritten in place, or dropped by a stream that has failed.
LEMMA UpdateKeeps ==
  ASSUME StorageInv, NEW u \in Users, NEW n \in 0..MaxItems, UpdateStatePlayer(u, n)
  PROVE  StorageInv'
<1>1. /\ pc = "idle" /\ index[u] # Absent /\ failed' = (failed \/ index[u] = Nowhere)
      /\ data_file' = IF failed' THEN data_file ELSE WriteAt(data_file, index[u], Record(u, n))
      /\ reach' = IF failed' \/ n <= reach[u] THEN reach ELSE [reach EXCEPT ![u] = n]
      /\ UNCHANGED <<index_file, world_file, index, world, pc, saving, saver, crashes>>
  BY DEF UpdateStatePlayer
<1>2. index = Kept /\ Kept' = Kept
  BY <1>1 DEF StorageInv, IndexInv, Kept
<1>3. /\ data_file \in Seq(Cells) /\ Len(data_file) \in Nat /\ reach \in [Users -> 0..MaxItems]
      /\ index \in [Users -> Int] /\ index_file \in Seq(Entry)
  BY Types
<1>4. failed' \in BOOLEAN
  BY <1>1 DEF StorageInv, IndexInv, TypeOK
<1>5. /\ RecordsSound(data_file, Kept, reach)' /\ SilenceHasACause'
      /\ data_file' \in Seq(Cells) /\ Len(data_file') >= Len(data_file) /\ reach' \in [Users -> 0..MaxItems]
  <2>1. CASE failed'
    <3>1. UNCHANGED <<data_file, reach>>
      BY <1>1, <2>1
    <3>2. \E v \in Users : index[v] # Absent /\ ~Intact(v)
      <4>1. CASE failed
        BY <1>1, <4>1 DEF StorageInv, SilenceHasACause
      <4>2. CASE index[u] = Nowhere
        <5>1. index[u] \notin 1..Len(data_file)
          BY <1>3, <4>2 DEF Nowhere
        <5>2. ~Intact(u)
          BY <5>1 DEF Intact
        <5> QED BY <1>1, <5>2
      <4> QED BY <1>1, <2>1, <4>1, <4>2
    <3>3. \E v \in Users : index'[v] # Absent /\ ~Intact(v)'
      BY <1>1, <3>1, <3>2 DEF Intact
    <3>4. RecordsSound(data_file, Kept, reach)'
      BY <1>2, <3>1 DEF StorageInv
    <3> QED BY <1>3, <3>1, <3>3, <3>4 DEF SilenceHasACause
  <2>2. CASE ~failed'
    <3>1. /\ data_file' = WriteAt(data_file, index[u], Record(u, n)) /\ index[u] # Nowhere
          /\ reach' = IF n <= reach[u] THEN reach ELSE [reach EXCEPT ![u] = n]
      BY <1>1, <2>2
    <3>2. index[u] \in 1..Len(data_file)
      <4>1. index[u] \in -1..Len(data_file)
        BY <1>2, Types
      <4> QED BY <1>1, <1>3, <3>1, <4>1 DEF Absent, Nowhere
    <3>3. PICK s \in [Users -> 0..MaxItems] : s = reach'
      BY <1>3, <3>1
    <3>4. reach[u] \in Nat /\ n \in Nat /\ \A v \in Users : reach[v] \in Nat
      BY <1>3, Bounds
    <3>5. s[u] = IF n <= reach[u] THEN reach[u] ELSE n
      BY <1>3, <3>1, <3>3
    <3>6. \A v \in Users \ {u} : s[v] = reach[v]
      BY <1>3, <3>1, <3>3
    <3>7. n <= s[u] /\ (s[u] = n \/ s[u] = reach[u]) /\ reach[u] <= s[u]
      BY <3>4, <3>5
    <3>8. \A v \in Users : reach[v] <= s[v]
      <4> SUFFICES ASSUME NEW v \in Users PROVE reach[v] <= s[v]
        OBVIOUS
      <4>1. CASE v = u
        BY <3>7, <4>1
      <4>2. CASE v # u
        <5>1. s[v] = reach[v] /\ reach[v] \in Nat
          BY <3>4, <3>6, <4>2
        <5> QED BY <5>1
      <4> QED BY <4>1, <4>2
    <3>9. RecordsSound(data_file, index, reach)
      BY <1>2 DEF StorageInv
    <3>10. PICK g : g = WriteAt(data_file, index[u], Record(u, n))
      OBVIOUS
    <3>11. RecordsSound(g, index, s) /\ g \in Seq(Cells) /\ Len(g) >= Len(data_file)
      BY <1>3, <3>2, <3>6, <3>7, <3>8, <3>9, <3>10, OverwriteIsSound
    <3> QED BY <1>2, <2>2, <3>1, <3>3, <3>10, <3>11 DEF SilenceHasACause
  <2> QED BY <2>1, <2>2
<1>6. IndexInv'
  <2>1. TypeOK'
    <3>1. TypeOK
      BY DEF StorageInv, IndexInv
    <3> QED BY <1>1, <1>4, <1>5, <3>1 DEF TypeOK
  <2>2. \A i \in 1..Len(index_file') : index_file'[i].offset \in -1..Len(data_file')
    <3>1. \A i \in 1..Len(index_file) : index_file[i].offset \in -1..Len(data_file)
      BY DEF StorageInv, IndexInv
    <3>2. Len(data_file') \in Nat
      BY <1>5
    <3> QED BY <1>1, <1>3, <1>5, <3>1, <3>2
  <2>3. world_file' = "empty" => world' = "unset"
    BY <1>1 DEF StorageInv, IndexInv
  <2> QED BY <1>1, <1>2, <2>1, <2>2, <2>3 DEF IndexInv
<1>7. NewestIsWhole'
  BY <1>1 DEF NewestIsWhole
<1> QED BY <1>5, <1>6, <1>7 DEF StorageInv

\* The steps that write no record.
LEMMA OthersKeep ==
  ASSUME StorageInv,
         \/ \E u \in Users : LoadPlayer(u)
         \/ UpdateStranger \/ TruncateWorld \/ WriteWorld \/ Crash \/ Start \/ UNCHANGED vars
  PROVE  StorageInv'
<1>1. UNCHANGED <<data_file, index_file, reach>>
  BY DEF LoadPlayer, UpdateStranger, TruncateWorld, WriteWorld, Crash, Start, vars, files
<1>2. /\ data_file \in Seq(Cells) /\ Len(data_file) \in Nat
      /\ Kept \in [Users -> Int] /\ index \in [Users -> Int]
  BY Types
<1>3. Kept' = Kept /\ RecordsSound(data_file, Kept, reach)'
  BY <1>1 DEF StorageInv, Kept
<1>4. TypeOK
  BY DEF StorageInv, IndexInv
<1>5. (\A i \in 1..Len(index_file) : index_file[i].offset \in -1..Len(data_file))'
  BY <1>1 DEF StorageInv, IndexInv
<1>6. ASSUME NEW u \in Users, LoadPlayer(u) PROVE StorageInv'
  <2>1. /\ pc = "idle" /\ index[u] # Absent
        /\ failed' \in IF index[u] = Nowhere THEN {TRUE} ELSE IF Intact(u) THEN {FALSE} ELSE BOOLEAN
        /\ saver' \in {saver, "misled"}
        /\ UNCHANGED <<data_file, index_file, world_file, index, world, pc, saving, reach, crashes>>
    BY <1>6 DEF LoadPlayer, files
  <2>2. failed' \in BOOLEAN /\ saver' \in {"sound", "misled", "ended"}
    BY <1>4, <2>1 DEF TypeOK
  <2>3. TypeOK'
    BY <1>4, <2>1, <2>2 DEF TypeOK
  <2>4. IndexInv'
    BY <1>3, <1>5, <2>1, <2>3 DEF StorageInv, IndexInv
  <2>5. failed' => ~Intact(u)
    <3>1. index[u] = Nowhere => ~Intact(u)
      BY <1>2 DEF Intact, Nowhere
    <3> QED BY <2>1, <3>1
  <2>6. SilenceHasACause'
    BY <2>1, <2>5 DEF SilenceHasACause, Intact
  <2>7. NewestIsWhole'
    BY <2>1 DEF NewestIsWhole
  <2> QED BY <1>3, <2>4, <2>6, <2>7 DEF StorageInv
<1>7. ASSUME TruncateWorld \/ WriteWorld PROVE StorageInv'
  <2>1. /\ pc \in {"idle", "saving world"} /\ pc' \in {"idle", "saving world"}
        /\ world_file' \in {"empty", "whole"} /\ (pc' = "idle" => world_file' = "whole")
        /\ UNCHANGED <<data_file, index_file, index, failed, world, saving, saver, reach, crashes>>
    BY <1>7 DEF TruncateWorld, WriteWorld
  <2>2. TypeOK'
    BY <1>4, <2>1 DEF TypeOK
  <2>3. IndexInv'
    BY <1>3, <1>5, <2>1, <2>2 DEF StorageInv, IndexInv
  <2>4. SilenceHasACause' /\ NewestIsWhole'
    BY <2>1 DEF StorageInv, SilenceHasACause, Intact, NewestIsWhole
  <2> QED BY <1>3, <2>3, <2>4 DEF StorageInv
<1>8. ASSUME Crash PROVE StorageInv'
  <2>1. /\ pc' = "down" /\ crashes < MaxCrashes /\ crashes' = crashes + 1 /\ saving' = Nobody
        /\ UNCHANGED <<data_file, index_file, world_file, index, failed, world, saver, reach>>
    BY <1>8 DEF Crash, files
  <2>2. crashes' \in 0..MaxCrashes
    <3>1. crashes \in 0..MaxCrashes
      BY <1>4 DEF TypeOK
    <3> QED BY <2>1, <3>1, Bounds
  <2>3. TypeOK'
    BY <1>4, <2>1, <2>2 DEF TypeOK
  <2>4. IndexInv' /\ SilenceHasACause' /\ NewestIsWhole'
    BY <1>5, <2>1, <2>3 DEF IndexInv, SilenceHasACause, NewestIsWhole
  <2> QED BY <1>3, <2>4 DEF StorageInv
<1>9. ASSUME Start PROVE StorageInv'
  <2>1. /\ pc = "down" /\ pc' \in {"idle", "down"} /\ index' = Kept /\ failed' = FALSE
        /\ saver' = "sound"
        /\ world' \in {"generated", "saved", "unset"} /\ (world_file = "empty" => world' = "unset")
        /\ UNCHANGED <<data_file, index_file, world_file, saving, reach, crashes>>
    BY <1>9 DEF Start, files, Kept
  <2>2. TypeOK'
    BY <1>2, <1>4, <2>1 DEF TypeOK
  <2>3. IndexInv' /\ SilenceHasACause' /\ NewestIsWhole'
    BY <1>3, <1>5, <2>1, <2>2 DEF IndexInv, SilenceHasACause, NewestIsWhole
  <2> QED BY <1>3, <2>3 DEF StorageInv
<1>10. ASSUME UNCHANGED vars PROVE StorageInv'
  <2>1. UNCHANGED <<data_file, index_file, world_file, index, failed, world, pc, saving, saver,
                    reach, crashes>>
    BY <1>10 DEF vars, files
  <2>2. TypeOK'
    BY <1>4, <2>1 DEF TypeOK
  <2>3. IndexInv'
    BY <1>3, <1>5, <2>1, <2>2 DEF StorageInv, IndexInv
  <2>4. SilenceHasACause' /\ NewestIsWhole'
    BY <2>1 DEF StorageInv, SilenceHasACause, Intact, NewestIsWhole
  <2> QED BY <1>3, <2>3, <2>4 DEF StorageInv
<1>11. ASSUME UpdateStranger PROVE StorageInv'
  <2>1. /\ saver' = "ended"
        /\ UNCHANGED <<data_file, index_file, world_file, index, failed, world, pc, saving, reach, crashes>>
    BY <1>11 DEF UpdateStranger, files
  <2>2. TypeOK'
    BY <1>4, <2>1 DEF TypeOK
  <2>3. IndexInv'
    BY <1>3, <1>5, <2>1, <2>2 DEF StorageInv, IndexInv
  <2>4. SilenceHasACause' /\ NewestIsWhole'
    BY <2>1 DEF StorageInv, SilenceHasACause, Intact, NewestIsWhole
  <2> QED BY <1>3, <2>3, <2>4 DEF StorageInv
<1> QED BY <1>6, <1>7, <1>8, <1>9, <1>10, <1>11

LEMMA StartsSound == Init => StorageInv
<1> SUFFICES ASSUME Init PROVE StorageInv
  OBVIOUS
<1>1. /\ data_file = <<>> /\ index_file = <<>> /\ world_file = "absent" /\ index = Kept
      /\ failed = FALSE /\ world = "generated" /\ pc = "idle" /\ saving = Nobody
      /\ saver = "sound" /\ reach = [u \in Users |-> 0] /\ crashes = 0
  BY DEF Init, Kept
<1>2. \A u \in Users : Kept[u] = Absent
  <2> SUFFICES ASSUME NEW u \in Users PROVE Kept[u] = Absent
    OBVIOUS
  <2>1. Mine(index_file, u) = {}
    BY <1>1 DEF Mine
  <2> QED BY <2>1, NoEntry DEF Kept
<1>3. index \in [Users -> Int]
  <2>1. index = [u \in Users |-> Kept[u]]
    BY <1>1 DEF Kept, LoadIndex
  <2> QED BY <1>2, <2>1 DEF Absent
<1>4. reach \in [Users -> 0..MaxItems] /\ crashes \in 0..MaxCrashes
  BY <1>1, Bounds
<1>5. TypeOK
  <2>1. data_file \in Seq(Cells) /\ index_file \in Seq([user : Users, offset : Int])
    BY <1>1
  <2>2. saving \in Users \union {Nobody} /\ (pc = "indexing") = (saving # Nobody)
    BY <1>1
  <2> QED BY <1>1, <1>3, <1>4, <2>1, <2>2 DEF TypeOK
<1>6. IndexInv
  BY <1>1, <1>5 DEF IndexInv
<1>7. RecordsSound(data_file, Kept, reach)
  BY <1>2 DEF RecordsSound, StartsIn
<1> QED BY <1>1, <1>6, <1>7 DEF StorageInv, NewestIsWhole, SilenceHasACause

LEMMA StorageIsSound == Spec => []StorageInv
<1>1. StorageInv /\ [Next]_vars => StorageInv'
  <2> SUFFICES ASSUME StorageInv, [Next]_vars PROVE StorageInv'
    OBVIOUS
  <2>1. ASSUME NEW u \in Users, AppendRecord(u) PROVE StorageInv'
    BY <2>1, AppendKeeps
  <2>2. ASSUME NEW u \in Users, NEW n \in 0..MaxItems, UpdateStatePlayer(u, n) PROVE StorageInv'
    BY <2>2, UpdateKeeps
  <2>3. ASSUME SaveIndexEntry PROVE StorageInv'
    BY <2>3, SaveEntryKeeps
  <2>4. ASSUME \/ \E u \in Users : LoadPlayer(u)
               \/ UpdateStranger \/ TruncateWorld \/ WriteWorld \/ Crash \/ Start
               \/ UNCHANGED vars
        PROVE  StorageInv'
    BY <2>4, OthersKeep
  <2> QED BY <2>1, <2>2, <2>3, <2>4 DEF Next
<1> QED BY <1>1, StartsSound, PTL DEF Spec

-----------------------------------------------------------------------------
(***************************************************************************)
(* The theorems.                                                           *)
(***************************************************************************)

\* Between two operations the index file replayed is the index in memory, and no
\* entry points past the data (savePlayer and loadIndex in data_storage.cpp).
THEOREM RestartCorrect == Spec => []RestartFindsEveryPlayer
<1>1. StorageInv => RestartFindsEveryPlayer
  <2> SUFFICES ASSUME StorageInv PROVE RestartFindsEveryPlayer
    OBVIOUS
  <2>1. IndexInv /\ Len(data_file) \in Nat
    BY Types DEF StorageInv
  <2>2. \A i \in 1..Len(index_file) : index_file[i].offset <= Len(data_file)
    <3> SUFFICES ASSUME NEW i \in 1..Len(index_file)
                 PROVE  index_file[i].offset <= Len(data_file)
      OBVIOUS
    <3>1. index_file[i].offset \in -1..Len(data_file)
      BY <2>1 DEF IndexInv
    <3> QED BY <2>1, <3>1
  <2> QED BY <2>1, <2>2 DEF IndexInv, RestartFindsEveryPlayer, Kept
<1> QED BY <1>1, StorageIsSound, PTL

LEMMA DamageIsOverlap ==
  ASSUME StorageInv, pc # "down", NEW u \in Users, Starts(u), ~Intact(u)
  PROVE  RunsIntoAnother(u)
<1>1. ~ReadableAt(data_file, index[u], u) /\ StartsIn(index[u])
  BY IntactIs DEF Starts, StartsIn
<1>2. /\ pc = "indexing" => u # saving
      /\ \A w \in Users : StartsIn(Kept[w]) => index[w] = Kept[w]
      /\ Kept[u] = index[u]
  <2>1. CASE pc = "indexing"
    <3>1. u # saving
      BY <1>1, <2>1 DEF StorageInv, NewestIsWhole, WholeAt
    <3> QED BY <2>1, <3>1 DEF StorageInv, IndexInv, StartsIn
  <2>2. CASE pc # "indexing"
    <3>1. pc \in {"idle", "saving world"}
      BY <2>2 DEF StorageInv, IndexInv, TypeOK
    <3> QED BY <2>2, <3>1 DEF StorageInv, IndexInv
  <2> QED BY <2>1, <2>2
<1>3. MeetsAnother(u, Kept, reach)
  BY <1>1, <1>2 DEF StorageInv, RecordsSound, WholeAt
<1>4. PICK w \in Users \ {u} : StartsIn(Kept[w]) /\ Meet(Kept[u], reach[u], Kept[w], reach[w])
  BY <1>3 DEF MeetsAnother
<1>5. index[w] = Kept[w]
  BY <1>2, <1>4
<1> QED BY <1>2, <1>4, <1>5 DEF RunsIntoAnother, Starts, StartsIn, Overlap, Meet

\* What misleads the thread that saves.  Records that overlap go on overlapping: they
\* keep their places, and no extent shrinks.
Misplaced(u) == index[u] = Nowhere \/ RunsIntoAnother(u)

MisledHasACause == saver # "sound" /\ pc # "down" => \E u \in Users : Misplaced(u)

LEMMA MisplacedStays ==
  ASSUME StorageInv, NEW u \in Users, Misplaced(u),
         \A v \in Users : index[v] # Absent =>
           index'[v] = index[v] /\ reach'[v] \in Nat /\ reach[v] <= reach'[v]
  PROVE  Misplaced(u)'
<1>1. CASE index[u] = Nowhere
  BY <1>1 DEF Misplaced, Absent, Nowhere
<1>2. ASSUME NEW w \in Users \ {u}, Starts(u), Starts(w), Overlap(u, w)
      PROVE  Misplaced(u)'
  <2>1. /\ index[u] \in Int /\ index[w] \in Int /\ reach[u] \in Nat /\ reach[w] \in Nat
    <3>1. reach[u] \in 0..MaxItems /\ reach[w] \in 0..MaxItems
      BY Types
    <3> QED BY <3>1, Types, Bounds
  <2>2. /\ index'[u] = index[u] /\ reach'[u] \in Nat /\ reach[u] <= reach'[u]
        /\ index'[w] = index[w] /\ reach'[w] \in Nat /\ reach[w] <= reach'[w]
    BY <1>2 DEF Starts
  <2>3. Starts(u)' /\ Starts(w)'
    BY <1>2, <2>2 DEF Starts
  <2>4. index[u] <= index[w] + reach'[w] /\ index[w] <= index[u] + reach'[u]
    BY <1>2, <2>1, <2>2 DEF Overlap
  <2>5. Overlap(u, w)'
    BY <2>2, <2>4 DEF Overlap
  <2> QED BY <2>3, <2>5 DEF Misplaced, RunsIntoAnother
<1> QED BY <1>1, <1>2 DEF Misplaced, RunsIntoAnother

LEMMA MisledStep == StorageInv /\ MisledHasACause /\ [Next]_vars => MisledHasACause'
<1> SUFFICES ASSUME StorageInv, MisledHasACause, [Next]_vars PROVE MisledHasACause'
  OBVIOUS
<1>1. /\ reach \in [Users -> 0..MaxItems] /\ index \in [Users -> Int]
      /\ \A v \in Users : reach[v] \in Nat /\ reach[v] <= reach[v]
  <2>1. reach \in [Users -> 0..MaxItems] /\ index \in [Users -> Int]
    BY Types
  <2>2. \A v \in Users : reach[v] \in 0..MaxItems
    BY <2>1
  <2> QED BY <2>1, <2>2, Bounds
<1>2. ASSUME saver # "sound", pc # "down",
             \A v \in Users : index[v] # Absent =>
               index'[v] = index[v] /\ reach'[v] \in Nat /\ reach[v] <= reach'[v]
      PROVE  MisledHasACause'
  BY <1>2, MisplacedStays DEF MisledHasACause
<1>3. ASSUME NEW u \in Users, AppendRecord(u) PROVE MisledHasACause'
  <2>1. /\ pc = "idle" /\ saver' = saver /\ index[u] = Absent
        /\ \A v \in Users : v # u => index'[v] = index[v] /\ reach'[v] = reach[v]
    BY <1>1, <1>3 DEF AppendRecord
  <2> QED BY <1>1, <1>2, <2>1 DEF MisledHasACause
<1>4. ASSUME NEW u \in Users, NEW n \in 0..MaxItems, UpdateStatePlayer(u, n)
      PROVE  MisledHasACause'
  <2>1. /\ pc = "idle" /\ UNCHANGED <<saver, index>>
        /\ reach' = reach \/ (~(n <= reach[u]) /\ reach' = [reach EXCEPT ![u] = n])
    BY <1>4 DEF UpdateStatePlayer
  <2>2. n \in Nat
    BY Bounds
  <2>3. \A v \in Users : reach'[v] \in Nat /\ reach[v] <= reach'[v]
    BY <1>1, <2>1, <2>2
  <2> QED BY <1>2, <2>1, <2>3 DEF MisledHasACause
<1>5. ASSUME NEW u \in Users, LoadPlayer(u) PROVE MisledHasACause'
  <2>1. /\ pc = "idle" /\ index[u] # Absent /\ UNCHANGED <<index, pc, reach>>
        /\ saver' \in IF Intact(u) \/ saver = "ended" THEN {saver} ELSE {saver, "misled"}
    BY <1>5 DEF LoadPlayer
  <2>2. CASE saver # "sound"
    BY <1>1, <1>2, <2>1, <2>2
  <2>3. CASE saver = "sound" /\ saver' # "sound"
    <3>1. ~Intact(u)
      BY <2>1, <2>3
    <3>2. Misplaced(u)
      BY <2>1, <3>1, DamageIsOverlap DEF Misplaced, Starts
    <3>3. Misplaced(u)'
      BY <1>1, <2>1, <3>2, MisplacedStays
    <3> QED BY <3>3 DEF MisledHasACause
  <2> QED BY <2>2, <2>3 DEF MisledHasACause
<1>6. ASSUME \/ SaveIndexEntry \/ UpdateStranger \/ TruncateWorld \/ WriteWorld
             \/ UNCHANGED vars
      PROVE  MisledHasACause'
  <2>1. /\ UNCHANGED <<index, reach>> /\ (pc = "down" => pc' = "down")
        /\ saver' = saver \/ saver # "sound"
    BY <1>6 DEF SaveIndexEntry, UpdateStranger, TruncateWorld, WriteWorld, vars, files
  <2> QED BY <1>1, <1>2, <2>1 DEF MisledHasACause
<1>7. ASSUME Crash \/ Start PROVE MisledHasACause'
  BY <1>7 DEF Crash, Start, MisledHasACause
<1> QED BY <1>3, <1>4, <1>5, <1>6, <1>7 DEF Next

\* A record that cannot be read back ran into the widest extent of another
\* (updateStatePlayer writes in place whatever the size was), and the thread that saves
\* ends by itself only where that happened or a record has no place.
THEOREM DamageCorrect == Spec => []DamageNeedsOverlap
<1>1. Init => MisledHasACause
  BY DEF Init, MisledHasACause
<1>2. StorageInv /\ MisledHasACause => DamageNeedsOverlap
  BY DamageIsOverlap DEF MisledHasACause, Misplaced, DamageNeedsOverlap
<1> QED BY <1>1, <1>2, MisledStep, StorageIsSound, PTL DEF Spec

\* While the stream drops what is written there is a player whose record cannot be
\* read (clear() in loadPlayer, and the failbit of the other operations).
THEOREM SilenceCorrect == Spec => []SilenceHasACause
<1>1. StorageInv => SilenceHasACause
  BY DEF StorageInv
<1> QED BY <1>1, StorageIsSound, PTL

=============================================================================
