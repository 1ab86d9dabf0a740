--------------------------- MODULE Sessions_proofs ---------------------------
(***************************************************************************)
(* No item of the game is lost and none is in two places, for any users,   *)
(* connections, items and lengths of the queues to the disk.               *)
(*                                                                         *)
(* First what the newest record of a user is as the queue moves, then how  *)
(* items may move between places, then the steps.                          *)
(***************************************************************************)
EXTENDS Sessions, FiniteSetTheorems, WellFoundedInduction, TLAPS

LEMMA Distinct == IsFiniteSet(Conns) /\ Nobody \notin Users /\ NoRecord \notin Record
BY SessionAssumption DEF SessionAssumption, Record

\* What is written of a snapshot.
Written(r) == [bag |-> r.bag, box |-> r.box]

\* The snapshots of u in a queue, and the newest record of u with it.
Of(q, u) == {i \in 1..Len(q) : q[i].user = u}

Newest(q, d, u) ==
  IF Of(q, u) = {} THEN d[u]
  ELSE LET i == CHOOSE j \in Of(q, u) : \A k \in Of(q, u) : k <= j
       IN [bag |-> q[i].bag, box |-> q[i].box]

-----------------------------------------------------------------------------
(***************************************************************************)
(* The newest record.                                                      *)
(***************************************************************************)

\* A queue that holds snapshots of u holds a last one: NewestRecord chooses it.
LEMMA LastExists ==
  ASSUME NEW q \in Seq(Snapshot), NEW u, Of(q, u) # {}
  PROVE  \E j \in Of(q, u) : \A k \in Of(q, u) : k <= j
<1>1. Len(q) \in Nat /\ Of(q, u) \subseteq 1..Len(q)
  BY DEF Of
<1> DEFINE n == Len(q)
           T == {n - i : i \in Of(q, u)}
<1>2. n \in Nat /\ Of(q, u) \subseteq 1..n
  BY <1>1
<1> HIDE DEF n
<1>3. T \subseteq Nat /\ T # {}
  BY <1>2
<1> DEFINE Less == {s \in Nat \X Nat : s[1] < s[2]}
<1>4. IsWellFoundedOn(Less, Nat)
  BY NatLessThanWellFounded DEF OpToRel
<1>5. PICK x \in T : \A y \in T : ~(<<y, x>> \in Less)
  <2> HIDE DEF T, Less
  <2> QED BY <1>3, <1>4, WFMin
<1>6. \A y \in T : x <= y
  <2> SUFFICES ASSUME NEW y \in T PROVE x <= y
    OBVIOUS
  <2>1. x \in Nat /\ y \in Nat
    BY <1>3
  <2>2. ~(<<y, x>> \in Less)
    BY <1>5
  <2>3. ~(y < x)
    BY <2>1, <2>2
  <2> QED BY <2>1, <2>3
<1>7. PICK j \in Of(q, u) : x = n - j
  OBVIOUS
<1>8. \A k \in Of(q, u) : k <= j
  <2> SUFFICES ASSUME NEW k \in Of(q, u) PROVE k <= j
    OBVIOUS
  <2>1. n - j <= n - k
    BY <1>6, <1>7
  <2> QED BY <1>2, <2>1
<1> QED BY <1>8

\* The newest record is the last one in the queue, or the one on disk.
LEMMA NewestIsLast ==
  ASSUME NEW q \in Seq(Snapshot), NEW d, NEW u,
         NEW j \in Of(q, u), \A k \in Of(q, u) : k <= j
  PROVE  Newest(q, d, u) = Written(q[j])
<1>1. Of(q, u) \subseteq 1..Len(q) /\ Len(q) \in Nat
  BY DEF Of
<1> DEFINE i == CHOOSE m \in Of(q, u) : \A k \in Of(q, u) : k <= m
<1>2. i \in Of(q, u) /\ \A k \in Of(q, u) : k <= i
  OBVIOUS
<1>3. i = j
  <2>1. i <= j /\ j <= i
    BY <1>2
  <2>2. i \in Nat /\ j \in Nat
    BY <1>1, <1>2
  <2> HIDE DEF i
  <2> QED BY <2>1, <2>2
<1>4. Newest(q, d, u) = [bag |-> q[i].bag, box |-> q[i].box]
  <2>1. Of(q, u) # {}
    OBVIOUS
  <2> QED BY <2>1 DEF Newest
<1> HIDE DEF i
<1> QED BY <1>3, <1>4 DEF Written

LEMMA NewestOnDisk ==
  ASSUME NEW q, NEW d, NEW u, Of(q, u) = {}
  PROVE  Newest(q, d, u) = d[u]
BY DEF Newest

LEMMA WrittenType == \A r \in Snapshot : Written(r) \in Record
BY DEF Written, Snapshot, Record

LEMMA NewestType ==
  ASSUME NEW q \in Seq(Snapshot), NEW d \in [Users -> Record \union {NoRecord}], NEW u \in Users
  PROVE  Newest(q, d, u) \in Record \union {NoRecord}
<1>1. CASE Of(q, u) = {}
  BY <1>1, NewestOnDisk
<1>2. CASE Of(q, u) # {}
  <2>1. PICK j \in Of(q, u) : \A k \in Of(q, u) : k <= j
    BY <1>2, LastExists
  <2>2. Newest(q, d, u) = Written(q[j])
    BY <2>1, NewestIsLast
  <2>3. q[j] \in Snapshot
    BY DEF Of
  <2> QED BY <2>2, <2>3, WrittenType
<1> QED BY <1>1, <1>2

\* Snapshots of others behind the queue change nothing.
LEMMA OthersBehind ==
  ASSUME NEW q \in Seq(Snapshot), NEW s \in Seq(Snapshot), NEW d, NEW u,
         \A i \in 1..Len(s) : s[i].user # u
  PROVE  Newest(q \o s, d, u) = Newest(q, d, u) /\ Of(q \o s, u) = Of(q, u)
<1>1. /\ q \o s \in Seq(Snapshot) /\ Len(q \o s) = Len(q) + Len(s)
      /\ Len(q) \in Nat /\ Len(s) \in Nat
      /\ \A i \in 1..Len(q) : (q \o s)[i] = q[i]
      /\ \A i \in 1..(Len(q) + Len(s)) : i > Len(q) => (q \o s)[i] = s[i - Len(q)]
  OBVIOUS
<1>2. Of(q \o s, u) = Of(q, u)
  <2>1. ASSUME NEW i \in Of(q \o s, u) PROVE i \in Of(q, u)
    <3>1. i \in 1..(Len(q) + Len(s)) /\ (q \o s)[i].user = u
      BY <1>1, <2>1 DEF Of
    <3>2. ~(i > Len(q))
      <4>1. i > Len(q) => i - Len(q) \in 1..Len(s)
        BY <1>1, <3>1
      <4> QED BY <1>1, <3>1, <4>1
    <3>3. i \in 1..Len(q)
      BY <1>1, <3>1, <3>2
    <3> QED BY <1>1, <3>1, <3>3 DEF Of
  <2>2. ASSUME NEW i \in Of(q, u) PROVE i \in Of(q \o s, u)
    BY <1>1, <2>2 DEF Of
  <2> QED BY <2>1, <2>2
<1>3. CASE Of(q, u) = {}
  BY <1>2, <1>3, NewestOnDisk
<1>4. CASE Of(q, u) # {}
  <2>1. PICK j \in Of(q, u) : \A k \in Of(q, u) : k <= j
    BY <1>4, LastExists
  <2>2. Newest(q, d, u) = Written(q[j])
    BY <2>1, NewestIsLast
  <2>3. Newest(q \o s, d, u) = Written((q \o s)[j])
    <3> DEFINE w == q \o s
    <3>1. w \in Seq(Snapshot) /\ Of(w, u) = Of(q, u)
      BY <1>1, <1>2
    <3> HIDE DEF w
    <3>2. Newest(w, d, u) = Written(w[j])
      BY <2>1, <3>1, NewestIsLast
    <3> QED BY <3>2 DEF w
  <2>4. (q \o s)[j] = q[j]
    BY <1>1 DEF Of
  <2> QED BY <1>2, <2>2, <2>3, <2>4
<1> QED BY <1>2, <1>3, <1>4

\* A snapshot behind the queue is the newest record of its user.
LEMMA OneBehind ==
  ASSUME NEW q \in Seq(Snapshot), NEW r \in Snapshot, NEW d
  PROVE  /\ Newest(Append(q, r), d, r.user) = Written(r)
         /\ \A u : u # r.user => Newest(Append(q, r), d, u) = Newest(q, d, u)
<1>1. /\ Append(q, r) \in Seq(Snapshot) /\ Len(Append(q, r)) = Len(q) + 1
      /\ Append(q, r)[Len(q) + 1] = r /\ Len(q) \in Nat
  OBVIOUS
<1>2. Newest(Append(q, r), d, r.user) = Written(r)
  <2>1. Len(q) + 1 \in Of(Append(q, r), r.user)
    BY <1>1 DEF Of
  <2>2. \A k \in Of(Append(q, r), r.user) : k <= Len(q) + 1
    BY <1>1 DEF Of
  <2>3. Newest(Append(q, r), d, r.user) = Written(Append(q, r)[Len(q) + 1])
    BY <1>1, <2>1, <2>2, NewestIsLast
  <2> QED BY <1>1, <2>3
<1>3. ASSUME NEW u, u # r.user PROVE Newest(Append(q, r), d, u) = Newest(q, d, u)
  <2> DEFINE s == <<r>>
  <2>2. s \in Seq(Snapshot) /\ \A i \in 1..Len(s) : s[i].user # u
    BY <1>3
  <2>3. Append(q, r) = q \o s
    OBVIOUS
  <2> HIDE DEF s
  <2>4. Newest(q \o s, d, u) = Newest(q, d, u)
    BY <2>2, OthersBehind
  <2> QED BY <2>3, <2>4
<1> QED BY <1>2, <1>3

\* SavePlayer takes the oldest snapshot to the disk, and no newest record changes.
LEMMA HeadSaved ==
  ASSUME NEW q \in Seq(Snapshot), q # <<>>, NEW d \in [Users -> Record \union {NoRecord}],
         NEW u \in Users
  PROVE  Newest(Tail(q), [d EXCEPT ![Head(q).user] = Written(Head(q))], u) = Newest(q, d, u)
<1> DEFINE r == Head(q)
           e == [d EXCEPT ![r.user] = Written(r)]
           t == Tail(q)
<1>1. /\ r \in Snapshot /\ t \in Seq(Snapshot) /\ Len(q) \in Nat \ {0} /\ q[1] = r
      /\ Len(t) = Len(q) - 1 /\ \A i \in 1..Len(t) : t[i] = q[i + 1]
  OBVIOUS
<1>2. r.user \in Users /\ e[r.user] = Written(r) /\ \A v \in Users : v # r.user => e[v] = d[v]
  BY <1>1 DEF Snapshot
<1> HIDE DEF r, e, t
<1>3. \A i \in Of(t, u) : i \in Nat /\ i + 1 \in Of(q, u)
  BY <1>1 DEF Of
<1>4. \A i \in Of(q, u) : i = 1 \/ i - 1 \in Of(t, u)
  <2> SUFFICES ASSUME NEW i \in Of(q, u), i # 1 PROVE i - 1 \in Of(t, u)
    OBVIOUS
  <2>1. i \in 1..Len(q) /\ q[i].user = u
    BY DEF Of
  <2>2. i - 1 \in 1..Len(t) /\ (i - 1) + 1 = i
    BY <1>1, <2>1
  <2>3. t[i - 1] = q[i]
    BY <1>1, <2>2
  <2> QED BY <2>1, <2>2, <2>3 DEF Of
<1>5. CASE Of(t, u) # {}
  <2>1. PICK j \in Of(t, u) : \A k \in Of(t, u) : k <= j
    BY <1>1, <1>5, LastExists
  <2>2. Newest(t, e, u) = Written(t[j])
    BY <1>1, <2>1, NewestIsLast
  <2>3. j + 1 \in Of(q, u) /\ j \in Nat
    BY <1>3
  <2>4. \A k \in Of(q, u) : k <= j + 1
    <3> SUFFICES ASSUME NEW k \in Of(q, u) PROVE k <= j + 1
      OBVIOUS
    <3>1. k \in Nat
      BY DEF Of
    <3>2. CASE k = 1
      BY <2>3, <3>2
    <3>3. CASE k - 1 \in Of(t, u)
      <4>1. k - 1 <= j
        BY <2>1, <3>3
      <4> QED BY <2>3, <3>1, <4>1
    <3> QED BY <1>4, <3>2, <3>3
  <2>5. Newest(q, d, u) = Written(q[j + 1])
    BY <2>3, <2>4, NewestIsLast
  <2>0. t[j] = q[j + 1]
    BY <1>1 DEF Of
  <2> QED BY <2>2, <2>5, <2>0 DEF t, e, r
<1>6. CASE Of(t, u) = {} /\ r.user = u
  <2>1. Newest(t, e, u) = Written(r)
    BY <1>2, <1>6, NewestOnDisk
  <2>2. 1 \in Of(q, u)
    BY <1>1, <1>6 DEF Of
  <2>4. \A k \in Of(q, u) : k <= 1
    BY <1>4, <1>6
  <2>3. Newest(q, d, u) = Written(q[1])
    BY <2>2, <2>4, NewestIsLast
  <2> QED BY <1>1, <2>1, <2>3 DEF t, e, r
<1>7. CASE Of(t, u) = {} /\ r.user # u
  <2>1. Newest(t, e, u) = d[u]
    BY <1>2, <1>7, NewestOnDisk
  <2>2. Of(q, u) = {}
    BY <1>1, <1>4, <1>7 DEF Of
  <2>3. Newest(q, d, u) = d[u]
    BY <2>2, NewestOnDisk
  <2> QED BY <2>1, <2>3 DEF t, e, r
<1> QED BY <1>5, <1>6, <1>7

-----------------------------------------------------------------------------
(***************************************************************************)
(* Items in places.                                                        *)
(***************************************************************************)

\* The items G of the game are in the places P as F says, each in one of them.
InOnePlace(P, F, G) ==
  /\ G = UNION {F[p] : p \in P}
  /\ \A p, r \in P : p # r => F[p] \cap F[r] = {}

LEMMA ItemsStay ==
  ASSUME NEW P, NEW F, NEW H, NEW G, InOnePlace(P, F, G), \A p \in P : H[p] = F[p]
  PROVE  InOnePlace(P, H, G)
<1>1. UNION {H[p] : p \in P} = UNION {F[p] : p \in P}
  OBVIOUS
<1>2. \A p, r \in P : p # r => H[p] \cap H[r] = {}
  BY DEF InOnePlace
<1> QED BY <1>1, <1>2 DEF InOnePlace

LEMMA ItemMoves ==
  ASSUME NEW P, NEW F, NEW H, NEW G, InOnePlace(P, F, G),
         NEW a \in P, NEW b \in P, a # b, NEW i \in F[a],
         H[a] = F[a] \ {i}, H[b] = F[b] \union {i},
         \A p \in P : p \notin {a, b} => H[p] = F[p]
  PROVE  InOnePlace(P, H, G)
<1>1. \A x : (\E p \in P : x \in H[p]) <=> (\E p \in P : x \in F[p])
  <2>1. ASSUME NEW x, NEW p \in P, x \in H[p] PROVE \E r \in P : x \in F[r]
    BY <2>1
  <2>2. ASSUME NEW x, NEW p \in P, x \in F[p] PROVE \E r \in P : x \in H[r]
    <3>1. CASE x = i
      BY <3>1
    <3>2. CASE x # i
      BY <2>2, <3>2
    <3> QED BY <3>1, <3>2
  <2> QED BY <2>1, <2>2
<1>2. G = UNION {H[p] : p \in P}
  <2>1. G = UNION {F[p] : p \in P}
    BY DEF InOnePlace
  <2> QED BY <1>1, <2>1
<1>3. ASSUME NEW p \in P, NEW r \in P, p # r PROVE H[p] \cap H[r] = {}
  <2>1. \A s, t \in P : s # t => F[s] \cap F[t] = {}
    BY DEF InOnePlace
  <2>2. \A s \in P : s # a => i \notin F[s]
    BY <2>1
  <2>3. CASE p = b
    BY <1>3, <2>1, <2>2, <2>3
  <2>4. CASE r = b
    BY <1>3, <2>1, <2>2, <2>4
  <2>5. CASE p # b /\ r # b
    BY <1>3, <2>1, <2>5
  <2> QED BY <2>3, <2>4, <2>5
<1> QED BY <1>2, <1>3 DEF InOnePlace

LEMMA ItemEnters ==
  ASSUME NEW P, NEW F, NEW H, NEW G, InOnePlace(P, F, G),
         NEW b \in P, NEW i, i \notin G, H[b] = F[b] \union {i},
         \A p \in P : p # b => H[p] = F[p]
  PROVE  InOnePlace(P, H, G \union {i})
<1>1. G = UNION {F[p] : p \in P} /\ \A p, r \in P : p # r => F[p] \cap F[r] = {}
  BY DEF InOnePlace
<1>2. G \union {i} = UNION {H[p] : p \in P}
  <2>1. ASSUME NEW x \in G \union {i} PROVE \E p \in P : x \in H[p]
    BY <1>1
  <2>2. ASSUME NEW x, NEW p \in P, x \in H[p] PROVE x \in G \union {i}
    BY <1>1, <2>2
  <2> QED BY <2>1, <2>2
<1>3. \A p \in P : i \notin F[p]
  BY <1>1
<1>4. ASSUME NEW p \in P, NEW r \in P, p # r PROVE H[p] \cap H[r] = {}
  BY <1>1, <1>3, <1>4
<1> QED BY <1>2, <1>4 DEF InOnePlace

-----------------------------------------------------------------------------
(***************************************************************************)
(* The places of Sessions.                                                 *)
(***************************************************************************)

Floor == <<"floor", Nobody>>
BagOf(u) == <<"bag", u>>
BoxOf(u) == <<"box", u>>

\* Where each item is.
Where == [p \in Places |-> At(p)]

\* The bags of u in the game: one, when no user plays twice.
Bags(u) == UNION {bag[c] : c \in {d \in Conns : player[d] = u}}

LEMMA PlacesAre ==
  /\ Floor \in Places
  /\ \A u \in Users : BagOf(u) \in Places /\ BoxOf(u) \in Places /\ BagOf(u) # BoxOf(u)
                      /\ BagOf(u) # Floor /\ BoxOf(u) # Floor
  /\ \A u, v \in Users : u # v => BagOf(u) # BagOf(v) /\ BoxOf(u) # BoxOf(v) /\ BagOf(u) # BoxOf(v)
  /\ \A p \in Places : p = Floor \/ \E u \in Users : p = BagOf(u) \/ p = BoxOf(u)
BY DEF Places, Floor, BagOf, BoxOf

LEMMA NewestIs ==
  ASSUME NEW u
  PROVE  /\ NewestRecord(u) = Newest(players_queue, disk, u)
         /\ NewestRecord(u)' = Newest(players_queue', disk', u)
         /\ Waiting(u) = Of(players_queue, u)
BY DEF NewestRecord, Newest, Waiting, Of

\* What the newest record of a user who is away holds.
Kept(r) == [k \in {"bag", "box"} |-> IF r = NoRecord THEN {} ELSE r[k]]

LEMMA AtFloor == At(Floor) = floor /\ At(Floor)' = floor'
BY DEF At, Floor

LEMMA AtOnline ==
  ASSUME NEW u \in Users, u \in Online
  PROVE  At(BagOf(u)) = Bags(u) /\ At(BoxOf(u)) = box[u]
BY DEF At, BagOf, BoxOf, Bags

LEMMA AtOnlineNext ==
  ASSUME NEW u \in Users, u \in Online'
  PROVE  At(BagOf(u))' = Bags(u)' /\ At(BoxOf(u))' = box'[u]
BY DEF At, BagOf, BoxOf, Bags

LEMMA AtAway ==
  ASSUME NEW u \in Users, u \notin Online
  PROVE  /\ At(BagOf(u)) = Kept(NewestRecord(u))["bag"]
         /\ At(BoxOf(u)) = Kept(NewestRecord(u))["box"]
BY DEF At, BagOf, BoxOf, Kept

LEMMA AtAwayNext ==
  ASSUME NEW u \in Users, u \notin Online'
  PROVE  /\ At(BagOf(u))' = Kept(NewestRecord(u)')["bag"]
         /\ At(BoxOf(u))' = Kept(NewestRecord(u)')["box"]
BY DEF At, BagOf, BoxOf, Kept

\* No user plays on two connections.
OnePlayerEach ==
  \A c, d \in Conns : player[c] # Nobody /\ player[c] = player[d] => c = d

LEMMA OneBag ==
  ASSUME OnePlayerEach, NEW c \in Conns, player[c] # Nobody
  PROVE  Bags(player[c]) = bag[c]
<1>1. {d \in Conns : player[d] = player[c]} = {c}
  BY DEF OnePlayerEach
<1> QED BY <1>1 DEF Bags

\* EveryItemInOnePlace is InOnePlace of where things are.
LEMMA WhereIs ==
  /\ (loop = "ticking" /\ clean => InOnePlace(Places, Where, given))
       <=> (loop = "ticking" /\ clean =>
              /\ given = UNION {At(p) : p \in Places}
              /\ \A p, r \in Places : p # r => At(p) \cap At(r) = {})
  /\ (loop' = "ticking" /\ clean' => InOnePlace(Places, Where', given'))
       <=> (loop = "ticking" /\ clean =>
              /\ given = UNION {At(p) : p \in Places}
              /\ \A p, r \in Places : p # r => At(p) \cap At(r) = {})'
<1>1. UNION {Where[p] : p \in Places} = UNION {At(p) : p \in Places}
  BY DEF Where
<1>2. UNION {Where'[p] : p \in Places} = UNION {At(p)' : p \in Places}
  BY DEF Where
<1>3. \A p \in Places : Where[p] = At(p) /\ Where'[p] = At(p)'
  BY DEF Where
<1> QED BY <1>1, <1>2, <1>3 DEF InOnePlace

\* A user for whom nothing changes keeps all there is.
LEMMA UserStays ==
  ASSUME NEW u \in Users, u \in Online <=> u \in Online',
         u \in Online => box'[u] = box[u] /\ Bags(u)' = Bags(u),
         u \notin Online => NewestRecord(u)' = NewestRecord(u)
  PROVE  At(BagOf(u))' = At(BagOf(u)) /\ At(BoxOf(u))' = At(BoxOf(u))
<1>1. CASE u \in Online
  BY <1>1, AtOnline, AtOnlineNext
<1>2. CASE u \notin Online
  BY <1>2, AtAway, AtAwayNext
<1> QED BY <1>1, <1>2

\* The player of c changes what it holds, and nothing else changes but the floor.
LEMMA OwnChange ==
  ASSUME TypeOK, OnePlayerEach, NEW c \in Conns, NEW u \in Users, u = player[c],
         \A d \in Conns : d # c => bag'[d] = bag[d],
         \A v \in Users : v # u => box'[v] = box[v],
         UNCHANGED <<player, players_queue, disk>>
  PROVE  /\ At(BagOf(u)) = bag[c] /\ At(BoxOf(u)) = box[u]
         /\ At(BagOf(u))' = bag'[c] /\ At(BoxOf(u))' = box'[u]
         /\ \A p \in Places : p \notin {Floor, BagOf(u), BoxOf(u)} => At(p)' = At(p)
<1>1. u # Nobody /\ u \in Online /\ Online' = Online
  BY Distinct DEF TypeOK, Online
<1>2. u \in Online'
  BY <1>1
<1>3. Bags(u) = bag[c]
  BY <1>1, OneBag
<1>4. Bags(u)' = bag'[c]
  <2>1. {d \in Conns : player'[d] = u} = {c}
    BY <1>1 DEF OnePlayerEach
  <2>2. UNION {bag'[d] : d \in {d \in Conns : player'[d] = u}} = bag'[c]
    BY <2>1
  <2> QED BY <2>2 DEF Bags
<1>5. At(BagOf(u)) = bag[c] /\ At(BoxOf(u)) = box[u]
  BY <1>1, <1>3, AtOnline
<1>6. At(BagOf(u))' = bag'[c] /\ At(BoxOf(u))' = box'[u]
  <2>1. At(BagOf(u))' = Bags(u)' /\ At(BoxOf(u))' = box'[u]
    BY <1>1, <1>2, AtOnlineNext
  <2> QED BY <1>2, <1>4, <2>1
<1>7. ASSUME NEW v \in Users, v # u
      PROVE  At(BagOf(v))' = At(BagOf(v)) /\ At(BoxOf(v))' = At(BoxOf(v))
  <2>1. box'[v] = box[v]
    BY <1>7
  <2>2. Bags(v)' = Bags(v)
    <3>1. \A d \in {e \in Conns : player[e] = v} : bag'[d] = bag[d]
      BY <1>7
    <3>2. UNION {bag'[d] : d \in {e \in Conns : player'[e] = v}}
            = UNION {bag[d] : d \in {e \in Conns : player[e] = v}}
      BY <3>1
    <3> QED BY <3>2 DEF Bags
  <2>3. NewestRecord(v)' = NewestRecord(v)
    BY NewestIs
  <2> QED BY <1>1, <2>1, <2>2, <2>3, UserStays
<1>8. ASSUME NEW p \in Places, p \notin {Floor, BagOf(u), BoxOf(u)} PROVE At(p)' = At(p)
  <2>1. PICK v \in Users : p = BagOf(v) \/ p = BoxOf(v)
    BY <1>8, PlacesAre
  <2>2. v # u
    BY <1>8, <2>1
  <2> QED BY <1>7, <2>1, <2>2
<1> QED BY <1>1, <1>5, <1>6, <1>8

-----------------------------------------------------------------------------
(***************************************************************************)
(* The invariant, and its steps.                                           *)
(***************************************************************************)

\* Who plays, and whose snapshot waits, has a record on disk: the saver finds it.
Registered ==
  /\ \A c \in Conns : player[c] # Nobody => disk[player[c]] # NoRecord
  /\ \A i \in 1..Len(players_queue) : disk[players_queue[i].user] # NoRecord

\* Nobody plays twice as long as the logins were clean: who logged in twice would
\* have two bags that one record has to hold.  And everyone is known to the saver.
SessionInv == EveryItemInOnePlace /\ (clean => OnePlayerEach /\ Registered)

\* What is scheduled is a snapshot of each player in the game.
LEMMA ScheduledType ==
  ASSUME TypeOK, ScheduleAll
  PROVE  /\ players_queue' \in Seq(Snapshot) /\ world_queue' \in Nat
         /\ \E s \in Seq(Snapshot) :
              /\ players_queue' = players_queue \o s
              /\ \A i \in 1..Len(s) : s[i].user \in Online
<1> DEFINE playing == {c \in Conns : player[c] # Nobody}
           n == Cardinality(playing)
<1>1. n \in Nat
  <2>1. IsFiniteSet(playing)
    BY Distinct, FS_Subset
  <2> HIDE DEF playing
  <2> QED BY <2>1, FS_CardinalityType
<1>2. PICK order \in [1..n -> playing] :
        players_queue' = players_queue \o [i \in 1..n |-> DataOf(order[i])]
  BY DEF ScheduleAll
<1>3. \A c \in playing : DataOf(c) \in Snapshot /\ DataOf(c).user \in Online
  BY DEF TypeOK, DataOf, Snapshot, Online
<1> HIDE DEF n, playing
<1> DEFINE s == [i \in 1..n |-> DataOf(order[i])]
<1>4. s \in Seq(Snapshot) /\ Len(s) = n /\ \A i \in 1..n : s[i].user \in Online
  BY <1>1, <1>2, <1>3
<1>5. players_queue' = players_queue \o s
  BY <1>2
<1> HIDE DEF s
<1>6. players_queue' \in Seq(Snapshot)
  BY <1>4, <1>5 DEF TypeOK
<1>7. world_queue' \in Nat
  BY DEF TypeOK, ScheduleAll
<1> QED BY <1>4, <1>5, <1>6, <1>7

LEMMA DataType ==
  ASSUME TypeOK, NEW c \in Conns, player[c] # Nobody
  PROVE  DataOf(c) \in Snapshot /\ DataOf(c).user = player[c]
BY DEF TypeOK, DataOf, Snapshot

LEMMA TypesKept ==
  ASSUME TypeOK, [Next]_vars
  PROVE  TypeOK'
<1> USE DEF sessions, saves, control, vars
<1>1. ASSUME NEW u \in Users, Signup(u) PROVE TypeOK'
  <2>1. [bag |-> {}, box |-> {}] \in Record
    BY DEF Record
  <2> QED BY <1>1, <2>1 DEF TypeOK, Signup
<1>2. ASSUME NEW c \in Conns, NEW u \in Users, Login(c, u) \/ LoginDamaged(c, u) PROVE TypeOK'
  <2>1. PICK v \in Users, r \in Record : Load(c, v, r)
    <3>1. CASE Login(c, u)
      <4>1. disk[u] \in Record
        BY <3>1 DEF TypeOK, Login
      <4> QED BY <3>1, <4>1 DEF Login
    <3>2. CASE LoginDamaged(c, u)
      BY <3>2 DEF LoginDamaged
    <3> QED BY <1>2, <3>1, <3>2
  <2>2. r.bag \in SUBSET Items /\ r.box \in SUBSET Items
    BY <2>1 DEF Record
  <2>3. box' \in [Users -> SUBSET Items]
    BY <2>1, <2>2 DEF TypeOK, Load
  <2>4. player' \in [Conns -> Users \union {Nobody}] /\ bag' \in [Conns -> SUBSET Items]
    BY <2>1, <2>2 DEF TypeOK, Load
  <2>5. clean' \in BOOLEAN /\ UNCHANGED <<floor, saves, disk, control, given>>
    BY <1>2 DEF TypeOK, Login, LoginDamaged
  <2> QED BY <2>3, <2>4, <2>5 DEF TypeOK
<1>3. ASSUME NEW c \in Conns, Logout(c) PROVE TypeOK'
  <2>1. DataOf(c) \in Snapshot
    BY <1>3, DataType DEF Logout
  <2>2. players_queue' \in Seq(Snapshot)
    BY <1>3, <2>1 DEF TypeOK, Logout
  <2>3. player' \in [Conns -> Users \union {Nobody}] /\ bag' \in [Conns -> SUBSET Items]
    BY <1>3 DEF TypeOK, Logout
  <2> QED BY <1>3, <2>2, <2>3 DEF TypeOK, Logout
<1>4. ASSUME NEW c \in Conns, NEW i \in Items,
             Receive(c, i) \/ DepositItem(c, i) \/ WithdrawItem(c, i) \/ DropItem(c, i) \/ PickUpItem(c, i)
      PROVE  TypeOK'
  <2>1. player[c] \in Users
    BY <1>4 DEF TypeOK, Receive, DepositItem, WithdrawItem, DropItem, PickUpItem
  <2>2. CASE Receive(c, i)
    BY <2>2 DEF TypeOK, Receive
  <2>3. CASE DepositItem(c, i)
    BY <2>1, <2>3 DEF TypeOK, DepositItem
  <2>4. CASE WithdrawItem(c, i)
    BY <2>1, <2>4 DEF TypeOK, WithdrawItem
  <2>5. CASE DropItem(c, i)
    BY <2>5 DEF TypeOK, DropItem
  <2>0. CASE PickUpItem(c, i)
    BY <2>0 DEF TypeOK, PickUpItem
  <2> QED BY <1>4, <2>2, <2>3, <2>4, <2>5, <2>0
<1>5. ASSUME PeriodicSave PROVE TypeOK'
  BY <1>5, ScheduledType DEF TypeOK, PeriodicSave
<1>6. CASE LeaveTicks
  BY <1>6 DEF TypeOK, LeaveTicks
<1>7. CASE FinalSave
  BY <1>7, ScheduledType DEF TypeOK, FinalSave
<1>8. CASE JoinSaver
  BY <1>8 DEF TypeOK, JoinSaver
<1>9. CASE Shutdown
  BY <1>9 DEF TypeOK, Shutdown
<1>10. CASE SaverChecks
  BY <1>10 DEF TypeOK, SaverChecks
<1>11. CASE SavePlayer
  <2>1. Head(players_queue) \in Snapshot /\ players_queue' \in Seq(Snapshot)
    BY <1>11 DEF TypeOK, SavePlayer
  <2>2. \/ disk' = [disk EXCEPT ![Head(players_queue).user] = Written(Head(players_queue))]
        \/ disk' = disk
    BY <1>11 DEF SavePlayer, Update, Written
  <2>3. disk' \in [Users -> Record \union {NoRecord}]
    BY <2>1, <2>2, WrittenType DEF TypeOK
  <2>4. saver' \in {saver, "failed"} /\ saver = "players"
    BY <1>11 DEF SavePlayer, Update
  <2> QED BY <1>11, <2>1, <2>3, <2>4 DEF TypeOK, SavePlayer
<1>12. CASE PlayersSaved
  BY <1>12 DEF TypeOK, PlayersSaved
<1>13. CASE SaveWorld
  BY <1>13 DEF TypeOK, SaveWorld
<1>14. CASE WorldSaved
  BY <1>14 DEF TypeOK, WorldSaved
<1>15. CASE UNCHANGED vars
  BY <1>15 DEF TypeOK
<1> QED BY <1>1, <1>2, <1>3, <1>4, <1>5, <1>6, <1>7, <1>8, <1>9, <1>10, <1>11, <1>12, <1>13, <1>14,
           <1>15 DEF Next, Play, Leave, Saver

\* What SessionInv says of the items, in a state of which it is to be shown.
PlacesRight == loop = "ticking" /\ clean => InOnePlace(Places, Where, given) /\ OnePlayerEach

\* A step in which every user keeps what there is keeps the items where they are.
LEMMA NothingMoves ==
  ASSUME InOnePlace(Places, Where, given), UNCHANGED <<floor, given>>,
         \A u \in Users : At(BagOf(u))' = At(BagOf(u)) /\ At(BoxOf(u))' = At(BoxOf(u))
  PROVE  InOnePlace(Places, Where, given)'
<1>1. \A p \in Places : At(p)' = At(p)
  BY PlacesAre, AtFloor
<1>2. \A p \in Places : Where'[p] = Where[p]
  BY <1>1 DEF Where
<1>3. InOnePlace(Places, Where', given)
  BY <1>2, ItemsStay
<1> QED BY <1>3

\* The first record is as empty as no record.
LEMMA SignupKeeps ==
  ASSUME TypeOK, InOnePlace(Places, Where, given), NEW u \in Users, Signup(u)
  PROVE  InOnePlace(Places, Where, given)'
<1>1. /\ disk[u] = NoRecord /\ disk'[u] = [bag |-> {}, box |-> {}] /\ Online' = Online
      /\ \A v \in Users : v # u => disk'[v] = disk[v]
      /\ UNCHANGED <<players_queue, player, bag, box, floor, given>>
  BY DEF Signup, TypeOK, Online, sessions, saves
<1>2. ASSUME NEW v \in Users
      PROVE  At(BagOf(v))' = At(BagOf(v)) /\ At(BoxOf(v))' = At(BoxOf(v))
  <2>1. Bags(v)' = Bags(v) /\ box'[v] = box[v]
    BY <1>1 DEF Bags
  <2>2. CASE v \in Online
    BY <1>1, <2>1, <2>2, UserStays
  <2>3. CASE v \notin Online
    <3>1. CASE v # u \/ Of(players_queue, v) # {}
      <4>1. Newest(players_queue', disk', v) = Newest(players_queue, disk, v)
        BY <1>1, <3>1 DEF Newest
      <4> QED BY <1>1, <2>3, <4>1, NewestIs, UserStays
    <3>2. CASE v = u /\ Of(players_queue, v) = {}
      <4>1. NewestRecord(v) = NoRecord /\ NewestRecord(v)' = [bag |-> {}, box |-> {}]
        BY <1>1, <3>2, NewestIs, NewestOnDisk
      <4>2. NewestRecord(v)' # NoRecord
        BY <4>1, Distinct DEF Record
      <4>3. /\ Kept(NewestRecord(v))["bag"] = {} /\ Kept(NewestRecord(v))["box"] = {}
            /\ Kept(NewestRecord(v)')["bag"] = {} /\ Kept(NewestRecord(v)')["box"] = {}
        BY <4>1, <4>2 DEF Kept
      <4> QED BY <1>1, <2>3, <4>3, AtAway, AtAwayNext
    <3> QED BY <3>1, <3>2
  <2> QED BY <2>2, <2>3
<1> QED BY <1>1, <1>2, NothingMoves

\* A clean login reads the newest record there is.
LEMMA LoginKeeps ==
  ASSUME TypeOK, InOnePlace(Places, Where, given), OnePlayerEach,
         NEW c \in Conns, NEW u \in Users, Login(c, u), u \notin Online, Waiting(u) = {}
  PROVE  InOnePlace(Places, Where, given)' /\ OnePlayerEach'
<1>1. /\ disk[u] \in Record /\ disk[u] # NoRecord /\ box'[u] = disk[u].box
      /\ \A v \in Users : v # u => box'[v] = box[v]
      /\ UNCHANGED <<players_queue, disk, floor, given>>
  BY Distinct DEF Login, Load, TypeOK, saves
<1>2. \A v \in Users : NewestRecord(v)' = NewestRecord(v)
  BY <1>1, NewestIs
<1>3. CASE player[c] # Nobody
  <2>1. UNCHANGED <<player, bag>> /\ Online' = Online
    BY <1>3 DEF Login, Load, Online
  <2>2. \A v \in Users : Bags(v)' = Bags(v)
    BY <2>1 DEF Bags
  <2>3. \A v \in Users : v \in Online => box'[v] = box[v]
    BY <1>1
  <2>4. \A v \in Users : At(BagOf(v))' = At(BagOf(v)) /\ At(BoxOf(v))' = At(BoxOf(v))
    BY <1>2, <2>1, <2>2, <2>3, UserStays
  <2> QED BY <1>1, <2>1, <2>4, NothingMoves DEF OnePlayerEach
<1>4. CASE player[c] = Nobody
  <2>1. /\ player' = [player EXCEPT ![c] = u] /\ bag' = [bag EXCEPT ![c] = disk[u].bag]
        /\ \A d \in Conns : player[d] # u
    BY <1>4, Distinct DEF Login, Load, Online
  <2>2. /\ player'[c] = u /\ bag'[c] = disk[u].bag
        /\ \A d \in Conns : d # c => player'[d] = player[d] /\ bag'[d] = bag[d]
    BY <2>1 DEF TypeOK
  <2>3. u \in Online' /\ \A v \in Users : v # u => (v \in Online' <=> v \in Online)
    BY <1>4, <2>2, Distinct DEF Online
  <2>4. OnePlayerEach'
    BY <2>1, <2>2 DEF OnePlayerEach
  <2>5. ASSUME NEW v \in Users, v # u
        PROVE  At(BagOf(v))' = At(BagOf(v)) /\ At(BoxOf(v))' = At(BoxOf(v))
    <3>1. {d \in Conns : player'[d] = v} = {d \in Conns : player[d] = v}
      BY <1>4, <2>2, <2>5, Distinct
    <3>2. \A d \in {e \in Conns : player[e] = v} : bag'[d] = bag[d]
      BY <1>4, <2>2, Distinct
    <3>3. Bags(v)' = Bags(v)
      BY <3>1, <3>2 DEF Bags
    <3> QED BY <1>1, <1>2, <2>3, <2>5, <3>3, UserStays
  <2>0. At(BagOf(u))' = At(BagOf(u)) /\ At(BoxOf(u))' = At(BoxOf(u))
    <3>1. NewestRecord(u) = disk[u]
      BY NewestIs, NewestOnDisk
    <3>2. At(BagOf(u)) = disk[u].bag /\ At(BoxOf(u)) = disk[u].box
      BY <1>1, <3>1, AtAway DEF Kept
    <3>3. {d \in Conns : player'[d] = u} = {c}
      BY <2>1, <2>2
    <3>4. Bags(u)' = disk[u].bag
      BY <2>2, <3>3 DEF Bags
    <3> QED BY <1>1, <2>3, <3>2, <3>4, AtOnlineNext
  <2>7. \A v \in Users : At(BagOf(v))' = At(BagOf(v)) /\ At(BoxOf(v))' = At(BoxOf(v))
    BY <2>5, <2>0
  <2> QED BY <1>1, <2>4, <2>7, NothingMoves
<1> QED BY <1>3, <1>4

\* The record of who leaves goes behind the queue.
LEMMA LogoutKeeps ==
  ASSUME TypeOK, InOnePlace(Places, Where, given), OnePlayerEach, NEW c \in Conns, Logout(c)
  PROVE  InOnePlace(Places, Where, given)' /\ OnePlayerEach'
<1> DEFINE r == DataOf(c)
<1> PICK u \in Users : u = player[c]
  BY DEF Logout, TypeOK
<1>1. /\ u # Nobody /\ r \in Snapshot /\ r.user = u
      /\ players_queue' = Append(players_queue, r)
      /\ UNCHANGED <<box, disk, floor, given>>
  BY DataType DEF Logout, TypeOK
<1>2. /\ player'[c] = Nobody
      /\ \A d \in Conns : d # c => player'[d] = player[d] /\ bag'[d] = bag[d] /\ player[d] # u
  BY <1>1 DEF Logout, TypeOK, OnePlayerEach
<1>3. u \in Online /\ u \notin Online' /\ \A v \in Users : v # u => (v \in Online' <=> v \in Online)
  BY <1>1, <1>2 DEF Online
<1>4. OnePlayerEach'
  BY <1>2 DEF OnePlayerEach
<1>5. ASSUME NEW v \in Users, v # u
      PROVE  At(BagOf(v))' = At(BagOf(v)) /\ At(BoxOf(v))' = At(BoxOf(v))
  <2>1. {d \in Conns : player'[d] = v} = {d \in Conns : player[d] = v}
    BY <1>2, <1>5, Distinct
  <2>2. \A d \in {e \in Conns : player[e] = v} : bag'[d] = bag[d]
    BY <1>2, <1>5
  <2>3. Bags(v)' = Bags(v)
    BY <2>1, <2>2 DEF Bags
  <2>4. Newest(players_queue', disk', v) = Newest(players_queue, disk, v)
    <3>1. players_queue \in Seq(Snapshot)
      BY DEF TypeOK
    <3> HIDE DEF r
    <3>2. Newest(Append(players_queue, r), disk, v) = Newest(players_queue, disk, v)
      BY <1>1, <1>5, <3>1, OneBehind
    <3> QED BY <1>1, <3>2
  <2>5. NewestRecord(v)' = NewestRecord(v)
    BY <2>4, NewestIs
  <2> QED BY <1>1, <1>3, <1>5, <2>3, <2>5, UserStays
<1>6. At(BagOf(u))' = At(BagOf(u)) /\ At(BoxOf(u))' = At(BoxOf(u))
  <2>1. At(BagOf(u)) = bag[c] /\ At(BoxOf(u)) = box[u]
    BY <1>1, <1>3, AtOnline, OneBag
  <2>2. r.bag = bag[c] /\ r.box = box[u]
    BY DEF DataOf
  <2>3. NewestRecord(u)' = Written(r)
    <3>1. players_queue \in Seq(Snapshot)
      BY DEF TypeOK
    <3> HIDE DEF r
    <3>2. Newest(Append(players_queue, r), disk, u) = Written(r)
      BY <1>1, <3>1, OneBehind
    <3> QED BY <1>1, <3>2, NewestIs
  <2>4. NewestRecord(u)' # NoRecord
    BY <1>1, <2>3, WrittenType, Distinct
  <2>5. Kept(NewestRecord(u)')["bag"] = bag[c] /\ Kept(NewestRecord(u)')["box"] = box[u]
    BY <2>2, <2>3, <2>4 DEF Kept, Written
  <2> QED BY <1>1, <1>3, <2>1, <2>5, AtAwayNext
<1>7. \A v \in Users : At(BagOf(v))' = At(BagOf(v)) /\ At(BoxOf(v))' = At(BoxOf(v))
  BY <1>5, <1>6
<1> HIDE DEF r
<1> QED BY <1>1, <1>4, <1>7, NothingMoves

\* What players do with what they hold.
LEMMA ItemStepsKeep ==
  ASSUME TypeOK, InOnePlace(Places, Where, given), OnePlayerEach,
         NEW c \in Conns, NEW i \in Items,
         Receive(c, i) \/ DepositItem(c, i) \/ WithdrawItem(c, i) \/ DropItem(c, i) \/ PickUpItem(c, i)
  PROVE  InOnePlace(Places, Where, given)' /\ OnePlayerEach'
<1>1. player[c] # Nobody /\ UNCHANGED <<player, players_queue, disk>>
  BY DEF Receive, DepositItem, WithdrawItem, DropItem, PickUpItem, saves
<1>2. OnePlayerEach'
  BY <1>1 DEF OnePlayerEach
<1> PICK u \in Users : u = player[c]
  BY <1>1 DEF TypeOK
<1>3. BagOf(u) \in Places /\ BoxOf(u) \in Places /\ Floor \in Places
      /\ BagOf(u) # BoxOf(u) /\ BagOf(u) # Floor /\ BoxOf(u) # Floor
  BY PlacesAre
<1>4. \A p \in Places : Where[p] = At(p) /\ Where'[p] = At(p)'
  BY DEF Where
<1>5. CASE Receive(c, i)
  <2>0. /\ \A d \in Conns : d # c => bag'[d] = bag[d]
        /\ \A v \in Users : v # u => box'[v] = box[v]
    BY <1>5 DEF Receive, TypeOK
  <2>1. /\ bag'[c] = bag[c] \union {i}
        /\ box'[u] = box[u] /\ floor' = floor /\ i \notin given /\ given' = given \union {i}
    BY <1>5 DEF Receive, TypeOK
  <2>2. At(BagOf(u))' = At(BagOf(u)) \union {i} /\ At(BoxOf(u))' = At(BoxOf(u))
        /\ \A p \in Places : p \notin {Floor, BagOf(u), BoxOf(u)} => At(p)' = At(p)
    BY <1>1, <2>1, <2>0, OwnChange
  <2>3. Where'[BagOf(u)] = Where[BagOf(u)] \union {i}
    BY <1>3, <1>4, <2>2
  <2>4. \A p \in Places : p # BagOf(u) => Where'[p] = Where[p]
    BY <1>3, <1>4, <2>1, <2>2, AtFloor
  <2>5. InOnePlace(Places, Where', given \union {i})
    BY <1>3, <2>1, <2>3, <2>4, ItemEnters
  <2> QED BY <1>2, <2>1, <2>5
<1>6. CASE DepositItem(c, i)
  <2>0. /\ \A d \in Conns : d # c => bag'[d] = bag[d]
        /\ \A v \in Users : v # u => box'[v] = box[v]
    BY <1>6 DEF DepositItem, TypeOK
  <2>1. /\ bag'[c] = bag[c] \ {i} /\ box'[u] = box[u] \union {i}
        /\ floor' = floor /\ i \in bag[c] /\ given' = given
    BY <1>6 DEF DepositItem, TypeOK
  <2>2. At(BagOf(u))' = At(BagOf(u)) \ {i} /\ At(BoxOf(u))' = At(BoxOf(u)) \union {i}
        /\ i \in At(BagOf(u))
        /\ \A p \in Places : p \notin {Floor, BagOf(u), BoxOf(u)} => At(p)' = At(p)
    BY <1>1, <2>1, <2>0, OwnChange
  <2>3. /\ i \in Where[BagOf(u)] /\ Where'[BagOf(u)] = Where[BagOf(u)] \ {i}
        /\ Where'[BoxOf(u)] = Where[BoxOf(u)] \union {i}
    BY <1>3, <1>4, <2>2
  <2>4. \A p \in Places : p \notin {BagOf(u), BoxOf(u)} => Where'[p] = Where[p]
    BY <1>3, <1>4, <2>1, <2>2, AtFloor
  <2>5. InOnePlace(Places, Where', given)
    BY <1>3, <2>3, <2>4, ItemMoves
  <2> QED BY <1>2, <2>1, <2>5
<1>7. CASE WithdrawItem(c, i)
  <2>0. /\ \A d \in Conns : d # c => bag'[d] = bag[d]
        /\ \A v \in Users : v # u => box'[v] = box[v]
    BY <1>7 DEF WithdrawItem, TypeOK
  <2>1. /\ bag'[c] = bag[c] \union {i} /\ box'[u] = box[u] \ {i}
        /\ floor' = floor /\ i \in box[u] /\ given' = given
    BY <1>7 DEF WithdrawItem, TypeOK
  <2>2. At(BagOf(u))' = At(BagOf(u)) \union {i} /\ At(BoxOf(u))' = At(BoxOf(u)) \ {i}
        /\ i \in At(BoxOf(u))
        /\ \A p \in Places : p \notin {Floor, BagOf(u), BoxOf(u)} => At(p)' = At(p)
    BY <1>1, <2>1, <2>0, OwnChange
  <2>3. /\ i \in Where[BoxOf(u)] /\ Where'[BoxOf(u)] = Where[BoxOf(u)] \ {i}
        /\ Where'[BagOf(u)] = Where[BagOf(u)] \union {i}
    BY <1>3, <1>4, <2>2
  <2>4. \A p \in Places : p \notin {BoxOf(u), BagOf(u)} => Where'[p] = Where[p]
    BY <1>3, <1>4, <2>1, <2>2, AtFloor
  <2>5. InOnePlace(Places, Where', given)
    BY <1>3, <2>3, <2>4, ItemMoves
  <2> QED BY <1>2, <2>1, <2>5
<1>8. CASE DropItem(c, i)
  <2>0. /\ \A d \in Conns : d # c => bag'[d] = bag[d]
        /\ \A v \in Users : v # u => box'[v] = box[v]
    BY <1>8 DEF DropItem, TypeOK
  <2>1. /\ bag'[c] = bag[c] \ {i}
        /\ box'[u] = box[u] /\ floor' = floor \union {i} /\ i \in bag[c] /\ given' = given
    BY <1>8 DEF DropItem, TypeOK
  <2>2. At(BagOf(u))' = At(BagOf(u)) \ {i} /\ At(BoxOf(u))' = At(BoxOf(u)) /\ i \in At(BagOf(u))
        /\ \A p \in Places : p \notin {Floor, BagOf(u), BoxOf(u)} => At(p)' = At(p)
    BY <1>1, <2>1, <2>0, OwnChange
  <2>3. /\ i \in Where[BagOf(u)] /\ Where'[BagOf(u)] = Where[BagOf(u)] \ {i}
        /\ Where'[Floor] = Where[Floor] \union {i}
    BY <1>3, <1>4, <2>1, <2>2, AtFloor
  <2>4. \A p \in Places : p \notin {BagOf(u), Floor} => Where'[p] = Where[p]
    BY <1>3, <1>4, <2>2
  <2>5. InOnePlace(Places, Where', given)
    BY <1>3, <2>3, <2>4, ItemMoves
  <2> QED BY <1>2, <2>1, <2>5
<1>9. CASE PickUpItem(c, i)
  <2>0. /\ \A d \in Conns : d # c => bag'[d] = bag[d]
        /\ \A v \in Users : v # u => box'[v] = box[v]
    BY <1>9 DEF PickUpItem, TypeOK
  <2>1. /\ bag'[c] = bag[c] \union {i}
        /\ box'[u] = box[u] /\ floor' = floor \ {i} /\ i \in floor /\ given' = given
    BY <1>9 DEF PickUpItem, TypeOK
  <2>2. At(BagOf(u))' = At(BagOf(u)) \union {i} /\ At(BoxOf(u))' = At(BoxOf(u))
        /\ \A p \in Places : p \notin {Floor, BagOf(u), BoxOf(u)} => At(p)' = At(p)
    BY <1>1, <2>1, <2>0, OwnChange
  <2>3. /\ i \in Where[Floor] /\ Where'[Floor] = Where[Floor] \ {i}
        /\ Where'[BagOf(u)] = Where[BagOf(u)] \union {i}
    BY <1>3, <1>4, <2>1, <2>2, AtFloor
  <2>4. \A p \in Places : p \notin {Floor, BagOf(u)} => Where'[p] = Where[p]
    BY <1>3, <1>4, <2>2
  <2>5. InOnePlace(Places, Where', given)
    BY <1>3, <2>3, <2>4, ItemMoves
  <2> QED BY <1>2, <2>1, <2>5
<1> QED BY <1>5, <1>6, <1>7, <1>8, <1>9

\* Steps of the queue and the disk.
LEMMA SavesKeep ==
  ASSUME TypeOK, InOnePlace(Places, Where, given), OnePlayerEach,
         UNCHANGED <<sessions, given>>,
         \A v \in Users : v \notin Online => NewestRecord(v)' = NewestRecord(v)
  PROVE  InOnePlace(Places, Where, given)' /\ OnePlayerEach'
<1>1. /\ OnePlayerEach' /\ Online' = Online /\ \A v \in Users : Bags(v)' = Bags(v)
      /\ UNCHANGED <<box, floor>>
  BY DEF sessions, OnePlayerEach, Online, Bags
<1>2. \A v \in Users : At(BagOf(v))' = At(BagOf(v)) /\ At(BoxOf(v))' = At(BoxOf(v))
  BY <1>1, UserStays
<1> QED BY <1>1, <1>2, NothingMoves

LEMMA PeriodicSaveKeeps ==
  ASSUME TypeOK, InOnePlace(Places, Where, given), OnePlayerEach, PeriodicSave
  PROVE  InOnePlace(Places, Where, given)' /\ OnePlayerEach'
<1>1. UNCHANGED <<sessions, disk, given>> /\ ScheduleAll /\ players_queue \in Seq(Snapshot)
  BY DEF PeriodicSave, TypeOK
<1>2. PICK s \in Seq(Snapshot) : /\ players_queue' = players_queue \o s
                                 /\ \A i \in 1..Len(s) : s[i].user \in Online
  BY <1>1, ScheduledType
<1>3. ASSUME NEW v \in Users, v \notin Online PROVE NewestRecord(v)' = NewestRecord(v)
  <2>1. \A i \in 1..Len(s) : s[i].user # v
    BY <1>2, <1>3
  <2>2. Newest(players_queue \o s, disk, v) = Newest(players_queue, disk, v)
    BY <1>1, <2>1, OthersBehind
  <2> QED BY <1>1, <1>2, <2>2, NewestIs
<1> QED BY <1>1, <1>3, SavesKeep

\* The saver finds the record it is to write.
LEMMA SaverFinds ==
  ASSUME TypeOK, Registered, SavePlayer
  PROVE  disk[Head(players_queue).user] # NoRecord /\ saver' = saver
<1>1. 1 \in 1..Len(players_queue) /\ Head(players_queue) = players_queue[1]
  BY DEF SavePlayer, TypeOK
<1>2. disk[Head(players_queue).user] # NoRecord
  BY <1>1 DEF Registered
<1> QED BY <1>2 DEF SavePlayer, Update

LEMMA SavePlayerKeeps ==
  ASSUME TypeOK, InOnePlace(Places, Where, given), OnePlayerEach, Registered, SavePlayer
  PROVE  InOnePlace(Places, Where, given)' /\ OnePlayerEach'
<1>1. /\ UNCHANGED <<sessions, given>> /\ players_queue \in Seq(Snapshot) /\ players_queue # <<>>
      /\ disk \in [Users -> Record \union {NoRecord}]
      /\ players_queue' = Tail(players_queue)
      /\ disk' = [disk EXCEPT ![Head(players_queue).user] = Written(Head(players_queue))]
  <2>1. UNCHANGED <<sessions, given>> /\ players_queue \in Seq(Snapshot) /\ players_queue # <<>>
        /\ disk \in [Users -> Record \union {NoRecord}] /\ players_queue' = Tail(players_queue)
    BY DEF SavePlayer, TypeOK
  <2>2. disk' = [disk EXCEPT ![Head(players_queue).user] = Written(Head(players_queue))]
    BY SaverFinds DEF SavePlayer, Update, Written
  <2> QED BY <2>1, <2>2
<1>2. \A v \in Users : Newest(players_queue', disk', v) = Newest(players_queue, disk, v)
  BY <1>1, HeadSaved
<1>3. \A v \in Users : NewestRecord(v)' = NewestRecord(v)
  BY <1>2, NewestIs
<1> QED BY <1>1, <1>3, SavesKeep

\* A record is never taken from the disk.
LEMMA RecordsStay ==
  ASSUME TypeOK, [Next]_vars
  PROVE  \A u \in Users : disk[u] # NoRecord => disk'[u] # NoRecord
<1> USE DEF sessions, saves, control, vars
<1>1. ASSUME NEW u \in Users, Signup(u) PROVE \A v \in Users : disk[v] # NoRecord => disk'[v] # NoRecord
  <2>1. [bag |-> {}, box |-> {}] \in Record
    BY DEF Record
  <2> QED BY <1>1, <2>1, Distinct DEF TypeOK, Signup
<1>2. CASE SavePlayer
  <2>1. Head(players_queue) \in Snapshot
    BY <1>2 DEF TypeOK, SavePlayer
  <2>2. \/ disk' = [disk EXCEPT ![Head(players_queue).user] = Written(Head(players_queue))]
        \/ disk' = disk
    BY <1>2 DEF SavePlayer, Update, Written
  <2>3. Written(Head(players_queue)) # NoRecord
    BY <2>1, WrittenType, Distinct
  <2> QED BY <2>2, <2>3 DEF TypeOK
<1>3. CASE UNCHANGED disk
  BY <1>3
<1>4. (\E u \in Users : Signup(u)) \/ SavePlayer \/ UNCHANGED disk
  BY DEF Next, Play, Leave, Saver, Login, LoginDamaged, Logout, Receive, DepositItem, WithdrawItem,
         DropItem, PickUpItem, PeriodicSave, LeaveTicks, FinalSave, JoinSaver, Shutdown, SaverChecks,
         PlayersSaved, SaveWorld, WorldSaved
<1> QED BY <1>1, <1>2, <1>3, <1>4

\* Players whose records are there stay the only ones as long as no damaged record is read.
LEMMA RegisteredKept ==
  ASSUME TypeOK, Registered, [Next]_vars, clean'
  PROVE  Registered'
<1> USE DEF sessions, saves, control, vars
<1>1. \A u \in Users : disk[u] # NoRecord => disk'[u] # NoRecord
  BY RecordsStay
<1> DEFINE Players == \A c \in Conns : player'[c] \in Users \union {Nobody}
                         /\ (player'[c] # Nobody => disk[player'[c]] # NoRecord)
           Queued == \A i \in 1..Len(players_queue') :
                        players_queue'[i].user \in Users /\ disk[players_queue'[i].user] # NoRecord
<1>2. \A c \in Conns : player[c] \in Users \union {Nobody}
  BY DEF TypeOK
<1>3. players_queue \in Seq(Snapshot) /\ Len(players_queue) \in Nat
      /\ \A i \in 1..Len(players_queue) : players_queue[i].user \in Users
  <2>1. players_queue \in Seq(Snapshot)
    BY DEF TypeOK
  <2>2. \A r \in Snapshot : r.user \in Users
    BY DEF Snapshot
  <2>3. \A i \in 1..Len(players_queue) : players_queue[i] \in Snapshot
    BY <2>1
  <2>4. Len(players_queue) \in Nat
    BY <2>1
  <2> QED BY <2>1, <2>2, <2>3, <2>4
<1>4. Players
  <2>1. ASSUME NEW c \in Conns, NEW u \in Users, Login(c, u) PROVE Players
    <3>1. disk[u] # NoRecord /\ player' \in {player, [player EXCEPT ![c] = u]}
      BY <2>1 DEF Login, Load
    <3> QED BY <1>2, <3>1 DEF Registered, TypeOK
  <2>2. ASSUME NEW c \in Conns, Logout(c) PROVE Players
    BY <1>2, <2>2 DEF Logout, Registered, TypeOK
  <2>3. CASE UNCHANGED player
    BY <1>2, <2>3 DEF Registered
  <2>4. \/ \E c \in Conns, u \in Users : Login(c, u)
        \/ \E c \in Conns : Logout(c)
        \/ UNCHANGED player
    BY DEF Next, Play, Leave, Saver, Signup, LoginDamaged, Receive, DepositItem, WithdrawItem,
           DropItem, PickUpItem, PeriodicSave, LeaveTicks, FinalSave, JoinSaver, Shutdown, SaverChecks,
           SavePlayer, PlayersSaved, SaveWorld, WorldSaved
  <2> QED BY <2>1, <2>2, <2>3, <2>4
<1>5. Queued
  <2>1. ASSUME NEW c \in Conns, Logout(c) PROVE Queued
    <3>1. DataOf(c) \in Snapshot /\ DataOf(c).user = player[c] /\ disk[player[c]] # NoRecord
          /\ player[c] \in Users
      BY <1>2, <2>1, DataType DEF Logout, Registered
    <3>2. players_queue' = Append(players_queue, DataOf(c))
      BY <2>1 DEF Logout
    <3> QED BY <1>3, <3>1, <3>2 DEF Registered
  <2>2. CASE ScheduleAll
    <3>1. PICK s \in Seq(Snapshot) : /\ players_queue' = players_queue \o s
                                     /\ \A i \in 1..Len(s) : s[i].user \in Online
      BY <2>2, ScheduledType
    <3>2. \A u \in Online : u \in Users /\ disk[u] # NoRecord
      BY <1>2 DEF Online, Registered
    <3>3. \A i \in 1..Len(players_queue') :
             \/ i \in 1..Len(players_queue) /\ players_queue'[i] = players_queue[i]
             \/ \E j \in 1..Len(s) : players_queue'[i] = s[j]
      BY <1>3, <3>1
    <3> QED BY <1>3, <3>1, <3>2, <3>3 DEF Registered
  <2>3. CASE SavePlayer
    <3>1. players_queue' = Tail(players_queue) /\ players_queue # <<>>
      BY <2>3 DEF SavePlayer
    <3>2. \A i \in 1..Len(players_queue') :
             i + 1 \in 1..Len(players_queue) /\ players_queue'[i] = players_queue[i + 1]
      BY <1>3, <3>1
    <3> QED BY <1>3, <3>2 DEF Registered
  <2>4. CASE UNCHANGED players_queue
    BY <1>3, <2>4 DEF Registered
  <2>5. (\E c \in Conns : Logout(c)) \/ ScheduleAll \/ SavePlayer \/ UNCHANGED players_queue
    BY DEF Next, Play, Leave, Saver, Signup, Login, LoginDamaged, Receive, DepositItem, WithdrawItem,
           DropItem, PickUpItem, PeriodicSave, LeaveTicks, FinalSave, JoinSaver, Shutdown, SaverChecks,
           PlayersSaved, SaveWorld, WorldSaved
  <2> QED BY <2>1, <2>2, <2>3, <2>4, <2>5
<1> QED BY <1>1, <1>2, <1>4, <1>5 DEF Registered

-----------------------------------------------------------------------------
LEMMA InitItems == Init => SessionInv
<1> SUFFICES ASSUME Init PROVE SessionInv
  OBVIOUS
<1>1. TypeOK
  BY DEF Init, TypeOK
<1>2. OnePlayerEach /\ Online = {} /\ given = {} /\ floor = {}
  BY DEF Init, OnePlayerEach, Online
<1>3. \A u \in Users : NewestRecord(u) = NoRecord
  <2>1. \A u \in Users : Of(players_queue, u) = {} /\ disk[u] = NoRecord
    BY DEF Init, Of
  <2> QED BY <2>1, NewestIs, NewestOnDisk
<1>4. \A p \in Places : At(p) = {}
  <2>1. \A u \in Users : At(BagOf(u)) = {} /\ At(BoxOf(u)) = {}
    BY <1>2, <1>3, AtAway DEF Kept
  <2> QED BY <1>2, <2>1, PlacesAre, AtFloor
<1>5. Registered /\ saver # "failed"
  BY DEF Init, Registered
<1> QED BY <1>1, <1>2, <1>4, <1>5 DEF SessionInv, EveryItemInOnePlace

LEMMA InvPlaces == SessionInv <=> TypeOK /\ (clean => OnePlayerEach /\ Registered /\ saver # "failed")
                                  /\ (loop = "ticking" /\ clean => InOnePlace(Places, Where, given))
BY WhereIs DEF SessionInv, EveryItemInOnePlace

LEMMA InvPlacesNext == SessionInv' <=> TypeOK' /\ (clean' => OnePlayerEach' /\ Registered' /\ saver' # "failed")
                                       /\ (loop' = "ticking" /\ clean' => InOnePlace(Places, Where, given)')
BY WhereIs DEF SessionInv, EveryItemInOnePlace

\* The steps.  Outside of the ticks the property says nothing of the items, but a
\* clean process still has one player for each user.
LEMMA StepItems == SessionInv /\ [Next]_vars => SessionInv'
<1> SUFFICES ASSUME SessionInv, [Next]_vars PROVE SessionInv'
  OBVIOUS
<1>1. /\ TypeOK /\ TypeOK'
      /\ clean => OnePlayerEach /\ Registered /\ saver # "failed"
      /\ loop = "ticking" /\ clean => InOnePlace(Places, Where, given)
  BY InvPlaces, TypesKept
<1>0. clean' => clean
  BY DEF Next, Play, Leave, Saver, Signup, Login, LoginDamaged, Logout, Receive, DepositItem,
         WithdrawItem, DropItem, PickUpItem, PeriodicSave, LeaveTicks, FinalSave, JoinSaver, Shutdown,
         SaverChecks, SavePlayer, PlayersSaved, SaveWorld, WorldSaved, vars, sessions, control
<1>11. clean' => Registered' /\ saver' # "failed"
  <2> SUFFICES ASSUME clean' PROVE Registered' /\ saver' # "failed"
    OBVIOUS
  <2>1. Registered /\ saver # "failed"
    BY <1>1, <1>0
  <2>2. Registered'
    BY <1>1, <2>1, RegisteredKept
  <2>3. SavePlayer => saver' = saver
    BY <1>1, <2>1, SaverFinds
  <2>4. saver' # "failed"
    BY <2>1, <2>3 DEF Next, Play, Leave, Saver, Signup, Login, LoginDamaged, Logout, Receive,
       DepositItem, WithdrawItem, DropItem, PickUpItem, PeriodicSave, LeaveTicks, FinalSave, JoinSaver,
       Shutdown, SaverChecks, PlayersSaved, SaveWorld, WorldSaved, vars, sessions, control
  <2> QED BY <2>2, <2>4
<1> DEFINE Goal == /\ clean' => OnePlayerEach'
                   /\ loop' = "ticking" /\ clean' => InOnePlace(Places, Where, given)'
<1>2. ASSUME NEW u \in Users, Signup(u) PROVE Goal
  <2>1. UNCHANGED <<player, loop, clean>> /\ loop = "ticking"
    BY <1>2 DEF Signup, sessions, control
  <2>2. OnePlayerEach => OnePlayerEach'
    BY <2>1 DEF OnePlayerEach
  <2> QED BY <1>1, <1>2, <2>1, <2>2, SignupKeeps
<1>3. ASSUME NEW c \in Conns, NEW u \in Users, Login(c, u) PROVE Goal
  <2>1. loop = "ticking" /\ (clean' => clean /\ u \notin Online /\ Waiting(u) = {})
    BY <1>3 DEF Login
  <2> QED BY <1>1, <1>3, <2>1, LoginKeeps
<1>12. ASSUME NEW c \in Conns, NEW u \in Users, LoginDamaged(c, u) PROVE Goal
  BY <1>12 DEF LoginDamaged
<1>4. ASSUME NEW c \in Conns, Logout(c) PROVE Goal
  <2>1. loop = "ticking" /\ clean' = clean
    BY <1>4 DEF Logout
  <2> QED BY <1>1, <1>4, <2>1, LogoutKeeps
<1>5. ASSUME NEW c \in Conns, NEW i \in Items,
             Receive(c, i) \/ DepositItem(c, i) \/ WithdrawItem(c, i) \/ DropItem(c, i) \/ PickUpItem(c, i)
      PROVE  Goal
  <2>1. loop = "ticking" /\ clean' = clean
    BY <1>5 DEF Receive, DepositItem, WithdrawItem, DropItem, PickUpItem
  <2> QED BY <1>1, <1>5, <2>1, ItemStepsKeep
<1>6. ASSUME PeriodicSave PROVE Goal
  <2>1. loop = "ticking" /\ clean' = clean
    BY <1>6 DEF PeriodicSave
  <2> QED BY <1>1, <1>6, <2>1, PeriodicSaveKeeps
<1>7. ASSUME LeaveTicks \/ FinalSave \/ JoinSaver PROVE Goal
  <2>1. loop' # "ticking" /\ clean' = clean /\ player' = player
    BY <1>7 DEF LeaveTicks, FinalSave, JoinSaver, sessions
  <2> QED BY <1>1, <2>1 DEF OnePlayerEach
<1>8. ASSUME SavePlayer PROVE Goal
  <2>1. loop' = loop /\ clean' = clean /\ player' = player
    BY <1>8 DEF SavePlayer, control, sessions
  <2>2. clean' => OnePlayerEach'
    BY <1>1, <2>1 DEF OnePlayerEach
  <2> QED BY <1>1, <1>8, <2>1, <2>2, SavePlayerKeeps
<1>9. ASSUME Shutdown \/ SaverChecks \/ PlayersSaved \/ SaveWorld \/ WorldSaved \/ UNCHANGED vars PROVE Goal
  <2>1. UNCHANGED <<sessions, players_queue, disk, loop, given, clean>>
    BY <1>9 DEF Shutdown, SaverChecks, PlayersSaved, SaveWorld, WorldSaved, vars, control, saves
  <2>2. clean' => OnePlayerEach'
    BY <1>1, <2>1 DEF OnePlayerEach, sessions
  <2>3. \A v \in Users : NewestRecord(v)' = NewestRecord(v)
    BY <2>1, NewestIs
  <2> QED BY <1>1, <2>1, <2>2, <2>3, SavesKeep
<1>10. Goal
  <2> HIDE DEF Goal
  <2> QED BY <1>2, <1>3, <1>12, <1>4, <1>5, <1>6, <1>7, <1>8, <1>9 DEF Next, Play, Leave, Saver
<1> QED BY <1>1, <1>10, <1>11, InvPlacesNext

\* No item is lost and none is in two places as long as every login was of an absent
\* user with nothing left to be saved and read an undamaged record, whatever the
\* queue to the disk holds; and until then no exception ends the saver, which leaves
\* its loop only when told to.
THEOREM ItemsCorrect == SafeSpec => []EveryItemInOnePlace
<1>1. SessionInv => EveryItemInOnePlace
  BY DEF SessionInv
<1> QED BY InitItems, StepItems, <1>1, PTL DEF SafeSpec

=============================================================================
