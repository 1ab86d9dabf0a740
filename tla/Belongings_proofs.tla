-------------------------- MODULE Belongings_proofs --------------------------
(***************************************************************************)
(* Proofs about Belongings, for any number and capacity of slots, any      *)
(* items and prices, and any width of the gold counter.                    *)
(*                                                                         *)
(* What a bag holds is a sum over its slots and is written as a recursion, *)
(* so the first part is about recursion: a function defined by what comes  *)
(* before exists, and what holds of 0 and from each number to the next     *)
(* holds of all, as sets of numbers (UpTo, from the library's theorem that *)
(* the order of the naturals is well founded).  Then come the operations   *)
(* of the inventory, each with the same three questions: what does it do   *)
(* to the sum of the slots, to size_current, and to the units of each      *)
(* type?  Then the steps of the system, each of which leaves no fewer      *)
(* units missing than before, and more only at a full bag (GoodStep).      *)
(***************************************************************************)
EXTENDS Belongings, FiniteSetTheorems, WellFoundedInduction, TLAPS

-----------------------------------------------------------------------------
(***************************************************************************)
(* Recursion over the slots and over sequences of units.                   *)
(***************************************************************************)

\* The elements of S, from 0 on, reach N if each brings the next.
LEMMA UpTo ==
  ASSUME NEW N \in Nat, NEW S, 0 \in S, \A n \in 0..N : n \in S /\ n < N => n + 1 \in S
  PROVE  \A n \in 0..N : n \in S
<1> DEFINE T == {n \in Nat : n <= N /\ n \notin S}
           Less == {s \in Nat \X Nat : s[1] < s[2]}
<1>1. ASSUME T # {} PROVE FALSE
  <2>1. IsWellFoundedOn(Less, Nat)
    BY NatLessThanWellFounded DEF OpToRel
  <2>2. PICK x \in T : \A y \in T : ~(<<y, x>> \in Less)
    <3>1. T \subseteq Nat
      OBVIOUS
    <3> HIDE DEF T, Less
    <3> QED BY <1>1, <2>1, <3>1, WFMin
  <2>3. x \in Nat /\ x <= N /\ x \notin S /\ x # 0
    OBVIOUS
  <2>4. x - 1 \in 0..N /\ x - 1 < N /\ x - 1 \in Nat /\ x - 1 + 1 = x /\ x - 1 < x
    BY <2>3
  <2>5. x - 1 \notin T
    BY <2>2, <2>4
  <2>6. x - 1 \in S
    BY <2>4, <2>5
  <2> QED BY <2>3, <2>4, <2>6
<1>2. QED
  BY <1>1

Stepper(N, D) == [1..N -> [D -> D]]

Follows(f, N, D, base, step) ==
  /\ f \in [0..N -> D] /\ f[0] = base
  /\ \A n \in 1..N : f[n] = step[n][f[n - 1]]

\* A function defined by what comes before exists.
LEMMA RecursionExists ==
  ASSUME NEW D, NEW N \in Nat, NEW base \in D, NEW step \in Stepper(N, D)
  PROVE  \E f : Follows(f, N, D, base, step)
<1> DEFINE Begins(g, m) == g[0] = base /\ \A n \in 1..m : g[n] = step[n][g[n - 1]]
           S == {m \in 0..N : \E g \in [0..m -> D] : Begins(g, m)}
<1>1. 0 \in S
  <2>1. PICK g : g = [n \in 0..0 |-> base]
    OBVIOUS
  <2>2. g \in [0..0 -> D] /\ g[0] = base /\ 1..0 = {}
    BY <2>1
  <2>3. 0 \in 0..N
    OBVIOUS
  <2> QED BY <2>2, <2>3
<1>2. ASSUME NEW m \in 0..N, m \in S, m < N PROVE m + 1 \in S
  <2>1. PICK g \in [0..m -> D] : Begins(g, m)
    BY <1>2
  <2>2. m \in Nat /\ m + 1 \in 1..N /\ m + 1 \in 0..N /\ g[m] \in D /\ step[m + 1] \in [D -> D]
    BY <1>2 DEF Stepper
  <2>3. PICK e : e = step[m + 1][g[m]]
    OBVIOUS
  <2>4. e \in D
    BY <2>2, <2>3
  <2>5. PICK h : h = [n \in 0..(m + 1) |-> IF n = m + 1 THEN e ELSE g[n]]
    OBVIOUS
  <2>6. h \in [0..(m + 1) -> D]
    <3>1. ASSUME NEW n \in 0..(m + 1) PROVE (IF n = m + 1 THEN e ELSE g[n]) \in D
      <4>1. n # m + 1 => n \in 0..m
        BY <2>2
      <4> QED BY <2>4, <4>1
    <3> QED BY <2>5, <3>1
  <2>7. h[0] = base
    BY <2>1, <2>2, <2>5
  <2>8. ASSUME NEW n \in 1..(m + 1) PROVE h[n] = step[n][h[n - 1]]
    <3>1. n \in Nat /\ n \in 0..(m + 1) /\ n - 1 \in 0..(m + 1) /\ n - 1 # m + 1
      BY <2>2
    <3>2. h[n - 1] = g[n - 1]
      BY <2>5, <3>1
    <3>3. CASE n = m + 1
      <4>1. n - 1 = m /\ h[n] = e
        BY <2>2, <2>5, <3>1, <3>3
      <4> QED BY <2>3, <3>2, <3>3, <4>1
    <3>4. CASE n # m + 1
      <4>1. n \in 1..m /\ h[n] = g[n]
        BY <2>2, <2>5, <3>1, <3>4
      <4> QED BY <2>1, <3>2, <4>1
    <3> QED BY <3>3, <3>4
  <2>9. Begins(h, m + 1)
    BY <2>7, <2>8
  <2> QED BY <2>2, <2>6, <2>9
<1>3. N \in S
  <2> HIDE DEF S
  <2>1. \A n \in 0..N : n \in S
    BY <1>1, <1>2, UpTo
  <2> QED BY <2>1
<1>4. QED
  BY <1>3 DEF Follows

\* The function the sum is read from exists, so the sum is what it says.
LEMMA SumExists ==
  ASSUME NEW q \in [Slots -> Nat]
  PROVE  \E s : /\ s = [n \in 0..MaxSlots |-> IF n = 0 THEN 0 ELSE s[n - 1] + q[n]]
                /\ s[MaxSlots] = SumOver(q)
<1>1. MaxSlots \in Nat
  BY BelongingsAssumption
<1> DEFINE step == [n \in 1..MaxSlots |-> [x \in Nat |-> x + q[n]]]
<1>2. step \in [1..MaxSlots -> [Nat -> Nat]]
  <2>1. ASSUME NEW n \in 1..MaxSlots PROVE [x \in Nat |-> x + q[n]] \in [Nat -> Nat]
    <3>1. q[n] \in Nat
      BY DEF Slots
    <3> QED BY <3>1
  <2> QED BY <2>1
<1>3. PICK f \in [0..MaxSlots -> Nat] :
        f[0] = 0 /\ \A n \in 1..MaxSlots : f[n] = step[n][f[n - 1]]
  <2>1. step \in Stepper(MaxSlots, Nat) /\ 0 \in Nat
    BY <1>2 DEF Stepper
  <2>2. \E f : Follows(f, MaxSlots, Nat, 0, step)
    <3> HIDE DEF step
    <3> QED BY <1>1, <2>1, RecursionExists
  <2> QED BY <2>2 DEF Follows
<1>4. f = [n \in 0..MaxSlots |-> IF n = 0 THEN 0 ELSE f[n - 1] + q[n]]
  <2>1. ASSUME NEW n \in 0..MaxSlots PROVE f[n] = IF n = 0 THEN 0 ELSE f[n - 1] + q[n]
    <3>1. CASE n = 0
      BY <1>3, <3>1
    <3>2. CASE n # 0
      <4>1. n \in 1..MaxSlots /\ f[n - 1] \in Nat
        BY <1>1, <3>2
      <4>2. f[n] = step[n][f[n - 1]]
        BY <1>3, <3>2
      <4> QED BY <3>2, <4>1, <4>2
    <3> QED BY <3>1, <3>2
  <2> QED BY <1>3, <2>1
<1> DEFINE upTo == CHOOSE s : s = [n \in 0..MaxSlots |-> IF n = 0 THEN 0 ELSE s[n - 1] + q[n]]
<1>5. upTo = [n \in 0..MaxSlots |-> IF n = 0 THEN 0 ELSE upTo[n - 1] + q[n]]
  BY <1>4
<1>6. SumOver(q) = upTo[MaxSlots]
  BY DEF SumOver
<1> HIDE DEF upTo
<1>7. QED
  BY <1>5, <1>6

\* The sums over the first slots, up to the sum over them all.
LEMMA PartialSums ==
  ASSUME NEW q \in [Slots -> Nat]
  PROVE  \E s \in [0..MaxSlots -> Nat] :
           /\ s[0] = 0 /\ s[MaxSlots] = SumOver(q)
           /\ \A n \in 1..MaxSlots : s[n] = s[n - 1] + q[n]
<1>1. MaxSlots \in Nat
  BY BelongingsAssumption
<1>2. PICK s : /\ s = [n \in 0..MaxSlots |-> IF n = 0 THEN 0 ELSE s[n - 1] + q[n]]
               /\ s[MaxSlots] = SumOver(q)
  BY SumExists
<1>3. s[0] = 0
  BY <1>1, <1>2
<1>4. \A n \in 1..MaxSlots : s[n] = s[n - 1] + q[n]
  BY <1>1, <1>2
<1> DEFINE S == {n \in 0..MaxSlots : s[n] \in Nat}
<1>5. \A n \in 0..MaxSlots : n \in S
  <2>1. 0 \in S
    BY <1>1, <1>3
  <2>2. ASSUME NEW n \in 0..MaxSlots, n \in S, n < MaxSlots PROVE n + 1 \in S
    <3>1. n + 1 \in 1..MaxSlots /\ n + 1 \in 0..MaxSlots /\ n + 1 - 1 = n
      BY <1>1, <2>2
    <3>2. s[n + 1] = s[n] + q[n + 1] /\ s[n] \in Nat /\ q[n + 1] \in Nat
      BY <1>4, <2>2, <3>1 DEF Slots
    <3> QED BY <3>1, <3>2
  <2> HIDE DEF S
  <2> QED BY <1>1, <2>1, <2>2, UpTo
<1>6. s \in [0..MaxSlots -> Nat]
  BY <1>2, <1>5
<1> QED BY <1>2, <1>3, <1>4, <1>6

\* A sum of quantities is one.
LEMMA SumType ==
  ASSUME NEW q \in [Slots -> Nat]
  PROVE  SumOver(q) \in Nat
BY PartialSums, BelongingsAssumption

\* Empty slots add up to nothing.
LEMMA SumOfNothing ==
  ASSUME NEW q \in [Slots -> Nat], \A i \in Slots : q[i] = 0
  PROVE  SumOver(q) = 0
<1>1. MaxSlots \in Nat
  BY BelongingsAssumption
<1>2. PICK s \in [0..MaxSlots -> Nat] :
           /\ s[0] = 0 /\ s[MaxSlots] = SumOver(q)
           /\ \A n \in 1..MaxSlots : s[n] = s[n - 1] + q[n]
  BY PartialSums
<1> DEFINE S == {n \in 0..MaxSlots : s[n] = 0}
<1>3. 0 \in S
  BY <1>1, <1>2
<1>4. ASSUME NEW n \in 0..MaxSlots, n \in S, n < MaxSlots PROVE n + 1 \in S
  <2>1. n + 1 \in 1..MaxSlots /\ n + 1 \in 0..MaxSlots /\ n + 1 - 1 = n
    BY <1>1, <1>4
  <2>2. s[n + 1] = s[n] + q[n + 1] /\ s[n] = 0 /\ q[n + 1] = 0
    BY <1>2, <1>4, <2>1 DEF Slots
  <2> QED BY <2>1, <2>2
<1>5. MaxSlots \in S
  <2> HIDE DEF S
  <2>1. \A n \in 0..MaxSlots : n \in S
    BY <1>1, <1>3, <1>4, UpTo
  <2> QED BY <1>1, <2>1
<1> QED BY <1>2, <1>5

\* The step of SumChanges in numbers.
LEMMA AddToBoth ==
  ASSUME NEW a \in Nat, NEW b \in Nat, NEW c \in Nat, NEW d \in Nat, NEW e \in Nat, a + b = c + d
  PROVE  (a + e) + b = (c + e) + d
OBVIOUS

\* What changes in one slot changes the sum by as much.
LEMMA SumChanges ==
  ASSUME NEW q \in [Slots -> Nat], NEW r \in [Slots -> Nat], NEW i \in Slots,
         \A j \in Slots : j # i => q[j] = r[j]
  PROVE  SumOver(r) + q[i] = SumOver(q) + r[i]
<1>1. MaxSlots \in Nat /\ i \in Nat /\ 1 <= i /\ i <= MaxSlots /\ q[i] \in Nat /\ r[i] \in Nat
  BY BelongingsAssumption DEF Slots
<1>2. PICK s \in [0..MaxSlots -> Nat] :
           /\ s[0] = 0 /\ s[MaxSlots] = SumOver(q)
           /\ \A n \in 1..MaxSlots : s[n] = s[n - 1] + q[n]
  BY PartialSums
<1>3. PICK z \in [0..MaxSlots -> Nat] :
           /\ z[0] = 0 /\ z[MaxSlots] = SumOver(r)
           /\ \A n \in 1..MaxSlots : z[n] = z[n - 1] + r[n]
  BY PartialSums
<1> DEFINE S == {n \in 0..MaxSlots : /\ n < i => z[n] = s[n]
                                     /\ i <= n => z[n] + q[i] = s[n] + r[i]}
<1>4. 0 \in S
  BY <1>1, <1>2, <1>3
<1>5. ASSUME NEW n \in 0..MaxSlots, n \in S, n < MaxSlots PROVE n + 1 \in S
  <2>1. PICK m : m = n + 1
    OBVIOUS
  <2>2. n \in Nat /\ m \in Nat /\ m \in 1..MaxSlots /\ m \in 0..MaxSlots /\ m - 1 = n /\ m \in Slots
    BY <1>1, <1>5, <2>1 DEF Slots
  <2>3. s[m] = s[n] + q[m] /\ z[m] = z[n] + r[m]
    BY <1>2, <1>3, <2>2
  <2>4. s[n] \in Nat /\ z[n] \in Nat /\ q[m] \in Nat /\ r[m] \in Nat
    BY <2>2
  <2>5. (n < i => z[n] = s[n]) /\ (i <= n => z[n] + q[i] = s[n] + r[i])
    BY <1>5
  <2>6. m # i => q[m] = r[m]
    BY <2>2
  <2>7. /\ m < i => n < i /\ m # i
        /\ i <= m /\ m # i => i <= n
        /\ m = i => n < i
    BY <1>1, <2>1, <2>2
  <2>8. m < i => z[m] = s[m]
    BY <2>3, <2>5, <2>6, <2>7, Zenon
  <2>9. i <= m => z[m] + q[i] = s[m] + r[i]
    <3>1. CASE m = i
      <4>1. z[m] = s[n] + r[i] /\ s[m] = s[n] + q[i]
        BY <2>3, <2>5, <2>7, <3>1, Zenon
      <4> QED BY <1>1, <2>4, <4>1
    <3>2. ASSUME i <= m, m # i PROVE z[m] + q[i] = s[m] + r[i]
      <4>1. z[m] = z[n] + q[m] /\ s[m] = s[n] + q[m] /\ z[n] + q[i] = s[n] + r[i]
        BY <2>3, <2>5, <2>6, <2>7, <3>2, Zenon
      <4>2. PICK a, b, c, d, e : a = z[n] /\ b = q[i] /\ c = s[n] /\ d = r[i] /\ e = q[m]
        OBVIOUS
      <4>3. a \in Nat /\ b \in Nat /\ c \in Nat /\ d \in Nat /\ e \in Nat
        BY <1>1, <2>4, <4>2, Zenon
      <4>4. a + b = c + d
        BY <4>1, <4>2, Zenon
      <4>5. (a + e) + b = (c + e) + d
        BY <4>3, <4>4, AddToBoth
      <4> QED BY <4>1, <4>2, <4>5, Zenon
    <3> QED BY <3>1, <3>2, Zenon
  <2> QED BY <2>1, <2>2, <2>8, <2>9
<1>6. MaxSlots \in S
  <2> HIDE DEF S
  <2>1. \A n \in 0..MaxSlots : n \in S
    BY <1>1, <1>4, <1>5, UpTo
  <2> QED BY <1>1, <2>1
<1> QED BY <1>1, <1>2, <1>3, <1>6

-----------------------------------------------------------------------------
(***************************************************************************)
(* The inventory: what each of its operations does to the two accounts it  *)
(* keeps, and to the units of each type.                                   *)
(***************************************************************************)

\* The units of type t in a slot.
Of(s, t) == IF s.item = t THEN s.qty ELSE 0

\* A slot is empty or holds a unit at least.
LEMMA SlotIs ==
  ASSUME NEW s \in Contents
  PROVE  /\ s.qty \in Nat /\ s.qty <= Capacity
         /\ s.item = None => s = Nothing /\ s.qty = 0
         /\ s.item # None => s.item \in Types /\ s.qty >= 1 /\ s # Nothing
         /\ \A t \in Types : Of(s, t) \in Nat /\ Of(Nothing, t) = 0
BY BelongingsAssumption DEF Contents, Nothing, Of

\* Slots may be empty, or hold up to their capacity.
LEMMA NothingIsContents ==
  Nothing \in Contents /\ \A t \in Types, n \in 1..Capacity : [item |-> t, qty |-> n] \in Contents
BY DEF Contents

\* What an inventory holds is a number of units.
LEMMA CountsAreNat ==
  ASSUME NEW v \in Inventory
  PROVE  Held(v) \in Nat /\ \A t \in Types : UnitsIn(v, t) \in Nat
<1>1. \A i \in Slots : v.slots[i] \in Contents
  BY DEF Inventory
<1>2. [i \in Slots |-> v.slots[i].qty] \in [Slots -> Nat]
  BY <1>1, SlotIs
<1>3. ASSUME NEW t \in Types
      PROVE  [i \in Slots |-> IF v.slots[i].item = t THEN v.slots[i].qty ELSE 0] \in [Slots -> Nat]
  BY <1>1, SlotIs
<1>4. Held(v) \in Nat
  BY <1>2, SumType DEF Held
<1>5. ASSUME NEW t \in Types PROVE UnitsIn(v, t) \in Nat
  BY <1>3, SumType DEF UnitsIn
<1> QED BY <1>4, <1>5

\* One slot changes, and the sums by what it held and holds.
LEMMA SlotChanges ==
  ASSUME NEW v \in Inventory, NEW w \in Inventory, NEW i \in Slots,
         \A j \in Slots : j # i => w.slots[j] = v.slots[j]
  PROVE  /\ Held(w) + v.slots[i].qty = Held(v) + w.slots[i].qty
         /\ \A t \in Types : UnitsIn(w, t) + Of(v.slots[i], t) = UnitsIn(v, t) + Of(w.slots[i], t)
<1>1. \A j \in Slots : v.slots[j] \in Contents /\ w.slots[j] \in Contents
  BY DEF Inventory
<1>2. Held(w) + v.slots[i].qty = Held(v) + w.slots[i].qty
  <2>1. PICK q : q = [j \in Slots |-> v.slots[j].qty]
    OBVIOUS
  <2>2. PICK r : r = [j \in Slots |-> w.slots[j].qty]
    OBVIOUS
  <2>3. q \in [Slots -> Nat] /\ r \in [Slots -> Nat]
    BY <1>1, <2>1, <2>2, SlotIs
  <2>4. \A j \in Slots : j # i => q[j] = r[j]
    BY <2>1, <2>2
  <2>5. SumOver(r) + q[i] = SumOver(q) + r[i]
    BY <2>3, <2>4, SumChanges
  <2> QED BY <2>1, <2>2, <2>5 DEF Held
<1>3. ASSUME NEW t \in Types
      PROVE  UnitsIn(w, t) + Of(v.slots[i], t) = UnitsIn(v, t) + Of(w.slots[i], t)
  <2>1. PICK q : q = [j \in Slots |-> IF v.slots[j].item = t THEN v.slots[j].qty ELSE 0]
    OBVIOUS
  <2>2. PICK r : r = [j \in Slots |-> IF w.slots[j].item = t THEN w.slots[j].qty ELSE 0]
    OBVIOUS
  <2>3. q \in [Slots -> Nat] /\ r \in [Slots -> Nat]
    BY <1>1, <2>1, <2>2, SlotIs
  <2>4. \A j \in Slots : j # i => q[j] = r[j]
    BY <2>1, <2>2
  <2>5. SumOver(r) + q[i] = SumOver(q) + r[i]
    BY <2>3, <2>4, SumChanges
  <2>6. q[i] = Of(v.slots[i], t) /\ r[i] = Of(w.slots[i], t)
    BY <2>1, <2>2 DEF Of
  <2> QED BY <2>1, <2>2, <2>5, <2>6 DEF UnitsIn
<1> QED BY <1>2, <1>3

\* One slot is set, and nothing else.
LEMMA SlotSet ==
  ASSUME NEW v \in Inventory, NEW i \in Slots, NEW s \in Contents, NEW n \in Nat,
         NEW w, w = [slots |-> [v.slots EXCEPT ![i] = s], size_current |-> n]
  PROVE  /\ w \in Inventory /\ w.size_current = n
         /\ w.slots[i] = s /\ \A j \in Slots : j # i => w.slots[j] = v.slots[j]
         /\ Held(w) + v.slots[i].qty = Held(v) + s.qty
         /\ \A t \in Types : UnitsIn(w, t) + Of(v.slots[i], t) = UnitsIn(v, t) + Of(s, t)
<1>1. v.slots \in [Slots -> Contents]
  BY DEF Inventory
<1>2. w.slots = [v.slots EXCEPT ![i] = s] /\ w.size_current = n
  OBVIOUS
<1>3. w \in Inventory
  BY <1>1 DEF Inventory
<1>4. w.slots[i] = s
  BY <1>1, <1>2
<1>5. \A j \in Slots : j # i => w.slots[j] = v.slots[j]
  BY <1>1, <1>2
<1>6. /\ Held(w) + v.slots[i].qty = Held(v) + w.slots[i].qty
      /\ \A t \in Types : UnitsIn(w, t) + Of(v.slots[i], t) = UnitsIn(v, t) + Of(w.slots[i], t)
  <2>1. \A x \in Inventory :
          (\A j \in Slots : j # i => x.slots[j] = v.slots[j]) =>
            /\ Held(x) + v.slots[i].qty = Held(v) + x.slots[i].qty
            /\ \A t \in Types : UnitsIn(x, t) + Of(v.slots[i], t) = UnitsIn(v, t) + Of(x.slots[i], t)
    BY SlotChanges
  <2> QED BY <1>3, <1>5, <2>1, Zenon
<1>7. /\ Held(w) + v.slots[i].qty = Held(v) + s.qty
      /\ \A t \in Types : UnitsIn(w, t) + Of(v.slots[i], t) = UnitsIn(v, t) + Of(s, t)
  BY <1>4, <1>6, Zenon
<1> QED BY <1>2, <1>3, <1>4, <1>5, <1>7, Zenon

\* The first slot of a type is one of that type.
LEMMA FirstSlot ==
  ASSUME NEW v, NEW t, Holding(v, t) # {}
  PROVE  searchItem(v, t) \in Slots /\ v.slots[searchItem(v, t)].item = t
<1> DEFINE Less == {s \in Nat \X Nat : s[1] < s[2]}
<1>1. IsWellFoundedOn(Less, Nat)
  BY NatLessThanWellFounded DEF OpToRel
<1>2. Holding(v, t) \subseteq Nat
  BY DEF Holding, Slots
<1>3. PICK x \in Holding(v, t) : \A y \in Holding(v, t) : ~(<<y, x>> \in Less)
  <2> HIDE DEF Less
  <2> QED BY <1>1, <1>2, WFMin
<1>4. ASSUME NEW y \in Holding(v, t) PROVE x <= y
  <2>1. x \in Nat /\ y \in Nat
    BY <1>2
  <2>2. ~(y < x)
    BY <1>3, <2>1
  <2> QED BY <2>1, <2>2
<1>5. searchItem(v, t) \in Holding(v, t)
  BY <1>4 DEF searchItem, Min
<1> QED BY <1>5 DEF Holding

\* One unit more of type t, and no slot emptied.
Stored(v, w, t) ==
  /\ w \in Inventory /\ w.size_current = v.size_current + 1
  /\ Held(w) = Held(v) + 1
  /\ \A u \in Types : UnitsIn(w, u) = UnitsIn(v, u) + (IF u = t THEN 1 ELSE 0)
  /\ Holding(v, None) = {} => Holding(w, None) = {}

\* A slot that gets one unit more of t than it held.
LEMMA SlotGets ==
  ASSUME NEW v \in Inventory, NEW i \in Slots, NEW t \in Types, NEW s \in Contents,
         s.item = t, s.qty = v.slots[i].qty + 1, v.slots[i].item \in {t, None},
         NEW w, w = [slots |-> [v.slots EXCEPT ![i] = s], size_current |-> v.size_current + 1]
  PROVE  Stored(v, w, t)
<1>1. v.size_current \in Nat /\ v.size_current + 1 \in Nat /\ v.slots[i] \in Contents
  BY DEF Inventory
<1>2. /\ w \in Inventory /\ w.size_current = v.size_current + 1
      /\ w.slots[i] = s /\ \A j \in Slots : j # i => w.slots[j] = v.slots[j]
      /\ Held(w) + v.slots[i].qty = Held(v) + s.qty
      /\ \A u \in Types : UnitsIn(w, u) + Of(v.slots[i], u) = UnitsIn(v, u) + Of(s, u)
  BY <1>1, SlotSet
<1>3. v.slots[i].qty \in Nat /\ Held(v) \in Nat /\ Held(w) \in Nat
  BY <1>1, <1>2, SlotIs, CountsAreNat
<1>4. Held(w) = Held(v) + 1
  BY <1>2, <1>3
<1>5. ASSUME NEW u \in Types
      PROVE  UnitsIn(w, u) = UnitsIn(v, u) + (IF u = t THEN 1 ELSE 0)
  <2>1. UnitsIn(w, u) \in Nat /\ UnitsIn(v, u) \in Nat
    BY <1>2, CountsAreNat
  <2>2. u # None /\ t # None
    BY BelongingsAssumption
  <2>3. v.slots[i].item = None => v.slots[i].qty = 0
    BY <1>1, SlotIs
  <2>4. CASE u = t
    <3>1. Of(s, u) = v.slots[i].qty + 1 /\ Of(v.slots[i], u) = v.slots[i].qty
      BY <1>3, <2>2, <2>3, <2>4 DEF Of
    <3>2. UnitsIn(w, u) + v.slots[i].qty = UnitsIn(v, u) + (v.slots[i].qty + 1)
      BY <1>2, <3>1, Zenon
    <3> QED BY <1>3, <2>1, <2>4, <3>2
  <2>5. CASE u # t
    <3>1. Of(s, u) = 0 /\ Of(v.slots[i], u) = 0
      BY <2>2, <2>5 DEF Of
    <3>2. UnitsIn(w, u) + 0 = UnitsIn(v, u) + 0
      BY <1>2, <3>1, Zenon
    <3> QED BY <2>1, <2>5, <3>2
  <2> QED BY <2>4, <2>5
<1>6. Holding(v, None) = {} => Holding(w, None) = {}
  <2>1. t # None
    BY BelongingsAssumption
  <2> QED BY <1>2, <2>1 DEF Holding
<1> QED BY <1>2, <1>4, <1>5, <1>6 DEF Stored

\* setItemInInventory stores the unit unless there is no empty slot.
LEMMA SetItem ==
  ASSUME NEW v \in Inventory, NEW t \in Types
  PROVE  \/ Holding(v, None) = {} /\ setItem(v, t) = v
         \/ Holding(v, None) # {} /\ Stored(v, setItem(v, t), t)
<1>1. CASE Holding(v, None) = {}
  BY <1>1 DEF setItem
<1>2. CASE Holding(v, None) # {}
  <2>1. PICK i : i = searchItem(v, None)
    OBVIOUS
  <2>2. i \in Slots /\ v.slots[i].item = None
    BY <1>2, <2>1, FirstSlot
  <2>3. PICK s : s = [item |-> t, qty |-> 1]
    OBVIOUS
  <2>4. s \in Contents
    <3>1. 1 \in 1..Capacity
      BY BelongingsAssumption
    <3> QED BY <2>3, <3>1, NothingIsContents
  <2>5. v.slots[i] \in Contents /\ v.slots[i].qty = 0
    BY <2>2, SlotIs DEF Inventory
  <2>6. s.item = t /\ s.qty = v.slots[i].qty + 1
    BY <2>3, <2>5
  <2>7. setItem(v, t) = [slots |-> [v.slots EXCEPT ![i] = s], size_current |-> v.size_current + 1]
    BY <1>2, <2>1, <2>3 DEF setItem
  <2>8. Stored(v, setItem(v, t), t)
    BY <2>2, <2>4, <2>6, <2>7, SlotGets
  <2> QED BY <1>2, <2>8
<1> QED BY <1>1, <1>2

\* A unit is stored unless there is no empty slot.
LEMMA AddItem ==
  ASSUME NEW v \in Inventory, NEW t \in Types
  PROVE  \/ Holding(v, None) = {} /\ addItem(v, t) = v
         \/ Stored(v, addItem(v, t), t)
<1>1. PICK i : i = searchItem(v, t)
  OBVIOUS
<1>2. ASSUME Holding(v, t) = {} \/ v.slots[i].qty = Capacity
      PROVE  addItem(v, t) = setItem(v, t)
  BY <1>1, <1>2 DEF addItem
<1>3. ASSUME Holding(v, t) # {}, v.slots[i].qty # Capacity
      PROVE  Stored(v, addItem(v, t), t)
  <2>1. i \in Slots /\ v.slots[i].item = t
    BY <1>1, <1>3, FirstSlot
  <2>2. v.slots[i] \in Contents /\ t # None
    BY <2>1, BelongingsAssumption DEF Inventory
  <2>3. PICK n : n = v.slots[i].qty
    OBVIOUS
  <2>4. n \in Nat /\ n + 1 \in 1..Capacity
    <3>1. n \in Nat /\ n <= Capacity /\ n # Capacity /\ Capacity \in Nat
      BY <1>3, <2>2, <2>3, SlotIs, BelongingsAssumption
    <3> QED BY <3>1
  <2>5. PICK s : s = [item |-> t, qty |-> n + 1]
    OBVIOUS
  <2>6. s \in Contents /\ s.item = t /\ s.qty = v.slots[i].qty + 1
    BY <2>3, <2>4, <2>5, NothingIsContents
  <2>7. [v.slots EXCEPT ![i].qty = @ + 1] = [v.slots EXCEPT ![i] = s]
    <3>1. v.slots[i] = [item |-> t, qty |-> n]
      BY <2>1, <2>2, <2>3 DEF Contents, Nothing
    <3>2. [v.slots[i] EXCEPT !.qty = @ + 1] = s
      BY <2>5, <3>1
    <3> QED BY <3>2
  <2>8. addItem(v, t) = [slots |-> [v.slots EXCEPT ![i] = s], size_current |-> v.size_current + 1]
    BY <1>1, <1>3, <2>7 DEF addItem
  <2> QED BY <2>1, <2>6, <2>8, SlotGets
<1> QED BY <1>2, <1>3, SetItem

\* One unit less of type t.
Taken(v, w, t) ==
  /\ w \in Inventory /\ t \in Types
  /\ Held(w) + 1 = Held(v)
  /\ \A u \in Types : UnitsIn(w, u) + (IF u = t THEN 1 ELSE 0) = UnitsIn(v, u)

\* A slot that gives a unit, whatever size_current becomes.
LEMMA SlotGives ==
  ASSUME NEW v \in Inventory, NEW i \in Slots, v.slots[i] # Nothing, NEW n \in Nat,
         NEW w, w = [slots |-> [v.slots EXCEPT ![i] = Decreased(@)], size_current |-> n]
  PROVE  Taken(v, w, v.slots[i].item) /\ w.size_current = n
<1>1. PICK b : b = v.slots[i]
  OBVIOUS
<1>2. b \in Contents /\ b # Nothing
  BY <1>1 DEF Inventory
<1>3. b.item \in Types /\ b.qty \in Nat /\ b.qty >= 1 /\ b.qty <= Capacity /\ Capacity \in Nat
  BY <1>2, SlotIs, BelongingsAssumption
<1>4. PICK s : s = Decreased(b)
  OBVIOUS
<1>5. s \in Contents /\ s.qty + 1 = b.qty /\ s.qty \in Nat /\ (s.item = b.item \/ s = Nothing)
  <2>1. CASE b.qty <= 1
    <3>1. s = Nothing
      BY <1>4, <2>1 DEF Decreased
    <3> QED BY <1>3, <2>1, <3>1, NothingIsContents DEF Nothing
  <2>2. CASE ~(b.qty <= 1)
    <3>1. PICK m : m = b.qty - 1
      OBVIOUS
    <3>2. m \in 1..Capacity /\ m + 1 = b.qty /\ m \in Nat
      BY <1>3, <2>2, <3>1
    <3>3. b = [item |-> b.item, qty |-> b.qty]
      BY <1>2 DEF Contents
    <3>4. s = [item |-> b.item, qty |-> m]
      BY <1>4, <2>2, <3>1, <3>3 DEF Decreased
    <3>5. s \in Contents
      BY <1>3, <3>2, <3>4, NothingIsContents
    <3> QED BY <3>2, <3>4, <3>5
  <2> QED BY <2>1, <2>2
<1>6. w = [slots |-> [v.slots EXCEPT ![i] = s], size_current |-> n]
  BY <1>1, <1>4
<1>7. /\ w \in Inventory /\ w.size_current = n
      /\ Held(w) + b.qty = Held(v) + s.qty
      /\ \A u \in Types : UnitsIn(w, u) + Of(b, u) = UnitsIn(v, u) + Of(s, u)
  BY <1>1, <1>5, <1>6, SlotSet
<1>8. Held(w) + 1 = Held(v)
  <2>1. Held(w) \in Nat /\ Held(v) \in Nat
    BY <1>7, CountsAreNat
  <2> QED BY <1>5, <1>7, <2>1
<1>9. ASSUME NEW u \in Types
      PROVE  UnitsIn(w, u) + (IF u = b.item THEN 1 ELSE 0) = UnitsIn(v, u)
  <2>1. UnitsIn(w, u) \in Nat /\ UnitsIn(v, u) \in Nat
    BY <1>7, CountsAreNat
  <2>2. s = Nothing => s.item # u /\ s.qty = 0
    BY BelongingsAssumption DEF Nothing
  <2>3. CASE u = b.item
    <3>1. Of(b, u) = s.qty + 1 /\ Of(s, u) = s.qty
      BY <1>5, <2>2, <2>3 DEF Of
    <3>2. UnitsIn(w, u) + (s.qty + 1) = UnitsIn(v, u) + s.qty
      BY <1>7, <3>1, Zenon
    <3> QED BY <1>5, <2>1, <2>3, <3>2
  <2>4. CASE u # b.item
    <3>1. Of(b, u) = 0 /\ Of(s, u) = 0
      BY <1>5, <2>2, <2>4 DEF Of
    <3>2. UnitsIn(w, u) + 0 = UnitsIn(v, u) + 0
      BY <1>7, <3>1, Zenon
    <3> QED BY <2>1, <2>4, <3>2
  <2> QED BY <2>3, <2>4
<1> QED BY <1>1, <1>3, <1>7, <1>8, <1>9 DEF Taken

\* Both accounts of an inventory, and that size_current is never behind.
Covers(v) == v \in Inventory /\ v.size_current >= Held(v)

\* What covering means for the numbers.
LEMMA CoversIs ==
  ASSUME NEW v, Covers(v)
  PROVE  /\ v \in Inventory /\ v.size_current \in Nat /\ Held(v) \in Nat
         /\ v.size_current >= Held(v)
         /\ \A t \in Types : UnitsIn(v, t) \in Nat
BY CountsAreNat DEF Covers, Inventory

\* Removing a unit keeps size_current ahead: what is removed was counted.
LEMMA RemoveItem ==
  ASSUME NEW v, Covers(v), NEW i \in Slots, v.slots[i] # Nothing
  PROVE  Covers(removeItem(v, i)) /\ Taken(v, removeItem(v, i), v.slots[i].item)
<1> DEFINE w == removeItem(v, i)
<1>1. v \in Inventory /\ v.size_current \in Nat /\ Held(v) \in Nat /\ v.size_current >= Held(v)
  BY CoversIs
<1>2. Held(v) >= 1
  <2>1. PICK x : x = [slots |-> [v.slots EXCEPT ![i] = Decreased(@)], size_current |-> 0]
    OBVIOUS
  <2>2. Taken(v, x, v.slots[i].item)
    BY <1>1, <2>1, SlotGives
  <2>3. x \in Inventory /\ Held(x) + 1 = Held(v)
    BY <2>2 DEF Taken
  <2>4. Held(x) \in Nat
    BY <2>3, CountsAreNat
  <2> QED BY <1>1, <2>3, <2>4
<1>3. PICK n : n = v.size_current - 1
  OBVIOUS
<1>4. n \in Nat /\ n + 1 = v.size_current
  BY <1>1, <1>2, <1>3
<1>5. w = [slots |-> [v.slots EXCEPT ![i] = Decreased(@)], size_current |-> n]
  BY <1>3 DEF removeItem
<1>6. Taken(v, w, v.slots[i].item) /\ w.size_current = n
  <2> HIDE DEF w
  <2> QED BY <1>1, <1>4, <1>5, SlotGives
<1>7. Covers(w)
  <2>1. w \in Inventory /\ Held(w) + 1 = Held(v)
    BY <1>6 DEF Taken
  <2>2. Held(w) \in Nat
    BY <2>1, CountsAreNat
  <2>3. n >= Held(w)
    BY <1>1, <1>4, <2>1, <2>2
  <2> QED BY <1>6, <2>1, <2>3 DEF Covers
<1> QED BY <1>6, <1>7

\* The same for the first slot of a type.
LEMMA GiveFirst ==
  ASSUME NEW v, Covers(v), NEW t \in Types, Holding(v, t) # {}
  PROVE  Covers(removeItem(v, searchItem(v, t))) /\ Taken(v, removeItem(v, searchItem(v, t)), t)
<1>1. PICK i : i = searchItem(v, t)
  OBVIOUS
<1>2. i \in Slots /\ v.slots[i].item = t /\ v.slots[i] # Nothing
  BY <1>1, FirstSlot, BelongingsAssumption DEF Nothing
<1>3. Covers(removeItem(v, i)) /\ Taken(v, removeItem(v, i), v.slots[i].item)
  BY <1>2, RemoveItem
<1> QED BY <1>1, <1>2, <1>3

\* So does taking one to be worn, which may leave size_current where it was.
LEMMA TakeToEquip ==
  ASSUME NEW v, Covers(v), NEW i \in Slots, v.slots[i] # Nothing
  PROVE  Covers(TakenToEquip(v, i)) /\ Taken(v, TakenToEquip(v, i), v.slots[i].item)
<1>1. v \in Inventory /\ v.size_current \in Nat /\ Held(v) \in Nat /\ v.size_current >= Held(v)
  BY CoversIs
<1>2. CASE v.slots[i].qty <= 1
  <2>1. TakenToEquip(v, i) = removeItem(v, i)
    BY <1>2 DEF TakenToEquip, removeItem
  <2> QED BY <2>1, RemoveItem
<1>3. CASE ~(v.slots[i].qty <= 1)
  <2>1. PICK w : w = TakenToEquip(v, i)
    OBVIOUS
  <2>2. w = [slots |-> [v.slots EXCEPT ![i] = Decreased(@)], size_current |-> v.size_current]
    BY <1>3, <2>1 DEF TakenToEquip
  <2>3. Taken(v, w, v.slots[i].item) /\ w.size_current = v.size_current
    BY <1>1, <2>2, SlotGives
  <2>4. w \in Inventory /\ Held(w) + 1 = Held(v)
    BY <2>3 DEF Taken
  <2>5. Held(w) \in Nat
    BY <2>4, CountsAreNat
  <2>6. w.size_current >= Held(w)
    BY <1>1, <2>3, <2>4, <2>5
  <2> QED BY <2>1, <2>3, <2>4, <2>6 DEF Covers
<1> QED BY <1>2, <1>3

\* And so does a unit more.
LEMMA StoredCovers ==
  ASSUME NEW v, NEW w, NEW t, Covers(v), Stored(v, w, t)
  PROVE  Covers(w)
<1>1. v \in Inventory /\ v.size_current \in Nat /\ Held(v) \in Nat /\ v.size_current >= Held(v)
  BY CoversIs
<1>2. w \in Inventory /\ w.size_current = v.size_current + 1 /\ Held(w) = Held(v) + 1
  BY DEF Stored
<1>3. w.size_current >= Held(w)
  BY <1>1, <1>2
<1> QED BY <1>2, <1>3 DEF Covers

-----------------------------------------------------------------------------
(***************************************************************************)
(* Units added one by one: the treasure and the login.                     *)
(***************************************************************************)

\* No unit gets in: the inventory says it is full, or all slots are taken.
Blocked(v) == isInventoryFull(v) \/ Holding(v, None) = {}

\* addItemToInventory of the player refuses at a full bag only.
LEMMA AddIfNotFull ==
  ASSUME NEW v \in Inventory, NEW t \in Types
  PROVE  \/ Blocked(v) /\ addItemIfNotFull(v, t) = v
         \/ ~isInventoryFull(v) /\ Stored(v, addItemIfNotFull(v, t), t)
BY AddItem DEF addItemIfNotFull, Blocked

\* Adding a unit leaves an inventory.
LEMMA AddTypes ==
  ASSUME NEW v \in Inventory, NEW t \in Types
  PROVE  addItem(v, t) \in Inventory /\ addItemIfNotFull(v, t) \in Inventory
BY AddItem, AddIfNotFull DEF Stored

\* The first n of some units that are of type t.
Among(units, n, t) == {k \in 1..n : units[k] = t}

\* One unit more of a sequence is counted for its type.
LEMMA OneMore ==
  ASSUME NEW units, NEW n \in Nat, NEW m, m = n + 1, NEW t
  PROVE  /\ Cardinality(Among(units, 0, t)) = 0
         /\ Cardinality(Among(units, n, t)) \in Nat
         /\ Cardinality(Among(units, m, t)) =
              Cardinality(Among(units, n, t)) + (IF units[m] = t THEN 1 ELSE 0)
<1>1. Among(units, 0, t) = {}
  BY DEF Among
<1>2. IsFiniteSet(1..n)
  BY FS_Interval
<1>3. IsFiniteSet(Among(units, n, t))
  BY <1>2, FS_Subset DEF Among
<1>4. m \notin Among(units, n, t)
  BY DEF Among
<1>5. CASE units[m] = t
  <2>1. Among(units, m, t) = Among(units, n, t) \union {m}
    BY <1>5 DEF Among
  <2>2. Cardinality(Among(units, n, t)) \in Nat
    BY <1>3, FS_CardinalityType
  <2>3. Cardinality(Among(units, m, t)) = Cardinality(Among(units, n, t)) + 1
    BY <1>3, <1>4, <2>1, FS_AddElement
  <2> QED BY <1>1, <1>5, <2>2, <2>3, FS_EmptySet
<1>6. CASE units[m] # t
  <2>1. Among(units, m, t) = Among(units, n, t)
    BY <1>6 DEF Among
  <2>2. Cardinality(Among(units, n, t)) \in Nat
    BY <1>3, FS_CardinalityType
  <2>3. Cardinality(Among(units, 0, t)) = 0
    BY <1>1, FS_EmptySet, Zenon
  <2>4. Cardinality(Among(units, m, t)) = Cardinality(Among(units, n, t))
    BY <2>1, Zenon
  <2> QED BY <1>6, <2>2, <2>3, <2>4
<1> QED BY <1>5, <1>6

\* The units of a type there would be if the first n were all taken.
Due(v, units, n, t) == UnitsIn(v, t) + Cardinality(Among(units, n, t))

\* What is due grows by the unit that comes next.
LEMMA DueGrows ==
  ASSUME NEW v \in Inventory, NEW units, NEW n \in Nat, NEW m, m = n + 1, NEW t \in Types
  PROVE  /\ Due(v, units, 0, t) = UnitsIn(v, t) /\ Due(v, units, n, t) \in Nat
         /\ units[m] = t => Due(v, units, m, t) = Due(v, units, n, t) + 1
         /\ units[m] # t => Due(v, units, m, t) = Due(v, units, n, t)
<1>1. PICK a : a = UnitsIn(v, t)
  OBVIOUS
<1>2. PICK b : b = Cardinality(Among(units, n, t))
  OBVIOUS
<1>3. a \in Nat /\ b \in Nat
  BY <1>1, <1>2, CountsAreNat, OneMore
<1>4. Due(v, units, 0, t) = a + 0 /\ Due(v, units, n, t) = a + b
  BY <1>1, <1>2, OneMore DEF Due
<1>5. Due(v, units, m, t) = a + (b + (IF units[m] = t THEN 1 ELSE 0))
  BY <1>1, <1>2, OneMore DEF Due
<1> QED BY <1>1, <1>3, <1>4, <1>5

\* The inventories on the way, one unit after the other, exist.
LEMMA AddingExists ==
  ASSUME NEW v \in Inventory, NEW N \in Nat, NEW units, \A k \in 1..N : units[k] \in Types
  PROVE  \E f : f = [n \in 0..N |-> IF n = 0 THEN v ELSE addItemIfNotFull(f[n - 1], units[n])]
<1> DEFINE step == [n \in 1..N |-> [w \in Inventory |-> addItemIfNotFull(w, units[n])]]
<1>1. step \in Stepper(N, Inventory)
  <2>1. ASSUME NEW n \in 1..N
        PROVE  [w \in Inventory |-> addItemIfNotFull(w, units[n])] \in [Inventory -> Inventory]
    BY AddTypes
  <2> QED BY <2>1 DEF Stepper
<1>2. \E f : Follows(f, N, Inventory, v, step)
  <2> HIDE DEF step
  <2> QED BY <1>1, RecursionExists
<1>3. PICK f \in [0..N -> Inventory] : f[0] = v /\ \A n \in 1..N : f[n] = step[n][f[n - 1]]
  BY <1>2 DEF Follows
<1>4. ASSUME NEW n \in 0..N
      PROVE  f[n] = IF n = 0 THEN v ELSE addItemIfNotFull(f[n - 1], units[n])
  <2>1. CASE n = 0
    BY <1>3, <2>1
  <2>2. CASE n # 0
    <3>1. n \in 1..N /\ f[n - 1] \in Inventory
      BY <2>2
    <3> QED BY <1>3, <2>2, <3>1
  <2> QED BY <2>1, <2>2
<1>5. f = [n \in 0..N |-> IF n = 0 THEN v ELSE addItemIfNotFull(f[n - 1], units[n])]
  BY <1>4
<1> QED BY <1>5

\* Of the units added, only those are missing that a full bag did not take.
LEMMA AddWhileNotFull ==
  ASSUME NEW v, Covers(v), NEW units, Len(units) \in Nat,
         \A k \in 1..Len(units) : units[k] \in Types,
         NEW w, w = addWhileNotFull(v, units)
  PROVE  /\ Covers(w)
         /\ \A t \in Types : /\ UnitsIn(w, t) <= Due(v, units, Len(units), t)
                             /\ UnitsIn(w, t) < Due(v, units, Len(units), t) => Blocked(w)
<1>1. PICK N : N = Len(units)
  OBVIOUS
<1> DEFINE after == CHOOSE f : f = [n \in 0..N |-> IF n = 0 THEN v ELSE addItemIfNotFull(f[n - 1], units[n])]
<1>2. v \in Inventory /\ N \in Nat
  BY <1>1, CoversIs
<1>3. w = after[N]
  BY <1>1 DEF addWhileNotFull
<1>4. after = [n \in 0..N |-> IF n = 0 THEN v ELSE addItemIfNotFull(after[n - 1], units[n])]
  <2>1. \A k \in 1..N : units[k] \in Types
    BY <1>1
  <2>2. \E f : f = [n \in 0..N |-> IF n = 0 THEN v ELSE addItemIfNotFull(f[n - 1], units[n])]
    BY <1>2, <2>1, AddingExists
  <2> QED BY <2>2
<1> HIDE DEF after
<1> DEFINE Fine(x, n) == Covers(x) /\ \A t \in Types :
                           /\ UnitsIn(x, t) <= Due(v, units, n, t)
                           /\ UnitsIn(x, t) < Due(v, units, n, t) => Blocked(x)
           S == {n \in 0..N : Fine(after[n], n)}
<1>5. 0 \in S
  <2>1. after[0] = v
    BY <1>2, <1>4
  <2>2. \A t \in Types : Due(v, units, 0, t) = UnitsIn(v, t) /\ UnitsIn(v, t) \in Nat
    BY <1>2, DueGrows, CountsAreNat
  <2>3. Fine(v, 0)
    BY <2>2
  <2> HIDE DEF Fine
  <2> QED BY <1>2, <2>1, <2>3
<1>6. ASSUME NEW n \in 0..N, n \in S, n < N PROVE n + 1 \in S
  <2>1. PICK m : m = n + 1
    OBVIOUS
  <2>2. n \in Nat /\ m \in 1..N /\ m \in 0..N /\ m # 0 /\ m - 1 = n
    BY <1>2, <1>6, <2>1
  <2>3. PICK x : x = after[n]
    OBVIOUS
  <2>4. PICK y : y = after[m]
    OBVIOUS
  <2>5. PICK u : u = units[m]
    OBVIOUS
  <2>6. u \in Types
    BY <1>1, <2>2, <2>5
  <2>7. Fine(x, n)
    BY <1>6, <2>3
  <2>8. y = addItemIfNotFull(x, u)
    BY <1>4, <2>2, <2>3, <2>4, <2>5
  <2>9. Covers(x) /\ x \in Inventory
    BY <2>7, CoversIs
  <2>10. ASSUME NEW t \in Types
         PROVE  /\ UnitsIn(x, t) \in Nat /\ Due(v, units, n, t) \in Nat
                /\ UnitsIn(x, t) <= Due(v, units, n, t)
                /\ UnitsIn(x, t) < Due(v, units, n, t) => Blocked(x)
                /\ Due(v, units, m, t) = Due(v, units, n, t) + (IF u = t THEN 1 ELSE 0)
    <3>1. UnitsIn(x, t) \in Nat
      BY <2>9, CountsAreNat
    <3>2. /\ Due(v, units, n, t) \in Nat
          /\ Due(v, units, m, t) = Due(v, units, n, t) + (IF u = t THEN 1 ELSE 0)
      <4>1. /\ u = t => Due(v, units, m, t) = Due(v, units, n, t) + 1
            /\ u # t => Due(v, units, m, t) = Due(v, units, n, t)
        <5>1. n \in Nat /\ v \in Inventory
          BY <1>2, <2>2
        <5>2. /\ units[n + 1] = t => Due(v, units, n + 1, t) = Due(v, units, n, t) + 1
              /\ units[n + 1] # t => Due(v, units, n + 1, t) = Due(v, units, n, t)
          BY <5>1, DueGrows
        <5> QED BY <2>1, <2>5, <5>2
      <4>2. Due(v, units, n, t) \in Nat
        BY <1>2, <2>1, <2>2, DueGrows, Zenon
      <4> QED BY <4>1, <4>2
    <3>3. /\ UnitsIn(x, t) <= Due(v, units, n, t)
          /\ UnitsIn(x, t) < Due(v, units, n, t) => Blocked(x)
      BY <2>7
    <3> QED BY <3>1, <3>2, <3>3
  <2>11. ASSUME Blocked(x), y = x PROVE Fine(y, m)
    <3>1. \A t \in Types : UnitsIn(y, t) <= Due(v, units, m, t)
      BY <2>10, <2>11
    <3> QED BY <2>9, <2>11, <3>1
  <2>12. ASSUME ~isInventoryFull(x), Stored(x, y, u) PROVE Fine(y, m)
    <3>1. Covers(y)
      BY <2>9, <2>12, StoredCovers
    <3>2. Blocked(x) => Blocked(y)
      BY <2>12 DEF Stored, Blocked
    <3>3. ASSUME NEW t \in Types
          PROVE  /\ UnitsIn(y, t) <= Due(v, units, m, t)
                 /\ UnitsIn(y, t) < Due(v, units, m, t) => Blocked(y)
      <4>1. UnitsIn(y, t) = UnitsIn(x, t) + (IF t = u THEN 1 ELSE 0)
        BY <2>12 DEF Stored
      <4> QED BY <2>10, <3>2, <4>1
    <3> QED BY <3>1, <3>3
  <2>13. Fine(y, m)
    <3>1. (Blocked(x) /\ y = x) \/ (~isInventoryFull(x) /\ Stored(x, y, u))
      BY <2>6, <2>8, <2>9, AddIfNotFull
    <3> HIDE DEF Fine
    <3> QED BY <2>11, <2>12, <3>1
  <2> HIDE DEF Fine
  <2> QED BY <2>1, <2>2, <2>4, <2>13
<1>7. N \in S
  <2> HIDE DEF S
  <2>1. \A n \in 0..N : n \in S
    BY <1>2, <1>5, <1>6, UpTo
  <2> QED BY <1>2, <2>1
<1> QED BY <1>1, <1>3, <1>7

\* What a slot is loaded into: units may be missing when no slot is empty.
Loaded(v, w, s) ==
  /\ w \in Inventory
  /\ v.size_current = Held(v) => w.size_current = Held(w)
  /\ Holding(v, None) = {} => Holding(w, None) = {}
  /\ \A t \in Types : /\ UnitsIn(w, t) <= UnitsIn(v, t) + Of(s, t)
                      /\ UnitsIn(w, t) < UnitsIn(v, t) + Of(s, t) => Holding(w, None) = {}

\* The inventories after each of N units of a type is added to v.
Adds(f, v, N, t) == f = [n \in 0..N |-> IF n = 0 THEN v ELSE addItem(f[n - 1], t)]

\* The same for the units of a saved slot.
LEMMA LoadingSlotExists ==
  ASSUME NEW v \in Inventory, NEW N \in Nat, NEW t, N > 0 => t \in Types
  PROVE  \E f : Adds(f, v, N, t)
<1> DEFINE step == [n \in 1..N |-> [w \in Inventory |-> addItem(w, t)]]
<1>1. step \in Stepper(N, Inventory)
  <2>1. ASSUME NEW n \in 1..N
        PROVE  [w \in Inventory |-> addItem(w, t)] \in [Inventory -> Inventory]
    BY AddTypes
  <2> QED BY <2>1 DEF Stepper
<1>2. \E f : Follows(f, N, Inventory, v, step)
  <2> HIDE DEF step
  <2> QED BY <1>1, RecursionExists
<1>3. PICK f \in [0..N -> Inventory] : f[0] = v /\ \A n \in 1..N : f[n] = step[n][f[n - 1]]
  BY <1>2 DEF Follows
<1>4. ASSUME NEW n \in 0..N
      PROVE  f[n] = IF n = 0 THEN v ELSE addItem(f[n - 1], t)
  <2>1. CASE n = 0
    BY <1>3, <2>1
  <2>2. CASE n # 0
    <3>1. n \in 1..N /\ f[n - 1] \in Inventory
      BY <2>2
    <3> QED BY <1>3, <2>2, <3>1
  <2> QED BY <2>1, <2>2
<1>5. f = [n \in 0..N |-> IF n = 0 THEN v ELSE addItem(f[n - 1], t)]
  BY <1>4
<1> QED BY <1>5 DEF Adds

\* A saved slot is loaded as a whole, but for units that find no slot.
LEMMA LoadSlot ==
  ASSUME NEW v \in Inventory, NEW s \in Contents
  PROVE  Loaded(v, loadSlot(v, s), s)
<1>1. PICK N : N = s.qty
  OBVIOUS
<1>2. PICK u : u = s.item
  OBVIOUS
<1>3. N \in Nat /\ (N > 0 => u \in Types)
  BY <1>1, <1>2, SlotIs
<1> DEFINE after == CHOOSE f : Adds(f, v, N, u)
<1>4. loadSlot(v, s) = after[N]
  BY <1>1, <1>2 DEF loadSlot, Adds
<1>5. after = [n \in 0..N |-> IF n = 0 THEN v ELSE addItem(after[n - 1], u)]
  <2>1. \E f : Adds(f, v, N, u)
    BY <1>3, LoadingSlotExists
  <2>2. Adds(after, v, N, u)
    BY <2>1
  <2> QED BY <2>2 DEF Adds
<1> HIDE DEF after
<1> DEFINE Fine(x, n) ==
             /\ x \in Inventory
             /\ v.size_current = Held(v) => x.size_current = Held(x)
             /\ Holding(v, None) = {} => Holding(x, None) = {}
             /\ \A t \in Types :
                  /\ t = u => /\ UnitsIn(x, t) <= UnitsIn(v, t) + n
                              /\ UnitsIn(x, t) < UnitsIn(v, t) + n => Holding(x, None) = {}
                  /\ t # u => UnitsIn(x, t) = UnitsIn(v, t)
           S == {n \in 0..N : Fine(after[n], n)}
<1>6. \A t \in Types : UnitsIn(v, t) \in Nat
  BY CountsAreNat
<1>7. 0 \in S
  <2>1. after[0] = v
    BY <1>3, <1>5
  <2>2. Fine(v, 0)
    BY <1>6
  <2> HIDE DEF Fine
  <2> QED BY <1>3, <2>1, <2>2
<1>8. ASSUME NEW n \in 0..N, n \in S, n < N PROVE n + 1 \in S
  <2>1. PICK m : m = n + 1
    OBVIOUS
  <2>2. n \in Nat /\ m \in Nat /\ m \in 0..N /\ m # 0 /\ m - 1 = n /\ u \in Types
    BY <1>3, <1>8, <2>1
  <2>3. PICK x : x = after[n]
    OBVIOUS
  <2>4. PICK y : y = after[m]
    OBVIOUS
  <2>5. Fine(x, n)
    BY <1>8, <2>3
  <2>6. y = addItem(x, u)
    BY <1>5, <2>2, <2>3, <2>4
  <2>7. x \in Inventory /\ Held(x) \in Nat /\ \A t \in Types : UnitsIn(x, t) \in Nat
    BY <2>5, CountsAreNat
  <2>8. ASSUME Holding(x, None) = {}, y = x PROVE Fine(y, m)
    BY <1>6, <2>1, <2>2, <2>5, <2>7, <2>8
  <2>9. ASSUME Stored(x, y, u) PROVE Fine(y, m)
    <3>1. /\ y \in Inventory /\ y.size_current = x.size_current + 1 /\ Held(y) = Held(x) + 1
          /\ Holding(x, None) = {} => Holding(y, None) = {}
      BY <2>9 DEF Stored
    <3>2. v.size_current = Held(v) => y.size_current = Held(y)
      BY <2>5, <3>1
    <3>3. ASSUME NEW t \in Types
          PROVE  /\ t = u => /\ UnitsIn(y, t) <= UnitsIn(v, t) + m
                             /\ UnitsIn(y, t) < UnitsIn(v, t) + m => Holding(y, None) = {}
                 /\ t # u => UnitsIn(y, t) = UnitsIn(v, t)
      <4>1. UnitsIn(y, t) = UnitsIn(x, t) + (IF t = u THEN 1 ELSE 0)
        BY <2>9 DEF Stored
      <4> QED BY <1>6, <2>1, <2>2, <2>5, <2>7, <3>1, <4>1
    <3> QED BY <2>5, <3>1, <3>2, <3>3
  <2>10. Fine(y, m)
    <3>1. (Holding(x, None) = {} /\ y = x) \/ Stored(x, y, u)
      BY <2>2, <2>6, <2>7, AddItem
    <3> HIDE DEF Fine
    <3> QED BY <2>8, <2>9, <3>1
  <2> HIDE DEF Fine
  <2> QED BY <2>1, <2>2, <2>4, <2>10
<1>9. N \in S
  <2> HIDE DEF S
  <2>1. \A n \in 0..N : n \in S
    BY <1>3, <1>7, <1>8, UpTo
  <2> QED BY <1>3, <2>1
<1>10. PICK w : w = loadSlot(v, s)
  OBVIOUS
<1>11. Fine(w, N)
  BY <1>4, <1>9, <1>10
<1>12. ASSUME NEW t \in Types
       PROVE  /\ UnitsIn(w, t) <= UnitsIn(v, t) + Of(s, t)
              /\ UnitsIn(w, t) < UnitsIn(v, t) + Of(s, t) => Holding(w, None) = {}
  <2>1. Of(s, t) = IF t = u THEN N ELSE 0
    BY <1>1, <1>2 DEF Of
  <2>2. UnitsIn(w, t) \in Nat
    BY <1>11, CountsAreNat
  <2>3. CASE t = u
    <3>1. /\ UnitsIn(w, t) <= UnitsIn(v, t) + N
          /\ UnitsIn(w, t) < UnitsIn(v, t) + N => Holding(w, None) = {}
      BY <1>11, <2>3, Zenon
    <3> QED BY <2>1, <2>3, <3>1
  <2>4. CASE t # u
    <3>1. UnitsIn(w, t) = UnitsIn(v, t) /\ UnitsIn(v, t) \in Nat /\ Of(s, t) = 0
      BY <1>6, <1>11, <2>1, <2>4
    <3> QED BY <3>1
  <2> QED BY <2>3, <2>4
<1> QED BY <1>10, <1>11, <1>12 DEF Loaded

\* A new inventory holds nothing.
LEMMA Empty ==
  /\ NewInventory \in Inventory /\ NewInventory.size_current = 0 /\ Held(NewInventory) = 0
  /\ \A t \in Types : UnitsIn(NewInventory, t) = 0
<1>1. PICK v : v = NewInventory
  OBVIOUS
<1>2. v.slots = [i \in Slots |-> Nothing] /\ v.size_current = 0
  BY <1>1 DEF NewInventory
<1>3. v \in Inventory
  BY <1>1, NothingIsContents DEF NewInventory, Inventory
<1>4. Held(v) = 0
  <2>1. PICK q : q = [i \in Slots |-> v.slots[i].qty]
    OBVIOUS
  <2>2. q \in [Slots -> Nat] /\ \A i \in Slots : q[i] = 0
    BY <1>2, <2>1 DEF Nothing
  <2>3. SumOver(q) = 0
    BY <2>2, SumOfNothing
  <2> QED BY <2>1, <2>3 DEF Held
<1>5. ASSUME NEW t \in Types PROVE UnitsIn(v, t) = 0
  <2>1. PICK q : q = [i \in Slots |-> IF v.slots[i].item = t THEN v.slots[i].qty ELSE 0]
    OBVIOUS
  <2>2. q \in [Slots -> Nat] /\ \A i \in Slots : q[i] = 0
    BY <1>2, <2>1 DEF Nothing
  <2>3. SumOver(q) = 0
    BY <2>2, SumOfNothing
  <2> QED BY <2>1, <2>3 DEF UnitsIn
<1> QED BY <1>1, <1>2, <1>3, <1>4, <1>5

\* The inventories on the way, one saved slot after the other, exist.
LEMMA LoadingExists ==
  ASSUME NEW v \in Inventory
  PROVE  \E f : f = [n \in 0..MaxSlots |-> IF n = 0 THEN NewInventory ELSE loadSlot(f[n - 1], v.slots[n])]
<1> DEFINE step == [n \in 1..MaxSlots |-> [w \in Inventory |-> loadSlot(w, v.slots[n])]]
<1>1. step \in Stepper(MaxSlots, Inventory)
  <2>1. ASSUME NEW n \in 1..MaxSlots
        PROVE  [w \in Inventory |-> loadSlot(w, v.slots[n])] \in [Inventory -> Inventory]
    <3>1. v.slots[n] \in Contents
      BY DEF Inventory, Slots
    <3> QED BY <3>1, LoadSlot DEF Loaded
  <2> QED BY <2>1 DEF Stepper
<1>2. \E f : Follows(f, MaxSlots, Inventory, NewInventory, step)
  <2>1. MaxSlots \in Nat
    BY BelongingsAssumption
  <2> HIDE DEF step
  <2> QED BY <1>1, <2>1, Empty, RecursionExists
<1>3. PICK f \in [0..MaxSlots -> Inventory] :
        f[0] = NewInventory /\ \A n \in 1..MaxSlots : f[n] = step[n][f[n - 1]]
  BY <1>2 DEF Follows
<1>4. ASSUME NEW n \in 0..MaxSlots
      PROVE  f[n] = IF n = 0 THEN NewInventory ELSE loadSlot(f[n - 1], v.slots[n])
  <2>1. CASE n = 0
    BY <1>3, <2>1
  <2>2. CASE n # 0
    <3>1. n \in 1..MaxSlots /\ f[n - 1] \in Inventory
      BY <2>2, BelongingsAssumption
    <3> QED BY <1>3, <2>2, <3>1
  <2> QED BY <2>1, <2>2
<1>5. f = [n \in 0..MaxSlots |-> IF n = 0 THEN NewInventory ELSE loadSlot(f[n - 1], v.slots[n])]
  BY <1>4
<1> QED BY <1>5

\* A login brings back what was saved, but for units that find no slot, and
\* with a size_current that is right again.
LEMMA LoadSlots ==
  ASSUME NEW v \in Inventory, NEW w, w = loadSlots(v)
  PROVE  /\ Covers(w)
         /\ \A t \in Types : /\ UnitsIn(w, t) <= UnitsIn(v, t)
                             /\ UnitsIn(w, t) < UnitsIn(v, t) => Holding(w, None) = {}
<1> DEFINE after == CHOOSE f : f = [n \in 0..MaxSlots |->
                      IF n = 0 THEN NewInventory ELSE loadSlot(f[n - 1], v.slots[n])]
<1>1. MaxSlots \in Nat
  BY BelongingsAssumption
<1>2. w = after[MaxSlots]
  BY DEF loadSlots
<1>3. after = [n \in 0..MaxSlots |-> IF n = 0 THEN NewInventory ELSE loadSlot(after[n - 1], v.slots[n])]
  BY LoadingExists
<1> HIDE DEF after
<1> DEFINE C == {n \in 0..MaxSlots : after[n] \in Inventory /\ after[n].size_current = Held(after[n])}
<1>4. 0 \in C
  BY <1>1, <1>3, Empty
<1>5. ASSUME NEW n \in 0..MaxSlots, n < MaxSlots, after[n] \in Inventory, NEW m, m = n + 1
      PROVE  m \in 1..MaxSlots /\ m - 1 = n /\ Loaded(after[n], after[m], v.slots[m]) /\ v.slots[m] \in Contents
  <2>1. m \in 1..MaxSlots /\ m \in 0..MaxSlots /\ m # 0 /\ m - 1 = n
    BY <1>1, <1>5
  <2>2. v.slots[m] \in Contents
    BY <2>1 DEF Inventory, Slots
  <2>3. after[m] = loadSlot(after[n], v.slots[m])
    BY <1>3, <2>1
  <2> QED BY <1>5, <2>1, <2>2, <2>3, LoadSlot
<1>6. ASSUME NEW n \in 0..MaxSlots, n \in C, n < MaxSlots PROVE n + 1 \in C
  <2>1. PICK m : m = n + 1
    OBVIOUS
  <2>2. m \in 1..MaxSlots /\ Loaded(after[n], after[m], v.slots[m])
    BY <1>5, <1>6, <2>1
  <2>3. m \in C
    BY <1>6, <2>2 DEF Loaded
  <2> QED BY <2>1, <2>3
<1>7. \A n \in 0..MaxSlots : n \in C
  <2> HIDE DEF C
  <2> QED BY <1>1, <1>4, <1>6, UpTo
<1>8. Covers(w)
  <2>1. w \in Inventory /\ w.size_current = Held(w)
    BY <1>1, <1>2, <1>7
  <2>2. Held(w) \in Nat
    BY <2>1, CountsAreNat
  <2> QED BY <2>1, <2>2 DEF Covers
<1>9. ASSUME NEW t \in Types
      PROVE  /\ UnitsIn(w, t) <= UnitsIn(v, t)
             /\ UnitsIn(w, t) < UnitsIn(v, t) => Holding(w, None) = {}
  <2>1. PICK q : q = [i \in Slots |-> IF v.slots[i].item = t THEN v.slots[i].qty ELSE 0]
    OBVIOUS
  <2>2. \A i \in Slots : q[i] = Of(v.slots[i], t) /\ q[i] \in Nat
    BY <2>1, SlotIs DEF Inventory, Of
  <2>3. q \in [Slots -> Nat]
    BY <2>1, <2>2
  <2>4. PICK s \in [0..MaxSlots -> Nat] :
           /\ s[0] = 0 /\ s[MaxSlots] = SumOver(q)
           /\ \A n \in 1..MaxSlots : s[n] = s[n - 1] + q[n]
    BY <2>3, PartialSums
  <2> DEFINE S == {n \in 0..MaxSlots :
                     /\ UnitsIn(after[n], t) <= s[n]
                     /\ UnitsIn(after[n], t) < s[n] => Holding(after[n], None) = {}}
  <2>5. 0 \in S
    BY <1>1, <1>3, <2>4, Empty
  <2>6. ASSUME NEW n \in 0..MaxSlots, n \in S, n < MaxSlots PROVE n + 1 \in S
    <3>1. PICK m : m = n + 1
      OBVIOUS
    <3>2. PICK x : x = after[n]
      OBVIOUS
    <3>3. PICK y : y = after[m]
      OBVIOUS
    <3>4. x \in Inventory /\ y \in Inventory /\ m \in 1..MaxSlots /\ m \in 0..MaxSlots /\ m - 1 = n
          /\ Loaded(x, y, v.slots[m])
      <4>1. x \in Inventory
        BY <1>7, <3>2
      <4>2. m \in 1..MaxSlots /\ m - 1 = n /\ Loaded(x, y, v.slots[m])
        BY <1>5, <2>6, <3>1, <3>2, <3>3, <4>1
      <4>3. m \in 0..MaxSlots
        BY <1>1, <4>2
      <4> QED BY <4>1, <4>2, <4>3 DEF Loaded
    <3>5. PICK a : a = UnitsIn(x, t)
      OBVIOUS
    <3>6. PICK b : b = UnitsIn(y, t)
      OBVIOUS
    <3>7. PICK c, d, e : c = s[n] /\ d = q[m] /\ e = s[m]
      OBVIOUS
    <3>8. a \in Nat /\ b \in Nat /\ c \in Nat /\ d \in Nat /\ e = c + d
      BY <2>2, <2>4, <3>4, <3>5, <3>6, <3>7, CountsAreNat DEF Slots
    <3>9. Of(v.slots[m], t) = d
      BY <2>2, <3>4, <3>7 DEF Slots
    <3>10. b <= a + d /\ (b < a + d => Holding(y, None) = {}) /\ (Holding(x, None) = {} => Holding(y, None) = {})
      <4>1. /\ UnitsIn(y, t) <= UnitsIn(x, t) + Of(v.slots[m], t)
            /\ UnitsIn(y, t) < UnitsIn(x, t) + Of(v.slots[m], t) => Holding(y, None) = {}
            /\ Holding(x, None) = {} => Holding(y, None) = {}
        BY <3>4, Zenon DEF Loaded
      <4> QED BY <3>5, <3>6, <3>9, <4>1, Zenon
    <3>11. a <= c /\ (a < c => Holding(x, None) = {})
      BY <2>6, <3>2, <3>5, <3>7
    <3>12. b <= e /\ (b < e => Holding(y, None) = {})
      BY <3>8, <3>10, <3>11
    <3> QED BY <3>1, <3>3, <3>4, <3>6, <3>7, <3>12
  <2>7. MaxSlots \in S
    <3> HIDE DEF S
    <3>1. \A n \in 0..MaxSlots : n \in S
      BY <1>1, <2>5, <2>6, UpTo
    <3> QED BY <1>1, <3>1
  <2>8. s[MaxSlots] = UnitsIn(v, t)
    BY <2>1, <2>4 DEF UnitsIn
  <2> QED BY <1>2, <2>7, <2>8
<1> QED BY <1>8, <1>9

-----------------------------------------------------------------------------
(***************************************************************************)
(* What is worn, and the account of every unit.                            *)
(***************************************************************************)

Wearing(e, t) == {p \in Parts : e[p] = t}

\* There are four parts to wear things on.
LEMMA WearingIsFinite ==
  ASSUME NEW e, NEW t
  PROVE  IsFiniteSet(Wearing(e, t)) /\ Cardinality(Wearing(e, t)) \in Nat
<1>1. IsFiniteSet(Parts)
  <2>1. IsFiniteSet({"head"} \union {"back"} \union {"shield"} \union {"hand"})
    BY FS_EmptySet, FS_Singleton, FS_Union
  <2>2. Parts = {"head"} \union {"back"} \union {"shield"} \union {"hand"}
    BY DEF Parts
  <2> QED BY <2>1, <2>2
<1>2. IsFiniteSet(Wearing(e, t))
  BY <1>1, FS_Subset DEF Wearing
<1> QED BY <1>2, FS_CardinalityType

\* One part changes what it wears.
LEMMA WearingChanges ==
  ASSUME NEW e, NEW p \in Parts, NEW f, f[p] # e[p], \A q \in Parts : q # p => f[q] = e[q], NEW t
  PROVE  /\ e[p] = t => Cardinality(Wearing(f, t)) + 1 = Cardinality(Wearing(e, t))
         /\ f[p] = t => Cardinality(Wearing(f, t)) = Cardinality(Wearing(e, t)) + 1
         /\ e[p] # t /\ f[p] # t => Cardinality(Wearing(f, t)) = Cardinality(Wearing(e, t))
<1>1. /\ IsFiniteSet(Wearing(e, t)) /\ Cardinality(Wearing(e, t)) \in Nat
      /\ IsFiniteSet(Wearing(f, t)) /\ Cardinality(Wearing(f, t)) \in Nat
  BY WearingIsFinite
<1>2. ASSUME e[p] = t PROVE Cardinality(Wearing(f, t)) + 1 = Cardinality(Wearing(e, t))
  <2>1. Wearing(e, t) = Wearing(f, t) \union {p} /\ p \notin Wearing(f, t)
    BY <1>2 DEF Wearing
  <2> QED BY <1>1, <2>1, FS_AddElement
<1>3. ASSUME f[p] = t PROVE Cardinality(Wearing(f, t)) = Cardinality(Wearing(e, t)) + 1
  <2>1. Wearing(f, t) = Wearing(e, t) \union {p} /\ p \notin Wearing(e, t)
    BY <1>3 DEF Wearing
  <2> QED BY <1>1, <2>1, FS_AddElement
<1>4. ASSUME e[p] # t, f[p] # t PROVE Wearing(f, t) = Wearing(e, t)
  BY <1>4 DEF Wearing
<1> QED BY <1>2, <1>3, <1>4

\* The types of what is owned, but for made.
OwnTypes ==
  /\ Covers(inv)
  /\ equipment \in [Parts -> Types \union {None}]
  /\ \A p \in Parts : equipment[p] # None => Part[equipment[p]] = p
  /\ safe_box \in [Types -> Nat] /\ floor \in [Types -> Nat]

Bag == isInventoryFull(inv) \/ isInventoryFull(inv') \/ Holding(inv', None) = {}

\* What every step does: no unit comes from nowhere, and one is only lost at a
\* full bag.
GoodStep ==
  /\ OwnTypes'
  /\ made' \in [Types -> Int]
  /\ \A t \in Types : Missing(t)' >= Missing(t) /\ (Missing(t)' > Missing(t) => Bag)

\* What is missing of a type before and after a step, place by place.
LEMMA MissingIs ==
  ASSUME NEW t \in Types
  PROVE  /\ Missing(t) = made[t] - (UnitsIn(inv, t) + Cardinality(Wearing(equipment, t)) + safe_box[t] + floor[t])
         /\ Missing(t)' = made'[t] - (UnitsIn(inv', t) + Cardinality(Wearing(equipment', t)) + safe_box'[t] + floor'[t])
BY DEF Missing, UnitsOf, Worn, Wearing

\* The same for numbers: where t is, and what changes.
LEMMA Account ==
  ASSUME OwnTypes, made \in [Types -> Nat], NEW t \in Types
  PROVE  /\ UnitsIn(inv, t) \in Nat /\ Cardinality(Wearing(equipment, t)) \in Nat
         /\ safe_box[t] \in Nat /\ floor[t] \in Nat /\ made[t] \in Nat
BY CoversIs, WearingIsFinite DEF OwnTypes

-----------------------------------------------------------------------------
\* A purchase or a sale: the unit enters or leaves the game with the count of it.
LEMMA ShopStep ==
  ASSUME OwnTypes, made \in [Types -> Nat], NEW u \in Types, Buy(u) \/ Sell(u)
  PROVE  GoodStep
<1>1. UNCHANGED <<equipment, safe_box, floor>>
  BY DEF Buy, Sell
<1>2. Covers(inv) /\ inv \in Inventory
  BY CoversIs DEF OwnTypes
<1>3. ASSUME Buy(u) PROVE GoodStep
  <2>1. inv' = addItem(inv, u) /\ made' = [made EXCEPT ![u] = @ + 1]
    BY <1>3 DEF Buy, buyItem
  <2>2. made' \in [Types -> Int] /\ \A t \in Types : made'[t] = made[t] + (IF t = u THEN 1 ELSE 0)
    BY <2>1
  <2>3. (inv' = inv /\ Holding(inv, None) = {}) \/ Stored(inv, inv', u)
    BY <1>2, <2>1, AddItem
  <2>4. Covers(inv')
    BY <1>2, <2>3, StoredCovers
  <2>5. ASSUME NEW t \in Types
        PROVE  Missing(t)' >= Missing(t) /\ (Missing(t)' > Missing(t) => Bag)
    <3>1. \/ UnitsIn(inv', t) = UnitsIn(inv, t) /\ Bag
          \/ UnitsIn(inv', t) = UnitsIn(inv, t) + (IF t = u THEN 1 ELSE 0)
      BY <2>3 DEF Stored, Bag
    <3> QED BY <1>1, <2>2, <3>1, Account, MissingIs
  <2> QED BY <1>1, <2>2, <2>4, <2>5 DEF GoodStep, OwnTypes
<1>4. ASSUME Sell(u) PROVE GoodStep
  <2>1. /\ Holding(inv, u) # {} /\ inv' = removeItem(inv, searchItem(inv, u))
        /\ made' = [made EXCEPT ![u] = @ - 1]
    BY <1>4 DEF Sell, sellItem
  <2>2. made' \in [Types -> Int] /\ \A t \in Types : made'[t] = made[t] - (IF t = u THEN 1 ELSE 0)
    BY <2>1
  <2>3. Covers(inv') /\ Taken(inv, inv', u)
    BY <1>2, <2>1, GiveFirst
  <2>4. ASSUME NEW t \in Types
        PROVE  Missing(t)' >= Missing(t) /\ (Missing(t)' > Missing(t) => Bag)
    <3>1. UnitsIn(inv', t) + (IF t = u THEN 1 ELSE 0) = UnitsIn(inv, t) /\ UnitsIn(inv', t) \in Nat
      BY <2>3, CoversIs DEF Taken
    <3> QED BY <1>1, <2>2, <3>1, Account, MissingIs
  <2> QED BY <1>1, <2>2, <2>3, <2>4 DEF GoodStep, OwnTypes
<1> QED BY <1>3, <1>4

\* A step that moves no item.
LEMMA NothingMoves ==
  ASSUME OwnTypes, made \in [Types -> Nat], UNCHANGED <<goods, made>>
  PROVE  GoodStep
<1>1. UNCHANGED <<inv, equipment, safe_box, floor, made>>
  BY DEF goods
<1>2. \A t \in Types : Missing(t)' = Missing(t) /\ Missing(t) \in Int
  BY <1>1, Account, MissingIs
<1>3. made' \in [Types -> Int]
  BY <1>1
<1> QED BY <1>1, <1>2, <1>3 DEF GoodStep, OwnTypes

\* What creatures drop and players pick up.
LEMMA FloorStep ==
  ASSUME OwnTypes, made \in [Types -> Nat], NEW u \in Types,
         CreatureDropsItem(u) \/ PickUpItem(u)
  PROVE  GoodStep
<1>1. Covers(inv) /\ inv \in Inventory /\ floor \in [Types -> Nat]
  BY CoversIs DEF OwnTypes
<1>2. ASSUME CreatureDropsItem(u) PROVE GoodStep
  <2>1. /\ floor' = [floor EXCEPT ![u] = @ + 1] /\ made' = [made EXCEPT ![u] = @ + 1]
        /\ UNCHANGED <<inv, equipment, safe_box>>
    BY <1>2 DEF CreatureDropsItem
  <2>2. /\ floor' \in [Types -> Nat] /\ made' \in [Types -> Int]
        /\ \A t \in Types : /\ floor'[t] = floor[t] + (IF t = u THEN 1 ELSE 0)
                            /\ made'[t] = made[t] + (IF t = u THEN 1 ELSE 0)
    BY <1>1, <2>1
  <2>3. ASSUME NEW t \in Types
        PROVE  Missing(t)' >= Missing(t) /\ (Missing(t)' > Missing(t) => Bag)
    BY <2>1, <2>2, Account, MissingIs
  <2> QED BY <2>1, <2>2, <2>3 DEF GoodStep, OwnTypes
<1>3. ASSUME PickUpItem(u) PROVE GoodStep
  <2>1. /\ floor[u] > 0 /\ floor' = [floor EXCEPT ![u] = @ - 1] /\ inv' = addItemIfNotFull(inv, u)
        /\ UNCHANGED <<equipment, safe_box, made>>
    BY <1>3 DEF PickUpItem
  <2>2. /\ floor' \in [Types -> Nat]
        /\ \A t \in Types : floor'[t] = floor[t] - (IF t = u THEN 1 ELSE 0)
    BY <1>1, <2>1
  <2>3. (Blocked(inv) /\ inv' = inv) \/ Stored(inv, inv', u)
    BY <1>1, <2>1, AddIfNotFull
  <2>4. Covers(inv')
    BY <1>1, <2>3, StoredCovers
  <2>5. ASSUME NEW t \in Types
        PROVE  Missing(t)' >= Missing(t) /\ (Missing(t)' > Missing(t) => Bag)
    <3>1. \/ UnitsIn(inv', t) = UnitsIn(inv, t) /\ Bag
          \/ UnitsIn(inv', t) = UnitsIn(inv, t) + (IF t = u THEN 1 ELSE 0)
      BY <2>3 DEF Stored, Blocked, Bag
    <3> QED BY <2>1, <2>2, <3>1, Account, MissingIs
  <2>6. made' \in [Types -> Int]
    BY <2>1
  <2> QED BY <2>1, <2>2, <2>4, <2>5, <2>6 DEF GoodStep, OwnTypes
<1> QED BY <1>2, <1>3

\* A treasure: units come until the bag is full.
LEMMA TreasureStep ==
  ASSUME OwnTypes, made \in [Types -> Nat], NEW a, NEW units \in Loots, OpenTreasure(a, units)
  PROVE  GoodStep
<1>1. Len(units) \in Nat /\ \A k \in 1..Len(units) : units[k] \in Types
  BY DEF Loots
<1>2. Covers(inv) /\ inv \in Inventory
  BY CoversIs DEF OwnTypes
<1>3. /\ inv' = addWhileNotFull(inv, units)
      /\ made' = [t \in Types |-> made[t] + Cardinality(Among(units, Len(units), t))]
      /\ UNCHANGED <<equipment, safe_box, floor>>
  BY DEF OpenTreasure, Among
<1>4. /\ Covers(inv')
      /\ \A t \in Types :
           /\ UnitsIn(inv', t) <= Due(inv, units, Len(units), t)
           /\ UnitsIn(inv', t) < Due(inv, units, Len(units), t) => Blocked(inv')
  BY <1>1, <1>2, <1>3, AddWhileNotFull
<1>5. ASSUME NEW t \in Types
      PROVE  /\ made'[t] \in Int /\ Missing(t)' >= Missing(t)
             /\ Missing(t)' > Missing(t) => Bag
  <2>1. PICK n : n = Cardinality(Among(units, Len(units), t))
    OBVIOUS
  <2>2. PICK k, m : k = Len(units) /\ m = k + 1
    OBVIOUS
  <2>3. n \in Nat
    BY <1>1, <2>1, <2>2, OneMore
  <2>4. Due(inv, units, Len(units), t) = UnitsIn(inv, t) + n /\ made'[t] = made[t] + n
    BY <1>3, <2>1 DEF Due
  <2>5. UnitsIn(inv', t) \in Nat
    BY <1>4, CoversIs
  <2>6. UnitsIn(inv', t) <= UnitsIn(inv, t) + n /\ (UnitsIn(inv', t) < UnitsIn(inv, t) + n => Bag)
    BY <1>4, <2>4 DEF Blocked, Bag
  <2>7. PICK b, c, d, e : b = Cardinality(Wearing(equipment, t)) /\ c = safe_box[t] /\ d = floor[t] /\ e = made[t]
    OBVIOUS
  <2>8. PICK x, y : x = UnitsIn(inv, t) /\ y = UnitsIn(inv', t)
    OBVIOUS
  <2>9. x \in Nat /\ y \in Nat /\ b \in Nat /\ c \in Nat /\ d \in Nat /\ e \in Nat
    BY <2>5, <2>7, <2>8, Account
  <2>10. Missing(t) = e - (x + b + c + d) /\ Missing(t)' = (e + n) - (y + b + c + d)
    BY <1>3, <2>4, <2>7, <2>8, MissingIs
  <2>11. y <= x + n /\ (y < x + n => Bag)
    BY <2>6, <2>8, Zenon
  <2>12. made'[t] \in Int
    BY <2>3, <2>4, <2>7, <2>9
  <2> QED BY <2>3, <2>9, <2>10, <2>11, <2>12
<1>6. made' \in [Types -> Int]
  BY <1>3, <1>5
<1> QED BY <1>3, <1>4, <1>5, <1>6 DEF GoodStep, OwnTypes

\* The safe box takes and gives back units.
LEMMA BankStep ==
  ASSUME OwnTypes, made \in [Types -> Nat], NEW u \in Types,
         DepositItem(u) \/ WithdrawItem(u)
  PROVE  GoodStep
<1>1. Covers(inv) /\ inv \in Inventory /\ safe_box \in [Types -> Nat]
  BY CoversIs DEF OwnTypes
<1>2. ASSUME DepositItem(u) PROVE GoodStep
  <2>1. /\ Holding(inv, u) # {} /\ inv' = removeItem(inv, searchItem(inv, u))
        /\ safe_box' = [safe_box EXCEPT ![u] = @ + 1]
        /\ UNCHANGED <<equipment, floor, made>>
    BY <1>2 DEF DepositItem
  <2>2. /\ safe_box' \in [Types -> Nat]
        /\ \A t \in Types : safe_box'[t] = safe_box[t] + (IF t = u THEN 1 ELSE 0)
    BY <1>1, <2>1
  <2>3. Covers(inv') /\ Taken(inv, inv', u)
    BY <1>1, <2>1, GiveFirst
  <2>4. ASSUME NEW t \in Types
        PROVE  Missing(t)' >= Missing(t) /\ (Missing(t)' > Missing(t) => Bag)
    <3>1. UnitsIn(inv', t) + (IF t = u THEN 1 ELSE 0) = UnitsIn(inv, t) /\ UnitsIn(inv', t) \in Nat
      BY <2>3, CoversIs DEF Taken
    <3> QED BY <2>1, <2>2, <3>1, Account, MissingIs
  <2>5. made' \in [Types -> Int]
    BY <2>1
  <2> QED BY <2>1, <2>2, <2>3, <2>4, <2>5 DEF GoodStep, OwnTypes
<1>3. ASSUME WithdrawItem(u) PROVE GoodStep
  <2>1. /\ safe_box[u] > 0 /\ safe_box' = [safe_box EXCEPT ![u] = @ - 1]
        /\ inv' = addItemIfNotFull(inv, u)
        /\ UNCHANGED <<equipment, floor, made>>
    BY <1>3 DEF WithdrawItem
  <2>2. /\ safe_box' \in [Types -> Nat]
        /\ \A t \in Types : safe_box'[t] = safe_box[t] - (IF t = u THEN 1 ELSE 0)
    BY <1>1, <2>1
  <2>3. (Blocked(inv) /\ inv' = inv) \/ Stored(inv, inv', u)
    BY <1>1, <2>1, AddIfNotFull
  <2>4. Covers(inv')
    BY <1>1, <2>3, StoredCovers
  <2>5. ASSUME NEW t \in Types
        PROVE  Missing(t)' >= Missing(t) /\ (Missing(t)' > Missing(t) => Bag)
    <3>1. \/ UnitsIn(inv', t) = UnitsIn(inv, t) /\ Bag
          \/ UnitsIn(inv', t) = UnitsIn(inv, t) + (IF t = u THEN 1 ELSE 0)
      BY <2>3 DEF Stored, Blocked, Bag
    <3> QED BY <2>1, <2>2, <3>1, Account, MissingIs
  <2>6. made' \in [Types -> Int]
    BY <2>1
  <2> QED BY <2>1, <2>2, <2>4, <2>5, <2>6 DEF GoodStep, OwnTypes
<1> QED BY <1>2, <1>3

\* A death moves everything to the floor.
LEMMA DeathStep ==
  ASSUME OwnTypes, made \in [Types -> Nat], Die
  PROVE  GoodStep
<1>1. /\ inv' = NewInventory /\ equipment' = [p \in Parts |-> None]
      /\ floor' = [t \in Types |-> floor[t] + UnitsIn(inv, t) + Worn(t)]
      /\ UNCHANGED <<safe_box, made>>
  BY DEF Die
<1>2. Covers(inv')
  BY <1>1, Empty DEF Covers
<1>3. ASSUME NEW t \in Types
      PROVE  floor'[t] \in Nat /\ Missing(t)' = Missing(t) /\ Missing(t) \in Int
  <2>1. UnitsIn(inv', t) = 0
    BY <1>1, Empty
  <2>2. Cardinality(Wearing(equipment', t)) = 0
    <3>1. Wearing(equipment', t) = {}
      BY <1>1, BelongingsAssumption DEF Wearing
    <3> QED BY <3>1, FS_EmptySet
  <2>3. floor'[t] = floor[t] + UnitsIn(inv, t) + Cardinality(Wearing(equipment, t))
    BY <1>1 DEF Worn, Wearing
  <2> QED BY <1>1, <2>1, <2>2, <2>3, Account, MissingIs
<1>4. floor' \in [Types -> Nat] /\ made' \in [Types -> Int]
  BY <1>1, <1>3
<1>5. equipment' \in [Parts -> Types \union {None}] /\ \A p \in Parts : equipment'[p] = None
  BY <1>1
<1> QED BY <1>1, <1>2, <1>3, <1>4, <1>5 DEF GoodStep, OwnTypes

\* A login loads what was saved.
LEMMA LoginStep ==
  ASSUME OwnTypes, made \in [Types -> Nat], Relogin
  PROVE  GoodStep
<1>1. inv' = loadSlots(inv) /\ UNCHANGED <<equipment, safe_box, floor, made>>
  BY DEF Relogin
<1>2. inv \in Inventory
  BY CoversIs DEF OwnTypes
<1>3. /\ Covers(inv')
      /\ \A t \in Types : /\ UnitsIn(inv', t) <= UnitsIn(inv, t)
                          /\ UnitsIn(inv', t) < UnitsIn(inv, t) => Holding(inv', None) = {}
  BY <1>1, <1>2, LoadSlots
<1>4. ASSUME NEW t \in Types
      PROVE  Missing(t)' >= Missing(t) /\ (Missing(t)' > Missing(t) => Bag)
  <2>1. UnitsIn(inv', t) \in Nat
    BY <1>3, CoversIs
  <2> QED BY <1>1, <1>3, <2>1, Account, MissingIs DEF Bag
<1>5. made' \in [Types -> Int]
  BY <1>1
<1> QED BY <1>1, <1>3, <1>4, <1>5 DEF GoodStep, OwnTypes
-----------------------------------------------------------------------------
\* What the player drops lies on the floor.
LEMMA DropStep ==
  ASSUME OwnTypes, made \in [Types -> Nat], NEW i \in Slots, DropItem(i)
  PROVE  GoodStep
<1>1. PICK u : u = inv.slots[i].item
  OBVIOUS
<1>2. /\ inv.slots[i] # Nothing /\ inv' = removeItem(inv, i)
      /\ floor' = [floor EXCEPT ![u] = @ + 1]
      /\ UNCHANGED <<equipment, safe_box, made>>
  BY <1>1 DEF DropItem
<1>3. Covers(inv) /\ floor \in [Types -> Nat]
  BY DEF OwnTypes
<1>4. Covers(inv') /\ Taken(inv, inv', u)
  BY <1>1, <1>2, <1>3, RemoveItem
<1>5. u \in Types /\ \A t \in Types : UnitsIn(inv', t) + (IF t = u THEN 1 ELSE 0) = UnitsIn(inv, t)
  BY <1>4 DEF Taken
<1>6. /\ floor' \in [Types -> Nat]
      /\ \A t \in Types : floor'[t] = floor[t] + (IF t = u THEN 1 ELSE 0)
  BY <1>2, <1>3, <1>5
<1>7. ASSUME NEW t \in Types
      PROVE  Missing(t)' >= Missing(t) /\ (Missing(t)' > Missing(t) => Bag)
  <2>1. UnitsIn(inv', t) \in Nat
    BY <1>4, CoversIs
  <2> QED BY <1>2, <1>5, <1>6, <2>1, Account, MissingIs
<1>8. made' \in [Types -> Int]
  BY <1>2
<1> QED BY <1>2, <1>4, <1>6, <1>7, <1>8 DEF GoodStep, OwnTypes

\* What is taken off goes to a bag that does not say it is full, but may find
\* all slots taken.
LEMMA UnequipStep ==
  ASSUME OwnTypes, made \in [Types -> Nat], NEW p \in Parts, UnequipItem(p)
  PROVE  GoodStep
<1>1. PICK u : u = equipment[p]
  OBVIOUS
<1>2. /\ u # None /\ equipment' = [equipment EXCEPT ![p] = None] /\ inv' = addItem(inv, u)
      /\ UNCHANGED <<safe_box, floor, made>>
  BY <1>1 DEF UnequipItem
<1>3. Covers(inv) /\ inv \in Inventory /\ equipment \in [Parts -> Types \union {None}]
  BY CoversIs DEF OwnTypes
<1>4. u \in Types
  BY <1>1, <1>2, <1>3
<1>5. (inv' = inv /\ Holding(inv, None) = {}) \/ Stored(inv, inv', u)
  BY <1>2, <1>3, <1>4, AddItem
<1>6. Covers(inv')
  BY <1>3, <1>5, StoredCovers
<1>7. /\ equipment'[p] = None /\ \A q \in Parts : q # p => equipment'[q] = equipment[q]
      /\ equipment' \in [Parts -> Types \union {None}]
  BY <1>2, <1>3
<1>8. ASSUME NEW t \in Types
      PROVE  Missing(t)' >= Missing(t) /\ (Missing(t)' > Missing(t) => Bag)
  <2>1. Cardinality(Wearing(equipment', t)) + (IF t = u THEN 1 ELSE 0) = Cardinality(Wearing(equipment, t))
    <3>1. t # None
      BY BelongingsAssumption
    <3>2. PICK f : f = equipment'
      OBVIOUS
    <3>3. f[p] # equipment[p] /\ f[p] # t /\ \A q \in Parts : q # p => f[q] = equipment[q]
      BY <1>1, <1>2, <1>7, <3>1, <3>2
    <3>4. /\ equipment[p] = t => Cardinality(Wearing(f, t)) + 1 = Cardinality(Wearing(equipment, t))
          /\ equipment[p] # t => Cardinality(Wearing(f, t)) = Cardinality(Wearing(equipment, t))
      BY <3>3, WearingChanges
    <3>5. Cardinality(Wearing(f, t)) \in Nat
      BY WearingIsFinite
    <3> QED BY <1>1, <3>2, <3>4, <3>5
  <2>2. \/ UnitsIn(inv', t) = UnitsIn(inv, t) /\ Bag
        \/ UnitsIn(inv', t) = UnitsIn(inv, t) + (IF t = u THEN 1 ELSE 0)
    BY <1>5 DEF Stored, Bag
  <2>3. Cardinality(Wearing(equipment', t)) \in Nat
    BY WearingIsFinite
  <2>4. PICK a, b, c, d, e : a = UnitsIn(inv, t) /\ b = Cardinality(Wearing(equipment, t))
                             /\ c = safe_box[t] /\ d = floor[t] /\ e = made[t]
    OBVIOUS
  <2>5. PICK x, y : x = UnitsIn(inv', t) /\ y = Cardinality(Wearing(equipment', t))
    OBVIOUS
  <2>6. a \in Nat /\ b \in Nat /\ c \in Nat /\ d \in Nat /\ e \in Nat /\ x \in Nat /\ y \in Nat
    BY <1>6, <2>3, <2>4, <2>5, Account, CoversIs
  <2>7. Missing(t) = e - (a + b + c + d) /\ Missing(t)' = e - (x + y + c + d)
    BY <1>2, <2>4, <2>5, MissingIs
  <2>8. y + (IF t = u THEN 1 ELSE 0) = b /\ ((x = a /\ Bag) \/ x = a + (IF t = u THEN 1 ELSE 0))
    BY <2>1, <2>2, <2>4, <2>5
  <2> QED BY <2>6, <2>7, <2>8
<1>9. made' \in [Types -> Int]
  BY <1>2
<1>10. \A q \in Parts : equipment'[q] # None => Part[equipment'[q]] = q
  BY <1>7 DEF OwnTypes
<1> QED BY <1>2, <1>6, <1>7, <1>8, <1>9, <1>10 DEF GoodStep, OwnTypes

\* Of the units in the slots and on the body none comes from nowhere, and one
\* is only lost when no slot is empty.
Swapped(v) ==
  /\ Covers(inv)'
  /\ equipment' \in [Parts -> Types \union {None}]
  /\ \A p \in Parts : equipment'[p] # None => Part[equipment'[p]] = p
  /\ \A t \in Types :
       LET before == UnitsIn(v, t) + Cardinality(Wearing(equipment, t))
           after == UnitsIn(inv', t) + Cardinality(Wearing(equipment', t))
       IN after <= before /\ (after < before => Holding(inv', None) = {})

\* The unit in a slot and the one worn change places.
LEMMA SwapStep ==
  ASSUME OwnTypes, NEW v, Covers(v), NEW i \in Slots, v.slots[i] # Nothing, EquipSlot(v, i)
  PROVE  Swapped(v)
<1>1. PICK u, taken : u = v.slots[i].item /\ taken = TakenToEquip(v, i)
  OBVIOUS
<1>2. Covers(taken) /\ taken \in Inventory /\ u \in Types
      /\ \A t \in Types : UnitsIn(taken, t) + (IF t = u THEN 1 ELSE 0) = UnitsIn(v, t)
  <2>1. Covers(taken) /\ Taken(v, taken, u)
    BY <1>1, TakeToEquip
  <2> QED BY <2>1 DEF Taken
<1>3. PICK p : p = Part[u]
  OBVIOUS
<1>4. p \in Parts
  BY <1>2, <1>3, BelongingsAssumption
<1>5. PICK old : old = equipment[p]
  OBVIOUS
<1>6. PICK back : back = addItem(taken, old)
  OBVIOUS
<1>7. equipment \in [Parts -> Types \union {None}] /\ \A q \in Parts : equipment[q] # None => Part[equipment[q]] = q
  BY DEF OwnTypes
<1>8. old \in Types \union {None} /\ u # None
  BY <1>2, <1>4, <1>5, <1>7, BelongingsAssumption
<1>9. \/ old # None /\ back = taken /\ inv' = setItem(taken, u) /\ equipment' = equipment
      \/ old = None /\ inv' = taken /\ equipment' = [equipment EXCEPT ![p] = u]
      \/ old # None /\ back # taken /\ inv' = back /\ equipment' = [equipment EXCEPT ![p] = u]
  BY <1>1, <1>3, <1>5, <1>6, Zenon DEF EquipSlot
<1>10. ASSUME equipment' = [equipment EXCEPT ![p] = u]
       PROVE  /\ equipment' \in [Parts -> Types \union {None}]
              /\ \A q \in Parts : equipment'[q] # None => Part[equipment'[q]] = q
              /\ \A t \in Types : Cardinality(Wearing(equipment', t)) + (IF t = old THEN 1 ELSE 0)
                                    = Cardinality(Wearing(equipment, t)) + (IF t = u THEN 1 ELSE 0)
  <2>1. /\ equipment'[p] = u /\ \A q \in Parts : q # p => equipment'[q] = equipment[q]
        /\ equipment' \in [Parts -> Types \union {None}]
    BY <1>2, <1>4, <1>7, <1>10
  <2>2. \A q \in Parts : equipment'[q] # None => Part[equipment'[q]] = q
    BY <1>3, <1>7, <2>1
  <2>3. ASSUME NEW t \in Types
        PROVE  Cardinality(Wearing(equipment', t)) + (IF t = old THEN 1 ELSE 0)
                 = Cardinality(Wearing(equipment, t)) + (IF t = u THEN 1 ELSE 0)
    <3>1. PICK f : f = equipment'
      OBVIOUS
    <3>2. PICK m, n : m = Cardinality(Wearing(f, t)) /\ n = Cardinality(Wearing(equipment, t))
      OBVIOUS
    <3>3. m \in Nat /\ n \in Nat
      BY <3>2, WearingIsFinite
    <3>4. CASE u = old
      <4>1. Wearing(f, t) = Wearing(equipment, t)
        BY <1>5, <2>1, <3>1, <3>4 DEF Wearing
      <4> QED BY <3>1, <3>4, <4>1
    <3>5. CASE u # old
      <4>1. f[p] # equipment[p] /\ f[p] = u /\ \A q \in Parts : q # p => f[q] = equipment[q]
        BY <1>5, <2>1, <3>1, <3>5
      <4>2. /\ equipment[p] = t => Cardinality(Wearing(f, t)) + 1 = Cardinality(Wearing(equipment, t))
            /\ f[p] = t => Cardinality(Wearing(f, t)) = Cardinality(Wearing(equipment, t)) + 1
            /\ equipment[p] # t /\ f[p] # t =>
                 Cardinality(Wearing(f, t)) = Cardinality(Wearing(equipment, t))
        BY <1>4, <4>1, WearingChanges
      <4>3. /\ old = t => m + 1 = n
            /\ u = t => m = n + 1
            /\ old # t /\ u # t => m = n
        BY <1>5, <3>2, <4>1, <4>2, Zenon
      <4>4. m + (IF t = old THEN 1 ELSE 0) = n + (IF t = u THEN 1 ELSE 0)
        BY <3>3, <3>5, <4>3
      <4> QED BY <3>1, <3>2, <4>4, Zenon
    <3> QED BY <3>4, <3>5
  <2> QED BY <2>1, <2>2, <2>3
<1>11. ASSUME NEW t \in Types
       PROVE  /\ UnitsIn(v, t) \in Nat /\ UnitsIn(taken, t) \in Nat
              /\ UnitsIn(taken, t) + (IF t = u THEN 1 ELSE 0) = UnitsIn(v, t)
              /\ Cardinality(Wearing(equipment, t)) \in Nat /\ Cardinality(Wearing(equipment', t)) \in Nat
  BY <1>2, CoversIs, WearingIsFinite
<1>12. ASSUME old # None, back = taken, inv' = setItem(taken, u), equipment' = equipment
       PROVE  Swapped(v)
  <2>1. \/ Holding(taken, None) = {} /\ inv' = taken
        \/ Stored(taken, inv', u)
    BY <1>2, <1>12, SetItem
  <2>2. Covers(inv')
    BY <1>2, <2>1, StoredCovers
  <2>3. ASSUME NEW t \in Types
        PROVE  /\ UnitsIn(inv', t) <= UnitsIn(v, t)
               /\ UnitsIn(inv', t) < UnitsIn(v, t) => Holding(inv', None) = {}
    <3>1. \/ UnitsIn(inv', t) = UnitsIn(taken, t) /\ Holding(inv', None) = {}
          \/ UnitsIn(inv', t) = UnitsIn(taken, t) + (IF t = u THEN 1 ELSE 0)
      BY <2>1 DEF Stored
    <3> QED BY <1>11, <3>1
  <2>4. ASSUME NEW t \in Types
        PROVE  LET before == UnitsIn(v, t) + Cardinality(Wearing(equipment, t))
                   after == UnitsIn(inv', t) + Cardinality(Wearing(equipment', t))
               IN after <= before /\ (after < before => Holding(inv', None) = {})
    <3>1. UnitsIn(inv', t) \in Nat
      BY <2>2, CoversIs
    <3> QED BY <1>11, <1>12, <2>3, <3>1
  <2> QED BY <1>7, <1>12, <2>2, <2>4 DEF Swapped
<1>13. ASSUME old = None, inv' = taken, equipment' = [equipment EXCEPT ![p] = u]
       PROVE  Swapped(v)
  <2>1. ASSUME NEW t \in Types
        PROVE  UnitsIn(inv', t) + Cardinality(Wearing(equipment', t))
                 = UnitsIn(v, t) + Cardinality(Wearing(equipment, t))
    <3>1. t # old
      BY <1>13, BelongingsAssumption
    <3>2. Cardinality(Wearing(equipment', t)) + (IF t = old THEN 1 ELSE 0)
            = Cardinality(Wearing(equipment, t)) + (IF t = u THEN 1 ELSE 0)
      BY <1>10, <1>13
    <3>3. UnitsIn(inv', t) = UnitsIn(taken, t)
      BY <1>13
    <3> QED BY <1>11, <3>1, <3>2, <3>3
  <2>2. Covers(inv')
    BY <1>2, <1>13
  <2>3. ASSUME NEW t \in Types
        PROVE  LET before == UnitsIn(v, t) + Cardinality(Wearing(equipment, t))
                   after == UnitsIn(inv', t) + Cardinality(Wearing(equipment', t))
               IN after <= before /\ (after < before => Holding(inv', None) = {})
    BY <1>11, <2>1
  <2> QED BY <1>10, <1>13, <2>2, <2>3 DEF Swapped
<1>14. ASSUME old # None, back # taken, inv' = back, equipment' = [equipment EXCEPT ![p] = u]
       PROVE  Swapped(v)
  <2>1. old \in Types
    BY <1>8, <1>14
  <2>2. Stored(taken, inv', old)
    BY <1>2, <1>6, <1>14, <2>1, AddItem
  <2>3. Covers(inv')
    BY <1>2, <2>2, StoredCovers
  <2>4. ASSUME NEW t \in Types
        PROVE  UnitsIn(inv', t) + Cardinality(Wearing(equipment', t))
                 = UnitsIn(v, t) + Cardinality(Wearing(equipment, t))
    <3>1. UnitsIn(inv', t) = UnitsIn(taken, t) + (IF t = old THEN 1 ELSE 0)
      BY <2>2 DEF Stored
    <3>2. Cardinality(Wearing(equipment', t)) + (IF t = old THEN 1 ELSE 0)
            = Cardinality(Wearing(equipment, t)) + (IF t = u THEN 1 ELSE 0)
      BY <1>10, <1>14
    <3> QED BY <1>11, <3>1, <3>2
  <2>5. ASSUME NEW t \in Types
        PROVE  LET before == UnitsIn(v, t) + Cardinality(Wearing(equipment, t))
                   after == UnitsIn(inv', t) + Cardinality(Wearing(equipment', t))
               IN after <= before /\ (after < before => Holding(inv', None) = {})
    BY <1>11, <2>4
  <2> QED BY <1>10, <1>14, <2>3, <2>5 DEF Swapped
<1> QED BY <1>9, <1>12, <1>13, <1>14, Zenon

\* A potion is drunk and leaves the game; what is left in the slot is worn.
LEMMA EquipStep ==
  ASSUME OwnTypes, made \in [Types -> Nat], NEW i \in Slots, EquipItem(i)
  PROVE  GoodStep
<1>1. PICK u : u = inv.slots[i].item
  OBVIOUS
<1>2. PICK drunk \in BOOLEAN : drunk <=> (u \in Usable /\ ~isInventoryEmpty(inv))
  OBVIOUS
<1>3. PICK v : v = IF drunk THEN removeItem(inv, i) ELSE inv
  OBVIOUS
<1>4. /\ inv.slots[i] # Nothing
      /\ IF v.slots[i] = Nothing THEN inv' = v /\ UNCHANGED equipment ELSE EquipSlot(v, i)
      /\ made' = IF drunk THEN [made EXCEPT ![u] = @ - 1] ELSE made
      /\ UNCHANGED <<safe_box, floor>>
  BY <1>1, <1>2, <1>3 DEF EquipItem
<1>5. Covers(inv) /\ inv \in Inventory
  BY CoversIs DEF OwnTypes
<1>6. u \in Types
  BY <1>1, <1>4, <1>5, SlotIs DEF Inventory, Contents, Nothing
<1>7. /\ Covers(v)
      /\ \A t \in Types : UnitsIn(v, t) + (IF drunk /\ t = u THEN 1 ELSE 0) = UnitsIn(inv, t)
  <2>1. CASE drunk
    <3>1. Covers(v) /\ Taken(inv, v, u)
      BY <1>1, <1>3, <1>4, <1>5, <2>1, RemoveItem
    <3> QED BY <2>1, <3>1 DEF Taken
  <2>2. CASE ~drunk
    <3>1. v = inv
      BY <1>3, <2>2
    <3>2. \A t \in Types : UnitsIn(inv, t) \in Nat
      BY <1>5, CoversIs
    <3> QED BY <1>5, <2>2, <3>1, <3>2
  <2> QED BY <2>1, <2>2
<1>8. Swapped(v)
  <2>1. CASE v.slots[i] # Nothing
    BY <1>4, <1>7, <2>1, SwapStep
  <2>2. CASE v.slots[i] = Nothing
    <3>1. inv' = v /\ equipment' = equipment
      BY <1>4, <2>2
    <3>2. ASSUME NEW t \in Types
          PROVE  LET before == UnitsIn(v, t) + Cardinality(Wearing(equipment, t))
                     after == UnitsIn(inv', t) + Cardinality(Wearing(equipment', t))
                 IN after <= before /\ (after < before => Holding(inv', None) = {})
      <4>1. UnitsIn(v, t) \in Nat /\ Cardinality(Wearing(equipment, t)) \in Nat
        BY <1>7, CoversIs, WearingIsFinite
      <4> QED BY <3>1, <4>1
    <3> QED BY <1>7, <3>1, <3>2 DEF Swapped, OwnTypes
  <2> QED BY <2>1, <2>2
<1>9. made' \in [Types -> Int] /\ \A t \in Types : made'[t] = made[t] - (IF drunk /\ t = u THEN 1 ELSE 0)
  <2>1. CASE drunk
    <3>1. made' = [made EXCEPT ![u] = @ - 1]
      BY <1>4, <2>1
    <3>2. made' \in [Types -> Int] /\ \A t \in Types : made'[t] = made[t] - (IF t = u THEN 1 ELSE 0)
      BY <1>6, <3>1
    <3> QED BY <2>1, <3>2
  <2>2. CASE ~drunk
    <3>1. made' = made
      BY <1>4, <2>2
    <3>2. made' \in [Types -> Int] /\ \A t \in Types : made'[t] = made[t] - 0
      BY <3>1
    <3> QED BY <2>2, <3>2
  <2> QED BY <2>1, <2>2
<1>10. ASSUME NEW t \in Types
       PROVE  Missing(t)' >= Missing(t) /\ (Missing(t)' > Missing(t) => Bag)
  <2>1. PICK a, b, c, d, e : a = UnitsIn(inv, t) /\ b = Cardinality(Wearing(equipment, t))
                             /\ c = safe_box[t] /\ d = floor[t] /\ e = made[t]
    OBVIOUS
  <2>2. PICK x, y, z, k : x = UnitsIn(inv', t) /\ y = Cardinality(Wearing(equipment', t)) /\ z = UnitsIn(v, t)
                          /\ k = IF drunk /\ t = u THEN 1 ELSE 0
    OBVIOUS
  <2>3. a \in Nat /\ b \in Nat /\ c \in Nat /\ d \in Nat /\ e \in Nat
    BY <2>1, Account
  <2>4. x \in Nat /\ y \in Nat /\ z \in Nat
    BY <1>7, <1>8, <2>2, CoversIs, WearingIsFinite DEF Swapped
  <2>5. k \in Nat /\ z + k = a /\ made'[t] = e - k
    BY <1>7, <1>9, <2>1, <2>2
  <2>6. Missing(t) = e - (a + b + c + d) /\ Missing(t)' = (e - k) - (x + y + c + d)
    BY <1>4, <2>1, <2>2, <2>5, MissingIs
  <2>7. x + y <= z + b /\ (x + y < z + b => Bag)
    BY <1>8, <2>1, <2>2 DEF Swapped, Bag
  <2> QED BY <2>3, <2>4, <2>5, <2>6, <2>7
<1> QED BY <1>4, <1>8, <1>9, <1>10 DEF GoodStep, OwnTypes, Swapped

\* Every step.
LEMMA ItemStep ==
  ASSUME OwnTypes, made \in [Types -> Nat], [Next]_vars
  PROVE  GoodStep
<1>1. ASSUME Trade PROVE GoodStep
  BY <1>1, ShopStep DEF Trade
<1>2. ASSUME Find PROVE GoodStep
  <2>1. ASSUME NEW t \in Types, CreatureDropsItem(t) \/ PickUpItem(t) PROVE GoodStep
    BY <2>1, FloorStep
  <2>2. ASSUME NEW a \in Amounts, CreatureDropsGold(a) \/ PickUpGold(a) PROVE GoodStep
    BY <2>2, NothingMoves DEF CreatureDropsGold, PickUpGold
  <2>3. ASSUME NEW a \in Amounts, NEW units \in Loots, OpenTreasure(a, units) PROVE GoodStep
    BY <2>3, TreasureStep
  <2> QED BY <1>2, <2>1, <2>2, <2>3 DEF Find
<1>3. ASSUME Carry PROVE GoodStep
  BY <1>3, DropStep, EquipStep, UnequipStep DEF Carry
<1>4. ASSUME Bank PROVE GoodStep
  <2>1. ASSUME NEW t \in Types, DepositItem(t) \/ WithdrawItem(t) PROVE GoodStep
    BY <2>1, BankStep
  <2>2. ASSUME NEW a \in Amounts, DepositGold(a) \/ WithdrawGold(a) PROVE GoodStep
    <3>1. UNCHANGED <<goods, made>>
      BY <2>2 DEF DepositGold, WithdrawGold
    <3> QED BY <3>1, NothingMoves
  <2> QED BY <1>4, <2>1, <2>2 DEF Bank
<1>5. ASSUME Die \/ Relogin PROVE GoodStep
  BY <1>5, DeathStep, LoginStep
<1>6. ASSUME Resurrect \/ UNCHANGED vars PROVE GoodStep
  BY <1>6, NothingMoves DEF Resurrect, vars
<1> QED BY <1>1, <1>2, <1>3, <1>4, <1>5, <1>6 DEF Next

-----------------------------------------------------------------------------
(***************************************************************************)
(* The gold.                                                               *)
(***************************************************************************)

\* What getGolden answers is never more than there is, and all of it as long
\* as it fits.
LEMMA CutNeverAdds ==
  ASSUME NEW n \in Nat, NEW w \in Nat \ {0}
  PROVE  /\ n % w \in Nat /\ n % w <= n
         /\ n < w => n % w = n
OBVIOUS

\* What is earned is recorded when it does not fit the counter.
LEMMA EarnTellsRiches ==
  ASSUME golden \in Nat, UINT16 \in Nat, was_rich \in BOOLEAN, NEW a \in Nat, Earn(a)
  PROVE  /\ golden' = golden + a
         /\ was_rich' \in BOOLEAN
         /\ ~was_rich' => ~was_rich /\ golden' < UINT16
<1>1. golden' = golden + a /\ was_rich' = (was_rich \/ golden + a >= UINT16)
  BY DEF Earn
<1>2. was_rich' \in BOOLEAN
  BY <1>1, Zenon
<1>3. ~was_rich' => ~was_rich /\ ~(golden + a >= UINT16)
  BY <1>1, Zenon
<1>4. ~(golden + a >= UINT16) => golden + a < UINT16
  OBVIOUS
<1>5. QED
  BY <1>1, <1>2, <1>3, <1>4, Zenon

\* GoldIsConserved is inductive together with what was_rich records: as long
\* as it is false the gold fits, so that getGolden is all of it and a login
\* brings all of it back.
GoldInv ==
  /\ golden \in Nat /\ deposited \in Nat /\ gold_bags \in Nat /\ gold_made \in Nat
  /\ was_rich \in BOOLEAN
  /\ ~was_rich => golden < UINT16
  /\ GoldIsConserved

\* The gold the player is made with fits the counter.
LEMMA GoldStart == Init => GoldInv
<1> SUFFICES ASSUME Init PROVE GoldInv
  OBVIOUS
<1>1. /\ golden = GoldInit /\ deposited = 0 /\ gold_bags = 0 /\ gold_made = GoldInit
      /\ was_rich = FALSE
  BY DEF Init
<1>2. GoldInit \in Nat /\ GoldInit < UINT16
  BY BelongingsAssumption
<1>3. /\ golden \in Nat /\ deposited \in Nat /\ gold_bags \in Nat /\ gold_made \in Nat
      /\ golden < UINT16
      /\ golden + deposited + gold_bags = gold_made
      /\ golden + deposited + gold_bags <= gold_made
  BY <1>1, <1>2
<1>4. was_rich \in BOOLEAN
  BY <1>1
<1>5. QED
  BY <1>3, <1>4, Zenon DEF GoldInv, GoldIsConserved

\* Every step keeps the account of the gold.
LEMMA GoldStep == GoldInv /\ [Next]_vars => GoldInv'
<1> SUFFICES ASSUME GoldInv, [Next]_vars PROVE GoldInv'
  OBVIOUS
<1>1. /\ golden \in Nat /\ deposited \in Nat /\ gold_bags \in Nat /\ gold_made \in Nat
      /\ was_rich \in BOOLEAN
      /\ ~was_rich => golden < UINT16
      /\ golden + deposited + gold_bags <= gold_made
      /\ ~was_rich => golden + deposited + gold_bags = gold_made
  BY DEF GoldInv, GoldIsConserved
<1>2. /\ UINT16 \in Nat \ {0} /\ GoldMax \in Nat
      /\ \A t \in Types : Price[t] \in Nat /\ Offer[t] \in Nat
      /\ Amounts \subseteq Nat
  BY BelongingsAssumption DEF Amounts
<1>3. /\ getGolden \in Nat /\ getGolden <= golden
      /\ golden < UINT16 => getGolden = golden
  BY <1>1, <1>2, CutNeverAdds DEF getGolden
<1>4. ASSUME Trade PROVE GoldInv'
  <2>1. ASSUME NEW u \in Types, Buy(u) PROVE GoldInv'
    <3>1. /\ getGolden >= Price[u]
          /\ golden' = golden - Price[u] /\ gold_made' = gold_made - Price[u]
          /\ deposited' = deposited /\ gold_bags' = gold_bags /\ was_rich' = was_rich
      BY <2>1 DEF Buy, buyItem
    <3>2. Price[u] \in Nat
      BY <1>2
    <3>3. QED
      BY <1>1, <1>2, <1>3, <3>1, <3>2 DEF GoldInv, GoldIsConserved
  <2>2. ASSUME NEW u \in Types, Sell(u) PROVE GoldInv'
    <3>1. /\ Earn(Offer[u]) /\ gold_made' = gold_made + Offer[u]
          /\ deposited' = deposited /\ gold_bags' = gold_bags
      BY <2>2 DEF Sell, sellItem
    <3>2. Offer[u] \in Nat
      BY <1>2
    <3>3. QED
      BY <1>1, <1>2, <3>1, <3>2, EarnTellsRiches DEF GoldInv, GoldIsConserved
  <2>3. QED
    BY <1>4, <2>1, <2>2 DEF Trade
<1>5. ASSUME Find PROVE GoldInv'
  <2>1. ASSUME NEW t \in Types, CreatureDropsItem(t) \/ PickUpItem(t) PROVE GoldInv'
    <3>1. UNCHANGED <<gold, gold_made, was_rich>>
      BY <2>1 DEF CreatureDropsItem, PickUpItem
    <3>2. QED
      BY <1>1, <3>1 DEF gold, GoldInv, GoldIsConserved
  <2>2. ASSUME NEW a \in Amounts, CreatureDropsGold(a) PROVE GoldInv'
    BY <1>1, <1>2, <2>2 DEF CreatureDropsGold, GoldInv, GoldIsConserved
  <2>3. ASSUME NEW a \in Amounts, PickUpGold(a) PROVE GoldInv'
    <3>1. /\ a \in Nat /\ a <= gold_bags /\ gold_bags' = gold_bags - a /\ Earn(a)
          /\ UNCHANGED <<deposited, gold_made>>
      BY <1>2, <2>3 DEF PickUpGold
    <3>2. QED
      BY <1>1, <1>2, <3>1, EarnTellsRiches DEF GoldInv, GoldIsConserved
  <2>4. ASSUME NEW a \in Amounts, NEW units \in Loots, OpenTreasure(a, units)
        PROVE GoldInv'
    <3>1. /\ a \in Nat /\ Earn(a) /\ gold_made' = gold_made + a
          /\ UNCHANGED <<deposited, gold_bags>>
      BY <1>2, <2>4 DEF OpenTreasure
    <3>2. QED
      BY <1>1, <1>2, <3>1, EarnTellsRiches DEF GoldInv, GoldIsConserved
  <2>5. QED
    BY <1>5, <2>1, <2>2, <2>3, <2>4 DEF Find
<1>6. ASSUME Carry PROVE GoldInv'
  <2>1. UNCHANGED <<gold, gold_made, was_rich>>
    BY <1>6 DEF Carry, DropItem, EquipItem, UnequipItem
  <2>2. QED
    BY <1>1, <2>1 DEF gold, GoldInv, GoldIsConserved
<1>7. ASSUME Bank PROVE GoldInv'
  <2>1. ASSUME NEW t \in Types, DepositItem(t) \/ WithdrawItem(t) PROVE GoldInv'
    <3>1. UNCHANGED <<gold, gold_made, was_rich>>
      BY <2>1 DEF DepositItem, WithdrawItem
    <3>2. QED
      BY <1>1, <3>1 DEF gold, GoldInv, GoldIsConserved
  <2>2. ASSUME NEW a \in Amounts, DepositGold(a) PROVE GoldInv'
    BY <1>1, <1>2, <1>3, <2>2 DEF DepositGold, decreaseGold, GoldInv, GoldIsConserved
  <2>3. ASSUME NEW a \in Amounts, WithdrawGold(a) PROVE GoldInv'
    <3>1. PICK moved \in 0..deposited :
            /\ Earn(moved) /\ deposited' = deposited - moved
            /\ UNCHANGED <<gold_bags, gold_made>>
      BY <1>1, <1>2, <2>3 DEF WithdrawGold
    <3>2. QED
      BY <1>1, <1>2, <3>1, EarnTellsRiches DEF GoldInv, GoldIsConserved
  <2>4. QED
    BY <1>7, <2>1, <2>2, <2>3 DEF Bank
<1>8. ASSUME Die PROVE GoldInv'
  <2>1. PICK excess \in 0..getGolden :
          /\ golden' = golden - excess /\ gold_bags' = gold_bags + excess
          /\ UNCHANGED <<deposited, gold_made, was_rich>>
    BY <1>2, <1>3, <1>8 DEF Die
  <2>2. QED
    BY <1>1, <1>2, <1>3, <2>1 DEF GoldInv, GoldIsConserved
<1>9. ASSUME Relogin PROVE GoldInv'
  BY <1>1, <1>2, <1>3, <1>9 DEF Relogin, GoldInv, GoldIsConserved
<1>10. ASSUME Resurrect \/ UNCHANGED vars PROVE GoldInv'
  <2>1. UNCHANGED <<gold, gold_made, was_rich>>
    BY <1>10 DEF Resurrect, vars
  <2>2. QED
    BY <1>1, <2>1 DEF gold, GoldInv, GoldIsConserved
<1>11. QED
  BY <1>4, <1>5, <1>6, <1>7, <1>8, <1>9, <1>10 DEF Next

\* Whatever the prices and the width of the counter, the shops, the bank,
\* deaths and logins never make gold, and lose none of a player whose gold
\* always fitted the counter.
THEOREM GoldCorrect == Spec => []GoldIsConserved
<1>1. GoldInv => GoldIsConserved
  BY DEF GoldInv
<1>2. QED
  BY GoldStart, GoldStep, <1>1, PTL DEF Spec

-----------------------------------------------------------------------------
(***************************************************************************)
(* The invariant of it all, and what follows.                              *)
(***************************************************************************)

\* made is counted by what is there, so it stays a natural number only
\* together with NothingIsDuplicated.
BelongingsInv ==
  /\ OwnTypes
  /\ alive \in BOOLEAN
  /\ made \in [Types -> Nat]
  /\ NothingIsDuplicated
  /\ GoldInv

\* At the start the bag is empty and nothing is worn.
LEMMA BelongingsStart == Init => BelongingsInv
<1> SUFFICES ASSUME Init PROVE BelongingsInv
  OBVIOUS
<1>1. /\ inv = NewInventory /\ equipment = [p \in Parts |-> None]
      /\ safe_box = [t \in Types |-> 0] /\ floor = [t \in Types |-> 0]
      /\ made = [t \in Types |-> 0] /\ alive = TRUE
  BY DEF Init
<1>2. Covers(inv) /\ \A t \in Types : UnitsIn(inv, t) = 0
  BY <1>1, Empty DEF Covers
<1>3. OwnTypes
  BY <1>1, <1>2 DEF OwnTypes
<1>4. ASSUME NEW t \in Types PROVE UnitsOf(t) <= made[t]
  <2>1. Worn(t) = 0
    <3>1. {p \in Parts : equipment[p] = t} = {}
      BY <1>1, BelongingsAssumption
    <3> QED BY <3>1, FS_EmptySet DEF Worn
  <2> QED BY <1>1, <1>2, <2>1 DEF UnitsOf
<1> QED BY <1>1, <1>3, <1>4, GoldStart DEF BelongingsInv, NothingIsDuplicated

\* Every step keeps it.
LEMMA BelongingsStep == BelongingsInv /\ [Next]_vars => BelongingsInv'
<1> SUFFICES ASSUME BelongingsInv, [Next]_vars PROVE BelongingsInv'
  OBVIOUS
<1>1. OwnTypes /\ made \in [Types -> Nat] /\ GoldInv /\ alive \in BOOLEAN
  BY DEF BelongingsInv
<1>2. GoodStep
  BY <1>1, ItemStep
<1>3. OwnTypes' /\ made' \in [Types -> Int] /\ \A t \in Types : Missing(t)' >= Missing(t)
  BY <1>2 DEF GoodStep
<1>4. ASSUME NEW t \in Types PROVE made'[t] \in Nat /\ UnitsOf(t)' <= made'[t]
  <2>1. UnitsOf(t) \in Nat /\ made[t] \in Nat /\ UnitsOf(t) <= made[t]
    BY <1>1, Account DEF UnitsOf, Worn, Wearing, BelongingsInv, NothingIsDuplicated
  <2>2. UnitsOf(t)' \in Nat
    <3>1. UnitsIn(inv', t) \in Nat /\ safe_box'[t] \in Nat /\ floor'[t] \in Nat
      BY <1>3, CoversIs DEF OwnTypes
    <3>2. Worn(t)' \in Nat
      BY WearingIsFinite DEF Worn, Wearing
    <3> QED BY <3>1, <3>2 DEF UnitsOf
  <2>3. made'[t] \in Int /\ made'[t] - UnitsOf(t)' >= made[t] - UnitsOf(t)
    BY <1>3 DEF Missing
  <2> QED BY <2>1, <2>2, <2>3
<1>5. made' \in [Types -> Nat]
  BY <1>3, <1>4
<1>6. NothingIsDuplicated'
  BY <1>4 DEF NothingIsDuplicated
<1>7. alive' \in BOOLEAN
  BY <1>1 DEF Next, Trade, Find, Carry, Bank, Buy, Sell, CreatureDropsItem, PickUpItem,
     CreatureDropsGold, PickUpGold, OpenTreasure, DropItem, EquipItem, UnequipItem,
     DepositItem, WithdrawItem, DepositGold, WithdrawGold, Die, Resurrect, Relogin, vars
<1> QED BY <1>1, <1>3, <1>5, <1>6, <1>7, GoldStep DEF BelongingsInv

\* For any bag, in any order of purchases, swaps, deaths and logins, no slot
\* holds more than it may and size_current is never behind the slots.
THEOREM SizeCorrect == Spec => []SizeCoversTheSlots
<1>1. BelongingsInv => SizeCoversTheSlots
  BY DEF BelongingsInv, OwnTypes, Covers, GoldInv, SizeCoversTheSlots, TypeOK
<1> QED BY BelongingsStart, BelongingsStep, <1>1, PTL DEF Spec

\* No unit of any item is ever made out of another.
THEOREM ItemsCorrect == Spec => []NothingIsDuplicated
<1>1. BelongingsInv => NothingIsDuplicated
  BY DEF BelongingsInv
<1> QED BY BelongingsStart, BelongingsStep, <1>1, PTL DEF Spec

\* A unit is only lost when the bag that should take it is full.
THEOREM LossCorrect == Spec => LossNeedsAFullBag
<1>1. BelongingsInv /\ [Next]_vars =>
        [\A t \in Types : Missing(t)' > Missing(t) =>
           isInventoryFull(inv) \/ isInventoryFull(inv') \/ Holding(inv', None) = {}]_vars
  BY ItemStep DEF BelongingsInv, GoodStep, Bag
<1> QED BY BelongingsStart, BelongingsStep, <1>1, PTL DEF Spec, LossNeedsAFullBag
=============================================================================
